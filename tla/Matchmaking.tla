----------------------------- MODULE Matchmaking -----------------------------
(***************************************************************************)
(* Open matches.  A user opens a match on a free slot, which is then held  *)
(* until registration ends; others join, pay and leave; the creator or an  *)
(* admin cancels; payments confirm the match when the last player has      *)
(* paid; a cron settles what is still open when registration has ended.    *)
(*                                                                         *)
(* Every handler is one transaction: an action that loads its rows into    *)
(* the goroutine's task, and one that writes and commits.  JoinMatch,      *)
(* LeaveMatch and CancelMatch load the match row FOR UPDATE and CreateMatch *)
(* the slot row; payments, the admin and the cron load without a lock and  *)
(* save what they loaded.  A payment reads the player's row first, and     *)
(* saves it as paid in a step of its own.                                  *)
(***************************************************************************)
EXTENDS Integers, FiniteSets

CONSTANTS
  Slots, Matches, Users,
  Hosts,      \* the users who open matches
  Workers,    \* request goroutines; a goroutine handles one request at a time
  None,       \* no slot, no user
  Required,   \* required_players of every match
  MaxBuyers,  \* bound on the customers who book the whole slot
  Hazards     \* what the environment may do: see below

(***************************************************************************)
(* "overlap":   the cron and requests work at the same time.               *)
(* "late":      a player pays after having left, leaves while the own      *)
(*              payment is handled, or pays when the match is settled.     *)
(* "redeliver": a payment is reported again.                               *)
(***************************************************************************)
ASSUME MatchmakingAssumption ==
  /\ None \notin Slots \cup Users /\ Hosts \subseteq Users
  /\ IsFiniteSet(Users) /\ Required \in Nat /\ Required >= 2
  /\ MaxBuyers \in Nat
  /\ Hazards \subseteq {"overlap", "late", "redeliver"}

VARIABLES
  slot,    \* slots: booked, whether a hold until registration end is set, status
  over,    \* slots whose registration end has passed
  match,   \* matches
  player,  \* match_players; "absent": no row
  purse,   \* purse[m][u]: u's money for m
  buyers,  \* buyers[s]: how many customers have bought the whole slot
  task,    \* what the request goroutines have loaded
  due      \* what the cron has loaded

mvars == <<slot, over, match, player, purse, buyers, task, due>>

SlotRow == [booked : BOOLEAN, hold : BOOLEAN,
            mm : {"none", "open_for_players", "closed", "failed"}]
MatchRow == [status : {"absent", "open", "full", "confirmed", "cancelled", "expired"},
             slot : Slots \cup {None}, creator : Users \cup {None}, cur : 0..Required]
Player == {"absent", "joined", "paid", "cancelled", "refunded"}
Purse == {"none", "charged", "returned"}
Team == [Users -> Player]

\* mt, sl and team are the match, slot and player rows a request has loaded.
Tx == [op : {"create", "join"}, m : Matches, u : Users, mt : MatchRow, sl : SlotRow]
        \cup [op : {"leave"}, m : Matches, u : Users, mt : MatchRow, st : Player]
        \cup [op : {"cancel", "admin"}, m : Matches, mt : MatchRow, team : Team]
        \cup [op : {"paying"}, m : Matches, u : Users]
        \cup [op : {"pay"}, m : Matches, u : Users, mt : MatchRow, team : Team,
              sl : SlotRow]
Idle == [op |-> "idle"]
Due == [m : Matches, mt : MatchRow, team : Team]

FreeRow == [booked |-> FALSE, hold |-> FALSE, mm |-> "none"]
NoMatch == [status |-> "absent", slot |-> None, creator |-> None, cur |-> 0]
Nobody == [u \in Users |-> "absent"]
-----------------------------------------------------------------------------
Active(T) == {u \in Users : T[u] \in {"joined", "paid"}}
Registering(m) == match[m].status \in {"open", "full"}
SlotOf(m) == match[m].slot

\* Rows locked by a transaction under way: writers and other lockers wait.
SlotLocked(s) == \E w \in Workers : task[w].op = "create" /\ task[w].mt.slot = s
Mut_NotLocked(m) == FALSE

MatchLocked(m) == \E w \in Workers : task[w].op \in {"join", "leave", "cancel"}
                                     /\ task[w].m = m
\* u's payment for m is handled: the row was read, and is not locked yet.
PaymentUnderWay(m, u) == \E w \in Workers : /\ task[w].op = "paying"
                                            /\ task[w].m = m /\ task[w].u = u

LeaveUnderWay(m, u) == \E w \in Workers : /\ task[w].op = "leave"
                                          /\ task[w].m = m /\ task[w].u = u

PlayerLocked(m, u) == \E w \in Workers : /\ task[w].op = "pay"
                                         /\ task[w].m = m /\ task[w].u = u

\* Without "overlap" the transactions follow one another.
MayBegin == \/ "overlap" \in Hazards
            \/ due = {} /\ \A w \in Workers : task[w] = Idle

Begin(w, t) ==
  /\ task[w] = Idle /\ MayBegin
  /\ task' = [task EXCEPT ![w] = t]

Done(w) == task' = [task EXCEPT ![w] = Idle]

\* HoldExpiresAt is the registration end.
Held(s) == slot[s].hold /\ s \notin over
-----------------------------------------------------------------------------
MInit ==
  /\ slot = [s \in Slots |-> FreeRow]
  /\ over = {}
  /\ match = [m \in Matches |-> NoMatch]
  /\ player = [m \in Matches |-> Nobody]
  /\ purse = [m \in Matches |-> [u \in Users |-> "none"]]
  /\ buyers = [s \in Slots |-> 0]
  /\ task = [w \in Workers |-> Idle]
  /\ due = {}

RegistrationEnds(s) ==
  /\ s \notin over
  /\ over' = over \cup {s}
  /\ UNCHANGED <<slot, match, player, purse, buyers, task, due>>

\* A customer books the whole slot and pays: CreateBooking and its webhook,
\* which module Checkout has in detail.
BookSlot(s) ==
  /\ MayBegin
  /\ ~slot[s].booked /\ ~Held(s) /\ ~SlotLocked(s)
  /\ buyers[s] < MaxBuyers
  /\ slot' = [slot EXCEPT ![s].booked = TRUE, ![s].hold = FALSE]
  /\ buyers' = [buyers EXCEPT ![s] = @ + 1]
  /\ UNCHANGED <<over, match, player, purse, task, due>>
-----------------------------------------------------------------------------
(* CreateMatch.                                                            *)

\* Booked, held, or with a match that is not settled.
SlotTaken(s) == \/ slot[s].booked \/ Held(s)
                \/ \E m \in Matches : Registering(m) /\ SlotOf(m) = s

CreateMatchLock(w, m, s, u) ==
  /\ match[m] = NoMatch
  /\ \A v \in Workers : task[v] # Idle => task[v].m # m
  /\ ~SlotLocked(s) /\ ~SlotTaken(s)
  /\ Begin(w, [op |-> "create", m |-> m, u |-> u, sl |-> slot[s],
               mt |-> [status |-> "open", slot |-> s, creator |-> u, cur |-> 1]])
  /\ UNCHANGED <<slot, over, match, player, purse, buyers, due>>

CreateMatchCommit(w) ==
  LET t == task[w] IN
  /\ t.op = "create"
  /\ slot' = [slot EXCEPT ![t.mt.slot] =
                [t.sl EXCEPT !.hold = TRUE, !.mm = "open_for_players"]]
  /\ match' = [match EXCEPT ![t.m] = t.mt]
  /\ player' = [player EXCEPT ![t.m][t.u] = "joined"]
  /\ Done(w)
  /\ UNCHANGED <<over, purse, buyers, due>>
-----------------------------------------------------------------------------
(* JoinMatch.  Who has left keeps a row, and the unique index on match and *)
(* user refuses the INSERT of another one.                                 *)

Mut_NotFull(r) == r.status \in {"open", "full"}

HasRoom(r) == r.status = "open" /\ r.cur < Required

CanJoin(m, u) == /\ HasRoom(match[m]) /\ SlotOf(m) \notin over
                 /\ player[m][u] = "absent"

JoinMatchLock(w, m, u) ==
  /\ CanJoin(m, u) /\ ~MatchLocked(m)
  /\ Begin(w, [op |-> "join", m |-> m, u |-> u, mt |-> match[m], sl |-> slot[SlotOf(m)]])
  /\ UNCHANGED <<slot, over, match, player, purse, buyers, due>>

Mut_Joined(r) == [r EXCEPT !.status = IF r.cur + 1 >= Required THEN "full" ELSE @]

Joined(r) == [r EXCEPT !.cur = @ + 1,
                       !.status = IF r.cur + 1 >= Required THEN "full" ELSE @]

\* The slot row is saved as it was loaded, with a new player count.
JoinMatchCommit(w) ==
  LET t == task[w] IN
  /\ t.op = "join" /\ ~SlotLocked(t.mt.slot)
  /\ player' = [player EXCEPT ![t.m][t.u] = "joined"]
  /\ match' = [match EXCEPT ![t.m] = Joined(t.mt)]
  /\ slot' = [slot EXCEPT ![t.mt.slot] = t.sl]
  /\ Done(w)
  /\ UNCHANGED <<over, purse, buyers, due>>
-----------------------------------------------------------------------------
(* LeaveMatch: whatever the status of the match.                           *)

CanLeave(m, u) == u \in Active(player[m]) /\ u # match[m].creator

LeaveMatchLock(w, m, u) ==
  /\ CanLeave(m, u) /\ ~MatchLocked(m)
  /\ "late" \notin Hazards => ~PaymentUnderWay(m, u)
  /\ Begin(w, [op |-> "leave", m |-> m, u |-> u, mt |-> match[m], st |-> player[m][u]])
  /\ UNCHANGED <<slot, over, match, player, purse, buyers, due>>

Left(r) == [r EXCEPT !.cur = IF @ > 0 THEN @ - 1 ELSE 0,
                     !.status = IF @ = "full" THEN "open" ELSE @]

Gone(st) == IF st = "paid" THEN "refunded" ELSE "cancelled"

Returned(m, S) ==
  [purse EXCEPT ![m] = [u \in Users |-> IF u \in S /\ @[u] = "charged" THEN "returned"
                                                                       ELSE @[u]]]

PaidIn(T) == {u \in Users : T[u] = "paid"}

\* Whose money the gateway is asked to return, before the rows are written.
Refunds(t) == CASE t.op = "leave" -> IF t.st = "paid" THEN {t.u} ELSE {}
                [] t.op \in {"cancel", "admin"} -> PaidIn(t.team)
                [] OTHER -> {}

\* The waitlist that comes next in the code is always empty: no player is
\* ever given the status "waitlisted".
LeaveMatchCommit(w) ==
  LET t == task[w] IN
  /\ t.op = "leave" /\ ~PlayerLocked(t.m, t.u) /\ ~SlotLocked(t.mt.slot)
  /\ player' = [player EXCEPT ![t.m][t.u] = Gone(t.st)]
  /\ purse' = Returned(t.m, Refunds(t))
  /\ match' = [match EXCEPT ![t.m] = Left(t.mt)]
  /\ Done(w)
  /\ UNCHANGED <<slot, over, buyers, due>>
-----------------------------------------------------------------------------
(* Closing a match: every player who was loaded is refunded or cancelled,  *)
(* the match row is saved with its new status and the slot is freed.       *)

\* Loaded players are written as they are closed; rows inserted since stay.
Closed(m, T) == [player EXCEPT ![m] = [u \in Users |-> IF T[u] = "absent" THEN @[u]
                                                       ELSE Gone(T[u])]]

PlayersFree(m, T) == \A u \in Users : T[u] # "absent" => ~PlayerLocked(m, u)

Close(m, r, T, st, mm) ==
  /\ PlayersFree(m, T)
  /\ ~SlotLocked(r.slot)
  /\ player' = Closed(m, T)
  /\ purse' = Returned(m, PaidIn(T))
  /\ match' = [match EXCEPT ![m] = [r EXCEPT !.status = st]]
  /\ slot' = [slot EXCEPT ![r.slot] = [FreeRow EXCEPT !.mm = mm]]

Cancellable(m) == match[m].status \in {"open", "full", "confirmed"}

CancelMatchLock(w, m) ==
  /\ Cancellable(m) /\ ~MatchLocked(m)
  /\ Begin(w, [op |-> "cancel", m |-> m, mt |-> match[m], team |-> player[m]])
  /\ UNCHANGED <<slot, over, match, player, purse, buyers, due>>

CancelMatchCommit(w) ==
  LET t == task[w] IN
  /\ t.op = "cancel"
  /\ Close(t.m, t.mt, t.team, "cancelled", "none")
  /\ Done(w)
  /\ UNCHANGED <<over, buyers, due>>

AdminCancelMatchLoad(w, m) ==
  /\ Cancellable(m)
  /\ Begin(w, [op |-> "admin", m |-> m, mt |-> match[m], team |-> player[m]])
  /\ UNCHANGED <<slot, over, match, player, purse, buyers, due>>

AdminCancelMatchCommit(w) ==
  LET t == task[w] IN
  /\ t.op = "admin" /\ ~MatchLocked(t.m)
  /\ Close(t.m, t.mt, t.team, "cancelled", "none")
  /\ Done(w)
  /\ UNCHANGED <<over, buyers, due>>
-----------------------------------------------------------------------------
(* ProcessMatchPayment, in HandlePaymentWebhook.                           *)

\* The player's row is read, whatever its status and without a lock.
ProcessMatchPaymentRead(w, m, u) ==
  /\ player[m][u] # "absent"
  /\ "late" \notin Hazards => player[m][u] \in {"joined", "paid"} /\ ~LeaveUnderWay(m, u)
  /\ purse[m][u] # "none" => "redeliver" \in Hazards
  /\ purse' = [purse EXCEPT ![m][u] = IF @ = "none" THEN "charged" ELSE @]
  /\ Begin(w, [op |-> "paying", m |-> m, u |-> u])
  /\ UNCHANGED <<slot, over, match, player, buyers, due>>

\* It is saved as paid, which locks it and is seen by this transaction only.
\* Then match, players and slot are read.
ProcessMatchPaymentMark(w) ==
  LET m == task[w].m
      u == task[w].u
  IN /\ task[w].op = "paying" /\ ~PlayerLocked(m, u)
     /\ task' = [task EXCEPT ![w] =
          [op |-> "pay", m |-> m, u |-> u, mt |-> match[m],
           team |-> [player[m] EXCEPT ![u] = "paid"], sl |-> slot[SlotOf(m)]]]
     /\ UNCHANGED <<slot, over, match, player, purse, buyers, due>>

\* Nobody who has joined is unpaid, and enough have paid.
Complete(T) == /\ \A u \in Users : T[u] # "joined"
               /\ Cardinality(PaidIn(T)) >= Required

\* No other payment has locked a player whom w will save with the match.
TeamFree(w) == \A v \in Workers \ {w} :
  task[v].op = "pay" /\ task[v].m = task[w].m => task[w].team[task[v].u] = "absent"

ProcessMatchPaymentCommit(w) ==
  LET t == task[w] IN
  /\ t.op = "pay"
  /\ player' = [player EXCEPT ![t.m][t.u] = "paid"]
  /\ \/ /\ Complete(t.team) /\ ~MatchLocked(t.m) /\ TeamFree(w) /\ ~SlotLocked(t.mt.slot)
        /\ slot' = [slot EXCEPT ![t.mt.slot] =
                      [t.sl EXCEPT !.booked = TRUE, !.mm = "closed"]]
        /\ match' = [match EXCEPT ![t.m] = [t.mt EXCEPT !.status = "confirmed"]]
     \/ ~Complete(t.team) /\ UNCHANGED <<slot, match>>
  /\ Done(w)
  /\ UNCHANGED <<over, purse, buyers, due>>
-----------------------------------------------------------------------------
(* Deadlocks.  A payment that completes the match takes the rows of its     *)
(* player, the slot, the match and the other players in this order, an      *)
(* admin those of the players, the match and the slot; the others begin     *)
(* with the match.                                                          *)

Completes(t) == t.op = "pay" /\ Complete(t.team)

Deadlocked(p, t) ==
  /\ \/ Completes(p) /\ (t.op \in {"join", "leave", "cancel", "admin"} \/ Completes(t))
     \/ p.op = "admin" /\ t.op = "cancel"
     \/ p.op = "admin" /\ t.op = "leave" /\ p.team[t.u] # "absent"
  /\ p.m = t.m

\* The cron takes the match and its players together, and the slot at the end.
LastToCome(t, c) == c.team[t.u] = "absent" /\ c.mt.cur < Required
CronDeadlocked(t, c) ==
  /\ \/ t.op = "admin"
     \/ Completes(t) /\ (c.team[t.u] # "absent" \/ LastToCome(t, c))
  /\ t.m = c.m

\* The database rolls one of the two back.  Refunds have been asked for by then.
\* A payment is answered and its event recorded all the same: the errors of its
\* writes are ignored.
DeadlockVictim(w) ==
  LET t == task[w] IN
  /\ \/ \E v \in Workers \ {w} : Deadlocked(t, task[v]) \/ Deadlocked(task[v], t)
     \/ \E c \in due : CronDeadlocked(t, c)
  /\ purse' = Returned(t.m, Refunds(t))
  /\ Done(w)
  /\ UNCHANGED <<slot, over, match, player, buyers, due>>
-----------------------------------------------------------------------------
(* processExpiredMatches.                                                  *)

Mut_OpenOnly(m) == match[m].status = "open" /\ SlotOf(m) \in over

Overdue(m) == Registering(m) /\ SlotOf(m) \in over

ProcessExpiredMatchesLoad ==
  /\ due = {} /\ MayBegin
  /\ due' = {[m |-> m, mt |-> match[m], team |-> player[m]] :
               m \in {x \in Matches : Overdue(x)}}
  /\ due' # {}
  /\ UNCHANGED <<slot, over, match, player, purse, buyers, task>>

\* A match that has its players is confirmed, paid or not, and its slot is
\* left as it is; any other one expires.
ExpireMatch ==
  \E c \in due :
    /\ ~MatchLocked(c.m) /\ PlayersFree(c.m, c.team)
    /\ \/ /\ c.mt.cur >= Required
          /\ match' = [match EXCEPT ![c.m] = [c.mt EXCEPT !.status = "confirmed"]]
          /\ UNCHANGED <<slot, player, purse>>
       \/ /\ c.mt.cur < Required
          /\ Close(c.m, c.mt, c.team, "expired", "failed")
    /\ due' = due \ {c}
    /\ UNCHANGED <<over, buyers, task>>

\* The cron is rolled back: it refunds after it has the match and its players.
ExpiryVictim ==
  \E c \in due, w \in Workers :
    /\ CronDeadlocked(task[w], c)
    /\ purse' = IF Completes(task[w]) /\ LastToCome(task[w], c)
                THEN Returned(c.m, PaidIn(c.team)) ELSE purse
    /\ due' = due \ {c}
    /\ UNCHANGED <<slot, over, match, player, buyers, task>>
-----------------------------------------------------------------------------
Request(w) ==
  \E m \in Matches :
    \/ CancelMatchLock(w, m) \/ AdminCancelMatchLoad(w, m)
    \/ \E s \in Slots, u \in Hosts : CreateMatchLock(w, m, s, u)
    \/ \E u \in Users : \/ JoinMatchLock(w, m, u) \/ LeaveMatchLock(w, m, u)
                        \/ ProcessMatchPaymentRead(w, m, u)

Commit(w) ==
  \/ CreateMatchCommit(w) \/ JoinMatchCommit(w) \/ LeaveMatchCommit(w)
  \/ CancelMatchCommit(w) \/ AdminCancelMatchCommit(w) \/ ProcessMatchPaymentCommit(w)

GoesOn(w) == ProcessMatchPaymentMark(w) \/ Commit(w)

MNext ==
  \/ \E w \in Workers : Request(w) \/ GoesOn(w) \/ DeadlockVictim(w)
  \/ ProcessExpiredMatchesLoad \/ ExpireMatch \/ ExpiryVictim
  \/ \E s \in Slots : RegistrationEnds(s) \/ BookSlot(s)

MSpec == MInit /\ [][MNext]_mvars

(***************************************************************************)
(* Goroutines go on, deadlocks are resolved, and the ticker of the cron    *)
(* fires for ever.  Who waits for a row gets it in its turn.               *)
(***************************************************************************)
MFairness ==
  /\ \A w \in Workers : SF_mvars(GoesOn(w))
  /\ WF_mvars(\E w \in Workers : DeadlockVictim(w))
  /\ WF_mvars(ProcessExpiredMatchesLoad) /\ SF_mvars(ExpireMatch)

MFairSpec == MSpec /\ MFairness
-----------------------------------------------------------------------------
\* Types of the rows, of what is loaded and of the money.
MTypeOK ==
  /\ slot \in [Slots -> SlotRow]
  /\ over \subseteq Slots
  /\ match \in [Matches -> MatchRow]
  /\ player \in [Matches -> Team]
  /\ purse \in [Matches -> [Users -> Purse]]
  /\ buyers \in [Slots -> 0..MaxBuyers]
  /\ task \in [Workers -> Tx \cup {Idle}]
  /\ due \subseteq Due

\* The counter of a match that takes players is exact, however joins, leaves,
\* payments, cancellations and the cron are interleaved, and a match is "full"
\* exactly when all places are taken.  So a place is never given away twice.
CountIsExact ==
  \A m \in Matches : Registering(m) =>
    /\ match[m].cur = Cardinality(Active(player[m]))
    /\ match[m].cur <= Required
    /\ match[m].status = "full" <=> match[m].cur = Required

\* Nobody joins beyond required_players, whatever happens to the match later.
NeverOverfull ==
  \A m \in Matches : Cardinality(Active(player[m])) <= Required

\* Two matches never compete for one slot's players.
OneMatchPerSlot ==
  \A m, n \in Matches : Registering(m) /\ Registering(n) /\ SlotOf(m) = SlotOf(n) => m = n

\* A match that was confirmed, cancelled or has expired never takes players again,
\* although each request saves a whole row that it loaded earlier.
SettledIsFinal ==
  [][\A m \in Matches : match[m].status \in {"confirmed", "cancelled", "expired"} =>
       match'[m].status \notin {"open", "full"}]_mvars

\* Who got the money back does not play.
RefundedIsOut ==
  \A m \in Matches : \A u \in Users :
    purse[m][u] = "returned" => u \notin Active(player[m])

\* Who has left, or whose match was cancelled or has expired, has the money
\* back.
NoMoneyLost ==
  \A m \in Matches : \A u \in Users :
    player[m][u] \in {"cancelled", "refunded"} => purse[m][u] # "charged"

\* The players of a confirmed match have paid, and they are enough.
ConfirmedIsPaid ==
  \A m \in Matches : match[m].status = "confirmed" => Complete(player[m])

\* A slot has one party: a customer who bought it, or a confirmed match.
NoDoubleBooking ==
  \A s \in Slots :
    buyers[s] + Cardinality({m \in Matches : match[m].status = "confirmed"
                                             /\ SlotOf(m) = s}) <= 1

\* When registration has ended, a match does not stay open.
MatchIsSettled ==
  \A m \in Matches : Registering(m) /\ SlotOf(m) \in over ~> ~Registering(m)
=============================================================================
