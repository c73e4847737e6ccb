------------------------------- MODULE MatchBoard -------------------------------
(***************************************************************************)
(* The match page of one browser, on top of the server of Matchmaking.     *)
(*                                                                         *)
(* User Me clicks; a click sends a call; the server handles it, or refuses *)
(* it, and later its answer changes the page.  The list of matches is      *)
(* fetched again after a change of filter and after each call that was     *)
(* accepted.  Answers arrive in any order.  The other users and the cron   *)
(* act on the server directly, one transaction at a time.                  *)
(*                                                                         *)
(* The page's own web socket has no action: it waits for messages with a   *)
(* field "event", and the hub sends none.                                  *)
(***************************************************************************)
EXTENDS Matchmaking

CONSTANTS
  Me,
  Calls,    \* bound on the calls under way
  Fetches,  \* bound on the list requests under way
  Filters,  \* options of the status filter that the user tries
  Troubles  \* bound on the calls that are lost and the reloads

ASSUME MatchBoardAssumption ==
  /\ Me \in Users /\ None \notin Matches
  /\ Filters \subseteq {"open", "active", "confirmed", "cancelled"} /\ "open" \in Filters
  /\ Troubles \in Nat
  /\ "overlap" \notin Hazards

VARIABLES
  call,    \* calls of this browser: what they ask for, who handles them
  filter,  \* the selected filter
  list,    \* the cards on the page
  loading, \* is a spinner in the place of the cards
  fetch,   \* list requests: not sent, sent, answered
  create, submitting,  \* is the create dialog open, is its button disabled
  detail,  \* the card whose squad is shown, or None
  pay,     \* the match of the payment terminal, or None
  troubles \* how often a call was lost or the page loaded again

page == <<filter, list, loading, create, submitting, detail, pay>>
bvars == <<mvars, call, fetch, page, troubles>>

\* A card is what the list says about a match.
Card == [m : Matches, status : {"open", "full", "confirmed", "cancelled"},
         full : BOOLEAN, mine : BOOLEAN, st : Player]
Call == {k \in [op : {"create", "join", "leave", "cancel", "pay"}, m : Matches,
                slot : Slots \cup {None}, filter : Filters,
                at : {"sent", "running", "ok", "refused"}, page : BOOLEAN,
                by : Workers \cup {None}] : k.op = "create" => k.slot \in Slots}
Free == [at |-> "none"]
Fetch == [at : {"sent"}, filter : Filters] \cup [at : {"answered"}, cards : SUBSET Card]
-----------------------------------------------------------------------------
(* The list.                                                               *)

Listed(m, f) == IF f = "active" THEN Registering(m) ELSE match[m].status = f

CardOf(m) == [m |-> m, status |-> match[m].status, full |-> match[m].cur >= Required,
              mine |-> match[m].creator = Me, st |-> player[m][Me]]

\* fetchMatches, with the filter its caller sees.
AskMatches(f) ==
  /\ \E i \in Fetches : /\ fetch[i] = Free
                        /\ fetch' = [fetch EXCEPT ![i] = [at |-> "sent", filter |-> f]]
  /\ loading' = TRUE

ListMatches(i) ==
  /\ fetch[i].at = "sent"
  /\ fetch' = [fetch EXCEPT ![i] =
       [at |-> "answered", cards |-> {CardOf(m) : m \in {x \in Matches : Listed(x, @.filter)}}]]
  /\ UNCHANGED <<mvars, call, page, troubles>>

ShowMatches(i) ==
  /\ fetch[i].at = "answered"
  /\ list' = fetch[i].cards /\ loading' = FALSE
  /\ fetch' = [fetch EXCEPT ![i] = Free]
  /\ UNCHANGED <<mvars, call, filter, create, submitting, detail, pay, troubles>>

\* Dialogs cover the page and each other: payment over squad over form.
Uncovered == detail = None /\ pay = None

\* The cards can be clicked.
Cards == Uncovered /\ ~create /\ ~loading

SelectFilter(f) ==
  /\ Uncovered /\ ~create /\ filter # f
  /\ filter' = f /\ AskMatches(f)
  /\ UNCHANGED <<mvars, call, list, create, submitting, detail, pay, troubles>>
-----------------------------------------------------------------------------
(* Clicks.                                                                 *)

\* The answer is handled by the closure of the click: it fetches the list with
\* the filter of that moment.
Send(c, o, m, s) ==
  /\ call[c] = Free
  /\ call' = [call EXCEPT ![c] = [op |-> o, m |-> m, slot |-> s, filter |-> filter,
                                  at |-> "sent", page |-> TRUE, by |-> None]]

OpenCreateModal ==
  /\ Uncovered /\ ~create /\ create' = TRUE
  /\ UNCHANGED <<mvars, call, fetch, filter, list, loading, submitting, detail, pay, troubles>>

Mut_CloseCreateModal ==
  /\ Uncovered /\ create /\ create' = FALSE /\ submitting' = FALSE
  /\ UNCHANGED <<mvars, call, fetch, filter, list, loading, detail, pay, troubles>>

CloseCreateModal ==
  /\ Uncovered /\ create /\ create' = FALSE
  /\ UNCHANGED <<mvars, call, fetch, filter, list, loading, submitting, detail, pay, troubles>>

\* The form offers the slots that were free when it was opened.
HandleCreateMatch(c) ==
  /\ Uncovered /\ create /\ ~submitting /\ submitting' = TRUE
  /\ \E s \in Slots, m \in Matches : match[m] = NoMatch /\ Send(c, "create", m, s)
  /\ UNCHANGED <<mvars, fetch, filter, list, loading, create, detail, pay, troubles>>

\* The cards with a Join button.
Joinable(k) == k.st \in {"absent", "cancelled"} /\ k.status = "open" /\ ~k.full

Mut_HandleJoinMatch(c) ==
  /\ Cards
  /\ \E k \in list : Joinable(k) /\ Send(c, "join", k.m, None) /\ pay' = k.m
  /\ UNCHANGED <<mvars, fetch, filter, list, loading, create, submitting, detail, troubles>>

HandleJoinMatch(c) ==
  /\ Cards
  /\ \E k \in list : Joinable(k) /\ Send(c, "join", k.m, None)
  /\ UNCHANGED <<mvars, fetch, page, troubles>>

OpenDetail ==
  /\ Cards /\ detail' \in list
  /\ UNCHANGED <<mvars, call, fetch, filter, list, loading, create, submitting, pay, troubles>>

CloseDetail ==
  /\ detail # None /\ pay = None /\ detail' = None
  /\ UNCHANGED <<mvars, call, fetch, filter, list, loading, create, submitting, pay, troubles>>

HandleCancelMatch(c) ==
  /\ detail # None /\ pay = None /\ detail.mine
  /\ Send(c, "cancel", detail.m, None)
  /\ UNCHANGED <<mvars, fetch, page, troubles>>

HandleLeaveMatch(c) ==
  /\ detail # None /\ pay = None
  /\ detail.st \notin {"absent", "cancelled"} /\ ~detail.mine
  /\ Send(c, "leave", detail.m, None)
  /\ UNCHANGED <<mvars, fetch, page, troubles>>

\* The button stays enabled, and the result carries no event id.
HandlePayMockMatch(c) ==
  /\ pay # None
  /\ Send(c, "pay", pay, None)
  /\ UNCHANGED <<mvars, fetch, page, troubles>>

Trouble == troubles < Troubles /\ troubles' = troubles + 1

Reload ==
  /\ Trouble
  /\ call' = [c \in Calls |-> IF call[c].at \in {"sent", "running"}
                              THEN [call[c] EXCEPT !.page = FALSE] ELSE Free]
  /\ filter' = "open" /\ list' = {} /\ loading' = TRUE /\ create' = FALSE /\ submitting' = FALSE
  /\ detail' = None /\ pay' = None
  /\ \E i \in Fetches :
       fetch' = [j \in Fetches |-> IF j = i THEN [at |-> "sent", filter |-> "open"] ELSE Free]
  /\ UNCHANGED mvars
-----------------------------------------------------------------------------
(* The server handles a call.                                              *)

Admitted(k) ==
  CASE k.op = "create" -> match[k.m] = NoMatch /\ ~SlotTaken(k.slot)
    [] k.op = "join"   -> CanJoin(k.m, Me)
    [] k.op = "leave"  -> CanLeave(k.m, Me)
    [] k.op = "cancel" -> Cancellable(k.m) /\ match[k.m].creator = Me
    [] k.op = "pay"    -> TRUE

Handle(w, k) ==
  \/ k.op = "create" /\ CreateMatchLock(w, k.m, k.slot, Me)
  \/ k.op = "join" /\ JoinMatchLock(w, k.m, Me)
  \/ k.op = "leave" /\ LeaveMatchLock(w, k.m, Me)
  \/ k.op = "cancel" /\ CancelMatchLock(w, k.m)
  \/ k.op = "pay" /\ ProcessMatchPaymentRead(w, k.m, Me)

\* The answer finds the page that sent the call, or nobody.
Answer(k, answer) == IF k.page THEN [k EXCEPT !.at = answer, !.by = None] ELSE Free

Serve(c) ==
  /\ call[c].at = "sent"
  /\ \/ /\ Admitted(call[c])
        /\ \E w \in Workers : /\ Handle(w, call[c])
                              /\ call' = [call EXCEPT ![c].at = "running", ![c].by = w]
     \/ /\ MayBegin /\ ~Admitted(call[c])
        /\ call' = [call EXCEPT ![c] = Answer(@, "refused")]
        /\ UNCHANGED mvars
  /\ UNCHANGED <<fetch, page, troubles>>

\* What goroutine w has committed is the answer to the call it handles, if it
\* is one of this browser.
Finish(w) ==
  /\ Commit(w)
  /\ call' = [c \in Calls |-> IF call[c].at = "running" /\ call[c].by = w
                              THEN Answer(call[c], "ok") ELSE call[c]]
  /\ UNCHANGED <<fetch, page, troubles>>
-----------------------------------------------------------------------------
(* The answer of a call.                                                   *)

Mut_PayDialog(k) == IF k.op = "join" THEN k.m ELSE IF k.op = "pay" THEN None ELSE pay

PayDialog(k) == IF k.op \in {"create", "join"} THEN k.m
                ELSE IF k.op = "pay" THEN None ELSE pay

Answered(c) ==
  LET k == call[c] IN
  /\ k.at = "ok"
  /\ create' = (create /\ k.op # "create")
  /\ submitting' = (submitting /\ k.op # "create")
  /\ detail' = IF k.op \in {"leave", "cancel"} THEN None ELSE detail
  /\ pay' = PayDialog(k)
  /\ AskMatches(k.filter)
  /\ call' = [call EXCEPT ![c] = Free]
  /\ UNCHANGED <<mvars, filter, list, troubles>>

\* An error is shown, and the page stays as it is.
Refused(c) ==
  /\ call[c].at = "refused"
  /\ submitting' = (submitting /\ call[c].op # "create")
  /\ call' = [call EXCEPT ![c] = Free]
  /\ UNCHANGED <<mvars, fetch, filter, list, loading, create, detail, pay, troubles>>

\* The call never reaches the server, or its answer never reaches the page.
Lost(c) ==
  /\ Trouble /\ call[c].at \in {"sent", "ok"}
  /\ call' = [call EXCEPT ![c] = Answer(@, "refused")]
  /\ UNCHANGED <<mvars, fetch, page>>
-----------------------------------------------------------------------------
\* The others use the page too: they pay once, while they are in the match.
Others ==
  \E w \in Workers, m \in Matches : \E u \in Users \ {Me} :
    \/ u \in Hosts /\ \E s \in Slots : CreateMatchLock(w, m, s, u)
    \/ JoinMatchLock(w, m, u) \/ LeaveMatchLock(w, m, u)
    \/ match[m].creator = u /\ CancelMatchLock(w, m)
    \/ player[m][u] = "joined" /\ purse[m][u] = "none" /\ ProcessMatchPaymentRead(w, m, u)

Server ==
  /\ \/ Others \/ \E w \in Workers : ProcessMatchPaymentMark(w)
     \/ ProcessExpiredMatchesLoad \/ ExpireMatch
     \/ \E s \in Slots : RegistrationEnds(s)
  /\ UNCHANGED <<call, fetch, page, troubles>>

BInit ==
  /\ MInit
  /\ call = [c \in Calls |-> Free]
  /\ filter = "open" /\ list = {} /\ loading = TRUE
  /\ \E i \in Fetches :
       fetch = [j \in Fetches |-> IF j = i THEN [at |-> "sent", filter |-> "open"] ELSE Free]
  /\ create = FALSE /\ submitting = FALSE /\ detail = None /\ pay = None
  /\ troubles = 0

Click(c) ==
  \/ HandleCreateMatch(c) \/ HandleJoinMatch(c) \/ HandleLeaveMatch(c)
  \/ HandleCancelMatch(c) \/ HandlePayMockMatch(c)

Reply(c) == Answered(c) \/ Refused(c)

BNext ==
  \/ \E c \in Calls : Click(c) \/ Serve(c) \/ Reply(c) \/ Lost(c)
  \/ \E i \in Fetches : ListMatches(i) \/ ShowMatches(i)
  \/ \E f \in Filters : SelectFilter(f)
  \/ OpenCreateModal \/ CloseCreateModal \/ OpenDetail \/ CloseDetail \/ Reload
  \/ Server \/ \E w \in Workers : Finish(w)

BSpec == BInit /\ [][BNext]_bvars

-----------------------------------------------------------------------------
\* Type invariant of the page, its calls and its list requests.
BTypeOK ==
  /\ MTypeOK
  /\ call \in [Calls -> Call \cup {Free}] /\ fetch \in [Fetches -> Fetch \cup {Free}]
  /\ filter \in Filters /\ list \subseteq Card /\ loading \in BOOLEAN
  /\ create \in BOOLEAN /\ submitting \in BOOLEAN
  /\ detail \in Card \cup {None} /\ pay \in Matches \cup {None}
  /\ troubles \in 0..Troubles

\* A place that was taken can be paid for: who has joined, or opened, a match
\* has the payment terminal for it, or a call under way that opens it, as long as no
\* answer was lost, the page was not loaded again, and it is the user's only
\* match.  (The answers about a second match replace or close the terminal.)
UnpaidCanPay ==
  troubles = 0 =>
  \A m \in Matches :
    /\ Registering(m) /\ player[m][Me] = "joined"
    /\ \A n \in Matches \ {m} : player[n][Me] = "absent"
    =>
      \/ pay = m
      \/ \E c \in Calls : call[c] # Free /\ call[c].m = m /\ call[c].page
                          /\ call[c].op \in {"create", "join"}

\* Nobody is asked to pay for a match without having taken a place in it.
TerminalIsMine == pay # None => player[pay][Me] # "absent"

\* The form is not sent twice: while it is on its way its button is disabled,
\* although the dialog can be closed and opened again.
SubmittedOnce ==
  \A c, d \in Calls :
    /\ call[c] # Free /\ call[c].op = "create" /\ call[c].page
    /\ call[d] # Free /\ call[d].op = "create" /\ call[d].page
    => c = d
=============================================================================
