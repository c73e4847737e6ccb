------------------------------ MODULE MatchProofs ------------------------------
(***************************************************************************)
(* Proofs about Matchmaking, and about MatchBoard, the page on top of it,  *)
(* for any slots, matches, users, goroutines, calls and list requests.     *)
(*                                                                         *)
(* A commit of Matchmaking writes the rows of one match.  StepOnMatch says *)
(* once what such a step may do without harm to what the other requests    *)
(* have loaded; each commit is shown to be one, and its own effect on the  *)
(* places is counted.  MatchBoard's theorems hold for payments that are    *)
(* late or repeated, and a server whose transactions follow one another.   *)
(***************************************************************************)
EXTENDS MatchBoard, MatchmakingInv, TLAPS, FiniteSetTheorems

Lockers == {"join", "leave", "cancel"}

(* Sets of players.                                                        *)
LEMMA ActiveFinite ==
  ASSUME NEW T
  PROVE  /\ IsFiniteSet(Active(T)) /\ Cardinality(Active(T)) \in Nat
         /\ Active(T) \subseteq Users
<1>1. IsFiniteSet(Users) /\ Active(T) \subseteq Users
  BY MatchmakingAssumption DEF Active
<1>2. IsFiniteSet(Active(T))
  BY <1>1, FS_Subset
<1> QED BY <1>1, <1>2, FS_CardinalityType

LEMMA FewerUsers ==
  ASSUME NEW R \in SUBSET Users, NEW S \in SUBSET R
  PROVE  /\ Cardinality(R) \in Nat /\ Cardinality(S) \in Nat
         /\ Cardinality(S) <= Cardinality(R)
<1>1. IsFiniteSet(R)
  BY MatchmakingAssumption, FS_Subset
<1> QED BY <1>1, FS_Subset, FS_CardinalityType

LEMMA OneMoreActive ==
  ASSUME NEW T \in Team, NEW u \in Users, T[u] = "absent"
  PROVE  LET U == [T EXCEPT ![u] = "joined"]
         IN Cardinality(Active(U)) = Cardinality(Active(T)) + 1
<1> DEFINE U == [T EXCEPT ![u] = "joined"]
<1>1. Active(U) = Active(T) \cup {u} /\ u \notin Active(T)
  BY DEF Active, Team
<1> QED BY <1>1, ActiveFinite, FS_AddElement

LEMMA OneLessActive ==
  ASSUME NEW T \in Team, NEW u \in Active(T), NEW st, st \notin {"joined", "paid"}
  PROVE  LET U == [T EXCEPT ![u] = st]
         IN Cardinality(Active(U)) = Cardinality(Active(T)) - 1
<1> DEFINE U == [T EXCEPT ![u] = st]
<1>1. Active(U) = Active(T) \ {u}
  BY DEF Active, Team
<1> QED BY <1>1, ActiveFinite, FS_RemoveElement

LEMMA HostAlone ==
  ASSUME NEW u \in Users
  PROVE  LET U == [Nobody EXCEPT ![u] = "joined"]
         IN Cardinality(Active(U)) = 1
<1> DEFINE U == [Nobody EXCEPT ![u] = "joined"]
<1>1. Active(U) = {u}
  BY DEF Active, Nobody
<1> QED BY <1>1, FS_Singleton

LEMMA NobodyActive == Active(Nobody) = {} /\ Cardinality(Active(Nobody)) = 0
<1>1. Active(Nobody) = {}
  BY DEF Active, Nobody
<1> QED BY <1>1, FS_EmptySet

(* What requests have loaded.                                              *)
LEMMA TxKinds ==
  ASSUME MTypeOK, NEW w \in Workers, task[w] # Idle
  PROVE  LET t == task[w] IN
         /\ t \in Tx /\ t.m \in Matches /\ (t.op # "paying" => t.mt \in MatchRow)
         /\ t.op \in {"create", "join", "leave", "cancel", "admin", "paying", "pay"}
         /\ t.op \in {"create", "join", "leave", "paying", "pay"} => t.u \in Users
         /\ t.op \in {"create", "join", "pay"} => t.sl \in SlotRow
         /\ t.op = "leave" => t.st \in Player
         /\ t.op \in {"cancel", "admin", "pay"} => t.team \in Team
BY DEF MTypeOK, Tx

LEMMA RowTypes == NoMatch \in MatchRow /\ FreeRow \in SlotRow /\ Nobody \in Team
BY MatchmakingAssumption DEF NoMatch, MatchRow, FreeRow, SlotRow, Nobody, Team, Player

(* Room for players and payers.                                            *)
LEMMA RoomKept ==
  ASSUME RoomInv, NEW m \in Matches,
         Active(player'[m]) \cup Payers(m)' \subseteq Active(player[m]) \cup Payers(m)
  PROVE  Cardinality(Active(player'[m]) \cup Payers(m)') <= Required
<1> DEFINE R == Active(player[m]) \cup Payers(m)
           S == Active(player'[m]) \cup Payers(m)'
<1>1. R \subseteq Users /\ S \subseteq R
  BY DEF Active, Payers
<1>2. Cardinality(R) \in Nat /\ Cardinality(S) \in Nat /\ Cardinality(S) <= Cardinality(R)
  BY <1>1, FewerUsers
<1>3. Cardinality(R) <= Required
  BY DEF RoomInv
<1> QED BY <1>2, <1>3, MatchmakingAssumption

LEMMA PlacesEnough ==
  ASSUME RoomInv
  PROVE  NeverOverfull
<1> SUFFICES ASSUME NEW m \in Matches PROVE Cardinality(Active(player[m])) <= Required
  BY DEF NeverOverfull
<1> DEFINE R == Active(player[m]) \cup Payers(m)
           S == Active(player[m])
<1>1. R \subseteq Users /\ S \subseteq R
  BY DEF Active, Payers
<1>2. Cardinality(R) \in Nat /\ Cardinality(S) \in Nat /\ Cardinality(S) <= Cardinality(R)
  BY <1>1, FewerUsers
<1>3. Cardinality(R) <= Required
  BY DEF RoomInv
<1> QED BY <1>2, <1>3, MatchmakingAssumption
-----------------------------------------------------------------------------
(* Steps that lock and load, and steps that write no match or player row.  *)

\* A request that begins, or goes on, without touching match and player rows.
LEMMA BeginStep ==
  ASSUME MatchInv, NEW w \in Workers, NEW t \in Tx,
         task' = [task EXCEPT ![w] = t],
         UNCHANGED <<slot, over, match, player, buyers, due>>,
         TxInv(t),
         t.op \in Lockers => ~MatchLocked(t.m),
         t.op = "create" =>
           /\ \A v \in Workers : task[v] # Idle => task[v].m # t.m
           /\ ~SlotLocked(t.mt.slot),
         t.op = "leave" => ~PaymentUnderWay(t.m, t.u),
         t.op = "paying" => ~LeaveUnderWay(t.m, t.u),
         t.op \in Paying => t.u \in Active(player[t.m]) \cup Payers(t.m),
         purse' \in [Matches -> [Users -> Purse]],
         \A m \in Matches : match[m].status = "absent" => purse'[m] = purse[m]
  PROVE  MatchInv'
<1>1. MTypeOK'
  BY DEF MatchInv, MTypeOK
<1>2. RowsInv'
  BY DEF MatchInv, RowsInv, SlotOf
<1>3. LoadedInv'
  <2> SUFFICES ASSUME NEW v \in Workers, task'[v] # Idle PROVE TxInv(task[v])'
    BY DEF LoadedInv
  <2>1. TxInv(task'[v])
    BY DEF MatchInv, LoadedInv, MTypeOK
  <2> QED BY <2>1 DEF TxInv, CopyOf, RowsStay, Registering, SlotOf
<1>4. DueInv'
  BY DEF MatchInv, DueInv, CopyOf, RowsStay
<1>5. LocksInv'
  <2> SUFFICES ASSUME NEW v \in Workers, NEW x \in Workers
               PROVE  /\ /\ task'[v].op \in Lockers /\ task'[x].op \in Lockers
                         /\ task'[v].m = task'[x].m
                         => v = x
                      /\ /\ task'[v].op = "create" /\ task'[x].op = "create"
                         /\ task'[v].m = task'[x].m \/ task'[v].mt.slot = task'[x].mt.slot
                         => v = x
                      /\ task'[v].op = "paying" /\ task'[x].op = "leave" =>
                           task'[v].m # task'[x].m \/ task'[v].u # task'[x].u
    BY DEF LocksInv, Lockers
  <2>1. \A y \in Workers : task'[y] = IF y = w THEN t ELSE task[y]
    BY DEF MatchInv, MTypeOK
  <2>2. CASE v # w /\ x # w
    BY <2>1, <2>2 DEF MatchInv, LocksInv, Lockers
  <2>3. CASE v = w /\ x # w
    BY <2>1, <2>3 DEF MatchLocked, SlotLocked, LeaveUnderWay, PaymentUnderWay, Lockers, Idle
  <2>4. CASE v # w /\ x = w
    BY <2>1, <2>4 DEF MatchLocked, SlotLocked, LeaveUnderWay, PaymentUnderWay, Lockers, Idle
  <2>5. CASE v = w /\ x = w
    BY <2>5
  <2> QED BY <2>2, <2>3, <2>4, <2>5
<1>6. CountIsExact' /\ OneMatchPerSlot'
  BY DEF MatchInv, CountIsExact, OneMatchPerSlot, Registering, SlotOf
<1>7. RoomInv'
  <2> SUFFICES ASSUME NEW m \in Matches
               PROVE  Cardinality(Active(player'[m]) \cup Payers(m)') <= Required
    BY DEF RoomInv
  <2>1. \A y \in Workers : task'[y] = IF y = w THEN t ELSE task[y]
    BY DEF MatchInv, MTypeOK
  <2>2. Payers(m)' \subseteq Active(player[m]) \cup Payers(m)
    <3>1. \A u \in Payers(m)' : u \in Payers(m) \/ (t.op \in Paying /\ t.m = m /\ t.u = u)
      BY <2>1 DEF Payers
    <3> QED BY <3>1
  <2> QED BY <2>2, RoomKept DEF MatchInv
<1> QED BY <1>1, <1>2, <1>3, <1>4, <1>5, <1>6, <1>7 DEF MatchInv

LEMMA RequestStep ==
  ASSUME MatchInv, InTime, NEW w \in Workers, Request(w)
  PROVE  MatchInv'
<1>0. PICK m \in Matches : \/ CancelMatchLock(w, m)
                           \/ AdminCancelMatchLoad(w, m)
                           \/ \E u \in Users : \/ JoinMatchLock(w, m, u)
                                               \/ LeaveMatchLock(w, m, u)
                                               \/ ProcessMatchPaymentRead(w, m, u)
                           \/ \E s \in Slots, u \in Hosts : CreateMatchLock(w, m, s, u)
  BY DEF Request
<1>1. /\ match[m] \in MatchRow /\ player[m] \in Team
      /\ match[m].status # "absent" => SlotOf(m) \in Slots /\ slot[SlotOf(m)] \in SlotRow
      /\ match[m].status = "absent" => player[m] = Nobody
  BY DEF MatchInv, MTypeOK, RowsInv
<1>2. CASE CancelMatchLock(w, m)
  <2> DEFINE t == [op |-> "cancel", m |-> m, mt |-> match[m], team |-> player[m]]
  <2>1. t \in Tx /\ TxInv(t)
    BY <1>1, <1>2 DEF Tx, TxInv, Paying, CancelMatchLock, Cancellable, CopyOf, RowsStay
  <2> QED BY <1>2, <2>1, BeginStep
          DEF CancelMatchLock, Begin, Lockers, Paying, MatchInv, MTypeOK
<1>3. CASE AdminCancelMatchLoad(w, m)
  <2> DEFINE t == [op |-> "admin", m |-> m, mt |-> match[m], team |-> player[m]]
  <2>1. t \in Tx /\ TxInv(t)
    BY <1>1, <1>3 DEF Tx, TxInv, Paying, AdminCancelMatchLoad, Cancellable, CopyOf, RowsStay
  <2> QED BY <1>3, <2>1, BeginStep
          DEF AdminCancelMatchLoad, Begin, Lockers, Paying, MatchInv, MTypeOK
<1>4. ASSUME NEW u \in Users, JoinMatchLock(w, m, u) PROVE MatchInv'
  <2> DEFINE t == [op |-> "join", m |-> m, u |-> u, mt |-> match[m], sl |-> slot[SlotOf(m)]]
  <2>1. t \in Tx /\ TxInv(t)
    BY <1>1, <1>4 DEF Tx, TxInv, Paying, CanJoin, JoinMatchLock, HasRoom
  <2> QED BY <1>4, <2>1, BeginStep
          DEF JoinMatchLock, CanJoin, Begin, Lockers, Paying, MatchInv, MTypeOK
<1>5. ASSUME NEW u \in Users, LeaveMatchLock(w, m, u) PROVE MatchInv'
  <2> DEFINE t == [op |-> "leave", m |-> m, u |-> u, mt |-> match[m], st |-> player[m][u]]
  <2>1. player[m][u] \in {"joined", "paid"} /\ match[m].status # "absent"
    BY <1>1, <1>5 DEF LeaveMatchLock, CanLeave, Active, Nobody
  <2>2. t \in Tx /\ TxInv(t)
    BY <1>1, <1>5, <2>1 DEF Tx, TxInv, Paying, CanLeave, LeaveMatchLock, Player
  <2> QED BY <1>5, <2>2, BeginStep
          DEF LeaveMatchLock, CanLeave, Begin, Lockers, Paying, InTime, MatchInv, MTypeOK
<1>6. ASSUME NEW u \in Users, ProcessMatchPaymentRead(w, m, u) PROVE MatchInv'
  <2> DEFINE t == [op |-> "paying", m |-> m, u |-> u]
  <2>1. /\ player[m][u] \in {"joined", "paid"} /\ match[m].status # "absent"
        /\ ~LeaveUnderWay(m, u)
    BY <1>1, <1>6 DEF ProcessMatchPaymentRead, Nobody, InTime
  <2>2. t \in Tx
    BY DEF Tx
  <2>3. TxInv(t) /\ u \in Active(player[m])
    BY <2>1 DEF TxInv, Active
  <2>4. /\ purse' \in [Matches -> [Users -> Purse]]
        /\ \A n \in Matches : match[n].status = "absent" => purse'[n] = purse[n]
    BY <1>6, <2>1 DEF ProcessMatchPaymentRead, MatchInv, MTypeOK, Purse
  <2> QED BY <1>6, <2>1, <2>2, <2>3, <2>4, BeginStep
          DEF ProcessMatchPaymentRead, Begin, Lockers, Paying
<1>7. ASSUME NEW s \in Slots, NEW u \in Hosts, CreateMatchLock(w, m, s, u) PROVE MatchInv'
  <2> DEFINE r == [status |-> "open", slot |-> s, creator |-> u, cur |-> 1]
             t == [op |-> "create", m |-> m, u |-> u, sl |-> slot[s], mt |-> r]
  <2>1. u \in Users /\ r \in MatchRow /\ slot[s] \in SlotRow
    BY MatchmakingAssumption DEF MatchRow, MatchInv, MTypeOK
  <2>2. t \in Tx
    BY <2>1 DEF Tx
  <2>3. TxInv(t)
    BY <1>7 DEF TxInv, Paying, CreateMatchLock, SlotTaken
  <2> QED BY <1>7, <2>2, <2>3, BeginStep
          DEF CreateMatchLock, Begin, Lockers, Paying, MatchInv, MTypeOK
<1> QED BY <1>0, <1>2, <1>3, <1>4, <1>5, <1>6, <1>7

LEMMA MarkStep ==
  ASSUME MatchInv, NEW w \in Workers, ProcessMatchPaymentMark(w)
  PROVE  MatchInv'
<1> PICK m, u : m = task[w].m /\ u = task[w].u
  OBVIOUS
<1> DEFINE t == [op |-> "pay", m |-> m, u |-> u, mt |-> match[m],
                 team |-> [player[m] EXCEPT ![u] = "paid"], sl |-> slot[SlotOf(m)]]
<1>1. /\ task[w] # Idle /\ task[w].op = "paying" /\ task' = [task EXCEPT ![w] = t]
      /\ UNCHANGED <<slot, over, match, player, purse, buyers, due>>
  BY DEF ProcessMatchPaymentMark, Idle
<1>2. m \in Matches /\ u \in Users /\ TxInv(task[w])
  BY <1>1, TxKinds DEF MatchInv, LoadedInv
<1>3. /\ match[m].status # "absent" /\ player[m][u] # "absent"
      /\ Registering(m) => u \in Active(player[m])
  BY <1>1, <1>2 DEF TxInv, Paying
<1>4. /\ match[m] \in MatchRow /\ player[m] \in Team /\ slot[SlotOf(m)] \in SlotRow
      /\ purse \in [Matches -> [Users -> Purse]]
  BY <1>2, <1>3 DEF MatchInv, MTypeOK, RowsInv
<1>5. t \in Tx
  BY <1>2, <1>4 DEF Tx, Team, Player
<1>6. TxInv(t)
  BY <1>3 DEF TxInv, CopyOf, Paying
<1>7. u \in Payers(m)
  BY <1>1, <1>2 DEF Payers, Paying
<1> QED BY <1>1, <1>4, <1>5, <1>6, <1>7, BeginStep DEF Lockers, Paying
-----------------------------------------------------------------------------
(* Steps that write the rows of one match.                                 *)

LEMMA StepOnMatch ==
  ASSUME MatchInv, MTypeOK', NEW m \in Matches, match[m].status # "absent",
         \A n \in Matches : n # m => /\ match'[n] = match[n] /\ player'[n] = player[n]
                                     /\ purse'[n] = purse[n],
         /\ match'[m].status # "absent"
         /\ match'[m].slot = match[m].slot /\ match'[m].creator = match[m].creator,
         match'[m].status \in {"open", "full"} =>
           /\ Registering(m)
           /\ match'[m].cur = Cardinality(Active(player'[m]))
           /\ match'[m].cur <= Required
           /\ match'[m].status = "full" <=> match'[m].cur = Required,
         Active(player'[m]) \subseteq Active(player[m]) \cup Payers(m)
           \/ Cardinality(Active(player'[m]) \cup Payers(m)) <= Required,
         \A u \in Users : player[m][u] # "absent" => player'[m][u] # "absent",
         \A v \in Workers :
           \/ task'[v] = Idle
           \/ /\ task'[v] = task[v]
              /\ task[v] # Idle /\ task[v].m = m =>
                   /\ \/ task[v].op \notin Lockers
                      \/ /\ match'[m] = match[m]
                         /\ Active(player[m]) \subseteq Active(player'[m])
                         /\ \A u \in Users : player[m][u] = "absent" => player'[m][u] = "absent"
                   /\ task[v].op \in Paying /\ match'[m].status \in {"open", "full"} =>
                        task[v].u \in Active(player'[m]),
         due' \subseteq due
  PROVE  MatchInv'
<1>1. \A n \in Matches : Registering(n)' => Registering(n) /\ match'[n].slot = match[n].slot
  BY DEF Registering
<1>2. RowsInv'
  BY DEF MatchInv, RowsInv, SlotOf
<1>4. LoadedInv'
  <2> SUFFICES ASSUME NEW v \in Workers, task'[v] # Idle PROVE TxInv(task[v])'
    BY DEF LoadedInv
  <2>0. /\ task'[v] = task[v] /\ task[v] # Idle /\ TxInv(task[v])
        /\ task[v].m \in Matches
        /\ task[v].op \in {"create", "join", "leave", "cancel", "admin", "paying", "pay"}
        /\ task[v].op \in Paying => task[v].u \in Users
    BY TxKinds DEF MatchInv, LoadedInv, Paying
  <2>1. CASE task[v].m # m
    <3>1. /\ match'[task[v].m] = match[task[v].m]
          /\ player'[task[v].m] = player[task[v].m]
      BY <2>0, <2>1
    <3> QED BY <2>0, <3>1, <1>1 DEF TxInv, CopyOf, RowsStay, SlotOf, Registering
  <2>2. CASE task[v].m = m
    <3>1. task[v].op # "create"
      BY <2>0, <2>2 DEF TxInv, NoMatch
    <3>2. CASE task[v].op = "admin" \/ task[v].op \in Paying
      BY <2>0, <2>2, <3>2 DEF TxInv, CopyOf, RowsStay, Registering, Paying
    <3>3. CASE task[v].op \in Lockers
      <4>1. /\ match'[m] = match[m] /\ Active(player[m]) \subseteq Active(player'[m])
            /\ \A u \in Users : player[m][u] = "absent" => player'[m][u] = "absent"
        BY <2>0, <2>2, <3>3
      <4>2. CASE task[v].op = "join"
        <5>1. task[v].u \in Users
          BY <2>0, <4>2, TxKinds DEF MatchInv
        <5> QED BY <2>0, <2>2, <4>1, <4>2, <5>1 DEF TxInv, Paying
      <4>3. CASE task[v].op = "leave"
        BY <2>0, <2>2, <4>1, <4>3 DEF TxInv, Paying
      <4>4. CASE task[v].op = "cancel"
        BY <2>0, <2>2, <4>1, <4>4 DEF TxInv, CopyOf, RowsStay, Paying
      <4> QED BY <3>3, <4>2, <4>3, <4>4 DEF Lockers
    <3> QED BY <2>0, <3>1, <3>2, <3>3 DEF Lockers, Paying
  <2> QED BY <2>1, <2>2
<1>5. DueInv'
  <2> SUFFICES ASSUME NEW c \in due' PROVE (CopyOf(c.mt, c.m) /\ RowsStay(c.team, c.m))'
    BY DEF DueInv
  <2>1. c.m \in Matches /\ CopyOf(c.mt, c.m) /\ RowsStay(c.team, c.m)
    BY DEF MatchInv, DueInv, MTypeOK, Due
  <2> QED BY <2>1 DEF CopyOf, RowsStay
<1>6. LocksInv'
  <2>1. \A v \in Workers : task'[v] = Idle \/ task'[v] = task[v]
    OBVIOUS
  <2> QED BY <2>1 DEF MatchInv, LocksInv, Idle
<1>7. CountIsExact'
  BY DEF MatchInv, CountIsExact, Registering
<1>9. RoomInv'
  <2> SUFFICES ASSUME NEW n \in Matches
               PROVE  Cardinality(Active(player'[n]) \cup Payers(n)') <= Required
    BY DEF RoomInv
  <2>1. Payers(n)' \subseteq Payers(n)
    <3>1. \A v \in Workers : task'[v] = Idle \/ task'[v] = task[v]
      OBVIOUS
    <3> QED BY <3>1 DEF Payers, Paying, Idle
  <2>2. CASE Active(player'[n]) \subseteq Active(player[n]) \cup Payers(n)
    BY <2>1, <2>2, RoomKept DEF MatchInv
  <2>3. CASE Cardinality(Active(player'[n]) \cup Payers(n)) <= Required
    <3> DEFINE R == Active(player'[n]) \cup Payers(n)
               S == Active(player'[n]) \cup Payers(n)'
    <3>1. R \subseteq Users /\ S \subseteq R
      BY <2>1 DEF Active, Payers
    <3>2. /\ Cardinality(R) \in Nat /\ Cardinality(S) \in Nat
          /\ Cardinality(S) <= Cardinality(R)
      BY <3>1, FewerUsers
    <3> QED BY <2>3, <3>2, MatchmakingAssumption
  <2> QED BY <2>2, <2>3
<1>8. OneMatchPerSlot'
  BY <1>1 DEF MatchInv, OneMatchPerSlot, SlotOf
<1> QED BY <1>2, <1>4, <1>5, <1>6, <1>7, <1>8, <1>9 DEF MatchInv

\* Who has locked a match row, or waits for nobody's payment, leaves the others
\* as StepOnMatch wants them.
LEMMA LockerAlone ==
  ASSUME MatchInv, NEW w \in Workers, task[w].op \in Lockers,
         task' = [task EXCEPT ![w] = Idle]
  PROVE  \A v \in Workers :
           \/ task'[v] = Idle
           \/ /\ task'[v] = task[v] /\ task[v] # Idle
              /\ task[v].m = task[w].m => task[v].op \notin Lockers
<1>1. \A v \in Workers : task'[v] = IF v = w THEN Idle ELSE task[v]
  BY DEF MatchInv, MTypeOK
<1> QED BY <1>1 DEF MatchInv, LocksInv, Lockers

LEMMA PayerActive ==
  ASSUME MatchInv, NEW v \in Workers, task[v].op \in Paying
  PROVE  /\ task[v].m \in Matches /\ task[v].u \in Users
         /\ match[task[v].m].status # "absent" /\ player[task[v].m][task[v].u] # "absent"
         /\ Registering(task[v].m) => task[v].u \in Active(player[task[v].m])
<1>1. task[v] # Idle
  BY DEF Idle, Paying
<1>2. task[v].m \in Matches /\ task[v].u \in Users
  BY <1>1, TxKinds DEF MatchInv, Paying
<1> QED BY <1>1, <1>2 DEF MatchInv, LoadedInv, TxInv

LEMMA JoinedRow ==
  ASSUME NEW r \in MatchRow, HasRoom(r)
  PROVE  /\ Joined(r) \in MatchRow /\ Joined(r).cur = r.cur + 1
         /\ Joined(r).slot = r.slot /\ Joined(r).creator = r.creator
         /\ Joined(r).status = IF r.cur + 1 >= Required THEN "full" ELSE "open"
<1>1. r.cur + 1 \in 0..Required /\ r.cur \in Nat
  BY MatchmakingAssumption DEF HasRoom, MatchRow
<1>2. PICK q : q = [r EXCEPT !.cur = r.cur + 1]
  OBVIOUS
<1>3. q = [status |-> r.status, slot |-> r.slot, creator |-> r.creator, cur |-> r.cur + 1]
  BY <1>2 DEF MatchRow
<1>4. Joined(r) = [q EXCEPT !.status = IF r.cur + 1 >= Required THEN "full" ELSE r.status]
  BY <1>2, Zenon DEF Joined
<1>5. Joined(r) = [status |-> IF r.cur + 1 >= Required THEN "full" ELSE "open",
                   slot |-> r.slot, creator |-> r.creator, cur |-> r.cur + 1]
  BY <1>4, <1>3 DEF HasRoom
<1> QED BY <1>1, <1>5 DEF MatchRow

LEMMA LeftRow ==
  ASSUME NEW r \in MatchRow
  PROVE  /\ Left(r) \in MatchRow
         /\ Left(r).cur = IF r.cur > 0 THEN r.cur - 1 ELSE 0
         /\ Left(r).slot = r.slot /\ Left(r).creator = r.creator
         /\ Left(r).status = IF r.status = "full" THEN "open" ELSE r.status
<1>1. r.cur \in 0..Required /\ Required \in Nat
  BY MatchmakingAssumption DEF MatchRow
<1>2. PICK q : q = [r EXCEPT !.cur = IF r.cur > 0 THEN r.cur - 1 ELSE 0]
  OBVIOUS
<1>3. q = [status |-> r.status, slot |-> r.slot, creator |-> r.creator,
           cur |-> IF r.cur > 0 THEN r.cur - 1 ELSE 0]
  BY <1>2 DEF MatchRow
<1>4. Left(r) = [q EXCEPT !.status = IF r.status = "full" THEN "open" ELSE r.status]
  BY <1>2, Zenon DEF Left
<1>5. Left(r) = [status |-> IF r.status = "full" THEN "open" ELSE r.status,
                 slot |-> r.slot, creator |-> r.creator,
                 cur |-> IF r.cur > 0 THEN r.cur - 1 ELSE 0]
  BY <1>3, <1>4
<1> QED BY <1>1, <1>5 DEF MatchRow

LEMMA JoinStep ==
  ASSUME MatchInv, NEW w \in Workers, JoinMatchCommit(w)
  PROVE  MatchInv'
<1> DEFINE t == task[w]
           m == t.m
<1>1. /\ t \in Tx /\ m \in Matches /\ t.u \in Users /\ t.mt \in MatchRow /\ t.sl \in SlotRow
      /\ TxInv(t) /\ t.op = "join"
  BY TxKinds DEF JoinMatchCommit, MatchInv, LoadedInv, Idle
<1>2. /\ match[m] = t.mt /\ t.mt.status = "open" /\ t.mt.cur < Required
      /\ player[m][t.u] = "absent" /\ t.mt.slot \in Slots
  BY <1>1 DEF TxInv, HasRoom, MatchInv, RowsInv, SlotOf
<1>3. /\ match' = [match EXCEPT ![m] = Joined(t.mt)]
      /\ player' = [player EXCEPT ![m][t.u] = "joined"]
      /\ slot' = [slot EXCEPT ![t.mt.slot] = t.sl]
      /\ task' = [task EXCEPT ![w] = Idle]
      /\ UNCHANGED <<over, purse, buyers, due>>
  BY DEF JoinMatchCommit, Done
<1>4. /\ match[m].cur = Cardinality(Active(player[m])) /\ Registering(m)
      /\ player[m] \in Team
  BY <1>1, <1>2 DEF MatchInv, CountIsExact, Registering, MTypeOK
<1>5. Required \in Nat /\ t.mt.cur \in Nat
  BY <1>1, MatchmakingAssumption DEF MatchRow
<1>6. /\ Joined(t.mt) \in MatchRow /\ Joined(t.mt).cur = t.mt.cur + 1
      /\ Joined(t.mt).slot = t.mt.slot /\ Joined(t.mt).creator = t.mt.creator
      /\ Joined(t.mt).status = IF t.mt.cur + 1 >= Required THEN "full" ELSE "open"
  BY <1>1, <1>2, JoinedRow DEF HasRoom
<1>7. /\ match'[m] = Joined(t.mt) /\ player'[m] = [player[m] EXCEPT ![t.u] = "joined"]
      /\ player'[m] \in Team
      /\ \A n \in Matches : n # m => /\ match'[n] = match[n] /\ player'[n] = player[n]
                                      /\ purse'[n] = purse[n]
  BY <1>1, <1>3, <1>4 DEF MatchInv, MTypeOK, Team, Player
<1>8. Cardinality(Active(player'[m])) = t.mt.cur + 1
  BY <1>1, <1>2, <1>4, <1>7, OneMoreActive
<1>9. MTypeOK'
  BY <1>1, <1>2, <1>3, <1>4, <1>6, <1>7 DEF MatchInv, MTypeOK
<1>10. \A u \in Users : player[m][u] # "absent" => player'[m][u] # "absent"
  BY <1>1, <1>2, <1>4, <1>7 DEF Team
<1>11. \A v \in Workers :
         \/ task'[v] = Idle
         \/ /\ task'[v] = task[v]
            /\ task[v] # Idle /\ task[v].m = m =>
                 /\ task[v].op \notin Lockers
                 /\ task[v].op \in Paying /\ Registering(m) =>
                      task[v].u \in Active(player'[m])
  <2> SUFFICES ASSUME NEW v \in Workers, task'[v] # Idle, task[v].op \in Paying,
                      task[v].m = m, Registering(m)
               PROVE  task[v].u \in Active(player'[m])
    BY <1>1, <1>3, <1>4, LockerAlone DEF Lockers
  <2>1. task[v].u \in Active(player[m])
    BY PayerActive
  <2> QED BY <2>1, <1>2, <1>4, <1>7 DEF Active, Team
<1>12. /\ match[m].status # "absent" /\ match'[m].status # "absent"
       /\ match'[m].slot = match[m].slot /\ match'[m].creator = match[m].creator
  BY <1>2, <1>6, <1>7
<1>13. /\ match'[m].cur = Cardinality(Active(player'[m]))
       /\ match'[m].cur <= Required
       /\ match'[m].status = "full" <=> match'[m].cur = Required
  BY <1>2, <1>5, <1>6, <1>7, <1>8
<1>14. /\ m \in Matches /\ due' \subseteq due
       /\ Cardinality(Active(player'[m]) \cup Payers(m)) <= Required
  <2>1. Active(player[m]) \subseteq Active(player'[m])
    BY <1>4, <1>7 DEF Active, Team
  <2>2. \A u \in Payers(m) : u \in Active(player[m])
    BY <1>4, PayerActive DEF Payers
  <2>3. Active(player'[m]) \cup Payers(m) = Active(player'[m])
    BY <2>1, <2>2
  <2>4. t.mt.cur + 1 <= Required
    BY <1>1, <1>2, <1>5 DEF MatchRow
  <2> HIDE DEF t, m
  <2>5. Cardinality(Active(player'[m]) \cup Payers(m)) <= Required
    BY <1>8, <2>3, <2>4
  <2> QED BY <1>1, <1>3, <2>5
<1> HIDE DEF t, m
<1> QED BY <1>4, <1>7, <1>9, <1>10, <1>11, <1>12, <1>13, <1>14, StepOnMatch

LEMMA LeaveStep ==
  ASSUME MatchInv, NEW w \in Workers, LeaveMatchCommit(w)
  PROVE  MatchInv'
<1> DEFINE t == task[w]
           m == t.m
<1>1. /\ t \in Tx /\ m \in Matches /\ t.u \in Users /\ t.mt \in MatchRow
      /\ TxInv(t) /\ t.op = "leave"
  BY TxKinds DEF LeaveMatchCommit, MatchInv, LoadedInv, Idle
<1>2. /\ match[m] = t.mt /\ t.mt.status # "absent" /\ t.u \in Active(player[m])
      /\ t.st \in {"joined", "paid"}
  BY <1>1 DEF TxInv
<1>3. /\ match' = [match EXCEPT ![m] = Left(t.mt)]
      /\ player' = [player EXCEPT ![m][t.u] = Gone(t.st)]
      /\ purse' = Returned(m, Refunds(t))
      /\ task' = [task EXCEPT ![w] = Idle]
      /\ UNCHANGED <<slot, over, buyers, due>>
  BY DEF LeaveMatchCommit, Done
<1>4. /\ player[m] \in Team /\ Required \in Nat /\ t.mt.cur \in 0..Required
      /\ Cardinality(Active(player[m])) <= Required
      /\ Registering(m) => /\ t.mt.cur = Cardinality(Active(player[m]))
                           /\ t.mt.status = "full" <=> t.mt.cur = Required
  BY <1>1, <1>2, PlacesEnough, MatchmakingAssumption
     DEF MatchInv, CountIsExact, NeverOverfull, MTypeOK, MatchRow
<1>5. Gone(t.st) \in {"refunded", "cancelled"}
  BY DEF Gone
<1>6. /\ match'[m] = Left(t.mt) /\ player'[m] = [player[m] EXCEPT ![t.u] = Gone(t.st)]
      /\ player'[m] \in Team
      /\ \A n \in Matches : n # m => /\ match'[n] = match[n] /\ player'[n] = player[n]
                                      /\ purse'[n] = purse[n]
  BY <1>1, <1>3, <1>4, <1>5 DEF MatchInv, MTypeOK, Team, Player, Returned
<1>7. /\ Cardinality(Active(player'[m])) = Cardinality(Active(player[m])) - 1
      /\ Cardinality(Active(player[m])) \in Nat
  <2>1. Gone(t.st) \notin {"joined", "paid"}
    BY <1>5
  <2>2. Cardinality(Active([player[m] EXCEPT ![t.u] = Gone(t.st)])) =
          Cardinality(Active(player[m])) - 1
    BY <1>2, <1>4, <2>1, OneLessActive
  <2> QED BY <1>6, <2>2, ActiveFinite
<1>8. Cardinality(Active(player'[m])) \in Nat
  BY ActiveFinite
<1>9. /\ Left(t.mt) \in MatchRow
      /\ Left(t.mt).cur = IF t.mt.cur > 0 THEN t.mt.cur - 1 ELSE 0
      /\ Left(t.mt).slot = t.mt.slot /\ Left(t.mt).creator = t.mt.creator
      /\ Left(t.mt).status = IF t.mt.status = "full" THEN "open" ELSE t.mt.status
  BY <1>1, LeftRow
<1>10. MTypeOK'
  BY <1>1, <1>3, <1>4, <1>6, <1>9 DEF MatchInv, MTypeOK, Returned, Purse
<1>11. \A u \in Users : player[m][u] # "absent" => player'[m][u] # "absent"
  BY <1>1, <1>4, <1>5, <1>6 DEF Team
<1>12. \A v \in Workers :
         \/ task'[v] = Idle
         \/ /\ task'[v] = task[v]
            /\ task[v] # Idle /\ task[v].m = m =>
                 /\ task[v].op \notin Lockers
                 /\ task[v].op \in Paying /\ Registering(m) =>
                      task[v].u \in Active(player'[m])
  <2> SUFFICES ASSUME NEW v \in Workers, task'[v] # Idle, task[v].op \in Paying,
                      task[v].m = m, Registering(m)
               PROVE  task[v].u \in Active(player'[m])
    BY <1>1, <1>3, LockerAlone DEF Lockers
  <2>1. task[v].u \in Active(player[m])
    BY PayerActive
  <2>2. task[v].u # t.u
    <3>1. task[v].op = "pay" => task[v].u # t.u
      BY DEF LeaveMatchCommit, PlayerLocked
    <3>2. task[v].op = "paying" => task[v].u # t.u
      BY <1>1 DEF MatchInv, LocksInv
    <3> QED BY <3>1, <3>2 DEF Paying
  <2> QED BY <2>1, <2>2, <1>4, <1>6 DEF Active, Team
<1>13. match'[m].status \in {"open", "full"} =>
           /\ Registering(m)
           /\ match'[m].cur = Cardinality(Active(player'[m]))
           /\ match'[m].cur <= Required
           /\ match'[m].status = "full" <=> match'[m].cur = Required
  BY <1>2, <1>4, <1>6, <1>7, <1>8, <1>9 DEF Registering
<1>14. Active(player'[m]) \subseteq Active(player[m])
  BY <1>2, <1>4, <1>5, <1>6 DEF Active, Team
<1>15. /\ match[m].status # "absent" /\ match'[m].status # "absent"
       /\ match'[m].slot = match[m].slot /\ match'[m].creator = match[m].creator
  BY <1>2, <1>6, <1>9
<1>16. due' \subseteq due
  BY <1>3
<1> QED BY <1>1, <1>6, <1>10, <1>11, <1>12, <1>13, <1>14, <1>15, <1>16, StepOnMatch

LEMMA CloseStep ==
  ASSUME MatchInv, NEW m \in Matches, NEW r \in MatchRow, NEW T \in Team,
         NEW st \in {"cancelled", "expired"}, NEW mm \in {"none", "failed"},
         Close(m, r, T, st, mm), CopyOf(r, m), RowsStay(T, m),
         UNCHANGED <<over, buyers>>, task' \in [Workers -> Tx \cup {Idle}],
         \A v \in Workers :
           \/ task'[v] = Idle
           \/ /\ task'[v] = task[v]
              /\ task[v] # Idle /\ task[v].m = m => task[v].op \notin Lockers,
         due' \subseteq due
  PROVE  MatchInv'
<1>1. /\ match[m].status # "absent" /\ r.slot \in Slots
      /\ r.slot = match[m].slot /\ r.creator = match[m].creator
  BY DEF CopyOf, MatchInv, RowsInv, SlotOf
<1>2. /\ match \in [Matches -> MatchRow] /\ player \in [Matches -> Team]
      /\ purse \in [Matches -> [Users -> Purse]] /\ slot \in [Slots -> SlotRow]
      /\ over \subseteq Slots /\ buyers \in [Slots -> 0..MaxBuyers] /\ due \subseteq Due
      /\ player[m] \in Team
  BY DEF MatchInv, MTypeOK
<1>3. \A x : Gone(x) \in {"refunded", "cancelled"}
  BY DEF Gone
<1>4. /\ match' = [match EXCEPT ![m] = [r EXCEPT !.status = st]]
      /\ player' = Closed(m, T) /\ purse' = Returned(m, PaidIn(T))
      /\ slot' = [slot EXCEPT ![r.slot] = [FreeRow EXCEPT !.mm = mm]]
  BY DEF Close
<1>5. /\ [r EXCEPT !.status = st] \in MatchRow
      /\ match'[m].status = st /\ match'[m].slot = r.slot /\ match'[m].creator = r.creator
      /\ \A n \in Matches : n # m => match'[n] = match[n]
  BY <1>2, <1>4 DEF MatchRow
<1>6. /\ \A u \in Users : player'[m][u] = IF T[u] = "absent" THEN player[m][u] ELSE Gone(T[u])
      /\ player' \in [Matches -> Team] /\ player'[m] \in Team
      /\ \A n \in Matches : n # m => player'[n] = player[n]
  BY <1>2, <1>3, <1>4 DEF Closed, Team, Player
<1>7. /\ purse' \in [Matches -> [Users -> Purse]]
      /\ \A n \in Matches : n # m => purse'[n] = purse[n]
  BY <1>2, <1>4 DEF Returned, PaidIn, Purse
<1>8. MTypeOK'
  <2>1. match' \in [Matches -> MatchRow]
    BY <1>2, <1>4, <1>5
  <2>2. slot' \in [Slots -> SlotRow]
    BY <1>1, <1>2, <1>4, RowTypes DEF SlotRow, FreeRow
  <2> QED BY <1>2, <1>6, <1>7, <2>1, <2>2 DEF MTypeOK
<1>9. Active(player'[m]) \subseteq Active(player[m])
  BY <1>3, <1>6 DEF Active
<1>10. \A u \in Users : player[m][u] # "absent" => player'[m][u] # "absent"
  BY <1>3, <1>6
<1> QED BY <1>1, <1>5, <1>6, <1>7, <1>8, <1>9, <1>10, StepOnMatch

LEMMA PayStep ==
  ASSUME MatchInv, NEW w \in Workers, ProcessMatchPaymentCommit(w)
  PROVE  MatchInv'
<1> DEFINE t == task[w]
           m == t.m
<1>1. /\ t \in Tx /\ m \in Matches /\ t.u \in Users /\ t.mt \in MatchRow
      /\ t.sl \in SlotRow /\ CopyOf(t.mt, m) /\ player[m][t.u] # "absent"
      /\ Registering(m) => t.u \in Active(player[m])
      /\ t.u \in Payers(m)
  <2>1. t # Idle /\ t.op = "pay"
    BY DEF ProcessMatchPaymentCommit, Idle
  <2>2. m \in Matches /\ t.u \in Users
    BY <2>1, TxKinds DEF MatchInv
  <2>3. t.u \in Payers(m)
    BY <2>1, <2>2 DEF Payers, Paying
  <2> QED BY <2>1, <2>3, TxKinds DEF MatchInv, LoadedInv, TxInv, Paying
<1>2. /\ match[m].status # "absent" /\ t.mt.slot \in Slots
      /\ t.mt.slot = match[m].slot /\ t.mt.creator = match[m].creator
  BY <1>1 DEF CopyOf, MatchInv, RowsInv, SlotOf
<1>3. /\ match \in [Matches -> MatchRow] /\ player \in [Matches -> Team]
      /\ slot \in [Slots -> SlotRow] /\ player[m] \in Team
      /\ task \in [Workers -> Tx \cup {Idle}]
  BY <1>1 DEF MatchInv, MTypeOK
<1>4. /\ player' = [player EXCEPT ![m][t.u] = "paid"]
      /\ task' = [task EXCEPT ![w] = Idle]
      /\ UNCHANGED <<over, purse, buyers, due>>
  BY DEF ProcessMatchPaymentCommit, Done
<1>5. \/ UNCHANGED <<slot, match>>
      \/ /\ ~MatchLocked(m)
         /\ slot' = [slot EXCEPT ![t.mt.slot] = [t.sl EXCEPT !.booked = TRUE, !.mm = "closed"]]
         /\ match' = [match EXCEPT ![m] = [t.mt EXCEPT !.status = "confirmed"]]
  BY DEF ProcessMatchPaymentCommit
<1>6. /\ player'[m] = [player[m] EXCEPT ![t.u] = "paid"]
      /\ player' \in [Matches -> Team]
      /\ Active(player'[m]) = Active(player[m]) \cup {t.u}
      /\ \A n \in Matches : n # m => player'[n] = player[n]
  BY <1>1, <1>3, <1>4 DEF Team, Player, Active
<1>7. slot' \in [Slots -> SlotRow]
  <2>1. PICK q : q = [t.sl EXCEPT !.booked = TRUE]
    OBVIOUS
  <2>2. q \in SlotRow /\ [q EXCEPT !.mm = "closed"] \in SlotRow
    BY <1>1, <2>1 DEF SlotRow
  <2>3. [t.sl EXCEPT !.booked = TRUE, !.mm = "closed"] = [q EXCEPT !.mm = "closed"]
    BY <2>1, Zenon
  <2>4. [t.sl EXCEPT !.booked = TRUE, !.mm = "closed"] \in SlotRow
    BY <2>2, <2>3, Zenon
  <2>5. PICK z : z = [t.sl EXCEPT !.booked = TRUE, !.mm = "closed"]
    OBVIOUS
  <2>6. z \in SlotRow
    BY <2>4, <2>5, Zenon
  <2>7. slot' = slot \/ slot' = [slot EXCEPT ![t.mt.slot] = z]
    BY <1>5, <2>5, Zenon
  <2> QED BY <1>2, <1>3, <2>6, <2>7
<1>8. /\ match' \in [Matches -> MatchRow]
      /\ \A n \in Matches : n # m => match'[n] = match[n]
      /\ match'[m].slot = match[m].slot /\ match'[m].creator = match[m].creator
      /\ \/ match'[m] = match[m]
         \/ match'[m].status = "confirmed" /\ ~MatchLocked(m)
  <2>1. [t.mt EXCEPT !.status = "confirmed"] \in MatchRow
    BY <1>1 DEF MatchRow
  <2>2. \/ match' = match
        \/ ~MatchLocked(m) /\ match' = [match EXCEPT ![m] = [t.mt EXCEPT !.status = "confirmed"]]
    BY <1>5, Zenon
  <2> QED BY <1>1, <1>2, <1>3, <2>1, <2>2 DEF MatchRow
<1>9. MTypeOK'
  <2>1. task' \in [Workers -> Tx \cup {Idle}]
    BY <1>3, <1>4
  <2> QED BY <1>4, <1>6, <1>7, <1>8, <2>1 DEF MatchInv, MTypeOK
<1>10. \A u \in Users : (player[m][u] # "absent") <=> (player'[m][u] # "absent")
  BY <1>1, <1>3, <1>6 DEF Team
<1>11. \A v \in Workers :
         \/ task'[v] = Idle
         \/ /\ task'[v] = task[v]
            /\ task[v] # Idle /\ task[v].m = m =>
                 /\ \/ task[v].op \notin Lockers
                    \/ /\ match'[m] = match[m]
                       /\ Active(player[m]) \subseteq Active(player'[m])
                       /\ \A u \in Users : player[m][u] = "absent" => player'[m][u] = "absent"
                 /\ task[v].op \in Paying /\ match'[m].status \in {"open", "full"} =>
                      task[v].u \in Active(player'[m])
  <2>2. \A v \in Workers : task'[v] = IF v = w THEN Idle ELSE task[v]
    BY <1>3, <1>4
  <2>3. match'[m].status \in {"open", "full"} => Registering(m)
    BY <1>8 DEF Registering
  <2>4. \A v \in Workers : task[v].op \in Paying /\ task[v].m = m /\ Registering(m) =>
          task[v].u \in Active(player'[m])
    BY <1>6, PayerActive
  <2> QED BY <1>6, <1>8, <1>10, <2>2, <2>3, <2>4 DEF MatchLocked, Lockers
<1>12. match'[m].status \in {"open", "full"} =>
           /\ Registering(m)
           /\ match'[m].cur = Cardinality(Active(player'[m]))
           /\ match'[m].cur <= Required
           /\ match'[m].status = "full" <=> match'[m].cur = Required
  <2> SUFFICES ASSUME match'[m].status \in {"open", "full"}
               PROVE  /\ Registering(m) /\ match'[m] = match[m]
                      /\ Active(player'[m]) = Active(player[m])
    BY <1>1 DEF MatchInv, CountIsExact, Registering
  <2> QED BY <1>1, <1>6, <1>8 DEF Registering
<1>13. /\ match'[m].status # "absent"
       /\ Active(player'[m]) \subseteq Active(player[m]) \cup Payers(m)
  BY <1>1, <1>2, <1>6, <1>8
<1>14. \A n \in Matches : n # m => /\ match'[n] = match[n] /\ player'[n] = player[n]
                                   /\ purse'[n] = purse[n]
  BY <1>4, <1>6, <1>8
<1>15. m \in Matches /\ due' \subseteq due
  BY <1>1, <1>4
<1> HIDE DEF t, m
<1> QED BY <1>2, <1>8, <1>9, <1>10, <1>11, <1>12, <1>13, <1>14, <1>15, StepOnMatch

\* A match appears: nobody has anything loaded for it, and no other match takes
\* players on its slot.
LEMMA CreateStep ==
  ASSUME MatchInv, NEW w \in Workers, CreateMatchCommit(w)
  PROVE  MatchInv'
<1> DEFINE t == task[w]
           m == t.m
           s == t.mt.slot
<1>1. /\ m \in Matches /\ t.u \in Users /\ t.mt \in MatchRow /\ t.sl \in SlotRow
      /\ TxInv(t) /\ t.op = "create"
  BY TxKinds DEF CreateMatchCommit, MatchInv, LoadedInv, Idle
<1>2. /\ match[m] = NoMatch /\ s \in Slots
      /\ t.mt.status = "open" /\ t.mt.creator = t.u /\ t.mt.cur = 1
      /\ \A n \in Matches : Registering(n) => match[n].slot # s
  BY <1>1 DEF TxInv, SlotOf
<1>3. /\ match[m].status = "absent" /\ player[m] = Nobody
      /\ \A u \in Users : purse[m][u] = "none"
  BY <1>1, <1>2 DEF MatchInv, RowsInv, NoMatch
<1>4. /\ slot' = [slot EXCEPT ![s] = [t.sl EXCEPT !.hold = TRUE, !.mm = "open_for_players"]]
      /\ match' = [match EXCEPT ![m] = t.mt]
      /\ player' = [player EXCEPT ![m][t.u] = "joined"]
      /\ task' = [task EXCEPT ![w] = Idle]
      /\ UNCHANGED <<over, purse, buyers, due>>
  BY DEF CreateMatchCommit, Done
<1>5. /\ match \in [Matches -> MatchRow] /\ player \in [Matches -> Team]
      /\ slot \in [Slots -> SlotRow] /\ task \in [Workers -> Tx \cup {Idle}]
  BY DEF MatchInv, MTypeOK
<1>6. /\ match'[m] = t.mt /\ player'[m] = [Nobody EXCEPT ![t.u] = "joined"]
      /\ match' \in [Matches -> MatchRow] /\ player' \in [Matches -> Team]
      /\ \A n \in Matches : n # m => match'[n] = match[n] /\ player'[n] = player[n]
  BY <1>1, <1>3, <1>4, <1>5 DEF Team, Player
<1>7. slot' \in [Slots -> SlotRow]
  <2>1. PICK q : q = [t.sl EXCEPT !.hold = TRUE]
    OBVIOUS
  <2>2. [q EXCEPT !.mm = "open_for_players"] \in SlotRow
    BY <1>1, <2>1 DEF SlotRow
  <2>3. PICK z : z = [t.sl EXCEPT !.hold = TRUE, !.mm = "open_for_players"]
    OBVIOUS
  <2>4. z = [q EXCEPT !.mm = "open_for_players"]
    BY <2>1, <2>3, Zenon
  <2>5. slot' = [slot EXCEPT ![s] = z]
    BY <1>4, <2>3, Zenon
  <2> QED BY <1>2, <1>5, <2>2, <2>4, <2>5
<1>8. \A v \in Workers : task'[v] = IF v = w THEN Idle ELSE task[v]
  BY <1>4, <1>5
<1>9. MTypeOK'
  BY <1>4, <1>5, <1>6, <1>7 DEF MatchInv, MTypeOK
<1>10. RowsInv'
  BY <1>1, <1>2, <1>3, <1>4, <1>6 DEF MatchInv, RowsInv, SlotOf
<1>11. LoadedInv'
  <2> SUFFICES ASSUME NEW v \in Workers, task'[v] # Idle PROVE TxInv(task[v])'
    BY DEF LoadedInv
  <2>1. /\ v # w /\ task'[v] = task[v] /\ task[v] # Idle /\ TxInv(task[v])
        /\ task[v].m \in Matches
        /\ task[v].op \in {"create", "join", "leave", "cancel", "admin", "paying", "pay"}
    BY <1>8, TxKinds DEF MatchInv, LoadedInv
  <2>2. task[v].m # m
    <3>1. CASE task[v].op = "create"
      BY <1>1, <2>1, <3>1 DEF MatchInv, LocksInv
    <3>2. CASE task[v].op # "create"
      <4>1. match[task[v].m].status # "absent"
        BY <2>1, <3>2 DEF TxInv, HasRoom, CopyOf, Paying
      <4> QED BY <1>3, <4>1
    <3> QED BY <3>1, <3>2
  <2>3. /\ match'[task[v].m] = match[task[v].m]
        /\ player'[task[v].m] = player[task[v].m]
    BY <1>6, <2>1, <2>2
  <2>4. task[v].op = "create" => task[v].mt.slot # s
    BY <1>1, <2>1 DEF MatchInv, LocksInv
  <2>5. ASSUME NEW n \in Matches, Registering(n)'
        PROVE  match'[n].slot = s \/ (Registering(n) /\ match'[n].slot = match[n].slot)
    <3>1. CASE n = m
      BY <1>6, <3>1
    <3>2. CASE n # m
      BY <1>6, <2>5, <3>2 DEF Registering
    <3> QED BY <3>1, <3>2
  <2> QED BY <2>1, <2>3, <2>4, <2>5 DEF TxInv, CopyOf, RowsStay, SlotOf, Registering, Paying
<1>12. DueInv'
  <2> SUFFICES ASSUME NEW c \in due PROVE (CopyOf(c.mt, c.m) /\ RowsStay(c.team, c.m))'
    BY <1>4 DEF DueInv
  <2>1. c.m \in Matches /\ CopyOf(c.mt, c.m) /\ RowsStay(c.team, c.m)
    BY DEF MatchInv, DueInv, MTypeOK, Due
  <2>2. match'[c.m] = match[c.m] /\ player'[c.m] = player[c.m]
    BY <1>3, <1>6, <2>1 DEF CopyOf
  <2> QED BY <2>1, <2>2 DEF CopyOf, RowsStay
<1>13. LocksInv'
  BY <1>8 DEF MatchInv, LocksInv, Idle
<1>14. CountIsExact' /\ RoomInv'
  <2>1. Cardinality(Active(player'[m])) = 1
    BY <1>1, <1>6, HostAlone
  <2>2. CountIsExact'
    BY <1>1, <1>2, <1>6, <2>1, MatchmakingAssumption DEF MatchInv, CountIsExact, Registering
  <2>3. \A n \in Matches : Payers(n)' \subseteq Payers(n)
    BY <1>8 DEF Payers, Paying, Idle
  <2>4. Payers(m) = {}
    BY <1>3, PayerActive DEF Payers
  <2>5. ASSUME NEW n \in Matches
        PROVE  Cardinality(Active(player'[n]) \cup Payers(n)') <= Required
    <3>1. CASE n = m
      <4>1. Active(player'[n]) \cup Payers(n)' = Active(player'[m])
        BY <2>3, <2>4, <3>1
      <4> QED BY <2>1, <4>1, MatchmakingAssumption
    <3>2. CASE n # m
      BY <1>6, <2>3, <3>2, RoomKept DEF MatchInv
    <3> QED BY <3>1, <3>2
  <2> QED BY <2>2, <2>5 DEF RoomInv
<1>15. OneMatchPerSlot'
  BY <1>1, <1>2, <1>6 DEF MatchInv, OneMatchPerSlot, Registering, SlotOf
<1> QED BY <1>9, <1>10, <1>11, <1>12, <1>13, <1>14, <1>15 DEF MatchInv
-----------------------------------------------------------------------------
(* Steps that write no match or player row.                                *)

LEMMA ReturnedType ==
  ASSUME NEW m, NEW S, MTypeOK
  PROVE  /\ Returned(m, S) \in [Matches -> [Users -> Purse]]
         /\ \A n \in Matches : n # m => Returned(m, S)[n] = purse[n]
BY DEF MTypeOK, Returned, Purse

LEMMA QuietStep ==
  ASSUME MatchInv, MTypeOK', UNCHANGED <<match, player>>,
         \A m \in Matches : match[m].status = "absent" => purse'[m] = purse[m],
         \A v \in Workers : task'[v] \in {Idle, task[v]}, DueInv'
  PROVE  MatchInv'
<1>1. RowsInv'
  BY DEF MatchInv, RowsInv, SlotOf
<1>2. LoadedInv'
  <2> SUFFICES ASSUME NEW v \in Workers, task'[v] # Idle PROVE TxInv(task[v])'
    BY DEF LoadedInv
  <2>1. task'[v] = task[v] /\ TxInv(task[v])
    BY DEF MatchInv, LoadedInv
  <2> QED BY <2>1 DEF TxInv, CopyOf, RowsStay, Registering, SlotOf
<1>3. LocksInv'
  BY DEF MatchInv, LocksInv, Idle
<1>4. CountIsExact' /\ OneMatchPerSlot'
  BY DEF MatchInv, CountIsExact, OneMatchPerSlot, Registering, SlotOf
<1>5. RoomInv'
  <2>1. \A m \in Matches : Payers(m)' \subseteq Payers(m)
    BY DEF Payers, Paying, Idle
  <2> QED BY <2>1, RoomKept DEF MatchInv, RoomInv
<1> QED BY <1>1, <1>2, <1>3, <1>4, <1>5 DEF MatchInv

LEMMA OtherSteps ==
  ASSUME MatchInv,
         \/ \E s \in Slots : RegistrationEnds(s) \/ BookSlot(s)
         \/ \E w \in Workers : DeadlockVictim(w)
         \/ ProcessExpiredMatchesLoad \/ ExpiryVictim
         \/ UNCHANGED mvars
  PROVE  MatchInv'
<1>1. /\ MTypeOK /\ DueInv
      /\ task \in [Workers -> Tx \cup {Idle}] /\ slot \in [Slots -> SlotRow]
  BY DEF MatchInv, MTypeOK
<1>2. CASE \E s \in Slots : RegistrationEnds(s)
  <2>1. MTypeOK' /\ DueInv' /\ UNCHANGED <<match, player, purse, task>>
    BY <1>1, <1>2 DEF RegistrationEnds, MTypeOK, DueInv, CopyOf, RowsStay
  <2> QED BY <2>1, QuietStep
<1>3. ASSUME NEW s \in Slots, BookSlot(s) PROVE MatchInv'
  <2>1. UNCHANGED <<over, match, player, purse, task, due>>
    BY <1>3 DEF BookSlot
  <2>2. buyers' \in [Slots -> 0..MaxBuyers]
    BY <1>1, <1>3, MatchmakingAssumption DEF BookSlot, MTypeOK
  <2>3. slot' \in [Slots -> SlotRow]
    <3>1. PICK q : q = [slot EXCEPT ![s].booked = TRUE]
      OBVIOUS
    <3>2. q \in [Slots -> SlotRow]
      BY <1>1, <3>1 DEF SlotRow
    <3>3. slot' = [q EXCEPT ![s].hold = FALSE]
      BY <1>3, <3>1, Zenon DEF BookSlot
    <3> QED BY <3>2, <3>3 DEF SlotRow
  <2>4. MTypeOK' /\ DueInv'
    BY <1>1, <2>1, <2>2, <2>3 DEF MTypeOK, DueInv, CopyOf, RowsStay
  <2> QED BY <2>1, <2>4, QuietStep
<1>4. ASSUME NEW w \in Workers, DeadlockVictim(w) PROVE MatchInv'
  <2>1. /\ task' = [task EXCEPT ![w] = Idle] /\ purse' = Returned(task[w].m, Refunds(task[w]))
        /\ UNCHANGED <<slot, over, match, player, buyers, due>>
        /\ task[w].op \in {"join", "leave", "cancel", "admin", "pay"}
    BY <1>4 DEF DeadlockVictim, Deadlocked, CronDeadlocked, Completes, Done
  <2>2. match[task[w].m].status # "absent"
    <3>1. task[w] # Idle
      BY <2>1 DEF Idle
    <3> QED BY <2>1, <3>1 DEF MatchInv, LoadedInv, TxInv, CopyOf, HasRoom
  <2>3. /\ purse' \in [Matches -> [Users -> Purse]]
        /\ \A m \in Matches : match[m].status = "absent" => purse'[m] = purse[m]
    BY <1>1, <2>1, <2>2, ReturnedType
  <2>4. MTypeOK' /\ DueInv' /\ \A v \in Workers : task'[v] \in {Idle, task[v]}
    BY <1>1, <2>1, <2>3 DEF MTypeOK, DueInv, CopyOf, RowsStay
  <2> QED BY <2>1, <2>3, <2>4, QuietStep
<1>5. CASE ProcessExpiredMatchesLoad
  <2>1. /\ due' = {[m |-> m, mt |-> match[m], team |-> player[m]] :
                     m \in {x \in Matches : Overdue(x)}}
        /\ UNCHANGED <<slot, over, match, player, purse, buyers, task>>
    BY <1>5 DEF ProcessExpiredMatchesLoad
  <2>2. MTypeOK'
    BY <1>1, <2>1 DEF MTypeOK, Due
  <2>3. DueInv'
    BY <2>1 DEF DueInv, CopyOf, RowsStay, Overdue, Registering
  <2> QED BY <2>1, <2>2, <2>3, QuietStep
<1>7. CASE ExpiryVictim
  <2>1. PICK c \in due, w \in Workers :
          /\ purse' = purse \/ purse' = Returned(c.m, PaidIn(c.team))
          /\ due' = due \ {c} /\ UNCHANGED <<slot, over, match, player, buyers, task>>
    BY <1>7 DEF ExpiryVictim
  <2>2. match[c.m].status # "absent"
    BY <1>1 DEF DueInv, CopyOf
  <2>3. /\ purse' \in [Matches -> [Users -> Purse]]
        /\ \A m \in Matches : match[m].status = "absent" => purse'[m] = purse[m]
    BY <1>1, <2>1, <2>2, ReturnedType DEF MTypeOK
  <2>4. MTypeOK' /\ DueInv'
    BY <1>1, <2>1, <2>3 DEF MTypeOK, DueInv, CopyOf, RowsStay
  <2> QED BY <2>1, <2>3, <2>4, QuietStep
<1>6. CASE UNCHANGED mvars
  <2>1. MTypeOK' /\ DueInv' /\ UNCHANGED <<match, player, purse, task>>
    BY <1>1, <1>6 DEF mvars, MTypeOK, DueInv, CopyOf, RowsStay
  <2> QED BY <2>1, QuietStep
<1> QED BY <1>2, <1>3, <1>4, <1>5, <1>6, <1>7
-----------------------------------------------------------------------------
LEMMA InitMatchInv == MInit => MatchInv
<1> SUFFICES ASSUME MInit PROVE MatchInv
  OBVIOUS
<1>1. \A m \in Matches : match[m] = NoMatch /\ player[m] = Nobody /\ match[m].status = "absent"
  BY DEF MInit, NoMatch
<1>2. MTypeOK
  BY RowTypes, MatchmakingAssumption DEF MInit, MTypeOK, Purse
<1>3. RowsInv
  BY <1>1 DEF MInit, RowsInv
<1>4. LoadedInv /\ DueInv /\ LocksInv
  BY DEF MInit, LoadedInv, DueInv, LocksInv, Idle
<1>5. CountIsExact /\ OneMatchPerSlot
  BY <1>1 DEF CountIsExact, OneMatchPerSlot, Registering
<1>6. RoomInv
  <2>1. \A m \in Matches : Payers(m) = {}
    BY DEF MInit, Payers, Paying, Idle
  <2> QED BY <1>1, <2>1, NobodyActive, MatchmakingAssumption DEF RoomInv
<1> QED BY <1>2, <1>3, <1>4, <1>5, <1>6 DEF MatchInv

LEMMA CommitStep ==
  ASSUME MatchInv, NEW w \in Workers, Commit(w)
  PROVE  MatchInv'
<1>1. CASE CreateMatchCommit(w)
  BY <1>1, CreateStep
<1>2. CASE JoinMatchCommit(w)
  BY <1>2, JoinStep
<1>3. CASE LeaveMatchCommit(w)
  BY <1>3, LeaveStep
<1>4. CASE ProcessMatchPaymentCommit(w)
  BY <1>4, PayStep
<1>5. CASE CancelMatchCommit(w) \/ AdminCancelMatchCommit(w)
  <2> DEFINE t == task[w]
  <2>1. /\ t.op \in {"cancel", "admin"} /\ Close(t.m, t.mt, t.team, "cancelled", "none")
        /\ t.op = "admin" => ~MatchLocked(t.m)
        /\ task' = [task EXCEPT ![w] = Idle] /\ UNCHANGED <<over, buyers, due>>
    BY <1>5 DEF CancelMatchCommit, AdminCancelMatchCommit, Done
  <2>2. /\ t.m \in Matches /\ t.mt \in MatchRow /\ t.team \in Team
        /\ CopyOf(t.mt, t.m) /\ RowsStay(t.team, t.m)
    <3>1. t # Idle
      BY <2>1 DEF Idle
    <3> QED BY <2>1, <3>1, TxKinds DEF MatchInv, LoadedInv, TxInv
  <2>3. task \in [Workers -> Tx \cup {Idle}]
    BY DEF MatchInv, MTypeOK
  <2>4. task' \in [Workers -> Tx \cup {Idle}]
    BY <2>1, <2>3
  <2>5. \A v \in Workers :
          \/ task'[v] = Idle
          \/ /\ task'[v] = task[v]
             /\ task[v] # Idle /\ task[v].m = t.m => task[v].op \notin Lockers
    <3>1. CASE t.op = "cancel"
      BY <2>1, <3>1, LockerAlone DEF Lockers
    <3>2. CASE t.op = "admin"
      BY <2>1, <2>3, <3>2 DEF MatchLocked, Lockers
    <3> QED BY <2>1, <3>1, <3>2
  <2> QED BY <2>1, <2>2, <2>4, <2>5, CloseStep
<1> QED BY <1>1, <1>2, <1>3, <1>4, <1>5 DEF Commit

LEMMA ExpireStep ==
  ASSUME MatchInv, ExpireMatch
  PROVE  MatchInv'
<1>1. PICK c \in due :
        /\ ~MatchLocked(c.m)
        /\ \/ /\ match' = [match EXCEPT ![c.m] = [c.mt EXCEPT !.status = "confirmed"]]
              /\ UNCHANGED <<slot, player, purse>>
           \/ Close(c.m, c.mt, c.team, "expired", "failed")
        /\ due' = due \ {c}
        /\ UNCHANGED <<over, buyers, task>>
  BY DEF ExpireMatch
<1>2. /\ c.m \in Matches /\ c.mt \in MatchRow /\ c.team \in Team
      /\ CopyOf(c.mt, c.m) /\ RowsStay(c.team, c.m)
      /\ task \in [Workers -> Tx \cup {Idle}] /\ match \in [Matches -> MatchRow]
  BY DEF MatchInv, MTypeOK, DueInv, Due
<1>3. \A v \in Workers :
        /\ task'[v] = task[v]
        /\ task[v] # Idle /\ task[v].m = c.m => task[v].op \notin Lockers
  BY <1>1 DEF MatchLocked, Lockers
<1>4. CASE Close(c.m, c.mt, c.team, "expired", "failed")
  BY <1>1, <1>2, <1>3, <1>4, CloseStep
<1>5. CASE /\ match' = [match EXCEPT ![c.m] = [c.mt EXCEPT !.status = "confirmed"]]
           /\ UNCHANGED <<slot, player, purse>>
  <2>1. [c.mt EXCEPT !.status = "confirmed"] \in MatchRow
    BY <1>2 DEF MatchRow
  <2>2. MTypeOK'
    BY <1>1, <1>2, <1>5, <2>1 DEF MatchInv, MTypeOK
  <2>3. /\ match[c.m].status # "absent" /\ match'[c.m].status = "confirmed"
        /\ match'[c.m].slot = match[c.m].slot /\ match'[c.m].creator = match[c.m].creator
        /\ \A n \in Matches : n # c.m => match'[n] = match[n]
    BY <1>2, <1>5 DEF CopyOf, MatchRow
  <2>4. player'[c.m] = player[c.m] /\ Active(player'[c.m]) = Active(player[c.m])
    BY <1>5
  <2>5. due' \subseteq due /\ \A u \in Users :
          player[c.m][u] # "absent" => player'[c.m][u] # "absent"
    BY <1>1, <2>4
  <2> QED BY <1>1, <1>2, <1>3, <1>5, <2>2, <2>3, <2>4, <2>5, StepOnMatch
<1> QED BY <1>1, <1>4, <1>5

LEMMA NextMatchInv ==
  ASSUME MatchInv, InTime, [MNext]_mvars
  PROVE  MatchInv'
<1>1. CASE \E w \in Workers : Request(w)
  BY <1>1, RequestStep
<1>2. CASE \E w \in Workers : GoesOn(w)
  BY <1>2, CommitStep, MarkStep DEF GoesOn
<1>3. CASE ExpireMatch
  BY <1>3, ExpireStep
<1>4. CASE \/ \E s \in Slots : RegistrationEnds(s) \/ BookSlot(s)
           \/ \E w \in Workers : DeadlockVictim(w)
           \/ ProcessExpiredMatchesLoad \/ ExpiryVictim
           \/ UNCHANGED mvars
  BY <1>4, OtherSteps
<1> QED BY <1>1, <1>2, <1>3, <1>4 DEF MNext
-----------------------------------------------------------------------------
(* The results, for players who pay while they are in the match.           *)

\* The inductive invariant holds whatever is interleaved and redelivered.
THEOREM MatchInvHolds ==
  ASSUME InTime
  PROVE  MSpec => []MatchInv
<1>1. MInit => MatchInv
  BY InitMatchInv
<1>2. MatchInv /\ [MNext]_mvars => MatchInv'
  BY NextMatchInv
<1> QED BY <1>1, <1>2, PTL DEF MSpec

\* Type correctness of the rows and of what is loaded.
THEOREM MatchTypes ==
  ASSUME InTime
  PROVE  MSpec => []MTypeOK
<1>1. MatchInv => MTypeOK
  BY DEF MatchInv
<1> QED BY <1>1, MatchInvHolds, PTL

\* The counter of a match that takes players is exact and "full" means full.
THEOREM CountHolds ==
  ASSUME InTime
  PROVE  MSpec => []CountIsExact
<1>1. MatchInv => CountIsExact
  BY DEF MatchInv
<1> QED BY <1>1, MatchInvHolds, PTL

\* No more players than places, before and after the match is settled.
THEOREM PlacesHold ==
  ASSUME InTime
  PROVE  MSpec => []NeverOverfull
<1>1. MatchInv => NeverOverfull
  BY PlacesEnough DEF MatchInv
<1> QED BY <1>1, MatchInvHolds, PTL

\* Two open matches never share a slot.
THEOREM SlotsHold ==
  ASSUME InTime
  PROVE  MSpec => []OneMatchPerSlot
<1>1. MatchInv => OneMatchPerSlot
  BY DEF MatchInv
<1> QED BY <1>1, MatchInvHolds, PTL

\* A match that is settled never takes players again.
LEMMA SettledStays ==
  ASSUME MatchInv, [MNext]_mvars, NEW m \in Matches,
         match[m].status \in {"confirmed", "cancelled", "expired"}
  PROVE  match'[m].status \notin {"open", "full"}
<1>1. /\ match \in [Matches -> MatchRow] /\ LoadedInv /\ match[m] # NoMatch
      /\ match[m].status \notin {"open", "full"}
  BY DEF MatchInv, MTypeOK, NoMatch
<1>2. ASSUME NEW w \in Workers, CreateMatchCommit(w) PROVE match'[m] = match[m]
  <2>1. match' = [match EXCEPT ![task[w].m] = task[w].mt] /\ task[w].m # m
    <3>1. /\ match' = [match EXCEPT ![task[w].m] = task[w].mt]
          /\ task[w] # Idle /\ task[w].op = "create"
      BY <1>2 DEF CreateMatchCommit, Idle
    <3>2. match[task[w].m] = NoMatch
      BY <1>1, <3>1 DEF LoadedInv, TxInv
    <3> QED BY <1>1, <3>1, <3>2
  <2> QED BY <1>1, <2>1
<1>3. ASSUME NEW w \in Workers, JoinMatchCommit(w) PROVE match'[m] = match[m]
  <2>1. match' = [match EXCEPT ![task[w].m] = Joined(task[w].mt)] /\ task[w].m # m
    <3>1. /\ match' = [match EXCEPT ![task[w].m] = Joined(task[w].mt)]
          /\ task[w] # Idle /\ task[w].op = "join"
      BY <1>3 DEF JoinMatchCommit, Idle
    <3>2. match[task[w].m].status = "open"
      BY <1>1, <3>1 DEF LoadedInv, TxInv, HasRoom
    <3> QED BY <1>1, <3>1, <3>2
  <2> QED BY <1>1, <2>1
<1>4. ASSUME NEW w \in Workers, LeaveMatchCommit(w)
      PROVE  match'[m].status \notin {"open", "full"}
  <2>1. /\ match' = [match EXCEPT ![task[w].m] = Left(task[w].mt)]
        /\ task[w].m = m => task[w].mt = match[m]
    <3>1. /\ match' = [match EXCEPT ![task[w].m] = Left(task[w].mt)]
          /\ task[w] # Idle /\ task[w].op = "leave"
      BY <1>4 DEF LeaveMatchCommit, Idle
    <3>2. match[task[w].m] = task[w].mt
      BY <1>1, <3>1 DEF LoadedInv, TxInv
    <3> QED BY <3>1, <3>2
  <2>2. Left(match[m]).status = match[m].status
    BY <1>1, LeftRow
  <2> QED BY <1>1, <2>1, <2>2
<1>5. ASSUME NEW n, NEW r \in MatchRow, NEW st \in {"confirmed", "cancelled", "expired"},
             match' = [match EXCEPT ![n] = [r EXCEPT !.status = st]]
      PROVE  match'[m].status \notin {"open", "full"}
  <2>1. [r EXCEPT !.status = st].status = st
    BY DEF MatchRow
  <2> QED BY <1>1, <1>5, <2>1
<1>6. ASSUME NEW w \in Workers, CancelMatchCommit(w) \/ AdminCancelMatchCommit(w)
      PROVE  match'[m].status \notin {"open", "full"}
  <2>1. /\ match' = [match EXCEPT ![task[w].m] = [task[w].mt EXCEPT !.status = "cancelled"]]
        /\ task[w] # Idle /\ task[w].op # "paying"
    BY <1>6 DEF CancelMatchCommit, AdminCancelMatchCommit, Close, Idle
  <2> QED BY <1>5, <2>1, TxKinds DEF MatchInv
<1>7. ASSUME NEW w \in Workers, ProcessMatchPaymentCommit(w)
      PROVE  match'[m].status \notin {"open", "full"}
  <2>1. /\ \/ match' = match
           \/ match' = [match EXCEPT ![task[w].m] = [task[w].mt EXCEPT !.status = "confirmed"]]
        /\ task[w] # Idle /\ task[w].op # "paying"
    BY <1>7 DEF ProcessMatchPaymentCommit, Idle
  <2> QED BY <1>1, <1>5, <2>1, TxKinds DEF MatchInv
<1>8. CASE ExpireMatch
  <2>1. PICK c \in due :
          \/ match' = [match EXCEPT ![c.m] = [c.mt EXCEPT !.status = "confirmed"]]
          \/ match' = [match EXCEPT ![c.m] = [c.mt EXCEPT !.status = "expired"]]
    BY <1>8 DEF ExpireMatch, Close
  <2>2. c.mt \in MatchRow
    BY DEF MatchInv, MTypeOK, Due
  <2> QED BY <1>5, <2>1, <2>2
<1>9. CASE \E w \in Workers : Request(w)
  <2>1. match' = match
    <3>1. PICK w \in Workers, n \in Matches :
            \/ CancelMatchLock(w, n) \/ AdminCancelMatchLoad(w, n)
            \/ \E s \in Slots, u \in Hosts : CreateMatchLock(w, n, s, u)
            \/ \E u \in Users : \/ JoinMatchLock(w, n, u) \/ LeaveMatchLock(w, n, u)
                                \/ ProcessMatchPaymentRead(w, n, u)
      BY <1>9 DEF Request
    <3>2. \A s, u : CreateMatchLock(w, n, s, u) => match' = match
      BY DEF CreateMatchLock
    <3>3. ASSUME NEW u, \/ JoinMatchLock(w, n, u) \/ LeaveMatchLock(w, n, u)
                        \/ ProcessMatchPaymentRead(w, n, u)
          PROVE  match' = match
      BY <3>3 DEF JoinMatchLock, LeaveMatchLock, ProcessMatchPaymentRead
    <3>4. CancelMatchLock(w, n) \/ AdminCancelMatchLoad(w, n) => match' = match
      BY DEF CancelMatchLock, AdminCancelMatchLoad
    <3> QED BY <3>1, <3>2, <3>3, <3>4
  <2> QED BY <1>1, <2>1
<1>10. CASE \/ \E w \in Workers : ProcessMatchPaymentMark(w) \/ DeadlockVictim(w)
            \/ ProcessExpiredMatchesLoad \/ ExpiryVictim
            \/ \E s \in Slots : RegistrationEnds(s) \/ BookSlot(s)
            \/ UNCHANGED mvars
  <2>1. match' = match
    BY <1>10 DEF ProcessMatchPaymentMark, DeadlockVictim, ProcessExpiredMatchesLoad,
                 ExpiryVictim, RegistrationEnds, BookSlot, mvars
  <2> QED BY <1>1, <2>1
<1> QED BY <1>1, <1>2, <1>3, <1>4, <1>6, <1>7, <1>8, <1>9, <1>10 DEF MNext, GoesOn, Commit

\* A match that was confirmed, cancelled or has expired stays so: no join or leave
\* writes back a row it loaded while the match took players.
THEOREM SettledHolds ==
  ASSUME InTime
  PROVE  MSpec => SettledIsFinal
<1>1. MatchInv /\ [MNext]_mvars =>
        [\A m \in Matches : match[m].status \in {"confirmed", "cancelled", "expired"} =>
           match'[m].status \notin {"open", "full"}]_mvars
  BY SettledStays
<1> QED BY <1>1, MatchInvHolds, PTL DEF MSpec, SettledIsFinal
-----------------------------------------------------------------------------
(* The page of matches.                                                    *)

(***************************************************************************)
(* What the page needs of the server is less than MatchInv, and holds when *)
(* payments are late too: rows of matches and players are never deleted,   *)
(* and a place is taken by someone who has no row yet.                     *)
(***************************************************************************)
Loaded(t) ==
  /\ t.op = "create" => /\ match[t.m] = NoMatch /\ t.mt.slot \in Slots
                        /\ t.mt.status = "open" /\ t.mt.creator = t.u
  /\ t.op \notin {"create", "paying"} => CopyOf(t.mt, t.m)
  /\ t.op = "join" => HasRoom(t.mt) /\ player[t.m][t.u] = "absent"
  /\ t.op \in {"leave", "paying", "pay"} => player[t.m][t.u] # "absent"
  /\ t.op = "paying" => match[t.m].status # "absent"
  /\ t.op \in {"cancel", "admin"} => RowsStay(t.team, t.m)
OneTaker ==
  \A v, w \in Workers :
    /\ task[v].op = "create" /\ task[w].op = "create" /\ task[v].m = task[w].m => v = w
    /\ task[v].op = "join" /\ task[w].op = "join" /\ task[v].m = task[w].m => v = w

PlacesInv ==
  /\ MTypeOK /\ RowsInv /\ DueInv /\ OneTaker
  /\ \A w \in Workers : task[w] # Idle => Loaded(task[w])

(* What a step does to the places: no row goes, who has paid or left is    *)
(* never "joined" again, and S are those who may take a place.             *)
KeepsPlaces(S) ==
  \A m \in Matches, u \in Users :
    /\ player[m][u] # "absent" => player'[m][u] # "absent"
    /\ player'[m][u] = "joined" /\ player[m][u] # "joined"
         => player[m][u] = "absent" /\ <<m, u>> \in S
Takes(t) == IF t.op \in {"create", "join"} THEN {<<t.m, t.u>>} ELSE {}

LEMMA TaskKinds ==
  ASSUME MTypeOK, NEW w \in Workers, task[w] # Idle
  PROVE  LET t == task[w] IN
         /\ t \in Tx /\ t.m \in Matches /\ (t.op # "paying" => t.mt \in MatchRow)
         /\ t.op \in {"create", "join", "leave", "cancel", "admin", "paying", "pay"}
         /\ t.op \in {"create", "join", "leave", "paying", "pay"} => t.u \in Users
         /\ t.op \in {"create", "join", "pay"} => t.sl \in SlotRow
         /\ t.op = "leave" => t.st \in Player
         /\ t.op \in {"cancel", "admin", "pay"} => t.team \in Team
BY DEF MTypeOK, Tx

LEMMA Rows == NoMatch \in MatchRow /\ FreeRow \in SlotRow /\ Nobody \in Team
BY MatchmakingAssumption DEF NoMatch, MatchRow, FreeRow, SlotRow, Nobody, Team, Player

LEMMA IdleOp == Idle.op = "idle"
BY DEF Idle
-----------------------------------------------------------------------------
(* A request begins, or a payment goes on.                                 *)
LEMMA BeginKeeps ==
  ASSUME PlacesInv, NEW w \in Workers, NEW t \in Tx,
         task' = [task EXCEPT ![w] = t],
         UNCHANGED <<slot, over, match, player, buyers, due>>, Loaded(t),
         t.op \in {"create", "join"} =>
           \A v \in Workers : task[v].op = t.op => task[v].m # t.m,
         purse' \in [Matches -> [Users -> Purse]],
         \A m \in Matches : match[m].status = "absent" => purse'[m] = purse[m]
  PROVE  PlacesInv' /\ KeepsPlaces({})
<1>1. MTypeOK'
  BY DEF PlacesInv, MTypeOK
<1>2. RowsInv' /\ DueInv'
  BY DEF PlacesInv, RowsInv, SlotOf, DueInv, CopyOf, RowsStay
<1>3. \A v \in Workers : task'[v] = IF v = w THEN t ELSE task[v]
  BY DEF PlacesInv, MTypeOK
<1>4. OneTaker'
  BY <1>3 DEF PlacesInv, OneTaker
<1>5. ASSUME NEW v \in Workers, task'[v] # Idle PROVE Loaded(task[v])'
  <2>1. Loaded(task'[v])
    BY <1>3, <1>5 DEF PlacesInv
  <2> QED BY <2>1 DEF Loaded, CopyOf, RowsStay
<1>6. KeepsPlaces({})
  BY DEF KeepsPlaces
<1> QED BY <1>1, <1>2, <1>4, <1>5, <1>6 DEF PlacesInv

LEMMA RequestKeeps ==
  ASSUME PlacesInv, NEW w \in Workers, NEW m \in Matches, NEW u \in Users,
         \/ \E s \in Slots : CreateMatchLock(w, m, s, u)
         \/ JoinMatchLock(w, m, u) \/ LeaveMatchLock(w, m, u)
         \/ CancelMatchLock(w, m) \/ ProcessMatchPaymentRead(w, m, u)
  PROVE  PlacesInv' /\ KeepsPlaces({})
<1>1. /\ match[m] \in MatchRow /\ player[m] \in Team
      /\ match[m].status # "absent" => SlotOf(m) \in Slots /\ slot[SlotOf(m)] \in SlotRow
      /\ match[m].status = "absent" => player[m] = Nobody
      /\ purse \in [Matches -> [Users -> Purse]]
  BY DEF PlacesInv, MTypeOK, RowsInv, SlotOf
<1>2. \A x \in Users : player[m][x] # "absent" => match[m].status # "absent"
  BY <1>1 DEF Nobody
<1>3. match[m].status # "absent" => CopyOf(match[m], m) /\ RowsStay(player[m], m)
  BY DEF CopyOf, RowsStay
<1>4. ASSUME NEW s \in Slots, CreateMatchLock(w, m, s, u) PROVE PlacesInv' /\ KeepsPlaces({})
  <2> DEFINE t == [op |-> "create", m |-> m, u |-> u, sl |-> slot[s],
                   mt |-> [status |-> "open", slot |-> s, creator |-> u, cur |-> 1]]
  <2>1. t \in Tx
    BY MatchmakingAssumption DEF Tx, MatchRow, PlacesInv, MTypeOK
  <2>2. Loaded(t)
    BY <1>4 DEF Loaded, CreateMatchLock
  <2>3. \A v \in Workers : task[v].op = "create" => task[v].m # m
    BY <1>4, IdleOp DEF CreateMatchLock
  <2>4. /\ task[w] = Idle /\ task' = [task EXCEPT ![w] = t]
        /\ UNCHANGED <<slot, over, match, player, buyers, due, purse>>
    BY <1>4 DEF CreateMatchLock, Begin
  <2> QED BY <1>1, <2>1, <2>2, <2>3, <2>4, BeginKeeps
<1>5. CASE JoinMatchLock(w, m, u)
  <2> DEFINE t == [op |-> "join", m |-> m, u |-> u, mt |-> match[m], sl |-> slot[SlotOf(m)]]
  <2>0. match[m].status # "absent"
    BY <1>5 DEF JoinMatchLock, CanJoin, HasRoom
  <2>1. t \in Tx
    BY <1>1, <2>0 DEF Tx
  <2>2. Loaded(t)
    BY <1>3, <1>5, <2>0 DEF Loaded, JoinMatchLock, CanJoin
  <2>3. \A v \in Workers : task[v].op = "join" => task[v].m # m
    BY <1>5 DEF JoinMatchLock, MatchLocked
  <2>4. /\ task[w] = Idle /\ task' = [task EXCEPT ![w] = t]
        /\ UNCHANGED <<slot, over, match, player, buyers, due, purse>>
    BY <1>5 DEF JoinMatchLock, Begin
  <2> QED BY <1>1, <2>1, <2>2, <2>3, <2>4, BeginKeeps
<1>6. CASE LeaveMatchLock(w, m, u)
  <2> DEFINE t == [op |-> "leave", m |-> m, u |-> u, mt |-> match[m], st |-> player[m][u]]
  <2>0. player[m][u] # "absent" /\ match[m].status # "absent"
    BY <1>2, <1>6 DEF LeaveMatchLock, CanLeave, Active
  <2>1. t \in Tx
    BY <1>1 DEF Tx, Team
  <2>2. Loaded(t)
    BY <1>3, <2>0 DEF Loaded
  <2>4. /\ task[w] = Idle /\ task' = [task EXCEPT ![w] = t]
        /\ UNCHANGED <<slot, over, match, player, buyers, due, purse>>
    BY <1>6 DEF LeaveMatchLock, Begin
  <2> QED BY <1>1, <2>1, <2>2, <2>4, BeginKeeps
<1>7. CASE CancelMatchLock(w, m)
  <2> DEFINE t == [op |-> "cancel", m |-> m, mt |-> match[m], team |-> player[m]]
  <2>0. match[m].status # "absent"
    BY <1>7 DEF CancelMatchLock, Cancellable
  <2>1. t \in Tx
    BY <1>1 DEF Tx
  <2>2. Loaded(t)
    BY <1>3, <2>0 DEF Loaded
  <2>4. /\ task[w] = Idle /\ task' = [task EXCEPT ![w] = t]
        /\ UNCHANGED <<slot, over, match, player, buyers, due, purse>>
    BY <1>7 DEF CancelMatchLock, Begin
  <2> QED BY <1>1, <2>1, <2>2, <2>4, BeginKeeps
<1>8. CASE ProcessMatchPaymentRead(w, m, u)
  <2> DEFINE t == [op |-> "paying", m |-> m, u |-> u]
  <2>0. player[m][u] # "absent" /\ match[m].status # "absent"
    BY <1>2, <1>8 DEF ProcessMatchPaymentRead
  <2>1. t \in Tx
    BY DEF Tx
  <2>2. Loaded(t)
    BY <2>0 DEF Loaded
  <2>3. /\ purse' \in [Matches -> [Users -> Purse]]
        /\ \A n \in Matches : n # m => purse'[n] = purse[n]
    BY <1>1, <1>8 DEF ProcessMatchPaymentRead, Purse
  <2>4. /\ task[w] = Idle /\ task' = [task EXCEPT ![w] = t]
        /\ UNCHANGED <<slot, over, match, player, buyers, due>>
    BY <1>8 DEF ProcessMatchPaymentRead, Begin
  <2> QED BY <2>0, <2>1, <2>2, <2>3, <2>4, BeginKeeps
<1> QED BY <1>4, <1>5, <1>6, <1>7, <1>8

LEMMA MarkKeeps ==
  ASSUME PlacesInv, NEW w \in Workers, ProcessMatchPaymentMark(w)
  PROVE  /\ PlacesInv' /\ KeepsPlaces({})
         /\ task[w].op = "paying" /\ task[w] # Idle
         /\ task'[w].op = "pay" /\ task'[w] # Idle
         /\ task'[w].m = task[w].m /\ task'[w].u = task[w].u
         /\ \A v \in Workers : v # w => task'[v] = task[v]
<1>1. PICK m : m = task[w].m
  OBVIOUS
<1>2. PICK u : u = task[w].u
  OBVIOUS
<1>3. task[w].op = "paying" /\ task[w] # Idle
  BY IdleOp DEF ProcessMatchPaymentMark
<1>4. /\ m \in Matches /\ u \in Users /\ player[m][u] # "absent"
      /\ match[m].status # "absent"
  BY <1>1, <1>2, <1>3, TaskKinds DEF PlacesInv, Loaded
<1>5. /\ match[m] \in MatchRow /\ player[m] \in Team /\ slot[SlotOf(m)] \in SlotRow
      /\ purse \in [Matches -> [Users -> Purse]]
  BY <1>4 DEF PlacesInv, MTypeOK, RowsInv, SlotOf
<1>6. PICK T : T = [player[m] EXCEPT ![u] = "paid"]
  OBVIOUS
<1>7. T \in Team
  BY <1>5, <1>6 DEF Team, Player
<1>8. PICK t : t = [op |-> "pay", m |-> m, u |-> u, mt |-> match[m], team |-> T,
                    sl |-> slot[SlotOf(m)]]
  OBVIOUS
<1>9. t.op = "pay" /\ t.m = m /\ t.u = u /\ t.mt = match[m] /\ t # Idle
  BY <1>8 DEF Idle
<1>10. t \in Tx
  BY <1>4, <1>5, <1>7, <1>8 DEF Tx
<1>11. Loaded(t)
  BY <1>4, <1>9 DEF Loaded, CopyOf
<1>12. /\ task' = [task EXCEPT ![w] = t]
       /\ UNCHANGED <<slot, over, match, player, buyers, due, purse>>
  BY <1>1, <1>2, <1>6, <1>8 DEF ProcessMatchPaymentMark
<1>13. PlacesInv' /\ KeepsPlaces({})
  BY <1>5, <1>9, <1>10, <1>11, <1>12, BeginKeeps
<1>14. task'[w] = t /\ \A v \in Workers : v # w => task'[v] = task[v]
  BY <1>12 DEF PlacesInv, MTypeOK
<1> QED BY <1>1, <1>2, <1>3, <1>9, <1>13, <1>14
-----------------------------------------------------------------------------
(* A commit writes the rows of one match, and nobody else has counted on   *)
(* what it changes.                                                        *)
LEMMA WriteKeeps ==
  ASSUME PlacesInv, MTypeOK', NEW m \in Matches,
         \A n \in Matches : n # m => /\ match'[n] = match[n] /\ player'[n] = player[n]
                                     /\ purse'[n] = purse[n],
         match'[m].status # "absent",
         match'[m].slot \in Slots, match'[m].creator \in Users,
         match[m].status # "absent" =>
           match'[m].slot = match[m].slot /\ match'[m].creator = match[m].creator,
         \A u \in Users : player[m][u] # "absent" => player'[m][u] # "absent",
         \A v \in Workers : task'[v] # Idle =>
           /\ task'[v] = task[v]
           /\ task[v].op = "create" => task[v].m # m
           /\ task[v].op = "join" /\ task[v].m = m => player'[m][task[v].u] = "absent",
         due' \subseteq due
  PROVE  PlacesInv'
<1>1. RowsInv'
  BY DEF PlacesInv, RowsInv, SlotOf
<1>2. \A n \in Matches, T \in Team : RowsStay(T, n) => RowsStay(T, n)'
  BY DEF RowsStay
<1>3. \A n \in Matches, r \in MatchRow : CopyOf(r, n) => CopyOf(r, n)'
  BY DEF CopyOf
<1>4. DueInv'
  <2> SUFFICES ASSUME NEW c \in due' PROVE CopyOf(c.mt, c.m)' /\ RowsStay(c.team, c.m)'
    BY DEF DueInv
  <2>1. c \in due /\ c.m \in Matches /\ c.mt \in MatchRow /\ c.team \in Team
    BY DEF PlacesInv, MTypeOK, Due
  <2>2. CopyOf(c.mt, c.m) /\ RowsStay(c.team, c.m)
    BY <2>1 DEF PlacesInv, DueInv
  <2> QED BY <1>2, <1>3, <2>1, <2>2
<1>5. OneTaker'
  BY IdleOp DEF PlacesInv, OneTaker
<1>6. ASSUME NEW v \in Workers, task'[v] # Idle PROVE Loaded(task[v])'
  <2> DEFINE t == task[v]
  <2>1. task'[v] = t /\ t # Idle /\ Loaded(t)
    BY <1>6 DEF PlacesInv
  <2>2. /\ t \in Tx /\ t.m \in Matches /\ (t.op # "paying" => t.mt \in MatchRow)
        /\ t.op \in {"create", "join", "leave", "paying", "pay"} => t.u \in Users
        /\ t.op \in {"cancel", "admin"} => t.team \in Team
    BY <2>1, TaskKinds DEF PlacesInv
  <2>3. t.op = "create" => match'[t.m] = NoMatch
    BY <1>6, <2>1, <2>2 DEF Loaded
  <2>4. t.op \notin {"create", "paying"} => CopyOf(t.mt, t.m)'
    BY <1>3, <2>1, <2>2 DEF Loaded
  <2>5. t.op = "join" => player'[t.m][t.u] = "absent"
    BY <1>6, <2>1, <2>2 DEF Loaded
  <2>6. t.op \in {"leave", "paying", "pay"} => player'[t.m][t.u] # "absent"
    BY <2>1, <2>2 DEF Loaded
  <2>10. t.op = "paying" => match'[t.m].status # "absent"
    BY <2>1, <2>2 DEF Loaded
  <2>7. t.op \in {"cancel", "admin"} => RowsStay(t.team, t.m)'
    BY <1>2, <2>1, <2>2 DEF Loaded
  <2>8. t.op = "create" => t.mt.slot \in Slots /\ t.mt.status = "open" /\ t.mt.creator = t.u
    BY <2>1 DEF Loaded
  <2>9. t.op = "join" => HasRoom(t.mt)
    BY <2>1 DEF Loaded
  <2> QED BY <2>1, <2>3, <2>4, <2>5, <2>6, <2>7, <2>8, <2>9, <2>10 DEF Loaded
<1> QED BY <1>1, <1>4, <1>5, <1>6 DEF PlacesInv

LEMMA OthersWait ==
  ASSUME PlacesInv, NEW w \in Workers, task[w] # Idle,
         task' = [task EXCEPT ![w] = Idle], NEW v \in Workers, task'[v] # Idle
  PROVE  /\ task'[v] = task[v]
         /\ task[v].op = "create" => task[v].m # task[w].m
         /\ task[v].op = "join" /\ task[v].m = task[w].m =>
              /\ task[w].op \notin {"create", "join"}
              /\ player[task[w].m][task[v].u] = "absent"
<1>1. v # w /\ task'[v] = task[v] /\ task[v] # Idle
  BY DEF PlacesInv, MTypeOK
<1>2. Loaded(task[v]) /\ Loaded(task[w])
  BY <1>1 DEF PlacesInv
<1>3. /\ task[v].op = "create" /\ task[w].op = "create" => task[v].m # task[w].m
      /\ task[v].op = "join" /\ task[w].op = "join" => task[v].m # task[w].m
  BY <1>1 DEF PlacesInv, OneTaker
<1>4. NoMatch.status = "absent"
  BY DEF NoMatch
<1> QED BY <1>1, <1>2, <1>3, <1>4 DEF Loaded, CopyOf

LEMMA CreateKeeps ==
  ASSUME PlacesInv, NEW w \in Workers, CreateMatchCommit(w)
  PROVE  /\ PlacesInv' /\ KeepsPlaces(Takes(task[w]))
         /\ player'[task[w].m][task[w].u] = "joined"
<1> DEFINE t == task[w]
<1>1. t # Idle /\ t.op = "create"
  BY IdleOp DEF CreateMatchCommit
<1>2. /\ t.m \in Matches /\ t.u \in Users /\ t.mt \in MatchRow /\ t.sl \in SlotRow
      /\ Loaded(t)
  BY <1>1, TaskKinds DEF PlacesInv
<1>3. /\ match[t.m] = NoMatch /\ player[t.m] = Nobody /\ t.mt.status = "open"
      /\ t.mt.slot \in Slots /\ t.mt.creator = t.u
  BY <1>1, <1>2 DEF Loaded, PlacesInv, RowsInv, NoMatch
<1>4. /\ slot' = [slot EXCEPT ![t.mt.slot] = [t.sl EXCEPT !.hold = TRUE, !.mm = "open_for_players"]]
      /\ match' = [match EXCEPT ![t.m] = t.mt]
      /\ player' = [player EXCEPT ![t.m][t.u] = "joined"]
      /\ task' = [task EXCEPT ![w] = Idle]
      /\ UNCHANGED <<over, purse, buyers, due>>
  BY DEF CreateMatchCommit, Done
<1>5. [t.sl EXCEPT !.hold = TRUE, !.mm = "open_for_players"] \in SlotRow
  BY <1>2 DEF SlotRow
<1>6. MTypeOK'
  <2>1. player' \in [Matches -> Team]
    BY <1>2, <1>4 DEF PlacesInv, MTypeOK, Team, Player
  <2> QED BY <1>2, <1>4, <1>5, <2>1 DEF PlacesInv, MTypeOK
<1>7. /\ \A m \in Matches : m # t.m => match'[m] = match[m] /\ player'[m] = player[m]
                                       /\ purse'[m] = purse[m]
      /\ match'[t.m] = t.mt /\ player'[t.m] = [Nobody EXCEPT ![t.u] = "joined"]
  BY <1>2, <1>3, <1>4 DEF PlacesInv, MTypeOK
<1>8. \A u \in Users : player[t.m][u] = "absent" /\ (u # t.u => player'[t.m][u] = "absent")
  BY <1>2, <1>3, <1>7 DEF Nobody
<1>9. player'[t.m][t.u] = "joined"
  BY <1>2, <1>7 DEF Nobody
<1>10. \A v \in Workers : task'[v] # Idle =>
         /\ task'[v] = task[v]
         /\ task[v].op = "create" => task[v].m # t.m
         /\ task[v].op = "join" => task[v].m # t.m
  BY <1>1, <1>4, OthersWait
<1>11. match[t.m].status = "absent"
  BY <1>3 DEF NoMatch
<1>12. PlacesInv'
  BY <1>2, <1>3, <1>4, <1>6, <1>7, <1>8, <1>10, <1>11, WriteKeeps
<1>13. KeepsPlaces({<<t.m, t.u>>})
  BY <1>2, <1>7, <1>8, <1>9 DEF KeepsPlaces
<1> QED BY <1>1, <1>9, <1>12, <1>13 DEF Takes

LEMMA JoinKeeps ==
  ASSUME PlacesInv, NEW w \in Workers, JoinMatchCommit(w)
  PROVE  /\ PlacesInv' /\ KeepsPlaces(Takes(task[w]))
         /\ player'[task[w].m][task[w].u] = "joined"
<1> DEFINE t == task[w]
<1>1. t # Idle /\ t.op = "join"
  BY IdleOp DEF JoinMatchCommit
<1>2. /\ t.m \in Matches /\ t.u \in Users /\ t.mt \in MatchRow /\ t.sl \in SlotRow
      /\ Loaded(t)
  BY <1>1, TaskKinds DEF PlacesInv
<1>3. /\ CopyOf(t.mt, t.m) /\ HasRoom(t.mt) /\ player[t.m][t.u] = "absent"
      /\ match[t.m].slot \in Slots /\ match[t.m].creator \in Users
  BY <1>1, <1>2 DEF Loaded, PlacesInv, RowsInv, CopyOf, SlotOf
<1>4. /\ slot' = [slot EXCEPT ![t.mt.slot] = t.sl]
      /\ match' = [match EXCEPT ![t.m] = Joined(t.mt)]
      /\ player' = [player EXCEPT ![t.m][t.u] = "joined"]
      /\ task' = [task EXCEPT ![w] = Idle]
      /\ UNCHANGED <<over, purse, buyers, due>>
  BY DEF JoinMatchCommit, Done
<1>5. /\ Joined(t.mt) \in MatchRow /\ Joined(t.mt).status # "absent"
      /\ Joined(t.mt).slot = t.mt.slot /\ Joined(t.mt).creator = t.mt.creator
  <2>1. t.mt.cur + 1 \in 0..Required /\ t.mt.status = "open"
    BY <1>2, <1>3, MatchmakingAssumption DEF HasRoom, MatchRow
  <2> QED BY <1>2, <2>1 DEF Joined, MatchRow
<1>6. MTypeOK'
  <2>1. player' \in [Matches -> Team]
    BY <1>2, <1>4 DEF PlacesInv, MTypeOK, Team, Player
  <2> QED BY <1>2, <1>4, <1>5, <2>1 DEF PlacesInv, MTypeOK
<1>7. /\ \A m \in Matches : m # t.m => match'[m] = match[m] /\ player'[m] = player[m]
                                       /\ purse'[m] = purse[m]
      /\ match'[t.m] = Joined(t.mt)
      /\ \A u \in Users : player'[t.m][u] = IF u = t.u THEN "joined" ELSE player[t.m][u]
  BY <1>2, <1>4 DEF PlacesInv, MTypeOK, Team
<1>8. \A v \in Workers : task'[v] # Idle =>
        /\ task'[v] = task[v]
        /\ task[v].op = "create" => task[v].m # t.m
        /\ task[v].op = "join" => task[v].m # t.m
  BY <1>1, <1>4, OthersWait
<1>9. PlacesInv'
  <2>1. \A u \in Users : player[t.m][u] # "absent" => player'[t.m][u] # "absent"
    BY <1>7
  <2>2. /\ match'[t.m].status # "absent" /\ t.m \in Matches /\ PlacesInv
        /\ match'[t.m].slot \in Slots /\ match'[t.m].creator \in Users
        /\ match'[t.m].slot = match[t.m].slot /\ match'[t.m].creator = match[t.m].creator
        /\ due' \subseteq due
    BY <1>2, <1>3, <1>4, <1>5, <1>7 DEF CopyOf
  <2> HIDE DEF t
  <2> QED BY <1>6, <1>7, <1>8, <2>1, <2>2, WriteKeeps
<1>10. KeepsPlaces({<<t.m, t.u>>})
  BY <1>2, <1>3, <1>7 DEF KeepsPlaces
<1> QED BY <1>1, <1>2, <1>7, <1>9, <1>10 DEF Takes

LEMMA LeftStays ==
  ASSUME NEW r \in MatchRow, r.status # "absent"
  PROVE  /\ Left(r) \in MatchRow /\ Left(r).status # "absent"
         /\ Left(r).slot = r.slot /\ Left(r).creator = r.creator
<1> DEFINE c == IF r.cur > 0 THEN r.cur - 1 ELSE 0
           st == IF r.status = "full" THEN "open" ELSE r.status
<1>1. c \in 0..Required
  BY MatchmakingAssumption DEF MatchRow
<1>2. st \in {"absent", "open", "full", "confirmed", "cancelled", "expired"} /\ st # "absent"
  BY DEF MatchRow
<1> HIDE DEF c, st
<1>3. Left(r) = [r EXCEPT !.cur = c, !.status = st]
  BY DEF Left, c, st
<1> QED BY <1>1, <1>2, <1>3 DEF MatchRow

LEMMA LeaveKeeps ==
  ASSUME PlacesInv, NEW w \in Workers, LeaveMatchCommit(w)
  PROVE  PlacesInv' /\ KeepsPlaces(Takes(task[w]))
<1> DEFINE t == task[w]
<1>1. t # Idle /\ t.op = "leave"
  BY IdleOp DEF LeaveMatchCommit
<1>2. /\ t.m \in Matches /\ t.u \in Users /\ t.mt \in MatchRow /\ Loaded(t)
  BY <1>1, TaskKinds DEF PlacesInv
<1>3. /\ CopyOf(t.mt, t.m) /\ player[t.m][t.u] # "absent"
      /\ match[t.m].slot \in Slots /\ match[t.m].creator \in Users
  BY <1>1, <1>2 DEF Loaded, PlacesInv, RowsInv, CopyOf, SlotOf
<1> DEFINE P == Returned(t.m, Refunds(t))
<1>4. /\ match' = [match EXCEPT ![t.m] = Left(t.mt)]
      /\ player' = [player EXCEPT ![t.m][t.u] = Gone(t.st)]
      /\ purse' = P
      /\ task' = [task EXCEPT ![w] = Idle]
      /\ UNCHANGED <<slot, over, buyers, due>>
  BY DEF LeaveMatchCommit, Done
<1>5. /\ Left(t.mt) \in MatchRow /\ Left(t.mt).status # "absent"
      /\ Left(t.mt).slot = t.mt.slot /\ Left(t.mt).creator = t.mt.creator
  BY <1>2, <1>3, LeftStays DEF CopyOf
<1>6. /\ P \in [Matches -> [Users -> Purse]]
      /\ \A m \in Matches : m # t.m => P[m] = purse[m]
  BY <1>2 DEF Returned, PlacesInv, MTypeOK, Purse
<1>7. Gone(t.st) \in {"refunded", "cancelled"}
  BY DEF Gone
<1>8. MTypeOK'
  <2>1. player' \in [Matches -> Team]
    BY <1>2, <1>4, <1>7 DEF PlacesInv, MTypeOK, Team, Player
  <2> QED BY <1>2, <1>4, <1>5, <1>6, <2>1 DEF PlacesInv, MTypeOK
<1>9. /\ \A m \in Matches : m # t.m => match'[m] = match[m] /\ player'[m] = player[m]
                                       /\ purse'[m] = purse[m]
      /\ match'[t.m] = Left(t.mt)
      /\ \A u \in Users : player'[t.m][u] = IF u = t.u THEN Gone(t.st) ELSE player[t.m][u]
  BY <1>2, <1>4, <1>6 DEF PlacesInv, MTypeOK, Team
<1>10. \A v \in Workers : task'[v] # Idle =>
        /\ task'[v] = task[v]
        /\ task[v].op = "create" => task[v].m # t.m
        /\ task[v].op = "join" /\ task[v].m = t.m => player[t.m][task[v].u] = "absent"
  BY <1>1, <1>4, OthersWait
<1>11. \A v \in Workers : task'[v] # Idle /\ task[v].op = "join" /\ task[v].m = t.m
         => task[v].u \in Users /\ player'[t.m][task[v].u] = "absent"
  BY <1>3, <1>9, <1>10, TaskKinds DEF PlacesInv
<1>12. PlacesInv'
  <2>1. \A u \in Users : player[t.m][u] # "absent" => player'[t.m][u] # "absent"
    BY <1>7, <1>9
  <2>2. /\ match'[t.m].status # "absent"
        /\ match'[t.m].slot = match[t.m].slot /\ match'[t.m].creator = match[t.m].creator
    BY <1>3, <1>5, <1>9 DEF CopyOf
  <2>3. due' \subseteq due
    BY <1>4
  <2> QED BY <1>2, <1>3, <1>8, <1>9, <1>10, <1>11, <2>1, <2>2, <2>3, WriteKeeps
<1>13. KeepsPlaces({})
  BY <1>2, <1>7, <1>9 DEF KeepsPlaces
<1> QED BY <1>1, <1>12, <1>13 DEF Takes

\* A match is closed, by its creator or by the cron.
LEMMA CloseKeeps ==
  ASSUME PlacesInv, NEW m \in Matches, NEW r \in MatchRow, NEW T \in Team,
         NEW st \in {"cancelled", "expired"}, NEW mm \in {"none", "failed"},
         Close(m, r, T, st, mm), CopyOf(r, m), RowsStay(T, m),
         task' \in [Workers -> Tx \cup {Idle}],
         \A v \in Workers : task'[v] # Idle =>
           /\ task'[v] = task[v]
           /\ task[v].op = "create" => task[v].m # m
           /\ task[v].op = "join" /\ task[v].m = m => player[m][task[v].u] = "absent",
         due' \subseteq due, UNCHANGED <<over, buyers>>
  PROVE  PlacesInv' /\ KeepsPlaces({})
<1>1. /\ match[m].slot \in Slots /\ match[m].creator \in Users
      /\ match[m].status # "absent" /\ r.slot = match[m].slot
      /\ r.creator = match[m].creator
  BY DEF PlacesInv, RowsInv, CopyOf, SlotOf
<1>2. /\ player' = Closed(m, T) /\ purse' = Returned(m, PaidIn(T))
      /\ match' = [match EXCEPT ![m] = [r EXCEPT !.status = st]]
      /\ slot' = [slot EXCEPT ![r.slot] = [FreeRow EXCEPT !.mm = mm]]
  BY DEF Close
<1>3. [r EXCEPT !.status = st] \in MatchRow /\ [FreeRow EXCEPT !.mm = mm] \in SlotRow
  BY DEF MatchRow, FreeRow, SlotRow
<1>4. /\ purse' \in [Matches -> [Users -> Purse]]
      /\ \A n \in Matches : n # m => purse'[n] = purse[n]
  BY <1>2 DEF Returned, PlacesInv, MTypeOK, Purse
<1>5. \A x : Gone(x) \in {"refunded", "cancelled"}
  BY DEF Gone
<1>6. /\ player' \in [Matches -> Team]
      /\ \A n \in Matches : n # m => player'[n] = player[n]
      /\ \A u \in Users : player'[m][u] = IF T[u] = "absent" THEN player[m][u] ELSE Gone(T[u])
  BY <1>2, <1>5 DEF Closed, PlacesInv, MTypeOK, Team, Player
<1>7. MTypeOK'
  BY <1>2, <1>3, <1>4, <1>6 DEF PlacesInv, MTypeOK
<1>8. /\ \A n \in Matches : n # m => match'[n] = match[n] /\ player'[n] = player[n]
                                     /\ purse'[n] = purse[n]
      /\ match'[m] = [r EXCEPT !.status = st]
  BY <1>2, <1>4, <1>6 DEF PlacesInv, MTypeOK
<1>9. /\ match'[m].status # "absent"
      /\ match'[m].slot = match[m].slot /\ match'[m].creator = match[m].creator
  BY <1>1, <1>8 DEF MatchRow
<1>10. \A u \in Users : player[m][u] = "absent" => player'[m][u] = "absent"
  BY <1>6 DEF RowsStay
<1>11. \A u \in Users : player[m][u] # "absent" => player'[m][u] # "absent"
  BY <1>5, <1>6
<1>12. \A v \in Workers : task'[v] # Idle /\ task[v].op = "join" /\ task[v].m = m
         => task[v].u \in Users /\ player'[m][task[v].u] = "absent"
  BY <1>10, TaskKinds DEF PlacesInv
<1>13. \A v \in Workers : task'[v] # Idle =>
         /\ task'[v] = task[v]
         /\ task[v].op = "create" => task[v].m # m
         /\ task[v].op = "join" /\ task[v].m = m => player'[m][task[v].u] = "absent"
  BY <1>12
<1>14. /\ match'[m].status # "absent"
       /\ match'[m].slot \in Slots /\ match'[m].creator \in Users
  BY <1>1, <1>9
<1>15. PlacesInv'
  BY <1>7, <1>8, <1>9, <1>11, <1>13, <1>14, WriteKeeps
<1>16. KeepsPlaces({})
  BY <1>5, <1>6, <1>11 DEF KeepsPlaces
<1> QED BY <1>15, <1>16

LEMMA CancelKeeps ==
  ASSUME PlacesInv, NEW w \in Workers,
         CancelMatchCommit(w) \/ AdminCancelMatchCommit(w)
  PROVE  PlacesInv' /\ KeepsPlaces(Takes(task[w]))
<1> DEFINE t == task[w]
<1>1. t # Idle /\ t.op \in {"cancel", "admin"}
  BY IdleOp DEF CancelMatchCommit, AdminCancelMatchCommit
<1>2. /\ t.m \in Matches /\ t.mt \in MatchRow /\ t.team \in Team /\ Loaded(t)
  BY <1>1, TaskKinds DEF PlacesInv
<1>3. CopyOf(t.mt, t.m) /\ RowsStay(t.team, t.m)
  BY <1>1, <1>2 DEF Loaded
<1>4. /\ Close(t.m, t.mt, t.team, "cancelled", "none")
      /\ task' = [task EXCEPT ![w] = Idle] /\ UNCHANGED <<over, buyers, due>>
  BY DEF CancelMatchCommit, AdminCancelMatchCommit, Done
<1>5. task' \in [Workers -> Tx \cup {Idle}]
  BY <1>4 DEF PlacesInv, MTypeOK
<1>6. PlacesInv' /\ KeepsPlaces({})
  BY <1>1, <1>2, <1>3, <1>4, <1>5, OthersWait, CloseKeeps
<1> QED BY <1>1, <1>6 DEF Takes

LEMMA PayKeeps ==
  ASSUME PlacesInv, NEW w \in Workers, ProcessMatchPaymentCommit(w)
  PROVE  /\ PlacesInv' /\ KeepsPlaces(Takes(task[w]))
         /\ player'[task[w].m][task[w].u] = "paid"
<1> DEFINE t == task[w]
<1>1. t # Idle /\ t.op = "pay"
  BY IdleOp DEF ProcessMatchPaymentCommit
<1>2. /\ t.m \in Matches /\ t.u \in Users /\ t.mt \in MatchRow /\ t.sl \in SlotRow
      /\ Loaded(t)
  BY <1>1, TaskKinds DEF PlacesInv
<1>3. /\ CopyOf(t.mt, t.m) /\ player[t.m][t.u] # "absent"
      /\ match[t.m].slot \in Slots /\ match[t.m].creator \in Users
  BY <1>1, <1>2 DEF Loaded, PlacesInv, RowsInv, CopyOf, SlotOf
<1> DEFINE sl == [t.sl EXCEPT !.booked = TRUE, !.mm = "closed"]
           mt == [t.mt EXCEPT !.status = "confirmed"]
<1>4. /\ \/ slot' = [slot EXCEPT ![t.mt.slot] = sl] /\ match' = [match EXCEPT ![t.m] = mt]
         \/ UNCHANGED <<slot, match>>
      /\ player' = [player EXCEPT ![t.m][t.u] = "paid"]
      /\ task' = [task EXCEPT ![w] = Idle]
      /\ UNCHANGED <<over, purse, buyers, due>>
  BY DEF ProcessMatchPaymentCommit, Done
<1>5. /\ sl \in SlotRow /\ mt \in MatchRow
      /\ mt.status = "confirmed" /\ mt.slot = t.mt.slot /\ mt.creator = t.mt.creator
  BY <1>2 DEF SlotRow, MatchRow
<1> HIDE DEF sl, mt
<1>6. MTypeOK'
  <2>1. player' \in [Matches -> Team]
    BY <1>2, <1>4 DEF PlacesInv, MTypeOK, Team, Player
  <2>2. slot' \in [Slots -> SlotRow] /\ match' \in [Matches -> MatchRow]
    BY <1>2, <1>4, <1>5 DEF PlacesInv, MTypeOK
  <2> QED BY <1>4, <2>1, <2>2 DEF PlacesInv, MTypeOK
<1>7. /\ \A m \in Matches : m # t.m => match'[m] = match[m] /\ player'[m] = player[m]
                                       /\ purse'[m] = purse[m]
      /\ match'[t.m] \in {match[t.m], mt}
      /\ \A u \in Users : player'[t.m][u] = IF u = t.u THEN "paid" ELSE player[t.m][u]
  BY <1>2, <1>4 DEF PlacesInv, MTypeOK, Team
<1>8. \A v \in Workers : task'[v] # Idle =>
        /\ task'[v] = task[v]
        /\ task[v].op = "create" => task[v].m # t.m
        /\ task[v].op = "join" /\ task[v].m = t.m => player[t.m][task[v].u] = "absent"
  BY <1>1, <1>4, OthersWait
<1>9. \A v \in Workers : task'[v] # Idle /\ task[v].op = "join" /\ task[v].m = t.m
        => task[v].u \in Users /\ player'[t.m][task[v].u] = "absent"
  BY <1>3, <1>7, <1>8, TaskKinds DEF PlacesInv
<1>10. PlacesInv'
  <2>1. \A u \in Users : player[t.m][u] # "absent" => player'[t.m][u] # "absent"
    BY <1>7
  <2>2. /\ match'[t.m].status # "absent"
        /\ match'[t.m].slot = match[t.m].slot /\ match'[t.m].creator = match[t.m].creator
    BY <1>3, <1>5, <1>7 DEF CopyOf
  <2>3. due' \subseteq due
    BY <1>4
  <2> QED BY <1>2, <1>3, <1>6, <1>7, <1>8, <1>9, <2>1, <2>2, <2>3, WriteKeeps
<1>11. KeepsPlaces({})
  BY <1>2, <1>7 DEF KeepsPlaces
<1> QED BY <1>1, <1>2, <1>7, <1>10, <1>11 DEF Takes

LEMMA CommitKeeps ==
  ASSUME PlacesInv, NEW w \in Workers, Commit(w)
  PROVE  /\ PlacesInv' /\ KeepsPlaces(Takes(task[w]))
         /\ task[w] # Idle /\ task' = [task EXCEPT ![w] = Idle]
         /\ task[w].op # "paying"
         /\ task[w].op \in {"create", "join"} => player'[task[w].m][task[w].u] = "joined"
         /\ task[w].op = "pay" => player'[task[w].m][task[w].u] = "paid"
<1>1. CASE CreateMatchCommit(w)
  BY <1>1, CreateKeeps, IdleOp DEF CreateMatchCommit, Done
<1>2. CASE JoinMatchCommit(w)
  BY <1>2, JoinKeeps, IdleOp DEF JoinMatchCommit, Done
<1>3. CASE LeaveMatchCommit(w)
  BY <1>3, LeaveKeeps, IdleOp DEF LeaveMatchCommit, Done
<1>4. CASE CancelMatchCommit(w) \/ AdminCancelMatchCommit(w)
  BY <1>4, CancelKeeps, IdleOp DEF CancelMatchCommit, AdminCancelMatchCommit, Done
<1>5. CASE ProcessMatchPaymentCommit(w)
  BY <1>5, PayKeeps, IdleOp DEF ProcessMatchPaymentCommit, Done
<1> QED BY <1>1, <1>2, <1>3, <1>4, <1>5 DEF Commit

\* The cron, and the end of registration.
LEMMA CronKeeps ==
  ASSUME PlacesInv, \/ ProcessExpiredMatchesLoad \/ ExpireMatch
                    \/ \E s \in Slots : RegistrationEnds(s)
  PROVE  PlacesInv' /\ KeepsPlaces({}) /\ task' = task
<1>1. CASE \E s \in Slots : RegistrationEnds(s)
  <2>1. UNCHANGED <<slot, match, player, purse, buyers, task, due>> /\ over' \subseteq Slots
    BY <1>1 DEF RegistrationEnds, PlacesInv, MTypeOK
  <2> QED BY <2>1 DEF PlacesInv, MTypeOK, RowsInv, SlotOf, DueInv, CopyOf, RowsStay,
                      OneTaker, Loaded, KeepsPlaces
<1>2. CASE ProcessExpiredMatchesLoad
  <2> DEFINE D == {[m |-> m, mt |-> match[m], team |-> player[m]] :
                     m \in {x \in Matches : Overdue(x)}}
  <2>1. due' = D /\ UNCHANGED <<slot, over, match, player, purse, buyers, task>>
    BY <1>2 DEF ProcessExpiredMatchesLoad
  <2>2. \A c \in D : \E m \in Matches : /\ c = [m |-> m, mt |-> match[m], team |-> player[m]]
                                        /\ match[m].status # "absent"
    BY DEF Overdue, Registering
  <2>3. D \subseteq Due
    BY <2>2 DEF Due, PlacesInv, MTypeOK
  <2>4. \A c \in D : CopyOf(c.mt, c.m) /\ RowsStay(c.team, c.m)
    BY <2>2 DEF CopyOf, RowsStay
  <2> HIDE DEF D
  <2>5. DueInv'
    BY <2>1, <2>4 DEF DueInv, CopyOf, RowsStay
  <2>6. MTypeOK' /\ RowsInv' /\ OneTaker' /\ KeepsPlaces({})
    BY <2>1, <2>3 DEF PlacesInv, MTypeOK, RowsInv, SlotOf, OneTaker, KeepsPlaces
  <2>7. \A w \in Workers : task'[w] # Idle => Loaded(task[w])'
    BY <2>1 DEF PlacesInv, Loaded, CopyOf, RowsStay
  <2> QED BY <2>1, <2>5, <2>6, <2>7 DEF PlacesInv
<1>3. CASE ExpireMatch
  <2>1. PICK c \in due :
          /\ \/ /\ match' = [match EXCEPT ![c.m] = [c.mt EXCEPT !.status = "confirmed"]]
                /\ UNCHANGED <<slot, player, purse>>
             \/ Close(c.m, c.mt, c.team, "expired", "failed")
          /\ due' = due \ {c} /\ UNCHANGED <<over, buyers, task>>
    BY <1>3 DEF ExpireMatch
  <2>2. /\ c.m \in Matches /\ c.mt \in MatchRow /\ c.team \in Team
        /\ CopyOf(c.mt, c.m) /\ RowsStay(c.team, c.m)
    BY DEF PlacesInv, MTypeOK, Due, DueInv
  <2>3. \A v \in Workers : task'[v] # Idle =>
          /\ task'[v] = task[v]
          /\ task[v].op = "create" => task[v].m # c.m
          /\ task[v].op = "join" => player[task[v].m][task[v].u] = "absent"
    BY <2>1, <2>2 DEF PlacesInv, Loaded, CopyOf, NoMatch
  <2>4. CASE Close(c.m, c.mt, c.team, "expired", "failed")
    <3>1. task' \in [Workers -> Tx \cup {Idle}]
      BY <2>1 DEF PlacesInv, MTypeOK
    <3> QED BY <2>1, <2>2, <2>3, <2>4, <3>1, CloseKeeps
  <2>5. CASE /\ match' = [match EXCEPT ![c.m] = [c.mt EXCEPT !.status = "confirmed"]]
             /\ UNCHANGED <<slot, player, purse>>
    <3> DEFINE mt == [c.mt EXCEPT !.status = "confirmed"]
    <3>1. /\ mt \in MatchRow /\ mt.status = "confirmed"
          /\ mt.slot = c.mt.slot /\ mt.creator = c.mt.creator
      BY <2>2 DEF MatchRow
    <3> HIDE DEF mt
    <3>2. match' = [match EXCEPT ![c.m] = mt]
      BY <2>5 DEF mt
    <3>3. MTypeOK'
      BY <2>1, <2>5, <3>1, <3>2 DEF PlacesInv, MTypeOK
    <3>4. match'[c.m] = mt /\ \A n \in Matches : n # c.m => match'[n] = match[n]
      BY <2>2, <3>2 DEF PlacesInv, MTypeOK
    <3>5. /\ match'[c.m].status # "absent"
          /\ match'[c.m].slot = match[c.m].slot /\ match'[c.m].creator = match[c.m].creator
          /\ match[c.m].slot \in Slots /\ match[c.m].creator \in Users
      BY <2>2, <3>1, <3>4 DEF CopyOf, PlacesInv, RowsInv, SlotOf
    <3>6. PlacesInv'
      BY <2>1, <2>2, <2>3, <2>5, <3>3, <3>4, <3>5, WriteKeeps
    <3> QED BY <2>1, <2>5, <3>6 DEF KeepsPlaces
  <2> QED BY <2>1, <2>4, <2>5
<1> QED BY <1>1, <1>2, <1>3
-----------------------------------------------------------------------------
(* Types of the page.                                                      *)
LEMMA CallFields ==
  /\ Free.at = "none"
  /\ \A k \in Call : /\ k # Free /\ k.m \in Matches /\ k.filter \in Filters
                     /\ k.at \in {"sent", "running", "ok", "refused"}
                     /\ k.op \in {"create", "join", "leave", "cancel", "pay"}
                     /\ k.page \in BOOLEAN
BY DEF Free, Call

LEMMA AnswerType ==
  ASSUME NEW k \in Call, NEW a \in {"ok", "refused"}
  PROVE  Answer(k, a) \in Call \cup {Free}
<1>1. [k EXCEPT !.at = a, !.by = None] \in Call
  BY DEF Call
<1> QED BY <1>1 DEF Answer

LEMMA SendType ==
  ASSUME BTypeOK, NEW c \in Calls, NEW m \in Matches, NEW s \in Slots \cup {None},
         NEW o \in {"create", "join", "leave", "cancel", "pay"}, Send(c, o, m, s),
         o = "create" => s \in Slots
  PROVE  call' \in [Calls -> Call \cup {Free}]
<1> DEFINE k == [op |-> o, m |-> m, slot |-> s, filter |-> filter,
                 at |-> "sent", page |-> TRUE, by |-> None]
<1>1. k \in Call
  BY DEF Call, BTypeOK
<1>2. call' = [call EXCEPT ![c] = k]
  BY DEF Send
<1> QED BY <1>1, <1>2 DEF BTypeOK

LEMMA ClickType ==
  ASSUME BTypeOK, NEW c \in Calls, Click(c)
  PROVE  BTypeOK'
<1>0. UNCHANGED mvars => MTypeOK'
  BY DEF BTypeOK, MTypeOK, mvars
<1>1. CASE HandleCreateMatch(c)
  <2>1. call' \in [Calls -> Call \cup {Free}]
    BY <1>1, SendType DEF HandleCreateMatch
  <2> QED BY <1>0, <1>1, <2>1 DEF HandleCreateMatch, BTypeOK
<1>2. CASE HandleJoinMatch(c)
  <2>1. PICK k \in list : Send(c, "join", k.m, None)
    BY <1>2 DEF HandleJoinMatch
  <2>2. k.m \in Matches
    BY DEF BTypeOK, Card
  <2>3. call' \in [Calls -> Call \cup {Free}]
    BY <2>1, <2>2, SendType
  <2> QED BY <1>0, <1>2, <2>3 DEF HandleJoinMatch, BTypeOK, page
<1>3. CASE HandleLeaveMatch(c) \/ HandleCancelMatch(c)
  <2>1. detail.m \in Matches
    BY <1>3 DEF BTypeOK, Card, HandleLeaveMatch, HandleCancelMatch
  <2>2. call' \in [Calls -> Call \cup {Free}]
    BY <1>3, <2>1, SendType DEF HandleLeaveMatch, HandleCancelMatch
  <2> QED BY <1>0, <1>3, <2>2 DEF HandleLeaveMatch, HandleCancelMatch, BTypeOK, page
<1>4. CASE HandlePayMockMatch(c)
  <2>1. call' \in [Calls -> Call \cup {Free}]
    BY <1>4, SendType DEF HandlePayMockMatch, BTypeOK
  <2> QED BY <1>0, <1>4, <2>1 DEF HandlePayMockMatch, BTypeOK, page
<1> QED BY <1>1, <1>2, <1>3, <1>4 DEF Click

LEMMA FetchTypes ==
  ASSUME BTypeOK
  PROVE  /\ \A f \in Filters : [at |-> "sent", filter |-> f] \in Fetch
         /\ \A f \in Filters : AskMatches(f) =>
              fetch' \in [Fetches -> Fetch \cup {Free}] /\ loading' = TRUE
         /\ \A i \in Fetches :
              /\ fetch[i].at = "sent" => fetch[i].filter \in Filters
              /\ fetch[i].at = "answered" => fetch[i].cards \subseteq Card
<1>1. \A f \in Filters : [at |-> "sent", filter |-> f] \in Fetch
  BY DEF Fetch
<1>2. ASSUME NEW f \in Filters, AskMatches(f)
      PROVE  fetch' \in [Fetches -> Fetch \cup {Free}] /\ loading' = TRUE
  BY <1>1, <1>2 DEF AskMatches, BTypeOK
<1>3. ASSUME NEW i \in Fetches
      PROVE  /\ fetch[i].at = "sent" => fetch[i].filter \in Filters
             /\ fetch[i].at = "answered" => fetch[i].cards \subseteq Card
  <2>1. fetch[i] \in Fetch \cup {Free}
    BY DEF BTypeOK
  <2>2. Free.at = "none"
    BY DEF Free
  <2> QED BY <2>1, <2>2 DEF Fetch
<1> QED BY <1>1, <1>2, <1>3

LEMMA ListType ==
  ASSUME BTypeOK, NEW i \in Fetches,
         ListMatches(i) \/ ShowMatches(i)
  PROVE  BTypeOK'
<1>0. UNCHANGED mvars => MTypeOK'
  BY DEF BTypeOK, MTypeOK, mvars
<1>1. CASE ListMatches(i)
  <2> DEFINE C == {CardOf(m) : m \in {x \in Matches : Listed(x, fetch[i].filter)}}
  <2>1. ASSUME NEW m \in Matches, Listed(m, fetch[i].filter) PROVE CardOf(m) \in Card
    <3>1. match[m].status \in {"open", "full", "confirmed", "cancelled"}
      BY <1>1, <2>1, FetchTypes, MatchBoardAssumption DEF ListMatches, Listed, Registering
    <3>2. player[m][Me] \in Player
      BY MatchBoardAssumption DEF BTypeOK, MTypeOK, Team
    <3> QED BY <3>1, <3>2 DEF CardOf, Card
  <2>2. C \subseteq Card
    BY <2>1
  <2>3. fetch' = [fetch EXCEPT ![i] = [at |-> "answered", cards |-> C]]
    BY <1>1 DEF ListMatches
  <2> HIDE DEF C
  <2>4. fetch' \in [Fetches -> Fetch \cup {Free}]
    BY <2>2, <2>3 DEF BTypeOK, Fetch
  <2> QED BY <1>0, <1>1, <2>4 DEF ListMatches, BTypeOK, page
<1>2. CASE ShowMatches(i)
  BY <1>0, <1>2, FetchTypes DEF ShowMatches, BTypeOK
<1> QED BY <1>1, <1>2

LEMMA PageType ==
  ASSUME BTypeOK,
         \/ \E f \in Filters : SelectFilter(f)
         \/ OpenCreateModal \/ CloseCreateModal \/ OpenDetail \/ CloseDetail \/ Reload
  PROVE  BTypeOK'
<1>0. UNCHANGED mvars => MTypeOK'
  BY DEF BTypeOK, MTypeOK, mvars
<1>1. CASE \E f \in Filters : SelectFilter(f)
  BY <1>0, <1>1, FetchTypes DEF SelectFilter, BTypeOK
<1>2. CASE OpenCreateModal \/ CloseCreateModal \/ OpenDetail \/ CloseDetail
  BY <1>0, <1>2 DEF OpenCreateModal, CloseCreateModal, OpenDetail, CloseDetail, BTypeOK
<1>3. CASE Reload
  <2>1. call' \in [Calls -> Call \cup {Free}]
    <3>1. \A c \in Calls : call[c].at \in {"sent", "running"} =>
             [call[c] EXCEPT !.page = FALSE] \in Call
      <4> SUFFICES ASSUME NEW c \in Calls, call[c].at \in {"sent", "running"}
                   PROVE  [call[c] EXCEPT !.page = FALSE] \in Call
        OBVIOUS
      <4>1. call[c] \in Call
        BY CallFields DEF BTypeOK
      <4> QED BY <4>1 DEF Call
    <3> QED BY <1>3, <3>1 DEF Reload
  <2>2. fetch' \in [Fetches -> Fetch \cup {Free}]
    <3>1. [at |-> "sent", filter |-> "open"] \in Fetch
      BY MatchBoardAssumption DEF Fetch
    <3> QED BY <1>3, <3>1 DEF Reload
  <2>3. troubles' \in 0..Troubles
    BY <1>3, MatchBoardAssumption DEF Reload, Trouble, BTypeOK
  <2> QED BY <1>0, <1>3, <2>1, <2>2, <2>3, MatchBoardAssumption DEF Reload, BTypeOK
<1> QED BY <1>1, <1>2, <1>3

LEMMA CallType ==
  ASSUME BTypeOK, MTypeOK', NEW c \in Calls, Serve(c) \/ Reply(c) \/ Lost(c)
  PROVE  BTypeOK'
<1>1. CASE Serve(c)
  <2>1. call[c] \in Call
    BY <1>1, CallFields DEF Serve, BTypeOK
  <2>2. call' \in [Calls -> Call \cup {Free}]
    <3>1. \A w \in Workers : [call[c] EXCEPT !.at = "running", !.by = w] \in Call
      BY <2>1 DEF Call
    <3>2. CASE \E w \in Workers : call' = [call EXCEPT ![c].at = "running", ![c].by = w]
      <4>1. PICK w \in Workers : call' = [call EXCEPT ![c].at = "running", ![c].by = w]
        BY <3>2
      <4>2. call' = [call EXCEPT ![c] = [call[c] EXCEPT !.at = "running", !.by = w]]
        BY <4>1
      <4> QED BY <3>1, <4>2 DEF BTypeOK
    <3>3. CASE call' = [call EXCEPT ![c] = Answer(@, "refused")]
      BY <2>1, <3>3, AnswerType DEF BTypeOK
    <3> QED BY <1>1, <3>2, <3>3 DEF Serve
  <2> QED BY <1>1, <2>2 DEF Serve, BTypeOK, page
<1>2. CASE Answered(c)
  <2>1. call[c] \in Call
    BY <1>2, CallFields DEF Answered, BTypeOK
  <2>2. PayDialog(call[c]) \in Matches \cup {None}
    BY <2>1, CallFields DEF PayDialog, BTypeOK
  <2>3. fetch' \in [Fetches -> Fetch \cup {Free}] /\ loading' = TRUE
    BY <1>2, <2>1, CallFields, FetchTypes DEF Answered
  <2> QED BY <1>2, <2>1, <2>2, <2>3 DEF Answered, BTypeOK
<1>3. CASE Refused(c)
  BY <1>3 DEF Refused, BTypeOK
<1>4. CASE Lost(c)
  <2>1. call[c] \in Call
    BY <1>4, CallFields DEF Lost, BTypeOK
  <2>2. call' \in [Calls -> Call \cup {Free}]
    BY <1>4, <2>1, AnswerType DEF Lost, BTypeOK
  <2>3. troubles' \in 0..Troubles
    BY <1>4, MatchBoardAssumption DEF Lost, Trouble, BTypeOK
  <2> QED BY <1>4, <2>2, <2>3 DEF Lost, BTypeOK, page
<1> QED BY <1>1, <1>2, <1>3, <1>4 DEF Reply

LEMMA ServerType ==
  ASSUME BTypeOK, MTypeOK', Server \/ \E w \in Workers : Finish(w)
  PROVE  BTypeOK'
<1>1. CASE Server
  BY <1>1 DEF Server, BTypeOK, page
<1>2. ASSUME NEW w \in Workers, Finish(w) PROVE BTypeOK'
  <2>1. \A c \in Calls : call[c].at = "running" => call[c] \in Call
    BY CallFields DEF BTypeOK
  <2>2. call' \in [Calls -> Call \cup {Free}]
    BY <1>2, <2>1, AnswerType DEF Finish, BTypeOK
  <2> QED BY <1>2, <2>2 DEF Finish, BTypeOK, page
<1> QED BY <1>1, <1>2
-----------------------------------------------------------------------------
(***************************************************************************)
(* Calls and the goroutines that handle them.  A goroutine that takes a    *)
(* place for Me handles a call of this browser.                            *)
(***************************************************************************)
Serves(t, k) == /\ t # Idle /\ t.m = k.m
                /\ (t.op = k.op \/ (t.op = "paying" /\ k.op = "pay"))
                /\ k.op # "cancel" => t.u = Me

CallsServed ==
  /\ \A c \in Calls : call[c].at = "running" =>
       call[c].by \in Workers /\ Serves(task[call[c].by], call[c])
  /\ \A c, d \in Calls :
       call[c].at = "running" /\ call[d].at = "running" /\ call[c].by = call[d].by => c = d
  /\ \A w \in Workers : task[w].op \in {"create", "join"} /\ task[w].u = Me =>
       \E c \in Calls : call[c].at = "running" /\ call[c].by = w

(* What an accepted call has done is true, and an answer finds the page    *)
(* that asked.                                                             *)
AnswersTrue ==
  /\ \A c \in Calls : call[c].at \in {"ok", "refused"} => call[c].page
  /\ \A c \in Calls : call[c].at = "ok" =>
       /\ call[c].op \in {"create", "join"} => player[call[c].m][Me] # "absent"
       /\ call[c].op = "pay" => player[call[c].m][Me] \notin {"absent", "joined"}
  /\ troubles = 0 => \A c \in Calls : call[c] # Free => call[c].page

\* A place that was taken has the terminal, or an answer that opens it.
CanPay(m) ==
  \/ pay = m
  \/ \E c \in Calls : /\ call[c].at = "ok" /\ call[c].m = m
                        /\ call[c].op \in {"create", "join"}
OnlyMatch(m) == \A n \in Matches \ {m} : player[n][Me] = "absent"
OnlyCanPay ==
  troubles = 0 =>
    \A m \in Matches : player[m][Me] = "joined" /\ OnlyMatch(m) => CanPay(m)

\* A form on its way keeps its button disabled.
FormIsSent ==
  \A c \in Calls : call[c] # Free /\ call[c].op = "create" /\ call[c].page => submitting

BoardInv ==
  /\ BTypeOK /\ PlacesInv /\ CallsServed /\ AnswersTrue
  /\ TerminalIsMine /\ OnlyCanPay /\ FormIsSent /\ SubmittedOnce

\* A call is sent.
LEMMA SendKeeps ==
  ASSUME BoardInv, NEW c \in Calls, NEW o, NEW m, NEW s, Send(c, o, m, s),
         UNCHANGED <<mvars, troubles, pay>>
  PROVE  CallsServed' /\ AnswersTrue' /\ TerminalIsMine' /\ OnlyCanPay'
<1>1. /\ call[c] = Free /\ call[c].at = "none"
      /\ call'[c].at = "sent" /\ call'[c].page
      /\ \A d \in Calls : d # c => call'[d] = call[d]
  BY DEF Send, BoardInv, BTypeOK, Free
<1>2. UNCHANGED <<player, task, match>>
  BY DEF mvars
<1>3. CallsServed'
  <2>1. \A d \in Calls : call'[d].at = "running" <=> d # c /\ call[d].at = "running"
    BY <1>1
  <2> QED BY <1>1, <1>2, <2>1 DEF BoardInv, CallsServed
<1>4. AnswersTrue'
  BY <1>1, <1>2 DEF BoardInv, AnswersTrue
<1>5. TerminalIsMine'
  BY <1>2 DEF BoardInv, TerminalIsMine
<1>6. OnlyCanPay'
  BY <1>1, <1>2 DEF BoardInv, OnlyCanPay, CanPay, OnlyMatch
<1> QED BY <1>3, <1>4, <1>5, <1>6

LEMMA PlacesUnchanged ==
  ASSUME PlacesInv, UNCHANGED mvars
  PROVE  PlacesInv' /\ MTypeOK'
BY DEF mvars, PlacesInv, MTypeOK, RowsInv, SlotOf, DueInv, CopyOf, RowsStay, OneTaker, Loaded

LEMMA ClickKeeps ==
  ASSUME BoardInv, NEW c \in Calls, Click(c)
  PROVE  BoardInv'
<1>1. BTypeOK'
  BY ClickType DEF BoardInv
<1>2. PICK o, m, s : /\ Send(c, o, m, s) /\ (o = "create" => ~submitting /\ submitting')
                     /\ (o # "create" => submitting' = submitting)
                     /\ UNCHANGED <<mvars, troubles, pay>>
  <2>1. CASE HandleCreateMatch(c)
    BY <2>1 DEF HandleCreateMatch
  <2>2. CASE HandleJoinMatch(c)
    BY <2>2 DEF HandleJoinMatch, page
  <2>3. CASE HandleLeaveMatch(c)
    BY <2>3 DEF HandleLeaveMatch, page
  <2>4. CASE HandleCancelMatch(c)
    BY <2>4 DEF HandleCancelMatch, page
  <2>5. CASE HandlePayMockMatch(c)
    BY <2>5 DEF HandlePayMockMatch, page
  <2> QED BY <2>1, <2>2, <2>3, <2>4, <2>5 DEF Click
<1>3. PlacesInv'
  BY <1>2, PlacesUnchanged DEF BoardInv
<1>4. CallsServed' /\ AnswersTrue' /\ TerminalIsMine' /\ OnlyCanPay'
  BY <1>2, SendKeeps
<1>5. /\ call'[c].op = o /\ \A d \in Calls : d # c => call'[d] = call[d]
  BY <1>2 DEF Send, BoardInv, BTypeOK
<1>6. FormIsSent' /\ SubmittedOnce'
  BY <1>2, <1>5 DEF BoardInv, FormIsSent, SubmittedOnce
<1> QED BY <1>1, <1>3, <1>4, <1>6 DEF BoardInv

\* A step of the page that sends no call and handles no answer.
LEMMA PageKeeps ==
  ASSUME BoardInv,
         \/ \E f \in Filters : SelectFilter(f)
         \/ \E i \in Fetches : ListMatches(i) \/ ShowMatches(i)
         \/ OpenCreateModal \/ CloseCreateModal \/ OpenDetail \/ CloseDetail
  PROVE  BoardInv'
<1>1. BTypeOK'
  BY PageType, ListType DEF BoardInv
<1>2. UNCHANGED <<mvars, call, submitting, pay, troubles>>
  BY DEF SelectFilter, ListMatches, ShowMatches, OpenCreateModal, CloseCreateModal,
         OpenDetail, CloseDetail, page
<1>3. PlacesInv' /\ UNCHANGED <<player, task>>
  BY <1>2, PlacesUnchanged DEF BoardInv, mvars
<1> QED BY <1>1, <1>2, <1>3
        DEF BoardInv, CallsServed, AnswersTrue, TerminalIsMine, OnlyCanPay, CanPay,
            OnlyMatch, FormIsSent, SubmittedOnce

LEMMA ReloadKeeps ==
  ASSUME BoardInv, Reload
  PROVE  BoardInv'
<1>1. BTypeOK' /\ PlacesInv' /\ UNCHANGED <<player, task>>
  BY PageType, PlacesUnchanged DEF BoardInv, Reload, mvars
<1>2. ASSUME NEW c \in Calls
      PROVE  \/ call'[c] = Free
             \/ /\ call[c].at \in {"sent", "running"} /\ call'[c].at = call[c].at
                /\ call'[c].by = call[c].by /\ call'[c].op = call[c].op
                /\ call'[c].m = call[c].m /\ ~call'[c].page
  <2>1. call'[c] = IF call[c].at \in {"sent", "running"}
                   THEN [call[c] EXCEPT !.page = FALSE] ELSE Free
    BY DEF Reload
  <2>2. call[c] \in Call \cup {Free}
    BY DEF BoardInv, BTypeOK
  <2> QED BY <2>1, <2>2, CallFields DEF Call
<1>3. \A c \in Calls : call[c].at = "running" => call'[c].at = "running"
  <2>1. \A c \in Calls : call[c].at = "running" =>
           call[c] \in Call /\ call'[c] = [call[c] EXCEPT !.page = FALSE]
    BY CallFields DEF Reload, BoardInv, BTypeOK
  <2> QED BY <2>1 DEF Call
<1>4. CallsServed'
  <2>1. \A c \in Calls : call'[c].at = "running" =>
          /\ call[c].at = "running" /\ call'[c].by = call[c].by
          /\ call'[c].op = call[c].op /\ call'[c].m = call[c].m
    BY <1>2, CallFields
  <2>2. \A c \in Calls : call[c].at = "running" => call'[c].by = call[c].by
    BY <1>3, <2>1
  <2> QED BY <1>1, <1>3, <2>1, <2>2 DEF BoardInv, CallsServed, Serves
<1>5. AnswersTrue'
  <2>1. troubles' # 0
    BY MatchBoardAssumption DEF Reload, Trouble, BoardInv, BTypeOK
  <2>2. \A c \in Calls : call'[c].at \notin {"ok", "refused"}
    BY <1>2, CallFields
  <2> QED BY <2>1, <2>2 DEF AnswersTrue
<1>6. TerminalIsMine' /\ OnlyCanPay'
  BY MatchBoardAssumption DEF Reload, Trouble, BoardInv, BTypeOK, TerminalIsMine, OnlyCanPay
<1>7. FormIsSent' /\ SubmittedOnce'
  BY <1>2 DEF FormIsSent, SubmittedOnce
<1> QED BY <1>1, <1>4, <1>5, <1>6, <1>7 DEF BoardInv

\* A call is refused, by the server or on the way.
LEMMA AnswerFields ==
  ASSUME NEW k \in Call, NEW a \in {"ok", "refused"}
  PROVE  /\ k.page => /\ Answer(k, a) # Free /\ Answer(k, a).at = a /\ Answer(k, a).m = k.m
                       /\ Answer(k, a).op = k.op /\ Answer(k, a).page
         /\ ~k.page => Answer(k, a) = Free
<1>1. /\ [k EXCEPT !.at = a, !.by = None].at = a
      /\ [k EXCEPT !.at = a, !.by = None].m = k.m
      /\ [k EXCEPT !.at = a, !.by = None].op = k.op
      /\ [k EXCEPT !.at = a, !.by = None].page = k.page
  BY DEF Call
<1> QED BY <1>1, CallFields DEF Answer

LEMMA RefusalKeeps ==
  ASSUME BoardInv, BTypeOK', NEW c \in Calls, call[c].at \in {"sent", "ok"},
         call' = [call EXCEPT ![c] = Answer(@, "refused")],
         UNCHANGED <<mvars, page>>,
         troubles' = 0 => troubles = 0 /\ call[c].at = "sent"
  PROVE  BoardInv'
<1>1. PlacesInv' /\ UNCHANGED <<player, task, pay, submitting>>
  BY PlacesUnchanged DEF BoardInv, mvars, page
<1>2. call[c] \in Call
  BY CallFields DEF BoardInv, BTypeOK
<1>3. \A d \in Calls : call'[d] = IF d = c THEN Answer(call[c], "refused") ELSE call[d]
  BY DEF BoardInv, BTypeOK
<1>4. /\ call'[c].at \in {"none", "refused"}
      /\ call'[c] # Free => /\ call'[c].op = call[c].op /\ call'[c].page /\ call[c].page
                            /\ call[c] # Free
  BY <1>2, <1>3, AnswerFields, CallFields
<1>5. CallsServed'
  <2>1. \A d \in Calls : call'[d].at = "running" => d # c /\ call'[d] = call[d]
    BY <1>3, <1>4
  <2>2. \A d \in Calls : call[d].at = "running" => call'[d] = call[d]
    BY <1>3
  <2> QED BY <1>1, <2>1, <2>2 DEF BoardInv, CallsServed
<1>6. AnswersTrue'
  <2>1. \A d \in Calls : call'[d].at \in {"ok", "refused"} => call'[d].page
    BY <1>3, <1>4, CallFields DEF BoardInv, AnswersTrue
  <2>2. \A d \in Calls : call'[d].at = "ok" => call'[d] = call[d]
    BY <1>3, <1>4
  <2>3. troubles' = 0 => \A d \in Calls : call'[d] # Free => call'[d].page
    BY <1>3, <1>4 DEF BoardInv, AnswersTrue
  <2> QED BY <1>1, <2>1, <2>2, <2>3 DEF BoardInv, AnswersTrue
<1>7. TerminalIsMine'
  BY <1>1 DEF BoardInv, TerminalIsMine
<1>8. OnlyCanPay'
  <2>1. \A d \in Calls : troubles' = 0 /\ call[d].at = "ok" => call'[d] = call[d]
    BY <1>3
  <2> QED BY <1>1, <2>1 DEF BoardInv, OnlyCanPay, CanPay, OnlyMatch
<1>9. FormIsSent' /\ SubmittedOnce'
  BY <1>1, <1>3, <1>4 DEF BoardInv, FormIsSent, SubmittedOnce
<1> QED BY <1>1, <1>5, <1>6, <1>7, <1>8, <1>9 DEF BoardInv

\* A goroutine begins to handle a call.
LEMMA RunKeeps ==
  ASSUME BoardInv, BTypeOK', PlacesInv', NEW c \in Calls, NEW w \in Workers,
         call[c].at = "sent", call[c] # Free,
         call'[c].at = "running", call'[c].by = w, call'[c].op = call[c].op,
         call'[c].m = call[c].m, call'[c].page = call[c].page, call'[c] # Free,
         \A d \in Calls : d # c => call'[d] = call[d],
         task[w] = Idle, player' = player,
         Serves(task'[w], call[c]),
         \A v \in Workers : v # w => task'[v] = task[v],
         UNCHANGED <<pay, submitting, troubles>>
  PROVE  BoardInv'
<1>1. CallsServed'
  <2>2. \A d \in Calls : d # c /\ call[d].at = "running" =>
          call[d].by \in Workers /\ call[d].by # w
    BY DEF BoardInv, CallsServed, Serves
  <2>3. ASSUME NEW d \in Calls, call'[d].at = "running"
        PROVE  call'[d].by \in Workers /\ Serves(task'[call'[d].by], call'[d])
    <3>1. CASE d = c
      BY <3>1 DEF Serves
    <3>2. CASE d # c
      <4>1. call'[d] = call[d] /\ task'[call[d].by] = task[call[d].by]
        BY <2>2, <2>3, <3>2
      <4> QED BY <2>3, <4>1 DEF BoardInv, CallsServed
    <3> QED BY <3>1, <3>2
  <2>4. ASSUME NEW d \in Calls, NEW e \in Calls,
               call'[d].at = "running", call'[e].at = "running", call'[d].by = call'[e].by
        PROVE  d = e
    <3>1. CASE d = c \/ e = c
      BY <2>2, <2>4, <3>1
    <3>2. CASE d # c /\ e # c
      BY <2>4, <3>2 DEF BoardInv, CallsServed
    <3> QED BY <3>1, <3>2
  <2>5. ASSUME NEW v \in Workers, task'[v].op \in {"create", "join"}, task'[v].u = Me
        PROVE  \E d \in Calls : call'[d].at = "running" /\ call'[d].by = v
    <3>1. CASE v = w
      BY <3>1
    <3>2. CASE v # w
      <4>1. PICK d \in Calls : call[d].at = "running" /\ call[d].by = v
        BY <2>5, <3>2 DEF BoardInv, CallsServed
      <4> QED BY <4>1
    <3> QED BY <3>1, <3>2
  <2> QED BY <2>3, <2>4, <2>5 DEF CallsServed
<1>2. AnswersTrue'
  <2>1. \A d \in Calls : call'[d].at # "running" => call'[d] = call[d]
    OBVIOUS
  <2> QED BY <2>1 DEF BoardInv, AnswersTrue
<1>3. TerminalIsMine'
  BY DEF BoardInv, TerminalIsMine
<1>4. OnlyCanPay'
  <2>1. \A d \in Calls : call[d].at = "ok" => call'[d] = call[d]
    OBVIOUS
  <2> QED BY <2>1 DEF BoardInv, OnlyCanPay, CanPay, OnlyMatch
<1>5. FormIsSent' /\ SubmittedOnce'
  <2>1. \A d \in Calls : /\ call'[d].op = call[d].op /\ call'[d].page = call[d].page
                         /\ call'[d] # Free => call[d] # Free
    OBVIOUS
  <2> QED BY <2>1 DEF BoardInv, FormIsSent, SubmittedOnce
<1> QED BY <1>1, <1>2, <1>3, <1>4, <1>5 DEF BoardInv

(* Goroutine w begins to handle call c.                                    *)
Runs(c, w) ==
  /\ call[c].at = "sent" /\ Handle(w, call[c])
  /\ call' = [call EXCEPT ![c].at = "running", ![c].by = w]
  /\ UNCHANGED <<fetch, page, troubles>>

LEMMA TaskSet ==
  ASSUME MTypeOK, NEW w \in Workers, NEW t, task' = [task EXCEPT ![w] = t]
  PROVE  task'[w] = t /\ \A v \in Workers : v # w => task'[v] = task[v]
BY DEF MTypeOK

LEMMA HandleKeeps ==
  ASSUME BoardInv, NEW c \in Calls, NEW w \in Workers, Runs(c, w)
  PROVE  BoardInv'
<1> DEFINE k == call[c]
<1>1. /\ k \in Call /\ k.m \in Matches /\ (k.op = "create" => k.slot \in Slots)
      /\ Me \in Users
  BY CallFields, MatchBoardAssumption DEF Runs, BoardInv, BTypeOK, Call
<1>2. /\ PlacesInv' /\ KeepsPlaces({})
  BY <1>1, RequestKeeps DEF Runs, Handle, BoardInv
<1>3. /\ task[w] = Idle /\ player' = player
      /\ task'[w].m = k.m /\ (k.op # "cancel" => task'[w].u = Me)
      /\ (task'[w].op = k.op \/ (task'[w].op = "paying" /\ k.op = "pay"))
      /\ \A v \in Workers : v # w => task'[v] = task[v]
  <2>0. \A t : task' = [task EXCEPT ![w] = t] =>
          task'[w] = t /\ \A v \in Workers : v # w => task'[v] = task[v]
    <3>1. MTypeOK
      BY DEF BoardInv, BTypeOK
    <3> QED BY <3>1, TaskSet
  <2>1. CASE k.op = "create" /\ CreateMatchLock(w, k.m, k.slot, Me)
    <3>1. PICK t : t = [op |-> "create", m |-> k.m, u |-> Me, sl |-> slot[k.slot],
                     mt |-> [status |-> "open", slot |-> k.slot, creator |-> Me, cur |-> 1]]
      OBVIOUS
    <3>2. t.m = k.m /\ t.u = Me /\ t.op = k.op
      BY <2>1, <3>1
    <3>3. task[w] = Idle /\ player' = player /\ task' = [task EXCEPT ![w] = t]
      BY <2>1, <3>1 DEF CreateMatchLock, Begin
    <3> QED BY <2>0, <2>1, <3>2, <3>3
  <2>2. CASE k.op = "join" /\ JoinMatchLock(w, k.m, Me)
    <3>1. PICK t : t = [op |-> "join", m |-> k.m, u |-> Me, mt |-> match[k.m],
                     sl |-> slot[SlotOf(k.m)]]
      OBVIOUS
    <3>2. t.m = k.m /\ t.u = Me /\ t.op = k.op
      BY <2>2, <3>1
    <3>3. task[w] = Idle /\ player' = player /\ task' = [task EXCEPT ![w] = t]
      BY <2>2, <3>1 DEF JoinMatchLock, Begin
    <3> QED BY <2>0, <2>2, <3>2, <3>3
  <2>3. CASE k.op = "leave" /\ LeaveMatchLock(w, k.m, Me)
    <3>1. PICK t : t = [op |-> "leave", m |-> k.m, u |-> Me, mt |-> match[k.m],
                     st |-> player[k.m][Me]]
      OBVIOUS
    <3>2. t.m = k.m /\ t.u = Me /\ t.op = k.op
      BY <2>3, <3>1
    <3>3. task[w] = Idle /\ player' = player /\ task' = [task EXCEPT ![w] = t]
      BY <2>3, <3>1 DEF LeaveMatchLock, Begin
    <3> QED BY <2>0, <2>3, <3>2, <3>3
  <2>4. CASE k.op = "cancel" /\ CancelMatchLock(w, k.m)
    <3>1. PICK t : t = [op |-> "cancel", m |-> k.m, mt |-> match[k.m],
                     team |-> player[k.m]]
      OBVIOUS
    <3>2. t.m = k.m /\ t.op = k.op
      BY <2>4, <3>1
    <3>3. task[w] = Idle /\ player' = player /\ task' = [task EXCEPT ![w] = t]
      BY <2>4, <3>1 DEF CancelMatchLock, Begin
    <3> QED BY <2>0, <2>4, <3>2, <3>3
  <2>5. CASE k.op = "pay" /\ ProcessMatchPaymentRead(w, k.m, Me)
    <3>1. PICK t : t = [op |-> "paying", m |-> k.m, u |-> Me]
      OBVIOUS
    <3>2. t.m = k.m /\ t.u = Me /\ t.op = "paying"
      BY <2>5, <3>1
    <3>3. task[w] = Idle /\ player' = player /\ task' = [task EXCEPT ![w] = t]
      BY <2>5, <3>1 DEF ProcessMatchPaymentRead, Begin
    <3> QED BY <2>0, <2>5, <3>2, <3>3
  <2> QED BY <2>1, <2>2, <2>3, <2>4, <2>5 DEF Runs, Handle
<1>4. BTypeOK'
  <2>1. [k EXCEPT !.at = "running", !.by = w] \in Call
    BY <1>1 DEF Call
  <2>2. call' = [call EXCEPT ![c] = [k EXCEPT !.at = "running", !.by = w]]
    BY DEF Runs
  <2>3. call' \in [Calls -> Call \cup {Free}]
    BY <2>1, <2>2 DEF BoardInv, BTypeOK
  <2> QED BY <1>2, <2>3 DEF Runs, BoardInv, BTypeOK, PlacesInv, page
<1>5. /\ call'[c].at = "running" /\ call'[c].by = w /\ call'[c].op = k.op
      /\ call'[c].m = k.m /\ call'[c].page = k.page /\ call'[c] # Free /\ k # Free
      /\ \A d \in Calls : d # c => call'[d] = call[d]
  <2>1. call'[c] = [k EXCEPT !.at = "running", !.by = w] /\ k # Free
    BY CallFields, <1>1 DEF Runs, BoardInv, BTypeOK
  <2>2. [k EXCEPT !.at = "running", !.by = w].at = "running"
    BY <1>1 DEF Call
  <2> QED BY <1>1, <2>1, <2>2, CallFields DEF Runs, BoardInv, BTypeOK, Call
<1>6. UNCHANGED <<pay, submitting, troubles>>
  BY DEF Runs, page
<1> QED
  <2>1. Serves(task'[w], k)
    BY <1>1, <1>3, CallFields, IdleOp DEF Serves
  <2> HIDE DEF k
  <2>2. k = call[c]
    BY DEF k
  <2>3. call[c].at = "sent"
    BY DEF Runs
  <2> QED BY <1>2, <1>3, <1>4, <1>5, <1>6, <2>1, <2>2, <2>3, RunKeeps

LEMMA ServeKeeps ==
  ASSUME BoardInv, NEW c \in Calls, Serve(c)
  PROVE  BoardInv'
<1>1. CASE \E w \in Workers : /\ Handle(w, call[c])
                              /\ call' = [call EXCEPT ![c].at = "running", ![c].by = w]
  BY <1>1, HandleKeeps DEF Serve, Runs
<1>2. CASE call' = [call EXCEPT ![c] = Answer(@, "refused")] /\ UNCHANGED mvars
  <2>1. BTypeOK'
    BY <1>2, CallType, PlacesUnchanged DEF BoardInv
  <2> QED BY <1>2, <2>1, RefusalKeeps DEF Serve
<1> QED BY <1>1, <1>2 DEF Serve

LEMMA LostKeeps ==
  ASSUME BoardInv, NEW c \in Calls, Lost(c)
  PROVE  BoardInv'
<1>1. BTypeOK'
  BY CallType, PlacesUnchanged DEF BoardInv, Lost
<1>2. troubles' # 0
  BY MatchBoardAssumption DEF Lost, Trouble, BoardInv, BTypeOK
<1> QED BY <1>1, <1>2, RefusalKeeps DEF Lost
-----------------------------------------------------------------------------
(* The page handles an answer.                                             *)
LEMMA ReplyKeeps ==
  ASSUME BoardInv, NEW c \in Calls, Reply(c)
  PROVE  BoardInv'
<1> DEFINE k == call[c]
<1>1. /\ k \in Call /\ k # Free /\ k.m \in Matches /\ k.at \in {"ok", "refused"} /\ k.page
  BY CallFields DEF BoardInv, BTypeOK, Reply, Answered, Refused, AnswersTrue
<1>2. UNCHANGED <<mvars, troubles>> /\ call' = [call EXCEPT ![c] = Free]
  BY DEF Reply, Answered, Refused
<1>3. PlacesInv' /\ MTypeOK' /\ UNCHANGED <<player, task>>
  BY <1>2, PlacesUnchanged DEF BoardInv, mvars
<1>4. BTypeOK'
  BY <1>3, CallType DEF BoardInv
<1>5. call'[c] = Free /\ \A d \in Calls : d # c => call'[d] = call[d]
  BY <1>2 DEF BoardInv, BTypeOK
<1>6. CallsServed'
  <2>1. \A d \in Calls : call'[d].at = "running" => call'[d] = call[d]
    BY <1>5, CallFields
  <2>2. \A d \in Calls : call[d].at = "running" => call'[d] = call[d]
    BY <1>1, <1>5
  <2> QED BY <1>3, <2>1, <2>2 DEF BoardInv, CallsServed
<1>7. AnswersTrue'
  <2>1. \A d \in Calls : call'[d].at \in {"ok", "refused"} => call'[d] = call[d]
    BY <1>5, CallFields
  <2>2. \A d \in Calls : call'[d] # Free => call'[d] = call[d]
    BY <1>5
  <2> QED BY <1>2, <1>3, <2>1, <2>2 DEF BoardInv, AnswersTrue
<1>8. FormIsSent' /\ SubmittedOnce'
  <2>1. \A d \in Calls : call'[d] # Free => d # c /\ call'[d] = call[d] /\ call[d] # Free
    BY <1>5
  <2>2. submitting' = (submitting /\ k.op # "create")
    BY DEF Reply, Answered, Refused
  <2>3. \A d \in Calls : call[d] # Free /\ call[d].op = "create" /\ call[d].page
          => submitting /\ (k.op = "create" => d = c)
    BY <1>1 DEF BoardInv, FormIsSent, SubmittedOnce
  <2>4. FormIsSent'
    BY <2>1, <2>2, <2>3 DEF FormIsSent
  <2>5. SubmittedOnce'
    BY <2>1 DEF BoardInv, SubmittedOnce
  <2> QED BY <2>4, <2>5
<1>9. TerminalIsMine' /\ OnlyCanPay'
  <2>1. CASE k.at = "refused"
    <3>1. pay' = pay
      BY <1>2, <2>1 DEF Reply, Answered, Refused
    <3>2. \A d \in Calls : call[d].at = "ok" => call'[d] = call[d]
      BY <1>5, <2>1
    <3> QED BY <1>2, <1>3, <3>1, <3>2
            DEF BoardInv, TerminalIsMine, OnlyCanPay, CanPay, OnlyMatch
  <2>2. CASE k.at = "ok"
    <3>1. pay' = PayDialog(k)
      BY <2>2 DEF Reply, Answered, Refused
    <3>2. /\ k.op \in {"create", "join"} => pay' = k.m /\ player[k.m][Me] # "absent"
          /\ k.op = "pay" => pay' = None /\ player[k.m][Me] \notin {"absent", "joined"}
          /\ k.op \notin {"create", "join", "pay"} => pay' = pay
      BY <2>2, <3>1 DEF PayDialog, BoardInv, AnswersTrue
    <3>3. TerminalIsMine'
      BY <1>3, <3>2 DEF BoardInv, TerminalIsMine
    <3>4. ASSUME troubles = 0, NEW m \in Matches, player[m][Me] = "joined", OnlyMatch(m)
          PROVE  CanPay(m)'
      <4>1. k.op \in {"create", "join"} => pay' = m
        BY <1>1, <3>2, <3>4 DEF OnlyMatch
      <4>2. k.op # "pay"
        BY <1>1, <3>2, <3>4 DEF OnlyMatch
      <4>3. CanPay(m)
        BY <3>4 DEF BoardInv, OnlyCanPay
      <4>4. CASE k.op \notin {"create", "join"}
        <5>1. \A d \in Calls : call[d].at = "ok" /\ call[d].op \in {"create", "join"}
                => call'[d] = call[d]
          BY <1>5, <4>4
        <5> QED BY <3>2, <4>2, <4>3, <4>4, <5>1 DEF CanPay
      <4> QED BY <4>1, <4>4 DEF CanPay
    <3> QED BY <1>2, <1>3, <3>3, <3>4 DEF OnlyCanPay, OnlyMatch
  <2> QED BY <1>1, <2>1, <2>2
<1> QED BY <1>3, <1>4, <1>6, <1>7, <1>8, <1>9 DEF BoardInv
-----------------------------------------------------------------------------
(* The server works: for the others, for the cron, and for this browser.   *)
LEMMA ServerMoves ==
  ASSUME BoardInv, BTypeOK', PlacesInv', KeepsPlaces({}),
         UNCHANGED <<call, pay, submitting, troubles>>,
         \A w \in Workers : task[w] # Idle =>
           \/ task'[w] = task[w]
           \/ /\ task[w].op = "paying" /\ task'[w].op = "pay" /\ task'[w] # Idle
              /\ task'[w].m = task[w].m /\ task'[w].u = task[w].u,
         \A w \in Workers : task'[w].op \in {"create", "join"} /\ task'[w].u = Me
           => task'[w] = task[w]
  PROVE  BoardInv'
<1>0. Me \in Users
  BY MatchBoardAssumption
<1>1. CallsServed'
  <2>1. ASSUME NEW c \in Calls, call[c].at = "running"
        PROVE  call[c].by \in Workers /\ Serves(task'[call[c].by], call[c])
    <3>1. call[c].by \in Workers /\ Serves(task[call[c].by], call[c])
      BY <2>1 DEF BoardInv, CallsServed
    <3>2. call[c].op # "paying"
      BY <2>1, CallFields DEF BoardInv, BTypeOK
    <3> QED BY <3>1, <3>2 DEF Serves
  <2> QED BY <2>1 DEF BoardInv, CallsServed, Serves
<1>2. AnswersTrue'
  <2>1. \A c \in Calls : call[c].at = "ok" => call[c].m \in Matches
    BY CallFields DEF BoardInv, BTypeOK
  <2> QED BY <1>0, <2>1 DEF BoardInv, AnswersTrue, KeepsPlaces
<1>3. TerminalIsMine'
  BY <1>0 DEF BoardInv, BTypeOK, TerminalIsMine, KeepsPlaces
<1>4. OnlyCanPay'
  <2>1. ASSUME NEW m \in Matches, player'[m][Me] = "joined", OnlyMatch(m)'
        PROVE  player[m][Me] = "joined" /\ OnlyMatch(m)
    BY <1>0, <2>1 DEF OnlyMatch, KeepsPlaces
  <2> QED BY <2>1 DEF BoardInv, OnlyCanPay, CanPay
<1>5. FormIsSent' /\ SubmittedOnce'
  BY DEF BoardInv, FormIsSent, SubmittedOnce
<1> QED BY <1>1, <1>2, <1>3, <1>4, <1>5 DEF BoardInv

LEMMA ServerKeeps ==
  ASSUME BoardInv, Server
  PROVE  BoardInv'
<1>1. UNCHANGED <<call, pay, submitting, troubles>>
  BY DEF Server, page
<1>2. ASSUME PlacesInv' PROVE BTypeOK'
  BY <1>2, ServerType DEF BoardInv, PlacesInv
<1>3. CASE Others
  <2>1. PICK w \in Workers, m \in Matches, u \in Users \ {Me} :
          \/ \E s \in Slots : CreateMatchLock(w, m, s, u)
          \/ JoinMatchLock(w, m, u) \/ LeaveMatchLock(w, m, u)
          \/ CancelMatchLock(w, m) \/ ProcessMatchPaymentRead(w, m, u)
    BY <1>3 DEF Others
  <2>2. PlacesInv' /\ KeepsPlaces({})
    BY <2>1, RequestKeeps DEF BoardInv
  <2>3. \A t : task' = [task EXCEPT ![w] = t] =>
          task'[w] = t /\ \A v \in Workers : v # w => task'[v] = task[v]
    <3>1. MTypeOK
      BY DEF BoardInv, BTypeOK
    <3> QED BY <3>1, TaskSet
  <2>4. /\ task[w] = Idle /\ \A v \in Workers : v # w => task'[v] = task[v]
        /\ task'[w].op \in {"create", "join"} => task'[w].u # Me
    <3>1. CASE \E s \in Slots : CreateMatchLock(w, m, s, u)
      <4>1. PICK s \in Slots : CreateMatchLock(w, m, s, u)
        BY <3>1
      <4>2. /\ task[w] = Idle
            /\ \E t : t.u = u /\ task' = [task EXCEPT ![w] = t]
        BY <4>1 DEF CreateMatchLock, Begin
      <4> QED BY <2>3, <4>2
    <3>2. CASE JoinMatchLock(w, m, u)
      BY <2>3, <3>2 DEF JoinMatchLock, Begin
    <3>3. CASE LeaveMatchLock(w, m, u)
      BY <2>3, <3>3 DEF LeaveMatchLock, Begin
    <3>4. CASE CancelMatchLock(w, m)
      BY <2>3, <3>4 DEF CancelMatchLock, Begin
    <3>5. CASE ProcessMatchPaymentRead(w, m, u)
      BY <2>3, <3>5 DEF ProcessMatchPaymentRead, Begin
    <3> QED BY <2>1, <3>1, <3>2, <3>3, <3>4, <3>5
  <2> QED BY <1>1, <1>2, <2>2, <2>4, ServerMoves
<1>4. CASE \/ ProcessExpiredMatchesLoad \/ ExpireMatch
           \/ \E s \in Slots : RegistrationEnds(s)
  <2>1. PlacesInv' /\ KeepsPlaces({}) /\ task' = task
    BY <1>4, CronKeeps DEF BoardInv
  <2> QED BY <1>1, <1>2, <2>1, ServerMoves
<1>5. CASE \E w \in Workers : ProcessMatchPaymentMark(w)
  <2>1. PICK w \in Workers : ProcessMatchPaymentMark(w)
    BY <1>5
  <2>2. /\ PlacesInv' /\ KeepsPlaces({})
        /\ task[w].op = "paying" /\ task[w] # Idle
        /\ task'[w].op = "pay" /\ task'[w] # Idle
        /\ task'[w].m = task[w].m /\ task'[w].u = task[w].u
        /\ \A v \in Workers : v # w => task'[v] = task[v]
    BY <2>1, MarkKeeps DEF BoardInv
  <2> QED BY <1>1, <1>2, <2>2, ServerMoves
<1> QED BY <1>3, <1>4, <1>5 DEF Server

LEMMA FinishKeeps ==
  ASSUME BoardInv, NEW w \in Workers, Finish(w)
  PROVE  BoardInv'
<1> DEFINE t == task[w]
           Mine(c) == call[c].at = "running" /\ call[c].by = w
<1>0. Me \in Users
  BY MatchBoardAssumption
<1>1. /\ PlacesInv' /\ KeepsPlaces(Takes(t)) /\ t # Idle
      /\ task' = [task EXCEPT ![w] = Idle]
      /\ t.op \in {"create", "join"} => player'[t.m][t.u] = "joined"
      /\ t.op = "pay" => player'[t.m][t.u] = "paid"
      /\ t.op # "paying"
  BY CommitKeeps DEF Finish, BoardInv
<1>2. BTypeOK'
  BY <1>1, ServerType DEF BoardInv, PlacesInv
<1>3. UNCHANGED <<pay, submitting, troubles>>
  BY DEF Finish, page
<1>4. \A c \in Calls : ~Mine(c) => call'[c] = call[c]
  BY DEF Finish
<1>5. \A c \in Calls : Mine(c) =>
        /\ call[c] # Free /\ call[c].op = t.op /\ call[c].m = t.m
        /\ call[c].op # "cancel" => t.u = Me
  BY <1>1, CallFields DEF BoardInv, CallsServed, Serves
<1>6. ASSUME NEW c \in Calls, Mine(c)
      PROVE  /\ call[c].page => /\ call'[c] # Free /\ call'[c].at = "ok"
                                /\ call'[c].m = t.m /\ call'[c].op = t.op /\ call'[c].page
             /\ ~call[c].page => call'[c] = Free
  <2>1. call[c] \in Call /\ call'[c] = Answer(call[c], "ok")
    BY <1>5, <1>6 DEF Finish, BoardInv, BTypeOK
  <2> QED BY <1>5, <1>6, <2>1, AnswerFields
<1> HIDE DEF Mine
<1>7. CallsServed'
  <2>1. \A c \in Calls : call'[c].at = "running" => ~Mine(c) /\ call'[c] = call[c]
    BY <1>4, <1>6, CallFields
  <2>2. \A v \in Workers : task'[v] = IF v = w THEN Idle ELSE task[v]
    BY <1>1 DEF BoardInv, BTypeOK, MTypeOK
  <2>3. \A c \in Calls : call'[c].at = "running" =>
          call[c].by # w /\ task'[call[c].by] = task[call[c].by]
    BY <2>1, <2>2 DEF Mine, BoardInv, CallsServed
  <2>4. ASSUME NEW v \in Workers, task'[v].op \in {"create", "join"}, task'[v].u = Me
        PROVE  \E c \in Calls : call'[c].at = "running" /\ call'[c].by = v
    <3>1. v # w /\ task'[v] = task[v]
      BY <2>2, <2>4, IdleOp
    <3>2. PICK c \in Calls : call[c].at = "running" /\ call[c].by = v
      BY <2>4, <3>1 DEF BoardInv, CallsServed
    <3>3. call'[c] = call[c]
      BY <1>4, <3>1, <3>2 DEF Mine
    <3> QED BY <3>2, <3>3
  <2>5. \A c, d \in Calls :
          call'[c].at = "running" /\ call'[d].at = "running" /\ call'[c].by = call'[d].by
            => c = d
    BY <2>1 DEF BoardInv, CallsServed
  <2>6. \A c \in Calls : call'[c].at = "running" =>
          call'[c].by \in Workers /\ Serves(task'[call'[c].by], call'[c])
    BY <2>1, <2>3 DEF BoardInv, CallsServed
  <2> QED BY <2>4, <2>5, <2>6 DEF CallsServed, Serves
<1>8. \A m \in Matches :
        /\ player[m][Me] # "absent" => player'[m][Me] # "absent"
        /\ player[m][Me] \notin {"absent", "joined"} => player'[m][Me] \notin {"absent", "joined"}
  BY <1>0, <1>1 DEF KeepsPlaces
<1>9. AnswersTrue'
  <2>1. \A c \in Calls : call'[c].at \in {"ok", "refused"} => call'[c].page
    BY <1>4, <1>6, CallFields DEF BoardInv, AnswersTrue
  <2>2. troubles' = 0 => \A c \in Calls : call'[c] # Free => call'[c].page
    BY <1>3, <1>4, <1>6 DEF BoardInv, AnswersTrue
  <2>3. ASSUME NEW c \in Calls, call'[c].at = "ok"
        PROVE  /\ call'[c].op \in {"create", "join"} => player'[call'[c].m][Me] # "absent"
               /\ call'[c].op = "pay" => player'[call'[c].m][Me] \notin {"absent", "joined"}
    <3>1. CASE Mine(c)
      BY <1>1, <1>5, <1>6, <2>3, <3>1, CallFields
    <3>2. CASE ~Mine(c)
      <4>1. call'[c] = call[c] /\ call[c].m \in Matches
        BY <1>4, <2>3, <3>2, CallFields DEF BoardInv, BTypeOK
      <4> QED BY <1>8, <2>3, <4>1 DEF BoardInv, AnswersTrue
    <3> QED BY <3>1, <3>2
  <2> QED BY <2>1, <2>2, <2>3 DEF AnswersTrue
<1>10. TerminalIsMine'
  BY <1>3, <1>8 DEF BoardInv, BTypeOK, TerminalIsMine
<1>11. OnlyCanPay'
  <2> SUFFICES ASSUME troubles = 0, NEW m \in Matches, player'[m][Me] = "joined", OnlyMatch(m)'
               PROVE  CanPay(m)'
    BY <1>3 DEF OnlyCanPay
  <2>1. OnlyMatch(m)
    BY <1>8 DEF OnlyMatch
  <2>2. CASE player[m][Me] = "joined"
    <3>1. CanPay(m)
      BY <2>1, <2>2 DEF BoardInv, OnlyCanPay
    <3>2. \A c \in Calls : call[c].at = "ok" => call'[c] = call[c]
      BY <1>4 DEF Mine
    <3> QED BY <1>3, <3>1, <3>2 DEF CanPay
  <2>3. CASE player[m][Me] # "joined"
    <3>1. t.op \in {"create", "join"} /\ t.m = m /\ t.u = Me
      BY <1>0, <1>1, <2>3 DEF KeepsPlaces, Takes
    <3>2. PICK c \in Calls : call[c].at = "running" /\ call[c].by = w
      BY <3>1 DEF BoardInv, CallsServed
    <3>3. Mine(c) /\ call[c].page
      BY <1>5, <3>2 DEF Mine, BoardInv, AnswersTrue
    <3> QED BY <1>6, <3>1, <3>3 DEF CanPay
  <2> QED BY <2>2, <2>3
<1>12. FormIsSent' /\ SubmittedOnce'
  <2>1. ASSUME NEW c \in Calls, call'[c] # Free
        PROVE  /\ call'[c].op = call[c].op /\ (call'[c].page => call[c].page)
               /\ call[c] # Free
    BY <1>4, <1>5, <1>6, <2>1
  <2> QED BY <1>3, <2>1 DEF BoardInv, FormIsSent, SubmittedOnce
<1> QED BY <1>1, <1>2, <1>7, <1>9, <1>10, <1>11, <1>12 DEF BoardInv

LEMMA BoardInit == BInit => BoardInv
<1> SUFFICES ASSUME BInit PROVE BoardInv
  OBVIOUS
<1>1. MTypeOK
  BY Rows, MatchmakingAssumption DEF BInit, MInit, MTypeOK, Purse, Team
<1>2. /\ \A m \in Matches : match[m] = NoMatch /\ player[m] = Nobody
                           /\ \A u \in Users : purse[m][u] = "none" /\ player[m][u] = "absent"
      /\ due = {} /\ \A w \in Workers : task[w] = Idle
  BY DEF BInit, MInit, Nobody
<1>3. PlacesInv
  BY <1>1, <1>2, IdleOp DEF PlacesInv, RowsInv, DueInv, OneTaker, NoMatch
<1>4. \A c \in Calls : call[c] = Free /\ call[c].at = "none"
  BY DEF BInit, Free
<1>5. BTypeOK
  <2>1. [at |-> "sent", filter |-> "open"] \in Fetch
    BY MatchBoardAssumption DEF Fetch
  <2>2. call \in [Calls -> Call \cup {Free}] /\ fetch \in [Fetches -> Fetch \cup {Free}]
    BY <2>1 DEF BInit
  <2>3. /\ filter = "open" /\ list = {} /\ loading = TRUE /\ create = FALSE
        /\ submitting = FALSE /\ detail = None /\ pay = None /\ troubles = 0
    BY DEF BInit
  <2>4. filter \in Filters /\ troubles \in 0..Troubles /\ list \subseteq Card
    BY <2>3, MatchBoardAssumption
  <2>5. detail \in Card \cup {None} /\ pay \in Matches \cup {None}
    BY <2>3
  <2> QED BY <1>1, <2>2, <2>3, <2>4, <2>5 DEF BTypeOK
<1>6. CallsServed /\ AnswersTrue
  BY <1>2, <1>4, IdleOp DEF CallsServed, AnswersTrue
<1>7. TerminalIsMine /\ OnlyCanPay /\ FormIsSent /\ SubmittedOnce
  BY <1>2, <1>4, MatchBoardAssumption
     DEF BInit, TerminalIsMine, OnlyCanPay, FormIsSent, SubmittedOnce
<1> QED BY <1>3, <1>5, <1>6, <1>7 DEF BoardInv

LEMMA BoardNext == BoardInv /\ [BNext]_bvars => BoardInv'
<1> SUFFICES ASSUME BoardInv, [BNext]_bvars PROVE BoardInv'
  OBVIOUS
<1>1. CASE UNCHANGED bvars
  <2>1. UNCHANGED <<mvars, call, fetch, troubles, filter, list, loading, create, submitting,
                    detail, pay>>
    BY <1>1 DEF bvars, page
  <2>2. PlacesInv' /\ MTypeOK' /\ UNCHANGED <<player, task>>
    BY <2>1, PlacesUnchanged DEF BoardInv, mvars
  <2>3. BTypeOK'
    BY <2>1, <2>2 DEF BoardInv, BTypeOK
  <2>4. KeepsPlaces({})
    BY <2>2 DEF KeepsPlaces
  <2> QED BY <2>1, <2>2, <2>3, <2>4, ServerMoves
<1>2. CASE \E c \in Calls : Click(c) \/ Serve(c) \/ Reply(c) \/ Lost(c)
  BY <1>2, ClickKeeps, ServeKeeps, ReplyKeeps, LostKeeps
<1>3. CASE \/ \E f \in Filters : SelectFilter(f)
           \/ \E i \in Fetches : ListMatches(i) \/ ShowMatches(i)
           \/ OpenCreateModal \/ CloseCreateModal \/ OpenDetail \/ CloseDetail
  BY <1>3, PageKeeps
<1>4. CASE Reload \/ Server \/ \E w \in Workers : Finish(w)
  BY <1>4, ReloadKeeps, ServerKeeps, FinishKeeps
<1> QED BY <1>1, <1>2, <1>3, <1>4 DEF BNext

LEMMA BoardInvariant == BSpec => []BoardInv
BY BoardInit, BoardNext, PTL DEF BSpec
-----------------------------------------------------------------------------
\* The page, its calls and its list requests keep their types.
THEOREM BoardTypeCorrect == BSpec => []BTypeOK
<1>1. BoardInv => BTypeOK
  BY DEF BoardInv
<1> QED BY <1>1, BoardInvariant, PTL

\* Nobody is asked to pay for a match without having taken a place in it,
\* whatever answers come late, cross each other, or are lost.
THEOREM TerminalsAreMine == BSpec => []TerminalIsMine
<1>1. BoardInv => TerminalIsMine
  BY DEF BoardInv
<1> QED BY <1>1, BoardInvariant, PTL

\* The create form is never on its way twice.
THEOREM FormsAreSentOnce == BSpec => []SubmittedOnce
<1>1. BoardInv => SubmittedOnce
  BY DEF BoardInv
<1> QED BY <1>1, BoardInvariant, PTL

\* Who has a place in one match can pay for it: the terminal is open, or the
\* answer that opens it is on its way.
THEOREM OnlyMatchCanBePaid == BSpec => []UnpaidCanPay
<1>1. ASSUME BoardInv PROVE UnpaidCanPay
  <2>1. \A c \in Calls : call[c].at = "ok" => call[c] # Free
    BY CallFields
  <2> QED BY <1>1, <2>1 DEF BoardInv, AnswersTrue, OnlyCanPay, OnlyMatch, CanPay, UnpaidCanPay
<1> QED BY <1>1, BoardInvariant, PTL
================================================================================
