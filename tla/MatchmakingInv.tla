---------------------------- MODULE MatchmakingInv ----------------------------
(***************************************************************************)
(* The inductive invariant of Matchmaking when players pay in time.        *)
(***************************************************************************)
EXTENDS Matchmaking

InTime == "late" \notin Hazards

\* Matches nobody has created are empty; the others have a slot and a creator.
RowsInv ==
  \A m \in Matches :
    IF match[m].status = "absent"
    THEN /\ match[m] = NoMatch /\ player[m] = Nobody
         /\ \A u \in Users : purse[m][u] = "none"
    ELSE SlotOf(m) \in Slots /\ match[m].creator \in Users

\* A copy of a match row has its slot and creator, which never change.
CopyOf(r, m) == /\ match[m].status # "absent" /\ r.status # "absent"
                /\ r.slot = match[m].slot /\ r.creator = match[m].creator

\* Rows that were there when they were loaded are there still.
RowsStay(T, m) == \A u \in Users : T[u] # "absent" => player[m][u] # "absent"

\* Whose payments are handled.
Paying == {"paying", "pay"}
Payers(m) == {u \in Users : \E w \in Workers : task[w].op \in Paying
                                               /\ task[w].m = m /\ task[w].u = u}

\* What a request has loaded: a locked row is as it was loaded, a payer plays
\* while the match takes players, and no other match is open on the slot a match
\* is created on.
TxInv(t) ==
  /\ t.op = "create" => /\ match[t.m] = NoMatch
                        /\ t.mt = [status |-> "open", slot |-> t.mt.slot,
                                   creator |-> t.u, cur |-> 1]
                        /\ t.mt.slot \in Slots
                        /\ \A m \in Matches : Registering(m) => SlotOf(m) # t.mt.slot
  /\ t.op = "join" => /\ match[t.m] = t.mt /\ HasRoom(t.mt)
                      /\ player[t.m][t.u] = "absent"
  /\ t.op = "leave" => /\ match[t.m] = t.mt /\ t.mt.status # "absent"
                       /\ t.st \in {"joined", "paid"} /\ t.u \in Active(player[t.m])
  /\ t.op = "cancel" => match[t.m] = t.mt
  /\ t.op \in {"cancel", "admin"} => CopyOf(t.mt, t.m) /\ RowsStay(t.team, t.m)
  /\ t.op \in Paying => /\ match[t.m].status # "absent" /\ player[t.m][t.u] # "absent"
                        /\ Registering(t.m) => t.u \in Active(player[t.m])
  /\ t.op = "pay" => CopyOf(t.mt, t.m)

LoadedInv == \A w \in Workers : task[w] # Idle => TxInv(task[w])

DueInv == \A c \in due : CopyOf(c.mt, c.m) /\ RowsStay(c.team, c.m)

\* A match row is locked by one request, a slot row by one, and a match is
\* created once.
LocksInv ==
  \A v, w \in Workers :
    /\ /\ task[v].op \in {"join", "leave", "cancel"}
       /\ task[w].op \in {"join", "leave", "cancel"}
       /\ task[v].m = task[w].m
       => v = w
    /\ /\ task[v].op = "create" /\ task[w].op = "create"
       /\ task[v].m = task[w].m \/ task[v].mt.slot = task[w].mt.slot
       => v = w
    /\ task[v].op = "paying" /\ task[w].op = "leave" =>
         task[v].m # task[w].m \/ task[v].u # task[w].u

\* Room for the players and for those who pay: a payment may come back after the
\* match was closed and its players were taken out.
RoomInv ==
  \A m \in Matches : Cardinality(Active(player[m]) \cup Payers(m)) <= Required

MatchInv ==
  /\ MTypeOK /\ RowsInv
  /\ LoadedInv /\ DueInv /\ LocksInv
  /\ CountIsExact /\ RoomInv /\ OneMatchPerSlot
=============================================================================
