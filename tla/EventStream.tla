----------------------------- MODULE EventStream -----------------------------
(***************************************************************************)
(* The event stream: EmitEvent hands an event to the hub, whose one        *)
(* goroutine numbers it, keeps it in the ring buffer and puts it into the  *)
(* send queue of every registered client it is addressed to; a WritePump   *)
(* per client empties the queue into WebSocket frames; the browser applies *)
(* what is newer than the newest event it knows.  When it opens a socket   *)
(* again, or its tab wakes up, it asks GET /ws/replay for what it missed.  *)
(*                                                                         *)
(* An event is its sequence number.  Role and user filters are the set of  *)
(* browsers it is addressed to.  0 in a queue is an ONLINE_COUNT_UPDATE,   *)
(* which has no number.                                                    *)
(***************************************************************************)
EXTENDS Integers, FiniteSets, Sequences, SequencesExt

CONSTANTS
  Browsers,   \* browsers that show a page with the event hook
  Conns,      \* WebSocket connections; one cannot be opened twice
  None,       \* no browser, no connection
  QueueSize,  \* capacity of a client's send queue (256)
  RingSize,   \* MaxReplayBufferSize (500)
  MaxEvents,  \* bound on the events of one server run
  MaxReplays, \* bound on the replays a browser has under way
  Restarts    \* whether the server may restart

ASSUME EventStreamAssumption ==
  /\ None \notin Browsers \cup Conns
  /\ QueueSize \in Nat \ {0} /\ RingSize \in Nat \ {0}
  /\ MaxEvents \in Nat /\ MaxReplays \in Nat
  /\ Restarts \in BOOLEAN

VARIABLES
  log,      \* log[i]: whom event i of this server run is addressed to
  ring,     \* the ring buffer
  owner,    \* owner[c]: the browser that opened connection c
  hub,      \* h.Clients
  queue,    \* queue[c]: the Send channel
  closed,   \* connections whose Send channel is closed
  since,    \* since[c]: the last event before c was registered; -1: not yet
  reading,  \* connections whose ReadPump runs
  wire,     \* wire[c]: the frames written to c
  got,      \* got[c]: how many of them the browser has handled
  conn,     \* conn[b]: the connection browser b has open
  last,     \* last[b]: lastSeqIdRef
  applied,  \* applied[b]: the events of this server run given to onEvent
  replays   \* replay requests under way, and their answers

server == <<log, ring, owner, hub, queue, closed, since, reading, wire>>
client == <<got, conn, last, applied, replays>>
evars == <<server, client>>

Asked == [b : Browsers, from : Nat, answered : {FALSE}]
Answered == [b : Browsers, from : Nat, answered : {TRUE}, upto : Nat, events : Seq(Nat)]

NotYet == -1

\* What is newer than n in a sequence of ascending numbers: its last part.
Since(S, n) ==
  LET k == CHOOSE k \in 0..Len(S) : \A i \in DOMAIN S : S[i] > n <=> i > k
  IN  SubSeq(S, k + 1, Len(S))
-----------------------------------------------------------------------------
EInit ==
  /\ log = <<>> /\ ring = <<>>
  /\ owner = [c \in Conns |-> None]
  /\ hub = {} /\ closed = {} /\ reading = {}
  /\ queue = [c \in Conns |-> <<>>]
  /\ since = [c \in Conns |-> NotYet]
  /\ wire = [c \in Conns |-> <<>>]
  /\ got = [c \in Conns |-> 0]
  /\ conn = [b \in Browsers |-> None]
  /\ last = [b \in Browsers |-> 0]
  /\ applied = [b \in Browsers |-> <<>>]
  /\ replays = {}

\* The browser that opened c has it open.
Open(c) == owner[c] # None /\ conn[owner[c]] = c

Full(c) == Len(queue[c]) >= QueueSize
-----------------------------------------------------------------------------
(* The hub.                                                                *)

\* BroadcastOnlineCount: whose queue is full does without.
CountPushed(H) == [c \in Conns |-> IF c \in H /\ ~Full(c) THEN Append(queue[c], 0)
                                                          ELSE queue[c]]

Mut_NotClosed(C) == closed

CloseSend(C) == closed \cup C

Register(c) ==
  /\ owner[c] # None /\ since[c] = NotYet
  /\ hub' = hub \cup {c}
  /\ since' = [since EXCEPT ![c] = Len(log)]
  /\ reading' = reading \cup {c}
  /\ queue' = CountPushed(hub')
  /\ UNCHANGED <<log, ring, owner, closed, wire, client>>

\* ReadPump ends when the browser, or WritePump, has closed the socket.  What
\* the queue still holds goes nowhere.
Unregister(c) ==
  /\ c \in reading /\ ~Open(c)
  /\ reading' = reading \ {c}
  /\ hub' = hub \ {c}
  /\ closed' = CloseSend({c})
  /\ queue' = [CountPushed(hub') EXCEPT ![c] = <<>>]
  /\ UNCHANGED <<log, ring, owner, since, wire, client>>

Mut_NoEviction(s) == Append(ring, s)

Mut_FullIsFull(s) == IF Len(ring) >= RingSize THEN ring ELSE Append(ring, s)

\* AddEvent: the oldest event makes room for the new one.
AddEvent(s) == IF Len(ring) >= RingSize THEN Append(Tail(ring), s) ELSE Append(ring, s)

Addressed(to) == {c \in hub : owner[c] \in to}

Mut_SkipSlow(H) == {}

\* A client whose queue is full is dropped: its channel is closed.
Slow(H) == {c \in H : Full(c)}

\* EmitEvent and the hub's half of the rendezvous.
Broadcast(to) ==
  LET s == Len(log) + 1
      H == Addressed(to)
  IN /\ Len(log) < MaxEvents
     /\ log' = Append(log, to)
     /\ ring' = AddEvent(s)
     /\ queue' = [c \in Conns |-> IF c \in H /\ ~Full(c) THEN Append(queue[c], s)
                                                         ELSE queue[c]]
     /\ hub' = hub \ Slow(H)
     /\ closed' = CloseSend(Slow(H))
     /\ UNCHANGED <<owner, since, reading, wire, client>>

\* WritePump: everything that is queued goes into one frame.  What is written
\* to a connection that has lost its browser goes nowhere.
WritePump(c) ==
  /\ queue[c] # <<>>
  /\ wire' = IF Open(c) THEN [wire EXCEPT ![c] = Append(@, queue[c])] ELSE wire
  /\ queue' = [queue EXCEPT ![c] = <<>>]
  /\ UNCHANGED <<log, ring, owner, hub, closed, since, reading, client>>
-----------------------------------------------------------------------------
(* The browser: useWebSocket.                                              *)

Ask(b) == replays \cup {[b |-> b, from |-> last[b], answered |-> FALSE]}

\* The socket opens before the hub has registered it.  A browser that knows
\* an event asks for what it missed; one that knows none does not.
Connect(b) ==
  LET c == CHOOSE c \in Conns : owner[c] = None
  IN
  /\ conn[b] = None /\ \E d \in Conns : owner[d] = None
  /\ owner' = [owner EXCEPT ![c] = b]
  /\ conn' = [conn EXCEPT ![b] = c]
  /\ replays' = IF last[b] > 0 THEN Ask(b) ELSE replays
  /\ UNCHANGED <<log, ring, hub, queue, closed, since, reading, wire, got, last, applied>>

\* Frames the browser has not handled go with the connection.
Close(b) ==
  /\ conn' = [conn EXCEPT ![b] = None]
  /\ wire' = [wire EXCEPT ![conn[b]] = <<>>]
  /\ got' = [got EXCEPT ![conn[b]] = 0]
  /\ UNCHANGED <<log, ring, owner, hub, queue, closed, since, reading, last, applied, replays>>

\* The network fails, or the tab is closed.
Disconnect(b) == conn[b] # None /\ Close(b)

\* WritePump has written all of a closed channel and closes the socket.
HangUp(b) ==
  /\ conn[b] \in closed
  /\ queue[conn[b]] = <<>> /\ got[conn[b]] = Len(wire[conn[b]])
  /\ Close(b)

Mut_Everything(b, S) == S

\* What is newer than the newest event the browser knows, one after another.
Newer(b, S) == Since(S, last[b])

Apply(b, S) ==
  /\ applied' = [applied EXCEPT ![b] = @ \o Newer(b, S)]
  /\ last' = [last EXCEPT ![b] = IF Newer(b, S) = <<>> THEN @ ELSE Last(Newer(b, S))]

\* onmessage.  A frame with more than one message is not JSON and is ignored.
Receive(b) ==
  LET c == conn[b]
      frame == wire[c][got[c] + 1]
  IN /\ conn[b] # None /\ got[c] < Len(wire[c])
     /\ got' = [got EXCEPT ![c] = @ + 1]
     /\ IF Len(frame) = 1 THEN Apply(b, frame) ELSE UNCHANGED <<applied, last>>
     /\ UNCHANGED <<server, conn, replays>>

\* The tab becomes visible again.
TabWake(b) ==
  /\ Cardinality({r \in replays : r.b = b}) < MaxReplays
  /\ replays' = Ask(b)
  /\ UNCHANGED <<server, got, conn, last, applied>>

\* GetEventReplay, for all browsers the same.
GetEventsSince(n) == Since(ring, n)

ReplayAnswer(r) ==
  /\ ~r.answered
  /\ replays' = (replays \ {r}) \cup
       {[b |-> r.b, from |-> r.from, answered |-> TRUE, upto |-> Len(log),
         events |-> GetEventsSince(r.from)]}
  /\ UNCHANGED <<server, got, conn, last, applied>>

ReplayApply(r) ==
  /\ r.answered
  /\ Apply(r.b, r.events)
  /\ replays' = replays \ {r}
  /\ UNCHANGED <<server, got, conn>>
-----------------------------------------------------------------------------
\* The server restarts: numbers start again at 1, browsers remember theirs.
Restart ==
  /\ Restarts
  /\ log' = <<>> /\ ring' = <<>> /\ hub' = {} /\ reading' = {}
  /\ closed' = {c \in Conns : owner[c] # None}
  /\ queue' = [c \in Conns |-> <<>>]
  /\ since' = [c \in Conns |-> IF owner[c] # None THEN 0 ELSE NotYet]
  /\ wire' = [c \in Conns |-> <<>>] /\ got' = [c \in Conns |-> 0]
  /\ conn' = [b \in Browsers |-> None]
  /\ applied' = [b \in Browsers |-> <<>>]
  /\ replays' = {r \in replays : r.answered}
  /\ UNCHANGED <<owner, last>>

ENext ==
  \/ \E c \in Conns : Register(c) \/ Unregister(c) \/ WritePump(c)
  \/ \E to \in SUBSET Browsers : Broadcast(to)
  \/ \E b \in Browsers :
       \/ Connect(b) \/ Disconnect(b) \/ HangUp(b) \/ Receive(b) \/ TabWake(b)
  \/ \E r \in replays : ReplayAnswer(r) \/ ReplayApply(r)
  \/ Restart

ESpec == EInit /\ [][ENext]_evars

(***************************************************************************)
(* Goroutines run, and a browser handles the frames it has received.       *)
(***************************************************************************)
EFairness ==
  /\ \A c \in Conns : WF_evars(Register(c)) /\ WF_evars(WritePump(c))
  /\ \A b \in Browsers : WF_evars(Receive(b)) /\ WF_evars(HangUp(b))

EFairSpec == ESpec /\ EFairness
-----------------------------------------------------------------------------
\* Types of the hub's, the store's and the browsers' state; the send queues and
\* the ring buffer stay within their capacities.
ETypeOK ==
  /\ log \in Seq(SUBSET Browsers)
  /\ ring \in Seq(Nat) /\ Len(ring) <= RingSize
  /\ owner \in [Conns -> Browsers \cup {None}]
  /\ hub \subseteq Conns /\ closed \subseteq Conns /\ reading \subseteq Conns
  /\ queue \in [Conns -> Seq(Nat)] /\ \A c \in Conns : Len(queue[c]) <= QueueSize
  /\ since \in [Conns -> Nat \cup {NotYet}]
  /\ wire \in [Conns -> Seq(Seq(Nat))]
  /\ got \in [Conns -> Nat]
  /\ conn \in [Browsers -> Conns \cup {None}]
  /\ last \in [Browsers -> Nat]
  /\ applied \in [Browsers -> Seq(Nat)]
  /\ replays \subseteq Asked \cup Answered

\* The hub delivers all or drops: as long as an open connection is registered, the
\* frames written to it and its queue hold every event addressed to it since
\* its registration, once and in order.
Frames(c) == Append(wire[c], queue[c])
Places(c) == UNION {{i} \X DOMAIN Frames(c)[i] : i \in DOMAIN Frames(c)}
At(c, p) == Frames(c)[p[1]][p[2]]
Before(p, q) == p[1] < q[1] \/ (p[1] = q[1] /\ p[2] < q[2])

Due(c) == {s \in 1..Len(log) : s > since[c] /\ owner[c] \in log[s]}

AllOrDropped ==
  \A c \in hub : Open(c) =>
    /\ {At(c, p) : p \in Places(c)} \ {0} = Due(c)
    /\ \A p, q \in Places(c) :
         Before(p, q) /\ At(c, p) # 0 /\ At(c, q) # 0 => At(c, p) < At(c, q)

\* Events reach onEvent once and in order, although sockets and replays
\* deliver them twice and in any order.
OnceInOrder ==
  \A b \in Browsers : \A i, j \in DOMAIN applied[b] :
    i < j => applied[b][i] < applied[b][j]

\* The answer to a replay is complete when the browser is not further behind
\* than the ring buffer is long.
ReplayIsComplete ==
  \A r \in replays : r.answered /\ r.upto - r.from <= RingSize =>
    r.events = [i \in 1..(IF r.upto > r.from THEN r.upto - r.from ELSE 0) |-> r.from + i]

\* A browser whose connection the hub has dropped learns of it.
DroppedIsTold ==
  \A b \in Browsers : \A c \in Conns :
    conn[b] = c /\ since[c] # NotYet /\ c \notin hub ~> conn[b] # c

\* A browser misses nothing: with the newest event it has applied it has
\* applied every event for it that is newer than its first one.
NeverMisses ==
  \A b \in Browsers : \A i \in DOMAIN applied[b] : \A s \in 1..Len(log) :
    applied[b][1] <= s /\ s <= applied[b][i] /\ b \in log[s] => s \in ToSet(applied[b])
=============================================================================
