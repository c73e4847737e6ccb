-------------------------- MODULE EventStreamProofs --------------------------
(***************************************************************************)
(* Theorems about EventStream, for any number of browsers, connections,    *)
(* events, replays and restarts, and any capacity of the queues and of the *)
(* ring buffer: types and capacities, replays are complete, a browser      *)
(* applies events once and in order, and the hub delivers all or drops.    *)
(***************************************************************************)
EXTENDS EventStream, SequenceTheorems, TLAPS

(* A run of consecutive numbers that follow a.  The ring buffer holds the  *)
(* newest events of the log, and an answered replay is cut out of it.      *)
Follows(S, a) == \A i \in DOMAIN S : S[i] = a + i

RingIsNewest ==
  /\ Len(ring) = IF Len(log) < RingSize THEN Len(log) ELSE RingSize
  /\ Follows(ring, Len(log) - Len(ring))
AnswersFollow ==
  \A r \in replays : r.answered => \E a \in Int : Follows(r.events, a)

(* A browser's newest event is not older than those it has applied.        *)
LastIsNewest ==
  \A b \in Browsers : \A i \in DOMAIN applied[b] : applied[b][i] <= last[b]

EInv ==
  /\ ETypeOK /\ RingIsNewest /\ AnswersFollow
  /\ LastIsNewest /\ OnceInOrder /\ ReplayIsComplete
-----------------------------------------------------------------------------
(* What is newer than n in a run.                                          *)
LEMMA SinceOfRun ==
  ASSUME NEW S \in Seq(Nat), NEW a \in Int, NEW n \in Nat, Follows(S, a)
  PROVE  LET k == IF n <= a THEN 0 ELSE IF n - a <= Len(S) THEN n - a ELSE Len(S)
         IN  /\ Since(S, n) \in Seq(Nat)
             /\ Len(Since(S, n)) = Len(S) - k
             /\ Follows(Since(S, n), a + k)
             /\ \A i \in DOMAIN Since(S, n) : Since(S, n)[i] > n
<1>0. PICK L \in Nat : L = Len(S)
  OBVIOUS
<1> DEFINE cut(k) == \A i \in DOMAIN S : S[i] > n <=> i > k
<1>1. DOMAIN S = 1..L /\ \A i \in 1..L : S[i] = a + i /\ S[i] \in Int
  BY <1>0 DEF Follows
<1>2. PICK k \in 0..L : k = IF n <= a THEN 0 ELSE IF n - a <= L THEN n - a ELSE L
  <2> DEFINE m == IF n <= a THEN 0 ELSE IF n - a <= L THEN n - a ELSE L
  <2>1. m \in 0..L
    OBVIOUS
  <2> QED BY <2>1
<1>3. cut(k)
  <2> SUFFICES ASSUME NEW i \in 1..L PROVE S[i] > n <=> i > k
    BY <1>1
  <2>1. PICK x \in Int : x = S[i] /\ x = a + i
    BY <1>1
  <2>2. x > n <=> i > k
    BY <1>2, <2>1
  <2> QED BY <2>1, <2>2
<1>4. \A j \in 0..L : cut(j) => j = k
  <2> SUFFICES ASSUME NEW j \in 0..L, cut(j) PROVE j = k
    OBVIOUS
  <2>1. CASE j < k
    <3>1. k \in DOMAIN S /\ k > j /\ ~(k > k)
      BY <1>1, <2>1
    <3> QED BY <1>3, <3>1
  <2>2. CASE k < j
    <3>1. j \in DOMAIN S /\ j > k /\ ~(j > j)
      BY <1>1, <2>2
    <3> QED BY <1>3, <3>1
  <2> QED BY <1>1, <2>1, <2>2
<1>5. (CHOOSE j \in 0..L : cut(j)) = k
  BY <1>3, <1>4
<1>6. PICK N : N = Since(S, n)
  OBVIOUS
<1>7. N = SubSeq(S, k + 1, L)
  BY <1>0, <1>5, <1>6 DEF Since
<1>8. /\ N \in Seq(Nat)
      /\ Len(N) = IF k + 1 <= L THEN L - (k + 1) + 1 ELSE 0
      /\ \A i \in 1..L - (k + 1) + 1 : N[i] = S[k + 1 + i - 1]
  BY <1>0, <1>1, <1>7, SubSeqProperties
<1>9. Len(N) = L - k
  BY <1>8
<1>10. \A i \in 1..L - k : N[i] = S[k + i] /\ k + i \in 1..L /\ k + i > k
  BY <1>8
<1>11. DOMAIN N = 1..L - k
  BY <1>8, <1>9
<1>12. \A i \in 1..L - k : N[i] = a + k + i
  BY <1>1, <1>10
<1>13. \A i \in 1..L - k : N[i] > n
  BY <1>1, <1>3, <1>10
<1> QED BY <1>0, <1>2, <1>6, <1>8, <1>9, <1>11, <1>12, <1>13 DEF Follows

(* Sequences of numbers.                                                   *)
LEMMA Appended ==
  ASSUME NEW S \in Seq(Nat), NEW x \in Nat, NEW n \in Nat, n = Len(S)
  PROVE  /\ Append(S, x) \in Seq(Nat) /\ Len(Append(S, x)) = n + 1
         /\ \A i \in 1..n : Append(S, x)[i] = S[i]
         /\ Append(S, x)[n + 1] = x
BY AppendProperties

LEMMA Rest ==
  ASSUME NEW S \in Seq(Nat), NEW n \in Nat, n = Len(S), n # 0
  PROVE  /\ Tail(S) \in Seq(Nat) /\ Len(Tail(S)) = n - 1
         /\ \A i \in 1..n - 1 : Tail(S)[i] = S[i + 1]
<1>1. S # <<>>
  BY EmptySeq
<1> QED BY <1>1, HeadTailProperties

LEMMA Joined ==
  ASSUME NEW A \in Seq(Nat), NEW N \in Seq(Nat), NEW m \in Nat, NEW n \in Nat,
         m = Len(A), n = Len(N)
  PROVE  /\ A \o N \in Seq(Nat) /\ Len(A \o N) = m + n
         /\ \A i \in 1..m : (A \o N)[i] = A[i]
         /\ \A i \in 1..n : (A \o N)[m + i] = N[i]
<1>1. /\ A \o N \in Seq(Nat) /\ Len(A \o N) = m + n
      /\ \A i \in 1..m + n : (A \o N)[i] = IF i <= m THEN A[i] ELSE N[i - m]
  BY ConcatProperties
<1>2. ASSUME NEW i \in 1..m PROVE (A \o N)[i] = A[i]
  <2>1. i \in 1..m + n /\ i <= m
    OBVIOUS
  <2> QED BY <1>1, <2>1
<1>3. ASSUME NEW i \in 1..n PROVE (A \o N)[m + i] = N[i]
  <2>1. m + i \in 1..m + n /\ ~(m + i <= m) /\ m + i - m = i
    OBVIOUS
  <2> QED BY <1>1, <2>1
<1> QED BY <1>1, <1>2, <1>3

(* AddEvent keeps the buffer within its capacity, and its numbers a run.   *)
LEMMA AddEventKeepsRun ==
  ASSUME log \in Seq(SUBSET Browsers), ring \in Seq(Nat), RingIsNewest,
         NEW to \in SUBSET Browsers, log' = Append(log, to), ring' = AddEvent(Len(log) + 1)
  PROVE  ring' \in Seq(Nat) /\ Len(ring') <= RingSize /\ RingIsNewest'
<1>1. PICK R \in Nat : R = RingSize /\ R # 0
  BY EventStreamAssumption
<1>2. PICK n \in Nat, m \in Nat : n = Len(log) /\ m = Len(ring)
  BY LenProperties
<1>0. PICK E : E = ring'
  OBVIOUS
<1>3. PICK D \in Seq(Nat) : D = ring /\ Len(D) = m /\ DOMAIN D = 1..m
  BY <1>2, LenProperties
<1>4. m = IF n < R THEN n ELSE R
  BY <1>1, <1>2 DEF RingIsNewest
<1>5. \A i \in 1..m : D[i] = n - m + i
  BY <1>2, <1>3 DEF RingIsNewest, Follows
<1>6. Len(log') = n + 1
  BY <1>2, AppendProperties
<1>7. ASSUME NEW k \in Nat, E \in Seq(Nat), Len(E) = k, k = IF n + 1 < R THEN n + 1 ELSE R,
             \A i \in 1..k : E[i] = n + 1 - k + i
      PROVE  ring' \in Seq(Nat) /\ Len(ring') <= RingSize /\ RingIsNewest'
  <2>1. DOMAIN E = 1..k /\ k <= R
    BY <1>7, LenProperties
  <2> QED BY <1>0, <1>1, <1>3, <1>6, <1>7, <2>1 DEF RingIsNewest, Follows
<1>8. CASE m < R
  <2>1. m = n /\ E = Append(D, n + 1)
    BY <1>0, <1>1, <1>2, <1>3, <1>4, <1>8 DEF AddEvent
  <2>2. /\ E \in Seq(Nat) /\ Len(E) = n + 1 /\ E[n + 1] = n + 1
        /\ \A i \in 1..n : E[i] = D[i]
    <3>1. PICK x \in Nat : x = n + 1
      OBVIOUS
    <3>2. Len(D) = n /\ E = Append(D, x)
      BY <1>3, <2>1, <3>1
    <3>3. /\ Append(D, x) \in Seq(Nat) /\ Len(Append(D, x)) = n + 1
          /\ \A i \in 1..n : Append(D, x)[i] = D[i]
          /\ Append(D, x)[n + 1] = x
      BY <3>2, Appended
    <3> QED BY <3>1, <3>2, <3>3
  <2>3. \A i \in 1..n + 1 : E[i] = n + 1 - (n + 1) + i
    <3> SUFFICES ASSUME NEW i \in 1..n + 1 PROVE E[i] = i
      OBVIOUS
    <3>1. CASE i \in 1..n
      BY <1>5, <2>1, <2>2, <3>1
    <3>2. CASE i = n + 1
      BY <2>2, <3>2
    <3> QED BY <3>1, <3>2
  <2>4. n + 1 = IF n + 1 < R THEN n + 1 ELSE R
    BY <1>1, <1>8, <2>1
  <2> QED BY <1>7, <2>2, <2>3, <2>4
<1>9. CASE m = R
  <2>1. PICK T \in Seq(Nat) :
          T = Tail(D) /\ Len(T) = m - 1 /\ \A i \in 1..m - 1 : T[i] = D[i + 1]
    BY <1>1, <1>3, <1>9, Rest
  <2>2. E = Append(T, n + 1)
    BY <1>0, <1>1, <1>2, <1>3, <1>9, <2>1 DEF AddEvent
  <2>3. m - 1 \in Nat /\ n + 1 \in Nat
    BY <1>1, <1>9
  <2>4. /\ E \in Seq(Nat) /\ Len(E) = m - 1 + 1 /\ E[m - 1 + 1] = n + 1
        /\ \A i \in 1..m - 1 : E[i] = T[i]
    BY <2>1, <2>2, <2>3, Appended
  <2>5. \A i \in 1..m : E[i] = n + 1 - m + i
    <3> SUFFICES ASSUME NEW i \in 1..m PROVE E[i] = n + 1 - m + i
      OBVIOUS
    <3>1. CASE i = m
      BY <2>3, <2>4, <3>1
    <3>2. CASE i # m
      <4>1. i \in 1..m - 1 /\ i + 1 \in 1..m
        BY <3>2
      <4>2. E[i] = D[i + 1]
        BY <2>1, <2>4, <4>1
      <4> QED BY <1>5, <4>1, <4>2
    <3> QED BY <3>1, <3>2
  <2>6. Len(E) = m /\ m = IF n + 1 < R THEN n + 1 ELSE R
    BY <1>4, <1>9, <2>4
  <2> QED BY <1>7, <2>4, <2>5, <2>6
<1> QED BY <1>1, <1>4, <1>8, <1>9

(* Applying a run: what is new is newer than all the browser has applied.  *)
LEMMA ApplyKeepsOrder ==
  ASSUME ETypeOK, LastIsNewest, OnceInOrder,
         NEW b \in Browsers, NEW S \in Seq(Nat), NEW a \in Int, Follows(S, a), Apply(b, S)
  PROVE  /\ applied' \in [Browsers -> Seq(Nat)] /\ last' \in [Browsers -> Nat]
         /\ LastIsNewest' /\ OnceInOrder'
<1>1. PICK A \in Seq(Nat), n \in Nat : A = applied[b] /\ n = last[b]
  BY DEF ETypeOK
<1>2. PICK N \in Seq(Nat), c \in Int :
        N = Newer(b, S) /\ Follows(N, c) /\ \A i \in DOMAIN N : N[i] > n
  <2>1. PICK c \in Int : c = a + (IF n <= a THEN 0
                                  ELSE IF n - a <= Len(S) THEN n - a ELSE Len(S))
    BY LenProperties
  <2>2. /\ Since(S, n) \in Seq(Nat) /\ Follows(Since(S, n), c)
        /\ \A i \in DOMAIN Since(S, n) : Since(S, n)[i] > n
    BY <2>1, SinceOfRun
  <2> QED BY <1>1, <2>2 DEF Newer
<1>3. PICK L \in Nat, M \in Nat :
        /\ L = Len(A) /\ DOMAIN A = 1..L /\ \A i \in 1..L : A[i] \in Nat
        /\ M = Len(N) /\ DOMAIN N = 1..M /\ \A i \in 1..M : N[i] \in Nat
  BY LenProperties, ElementOfSeq
<1>4. /\ applied' = [applied EXCEPT ![b] = A \o N]
      /\ last' = [last EXCEPT ![b] = IF N = <<>> THEN n ELSE N[M]]
  BY <1>1, <1>2, <1>3 DEF Apply, Last
<1>5. \A i \in 1..M : N[i] = c + i /\ N[i] > n
  BY <1>2, <1>3 DEF Follows
<1>6. PICK B \in Seq(Nat) :
        /\ B = A \o N /\ Len(B) = L + M /\ DOMAIN B = 1..L + M
        /\ \A i \in 1..L : B[i] = A[i]
        /\ \A i \in 1..M : B[L + i] = N[i]
  <2>1. /\ A \o N \in Seq(Nat) /\ Len(A \o N) = L + M
        /\ \A i \in 1..L : (A \o N)[i] = A[i]
        /\ \A i \in 1..M : (A \o N)[L + i] = N[i]
    BY <1>3, Joined
  <2>2. DOMAIN (A \o N) = 1..L + M
    BY <2>1, LenProperties
  <2> QED BY <2>1, <2>2
<1>7. M = 0 <=> N = <<>>
  BY <1>3, EmptySeq
<1>8. PICK z \in Nat : z = IF N = <<>> THEN n ELSE N[M]
  <2>1. CASE N = <<>>
    BY <2>1
  <2>2. CASE N # <<>>
    <3>1. N[M] \in Nat
      BY <1>3, <1>7, <2>2
    <3> QED BY <2>2, <3>1
  <2> QED BY <2>1, <2>2
<1>9. z >= n /\ \A i \in 1..M : N[i] <= z
  <2>1. CASE M = 0
    BY <1>7, <1>8, <2>1
  <2>2. CASE M # 0
    <3>1. M \in 1..M /\ z = N[M]
      BY <1>7, <1>8, <2>2
    <3>2. z = c + M /\ z > n
      BY <1>5, <3>1
    <3> QED BY <1>5, <3>2
  <2> QED BY <2>1, <2>2
<1>10. \A i \in 1..L : A[i] <= n
  BY <1>1, <1>3 DEF LastIsNewest
<1>11. \A i, j \in 1..L : i < j => A[i] < A[j]
  BY <1>1, <1>3 DEF OnceInOrder
<1>12. \A i \in 1..L + M : B[i] <= z
  <2> SUFFICES ASSUME NEW i \in 1..L + M PROVE B[i] <= z
    OBVIOUS
  <2>1. CASE i <= L
    <3>1. i \in 1..L /\ B[i] = A[i]
      BY <1>6, <2>1
    <3> QED BY <1>3, <1>8, <1>9, <1>10, <3>1
  <2>2. CASE i > L
    <3>1. PICK k \in 1..M : i = L + k
      BY <2>2
    <3> QED BY <1>6, <1>9, <3>1
  <2> QED BY <2>1, <2>2
<1>13. \A i, j \in 1..L + M : i < j => B[i] < B[j]
  <2> SUFFICES ASSUME NEW i \in 1..L + M, NEW j \in 1..L + M, i < j PROVE B[i] < B[j]
    OBVIOUS
  <2>1. CASE j <= L
    <3>1. i \in 1..L /\ j \in 1..L
      BY <2>1
    <3> QED BY <1>6, <1>11, <3>1
  <2>2. CASE i <= L /\ j > L
    <3>1. i \in 1..L /\ \E k \in 1..M : j = L + k
      BY <2>2
    <3>2. PICK k \in 1..M : j = L + k
      BY <3>1
    <3>3. B[i] = A[i] /\ B[j] = N[k]
      BY <1>6, <3>1, <3>2
    <3>4. A[i] \in Nat /\ A[i] <= n
      BY <1>3, <1>10, <3>1
    <3>5. N[k] \in Nat /\ N[k] > n
      BY <1>5
    <3> QED BY <3>3, <3>4, <3>5
  <2>3. CASE i > L
    <3>1. PICK h \in 1..M, k \in 1..M : i = L + h /\ j = L + k
      BY <2>3
    <3>2. B[i] = N[h] /\ B[j] = N[k]
      BY <1>6, <3>1
    <3>3. N[h] = c + h /\ N[k] = c + k
      BY <1>5
    <3> QED BY <3>1, <3>2, <3>3
  <2> QED BY <2>1, <2>2, <2>3
<1>14. applied'[b] = B /\ last'[b] = z
  BY <1>4, <1>6, <1>8 DEF ETypeOK
<1>15. \A x \in Browsers : x # b => applied'[x] = applied[x] /\ last'[x] = last[x]
  BY <1>4 DEF ETypeOK
<1>16. applied' \in [Browsers -> Seq(Nat)] /\ last' \in [Browsers -> Nat]
  BY <1>4, <1>6, <1>8 DEF ETypeOK
<1>17. LastIsNewest'
  BY <1>6, <1>12, <1>14, <1>15 DEF LastIsNewest
<1>18. OnceInOrder'
  BY <1>6, <1>13, <1>14, <1>15 DEF OnceInOrder
<1> QED BY <1>16, <1>17, <1>18
-----------------------------------------------------------------------------
(* The hub's steps.  They leave the browsers' state alone.                 *)

\* What is put into a queue that is not full fits.
LEMMA Fits ==
  ASSUME ETypeOK, NEW c \in Conns, ~Full(c), NEW x \in Nat
  PROVE  Append(queue[c], x) \in Seq(Nat) /\ Len(Append(queue[c], x)) <= QueueSize
<1>1. PICK Q \in Seq(Nat), n \in Nat : Q = queue[c] /\ n = Len(Q) /\ n < QueueSize
  <2>1. queue[c] \in Seq(Nat) /\ Len(queue[c]) \in Nat
    BY LenProperties DEF ETypeOK
  <2> QED BY <2>1, EventStreamAssumption DEF Full
<1>2. Append(Q, x) \in Seq(Nat) /\ Len(Append(Q, x)) = n + 1
  BY <1>1, Appended
<1> QED BY <1>1, <1>2, EventStreamAssumption

Queues == {q \in [Conns -> Seq(Nat)] : \A c \in Conns : Len(q[c]) <= QueueSize}

LEMMA CountFits ==
  ASSUME ETypeOK, NEW H PROVE CountPushed(H) \in Queues
<1>1. \A c \in Conns : ~Full(c) =>
        Append(queue[c], 0) \in Seq(Nat) /\ Len(Append(queue[c], 0)) <= QueueSize
  BY Fits
<1>2. queue \in Queues
  BY DEF ETypeOK, Queues
<1> QED BY <1>1, <1>2 DEF CountPushed, Queues

\* A queue may be emptied.
LEMMA Emptied ==
  ASSUME NEW q \in Queues, NEW c
  PROVE  [q EXCEPT ![c] = <<>>] \in Queues
<1>1. <<>> \in Seq(Nat) /\ Len(<<>>) <= QueueSize
  BY EmptySeq, EventStreamAssumption
<1> QED BY <1>1 DEF Queues

LEMMA ServerStepInv ==
  ASSUME EInv,
         \/ \E c \in Conns : Register(c) \/ Unregister(c) \/ WritePump(c)
         \/ \E to \in SUBSET Browsers : Broadcast(to)
  PROVE  EInv'
<1>1. ETypeOK /\ RingIsNewest /\ queue \in Queues
  BY DEF EInv, ETypeOK, Queues
<1>2. UNCHANGED client
  BY DEF Register, Unregister, WritePump, Broadcast
<1>3. (AnswersFollow /\ LastIsNewest /\ OnceInOrder /\ ReplayIsComplete)'
  BY <1>2 DEF EInv, client, AnswersFollow, LastIsNewest, OnceInOrder, ReplayIsComplete
<1>4. ASSUME UNCHANGED <<log, ring>>, queue' \in Queues,
             owner' = owner, hub' \subseteq Conns, closed' \subseteq Conns,
             reading' \subseteq Conns, since' \in [Conns -> Nat \cup {NotYet}],
             wire' \in [Conns -> Seq(Seq(Nat))]
      PROVE  EInv'
  <2>1. ETypeOK'
    BY <1>1, <1>2, <1>4 DEF ETypeOK, Queues, client, NotYet
  <2>2. RingIsNewest'
    BY <1>1, <1>4 DEF RingIsNewest
  <2> QED BY <1>3, <2>1, <2>2 DEF EInv
<1>5. Len(log) \in Nat
  BY <1>1, LenProperties DEF ETypeOK
<1>6. ASSUME NEW c \in Conns, Register(c) PROVE EInv'
  <2>1. queue' \in Queues
    BY <1>1, <1>6, CountFits DEF Register
  <2>2. since' \in [Conns -> Nat \cup {NotYet}]
    BY <1>1, <1>5, <1>6 DEF Register, ETypeOK
  <2> QED BY <1>1, <1>4, <1>6, <2>1, <2>2 DEF Register, ETypeOK
<1>7. ASSUME NEW c \in Conns, Unregister(c) PROVE EInv'
  <2>1. queue' \in Queues
    BY <1>1, <1>7, CountFits, Emptied DEF Unregister
  <2> QED BY <1>1, <1>4, <1>7, <2>1 DEF Unregister, ETypeOK, CloseSend
<1>8. ASSUME NEW c \in Conns, WritePump(c) PROVE EInv'
  <2>1. queue' \in Queues
    BY <1>1, <1>8, Emptied DEF WritePump
  <2>2. Append(wire[c], queue[c]) \in Seq(Seq(Nat))
    BY <1>1, AppendProperties DEF ETypeOK
  <2>3. wire' \in [Conns -> Seq(Seq(Nat))]
    BY <1>1, <1>8, <2>2 DEF WritePump, ETypeOK
  <2> QED BY <1>1, <1>4, <1>8, <2>1, <2>3 DEF WritePump, ETypeOK
<1>9. ASSUME NEW to \in SUBSET Browsers, Broadcast(to) PROVE EInv'
  <2>1. /\ log' = Append(log, to) /\ ring' = AddEvent(Len(log) + 1)
        /\ log \in Seq(SUBSET Browsers) /\ ring \in Seq(Nat)
    BY <1>1, <1>9 DEF Broadcast, ETypeOK
  <2>2. ring' \in Seq(Nat) /\ Len(ring') <= RingSize /\ RingIsNewest'
    BY <1>1, <2>1, AddEventKeepsRun
  <2>3. log' \in Seq(SUBSET Browsers)
    BY <2>1, AppendProperties
  <2>4. \A c \in Conns : ~Full(c) =>
          /\ Append(queue[c], Len(log) + 1) \in Seq(Nat)
          /\ Len(Append(queue[c], Len(log) + 1)) <= QueueSize
    BY <1>1, <1>5, Fits
  <2>5. queue' \in Queues
    BY <1>1, <1>9, <2>4 DEF Broadcast, Queues
  <2>6. /\ hub' \subseteq Conns /\ closed' \subseteq Conns
        /\ UNCHANGED <<owner, since, reading, wire, client>>
    BY <1>1, <1>9 DEF ETypeOK, Broadcast, CloseSend, Slow, Addressed
  <2>7. ETypeOK'
    BY <1>1, <2>2, <2>3, <2>5, <2>6 DEF ETypeOK, Queues, client
  <2> QED BY <1>3, <2>2, <2>7 DEF EInv
<1> QED BY <1>6, <1>7, <1>8, <1>9
-----------------------------------------------------------------------------
(* The browsers' steps.  They leave the store alone.                       *)

LEMMA BrowserStepInv ==
  ASSUME EInv,
         \E b \in Browsers :
           Connect(b) \/ Disconnect(b) \/ HangUp(b) \/ Receive(b) \/ TabWake(b)
  PROVE  EInv'
<1>1. /\ ETypeOK /\ RingIsNewest /\ AnswersFollow /\ LastIsNewest /\ OnceInOrder
      /\ ReplayIsComplete
  BY DEF EInv
<1>2. PICK b \in Browsers :
        Connect(b) \/ Disconnect(b) \/ HangUp(b) \/ Receive(b) \/ TabWake(b)
  OBVIOUS
<1>3. UNCHANGED <<log, ring, hub, queue, closed, since, reading>>
  BY <1>2 DEF Connect, Disconnect, HangUp, Close, Receive, TabWake, server
<1>4. ASSUME NEW R, replays' = R, R = replays \/ R = Ask(b)
      PROVE  /\ replays' \subseteq Asked \cup Answered
             /\ AnswersFollow' /\ ReplayIsComplete'
  <2>1. Ask(b) \subseteq Asked \cup Answered
        /\ \A r \in Ask(b) : r \in replays \/ ~r.answered
    <3>1. last[b] \in Nat /\ replays \subseteq Asked \cup Answered
      BY <1>1 DEF ETypeOK
    <3>2. PICK r : r = [b |-> b, from |-> last[b], answered |-> FALSE]
      OBVIOUS
    <3>3. r \in Asked /\ r.answered = FALSE
      BY <3>1, <3>2 DEF Asked
    <3> QED BY <3>1, <3>2, <3>3 DEF Ask
  <2> QED BY <1>1, <1>4, <2>1 DEF AnswersFollow, ReplayIsComplete, ETypeOK
<1>5. ASSUME owner' \in [Conns -> Browsers \cup {None}],
             wire' \in [Conns -> Seq(Seq(Nat))], got' \in [Conns -> Nat],
             conn' \in [Browsers -> Conns \cup {None}],
             applied' \in [Browsers -> Seq(Nat)], last' \in [Browsers -> Nat],
             LastIsNewest', OnceInOrder',
             replays' = replays \/ replays' = Ask(b)
      PROVE  EInv'
  <2>1. replays' \subseteq Asked \cup Answered /\ AnswersFollow' /\ ReplayIsComplete'
    BY <1>4, <1>5
  <2>2. ETypeOK'
    BY <1>1, <1>3, <1>5, <2>1 DEF ETypeOK
  <2>3. RingIsNewest'
    BY <1>1, <1>3 DEF RingIsNewest
  <2> QED BY <1>5, <2>1, <2>2, <2>3 DEF EInv
<1>6. ASSUME UNCHANGED <<applied, last>>
      PROVE  /\ applied' \in [Browsers -> Seq(Nat)] /\ last' \in [Browsers -> Nat]
             /\ LastIsNewest' /\ OnceInOrder'
  BY <1>1, <1>6 DEF ETypeOK, LastIsNewest, OnceInOrder
<1>7. CASE Connect(b)
  <2>1. PICK c \in Conns : owner' = [owner EXCEPT ![c] = b] /\ conn' = [conn EXCEPT ![b] = c]
    BY <1>7 DEF Connect
  <2>2. /\ UNCHANGED <<wire, got, last, applied>>
        /\ replays' = replays \/ replays' = Ask(b)
    BY <1>7 DEF Connect
  <2> QED BY <1>1, <1>5, <1>6, <2>1, <2>2 DEF ETypeOK
<1>8. CASE Disconnect(b) \/ HangUp(b)
  <2>1. <<>> \in Seq(Seq(Nat))
    BY EmptySeq
  <2>2. /\ conn' = [conn EXCEPT ![b] = None]
        /\ wire' = [wire EXCEPT ![conn[b]] = <<>>]
        /\ got' = [got EXCEPT ![conn[b]] = 0]
        /\ UNCHANGED <<owner, last, applied, replays>>
    BY <1>8 DEF Disconnect, HangUp, Close
  <2>3. wire' \in [Conns -> Seq(Seq(Nat))] /\ got' \in [Conns -> Nat]
        /\ conn' \in [Browsers -> Conns \cup {None}]
    BY <1>1, <2>1, <2>2 DEF ETypeOK
  <2> QED BY <1>1, <1>5, <1>6, <2>2, <2>3 DEF ETypeOK
<1>9. CASE Receive(b)
  <2>1. conn[b] \in Conns
    BY <1>1, <1>9 DEF Receive, ETypeOK
  <2>2. PICK n \in Nat, W \in Seq(Seq(Nat)) :
          n = got[conn[b]] /\ W = wire[conn[b]] /\ n < Len(W)
    BY <1>1, <1>9, <2>1 DEF Receive, ETypeOK
  <2>3. n + 1 \in 1..Len(W)
    BY <2>2, LenProperties
  <2>4. PICK frame \in Seq(Nat) : frame = W[n + 1]
    BY <2>3, ElementOfSeq
  <2>5. /\ got' = [got EXCEPT ![conn[b]] = n + 1]
        /\ (Len(frame) = 1 /\ Apply(b, frame)) \/ UNCHANGED <<applied, last>>
        /\ UNCHANGED <<owner, wire, conn, replays>>
    BY <1>1, <1>9, <2>1, <2>2, <2>4 DEF Receive, ETypeOK, server
  <2>6. /\ applied' \in [Browsers -> Seq(Nat)] /\ last' \in [Browsers -> Nat]
        /\ LastIsNewest' /\ OnceInOrder'
    <3>1. CASE Len(frame) = 1 /\ Apply(b, frame)
      <4>1. DOMAIN frame = 1..1 /\ 1 \in 1..Len(frame)
        BY <3>1, LenProperties
      <4>2. frame[1] \in Nat
        BY <4>1, ElementOfSeq
      <4>3. PICK a \in Int : a = frame[1] - 1
        BY <4>2
      <4>4. Follows(frame, a)
        BY <4>1, <4>2, <4>3 DEF Follows
      <4> QED BY <1>1, <3>1, <4>4, ApplyKeepsOrder
    <3> QED BY <1>6, <2>5, <3>1
  <2>7. got' \in [Conns -> Nat]
    <3>1. PICK m \in Nat : m = n + 1
      OBVIOUS
    <3>2. got' = [got EXCEPT ![conn[b]] = m]
      BY <2>5, <3>1
    <3> QED BY <1>1, <3>2 DEF ETypeOK
  <2> QED BY <1>1, <1>5, <2>5, <2>6, <2>7 DEF ETypeOK
<1>10. CASE TabWake(b)
  BY <1>1, <1>5, <1>6, <1>10 DEF TabWake, server, ETypeOK
<1> QED BY <1>2, <1>7, <1>8, <1>9, <1>10
-----------------------------------------------------------------------------
(* Replays and restarts.                                                   *)

\* The answer to a replay is complete when the ring buffer reaches back to it.
LEMMA AnswerIsComplete ==
  ASSUME ETypeOK, RingIsNewest, NEW n \in Nat
  PROVE  /\ GetEventsSince(n) \in Seq(Nat)
         /\ \E a \in Int : Follows(GetEventsSince(n), a)
         /\ Len(log) - n <= RingSize =>
              GetEventsSince(n) =
                [i \in 1..(IF Len(log) > n THEN Len(log) - n ELSE 0) |-> n + i]
<1>1. PICK R \in Nat : R = RingSize /\ R # 0
  BY EventStreamAssumption
<1>2. PICK D \in Seq(Nat), m \in Nat, L \in Nat :
        D = ring /\ m = Len(D) /\ L = Len(log)
  BY LenProperties DEF ETypeOK
<1>3. m = IF L < R THEN L ELSE R
  BY <1>1, <1>2 DEF RingIsNewest
<1>4. PICK a \in Int : a = L - m
  OBVIOUS
<1>5. Follows(D, a)
  BY <1>2, <1>4 DEF RingIsNewest
<1>6. PICK k \in Int : k = IF n <= a THEN 0 ELSE IF n - a <= m THEN n - a ELSE m
  <2> DEFINE j == IF n <= a THEN 0 ELSE IF n - a <= m THEN n - a ELSE m
  <2>1. j \in Int
    OBVIOUS
  <2> QED BY <2>1
<1>7. PICK N \in Seq(Nat) : N = Since(D, n) /\ Len(N) = m - k /\ Follows(N, a + k)
  BY <1>2, <1>5, <1>6, SinceOfRun
<1>8. N = GetEventsSince(n)
  BY <1>2, <1>7 DEF GetEventsSince
<1>9. ASSUME L - n <= R
      PROVE  N = [i \in 1..(IF L > n THEN L - n ELSE 0) |-> n + i]
  <2>1. PICK h \in Nat : h = IF L > n THEN L - n ELSE 0
    <3> DEFINE d == IF L > n THEN L - n ELSE 0
    <3>1. d \in Nat
      OBVIOUS
    <3> QED BY <3>1
  <2>2. m - k = h /\ (h # 0 => a + k = n)
    BY <1>3, <1>4, <1>6, <1>9, <2>1
  <2>3. N \in [1..h -> Nat] /\ DOMAIN N = 1..h
    BY <1>7, <2>2, LenProperties
  <2>4. \A i \in 1..h : N[i] = n + i
    <3> SUFFICES ASSUME NEW i \in 1..h PROVE N[i] = n + i
      OBVIOUS
    <3>1. h # 0 /\ N[i] = (a + k) + i
      BY <1>7, <2>3 DEF Follows
    <3> QED BY <2>2, <3>1
  <2>5. N = [i \in 1..h |-> n + i]
    BY <2>3, <2>4
  <2> QED BY <2>1, <2>5
<1> QED BY <1>1, <1>2, <1>7, <1>8, <1>9

LEMMA ReplayStepInv ==
  ASSUME EInv, \E r \in replays : ReplayAnswer(r) \/ ReplayApply(r)
  PROVE  EInv'
<1>1. /\ ETypeOK /\ RingIsNewest /\ AnswersFollow /\ LastIsNewest /\ OnceInOrder
      /\ ReplayIsComplete
  BY DEF EInv
<1>2. PICK r \in replays : ReplayAnswer(r) \/ ReplayApply(r)
  OBVIOUS
<1>3. r \in Asked \cup Answered
  BY <1>1 DEF ETypeOK
<1>4. /\ UNCHANGED <<log, ring, owner, hub, queue, closed, since, reading, wire, got, conn>>
  BY <1>2 DEF ReplayAnswer, ReplayApply, server
<1>5. CASE ReplayAnswer(r)
  <2>1. r.b \in Browsers /\ r.from \in Nat
    BY <1>3 DEF Asked, Answered
  <2>2. PICK n \in Nat, L \in Nat, E \in Seq(Nat) :
          /\ n = r.from /\ L = Len(log) /\ E = GetEventsSince(n)
          /\ \E a \in Int : Follows(E, a)
          /\ L - n <= RingSize => E = [i \in 1..(IF L > n THEN L - n ELSE 0) |-> n + i]
    <3>1. Len(log) \in Nat
      BY <1>1, LenProperties DEF ETypeOK
    <3> QED BY <1>1, <2>1, <3>1, AnswerIsComplete
  <2>3. PICK x : x = [b |-> r.b, from |-> n, answered |-> TRUE, upto |-> L, events |-> E]
    OBVIOUS
  <2>4. replays' = (replays \ {r}) \cup {x}
    BY <1>5, <2>2, <2>3 DEF ReplayAnswer
  <2>5. x \in Answered
    BY <2>1, <2>3 DEF Answered
  <2>6. x.from = n /\ x.upto = L /\ x.events = E
    BY <2>3
  <2>7. replays' \subseteq Asked \cup Answered
    BY <1>1, <2>4, <2>5 DEF ETypeOK
  <2>8. AnswersFollow'
    BY <1>1, <2>2, <2>4, <2>6 DEF AnswersFollow
  <2>9. ReplayIsComplete'
    <3>1. ASSUME NEW q \in replays', q.answered, q.upto - q.from <= RingSize
          PROVE  q.events = [i \in 1..(IF q.upto > q.from THEN q.upto - q.from ELSE 0)
                               |-> q.from + i]
      <4>1. CASE q = x
        BY <2>2, <2>6, <3>1, <4>1
      <4>2. CASE q \in replays
        BY <1>1, <3>1, <4>2 DEF ReplayIsComplete
      <4> QED BY <2>4, <4>1, <4>2
    <3> QED BY <3>1 DEF ReplayIsComplete
  <2>10. UNCHANGED <<last, applied>>
    BY <1>5 DEF ReplayAnswer
  <2>11. ETypeOK'
    BY <1>1, <1>4, <2>7, <2>10 DEF ETypeOK
  <2>12. RingIsNewest' /\ LastIsNewest' /\ OnceInOrder'
    BY <1>1, <1>4, <2>10 DEF RingIsNewest, LastIsNewest, OnceInOrder
  <2> QED BY <2>8, <2>9, <2>11, <2>12 DEF EInv
<1>6. CASE ReplayApply(r)
  <2>1. r.answered /\ Apply(r.b, r.events) /\ replays' = replays \ {r}
    BY <1>6 DEF ReplayApply
  <2>2. r.b \in Browsers /\ r.events \in Seq(Nat)
    BY <1>3, <2>1 DEF Asked, Answered
  <2>3. PICK a \in Int : Follows(r.events, a)
    BY <1>1, <2>1 DEF AnswersFollow
  <2>4. /\ applied' \in [Browsers -> Seq(Nat)] /\ last' \in [Browsers -> Nat]
        /\ LastIsNewest' /\ OnceInOrder'
    BY <1>1, <2>1, <2>2, <2>3, ApplyKeepsOrder
  <2>5. ETypeOK'
    BY <1>1, <1>4, <2>1, <2>4 DEF ETypeOK
  <2>6. RingIsNewest' /\ AnswersFollow' /\ ReplayIsComplete'
    BY <1>1, <1>4, <2>1 DEF RingIsNewest, AnswersFollow, ReplayIsComplete
  <2> QED BY <2>4, <2>5, <2>6 DEF EInv
<1> QED BY <1>2, <1>5, <1>6

\* The empty store, and browsers that have applied nothing.
LEMMA EmptyStore ==
  /\ \A T : <<>> \in Seq(T)
  /\ Len(<<>>) = 0 /\ DOMAIN <<>> = 1..0
  /\ 0 <= RingSize /\ ~(0 >= QueueSize) /\ 0 <= QueueSize
<1>1. \A T : <<>> \in Seq(T) /\ Len(<<>>) = 0
  BY EmptySeq
<1>2. DOMAIN <<>> = 1..0
  BY <1>1, LenProperties
<1> QED BY <1>1, <1>2, EventStreamAssumption

LEMMA RestartInv == ASSUME EInv, Restart PROVE EInv'
<1>1. ETypeOK /\ AnswersFollow /\ ReplayIsComplete
  BY DEF EInv
<1>2. ETypeOK'
  BY <1>1, EmptyStore DEF ETypeOK, Restart, NotYet
<1>3. RingIsNewest'
  BY EmptyStore, EventStreamAssumption DEF Restart, RingIsNewest, Follows
<1>4. AnswersFollow' /\ ReplayIsComplete'
  BY <1>1 DEF Restart, AnswersFollow, ReplayIsComplete
<1>5. LastIsNewest' /\ OnceInOrder'
  <2>1. \A b \in Browsers : applied'[b] = <<>> /\ DOMAIN applied'[b] = {}
    BY EmptyStore DEF Restart
  <2> QED BY <2>1 DEF LastIsNewest, OnceInOrder
<1> QED BY <1>2, <1>3, <1>4, <1>5 DEF EInv

LEMMA EInitInv == ASSUME EInit PROVE EInv
<1>1. ETypeOK
  BY EmptyStore DEF ETypeOK, EInit, NotYet
<1>2. RingIsNewest
  BY EmptyStore, EventStreamAssumption DEF EInit, RingIsNewest, Follows
<1>3. AnswersFollow /\ ReplayIsComplete
  BY DEF EInit, AnswersFollow, ReplayIsComplete
<1>4. LastIsNewest /\ OnceInOrder
  <2>1. \A b \in Browsers : applied[b] = <<>> /\ DOMAIN applied[b] = {}
    BY EmptyStore DEF EInit
  <2> QED BY <2>1 DEF LastIsNewest, OnceInOrder
<1> QED BY <1>1, <1>2, <1>3, <1>4 DEF EInv

LEMMA EInvariant == ESpec => []EInv
<1>1. EInv /\ [ENext]_evars => EInv'
  <2> SUFFICES ASSUME EInv, [ENext]_evars PROVE EInv'
    OBVIOUS
  <2>1. CASE UNCHANGED evars
    BY <2>1 DEF evars, server, client, EInv, ETypeOK, RingIsNewest, AnswersFollow,
                LastIsNewest, OnceInOrder, ReplayIsComplete
  <2> QED BY <2>1, ServerStepInv, BrowserStepInv, ReplayStepInv, RestartInv DEF ENext
<1> QED BY <1>1, EInitInv, PTL DEF ESpec
-----------------------------------------------------------------------------
(* Types of what the hub, the store and the browsers keep; the send queues *)
(* and the ring buffer stay within their capacities, whatever they are.    *)
THEOREM StreamTypeCorrect == ESpec => []ETypeOK
<1>1. EInv => ETypeOK
  BY DEF EInv
<1> QED BY <1>1, EInvariant, PTL

(* A browser hands events to its page once and in order, although its      *)
(* sockets and its replays deliver them twice and in any order, across     *)
(* disconnects and restarts of the server.                                 *)
THEOREM EventsOnceInOrder == ESpec => []OnceInOrder
<1>1. EInv => OnceInOrder
  BY DEF EInv
<1> QED BY <1>1, EInvariant, PTL

(* The answer to a replay holds every event the browser has missed, as     *)
(* long as it is not further behind than the ring buffer is long.          *)
THEOREM ReplaysAreComplete == ESpec => []ReplayIsComplete
<1>1. EInv => ReplayIsComplete
  BY DEF EInv
<1> QED BY <1>1, EInvariant, PTL
-----------------------------------------------------------------------------
(* The hub delivers all or drops.                                          *)

(***************************************************************************)
(* What is in frames F, and that it is in order; 0 is no event.  A queue   *)
(* counts as one more frame, which is not written yet.                     *)
(***************************************************************************)
Holds(F, s) == \E i \in DOMAIN F : \E j \in DOMAIN F[i] : F[i][j] = s
Ordered(F) ==
  \A i, k \in DOMAIN F : \A j \in DOMAIN F[i], l \in DOMAIN F[k] :
    /\ i < k \/ (i = k /\ j < l)
    /\ F[i][j] # 0 /\ F[k][l] # 0
    => F[i][j] < F[k][l]

(***************************************************************************)
(* A connection is the hub's only after its browser has opened it, has     *)
(* nothing queued or written before it is registered, and is not           *)
(* registered again when it is gone.                                       *)
(***************************************************************************)
ConnsAreOnce ==
  /\ \A b \in Browsers : conn[b] # None => owner[conn[b]] = b
  /\ \A c \in Conns : owner[c] = None => since[c] = NotYet
  /\ \A c \in Conns : since[c] = NotYet =>
       queue[c] = <<>> /\ wire[c] = <<>> /\ c \notin hub
  /\ \A c \in Conns : since[c] <= Len(log)
Delivers(c) ==
  /\ Ordered(Frames(c))
  /\ \A s \in Nat \ {0} : Holds(Frames(c), s) <=> s \in Due(c)
HubDelivers == \A c \in hub : Open(c) => Delivers(c)

DeliveryInv == EInv /\ ConnsAreOnce /\ HubDelivers

LEMMA FrameAdded ==
  ASSUME NEW W \in Seq(Seq(Nat)), NEW Q \in Seq(Nat), NEW n \in Nat, n = Len(W)
  PROVE  /\ Append(W, Q) \in Seq(Seq(Nat)) /\ DOMAIN Append(W, Q) = 1..n + 1
         /\ Append(W, Q)[n + 1] = Q
         /\ DOMAIN W = 1..n /\ \A i \in 1..n : Append(W, Q)[i] = W[i]
<1>1. /\ Append(W, Q) \in Seq(Seq(Nat)) /\ Len(Append(W, Q)) = n + 1
      /\ Append(W, Q)[n + 1] = Q /\ \A i \in 1..n : Append(W, Q)[i] = W[i]
  BY AppendProperties
<1> QED BY <1>1, LenProperties

(* Frames F and G are the same but for an x at the end of the last frame,  *)
(* which is frame n + 1 and has m entries in F.                            *)
GrowsBy(F, G, n, m, x) ==
  /\ DOMAIN F = 1..n + 1 /\ DOMAIN G = 1..n + 1 /\ \A i \in 1..n : G[i] = F[i]
  /\ DOMAIN F[n + 1] = 1..m /\ DOMAIN G[n + 1] = 1..m + 1
  /\ G[n + 1][m + 1] = x /\ \A j \in 1..m : G[n + 1][j] = F[n + 1][j]
  /\ \A i \in 1..n + 1 : DOMAIN F[i] \subseteq Nat /\ \A j \in DOMAIN F[i] : F[i][j] \in Nat

LEMMA LastFrameGrows ==
  ASSUME NEW n \in Nat, NEW m \in Nat, NEW x \in Nat, NEW F, NEW G,
         GrowsBy(F, G, n, m, x),
         Ordered(F), \A s \in Nat \ {0} : x # 0 /\ Holds(F, s) => s < x
  PROVE  Ordered(G) /\ \A s : Holds(G, s) <=> Holds(F, s) \/ s = x
<1>0. /\ DOMAIN F = 1..n + 1 /\ DOMAIN G = 1..n + 1 /\ \A i \in 1..n : G[i] = F[i]
      /\ DOMAIN F[n + 1] = 1..m /\ DOMAIN G[n + 1] = 1..m + 1
      /\ G[n + 1][m + 1] = x /\ \A j \in 1..m : G[n + 1][j] = F[n + 1][j]
      /\ \A i \in 1..n + 1 :
           DOMAIN F[i] \subseteq Nat /\ \A j \in DOMAIN F[i] : F[i][j] \in Nat
  BY DEF GrowsBy
<1>1. \A i \in 1..n + 1 : i \in 1..n \/ i = n + 1
  OBVIOUS
<1>2. m + 1 \in 1..m + 1 /\ n + 1 \in 1..n + 1 /\ \A i \in 1..n : i \in 1..n + 1
  OBVIOUS
<1>3. \A j \in 1..m + 1 : j \in 1..m \/ j = m + 1
  OBVIOUS
<1>4. \A j \in 1..m : j \in 1..m + 1
  OBVIOUS
<1>5. \A i \in 1..n + 1 : \A j \in DOMAIN G[i] :
        \/ j \in DOMAIN F[i] /\ G[i][j] = F[i][j]
        \/ i = n + 1 /\ j = m + 1 /\ G[i][j] = x
  <2> SUFFICES ASSUME NEW i \in 1..n + 1, NEW j \in DOMAIN G[i]
               PROVE  \/ j \in DOMAIN F[i] /\ G[i][j] = F[i][j]
                      \/ i = n + 1 /\ j = m + 1 /\ G[i][j] = x
    OBVIOUS
  <2>1. CASE i \in 1..n
    BY <1>0, <2>1, Zenon
  <2>2. CASE i = n + 1
    BY <1>0, <1>3, <2>2, Zenon
  <2> QED BY <1>1, <2>1, <2>2, Zenon
<1>6. \A i \in 1..n + 1 : \A j \in DOMAIN F[i] : j \in DOMAIN G[i] /\ G[i][j] = F[i][j]
  <2> SUFFICES ASSUME NEW i \in 1..n + 1, NEW j \in DOMAIN F[i]
               PROVE  j \in DOMAIN G[i] /\ G[i][j] = F[i][j]
    OBVIOUS
  <2>1. CASE i \in 1..n
    BY <1>0, <2>1, Zenon
  <2>2. CASE i = n + 1
    BY <1>0, <1>4, <2>2, Zenon
  <2> QED BY <1>1, <2>1, <2>2, Zenon
<1>7. \A s : Holds(G, s) <=> Holds(F, s) \/ s = x
  <2>1. ASSUME NEW s, Holds(G, s) PROVE Holds(F, s) \/ s = x
    <3>1. PICK i \in 1..n + 1 : \E j \in DOMAIN G[i] : G[i][j] = s
      BY <1>0, <2>1 DEF Holds
    <3> QED BY <1>0, <1>5, <3>1, Zenon DEF Holds
  <2>2. ASSUME NEW s, Holds(F, s) PROVE Holds(G, s)
    <3>1. PICK i \in 1..n + 1 : \E j \in DOMAIN F[i] : F[i][j] = s
      BY <1>0, <2>2 DEF Holds
    <3> QED BY <1>0, <1>6, <3>1, Zenon DEF Holds
  <2>3. Holds(G, x)
    BY <1>0, <1>2, Zenon DEF Holds
  <2> QED BY <2>1, <2>2, <2>3
<1>8. Ordered(G)
  <2> SUFFICES ASSUME NEW i \in 1..n + 1, NEW k \in 1..n + 1,
                      NEW j \in DOMAIN G[i], NEW l \in DOMAIN G[k],
                      i < k \/ (i = k /\ j < l), G[i][j] # 0, G[k][l] # 0
               PROVE  G[i][j] < G[k][l]
    BY <1>0 DEF Ordered
  <2>1. CASE j \in DOMAIN F[i] /\ G[i][j] = F[i][j]
    <3>1. CASE l \in DOMAIN F[k] /\ G[k][l] = F[k][l]
      <4>1. F[i][j] # 0 /\ F[k][l] # 0
        BY <2>1, <3>1
      <4>2. F[i][j] < F[k][l]
        BY <1>0, <2>1, <3>1, <4>1, Zenon DEF Ordered
      <4> QED BY <2>1, <3>1, <4>2
    <3>2. CASE k = n + 1 /\ l = m + 1 /\ G[k][l] = x
      <4>1. F[i][j] \in Nat \ {0}
        BY <1>0, <2>1
      <4>2. Holds(F, F[i][j])
        BY <1>0, <2>1, Zenon DEF Holds
      <4> QED BY <2>1, <3>2, <4>1, <4>2
    <3> QED BY <1>5, <3>1, <3>2, Zenon
  <2>2. CASE i = n + 1 /\ j = m + 1 /\ G[i][j] = x
    <3>1. k = i
      BY <2>2
    <3>2. l \in 1..m + 1
      BY <1>0, <2>2, <3>1
    <3> QED BY <2>2, <3>1, <3>2
  <2> QED BY <1>5, <2>1, <2>2, Zenon
<1> QED BY <1>7, <1>8

LEMMA NatFrame ==
  ASSUME NEW S \in Seq(Nat)
  PROVE  DOMAIN S \subseteq Nat /\ \A j \in DOMAIN S : S[j] \in Nat
<1>1. DOMAIN S = 1..Len(S) /\ Len(S) \in Nat
  BY LenProperties
<1> QED BY <1>1, ElementOfSeq

\* An event, or an online count, is queued.
LEMMA QueueGrows ==
  ASSUME NEW W \in Seq(Seq(Nat)), NEW Q \in Seq(Nat), NEW x \in Nat,
         Ordered(Append(W, Q)),
         \A s \in Nat \ {0} : x # 0 /\ Holds(Append(W, Q), s) => s < x
  PROVE  /\ Ordered(Append(W, Append(Q, x)))
         /\ \A s : Holds(Append(W, Append(Q, x)), s) <=> Holds(Append(W, Q), s) \/ s = x
<1> DEFINE F == Append(W, Q)
           P == Append(Q, x)
           G == Append(W, P)
<1>1. PICK n \in Nat, m \in Nat : n = Len(W) /\ m = Len(Q)
  BY LenProperties
<1>2. P \in Seq(Nat) /\ Len(P) = m + 1 /\ P[m + 1] = x /\ \A i \in 1..m : P[i] = Q[i]
  BY <1>1, Appended
<1>3. DOMAIN P = 1..m + 1 /\ DOMAIN Q = 1..m
  BY <1>1, <1>2, LenProperties
<1>4. /\ F \in Seq(Seq(Nat)) /\ DOMAIN F = 1..n + 1 /\ F[n + 1] = Q
      /\ \A i \in 1..n : F[i] = W[i]
  BY <1>1, FrameAdded
<1>5. DOMAIN G = 1..n + 1 /\ G[n + 1] = P /\ \A i \in 1..n : G[i] = W[i]
  BY <1>1, <1>2, FrameAdded
<1>6. ASSUME NEW i \in 1..n + 1
      PROVE  DOMAIN F[i] \subseteq Nat /\ \A j \in DOMAIN F[i] : F[i][j] \in Nat
  <2>1. F[i] \in Seq(Nat)
    BY <1>4, LenProperties, ElementOfSeq
  <2> HIDE DEF F
  <2> QED BY <2>1, NatFrame
<1>7. /\ \A i \in 1..n : G[i] = F[i]
      /\ DOMAIN F[n + 1] = 1..m /\ DOMAIN G[n + 1] = 1..m + 1
      /\ G[n + 1][m + 1] = x /\ \A j \in 1..m : G[n + 1][j] = F[n + 1][j]
  BY <1>2, <1>3, <1>4, <1>5, Zenon
<1> HIDE DEF F, P, G
<1>8. Ordered(F) /\ \A s \in Nat \ {0} : x # 0 /\ Holds(F, s) => s < x
  BY DEF F
<1>9. Ordered(G) /\ \A s : Holds(G, s) <=> Holds(F, s) \/ s = x
  <2>1. GrowsBy(F, G, n, m, x)
    BY <1>4, <1>5, <1>6, <1>7 DEF GrowsBy
  <2> QED BY <1>8, <2>1, LastFrameGrows
<1> QED BY <1>9, Zenon DEF F, G, P

\* The queue is written as a frame.
LEMMA QueueWritten ==
  ASSUME NEW F \in Seq(Seq(Nat)), Ordered(F)
  PROVE  /\ Ordered(Append(F, <<>>))
         /\ \A s : Holds(Append(F, <<>>), s) <=> Holds(F, s)
<1>1. PICK n \in Nat : n = Len(F)
  BY LenProperties
<1>2. <<>> \in Seq(Nat) /\ DOMAIN <<>> = {}
  BY EmptyStore
<1>3. PICK G \in Seq(Seq(Nat)) :
        /\ G = Append(F, <<>>) /\ DOMAIN G = 1..n + 1 /\ G[n + 1] = <<>>
        /\ DOMAIN F = 1..n /\ \A i \in 1..n : G[i] = F[i]
  <2>1. /\ Append(F, <<>>) \in Seq(Seq(Nat)) /\ DOMAIN Append(F, <<>>) = 1..n + 1
        /\ Append(F, <<>>)[n + 1] = <<>>
        /\ DOMAIN F = 1..n /\ \A i \in 1..n : Append(F, <<>>)[i] = F[i]
    BY <1>1, <1>2, FrameAdded
  <2> QED BY <2>1
<1>4. \A i \in 1..n + 1 : DOMAIN G[i] # {} => i \in 1..n
  BY <1>2, <1>3
<1>5. Ordered(G)
  BY <1>3, <1>4 DEF Ordered
<1>6. \A s : Holds(G, s) <=> Holds(F, s)
  BY <1>3, <1>4 DEF Holds
<1> QED BY <1>3, <1>5, <1>6

\* A connection with nothing written and nothing queued.
LEMMA NothingHeld ==
  /\ Ordered(Append(<<>>, <<>>)) /\ \A s : ~Holds(Append(<<>>, <<>>), s)
<1>1. <<>> \in Seq(Seq(Nat)) /\ <<>> \in Seq(Nat) /\ Len(<<>>) = 0 /\ DOMAIN <<>> = {}
  BY EmptyStore
<1>2. Ordered(<<>>) /\ \A s : ~Holds(<<>>, s)
  BY <1>1 DEF Ordered, Holds
<1> QED BY <1>1, <1>2, QueueWritten

\* What connection c holds and is due stays as it is.
LEMMA DeliversStill ==
  ASSUME NEW c \in Conns, Delivers(c), wire'[c] = wire[c], queue'[c] = queue[c],
         log' = log, since'[c] = since[c], owner'[c] = owner[c]
  PROVE  Delivers(c)'
<1>1. Frames(c)' = Frames(c) /\ Due(c)' = Due(c)
  BY DEF Frames, Due
<1> QED BY <1>1 DEF Delivers

\* An online count is queued, or finds the queue full.
LEMMA CountDelivered ==
  ASSUME EInv, NEW c \in Conns, Delivers(c),
         queue'[c] \in {queue[c], Append(queue[c], 0)},
         wire'[c] = wire[c], log' = log, since'[c] = since[c], owner'[c] = owner[c]
  PROVE  Delivers(c)'
<1>1. ETypeOK
  BY DEF EInv
<1>2. CASE queue'[c] = queue[c]
  BY <1>2, DeliversStill
<1>3. CASE queue'[c] = Append(queue[c], 0)
  <2>1. wire[c] \in Seq(Seq(Nat)) /\ queue[c] \in Seq(Nat)
    BY <1>1 DEF ETypeOK
  <2>2. PICK W \in Seq(Seq(Nat)), Q \in Seq(Nat) : W = wire[c] /\ Q = queue[c]
    BY <2>1
  <2>3. Ordered(Append(W, Q))
    BY <2>2 DEF Delivers, Frames
  <2>4. /\ Ordered(Append(W, Append(Q, 0)))
        /\ \A s : Holds(Append(W, Append(Q, 0)), s) <=> Holds(Append(W, Q), s) \/ s = 0
    BY <2>3, QueueGrows
  <2>5. Frames(c) = Append(W, Q) /\ Frames(c)' = Append(W, Append(Q, 0))
    BY <1>3, <2>2 DEF Frames
  <2>6. Due(c)' = Due(c)
    BY DEF Due
  <2> QED BY <2>4, <2>5, <2>6 DEF Delivers
<1> QED BY <1>2, <1>3

\* What a connection is due when an event is emitted.
LEMMA DueGrows ==
  ASSUME EInv, ConnsAreOnce, NEW c \in Conns, NEW to \in SUBSET Browsers,
         NEW n \in Nat, n = Len(log), log' = Append(log, to),
         since'[c] = since[c], owner'[c] = owner[c]
  PROVE  /\ \A s : s \in Due(c)' <=> s \in Due(c) \/ (s = n + 1 /\ owner[c] \in to)
         /\ \A s \in Due(c) : s < n + 1
<1>1. log \in Seq(SUBSET Browsers) /\ since[c] \in Nat \cup {NotYet} /\ since[c] <= n
  BY DEF EInv, ETypeOK, ConnsAreOnce
<1>2. PICK L : L = log'
  OBVIOUS
<1>3. Len(L) = n + 1 /\ L[n + 1] = to /\ \A i \in 1..n : L[i] = log[i]
  BY <1>1, <1>2, AppendProperties
<1>4. PICK a \in Int : a = since[c] /\ a <= n
  BY <1>1 DEF NotYet
<1>5. \A s : s \in Due(c) <=> s \in 1..n /\ s > a /\ owner[c] \in log[s]
  BY <1>4 DEF Due
<1>6. \A s : s \in Due(c)' <=> s \in 1..n + 1 /\ s > a /\ owner[c] \in L[s]
  BY <1>2, <1>3, <1>4 DEF Due
<1>7. ASSUME NEW s \in 1..n
      PROVE  s \in Due(c)' <=> s \in Due(c)
  <2>1. s \in 1..n + 1 /\ L[s] = log[s]
    BY <1>3, <1>7
  <2> QED BY <1>5, <1>6, <2>1
<1>8. n + 1 \in Due(c)' <=> owner[c] \in to
  <2>1. n + 1 \in 1..n + 1 /\ n + 1 > a
    BY <1>4
  <2> QED BY <1>3, <1>6, <2>1
<1>9. n + 1 \notin Due(c) /\ \A s \in Due(c) : s < n + 1
  BY <1>5
<1>10. \A s : s \in Due(c)' \/ s \in Due(c) => s \in 1..n \/ s = n + 1
  BY <1>5, <1>6
<1>11. ASSUME NEW s
       PROVE  s \in Due(c)' <=> s \in Due(c) \/ (s = n + 1 /\ owner[c] \in to)
  <2>1. CASE s \in 1..n
    BY <1>7, <2>1
  <2>2. CASE s = n + 1
    BY <1>8, <1>9, <2>2
  <2> QED BY <1>10, <2>1, <2>2
<1> QED BY <1>9, <1>11

\* An event is queued for a connection it is addressed to.
LEMMA EventDelivered ==
  ASSUME EInv, ConnsAreOnce, NEW c \in Conns, Delivers(c),
         NEW to \in SUBSET Browsers, owner[c] \in to,
         log' = Append(log, to), queue'[c] = Append(queue[c], Len(log) + 1),
         wire'[c] = wire[c], since'[c] = since[c], owner'[c] = owner[c]
  PROVE  Delivers(c)'
<1>1. ETypeOK
  BY DEF EInv
<1>2. PICK n \in Nat, x \in Nat : n = Len(log) /\ x = n + 1
  BY <1>1, LenProperties DEF ETypeOK
<1>3. wire[c] \in Seq(Seq(Nat)) /\ queue[c] \in Seq(Nat)
  BY <1>1 DEF ETypeOK
<1>4. PICK W \in Seq(Seq(Nat)), Q \in Seq(Nat) : W = wire[c] /\ Q = queue[c]
  BY <1>3
<1>5. /\ \A s : s \in Due(c)' <=> s \in Due(c) \/ s = x
      /\ \A s \in Due(c) : s < x
  BY <1>2, DueGrows
<1>6. Frames(c) = Append(W, Q) /\ Frames(c)' = Append(W, Append(Q, x))
  BY <1>2, <1>4 DEF Frames
<1>7. /\ Ordered(Append(W, Q))
      /\ \A s \in Nat \ {0} : Holds(Append(W, Q), s) <=> s \in Due(c)
  BY <1>6 DEF Delivers
<1>8. \A s \in Nat \ {0} : x # 0 /\ Holds(Append(W, Q), s) => s < x
  BY <1>5, <1>7
<1>9. /\ Ordered(Append(W, Append(Q, x)))
      /\ \A s : Holds(Append(W, Append(Q, x)), s) <=> Holds(Append(W, Q), s) \/ s = x
  BY <1>7, <1>8, QueueGrows
<1> QED BY <1>5, <1>6, <1>7, <1>9 DEF Delivers

\* An event that is addressed to others.
LEMMA OthersDelivered ==
  ASSUME EInv, ConnsAreOnce, NEW c \in Conns, Delivers(c),
         NEW to \in SUBSET Browsers, owner[c] \notin to,
         log' = Append(log, to), queue'[c] = queue[c],
         wire'[c] = wire[c], since'[c] = since[c], owner'[c] = owner[c]
  PROVE  Delivers(c)'
<1>1. PICK n \in Nat : n = Len(log)
  BY LenProperties DEF EInv, ETypeOK
<1>2. \A s : s \in Due(c)' <=> s \in Due(c)
  BY <1>1, DueGrows
<1>3. Frames(c)' = Frames(c)
  BY DEF Frames
<1> QED BY <1>2, <1>3 DEF Delivers

\* The queue of an open connection goes into a frame.
LEMMA FrameDelivered ==
  ASSUME EInv, NEW c \in Conns, Delivers(c),
         wire'[c] = Append(wire[c], queue[c]), queue'[c] = <<>>,
         log' = log, since'[c] = since[c], owner'[c] = owner[c]
  PROVE  Delivers(c)'
<1>1. wire[c] \in Seq(Seq(Nat)) /\ queue[c] \in Seq(Nat)
  BY DEF EInv, ETypeOK
<1>2. PICK F \in Seq(Seq(Nat)) : F = Append(wire[c], queue[c])
  BY <1>1, AppendProperties
<1>3. Frames(c) = F /\ Frames(c)' = Append(F, <<>>)
  BY <1>2 DEF Frames
<1>4. Ordered(F)
  BY <1>3 DEF Delivers
<1>5. Ordered(Append(F, <<>>)) /\ \A s : Holds(Append(F, <<>>), s) <=> Holds(F, s)
  BY <1>4, QueueWritten
<1>6. Due(c)' = Due(c)
  BY DEF Due
<1> QED BY <1>3, <1>5, <1>6 DEF Delivers

\* A connection that has just been registered.
LEMMA FreshDelivers ==
  ASSUME EInv, NEW c \in Conns, wire'[c] = <<>>, queue'[c] \in {<<>>, Append(<<>>, 0)},
         log' = log, since'[c] = Len(log)
  PROVE  Delivers(c)'
<1>1. Due(c)' = {}
  <2>1. PICK n \in Nat : n = Len(log)
    BY LenProperties DEF EInv, ETypeOK
  <2> QED BY <2>1 DEF Due
<1>2. CASE queue'[c] = <<>>
  <2>1. Frames(c)' = Append(<<>>, <<>>)
    BY <1>2 DEF Frames
  <2> QED BY <1>1, <2>1, NothingHeld DEF Delivers
<1>3. CASE queue'[c] = Append(<<>>, 0)
  <2>1. Frames(c)' = Append(<<>>, Append(<<>>, 0))
    BY <1>3 DEF Frames
  <2>2. <<>> \in Seq(Seq(Nat)) /\ <<>> \in Seq(Nat)
    BY EmptyStore
  <2>3. /\ Ordered(Append(<<>>, Append(<<>>, 0)))
        /\ \A s : Holds(Append(<<>>, Append(<<>>, 0)), s)
                    <=> Holds(Append(<<>>, <<>>), s) \/ s = 0
    BY <2>2, NothingHeld, QueueGrows
  <2> QED BY <1>1, <2>1, <2>3, NothingHeld DEF Delivers
<1> QED BY <1>2, <1>3
-----------------------------------------------------------------------------
(* Every step keeps what the hub delivers.                                 *)
LEMMA ServerStepDelivers ==
  ASSUME DeliveryInv,
         \/ \E c \in Conns : Register(c) \/ Unregister(c) \/ WritePump(c)
         \/ \E to \in SUBSET Browsers : Broadcast(to)
  PROVE  (ConnsAreOnce /\ HubDelivers)'
<1>1. EInv /\ ETypeOK /\ ConnsAreOnce /\ HubDelivers
  BY DEF DeliveryInv, EInv
<1>2. UNCHANGED <<conn, owner>> /\ \A c \in Conns : Open(c)' <=> Open(c)
  BY DEF Register, Unregister, WritePump, Broadcast, client, Open
<1>3. PICK n \in Nat : n = Len(log)
  BY <1>1, LenProperties DEF ETypeOK
<1>4. ASSUME NEW c \in Conns, Register(c) PROVE (ConnsAreOnce /\ HubDelivers)'
  <2>1. /\ owner[c] # None /\ since[c] = NotYet /\ queue[c] = <<>> /\ wire[c] = <<>>
        /\ log' = log /\ wire' = wire /\ hub' = hub \cup {c}
        /\ queue' = CountPushed(hub') /\ since' = [since EXCEPT ![c] = n]
    BY <1>1, <1>3, <1>4 DEF Register, ConnsAreOnce
  <2>2. since'[c] = n /\ \A d \in Conns \ {c} : since'[d] = since[d]
    BY <1>1, <2>1 DEF ETypeOK
  <2>3. \A d \in Conns \ {c} : d \notin hub => queue'[d] = queue[d]
    BY <2>1 DEF CountPushed
  <2>4. ConnsAreOnce'
    <3>1. \A d \in Conns : since'[d] <= Len(log')
      BY <1>1, <1>3, <2>1, <2>2 DEF ConnsAreOnce
    <3>2. \A d \in Conns : since'[d] = NotYet => d # c /\ since[d] = NotYet
      BY <2>2 DEF NotYet
    <3>3. \A d \in Conns : since'[d] = NotYet =>
            queue'[d] = <<>> /\ wire'[d] = <<>> /\ d \notin hub'
      BY <1>1, <2>1, <2>3, <3>2 DEF ConnsAreOnce
    <3>4. \A d \in Conns : owner'[d] = None => since'[d] = NotYet
      BY <1>1, <1>2, <2>1, <2>2 DEF ConnsAreOnce
    <3> QED BY <1>1, <1>2, <3>1, <3>3, <3>4 DEF ConnsAreOnce
  <2>5. Delivers(c)'
    <3>1. queue'[c] \in {<<>>, Append(<<>>, 0)}
      BY <2>1 DEF CountPushed
    <3> QED BY <1>1, <1>3, <2>1, <2>2, <3>1, FreshDelivers
  <2>6. ASSUME NEW d \in hub \ {c}, Open(d) PROVE Delivers(d)'
    <3>1. d \in Conns /\ Delivers(d)
      BY <1>1, <2>6 DEF ETypeOK, HubDelivers
    <3>2. queue'[d] \in {queue[d], Append(queue[d], 0)}
      BY <2>1, <3>1 DEF CountPushed
    <3> QED BY <1>1, <1>2, <2>1, <2>2, <3>1, <3>2, CountDelivered
  <2>7. HubDelivers'
    <3>1. ASSUME NEW d \in hub', Open(d)' PROVE Delivers(d)'
      <4>1. d \in Conns /\ Open(d)
        BY <1>1, <1>2, <2>1, <3>1 DEF ETypeOK
      <4> QED BY <2>1, <2>5, <2>6, <4>1
    <3> QED BY <3>1 DEF HubDelivers
  <2> QED BY <2>4, <2>7
<1>5. ASSUME NEW c \in Conns, Unregister(c) PROVE (ConnsAreOnce /\ HubDelivers)'
  <2>1. /\ log' = log /\ wire' = wire /\ since' = since /\ hub' = hub \ {c}
        /\ queue' = [CountPushed(hub') EXCEPT ![c] = <<>>]
    BY <1>5 DEF Unregister
  <2>2. queue'[c] = <<>> /\ \A d \in Conns \ {c} : queue'[d] = CountPushed(hub')[d]
    BY <2>1 DEF CountPushed
  <2>3. ConnsAreOnce'
    BY <1>1, <1>2, <2>1, <2>2 DEF ConnsAreOnce, CountPushed
  <2>4. ASSUME NEW d \in hub', Open(d)' PROVE Delivers(d)'
    <3>1. d \in Conns \ {c} /\ Delivers(d)
      BY <1>1, <1>2, <2>1, <2>4 DEF ETypeOK, HubDelivers
    <3>2. queue'[d] \in {queue[d], Append(queue[d], 0)}
      BY <2>2, <3>1 DEF CountPushed
    <3> QED BY <1>1, <1>2, <2>1, <3>1, <3>2, CountDelivered
  <2> QED BY <2>3, <2>4 DEF HubDelivers
<1>6. ASSUME NEW c \in Conns, WritePump(c) PROVE (ConnsAreOnce /\ HubDelivers)'
  <2>1. /\ queue[c] # <<>> /\ log' = log /\ since' = since /\ hub' = hub
        /\ wire' = IF Open(c) THEN [wire EXCEPT ![c] = Append(@, queue[c])] ELSE wire
        /\ queue' = [queue EXCEPT ![c] = <<>>]
    BY <1>6 DEF WritePump
  <2>2. since[c] # NotYet
    BY <1>1, <2>1 DEF ConnsAreOnce
  <2>3. /\ queue'[c] = <<>> /\ (Open(c) => wire'[c] = Append(wire[c], queue[c]))
        /\ \A d \in Conns \ {c} : queue'[d] = queue[d] /\ wire'[d] = wire[d]
    BY <1>1, <2>1 DEF ETypeOK
  <2>4. ConnsAreOnce'
    BY <1>1, <1>2, <2>1, <2>2, <2>3 DEF ConnsAreOnce
  <2>5. ASSUME NEW d \in hub', Open(d)' PROVE Delivers(d)'
    <3>1. d \in Conns /\ Open(d) /\ Delivers(d)
      BY <1>1, <1>2, <2>1, <2>5 DEF ETypeOK, HubDelivers
    <3>2. CASE d = c
      BY <1>1, <1>2, <2>1, <2>3, <3>1, <3>2, FrameDelivered
    <3>3. CASE d # c
      BY <1>2, <2>1, <2>3, <3>1, <3>3, DeliversStill
    <3> QED BY <3>2, <3>3
  <2> QED BY <2>4, <2>5 DEF HubDelivers
<1>7. ASSUME NEW to \in SUBSET Browsers, Broadcast(to) PROVE (ConnsAreOnce /\ HubDelivers)'
  <2> DEFINE H == Addressed(to)
  <2>1. /\ log' = Append(log, to) /\ wire' = wire /\ since' = since
        /\ hub' = hub \ Slow(H)
        /\ queue' = [c \in Conns |-> IF c \in H /\ ~Full(c) THEN Append(queue[c], Len(log) + 1)
                                                            ELSE queue[c]]
    BY <1>7 DEF Broadcast
  <2>2. Len(log') = n + 1
    BY <1>1, <1>3, <2>1, AppendProperties DEF ETypeOK
  <2>3. ConnsAreOnce'
    <3>1. \A c \in Conns : since[c] \in Int /\ since[c] <= n
      BY <1>1, <1>3 DEF ETypeOK, ConnsAreOnce, NotYet
    <3>2. \A c \in Conns : since'[c] <= Len(log')
      BY <2>1, <2>2, <3>1
    <3>3. \A c \in Conns : since'[c] = NotYet => queue'[c] = <<>> /\ wire'[c] = <<>> /\ c \notin hub'
      BY <1>1, <2>1 DEF ConnsAreOnce, Addressed
    <3> QED BY <1>1, <1>2, <2>1, <3>2, <3>3 DEF ConnsAreOnce
  <2>4. ASSUME NEW d \in hub', Open(d)' PROVE Delivers(d)'
    <3>1. d \in Conns /\ d \in hub /\ d \notin Slow(H) /\ Delivers(d)
      BY <1>1, <1>2, <2>1, <2>4 DEF ETypeOK, HubDelivers
    <3>2. CASE owner[d] \in to
      <4>1. d \in H /\ ~Full(d)
        BY <3>1, <3>2 DEF Addressed, Slow
      <4>2. queue'[d] = Append(queue[d], Len(log) + 1)
        BY <2>1, <3>1, <4>1
      <4> QED BY <1>1, <1>2, <2>1, <3>1, <3>2, <4>2, EventDelivered
    <3>3. CASE owner[d] \notin to
      <4>1. queue'[d] = queue[d]
        BY <2>1, <3>1, <3>3 DEF Addressed
      <4> QED BY <1>1, <1>2, <2>1, <3>1, <3>3, <4>1, OthersDelivered
    <3> QED BY <3>2, <3>3
  <2> QED BY <2>3, <2>4 DEF HubDelivers
<1> QED BY <1>4, <1>5, <1>6, <1>7

\* A browser opens or loses a connection.
LEMMA ConnectDelivers ==
  ASSUME DeliveryInv, NEW b \in Browsers, Connect(b) PROVE (ConnsAreOnce /\ HubDelivers)'
<1>1. EInv /\ ETypeOK /\ ConnsAreOnce /\ HubDelivers
  BY DEF DeliveryInv, EInv
<1>2. PICK c \in Conns :
        /\ owner[c] = None /\ owner' = [owner EXCEPT ![c] = b] /\ conn' = [conn EXCEPT ![b] = c]
        /\ UNCHANGED <<log, hub, queue, since, wire>>
  BY DEF Connect
<1>3. since[c] = NotYet /\ c \notin hub
  BY <1>1, <1>2 DEF ConnsAreOnce
<1>4. b # None /\ None \notin Conns
  BY EventStreamAssumption
<1>5. /\ owner'[c] = b /\ conn'[b] = c
      /\ \A d \in Conns \ {c} : owner'[d] = owner[d]
      /\ \A a \in Browsers \ {b} : conn'[a] = conn[a] /\ conn'[a] # c
  <2>1. \A a \in Browsers : conn[a] # c
    BY <1>1, <1>2, EventStreamAssumption DEF ConnsAreOnce
  <2> QED BY <1>1, <1>2, <2>1 DEF ETypeOK
<1>6. ConnsAreOnce'
  <2>1. ASSUME NEW a \in Browsers, conn'[a] # None PROVE owner'[conn'[a]] = a
    <3>1. CASE a = b
      BY <1>5, <3>1
    <3>2. CASE a # b
      <4>1. conn'[a] = conn[a] /\ conn[a] \in Conns \ {c}
        BY <1>1, <1>5, <2>1, <3>2 DEF ETypeOK
      <4> QED BY <1>1, <1>5, <2>1, <4>1 DEF ConnsAreOnce
    <3> QED BY <3>1, <3>2
  <2>2. \A d \in Conns : owner'[d] = None => since'[d] = NotYet
    BY <1>1, <1>2, <1>4, <1>5 DEF ConnsAreOnce
  <2> QED BY <1>1, <1>2, <2>1, <2>2 DEF ConnsAreOnce
<1>7. ASSUME NEW d \in hub', Open(d)' PROVE Delivers(d)'
  <2>1. d \in Conns \ {c} /\ owner'[d] = owner[d]
    BY <1>1, <1>2, <1>3, <1>5 DEF ETypeOK
  <2>2. owner[d] \in Browsers /\ conn'[owner[d]] = d
    BY <1>1, <1>7, <2>1 DEF Open, ETypeOK
  <2>3. conn[owner[d]] = d
    BY <1>5, <2>1, <2>2
  <2>4. Open(d) /\ d \in hub
    BY <1>2, <1>4, <2>2, <2>3, EventStreamAssumption DEF Open
  <2>5. Delivers(d)
    BY <1>1, <2>4 DEF HubDelivers
  <2> QED BY <1>2, <2>1, <2>5, DeliversStill
<1> QED BY <1>6, <1>7 DEF HubDelivers

LEMMA CloseDelivers ==
  ASSUME DeliveryInv, NEW b \in Browsers, conn[b] # None, Close(b)
  PROVE  (ConnsAreOnce /\ HubDelivers)'
<1>1. EInv /\ ETypeOK /\ ConnsAreOnce /\ HubDelivers
  BY DEF DeliveryInv, EInv
<1>2. PICK c \in Conns : c = conn[b] /\ owner[c] = b
  BY <1>1 DEF ETypeOK, ConnsAreOnce
<1>3. /\ conn' = [conn EXCEPT ![b] = None] /\ wire' = [wire EXCEPT ![c] = <<>>]
      /\ UNCHANGED <<log, owner, hub, queue, since>>
  BY <1>2 DEF Close
<1>4. /\ conn'[b] = None /\ wire'[c] = <<>>
      /\ \A a \in Browsers \ {b} : conn'[a] = conn[a]
      /\ \A d \in Conns \ {c} : wire'[d] = wire[d]
  BY <1>1, <1>3 DEF ETypeOK
<1>5. ConnsAreOnce'
  BY <1>1, <1>3, <1>4 DEF ConnsAreOnce
<1>6. ASSUME NEW d \in hub', Open(d)' PROVE Delivers(d)'
  <2>1. d \in hub /\ d \in Conns /\ owner[d] # None /\ conn'[owner[d]] = d
    BY <1>1, <1>3, <1>6 DEF ETypeOK, Open
  <2>2. owner[d] \in Browsers /\ owner[d] # b
    BY <1>1, <1>4, <2>1, EventStreamAssumption DEF ETypeOK
  <2>3. d # c /\ Open(d)
    BY <1>2, <1>4, <2>1, <2>2 DEF Open
  <2>4. Delivers(d)
    BY <1>1, <2>1, <2>3 DEF HubDelivers
  <2> QED BY <1>3, <1>4, <2>1, <2>3, <2>4, DeliversStill
<1> QED BY <1>5, <1>6 DEF HubDelivers

\* The browser handles a frame, asks or is answered.
LEMMA ClientStepDelivers ==
  ASSUME DeliveryInv, UNCHANGED <<server, conn>> PROVE (ConnsAreOnce /\ HubDelivers)'
<1>1. ConnsAreOnce /\ HubDelivers /\ hub \subseteq Conns
  BY DEF DeliveryInv, EInv, ETypeOK
<1>2. ConnsAreOnce'
  BY <1>1 DEF ConnsAreOnce, server
<1>3. ASSUME NEW d \in hub', Open(d)' PROVE Delivers(d)'
  <2>1. d \in Conns /\ Delivers(d)
    BY <1>1, <1>3 DEF server, Open, HubDelivers
  <2> QED BY <2>1, DeliversStill DEF server
<1> QED BY <1>2, <1>3 DEF HubDelivers

LEMMA RestartDelivers ==
  ASSUME DeliveryInv, Restart PROVE (ConnsAreOnce /\ HubDelivers)'
<1>1. hub' = {} /\ \A b \in Browsers : conn'[b] = None
  BY DEF Restart
<1>2. \A c \in Conns :
        /\ queue'[c] = <<>> /\ wire'[c] = <<>>
        /\ since'[c] = IF owner'[c] # None THEN 0 ELSE NotYet
  BY DEF Restart
<1>3. \A c \in Conns : since'[c] <= Len(log')
  BY <1>2, EmptyStore DEF Restart, NotYet
<1> QED BY <1>1, <1>2, <1>3 DEF ConnsAreOnce, HubDelivers

LEMMA DeliveryInvariant == ESpec => []DeliveryInv
<1>1. ASSUME EInit PROVE DeliveryInv
  <2>1. ConnsAreOnce
    BY <1>1, EmptyStore DEF EInit, ConnsAreOnce, NotYet
  <2>2. HubDelivers
    BY <1>1 DEF EInit, HubDelivers
  <2> QED BY <1>1, <2>1, <2>2, EInitInv DEF DeliveryInv
<1>2. ASSUME DeliveryInv, [ENext]_evars PROVE (ConnsAreOnce /\ HubDelivers)'
  <2>1. CASE UNCHANGED evars
    BY <1>2, <2>1, ClientStepDelivers DEF evars, client
  <2>2. ASSUME NEW b \in Browsers,
               Connect(b) \/ Disconnect(b) \/ HangUp(b) \/ Receive(b) \/ TabWake(b)
        PROVE  (ConnsAreOnce /\ HubDelivers)'
    <3>1. CASE Connect(b)
      BY <1>2, <3>1, ConnectDelivers
    <3>2. CASE Disconnect(b) \/ HangUp(b)
      <4>1. conn[b] # None /\ Close(b)
        BY <1>2, <3>2, EventStreamAssumption DEF Disconnect, HangUp, DeliveryInv, EInv, ETypeOK
      <4> QED BY <1>2, <4>1, CloseDelivers
    <3>3. CASE Receive(b) \/ TabWake(b)
      <4>1. UNCHANGED <<server, conn>>
        BY <3>3 DEF Receive, TabWake
      <4> QED BY <1>2, <4>1, ClientStepDelivers
    <3> QED BY <2>2, <3>1, <3>2, <3>3
  <2>3. ASSUME NEW r \in replays, ReplayAnswer(r) \/ ReplayApply(r)
        PROVE  (ConnsAreOnce /\ HubDelivers)'
    <3>1. UNCHANGED <<server, conn>>
      BY <2>3 DEF ReplayAnswer, ReplayApply
    <3> QED BY <1>2, <3>1, ClientStepDelivers
  <2> QED BY <1>2, <2>1, <2>2, <2>3, ServerStepDelivers, RestartDelivers DEF ENext
<1>3. DeliveryInv /\ EInv' /\ [ENext]_evars => DeliveryInv'
  BY <1>2 DEF DeliveryInv
<1> QED BY <1>1, <1>3, EInvariant, PTL DEF ESpec

\* The places of a connection's frames are the indexes of their messages.
LEMMA PlacesAreIndexes ==
  ASSUME NEW c
  PROVE  /\ \A i \in DOMAIN Frames(c) : \A j \in DOMAIN Frames(c)[i] :
              <<i, j>> \in Places(c) /\ At(c, <<i, j>>) = Frames(c)[i][j]
         /\ \A p \in Places(c) :
              \E i \in DOMAIN Frames(c) : \E j \in DOMAIN Frames(c)[i] : p = <<i, j>>
<1>1. ASSUME NEW i \in DOMAIN Frames(c), NEW j \in DOMAIN Frames(c)[i]
      PROVE  <<i, j>> \in Places(c) /\ At(c, <<i, j>>) = Frames(c)[i][j]
  BY DEF Places, At
<1>2. ASSUME NEW p \in Places(c)
      PROVE  \E i \in DOMAIN Frames(c) : \E j \in DOMAIN Frames(c)[i] : p = <<i, j>>
  BY DEF Places
<1> QED BY <1>1, <1>2

LEMMA HubDeliversAll == ASSUME EInv, HubDelivers PROVE AllOrDropped
<1> SUFFICES ASSUME NEW c \in hub, Open(c)
             PROVE  /\ {At(c, p) : p \in Places(c)} \ {0} = Due(c)
                    /\ \A p, q \in Places(c) :
                         Before(p, q) /\ At(c, p) # 0 /\ At(c, q) # 0 => At(c, p) < At(c, q)
  BY DEF AllOrDropped
<1>1. PICK F \in Seq(Seq(Nat)) : F = Frames(c)
  <2>1. c \in Conns /\ wire[c] \in Seq(Seq(Nat)) /\ queue[c] \in Seq(Nat)
    BY DEF EInv, ETypeOK
  <2>2. Append(wire[c], queue[c]) \in Seq(Seq(Nat))
    BY <2>1, AppendProperties
  <2> QED BY <2>2 DEF Frames
<1>2. Ordered(F) /\ \A s \in Nat \ {0} : Holds(F, s) <=> s \in Due(c)
  BY <1>1 DEF HubDelivers, Delivers
<1>3. /\ \A i \in DOMAIN F : \A j \in DOMAIN F[i] : <<i, j>> \in Places(c) /\ At(c, <<i, j>>) = F[i][j]
      /\ \A p \in Places(c) : \E i \in DOMAIN F : \E j \in DOMAIN F[i] : p = <<i, j>>
  BY <1>1, PlacesAreIndexes
<1>4. \A i \in DOMAIN F : \A j \in DOMAIN F[i] : F[i][j] \in Nat
  <2> SUFFICES ASSUME NEW i \in DOMAIN F, NEW j \in DOMAIN F[i] PROVE F[i][j] \in Nat
    OBVIOUS
  <2>1. F[i] \in Seq(Nat)
    BY LenProperties, ElementOfSeq
  <2> QED BY <2>1, LenProperties, ElementOfSeq
<1>5. Due(c) \subseteq Nat \ {0}
  <2>1. PICK n \in Nat : n = Len(log)
    BY LenProperties DEF EInv, ETypeOK
  <2> QED BY <2>1 DEF Due
<1>6. \A s : s \in {At(c, p) : p \in Places(c)} <=> Holds(F, s)
  <2>1. ASSUME NEW s, NEW p \in Places(c), s = At(c, p) PROVE Holds(F, s)
    <3>1. PICK i \in DOMAIN F : \E j \in DOMAIN F[i] : p = <<i, j>>
      BY <1>3
    <3> QED BY <1>3, <2>1, <3>1 DEF Holds
  <2>2. ASSUME NEW i \in DOMAIN F, NEW j \in DOMAIN F[i]
        PROVE  \E p \in Places(c) : F[i][j] = At(c, p)
    BY <1>3
  <2> QED BY <2>1, <2>2 DEF Holds
<1>7. \A s : Holds(F, s) => s \in Nat
  BY <1>4 DEF Holds
<1>8. {At(c, p) : p \in Places(c)} \ {0} = Due(c)
  BY <1>2, <1>5, <1>6, <1>7
<1>9. ASSUME NEW p \in Places(c), NEW q \in Places(c), Before(p, q), At(c, p) # 0, At(c, q) # 0
      PROVE  At(c, p) < At(c, q)
  <2>1. PICK i \in DOMAIN F : \E j \in DOMAIN F[i] : p = <<i, j>>
    BY <1>3
  <2>2. PICK j \in DOMAIN F[i] : p = <<i, j>>
    BY <2>1
  <2>3. PICK k \in DOMAIN F : \E l \in DOMAIN F[k] : q = <<k, l>>
    BY <1>3
  <2>4. PICK l \in DOMAIN F[k] : q = <<k, l>>
    BY <2>3
  <2>5. i < k \/ (i = k /\ j < l)
    BY <1>9, <2>2, <2>4 DEF Before
  <2>6. At(c, p) = F[i][j] /\ At(c, q) = F[k][l]
    BY <1>3, <2>2, <2>4
  <2> QED BY <1>2, <1>9, <2>5, <2>6 DEF Ordered
<1> QED BY <1>8, <1>9

(* As long as an open connection is registered, the frames written to it   *)
(* and its queue hold every event for it since its registration, once and  *)
(* in order: a client the hub cannot keep up with is dropped, and never    *)
(* left with a gap.                                                        *)
THEOREM HubDeliversOrDrops == ESpec => []AllOrDropped
<1>1. DeliveryInv => AllOrDropped
  BY HubDeliversAll DEF DeliveryInv
<1> QED BY <1>1, DeliveryInvariant, PTL
=============================================================================
