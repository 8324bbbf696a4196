-------------------------- MODULE RequestLoggerProofs --------------------------
(***************************************************************************)
(* Proofs about RequestLogger, for any sizes of queue, batch, transaction   *)
(* and connection pool, and any rows that the database rejects: types and   *)
(* bounds, the order of the requests, the refinement of RequestLog, and     *)
(* that a stop commits everything when nothing fails.                       *)
(***************************************************************************)
EXTENDS RequestLogger, SequenceTheorems, FiniteSetTheorems, TLAPS

-----------------------------------------------------------------------------
(* Sequences of requests *)

Before(A, B) == \A a \in A, b \in B : a < b

LEMMA EmptyRows == InSeq(<<>>) = {} /\ Increasing(<<>>) /\ \A S : <<>> \in Seq(S)
BY DEF InSeq, Increasing

LEMMA RowsOf == ASSUME NEW S, NEW q \in Seq(S) PROVE InSeq(q) \subseteq S
BY ElementOfSeq DEF InSeq

LEMMA MoreRows ==
  ASSUME NEW n \in Nat, NEW q \in Seq(1..n) PROVE q \in Seq(1..(n + 1))
<1>1. 1..n \subseteq 1..(n + 1)
  OBVIOUS
<1>. QED BY <1>1, SeqMonotonic

LEMMA AppendRow ==
  ASSUME NEW S, NEW q \in Seq(S), NEW x \in S
  PROVE  /\ Append(q, x) \in Seq(S) /\ Len(Append(q, x)) = Len(q) + 1
         /\ InSeq(Append(q, x)) = InSeq(q) \cup {x}
         /\ Increasing(q) /\ Before(InSeq(q), {x}) => Increasing(Append(q, x))
<1>1. /\ Append(q, x) \in Seq(S) /\ Len(Append(q, x)) = Len(q) + 1
      /\ Len(q) \in Nat /\ DOMAIN q = 1..Len(q)
      /\ DOMAIN Append(q, x) = 1..Len(q) + 1
      /\ Append(q, x)[Len(q) + 1] = x
      /\ \A i \in 1..Len(q) : Append(q, x)[i] = q[i]
  OBVIOUS
<1>2. InSeq(Append(q, x)) = InSeq(q) \cup {x}
  BY <1>1 DEF InSeq
<1>3. ASSUME Increasing(q), Before(InSeq(q), {x}) PROVE Increasing(Append(q, x))
  BY <1>1, <1>3 DEF Increasing, Before, InSeq
<1>. QED BY <1>1, <1>2, <1>3

LEMMA ConcatRows ==
  ASSUME NEW S, NEW p \in Seq(S), NEW q \in Seq(S)
  PROVE  /\ p \o q \in Seq(S) /\ Len(p \o q) = Len(p) + Len(q)
         /\ InSeq(p \o q) = InSeq(p) \cup InSeq(q)
         /\ Increasing(p) /\ Increasing(q) /\ Before(InSeq(p), InSeq(q))
              => Increasing(p \o q)
<1>1. /\ p \o q \in Seq(S) /\ Len(p \o q) = Len(p) + Len(q)
      /\ Len(p) \in Nat /\ DOMAIN p = 1..Len(p)
      /\ Len(q) \in Nat /\ DOMAIN q = 1..Len(q)
      /\ DOMAIN (p \o q) = 1..Len(p) + Len(q)
      /\ \A i \in 1..Len(p) : (p \o q)[i] = p[i]
      /\ \A i \in 1..Len(q) : (p \o q)[Len(p) + i] = q[i]
  BY ConcatProperties
<1>2. \A i \in DOMAIN (p \o q) :
         i \in DOMAIN p \/ \E k \in DOMAIN q : i = Len(p) + k
  <2>1. ASSUME NEW i \in DOMAIN (p \o q), i \notin DOMAIN p
        PROVE  \E k \in DOMAIN q : i = Len(p) + k
    <3>1. i - Len(p) \in DOMAIN q /\ i = Len(p) + (i - Len(p))
      BY <1>1, <2>1
    <3>. QED BY <3>1
  <2>. QED BY <2>1
<1>3. InSeq(p \o q) = InSeq(p) \cup InSeq(q)
  <2>1. \A i \in DOMAIN p : i \in DOMAIN (p \o q) /\ (p \o q)[i] = p[i]
    BY <1>1
  <2>2. \A k \in DOMAIN q :
           Len(p) + k \in DOMAIN (p \o q) /\ (p \o q)[Len(p) + k] = q[k]
    BY <1>1
  <2>3. InSeq(p) \cup InSeq(q) \subseteq InSeq(p \o q)
    BY <2>1, <2>2 DEF InSeq
  <2>4. ASSUME NEW i \in DOMAIN (p \o q) PROVE (p \o q)[i] \in InSeq(p) \cup InSeq(q)
    BY <1>2, <2>1, <2>2 DEF InSeq
  <2>. QED BY <2>3, <2>4 DEF InSeq
<1>4. ASSUME Increasing(p), Increasing(q), Before(InSeq(p), InSeq(q)),
             NEW i \in DOMAIN (p \o q), NEW j \in DOMAIN (p \o q), i < j
      PROVE  (p \o q)[i] < (p \o q)[j]
  <2>1. CASE i \in DOMAIN p /\ j \in DOMAIN p
    BY <1>1, <1>4, <2>1 DEF Increasing
  <2>2. CASE i \in DOMAIN p /\ j \notin DOMAIN p
    BY <1>1, <1>2, <1>4, <2>2 DEF Before, InSeq
  <2>3. CASE i \notin DOMAIN p
    <3>1. PICK k \in DOMAIN q : i = Len(p) + k
      BY <1>2, <2>3
    <3>2. j \notin DOMAIN p
      BY <1>1, <1>4, <3>1
    <3>3. PICK l \in DOMAIN q : j = Len(p) + l
      BY <1>2, <3>2
    <3>4. k < l
      BY <1>1, <1>4, <3>1, <3>3
    <3>. QED BY <1>1, <1>4, <3>1, <3>3, <3>4 DEF Increasing
  <2>. QED BY <2>1, <2>2, <2>3
<1>. QED BY <1>1, <1>3, <1>4 DEF Increasing

LEMMA SplitAt ==
  ASSUME NEW S, NEW q \in Seq(S), NEW n \in 0..Len(q)
  PROVE  LET p == SubSeq(q, 1, n)
             r == SubSeq(q, n + 1, Len(q))
         IN  /\ p \in Seq(S) /\ Len(p) = n
             /\ r \in Seq(S) /\ Len(r) = Len(q) - n
             /\ InSeq(p) \cup InSeq(r) = InSeq(q)
             /\ Increasing(q) =>
                  Increasing(p) /\ Increasing(r) /\ Before(InSeq(p), InSeq(r))
<1>. DEFINE p == SubSeq(q, 1, n)
            r == SubSeq(q, n + 1, Len(q))
<1>0. Len(q) \in Nat /\ DOMAIN q = 1..Len(q) /\ n \in Nat
  OBVIOUS
<1>1. /\ p \in Seq(S) /\ Len(p) = n /\ DOMAIN p = 1..n
      /\ \A i \in 1..n : p[i] = q[i]
  <2>1. \A i \in 1..n : q[i] \in S
    BY <1>0, ElementOfSeq
  <2>2. p \in Seq(S) /\ Len(p) = n /\ \A i \in 1..n : p[i] = q[i]
    BY <1>0, <2>1, SubSeqProperties
  <2>. QED BY <2>2
<1>2. /\ r \in Seq(S) /\ Len(r) = Len(q) - n /\ DOMAIN r = 1..(Len(q) - n)
      /\ \A i \in 1..(Len(q) - n) : r[i] = q[n + i]
  <2>1. \A i \in (n + 1)..Len(q) : q[i] \in S
    BY <1>0, ElementOfSeq
  <2>2. n + 1 \in Int /\ Len(q) \in Int
    BY <1>0
  <2>3. /\ r \in Seq(S)
        /\ Len(r) = IF n + 1 <= Len(q) THEN Len(q) - (n + 1) + 1 ELSE 0
        /\ \A i \in 1..(Len(q) - (n + 1) + 1) : r[i] = q[(n + 1) + i - 1]
    BY <2>1, <2>2, SubSeqProperties
  <2>4. Len(r) = Len(q) - n
    BY <1>0, <2>3
  <2>5. DOMAIN r = 1..(Len(q) - n)
    BY <2>3, <2>4
  <2>6. ASSUME NEW i \in 1..(Len(q) - n) PROVE r[i] = q[n + i]
    <3>1. i \in 1..(Len(q) - (n + 1) + 1) /\ (n + 1) + i - 1 = n + i
      BY <1>0
    <3>. QED BY <2>3, <3>1
  <2>. QED BY <2>3, <2>4, <2>5, <2>6
<1>. HIDE DEF p, r
<1>3. InSeq(p) \cup InSeq(r) = InSeq(q)
  <2>1. ASSUME NEW i \in DOMAIN q PROVE q[i] \in InSeq(p) \cup InSeq(r)
    <3>1. CASE i <= n
      BY <1>0, <1>1, <3>1 DEF InSeq
    <3>2. CASE i > n
      <4>1. i - n \in DOMAIN r /\ r[i - n] = q[i]
        BY <1>0, <1>2, <3>2
      <4>. QED BY <4>1 DEF InSeq
    <3>. QED BY <1>0, <3>1, <3>2
  <2>2. InSeq(p) \subseteq InSeq(q)
    BY <1>0, <1>1 DEF InSeq
  <2>3. InSeq(r) \subseteq InSeq(q)
    <3>1. ASSUME NEW i \in DOMAIN r PROVE r[i] \in InSeq(q)
      <4>1. n + i \in DOMAIN q /\ r[i] = q[n + i]
        BY <1>0, <1>2
      <4>. QED BY <4>1 DEF InSeq
    <3>. QED BY <3>1 DEF InSeq
  <2>. QED BY <2>1, <2>2, <2>3 DEF InSeq
<1>4. ASSUME Increasing(q)
      PROVE  Increasing(p) /\ Increasing(r) /\ Before(InSeq(p), InSeq(r))
  <2>1. Increasing(p)
    BY <1>0, <1>1, <1>4 DEF Increasing
  <2>2. ASSUME NEW i \in DOMAIN r, NEW j \in DOMAIN r, i < j PROVE r[i] < r[j]
    <3>1. n + i \in DOMAIN q /\ n + j \in DOMAIN q /\ n + i < n + j
      BY <1>0, <1>2, <2>2
    <3>. QED BY <1>2, <1>4, <3>1 DEF Increasing
  <2>3. ASSUME NEW i \in DOMAIN p, NEW j \in DOMAIN r PROVE p[i] < r[j]
    <3>1. i \in DOMAIN q /\ n + j \in DOMAIN q /\ i < n + j
      BY <1>0, <1>1, <1>2
    <3>. QED BY <1>1, <1>2, <1>4, <3>1 DEF Increasing
  <2>4. Increasing(r)
    BY <2>2 DEF Increasing
  <2>5. Before(InSeq(p), InSeq(r))
    BY <2>3 DEF Before, InSeq
  <2>. QED BY <2>1, <2>4, <2>5
<1>. QED BY <1>1, <1>2, <1>3, <1>4 DEF p, r

\* A buffer is split into the batch that is sent and the rest.
LEMMA SplitRows ==
  ASSUME NEW S, NEW q \in Seq(S)
  PROVE  /\ Batch(q) \in Seq(S) /\ Rest(q) \in Seq(S)
         /\ Len(Batch(q)) + Len(Rest(q)) = Len(q)
         /\ Len(Batch(q)) <= maxRequestsInBatch
         /\ InSeq(Batch(q)) \cup InSeq(Rest(q)) = InSeq(q)
         /\ Increasing(q) => /\ Increasing(Batch(q)) /\ Increasing(Rest(q))
                             /\ Before(InSeq(Batch(q)), InSeq(Rest(q)))
         /\ Batch(q) = <<>> <=> q = <<>>
<1>. DEFINE n == BatchSize(q)
            p == SubSeq(q, 1, n)
            r == SubSeq(q, n + 1, Len(q))
<1>1. /\ Len(q) \in Nat /\ n \in 0..Len(q) /\ n <= maxRequestsInBatch
      /\ n = 0 <=> Len(q) = 0
  BY SizesAssumption DEF BatchSize
<1>2. Batch(q) = p /\ Rest(q) = r
  BY DEF Batch, Rest
<1>. HIDE DEF n
<1>4. /\ p \in Seq(S) /\ Len(p) = n
      /\ r \in Seq(S) /\ Len(r) = Len(q) - n
      /\ InSeq(p) \cup InSeq(r) = InSeq(q)
      /\ Increasing(q) => Increasing(p) /\ Increasing(r) /\ Before(InSeq(p), InSeq(r))
  BY <1>1, SplitAt
<1>. HIDE DEF p, r
<1>5. p = <<>> <=> q = <<>>
  <2>1. p = <<>> <=> Len(p) = 0
    BY <1>4, EmptySeq
  <2>2. q = <<>> <=> Len(q) = 0
    BY EmptySeq
  <2>. QED BY <1>1, <1>4, <2>1, <2>2
<1>6. Len(p) + Len(r) = Len(q)
  BY <1>1, <1>4
<1>. QED BY <1>1, <1>2, <1>4, <1>5, <1>6

-----------------------------------------------------------------------------
(* Types, in parts *)

LEMMA Sizes ==
  /\ MaxRequests \in Nat
  /\ NumConnections \in Nat /\ NumConnections > 0
  /\ maxQueueLength \in Nat /\ maxQueueLength > 0
  /\ maxRequestsInBatch \in Nat /\ maxRequestsInBatch > 0
  /\ maxBatchesInTransaction \in Nat /\ maxBatchesInTransaction > 0
BY SizesAssumption

Booleans ==
  /\ stopRequested \in BOOLEAN /\ firstRequest \in BOOLEAN /\ shouldStop \in BOOLEAN
  /\ reachable \in BOOLEAN /\ disturbed \in BOOLEAN

ContainerTypes ==
  /\ Len(requests) <= maxQueueLength /\ Len(getRequestsBuffer) <= maxQueueLength
  /\ requests \in Seq(Submitted) /\ getRequestsBuffer \in Seq(Submitted)
  /\ numLogRequests \in 0..MaxRequests /\ numDropped \in 0..MaxRequests
  /\ dropped \subseteq Submitted

ThreadTypes ==
  /\ pc \in ThreadStates
  /\ currentConnectionNum \in Connections
  /\ needsCommit \in [Connections -> BOOLEAN]
  /\ copyData \in Seq(Submitted)
  /\ batchNum \in 0..maxBatchesInTransaction
  /\ drained \subseteq Connections

ServerTypes ==
  /\ session \in [Connections -> SessionStates]
  /\ tx \in [Connections -> Seq(Submitted)]
  /\ cut \subseteq Connections
  /\ orphans \subseteq Seq(Submitted)
  /\ committed \in Seq(Submitted)
  /\ lost \subseteq Submitted

LEMMA Types == TypeOK <=> Booleans /\ ContainerTypes /\ ThreadTypes /\ ServerTypes
BY Zenon DEF TypeOK, Booleans, ContainerTypes, ThreadTypes, ServerTypes

LEMMA TypesPrime == TypeOK' <=> Booleans' /\ ContainerTypes' /\ ThreadTypes' /\ ServerTypes'
BY Zenon DEF TypeOK, Booleans, ContainerTypes, ThreadTypes, ServerTypes

LEMMA BooleansInit == Init => Booleans
BY Zenon DEF Init, Booleans

LEMMA BooleansStep == ASSUME Booleans, [Next]_vars PROVE Booleans'
<1>1. CASE LoggerThread
  <2>1. CASE GetBuffered
    BY <2>1, Zenon DEF GetBuffered, Deliver, StopAfter, Booleans, server
  <2>2. CASE MoveRequests
    BY <2>2, Zenon DEF MoveRequests, Deliver, StopAfter, Booleans, server
  <2>3. CASE Connect \/ ConnectFails \/ UseConnection \/ StartCopy
    BY <2>3, Zenon
    DEF Connect, ConnectFails, UseConnection, StartCopy, Booleans, container, thread, server
  <2>4. CASE WaitForRequest \/ SleepForMore \/ SendBatch \/ EndCopy \/ AwaitCommit
    BY <2>4, Zenon
    DEF WaitForRequest, SleepForMore, SendBatch, EndCopy, AwaitCommit, Booleans, container,
        thread, server
  <2>5. CASE DbFailure \/ Finish \/ StopAfterFailure \/ Reconnect
    BY <2>5, Zenon
    DEF DbFailure, Finish, StopAfterFailure, Reconnect, ClosePool, Booleans, container,
        thread, server
  <2>. QED BY <1>1, <2>1, <2>2, <2>3, <2>4, <2>5 DEF LoggerThread
<1>2. CASE Database
  BY <1>2, Zenon DEF Database, ServerEnds, OrphanEnds, Booleans, container, thread
<1>3. CASE PutRequest \/ RequestStop \/ SpuriousWakeup \/ Outage \/ OutageEnds
  BY <1>3, Zenon
  DEF PutRequest, RequestStop, SpuriousWakeup, Outage, OutageEnds, Booleans, container,
      thread, server
<1>4. CASE UNCHANGED vars
  BY <1>4, Zenon DEF vars, Booleans, container, thread, server
<1>. QED BY <1>1, <1>2, <1>3, <1>4 DEF Next

-----------------------------------------------------------------------------
(* Where the logger thread is, and what it has in hand *)

Copying      == {"getRequests", "waiting", "woken", "sleeping", "sendBatch", "endCopy"}
Disconnected == {"connecting", "dbFailure", "finished"}

\* One connection at a time is in COPY, and only transactions under way hold rows.
Sessions ==
  /\ pc \in Disconnected => \A c \in Connections : session[c] = "none"
  /\ pc \in Copying => session[currentConnectionNum] = "copying"
  /\ pc = "startCopy" => session[currentConnectionNum] \in {"idle", "ok"}
  /\ \A c \in Connections :
       /\ session[c] = "copying" => pc \in Copying /\ c = currentConnectionNum
       /\ session[c] \notin {"copying", "ended"} => tx[c] = <<>>
       /\ ~needsCommit[c] /\ pc \notin Disconnected =>
            session[c] = "idle" \/ (pc \in Copying /\ c = currentConnectionNum)

\* The shared queue is moved only into an empty buffer, and each request is counted.
Buffers ==
  /\ copyData # <<>> => pc = "sendBatch"
  /\ pc \in {"waiting", "woken", "sleeping"} => getRequestsBuffer = <<>>
  /\ pc \in Copying \ {"endCopy"} => batchNum < maxBatchesInTransaction
  /\ pc = "sleeping" => requests # <<>>
  /\ numDropped + Len(requests) + Len(getRequestsBuffer) + Len(copyData) <= numLogRequests
  /\ NoLostWakeup

\* The thread ends with nothing left, after a stop.
Stops ==
  /\ shouldStop \/ pc = "finished" =>
       stopRequested /\ requests = <<>> /\ getRequestsBuffer = <<>>
  /\ pc = "awaitCommits" => shouldStop
  /\ drained # {} => pc \in {"awaitCommits", "finished"}
  /\ pc = "awaitCommits" => \A c \in drained : needsCommit[c] => session[c] = "ok"

CInv == TypeOK /\ Sessions /\ Buffers /\ Stops

LEMMA CInvInit == Init => CInv
<1>. SUFFICES ASSUME Init PROVE CInv
  OBVIOUS
<1>. USE Sizes, EmptyRows
<1>1. Booleans
  BY BooleansInit
<1>2. ContainerTypes
  BY DEF Init, ContainerTypes
<1>3. ThreadTypes
  BY DEF Init, ThreadTypes, ThreadStates, Connections
<1>4. ServerTypes
  BY DEF Init, ServerTypes, SessionStates
<1>5. Sessions
  BY DEF Init, Sessions, Copying, Disconnected
<1>6. Buffers
  BY DEF Init, Buffers, NoLostWakeup, Copying
<1>7. Stops
  <2>1. ~shouldStop
    BY DEF Init
  <2>. QED BY <2>1 DEF Init, Stops
<1>. QED BY <1>1, <1>2, <1>3, <1>4, <1>5, <1>6, <1>7, Types DEF CInv

\* Steps that only move the thread.
LEMMA MovesInv ==
  ASSUME CInv,
         ConnectFails \/ UseConnection \/ WaitForRequest \/ SpuriousWakeup \/ SleepForMore
           \/ Reconnect \/ UNCHANGED vars
  PROVE  CInv'
<1>. USE Sizes
<1>1. UNCHANGED <<container, thread, server, dropped>>
  BY DEF ConnectFails, UseConnection, WaitForRequest, SpuriousWakeup, SleepForMore,
         Reconnect, vars
<1>2. Booleans /\ ContainerTypes /\ ThreadTypes /\ ServerTypes
  BY Types DEF CInv
<1>3. \/ pc = "connecting" /\ pc' = "dbFailure"
      \/ pc = "dbFailure" /\ pc' = "connecting"
      \/ /\ pc = "useConnection" /\ pc' = "startCopy"
         /\ needsCommit[currentConnectionNum] => session[currentConnectionNum] = "ok"
      \/ /\ pc = "woken" \/ (pc = "getRequests" /\ getRequestsBuffer = <<>>)
         /\ \/ pc' = "waiting" /\ requests = <<>> /\ ~stopRequested
            \/ pc' = "sleeping" /\ requests # <<>>
      \/ pc = "waiting" /\ pc' = "woken"
      \/ pc' = pc
  <2>1. CASE ConnectFails \/ UseConnection \/ SpuriousWakeup \/ Reconnect \/ UNCHANGED vars
    BY <2>1 DEF ConnectFails, UseConnection, SpuriousWakeup, Reconnect, vars, Goto
  <2>2. WaitForRequest \/ SleepForMore =>
           pc = "woken" \/ (pc = "getRequests" /\ getRequestsBuffer = <<>>)
    BY DEF WaitForRequest, SleepForMore, InMutex
  <2>3. WaitForRequest => pc' = "waiting" /\ requests = <<>> /\ ~stopRequested
    BY DEF WaitForRequest, MustWait
  <2>4. SleepForMore => pc' = "sleeping" /\ requests # <<>>
    BY DEF SleepForMore, MustWait, FewRequests
  <2>5. CASE WaitForRequest
    BY <2>2, <2>3, <2>5, Zenon
  <2>6. CASE SleepForMore
    BY <2>2, <2>4, <2>6, Zenon
  <2>. QED BY <2>1, <2>5, <2>6, Zenon
<1>4. Booleans'
  BY <1>2, BooleansStep DEF Next, LoggerThread
<1>5. ContainerTypes' /\ ThreadTypes' /\ ServerTypes'
  <2>1. pc' \in ThreadStates
    BY <1>2, <1>3 DEF ThreadTypes, ThreadStates
  <2>. QED
    BY <1>1, <1>2, <2>1
    DEF ContainerTypes, ThreadTypes, ServerTypes, container, thread, server, Submitted
<1>6. Sessions'
  <2>1. UNCHANGED <<session, tx, needsCommit, currentConnectionNum>>
    BY <1>1 DEF thread, server
  <2>2. currentConnectionNum \in Connections
    BY <1>2 DEF ThreadTypes
  <2>. QED BY <1>3, <2>1, <2>2 DEF CInv, Sessions, Copying, Disconnected
<1>7. Buffers'
  <2>1. UNCHANGED <<copyData, requests, getRequestsBuffer, batchNum, stopRequested, numDropped,
                    numLogRequests>>
    BY <1>1 DEF container, thread
  <2>. QED BY <1>3, <2>1 DEF CInv, Buffers, Copying, NoLostWakeup
<1>8. Stops'
  <2>1. UNCHANGED <<requests, getRequestsBuffer, stopRequested, shouldStop, drained, session,
                    needsCommit>>
    BY <1>1 DEF container, thread, server
  <2>2. /\ pc' = "finished" <=> pc = "finished"
        /\ pc' = "awaitCommits" <=> pc = "awaitCommits"
    BY <1>3
  <2>3. (shouldStop \/ pc = "finished" =>
           stopRequested /\ requests = <<>> /\ getRequestsBuffer = <<>>)'
    BY <2>1, <2>2 DEF CInv, Stops
  <2>4. (pc = "awaitCommits" => shouldStop)'
    BY <2>1, <2>2 DEF CInv, Stops
  <2>5. (drained # {} => pc \in {"awaitCommits", "finished"})'
    BY <2>1, <2>2 DEF CInv, Stops
  <2>6. (pc = "awaitCommits" => \A c \in drained : needsCommit[c] => session[c] = "ok")'
    BY <2>1, <2>2 DEF CInv, Stops
  <2>. QED BY <2>3, <2>4, <2>5, <2>6, Zenon DEF Stops
<1>. QED BY <1>4, <1>5, <1>6, <1>7, <1>8, TypesPrime DEF CInv

\* Steps of other threads, and of the network.
LEMMA OthersInv ==
  ASSUME CInv, PutRequest \/ RequestStop \/ Outage \/ OutageEnds
  PROVE  CInv'
<1>. USE Sizes
<1>1. Booleans /\ ContainerTypes /\ ThreadTypes /\ ServerTypes
  BY Types DEF CInv
<1>2. /\ UNCHANGED <<getRequestsBuffer, currentConnectionNum, needsCommit, copyData, batchNum,
                    drained, session, tx, orphans, committed, lost>>
      /\ UNCHANGED shouldStop
      /\ cut' \subseteq Connections
      /\ pc' = pc \/ (pc = "waiting" /\ pc' = "woken")
  <2>1. CASE PutRequest
    BY <1>1, <2>1
    DEF PutRequest, thread, server, NotifyIfWasEmpty, Notify, ThreadTypes, ServerTypes
  <2>2. CASE RequestStop
    BY <1>1, <2>2 DEF RequestStop, thread, server, Notify, ServerTypes
  <2>3. CASE Outage \/ OutageEnds
    BY <1>1, <2>3 DEF Outage, OutageEnds, container, thread, ServerTypes
  <2>. QED BY <2>1, <2>2, <2>3
<1>3. Booleans'
  BY <1>1, BooleansStep DEF Next
<1>4. \/ UNCHANGED <<requests, numLogRequests, numDropped, dropped>>
      \/ /\ numLogRequests < MaxRequests /\ numLogRequests' = numLogRequests + 1
         /\ \/ /\ numDropped' = numDropped + 1 /\ UNCHANGED requests
               /\ dropped' = dropped \cup {numLogRequests + 1}
            \/ /\ UNCHANGED <<numDropped, dropped>>
               /\ Len(requests) # maxQueueLength
               /\ requests' = Append(requests, numLogRequests + 1)
  <2>1. CASE PutRequest
    BY <1>1, <2>1 DEF PutRequest, QueueFull, Enqueue, ContainerTypes
  <2>2. CASE RequestStop \/ Outage \/ OutageEnds
    BY <2>2 DEF RequestStop, Outage, OutageEnds, container
  <2>. QED BY <2>1, <2>2
<1>5. /\ numLogRequests \in Nat /\ numLogRequests' \in 0..MaxRequests
      /\ \/ numLogRequests' = numLogRequests
         \/ numLogRequests' = numLogRequests + 1 /\ numLogRequests + 1 \in Submitted'
      /\ Submitted \subseteq Submitted' /\ Seq(Submitted) \subseteq Seq(Submitted')
  <2>1. numLogRequests \in Nat /\ numLogRequests' \in 0..MaxRequests
    BY <1>1, <1>4 DEF ContainerTypes
  <2>2. Submitted \subseteq Submitted'
    BY <1>4, <2>1 DEF Submitted
  <2>. QED BY <1>4, <2>1, <2>2, SeqMonotonic DEF Submitted
<1>6. /\ requests \in Seq(Submitted) /\ Len(requests) \in Nat
      /\ getRequestsBuffer \in Seq(Submitted) /\ Len(getRequestsBuffer) \in Nat
      /\ copyData \in Seq(Submitted) /\ Len(copyData) \in Nat
  BY <1>1 DEF ContainerTypes, ThreadTypes
<1>7. /\ requests' \in Seq(Submitted') /\ Len(requests') <= maxQueueLength
      /\ \/ requests' = requests /\ Len(requests') = Len(requests)
         \/ requests' # <<>> /\ Len(requests') = Len(requests) + 1
  <2>1. CASE requests' = requests
    BY <1>1, <1>5, <1>6, <2>1 DEF ContainerTypes
  <2>2. CASE /\ requests' = Append(requests, numLogRequests + 1)
             /\ numLogRequests' = numLogRequests + 1 /\ Len(requests) # maxQueueLength
    <3>. DEFINE S == Submitted'
                x == numLogRequests + 1
    <3>1. requests \in Seq(S) /\ x \in S
      BY <1>5, <1>6, <2>2 DEF Submitted
    <3>. HIDE DEF S, x
    <3>2. Append(requests, x) \in Seq(S) /\ Len(Append(requests, x)) = Len(requests) + 1
      BY <3>1, AppendRow
    <3>3. Len(requests) + 1 <= maxQueueLength /\ Len(requests) + 1 # 0
      BY <1>1, <1>6, <2>2 DEF ContainerTypes
    <3>. QED BY <2>2, <3>2, <3>3, EmptySeq DEF S, x
  <2>. QED BY <1>4, <2>1, <2>2
<1>8. ContainerTypes'
  <2>1. numDropped' \in 0..MaxRequests
    BY <1>1, <1>4, <1>5, <1>6 DEF ContainerTypes, CInv, Buffers
  <2>2. dropped' \subseteq Submitted'
    BY <1>1, <1>4, <1>5 DEF ContainerTypes
  <2>. QED BY <1>1, <1>2, <1>5, <1>7, <2>1, <2>2 DEF ContainerTypes
<1>9. ThreadTypes'
  BY <1>1, <1>2, <1>5 DEF ThreadTypes, ThreadStates
<1>10. ServerTypes'
  BY <1>1, <1>2, <1>5 DEF ServerTypes
<1>11. Sessions'
  BY <1>1, <1>2 DEF CInv, Sessions, Copying, Disconnected, ThreadTypes
<1>12. Buffers'
  <2>1. NoLostWakeup'
    <3>1. CASE PutRequest
      <4>1. requests = <<>> /\ requests' # <<>> => pc' # "waiting"
        BY <3>1 DEF PutRequest, NotifyIfWasEmpty, Notify
      <4>2. stopRequested' = stopRequested
        BY <3>1 DEF PutRequest
      <4>. QED BY <1>2, <4>1, <4>2 DEF CInv, Buffers, NoLostWakeup
    <3>2. CASE RequestStop
      BY <3>2 DEF RequestStop, Notify, NoLostWakeup
    <3>3. CASE Outage \/ OutageEnds
      <4>1. stopRequested' = stopRequested /\ requests' = requests /\ pc' = pc
        BY <3>3 DEF Outage, OutageEnds, container
      <4>. QED BY <4>1 DEF CInv, Buffers, NoLostWakeup
    <3>. QED BY <3>1, <3>2, <3>3
  <2>2. numDropped' + Len(requests') + Len(getRequestsBuffer') + Len(copyData') <= numLogRequests'
    BY <1>1, <1>2, <1>4, <1>5, <1>6, <1>7, AppendRow DEF CInv, Buffers, ContainerTypes
  <2>3. /\ (copyData # <<>> => pc = "sendBatch")'
        /\ (pc \in {"waiting", "woken", "sleeping"} => getRequestsBuffer = <<>>)'
        /\ (pc \in Copying \ {"endCopy"} => batchNum < maxBatchesInTransaction)'
        /\ (pc = "sleeping" => requests # <<>>)'
    BY <1>2, <1>7 DEF CInv, Buffers, Copying
  <2>. QED BY <2>1, <2>2, <2>3 DEF Buffers
<1>13. Stops'
  <2>1. /\ pc' = "finished" <=> pc = "finished"
        /\ pc' = "awaitCommits" <=> pc = "awaitCommits"
    BY <1>2
  <2>2. shouldStop \/ pc = "finished" => stopRequested' /\ requests' = requests
    <3>1. shouldStop \/ pc = "finished" => stopRequested
      BY DEF CInv, Stops
    <3>2. stopRequested => stopRequested' /\ requests' = requests
      BY DEF PutRequest, RequestStop, Outage, OutageEnds, container
    <3>. QED BY <3>1, <3>2
  <2>3. (shouldStop \/ pc = "finished" =>
           stopRequested /\ requests = <<>> /\ getRequestsBuffer = <<>>)'
    BY <1>2, <2>1, <2>2 DEF CInv, Stops
  <2>4. (pc = "awaitCommits" => shouldStop)'
    BY <1>2, <2>1 DEF CInv, Stops
  <2>5. (drained # {} => pc \in {"awaitCommits", "finished"})'
    BY <1>2, <2>1 DEF CInv, Stops
  <2>6. (pc = "awaitCommits" => \A c \in drained : needsCommit[c] => session[c] = "ok")'
    BY <1>2, <2>1 DEF CInv, Stops
  <2>. QED BY <2>3, <2>4, <2>5, <2>6, Zenon DEF Stops
<1>. QED BY <1>3, <1>8, <1>9, <1>10, <1>11, <1>12, <1>13, TypesPrime DEF CInv

\* A connection changes its state; the requests stay where they are in the backend.
LEMMA ConnectionsInv ==
  ASSUME CInv, Connect \/ StartCopy \/ EndCopy \/ AwaitCommit
  PROVE  CInv'
<1>. USE Sizes
<1>1. Booleans /\ ContainerTypes /\ ThreadTypes /\ ServerTypes
  BY Types DEF CInv
<1>. DEFINE c == currentConnectionNum
<1>2. c \in Connections
  BY <1>1 DEF ThreadTypes
<1>3. /\ UNCHANGED <<requests, getRequestsBuffer, numLogRequests, numDropped, dropped, copyData,
                     orphans, committed, lost>>
      /\ UNCHANGED stopRequested
      /\ UNCHANGED shouldStop
  BY DEF Connect, StartCopy, EndCopy, AwaitCommit, container, server
<1>4. Booleans'
  BY <1>1, BooleansStep DEF Next, LoggerThread
<1>5. ContainerTypes'
  BY <1>1, <1>3 DEF ContainerTypes, Submitted
<1>6. \/ /\ pc = "connecting" /\ pc' = "useConnection"
         /\ session' = [d \in Connections |-> "idle"]
         /\ tx' = [d \in Connections |-> <<>>]
         /\ needsCommit' = [d \in Connections |-> FALSE]
         /\ cut' = {} /\ currentConnectionNum' = 0
         /\ UNCHANGED <<batchNum, drained>>
      \/ /\ pc = "startCopy" /\ pc' = "getRequests"
         /\ session' = [session EXCEPT ![c] = "copying"]
         /\ batchNum' = 0
         /\ UNCHANGED <<tx, needsCommit, cut, currentConnectionNum, drained>>
      \/ /\ pc = "endCopy" /\ pc' = IF shouldStop THEN "awaitCommits" ELSE "useConnection"
         /\ session' = [session EXCEPT ![c] = "ended"]
         /\ needsCommit' = [needsCommit EXCEPT ![c] = TRUE]
         /\ currentConnectionNum' = (c + 1) % NumConnections
         /\ UNCHANGED <<tx, cut, batchNum, drained>>
      \/ /\ pc = "awaitCommits" /\ UNCHANGED pc
         /\ NextToDrain \in Connections
         /\ needsCommit[NextToDrain] => session[NextToDrain] = "ok"
         /\ drained' = drained \cup {NextToDrain}
         /\ UNCHANGED <<session, tx, needsCommit, cut, currentConnectionNum, batchNum>>
  BY DEF Connect, StartCopy, EndCopy, AwaitCommit, Goto, server
<1>. HIDE DEF c
<1>7. c = currentConnectionNum
  BY DEF c
<1>8. ThreadTypes'
  <2>1. pc' \in ThreadStates
    BY <1>1, <1>6 DEF ThreadTypes, ThreadStates
  <2>2. 0 \in Connections /\ (c + 1) % NumConnections \in Connections
    BY <1>2 DEF Connections
  <2>3. currentConnectionNum' \in Connections
    BY <1>1, <1>6, <2>2 DEF ThreadTypes
  <2>4. needsCommit' \in [Connections -> BOOLEAN]
    BY <1>1, <1>6 DEF ThreadTypes
  <2>5. batchNum' \in 0..maxBatchesInTransaction
    BY <1>1, <1>6 DEF ThreadTypes
  <2>6. drained' \subseteq Connections
    BY <1>1, <1>6 DEF ThreadTypes
  <2>7. copyData' \in Seq(Submitted')
    BY <1>1, <1>3 DEF ThreadTypes, Submitted
  <2>. QED BY <2>1, <2>3, <2>4, <2>5, <2>6, <2>7 DEF ThreadTypes
<1>9. ServerTypes'
  <2>1. session' \in [Connections -> SessionStates] /\ cut' \subseteq Connections
    BY <1>1, <1>6 DEF ServerTypes, SessionStates
  <2>2. Submitted' = Submitted
    BY <1>3 DEF Submitted
  <2>3. tx' \in [Connections -> Seq(Submitted)]
    BY <1>1, <1>6, EmptyRows DEF ServerTypes
  <2>. QED BY <1>1, <1>3, <2>1, <2>2, <2>3 DEF ServerTypes
<1>10. Sessions'
  <2>. USE <1>1, <1>2, <1>3, <1>7 DEF CInv, ThreadTypes, ServerTypes
  <2>1. CASE pc = "connecting"
    BY <1>6, <1>8, <2>1 DEF Sessions, Copying, Disconnected
  <2>2. CASE pc = "startCopy"
    BY <1>6, <2>2 DEF Sessions, Copying, Disconnected
  <2>3. CASE pc = "endCopy"
    BY <1>6, <2>3 DEF Sessions, Copying, Disconnected
  <2>4. CASE pc = "awaitCommits"
    BY <1>6, <2>4 DEF Sessions, Copying, Disconnected
  <2>. QED BY <1>6, <2>1, <2>2, <2>3, <2>4
<1>11. Buffers'
  BY <1>3, <1>6 DEF CInv, Buffers, Copying, NoLostWakeup
<1>12. Stops'
  <2>1. (shouldStop \/ pc = "finished" =>
           stopRequested /\ requests = <<>> /\ getRequestsBuffer = <<>>)'
    BY <1>3, <1>6 DEF CInv, Stops
  <2>2. (pc = "awaitCommits" => shouldStop)'
    BY <1>3, <1>6 DEF CInv, Stops
  <2>3. (drained # {} => pc \in {"awaitCommits", "finished"})'
    BY <1>6 DEF CInv, Stops
  <2>4. (pc = "awaitCommits" => \A d \in drained : needsCommit[d] => session[d] = "ok")'
    BY <1>6 DEF CInv, Stops
  <2>. QED BY <2>1, <2>2, <2>3, <2>4, Zenon DEF Stops
<1>. QED BY <1>4, <1>5, <1>8, <1>9, <1>10, <1>11, <1>12, TypesPrime DEF CInv

\* The server ends a transaction, on a connection or after it.
LEMMA DatabaseInv == ASSUME CInv, Database PROVE CInv'
<1>. USE Sizes
<1>1. Booleans /\ ContainerTypes /\ ThreadTypes /\ ServerTypes
  BY Types DEF CInv
<1>2. UNCHANGED <<container, pc, thread, dropped>>
  BY DEF Database, ServerEnds, OrphanEnds
<1>3. \/ UNCHANGED <<session, tx>>
      \/ \E c \in Connections :
           /\ session[c] = "ended"
           /\ \/ session' = [session EXCEPT ![c] = "ok"]
              \/ session' = [session EXCEPT ![c] = "error"]
           /\ tx' = [tx EXCEPT ![c] = <<>>]
  BY DEF Database, ServerEnds, OrphanEnds
<1>4. Booleans'
  BY <1>1, BooleansStep DEF Next
<1>5. ContainerTypes' /\ ThreadTypes'
  BY <1>1, <1>2 DEF ContainerTypes, ThreadTypes, container, thread, Submitted
<1>6. ServerTypes'
  <2>1. Submitted' = Submitted
    BY <1>2 DEF container, Submitted
  <2>2. session' \in [Connections -> SessionStates] /\ tx' \in [Connections -> Seq(Submitted)]
    BY <1>1, <1>3, EmptyRows DEF ServerTypes, SessionStates
  <2>3. cut' = cut /\ orphans' \subseteq orphans
    BY DEF Database, ServerEnds, OrphanEnds
  <2>4. \E rows \in Seq(Submitted) :
           /\ committed' = committed \/ committed' = committed \o rows
           /\ lost' = lost \/ lost' = lost \cup InSeq(rows)
    <3>1. CASE \E c \in Connections : ServerEnds(c)
      BY <1>1, <3>1 DEF ServerEnds, ServerTypes
    <3>2. CASE \E rows \in orphans : OrphanEnds(rows)
      BY <1>1, <3>2 DEF OrphanEnds, ServerTypes
    <3>. QED BY <3>1, <3>2 DEF Database
  <2>5. committed' \in Seq(Submitted) /\ lost' \subseteq Submitted
    BY <1>1, <2>4, ConcatRows, RowsOf DEF ServerTypes
  <2>. QED BY <1>1, <2>1, <2>2, <2>3, <2>5 DEF ServerTypes
<1>7. Sessions'
  <2>1. UNCHANGED <<pc, needsCommit, currentConnectionNum>>
    BY <1>2 DEF thread
  <2>. QED BY <1>1, <1>3, <2>1
       DEF CInv, Sessions, Copying, Disconnected, ThreadTypes, ServerTypes
<1>8. Buffers'
  BY <1>2 DEF CInv, Buffers, NoLostWakeup, container, thread
<1>9. Stops'
  <2>1. UNCHANGED <<pc, requests, getRequestsBuffer, stopRequested, shouldStop, drained,
                    needsCommit>>
    BY <1>2 DEF container, thread
  <2>2. (pc = "awaitCommits" => \A d \in drained : needsCommit[d] => session[d] = "ok")'
    <3>1. drained \subseteq Connections /\ session \in [Connections -> SessionStates]
      BY <1>1 DEF ThreadTypes, ServerTypes
    <3>2. ASSUME pc = "awaitCommits", NEW d \in drained, needsCommit[d]
          PROVE  session'[d] = "ok"
      <4>1. session[d] = "ok"
        BY <3>2 DEF CInv, Stops
      <4>. QED BY <1>3, <3>1, <4>1
    <3>. QED BY <2>1, <3>2
  <2>3. (shouldStop \/ pc = "finished" =>
           stopRequested /\ requests = <<>> /\ getRequestsBuffer = <<>>)'
    BY <2>1, Zenon DEF CInv, Stops
  <2>. QED BY <2>1, <2>2, <2>3, Zenon DEF CInv, Stops
<1>. QED BY <1>4, <1>5, <1>6, <1>7, <1>8, <1>9, TypesPrime DEF CInv

\* What getRequests() returns and leaves.
LEMMA TakesBatch ==
  ASSUME CInv, GetBuffered \/ MoveRequests
  PROVE  /\ pc \in Copying \ {"endCopy", "sendBatch"} /\ pc' = "sendBatch" /\ copyData = <<>>
         /\ UNCHANGED <<stopRequested, numLogRequests, numDropped, currentConnectionNum,
                        needsCommit, batchNum, drained, server, dropped>>
         /\ \E q \in Seq(Submitted) :
              /\ \/ q = getRequestsBuffer /\ UNCHANGED requests
                 \/ q = requests /\ getRequestsBuffer = <<>> /\ requests' = <<>>
              /\ copyData' = Batch(q) /\ getRequestsBuffer' = Rest(q)
              /\ shouldStop' => q = <<>> /\ stopRequested /\ requests' = <<>>
<1>1. ContainerTypes /\ Buffers /\ ThreadTypes
  BY Types DEF CInv
<1>2. requests \in Seq(Submitted) /\ getRequestsBuffer \in Seq(Submitted)
  BY <1>1 DEF ContainerTypes
<1>3. InMutex => pc \in {"woken", "getRequests"} /\ getRequestsBuffer = <<>>
  BY <1>1 DEF InMutex, Buffers
<1>4. /\ pc \in Copying \ {"endCopy", "sendBatch"} /\ pc' = "sendBatch"
      /\ UNCHANGED <<stopRequested, numLogRequests, numDropped, currentConnectionNum,
                     needsCommit, batchNum, drained, server, dropped>>
  BY <1>3 DEF GetBuffered, MoveRequests, Deliver, Copying
<1>5. copyData = <<>>
  BY <1>1, <1>4 DEF Buffers
<1>6. CASE GetBuffered
  <2>1. /\ copyData' = Batch(getRequestsBuffer) /\ getRequestsBuffer' = Rest(getRequestsBuffer)
        /\ shouldStop' = StopAfter(Batch(getRequestsBuffer)) /\ UNCHANGED requests
        /\ getRequestsBuffer # <<>> \/ (requests = <<>> /\ ~firstRequest)
    BY <1>6 DEF GetBuffered, Deliver
  <2>2. Batch(getRequestsBuffer) = <<>> <=> getRequestsBuffer = <<>>
    BY <1>2, SplitRows
  <2>3. ~shouldStop'
    BY <2>1, <2>2, Zenon DEF StopAfter
  <2>. QED BY <1>2, <1>4, <1>5, <2>1, <2>3
<1>7. CASE MoveRequests
  <2>1. \/ InMutex /\ ~MustWait
        \/ pc = "sleeping"
    BY <1>7 DEF MoveRequests
  <2>2. /\ getRequestsBuffer = <<>>
        /\ requests = <<>> => stopRequested
    BY <1>1, <1>3, <2>1 DEF Buffers, MustWait
  <2>3. getRequestsBuffer \o requests = requests
    BY <1>2, <2>2
  <2>4. /\ copyData' = Batch(requests) /\ getRequestsBuffer' = Rest(requests)
        /\ shouldStop' = StopAfter(Batch(requests)) /\ requests' = <<>>
    BY <1>7, <2>3 DEF MoveRequests, Deliver
  <2>5. Batch(requests) = <<>> <=> requests = <<>>
    BY <1>2, SplitRows
  <2>6. shouldStop' => requests = <<>> /\ stopRequested
    BY <2>2, <2>4, <2>5, Zenon DEF StopAfter
  <2>. QED BY <1>2, <1>4, <1>5, <2>2, <2>4, <2>6
<1>. QED BY <1>6, <1>7

LEMMA TakesBatchInv == ASSUME CInv, GetBuffered \/ MoveRequests PROVE CInv'
<1>. USE Sizes
<1>1. Booleans /\ ContainerTypes /\ ThreadTypes /\ ServerTypes
  BY Types DEF CInv
<1>2. /\ pc \in Copying \ {"endCopy", "sendBatch"} /\ pc' = "sendBatch" /\ copyData = <<>>
      /\ UNCHANGED <<stopRequested, numLogRequests, numDropped, currentConnectionNum,
                     needsCommit, batchNum, drained, server, dropped>>
  BY TakesBatch
<1>3. PICK q \in Seq(Submitted) :
        /\ \/ q = getRequestsBuffer /\ UNCHANGED requests
           \/ q = requests /\ getRequestsBuffer = <<>> /\ requests' = <<>>
        /\ copyData' = Batch(q) /\ getRequestsBuffer' = Rest(q)
        /\ shouldStop' => q = <<>> /\ stopRequested /\ requests' = <<>>
  BY TakesBatch
<1>4. /\ Batch(q) \in Seq(Submitted) /\ Rest(q) \in Seq(Submitted)
      /\ Len(Batch(q)) + Len(Rest(q)) = Len(q)
      /\ Len(Batch(q)) \in Nat /\ Len(Rest(q)) \in Nat /\ Len(q) \in Nat
  <2>1. Batch(q) \in Seq(Submitted) /\ Rest(q) \in Seq(Submitted)
    BY SplitRows
  <2>. QED BY <2>1, SplitRows
<1>5. Submitted' = Submitted
  BY <1>2 DEF Submitted
<1>6. requests \in Seq(Submitted) /\ getRequestsBuffer \in Seq(Submitted)
  BY <1>1 DEF ContainerTypes
<1>7. Booleans'
  BY <1>1, BooleansStep DEF Next, LoggerThread
<1>8. ContainerTypes'
  <2>1. Len(requests') <= maxQueueLength /\ requests' \in Seq(Submitted)
    BY <1>1, <1>3, EmptyRows DEF ContainerTypes
  <2>2. Len(q) <= maxQueueLength
    BY <1>1, <1>3 DEF ContainerTypes
  <2>. QED BY <1>1, <1>2, <1>3, <1>4, <1>5, <2>1, <2>2 DEF ContainerTypes
<1>9. ThreadTypes'
  BY <1>1, <1>2, <1>3, <1>4, <1>5 DEF ThreadTypes, ThreadStates
<1>10. ServerTypes'
  BY <1>1, <1>2, <1>5 DEF ServerTypes, server
<1>11. Sessions'
  BY <1>2 DEF CInv, Sessions, Copying, Disconnected, server
<1>12. Buffers'
  <2>1. NoLostWakeup'
    BY <1>2 DEF NoLostWakeup
  <2>2. numDropped' + Len(requests') + Len(getRequestsBuffer') + Len(copyData') <= numLogRequests'
    <3>1. Len(requests) \in Nat /\ Len(getRequestsBuffer) \in Nat /\ Len(copyData) = 0
      BY <1>2, <1>6
    <3>2. Len(q) + Len(requests') <= Len(requests) + Len(getRequestsBuffer)
      BY <1>3, <3>1
    <3>3. numDropped \in Nat /\ numLogRequests \in Nat
      BY <1>1 DEF ContainerTypes
    <3>4. Len(requests') \in Nat
      BY <1>3, <3>1
    <3>. QED BY <1>2, <1>3, <1>4, <3>1, <3>2, <3>3, <3>4 DEF CInv, Buffers
  <2>3. batchNum' < maxBatchesInTransaction
    BY <1>2 DEF CInv, Buffers
  <2>. QED BY <1>2, <2>1, <2>2, <2>3 DEF Buffers
<1>13. Stops'
  <2>1. (shouldStop \/ pc = "finished" =>
           stopRequested /\ requests = <<>> /\ getRequestsBuffer = <<>>)'
    <3>1. q = <<>> => Rest(q) = <<>>
      BY <1>4, EmptySeq
    <3>. QED BY <1>2, <1>3, <3>1
  <2>2. drained' = {}
    BY <1>2 DEF CInv, Stops, Copying
  <2>. QED BY <1>2, <2>1, <2>2, Zenon DEF Stops
<1>. QED BY <1>7, <1>8, <1>9, <1>10, <1>11, <1>12, <1>13, TypesPrime DEF CInv

LEMMA SendBatchInv == ASSUME CInv, SendBatch PROVE CInv'
<1>. USE Sizes
<1>1. Booleans /\ ContainerTypes /\ ThreadTypes /\ ServerTypes
  BY Types DEF CInv
<1>2. /\ pc = "sendBatch" /\ pc' \in {"getRequests", "endCopy"} /\ copyData' = <<>>
      /\ tx' = [tx EXCEPT ![currentConnectionNum] = @ \o copyData]
      /\ UNCHANGED <<container, currentConnectionNum, needsCommit, drained, session, cut,
                     orphans, committed, lost, dropped>>
      /\ UNCHANGED shouldStop
  BY DEF SendBatch
<1>3. /\ currentConnectionNum \in Connections /\ copyData \in Seq(Submitted)
      /\ tx[currentConnectionNum] \in Seq(Submitted)
  BY <1>1 DEF ThreadTypes, ServerTypes
<1>4. /\ batchNum' \in 0..maxBatchesInTransaction
      /\ pc' = "getRequests" => batchNum' < maxBatchesInTransaction
  <2>1. batchNum \in Nat /\ batchNum < maxBatchesInTransaction
    BY <1>1, <1>2 DEF ThreadTypes, CInv, Buffers, Copying
  <2>2. batchNum' \in {batchNum, batchNum + 1}
    BY DEF SendBatch
  <2>3. pc' = "getRequests" => batchNum' < maxBatchesInTransaction
    BY DEF SendBatch, MoreBatches
  <2>. QED BY <2>1, <2>2, <2>3
<1>5. Submitted' = Submitted
  BY <1>2 DEF Submitted, container
<1>6. Booleans'
  BY <1>1, BooleansStep DEF Next, LoggerThread
<1>7. ContainerTypes'
  BY <1>1, <1>2, <1>5 DEF ContainerTypes, container
<1>8. ThreadTypes'
  BY <1>1, <1>2, <1>4, <1>5, EmptyRows DEF ThreadTypes, ThreadStates
<1>9. ServerTypes'
  <2>1. tx[currentConnectionNum] \o copyData \in Seq(Submitted)
    BY <1>3
  <2>. QED BY <1>1, <1>2, <1>5, <2>1 DEF ServerTypes
<1>10. Sessions'
  BY <1>1, <1>2, <1>3 DEF CInv, Sessions, Copying, Disconnected, ServerTypes
<1>11. Buffers'
  <2>1. Len(copyData) \in Nat /\ Len(copyData') = 0 /\ numDropped \in Nat
        /\ numLogRequests \in Nat /\ Len(requests) \in Nat /\ Len(getRequestsBuffer) \in Nat
    BY <1>1, <1>2, <1>3 DEF ContainerTypes
  <2>2. UNCHANGED <<numDropped, requests, getRequestsBuffer, numLogRequests>>
    BY <1>2 DEF container
  <2>3. numDropped' + Len(requests') + Len(getRequestsBuffer') + Len(copyData') <= numLogRequests'
    BY <2>1, <2>2 DEF CInv, Buffers
  <2>. QED BY <1>2, <1>4, <2>3 DEF Buffers, NoLostWakeup, Copying
<1>12. Stops'
  <2>1. UNCHANGED <<requests, getRequestsBuffer, stopRequested>>
    BY <1>2 DEF container
  <2>2. (shouldStop \/ pc = "finished" =>
           stopRequested /\ requests = <<>> /\ getRequestsBuffer = <<>>)'
    BY <1>2, <2>1 DEF CInv, Stops
  <2>3. drained' = {}
    BY <1>2 DEF CInv, Stops
  <2>. QED BY <1>2, <2>2, <2>3, Zenon DEF Stops
<1>. QED BY <1>6, <1>7, <1>8, <1>9, <1>10, <1>11, <1>12, TypesPrime DEF CInv

\* The connection pool is closed.
LEMMA CloseInv == ASSUME CInv, DbFailure \/ Finish PROVE CInv'
<1>. USE Sizes
<1>1. Booleans /\ ContainerTypes /\ ThreadTypes /\ ServerTypes
  BY Types DEF CInv
<1>2. /\ \/ pc' = "dbFailure" /\ pc \in Copying \cup {"useConnection", "startCopy"}
         \/ pc' = "finished" /\ pc = "awaitCommits"
      /\ UNCHANGED <<container, currentConnectionNum, needsCommit, batchNum, drained, dropped>>
      /\ UNCHANGED shouldStop
      /\ ClosePool(InSeq(copyData)) \/ ClosePool({})
  BY DEF DbFailure, Finish, Goto, Copying
<1>3. /\ session' = [c \in Connections |-> "none"] /\ tx' = [c \in Connections |-> <<>>]
      /\ cut' = {} /\ copyData' = <<>> /\ UNCHANGED committed
      /\ orphans' = orphans \cup {tx[c] : c \in {d \in Connections : session[d] = "ended"}}
      /\ \A r \in lost' : r \in lost \/ r \in InSeq(copyData)
                            \/ \E c \in Connections : r \in InSeq(tx[c])
  BY <1>2 DEF ClosePool
<1>4. Submitted' = Submitted
  BY <1>2 DEF Submitted, container
<1>5. Booleans'
  BY <1>1, BooleansStep DEF Next, LoggerThread
<1>6. ContainerTypes'
  BY <1>1, <1>2, <1>4 DEF ContainerTypes, container
<1>7. ThreadTypes'
  BY <1>1, <1>2, <1>3, <1>4, EmptyRows DEF ThreadTypes, ThreadStates
<1>8. ServerTypes'
  <2>1. orphans' \subseteq Seq(Submitted)
    BY <1>1, <1>3 DEF ServerTypes
  <2>2. InSeq(copyData) \subseteq Submitted
    BY <1>1, RowsOf DEF ThreadTypes
  <2>3. ASSUME NEW c \in Connections PROVE InSeq(tx[c]) \subseteq Submitted
    <3>1. tx[c] \in Seq(Submitted)
      BY <1>1 DEF ServerTypes
    <3>. QED BY <3>1, RowsOf
  <2>4. lost' \subseteq Submitted
    BY <1>1, <1>3, <2>2, <2>3 DEF ServerTypes
  <2>. QED BY <1>1, <1>3, <1>4, <2>1, <2>4, EmptyRows DEF ServerTypes, SessionStates
<1>9. Sessions'
  BY <1>2, <1>3 DEF Sessions, Copying, Disconnected
<1>10. Buffers'
  <2>1. Len(copyData) \in Nat /\ Len(copyData') = 0 /\ numDropped \in Nat
        /\ numLogRequests \in Nat /\ Len(requests) \in Nat /\ Len(getRequestsBuffer) \in Nat
    BY <1>1, <1>3 DEF ContainerTypes, ThreadTypes
  <2>2. UNCHANGED <<numDropped, requests, getRequestsBuffer, numLogRequests>>
    BY <1>2 DEF container
  <2>3. numDropped' + Len(requests') + Len(getRequestsBuffer') + Len(copyData') <= numLogRequests'
    BY <2>1, <2>2 DEF CInv, Buffers
  <2>. QED BY <1>2, <1>3, <2>3 DEF Buffers, NoLostWakeup, Copying
<1>11. Stops'
  <2>1. UNCHANGED <<requests, getRequestsBuffer, stopRequested>>
    BY <1>2 DEF container
  <2>2. (shouldStop \/ pc = "finished" =>
           stopRequested /\ requests = <<>> /\ getRequestsBuffer = <<>>)'
    BY <1>2, <2>1 DEF CInv, Stops
  <2>3. (drained # {} => pc \in {"awaitCommits", "finished"})'
    BY <1>2 DEF CInv, Stops, Copying
  <2>. QED BY <1>2, <2>2, <2>3, Zenon DEF Stops
<1>. QED BY <1>5, <1>6, <1>7, <1>8, <1>9, <1>10, <1>11, TypesPrime DEF CInv

LEMMA StopAfterFailureInv == ASSUME CInv, StopAfterFailure PROVE CInv'
<1>. USE Sizes
<1>1. Booleans /\ ContainerTypes /\ ThreadTypes /\ ServerTypes
  BY Types DEF CInv
<1>2. /\ pc = "dbFailure" /\ pc' = "finished" /\ stopRequested
      /\ requests' = <<>> /\ getRequestsBuffer' = <<>>
      /\ numDropped' = numDropped + Len(requests) + Len(getRequestsBuffer)
      /\ dropped' = dropped \cup InSeq(requests) \cup InSeq(getRequestsBuffer)
      /\ UNCHANGED <<numLogRequests, thread, server>>
      /\ UNCHANGED stopRequested
  BY DEF StopAfterFailure, StopWithoutDb, DropAllRequests, Goto
<1>3. Submitted' = Submitted
  BY <1>2 DEF Submitted
<1>4. copyData = <<>> /\ copyData' = <<>>
  BY <1>2 DEF CInv, Buffers, thread
<1>5. Booleans'
  BY <1>1, BooleansStep DEF Next, LoggerThread
<1>6. /\ numDropped \in Nat /\ numLogRequests \in Nat /\ numLogRequests <= MaxRequests
      /\ requests \in Seq(Submitted) /\ getRequestsBuffer \in Seq(Submitted)
      /\ Len(requests) \in Nat /\ Len(getRequestsBuffer) \in Nat
      /\ numDropped + Len(requests) + Len(getRequestsBuffer) <= numLogRequests
  <2>1. /\ numDropped \in Nat /\ numLogRequests \in Nat /\ numLogRequests <= MaxRequests
        /\ requests \in Seq(Submitted) /\ getRequestsBuffer \in Seq(Submitted)
        /\ Len(requests) \in Nat /\ Len(getRequestsBuffer) \in Nat
    BY <1>1 DEF ContainerTypes
  <2>. QED BY <1>4, <2>1 DEF CInv, Buffers
<1>7. ContainerTypes'
  <2>1. InSeq(requests) \subseteq Submitted /\ InSeq(getRequestsBuffer) \subseteq Submitted
    BY <1>6, RowsOf
  <2>. QED BY <1>1, <1>2, <1>3, <1>6, <2>1, EmptyRows DEF ContainerTypes
<1>8. ThreadTypes'
  BY <1>1, <1>2, <1>3 DEF ThreadTypes, ThreadStates, thread
<1>9. ServerTypes'
  BY <1>1, <1>2, <1>3 DEF ServerTypes, server
<1>10. Sessions'
  <2>1. UNCHANGED <<session, tx, needsCommit, currentConnectionNum>>
    BY <1>2 DEF thread, server
  <2>. QED BY <1>2, <2>1 DEF CInv, Sessions, Copying, Disconnected
<1>11. Buffers'
  BY <1>2, <1>4, <1>6 DEF Buffers, NoLostWakeup, Copying
<1>12. Stops'
  BY <1>2, Zenon DEF Stops, thread
<1>. QED BY <1>5, <1>7, <1>8, <1>9, <1>10, <1>11, <1>12, TypesPrime DEF CInv

LEMMA CInvNext == ASSUME CInv, [Next]_vars PROVE CInv'
<1>1. CASE LoggerThread
  <2>1. CASE Connect \/ StartCopy \/ EndCopy \/ AwaitCommit
    BY <2>1, ConnectionsInv
  <2>2. CASE ConnectFails \/ UseConnection \/ WaitForRequest \/ SleepForMore \/ Reconnect
    BY <2>2, MovesInv
  <2>3. CASE GetBuffered \/ MoveRequests
    BY <2>3, TakesBatchInv
  <2>4. CASE SendBatch
    BY <2>4, SendBatchInv
  <2>5. CASE DbFailure \/ Finish
    BY <2>5, CloseInv
  <2>6. CASE StopAfterFailure
    BY <2>6, StopAfterFailureInv
  <2>. QED BY <1>1, <2>1, <2>2, <2>3, <2>4, <2>5, <2>6 DEF LoggerThread
<1>2. CASE Database
  BY <1>2, DatabaseInv
<1>3. CASE PutRequest \/ RequestStop \/ Outage \/ OutageEnds
  BY <1>3, OthersInv
<1>4. CASE SpuriousWakeup \/ UNCHANGED vars
  BY <1>4, MovesInv
<1>. QED BY <1>1, <1>2, <1>3, <1>4 DEF Next

\* Where the thread is decides which connection is in COPY, which buffers are empty
\* and what a stop has left.
THEOREM LoggerControl == Spec => []CInv
BY CInvInit, CInvNext, PTL DEF Spec

\* Every variable has its type; the two containers never hold more than
\* maxQueueLength requests each, and a transaction never more than its batches.
THEOREM LoggerTypeOK == Spec => []TypeOK
<1>1. CInv => TypeOK
  BY DEF CInv
<1>. QED BY <1>1, LoggerControl, PTL

\* The logger thread never sleeps on requestAvailable while the queue holds a
\* request or a stop was requested: putRequest() signals only the first one.
THEOREM LoggerNoLostWakeup == Spec => []NoLostWakeup
<1>1. CInv => NoLostWakeup
  BY DEF CInv, Buffers
<1>. QED BY <1>1, LoggerControl, PTL

-----------------------------------------------------------------------------
(* Which requests are where *)

InBackend == InSeq(copyData) \cup InSeq(getRequestsBuffer) \cup InSeq(requests)
Handed    == InTransactions \cup InOrphans \cup InSeq(committed) \cup lost
data      == <<requests, getRequestsBuffer, copyData, tx, orphans, committed, lost>>

Order ==
  /\ Increasing(copyData) /\ Increasing(getRequestsBuffer) /\ Increasing(requests)
  /\ Before(InSeq(copyData), InSeq(getRequestsBuffer) \cup InSeq(requests))
  /\ Before(InSeq(getRequestsBuffer), InSeq(requests))
  /\ \A c \in Connections : Increasing(tx[c])
  /\ \A rows \in orphans : Increasing(rows)
  /\ Before(Handed, InBackend)

\* No two transactions share a request.
Separate ==
  /\ \A c, d \in Connections : c # d => InSeq(tx[c]) \cap InSeq(tx[d]) = {}
  /\ \A p, q \in orphans : p # q => InSeq(p) \cap InSeq(q) = {}
  /\ \A c \in Connections, p \in orphans : InSeq(tx[c]) \cap InSeq(p) = {}

DInv == CInv /\ Order /\ Separate

LEMMA RowsInRange ==
  ASSUME CInv
  PROVE  /\ numLogRequests \in Nat /\ Submitted \subseteq Nat /\ numLogRequests + 1 \notin Submitted
         /\ requests \in Seq(Submitted) /\ getRequestsBuffer \in Seq(Submitted)
         /\ copyData \in Seq(Submitted) /\ committed \in Seq(Submitted)
         /\ tx \in [Connections -> Seq(Submitted)] /\ orphans \subseteq Seq(Submitted)
         /\ session \in [Connections -> SessionStates]
         /\ \A c \in Connections : InSeq(tx[c]) \subseteq Submitted
         /\ \A rows \in orphans : InSeq(rows) \subseteq Submitted
         /\ InBackend \subseteq Submitted /\ Handed \subseteq Submitted
<1>1. ContainerTypes /\ ThreadTypes /\ ServerTypes
  BY Types DEF CInv
<1>2. /\ numLogRequests \in Nat
      /\ requests \in Seq(Submitted) /\ getRequestsBuffer \in Seq(Submitted)
      /\ copyData \in Seq(Submitted) /\ committed \in Seq(Submitted)
      /\ tx \in [Connections -> Seq(Submitted)] /\ orphans \subseteq Seq(Submitted)
      /\ session \in [Connections -> SessionStates]
      /\ lost \subseteq Submitted
  BY <1>1, Sizes DEF ContainerTypes, ThreadTypes, ServerTypes
<1>3. Submitted \subseteq Nat /\ numLogRequests + 1 \notin Submitted
  BY <1>2 DEF Submitted
<1>4. ASSUME NEW c \in Connections PROVE InSeq(tx[c]) \subseteq Submitted
  <2>1. tx[c] \in Seq(Submitted)
    BY <1>2
  <2>. QED BY <2>1, RowsOf
<1>5. ASSUME NEW rows \in orphans PROVE InSeq(rows) \subseteq Submitted
  BY <1>2, RowsOf
<1>6. InBackend \subseteq Submitted
  BY <1>2, RowsOf DEF InBackend
<1>7. Handed \subseteq Submitted
  <2>1. InSeq(committed) \subseteq Submitted
    BY <1>2, RowsOf
  <2>. QED BY <1>2, <1>4, <1>5, <2>1 DEF Handed, InTransactions, InOrphans
<1>. QED BY <1>2, <1>3, <1>4, <1>5, <1>6, <1>7

\* What was handed to the database is no longer in the backend.
LEMMA HandedOnce ==
  ASSUME DInv
  PROVE  /\ Handed \cap InBackend = {}
         /\ InSeq(copyData) \cap (InSeq(getRequestsBuffer) \cup InSeq(requests)) = {}
<1>1. InBackend \subseteq Nat /\ Handed \subseteq Nat
  BY RowsInRange DEF DInv
<1>2. ASSUME NEW r \in Handed, r \in InBackend PROVE FALSE
  <2>1. r < r
    BY <1>2 DEF DInv, Order, Before
  <2>. QED BY <1>1, <2>1
<1>3. ASSUME NEW r \in InSeq(copyData), r \in InSeq(getRequestsBuffer) \cup InSeq(requests)
      PROVE  FALSE
  <2>1. r < r
    BY <1>3 DEF DInv, Order, Before
  <2>. QED BY <1>1, <1>3, <2>1 DEF InBackend
<1>. QED BY <1>2, <1>3

LEMMA DInvInit == Init => DInv
<1>. SUFFICES ASSUME Init PROVE DInv
  OBVIOUS
<1>1. CInv
  BY CInvInit
<1>2. Order
  BY EmptyRows DEF Init, Order, InBackend, Before, Handed
<1>3. Separate
  BY EmptyRows DEF Init, Separate
<1>. QED BY <1>1, <1>2, <1>3 DEF DInv

\* Steps that move no request.
LEMMA DataSame == ASSUME DInv, CInv', UNCHANGED data PROVE DInv'
<1>1. UNCHANGED <<InBackend, Handed>>
  BY DEF data, InBackend, Handed, InTransactions, InOrphans
<1>2. Order'
  BY <1>1 DEF DInv, Order, data
<1>3. Separate'
  BY DEF DInv, Separate, data
<1>. QED BY <1>2, <1>3 DEF DInv

LEMMA QuietSteps ==
  ASSUME CInv,
         \/ Connect \/ ConnectFails \/ UseConnection \/ StartCopy \/ WaitForRequest
         \/ SleepForMore \/ EndCopy \/ AwaitCommit \/ Reconnect \/ SpuriousWakeup
         \/ RequestStop \/ Outage \/ OutageEnds \/ UNCHANGED vars
  PROVE  UNCHANGED data /\ UNCHANGED <<numLogRequests, dropped>>
<1>1. CASE Connect
  <2>1. tx \in [Connections -> Seq(Submitted)]
    BY RowsInRange
  <2>2. \A c \in Connections : tx[c] = <<>>
    BY <1>1 DEF CInv, Sessions, Connect, Goto, Disconnected
  <2>3. tx' = tx
    BY <1>1, <2>1, <2>2 DEF Connect
  <2>. QED BY <1>1, <2>3 DEF Connect, container, data
<1>2. CASE \/ ConnectFails \/ UseConnection \/ StartCopy \/ WaitForRequest
           \/ SleepForMore \/ EndCopy \/ AwaitCommit \/ Reconnect \/ SpuriousWakeup
  BY <1>2
  DEF ConnectFails, UseConnection, StartCopy, WaitForRequest, SleepForMore, EndCopy,
      AwaitCommit, Reconnect, SpuriousWakeup, container, thread, server, data
<1>3. CASE RequestStop \/ Outage \/ OutageEnds \/ UNCHANGED vars
  BY <1>3 DEF RequestStop, Outage, OutageEnds, vars, container, thread, server, data
<1>. QED BY <1>1, <1>2, <1>3

\* A request is put, or dropped at once.
LEMMA PutEffect ==
  ASSUME CInv, PutRequest
  PROVE  /\ numLogRequests' = numLogRequests + 1
         /\ UNCHANGED <<getRequestsBuffer, copyData, tx, orphans, committed, lost>>
         /\ \/ UNCHANGED requests /\ dropped' = dropped \cup {numLogRequests + 1}
            \/ /\ requests' = Append(requests, numLogRequests + 1) /\ UNCHANGED dropped
               /\ InSeq(requests') = InSeq(requests) \cup {numLogRequests + 1}
               /\ Increasing(requests) => Increasing(requests')
<1>1. /\ numLogRequests' = numLogRequests + 1
      /\ UNCHANGED <<getRequestsBuffer, copyData, tx, orphans, committed, lost>>
      /\ \/ UNCHANGED requests /\ dropped' = dropped \cup {numLogRequests + 1}
         \/ requests' = Append(requests, numLogRequests + 1) /\ UNCHANGED dropped
  BY DEF PutRequest, Enqueue, thread, server
<1>. DEFINE n == numLogRequests
            S == 1..(n + 1)
            x == n + 1
<1>2. n \in Nat /\ requests \in Seq(1..n)
  BY RowsInRange DEF Submitted
<1>3. InSeq(requests) \subseteq 1..n
  BY <1>2, RowsOf
<1>. HIDE DEF n
<1>4. requests \in Seq(S) /\ x \in S
  BY <1>2, MoreRows
<1>5. Before(InSeq(requests), {x})
  BY <1>2, <1>3 DEF Before
<1>. HIDE DEF S, x
<1>6. /\ InSeq(Append(requests, x)) = InSeq(requests) \cup {x}
      /\ Increasing(requests) => Increasing(Append(requests, x))
  BY <1>4, <1>5, AppendRow
<1>. QED BY <1>1, <1>6 DEF x, n

LEMMA PutInv == ASSUME DInv, CInv', PutRequest PROVE DInv'
<1>. DEFINE x == numLogRequests + 1
<1>1. /\ UNCHANGED <<getRequestsBuffer, copyData, tx, orphans, committed, lost>>
      /\ Increasing(requests) => Increasing(requests')
      /\ InSeq(requests') = InSeq(requests) \/ InSeq(requests') = InSeq(requests) \cup {x}
  BY PutEffect DEF DInv
<1>2. /\ InBackend' = InBackend \/ InBackend' = InBackend \cup {x}
      /\ UNCHANGED Handed
  BY <1>1 DEF InBackend, Handed, InTransactions, InOrphans
<1>3. \A r \in InBackend \cup Handed : r < x
  BY RowsInRange DEF DInv, Submitted
<1>. HIDE DEF x
<1>4. Order'
  <2>1. (Before(InSeq(copyData), InSeq(getRequestsBuffer) \cup InSeq(requests)))'
    BY <1>1, <1>3 DEF DInv, Order, Before, InBackend
  <2>2. (Before(InSeq(getRequestsBuffer), InSeq(requests)))'
    BY <1>1, <1>3 DEF DInv, Order, Before, InBackend
  <2>3. Before(Handed', InBackend')
    BY <1>2, <1>3 DEF DInv, Order, Before
  <2>. QED BY <1>1, <2>1, <2>2, <2>3 DEF DInv, Order
<1>5. Separate'
  BY <1>1 DEF DInv, Separate
<1>. QED BY <1>4, <1>5 DEF DInv

LEMMA TakesBatchData == ASSUME DInv, CInv', GetBuffered \/ MoveRequests PROVE DInv'
<1>. USE DEF DInv
<1>1. /\ copyData = <<>>
      /\ UNCHANGED <<tx, orphans, committed, lost>>
  BY TakesBatch DEF server
<1>2. PICK q \in Seq(Submitted) :
        /\ \/ q = getRequestsBuffer /\ UNCHANGED requests
           \/ q = requests /\ getRequestsBuffer = <<>> /\ requests' = <<>>
        /\ copyData' = Batch(q) /\ getRequestsBuffer' = Rest(q)
  BY TakesBatch
<1>3. /\ InSeq(copyData') \cup InSeq(getRequestsBuffer') = InSeq(q)
      /\ Increasing(q) => /\ Increasing(copyData') /\ Increasing(getRequestsBuffer')
                          /\ Before(InSeq(copyData'), InSeq(getRequestsBuffer'))
  BY <1>2, SplitRows
<1>4. Increasing(q) /\ Before(InSeq(q), InSeq(requests')) /\ Increasing(requests')
  BY <1>2, EmptyRows DEF Order, Before
<1>5. InBackend' = InBackend /\ Handed' = Handed
  BY <1>1, <1>2, <1>3, EmptyRows DEF InBackend, Handed, InTransactions, InOrphans
<1>6. Before(InSeq(copyData'), InSeq(getRequestsBuffer') \cup InSeq(requests'))
      /\ Before(InSeq(getRequestsBuffer'), InSeq(requests'))
  BY <1>3, <1>4 DEF Before
<1>7. Order'
  BY <1>1, <1>3, <1>4, <1>5, <1>6 DEF Order
<1>8. Separate'
  BY <1>1 DEF Separate
<1>. QED BY <1>7, <1>8

LEMMA SendEffect ==
  ASSUME CInv, SendBatch
  PROVE  /\ currentConnectionNum \in Connections /\ copyData' = <<>>
         /\ UNCHANGED <<requests, getRequestsBuffer, orphans, committed, lost, numLogRequests,
                        dropped>>
         /\ \A d \in Connections \ {currentConnectionNum} : tx'[d] = tx[d]
         /\ InSeq(tx'[currentConnectionNum]) = InSeq(tx[currentConnectionNum]) \cup InSeq(copyData)
         /\ /\ Increasing(tx[currentConnectionNum]) /\ Increasing(copyData)
            /\ Before(InSeq(tx[currentConnectionNum]), InSeq(copyData))
            => Increasing(tx'[currentConnectionNum])
<1>. DEFINE c == currentConnectionNum
            old == tx[c]
<1>1. c \in Connections
  BY Types DEF CInv, ThreadTypes
<1>2. /\ tx' = [tx EXCEPT ![c] = old \o copyData] /\ copyData' = <<>>
      /\ UNCHANGED <<requests, getRequestsBuffer, orphans, committed, lost, numLogRequests,
                     dropped>>
  BY DEF SendBatch, container
<1>3. tx \in [Connections -> Seq(Submitted)] /\ copyData \in Seq(Submitted)
  BY RowsInRange
<1>4. old \in Seq(Submitted) /\ tx'[c] = old \o copyData
  BY <1>1, <1>2, <1>3
<1>5. \A d \in Connections \ {c} : tx'[d] = tx[d]
  BY <1>2, <1>3
<1>. HIDE DEF old
<1>6. /\ InSeq(old \o copyData) = InSeq(old) \cup InSeq(copyData)
      /\ Increasing(old) /\ Increasing(copyData) /\ Before(InSeq(old), InSeq(copyData))
           => Increasing(old \o copyData)
  BY <1>3, <1>4, ConcatRows
<1>. QED BY <1>1, <1>2, <1>4, <1>5, <1>6 DEF old

LEMMA SendData == ASSUME DInv, CInv', SendBatch PROVE DInv'
<1>. USE DEF DInv
<1>. DEFINE c == currentConnectionNum
<1>1. /\ c \in Connections /\ copyData' = <<>>
      /\ UNCHANGED <<requests, getRequestsBuffer, orphans, committed, lost>>
      /\ \A d \in Connections \ {c} : tx'[d] = tx[d]
      /\ InSeq(tx'[c]) = InSeq(tx[c]) \cup InSeq(copyData)
      /\ Increasing(tx[c]) /\ Increasing(copyData) /\ Before(InSeq(tx[c]), InSeq(copyData))
            => Increasing(tx'[c])
  BY SendEffect
<1>. HIDE DEF c
<1>2. Before(InSeq(tx[c]), InSeq(copyData))
  BY <1>1 DEF Order, Before, Handed, InTransactions, InBackend
<1>3. \A d \in Connections : Increasing(tx'[d])
  BY <1>1, <1>2 DEF Order
<1>4. /\ InBackend' = InSeq(getRequestsBuffer) \cup InSeq(requests)
      /\ Handed' = Handed \cup InSeq(copyData)
  <2>1. InTransactions' = InTransactions \cup InSeq(copyData)
    BY <1>1 DEF InTransactions
  <2>2. InOrphans' = InOrphans
    BY <1>1 DEF InOrphans
  <2>. QED BY <1>1, <2>1, <2>2, EmptyRows DEF InBackend, Handed
<1>5. Before(Handed', InBackend')
  BY <1>4 DEF Order, Before, InBackend
<1>6. Order'
  <2>1. (Before(InSeq(copyData), InSeq(getRequestsBuffer) \cup InSeq(requests)))'
    BY <1>1, EmptyRows DEF Before
  <2>2. /\ Increasing(copyData') /\ Increasing(getRequestsBuffer') /\ Increasing(requests')
        /\ Before(InSeq(getRequestsBuffer'), InSeq(requests'))
        /\ \A rows \in orphans' : Increasing(rows)
    BY <1>1, EmptyRows DEF Order
  <2>. QED BY <1>3, <1>5, <2>1, <2>2 DEF Order
<1>7. Separate'
  <2>1. InSeq(copyData) \cap Handed = {}
    BY HandedOnce DEF InBackend
  <2>2. ASSUME NEW d \in Connections, d # c PROVE InSeq(tx'[d]) \cap InSeq(tx'[c]) = {}
    BY <1>1, <2>1, <2>2 DEF Separate, Handed, InTransactions
  <2>3. ASSUME NEW d \in Connections, NEW rows \in orphans
        PROVE  InSeq(tx'[d]) \cap InSeq(rows) = {}
    BY <1>1, <2>1 DEF Separate, Handed, InOrphans
  <2>4. \A d, e \in Connections : d # e => InSeq(tx'[d]) \cap InSeq(tx'[e]) = {}
    BY <1>1, <2>2 DEF Separate
  <2>5. \A p, q \in orphans' : p # q => InSeq(p) \cap InSeq(q) = {}
    BY <1>1 DEF Separate
  <2>. QED BY <1>1, <2>3, <2>4, <2>5 DEF Separate
<1>. QED BY <1>6, <1>7

\* What is lost with the connections, and what the server goes on with.
RolledBack == InSeq(copyData)
                \cup UNION {InSeq(tx[c]) : c \in {d \in Connections : session[d] = "copying"}}

LEMMA CloseEffect ==
  ASSUME CInv, DbFailure \/ Finish
  PROVE  /\ UNCHANGED <<requests, getRequestsBuffer, committed, numLogRequests, dropped>>
         /\ copyData' = <<>> /\ tx' = [c \in Connections |-> <<>>]
         /\ orphans' = orphans \cup {tx[c] : c \in {d \in Connections : session[d] = "ended"}}
         /\ lost' = lost \cup RolledBack
<1>1. UNCHANGED <<requests, getRequestsBuffer, committed, numLogRequests, dropped>>
  BY DEF DbFailure, Finish, ClosePool, container
<1>2. CASE DbFailure
  BY <1>1, <1>2 DEF DbFailure, ClosePool, RolledBack
<1>3. CASE Finish
  <2>1. copyData = <<>>
    BY <1>3 DEF Finish, Goto, CInv, Buffers
  <2>2. InSeq(copyData) = {}
    BY <2>1, EmptyRows
  <2>. QED BY <1>1, <1>3, <2>2 DEF Finish, ClosePool, RolledBack
<1>. QED BY <1>2, <1>3

LEMMA CloseData == ASSUME DInv, CInv', DbFailure \/ Finish PROVE DInv'
<1>. USE DEF DInv
<1>1. /\ UNCHANGED <<requests, getRequestsBuffer, committed>>
      /\ copyData' = <<>> /\ tx' = [c \in Connections |-> <<>>]
      /\ orphans' = orphans \cup {tx[c] : c \in {d \in Connections : session[d] = "ended"}}
      /\ lost' = lost \cup RolledBack
  BY CloseEffect
<1>2. InTransactions' = {}
  BY <1>1, EmptyRows DEF InTransactions
<1>3. InOrphans' \subseteq InOrphans \cup InTransactions
  BY <1>1 DEF InOrphans, InTransactions
<1>4. RolledBack \subseteq InSeq(copyData) \cup InTransactions
  BY DEF RolledBack, InTransactions
<1>5. /\ Handed' \subseteq Handed \cup InSeq(copyData)
      /\ InBackend' = InSeq(getRequestsBuffer) \cup InSeq(requests)
  BY <1>1, <1>2, <1>3, <1>4, EmptyRows DEF Handed, InBackend
<1>6. Before(Handed', InBackend')
  BY <1>5 DEF Order, Before, InBackend
<1>7. Order'
  <2>1. \A rows \in orphans' : Increasing(rows)
    BY <1>1 DEF Order
  <2>2. \A c \in Connections : Increasing(tx'[c])
    BY <1>1, EmptyRows
  <2>3. /\ Increasing(copyData') /\ Increasing(getRequestsBuffer') /\ Increasing(requests')
        /\ (Before(InSeq(copyData), InSeq(getRequestsBuffer) \cup InSeq(requests)))'
        /\ Before(InSeq(getRequestsBuffer'), InSeq(requests'))
    BY <1>1, EmptyRows DEF Order, Before
  <2>. QED BY <1>6, <2>1, <2>2, <2>3 DEF Order
<1>8. Separate'
  <2>1. \A c \in Connections : InSeq(tx'[c]) = {}
    BY <1>1, EmptyRows
  <2>2. ASSUME NEW p \in orphans', NEW q \in orphans', p # q PROVE InSeq(p) \cap InSeq(q) = {}
    BY <1>1, <2>2 DEF Separate
  <2>. QED BY <2>1, <2>2 DEF Separate
<1>. QED BY <1>7, <1>8

LEMMA StopEffect ==
  ASSUME CInv, StopAfterFailure
  PROVE  /\ requests' = <<>> /\ getRequestsBuffer' = <<>> /\ copyData = <<>> /\ copyData' = <<>>
         /\ dropped' = dropped \cup InSeq(requests) \cup InSeq(getRequestsBuffer)
         /\ UNCHANGED <<tx, orphans, committed, lost, numLogRequests>>
<1>1. copyData = <<>>
  BY DEF StopAfterFailure, Goto, CInv, Buffers
<1>. QED BY <1>1 DEF StopAfterFailure, DropAllRequests, thread, server

LEMMA StopData == ASSUME DInv, CInv', StopAfterFailure PROVE DInv'
<1>. USE DEF DInv
<1>1. /\ requests' = <<>> /\ getRequestsBuffer' = <<>> /\ copyData' = <<>>
      /\ UNCHANGED <<tx, orphans, committed, lost>>
  BY StopEffect
<1>2. InBackend' = {} /\ Handed' = Handed
  BY <1>1, EmptyRows DEF InBackend, Handed, InTransactions, InOrphans
<1>3. Order'
  BY <1>1, <1>2, EmptyRows DEF Order, Before
<1>4. Separate'
  BY <1>1 DEF Separate
<1>. QED BY <1>3, <1>4

\* A transaction ends: its rows are in the log, or nowhere.
LEMMA DatabaseEffect ==
  ASSUME CInv, Database
  PROVE  /\ UNCHANGED <<requests, getRequestsBuffer, copyData, numLogRequests, dropped>>
         /\ \E rows \in Seq(Submitted) :
              /\ \/ committed' = committed \o rows /\ lost' = lost
                 \/ committed' = committed /\ lost' = lost \cup InSeq(rows)
              /\ \/ /\ rows \in orphans /\ orphans' = orphans \ {rows} /\ tx' = tx
                 \/ /\ orphans' = orphans
                    /\ \E c \in Connections :
                         rows = tx[c] /\ tx' = [tx EXCEPT ![c] = <<>>]
<1>1. UNCHANGED <<requests, getRequestsBuffer, copyData, numLogRequests, dropped>>
  BY DEF Database, ServerEnds, OrphanEnds, container, thread
<1>2. CASE \E c \in Connections : ServerEnds(c)
  <2>1. PICK c \in Connections : ServerEnds(c)
    BY <1>2
  <2>2. tx[c] \in Seq(Submitted)
    BY RowsInRange
  <2>. QED BY <1>1, <2>1, <2>2 DEF ServerEnds
<1>3. CASE \E rows \in orphans : OrphanEnds(rows)
  <2>1. PICK rows \in orphans : OrphanEnds(rows)
    BY <1>3
  <2>2. rows \in Seq(Submitted)
    BY RowsInRange
  <2>. QED BY <1>1, <2>1, <2>2 DEF OrphanEnds
<1>. QED BY <1>2, <1>3 DEF Database

LEMMA DatabaseData == ASSUME DInv, CInv', Database PROVE DInv'
<1>. USE DEF DInv
<1>1. UNCHANGED <<requests, getRequestsBuffer, copyData>>
  BY DatabaseEffect
<1>2. PICK rows \in Seq(Submitted) :
        /\ \/ committed' = committed \o rows /\ lost' = lost
           \/ committed' = committed /\ lost' = lost \cup InSeq(rows)
        /\ \/ rows \in orphans /\ orphans' = orphans \ {rows} /\ tx' = tx
           \/ /\ orphans' = orphans
              /\ \E c \in Connections :
                   rows = tx[c] /\ tx' = [tx EXCEPT ![c] = <<>>]
  BY DatabaseEffect
<1>3. tx \in [Connections -> Seq(Submitted)] /\ committed \in Seq(Submitted)
  BY RowsInRange
<1>4. /\ \A c \in Connections : tx'[c] = tx[c] \/ tx'[c] = <<>>
      /\ orphans' \subseteq orphans
      /\ InSeq(rows) \subseteq InTransactions \cup InOrphans
  BY <1>2, <1>3 DEF InTransactions, InOrphans
<1>5. Handed' \subseteq Handed
  <2>1. InSeq(committed \o rows) = InSeq(committed) \cup InSeq(rows)
    BY <1>3, ConcatRows
  <2>2. InSeq(committed') \cup lost' \subseteq Handed
    BY <1>2, <1>4, <2>1 DEF Handed
  <2>3. InTransactions' \cup InOrphans' \subseteq InTransactions \cup InOrphans
    BY <1>4, EmptyRows DEF InTransactions, InOrphans
  <2>. QED BY <2>2, <2>3 DEF Handed
<1>6. Order'
  <2>1. InBackend' = InBackend
    BY <1>1 DEF InBackend
  <2>2. Before(Handed', InBackend')
    BY <1>5, <2>1 DEF Order, Before
  <2>. QED BY <1>1, <1>4, <2>2, EmptyRows DEF Order
<1>7. Separate'
  <2>1. \A c \in Connections : InSeq(tx'[c]) \subseteq InSeq(tx[c])
    BY <1>4, EmptyRows
  <2>. QED BY <1>4, <2>1 DEF Separate
<1>. QED BY <1>6, <1>7

LEMMA DInvNext == ASSUME DInv, [Next]_vars PROVE DInv'
<1>1. CInv /\ CInv'
  BY CInvNext DEF DInv
<1>2. CASE \/ Connect \/ ConnectFails \/ UseConnection \/ StartCopy \/ WaitForRequest
           \/ SleepForMore \/ EndCopy \/ AwaitCommit \/ Reconnect \/ SpuriousWakeup
           \/ RequestStop \/ Outage \/ OutageEnds \/ UNCHANGED vars
  BY <1>1, <1>2, QuietSteps, DataSame
<1>3. CASE PutRequest
  BY <1>1, <1>3, PutInv
<1>4. CASE GetBuffered \/ MoveRequests
  BY <1>1, <1>4, TakesBatchData
<1>5. CASE SendBatch
  BY <1>1, <1>5, SendData
<1>6. CASE DbFailure \/ Finish
  BY <1>1, <1>6, CloseData
<1>7. CASE StopAfterFailure
  BY <1>1, <1>7, StopData
<1>8. CASE Database
  BY <1>1, <1>8, DatabaseData
<1>. QED BY <1>2, <1>3, <1>4, <1>5, <1>6, <1>7, <1>8 DEF Next, LoggerThread

LEMMA UnsentRows ==
  ASSUME DInv PROVE Increasing(Unsent) /\ InSeq(Unsent) = InBackend
<1>. DEFINE p == copyData \o getRequestsBuffer
<1>1. copyData \in Seq(Submitted) /\ getRequestsBuffer \in Seq(Submitted)
      /\ requests \in Seq(Submitted)
  BY RowsInRange DEF DInv
<1>2. /\ p \in Seq(Submitted)
      /\ InSeq(p) = InSeq(copyData) \cup InSeq(getRequestsBuffer)
      /\ Increasing(copyData) /\ Increasing(getRequestsBuffer)
           /\ Before(InSeq(copyData), InSeq(getRequestsBuffer)) => Increasing(p)
  BY <1>1, ConcatRows
<1>3. Unsent = p \o requests
  BY DEF Unsent
<1>. HIDE DEF p
<1>4. /\ InSeq(p \o requests) = InSeq(p) \cup InSeq(requests)
      /\ Increasing(p) /\ Increasing(requests) /\ Before(InSeq(p), InSeq(requests))
           => Increasing(p \o requests)
  <2>1. p \in Seq(Submitted) /\ requests \in Seq(Submitted)
    BY <1>1, <1>2
  <2>. QED BY <2>1, ConcatRows
<1>5. Before(InSeq(copyData), InSeq(getRequestsBuffer)) /\ Before(InSeq(p), InSeq(requests))
  BY <1>2 DEF DInv, Order, Before
<1>6. Increasing(Unsent)
  BY <1>2, <1>3, <1>4, <1>5 DEF DInv, Order
<1>7. InSeq(Unsent) = InBackend
  BY <1>2, <1>3, <1>4 DEF InBackend
<1>. QED BY <1>6, <1>7

\* Through the queue, the buffer and the batches requests keep the order of
\* logRequest(), and no request is handed to the database before an earlier one.
THEOREM LoggerSentInOrder == Spec => []SentInOrder
<1>1. DInv => SentInOrder
  <2>. SUFFICES ASSUME DInv PROVE SentInOrder
    OBVIOUS
  <2>1. Increasing(Unsent) /\ InSeq(Unsent) = InBackend
    BY UnsentRows
  <2>2. (\A c \in Connections : Increasing(tx[c])) /\ Before(Handed, InBackend)
    BY DEF DInv, Order
  <2>. QED BY <2>1, <2>2 DEF SentInOrder, Before, Handed
<1>. QED BY <1>1, DInvInit, DInvNext, PTL DEF Spec

-----------------------------------------------------------------------------
(* The logger implements RequestLog *)

LEMMA PendingParts == Pending = InBackend \cup InTransactions \cup InOrphans
BY DEF Pending, InBackend

LEMMA AppendedRows ==
  ASSUME NEW S, NEW p \in Seq(S), NEW q \in Seq(S)
  PROVE  SubSeq(p \o q, Len(p) + 1, Len(p \o q)) = q
<1>1. Len(p) \in Nat /\ Len(q) \in Nat /\ Len(p \o q) = Len(p) + Len(q)
  OBVIOUS
<1>2. CASE q = <<>>
  <2>1. Len(p) + 1 > Len(p \o q)
    BY <1>1, <1>2
  <2>2. SubSeq(p \o q, Len(p) + 1, Len(p \o q)) = <<>>
    BY <1>1, <2>1, SubSeqEmpty
  <2>. QED BY <1>2, <2>2
<1>3. CASE q # <<>>
  <2>1. Len(q) > 0
    BY <1>1, <1>3, EmptySeq
  <2>. DEFINE m == Len(p) + 1
              n == Len(p) + Len(q)
  <2>2. m \in Len(p)+1 .. Len(p)+Len(q) /\ n \in Len(p)+1 .. Len(p)+Len(q)
    BY <1>1, <2>1
  <2>3. m - Len(p) = 1 /\ n - Len(p) = Len(q)
    BY <1>1
  <2>. HIDE DEF m, n
  <2>4. SubSeq(p \o q, m, n) = SubSeq(q, m - Len(p), n - Len(p))
    BY <2>2, SubSeqOfConcat2
  <2>5. SubSeq(q, 1, Len(q)) = q
    BY SubSeqFull
  <2>. QED BY <1>1, <2>3, <2>4, <2>5 DEF m, n
<1>. QED BY <1>2, <1>3

LEMMA PutImplements == ASSUME DInv, PutRequest PROVE Log!Submit
<1>1. CInv
  BY DEF DInv
<1>2. /\ numLogRequests' = numLogRequests + 1
      /\ UNCHANGED <<getRequestsBuffer, copyData, tx, orphans, committed, lost>>
      /\ \/ UNCHANGED requests /\ dropped' = dropped \cup {numLogRequests'}
         \/ UNCHANGED dropped /\ InSeq(requests') = InSeq(requests) \cup {numLogRequests'}
  BY <1>1, PutEffect
<1>3. \/ Pending' = Pending /\ (lost \cup dropped)' = (lost \cup dropped) \cup {numLogRequests'}
      \/ Pending' = Pending \cup {numLogRequests'} /\ (lost \cup dropped)' = (lost \cup dropped)
  BY <1>2 DEF Pending, InTransactions, InOrphans
<1>. QED BY <1>2, <1>3 DEF Log!Submit

LEMMA InnerImplements ==
  ASSUME DInv, GetBuffered \/ MoveRequests \/ SendBatch
  PROVE  UNCHANGED <<numLogRequests, Pending, committed, lost \cup dropped>>
<1>1. CInv
  BY DEF DInv
<1>2. CASE GetBuffered \/ MoveRequests
  <2>1. copyData = <<>> /\ UNCHANGED <<tx, orphans, committed, lost, dropped, numLogRequests>>
    BY <1>1, <1>2, TakesBatch DEF server
  <2>2. PICK q \in Seq(Submitted) :
          /\ \/ q = getRequestsBuffer /\ UNCHANGED requests
             \/ q = requests /\ getRequestsBuffer = <<>> /\ requests' = <<>>
          /\ copyData' = Batch(q) /\ getRequestsBuffer' = Rest(q)
    BY <1>1, <1>2, TakesBatch
  <2>3. InSeq(copyData') \cup InSeq(getRequestsBuffer') = InSeq(q)
    BY <2>2, SplitRows
  <2>4. Pending' = Pending
    BY <2>1, <2>2, <2>3, EmptyRows DEF Pending, InTransactions, InOrphans
  <2>. QED BY <2>1, <2>4
<1>3. CASE SendBatch
  <2>. DEFINE c == currentConnectionNum
  <2>1. /\ c \in Connections /\ copyData' = <<>>
        /\ UNCHANGED <<requests, getRequestsBuffer, orphans, committed, lost, numLogRequests,
                       dropped>>
        /\ \A d \in Connections \ {c} : tx'[d] = tx[d]
        /\ InSeq(tx'[c]) = InSeq(tx[c]) \cup InSeq(copyData)
    BY <1>1, <1>3, SendEffect
  <2>. HIDE DEF c
  <2>2. InTransactions' = InTransactions \cup InSeq(copyData)
    BY <2>1 DEF InTransactions
  <2>3. Pending' = Pending
    BY <2>1, <2>2, EmptyRows DEF Pending, InOrphans
  <2>. QED BY <2>1, <2>3
<1>. QED BY <1>2, <1>3

\* The connections are closed, or the containers emptied.
LEMMA FailureImplements ==
  ASSUME DInv, DbFailure \/ Finish \/ StopAfterFailure
  PROVE  Log!GiveUp
<1>1. CInv
  BY DEF DInv
<1>2. Handed \cap InBackend = {}
      /\ InSeq(copyData) \cap (InSeq(getRequestsBuffer) \cup InSeq(requests)) = {}
  BY HandedOnce
<1>3. ASSUME NEW failed \in SUBSET Pending, Pending' = Pending \ failed,
             (lost \cup dropped)' = (lost \cup dropped) \cup failed,
             UNCHANGED <<numLogRequests, committed>>
      PROVE  Log!GiveUp
  BY <1>3 DEF Log!GiveUp
<1>4. CASE DbFailure \/ Finish
  <2>1. /\ UNCHANGED <<requests, getRequestsBuffer, committed, numLogRequests, dropped>>
        /\ copyData' = <<>> /\ tx' = [c \in Connections |-> <<>>]
        /\ orphans' = orphans \cup {tx[c] : c \in {d \in Connections : session[d] = "ended"}}
        /\ lost' = lost \cup RolledBack
    BY <1>1, <1>4, CloseEffect
  <2>. DEFINE Kept == UNION {InSeq(tx[c]) : c \in {d \in Connections : session[d] = "ended"}}
  <2>2. InTransactions' = {} /\ InOrphans' = InOrphans \cup Kept
    BY <2>1, EmptyRows DEF InTransactions, InOrphans
  <2>3. Pending' = InSeq(getRequestsBuffer) \cup InSeq(requests) \cup InOrphans \cup Kept
    BY <2>1, <2>2, EmptyRows DEF Pending
  <2>4. InTransactions = Kept
                           \cup UNION {InSeq(tx[c]) : c \in {d \in Connections : session[d] = "copying"}}
    <3>1. ASSUME NEW c \in Connections, session[c] \notin {"copying", "ended"}
          PROVE  InSeq(tx[c]) = {}
      BY <1>1, <3>1, EmptyRows DEF CInv, Sessions
    <3>. QED BY <3>1 DEF InTransactions
  <2>5. Pending = Pending' \cup RolledBack
    BY <2>3, <2>4 DEF Pending, RolledBack
  <2>6. Pending' \cap RolledBack = {}
    <3>1. \A r \in RolledBack :
             \/ r \in InSeq(copyData)
             \/ \E c \in Connections : session[c] = "copying" /\ r \in InSeq(tx[c])
      BY DEF RolledBack
    <3>2. InOrphans \cup Kept \subseteq Handed
      BY DEF Handed, InOrphans, InTransactions
    <3>3. ASSUME NEW r \in InSeq(copyData) PROVE r \notin Pending'
      BY <1>2, <2>3, <3>2, <3>3 DEF InBackend
    <3>4. ASSUME NEW c \in Connections, session[c] = "copying", NEW r \in InSeq(tx[c])
          PROVE  r \notin Pending'
      <4>1. r \notin InSeq(getRequestsBuffer) \cup InSeq(requests)
        BY <1>2, <3>4 DEF Handed, InTransactions, InBackend
      <4>2. r \notin InOrphans
        BY <3>4 DEF DInv, Separate, InOrphans
      <4>3. r \notin Kept
        BY <3>4 DEF DInv, Separate
      <4>. QED BY <2>3, <4>1, <4>2, <4>3
    <3>. QED BY <3>1, <3>3, <3>4
  <2>7. RolledBack \in SUBSET Pending /\ Pending' = Pending \ RolledBack
    BY <2>5, <2>6
  <2>8. (lost \cup dropped)' = (lost \cup dropped) \cup RolledBack
    BY <2>1
  <2>. QED BY <1>3, <2>1, <2>7, <2>8
<1>5. CASE StopAfterFailure
  <2>. DEFINE failed == InSeq(requests) \cup InSeq(getRequestsBuffer)
  <2>1. /\ requests' = <<>> /\ getRequestsBuffer' = <<>> /\ copyData = <<>> /\ copyData' = <<>>
        /\ dropped' = dropped \cup InSeq(requests) \cup InSeq(getRequestsBuffer)
        /\ UNCHANGED <<tx, orphans, committed, lost, numLogRequests>>
    BY <1>1, <1>5, StopEffect
  <2>2. /\ Pending = failed \cup InTransactions \cup InOrphans
        /\ Pending' = InTransactions \cup InOrphans
    BY <2>1, EmptyRows DEF Pending, InTransactions, InOrphans
  <2>3. failed \cap (InTransactions \cup InOrphans) = {}
    BY <1>2 DEF Handed, InBackend
  <2>4. failed \in SUBSET Pending /\ Pending' = Pending \ failed
    BY <2>2, <2>3
  <2>5. (lost \cup dropped)' = (lost \cup dropped) \cup failed
    BY <2>1
  <2>. QED BY <1>3, <2>1, <2>4, <2>5
<1>. QED BY <1>4, <1>5

\* A transaction is logged as a whole, or given up as a whole.
LEMMA DatabaseImplements == ASSUME DInv, Database PROVE Log!Log \/ Log!GiveUp
<1>1. CInv
  BY DEF DInv
<1>2. UNCHANGED <<requests, getRequestsBuffer, copyData, numLogRequests, dropped>>
  BY <1>1, DatabaseEffect
<1>3. PICK rows \in Seq(Submitted) :
        /\ \/ committed' = committed \o rows /\ lost' = lost
           \/ committed' = committed /\ lost' = lost \cup InSeq(rows)
        /\ \/ rows \in orphans /\ orphans' = orphans \ {rows} /\ tx' = tx
           \/ /\ orphans' = orphans
              /\ \E c \in Connections :
                   rows = tx[c] /\ tx' = [tx EXCEPT ![c] = <<>>]
  BY <1>1, DatabaseEffect
<1>4. tx \in [Connections -> Seq(Submitted)] /\ committed \in Seq(Submitted)
  BY <1>1, RowsInRange
<1>5. InBackend \cap Handed = {} /\ InBackend' = InBackend
  BY <1>2, HandedOnce DEF InBackend
<1>6. /\ Increasing(rows) /\ InSeq(rows) \subseteq InTransactions \cup InOrphans
      /\ InTransactions' \cup InOrphans' = (InTransactions \cup InOrphans) \ InSeq(rows)
  <2>1. CASE rows \in orphans /\ orphans' = orphans \ {rows} /\ tx' = tx
    <3>1. InTransactions' = InTransactions /\ InTransactions \cap InSeq(rows) = {}
      BY <2>1 DEF InTransactions, DInv, Separate
    <3>2. InOrphans' = InOrphans \ InSeq(rows) /\ InSeq(rows) \subseteq InOrphans
      BY <2>1 DEF InOrphans, DInv, Separate
    <3>3. Increasing(rows)
      BY <2>1 DEF DInv, Order
    <3>. QED BY <3>1, <3>2, <3>3
  <2>2. CASE /\ orphans' = orphans
             /\ \E c \in Connections : rows = tx[c] /\ tx' = [tx EXCEPT ![c] = <<>>]
    <3>1. PICK c \in Connections : rows = tx[c] /\ tx' = [tx EXCEPT ![c] = <<>>]
      BY <2>2
    <3>2. /\ InSeq(tx'[c]) = {}
          /\ \A d \in Connections \ {c} : tx'[d] = tx[d] /\ InSeq(tx[d]) \cap InSeq(rows) = {}
      BY <1>4, <3>1, EmptyRows DEF DInv, Separate
    <3>3. InTransactions' = InTransactions \ InSeq(rows) /\ InSeq(rows) \subseteq InTransactions
      BY <3>1, <3>2 DEF InTransactions
    <3>4. InOrphans' = InOrphans /\ InOrphans \cap InSeq(rows) = {}
      BY <2>2, <3>1 DEF InOrphans, DInv, Separate
    <3>5. Increasing(rows)
      BY <3>1 DEF DInv, Order
    <3>. QED BY <3>3, <3>4, <3>5
  <2>. QED BY <1>3, <2>1, <2>2
<1>7. InSeq(rows) \subseteq Pending /\ Pending' = Pending \ InSeq(rows)
  <2>1. Pending = InBackend \cup InTransactions \cup InOrphans
    BY PendingParts
  <2>2. Pending' = InBackend' \cup InTransactions' \cup InOrphans'
    BY DEF Pending, InBackend
  <2>3. InBackend \cap InSeq(rows) = {}
    BY <1>5, <1>6 DEF Handed
  <2>. QED BY <1>5, <1>6, <2>1, <2>2, <2>3
<1>8. CASE committed' = committed \o rows /\ lost' = lost
  <2>1. SubSeq(committed', Len(committed) + 1, Len(committed')) = rows
    BY <1>4, <1>8, AppendedRows
  <2>2. Log!Increasing(rows) /\ Log!InSeq(rows) = InSeq(rows)
    BY <1>6 DEF Log!Increasing, Log!InSeq, Increasing, InSeq
  <2>3. UNCHANGED <<numLogRequests, lost \cup dropped>>
    BY <1>2, <1>8
  <2>. QED BY <1>7, <1>8, <2>1, <2>2, <2>3 DEF Log!Log
<1>9. CASE committed' = committed /\ lost' = lost \cup InSeq(rows)
  <2>1. (lost \cup dropped)' = (lost \cup dropped) \cup InSeq(rows)
    BY <1>2, <1>9
  <2>. QED BY <1>2, <1>7, <1>9, <2>1 DEF Log!GiveUp
<1>. QED BY <1>3, <1>8, <1>9

\* With all its buffers, overlapping transactions, lost connections and late
\* answers the logger does what RequestLog promises: each request is logged once
\* or given up, and a transaction as a whole.
THEOREM LoggerImplementsRequestLog == Spec => ImplementsRequestLog
<1>1. Init => Log!Init
  <2>. SUFFICES ASSUME Init PROVE Log!Init
    OBVIOUS
  <2>1. Pending = {}
    BY EmptyRows DEF Init, Pending, InTransactions, InOrphans
  <2>. QED BY <2>1 DEF Init, Log!Init
<1>2. ASSUME DInv, [Next]_vars PROVE [Log!Next]_(Log!vars)
  <2>0. CInv
    BY <1>2 DEF DInv
  <2>1. CASE \/ Connect \/ ConnectFails \/ UseConnection \/ StartCopy \/ WaitForRequest
             \/ SleepForMore \/ EndCopy \/ AwaitCommit \/ Reconnect \/ SpuriousWakeup
             \/ RequestStop \/ Outage \/ OutageEnds \/ UNCHANGED vars
    <3>1. UNCHANGED data /\ UNCHANGED <<numLogRequests, dropped>>
      BY <2>0, <2>1, QuietSteps
    <3>2. UNCHANGED Pending
      BY <3>1 DEF data, Pending, InTransactions, InOrphans
    <3>. QED BY <3>1, <3>2 DEF data, Log!vars
  <2>2. CASE PutRequest
    BY <1>2, <2>2, PutImplements DEF Log!Next
  <2>3. CASE GetBuffered \/ MoveRequests \/ SendBatch
    BY <1>2, <2>3, InnerImplements DEF Log!vars
  <2>4. CASE DbFailure \/ Finish \/ StopAfterFailure
    BY <1>2, <2>4, FailureImplements DEF Log!Next
  <2>5. CASE Database
    BY <1>2, <2>5, DatabaseImplements DEF Log!Next
  <2>. QED BY <1>2, <2>1, <2>2, <2>3, <2>4, <2>5 DEF Next, LoggerThread
<1>. QED BY <1>1, <1>2, DInvInit, DInvNext, PTL DEF Spec, Log!Spec, ImplementsRequestLog

-----------------------------------------------------------------------------
(* When nothing fails *)

Calm == ~disturbed /\ Malformed \cap Submitted = {}

NothingFailed ==
  /\ cut = {} /\ reachable /\ orphans = {} /\ lost = {} /\ pc # "dbFailure"
  /\ \A c \in Connections : session[c] # "error"
  /\ pc = "finished" => Pending = {}

CalmInv == CInv /\ (Calm => NothingFailed)

LEMMA CalmInit == Init => CalmInv
<1>. SUFFICES ASSUME Init PROVE CalmInv
  OBVIOUS
<1>1. CInv
  BY CInvInit
<1>2. NothingFailed
  BY DEF Init, NothingFailed
<1>. QED BY <1>1, <1>2 DEF CalmInv

\* An end of the thread that is not a failure has seen every commit.
LEMMA FinishCommitsAll ==
  ASSUME CInv, Finish, \A c \in Connections : ~CommitFails(c)
  PROVE  /\ \A c \in Connections : session[c] \notin {"ended", "copying"} /\ tx[c] = <<>>
         /\ copyData = <<>> /\ requests = <<>> /\ getRequestsBuffer = <<>>
<1>1. pc = "awaitCommits" /\ NextToDrain \notin Connections
  BY DEF Finish, Goto
<1>2. drained \subseteq Connections
  BY Types DEF CInv, ThreadTypes
<1>3. drained = Connections
  <2>. DEFINE N == NumConnections
              top == N - 1
  <2>1. N \in Nat /\ top \in Int /\ 0 \in Int
    BY Sizes
  <2>2. top - 0 + 1 = N /\ 0 <= top
    BY Sizes
  <2>. HIDE DEF top
  <2>3. IsFiniteSet(0..top) /\ Cardinality(0..top) = IF 0 > top THEN 0 ELSE top - 0 + 1
    BY <2>1, FS_Interval
  <2>4. IsFiniteSet(Connections) /\ Cardinality(Connections) = N
    BY <2>1, <2>2, <2>3 DEF Connections, top
  <2>5. Cardinality(drained) <= Cardinality(Connections) /\ Cardinality(drained) \in Nat
        /\ (Cardinality(drained) = Cardinality(Connections) => drained = Connections)
    BY <1>2, <2>4, FS_Subset, FS_CardinalityType
  <2>6. Cardinality(drained) \notin 0..N - 1
    BY <1>1 DEF NextToDrain, Connections
  <2>. QED BY <2>1, <2>4, <2>5, <2>6
<1>4. copyData = <<>> /\ requests = <<>> /\ getRequestsBuffer = <<>>
  BY <1>1 DEF CInv, Buffers, Stops
<1>5. ASSUME NEW c \in Connections
      PROVE  session[c] \notin {"ended", "copying"} /\ tx[c] = <<>>
  <2>1. needsCommit[c] => session[c] = "ok"
    BY <1>1, <1>3 DEF CInv, Stops
  <2>2. ~needsCommit[c] => session[c] = "idle"
    BY <1>1 DEF CInv, Sessions, Disconnected, Copying
  <2>3. session[c] \in {"ok", "idle"}
    BY <2>1, <2>2
  <2>. QED BY <2>3 DEF CInv, Sessions
<1>. QED BY <1>4, <1>5

LEMMA CalmNext == ASSUME CalmInv, [Next]_vars PROVE CalmInv'
<1>. USE DEF CalmInv
<1>1. CInv'
  BY CInvNext
<1>. SUFFICES ASSUME Calm' PROVE NothingFailed'
  BY <1>1
<1>2. Calm
  <2>1. disturbed' \in {disturbed, TRUE}
    BY DEF Next, LoggerThread, Database, Connect, ConnectFails, UseConnection, StartCopy,
           GetBuffered, WaitForRequest, SleepForMore, MoveRequests, SendBatch, EndCopy,
           AwaitCommit, DbFailure, Finish, ClosePool, StopAfterFailure, Reconnect, ServerEnds,
           OrphanEnds, PutRequest, RequestStop, SpuriousWakeup, Outage, OutageEnds, server, vars
  <2>2. numLogRequests \in Nat /\ numLogRequests' \in {numLogRequests, numLogRequests + 1}
    <3>1. numLogRequests \in Nat
      BY RowsInRange
    <3>. QED
      BY <3>1
      DEF Next, LoggerThread, Database, Connect, ConnectFails, UseConnection, StartCopy,
          GetBuffered, WaitForRequest, SleepForMore, MoveRequests, SendBatch, EndCopy,
          AwaitCommit, DbFailure, Finish, StopAfterFailure, Reconnect, ServerEnds,
          OrphanEnds, PutRequest, RequestStop, SpuriousWakeup, Outage, OutageEnds, container,
          vars
  <2>3. Submitted \subseteq Submitted'
    BY <2>2 DEF Submitted
  <2>4. Booleans
    BY Types DEF CInv
  <2>. QED BY <2>1, <2>3, <2>4 DEF Calm, Booleans
<1>3. NothingFailed
  BY <1>2
<1>. USE <1>3 DEF NothingFailed
<1>4. CASE Connect
  <2>1. UNCHANGED <<orphans, lost, reachable>> /\ pc' = "useConnection" /\ cut' = {}
        /\ session' = [c \in Connections |-> "idle"]
    BY <1>4 DEF Connect, Goto
  <2>. QED BY <2>1
<1>5. CASE StartCopy \/ EndCopy
  <2>1. UNCHANGED <<orphans, lost, reachable, cut>>
        /\ pc' \in {"getRequests", "awaitCommits", "useConnection"}
    BY <1>5 DEF StartCopy, EndCopy, Goto
  <2>2. \E c \in Connections : \/ session' = [session EXCEPT ![c] = "copying"]
                              \/ session' = [session EXCEPT ![c] = "ended"]
    BY <1>5, Types DEF StartCopy, EndCopy, CInv, ThreadTypes
  <2>3. session \in [Connections -> SessionStates]
    BY RowsInRange
  <2>. QED BY <2>1, <2>2, <2>3
<1>6. CASE \/ UseConnection \/ GetBuffered \/ WaitForRequest \/ SleepForMore \/ MoveRequests
           \/ SendBatch \/ AwaitCommit \/ SpuriousWakeup
  <2>1. UNCHANGED <<orphans, lost, reachable, cut, session>>
        /\ pc' \notin {"finished", "dbFailure"}
    BY <1>6
    DEF UseConnection, GetBuffered, WaitForRequest, SleepForMore, MoveRequests, Deliver,
        SendBatch, AwaitCommit, SpuriousWakeup, Goto, server
  <2>. QED BY <2>1
<1>7. CASE ConnectFails \/ DbFailure \/ StopAfterFailure \/ Reconnect
  <2>1. currentConnectionNum \in Connections
    BY Types DEF CInv, ThreadTypes
  <2>2. FALSE
    BY <1>7, <2>1
    DEF ConnectFails, DbFailure, StopAfterFailure, Reconnect, Goto, CommitFails
  <2>. QED BY <2>2
<1>8. CASE Finish
  <2>1. \A c \in Connections : ~CommitFails(c)
    BY DEF CommitFails
  <2>2. /\ \A c \in Connections : session[c] \notin {"ended", "copying"} /\ tx[c] = <<>>
        /\ copyData = <<>> /\ requests = <<>> /\ getRequestsBuffer = <<>>
    BY <1>8, <2>1, FinishCommitsAll
  <2>3. /\ UNCHANGED <<requests, getRequestsBuffer>>
        /\ copyData' = <<>> /\ tx' = [c \in Connections |-> <<>>]
        /\ orphans' = orphans \cup {tx[c] : c \in {d \in Connections : session[d] = "ended"}}
        /\ lost' = lost \cup RolledBack
    BY <1>8, CloseEffect
  <2>4. orphans' = {} /\ lost' = {}
    BY <2>2, <2>3, EmptyRows DEF RolledBack
  <2>5. Pending' = {}
    BY <2>2, <2>3, <2>4, EmptyRows DEF Pending, InTransactions, InOrphans
  <2>6. cut' = {} /\ reachable' = reachable /\ pc' = "finished"
        /\ session' = [c \in Connections |-> "none"]
    BY <1>8 DEF Finish, ClosePool, Goto
  <2>. QED BY <2>4, <2>5, <2>6
<1>9. CASE Database
  <2>1. PICK c \in Connections : ServerEnds(c)
    BY <1>9 DEF Database
  <2>2. InSeq(tx[c]) \subseteq Submitted
    BY RowsInRange
  <2>3. ~Rejected(tx[c]) /\ c \notin cut
    BY <1>2, <2>2 DEF Rejected, Calm
  <2>4. /\ session' = [session EXCEPT ![c] = "ok"] /\ session[c] = "ended"
        /\ UNCHANGED <<lost, orphans, cut, reachable, pc>>
    BY <2>1, <2>3 DEF ServerEnds
  <2>5. pc # "finished"
    BY <2>4 DEF CInv, Sessions, Disconnected
  <2>6. session \in [Connections -> SessionStates]
    BY RowsInRange
  <2>. QED BY <2>4, <2>5, <2>6
<1>10. CASE PutRequest
  <2>1. /\ UNCHANGED <<orphans, lost, reachable, cut, session, tx, copyData, getRequestsBuffer>>
        /\ pc' = pc \/ pc' = "woken"
        /\ stopRequested => UNCHANGED requests
    BY <1>10 DEF PutRequest, server, thread, NotifyIfWasEmpty, Notify
  <2>2. pc = "finished" => stopRequested
    BY DEF CInv, Stops
  <2>3. pc' = "finished" => Pending' = Pending /\ pc = "finished"
    BY <2>1, <2>2 DEF Pending, InTransactions, InOrphans
  <2>. QED BY <2>1, <2>3
<1>11. CASE RequestStop \/ UNCHANGED vars
  <2>1. /\ UNCHANGED <<orphans, lost, reachable, cut, session, tx, copyData, getRequestsBuffer,
                       requests>>
        /\ pc' = pc \/ pc' = "woken"
    BY <1>11 DEF RequestStop, Notify, vars, container, thread, server
  <2>2. pc' = "finished" => Pending' = Pending /\ pc = "finished"
    BY <2>1 DEF Pending, InTransactions, InOrphans
  <2>. QED BY <2>1, <2>2
<1>12. CASE Outage \/ OutageEnds
  <2>1. FALSE
    BY <1>12 DEF Outage, OutageEnds, Calm
  <2>. QED BY <2>1
<1>. QED BY <1>4, <1>5, <1>6, <1>7, <1>8, <1>9, <1>10, <1>11, <1>12 DEF Next, LoggerThread

\* While the database is there and accepts the rows, a stop of the logger ends with
\* every request committed, or dropped when it was put.
THEOREM LoggerCalmStop == Spec => []CalmStopCommitsAll
<1>1. CalmInv => CalmStopCommitsAll
  BY DEF CalmInv, Calm, NothingFailed, CalmStopCommitsAll, StopCommitsAll
<1>. QED BY <1>1, CalmInit, CalmNext, PTL DEF Spec
=============================================================================
