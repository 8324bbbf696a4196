--------------------------- MODULE SocketPoolProofs ---------------------------
(***************************************************************************)
(* Proofs about SocketPool for any number of threads, slots and any limits *)
(* of the pool and of the dealer queue.                                    *)
(***************************************************************************)
EXTENDS SocketPool, FiniteSetTheorems, SequenceTheorems, TLAPS

-----------------------------------------------------------------------------
(* Sequences without duplicates, used as the list of the pool *)

Elems(q) == {q[i] : i \in DOMAIN q}
Distinct(q) == \A i, j \in DOMAIN q : q[i] = q[j] => i = j

\* pop_front() removes exactly the first element.
LEMMA PopFront ==
  ASSUME NEW S, NEW q \in Seq(S), q # <<>>, Distinct(q)
  PROVE  /\ Tail(q) \in Seq(S) /\ Distinct(Tail(q))
         /\ Head(q) \in S /\ Head(q) \in Elems(q)
         /\ Elems(Tail(q)) = Elems(q) \ {Head(q)}
<1>1. /\ Tail(q) \in Seq(S) /\ Len(q) \in Nat /\ Len(q) >= 1
      /\ Len(Tail(q)) = Len(q) - 1
      /\ \A i \in 1..Len(q) - 1 : Tail(q)[i] = q[i + 1]
      /\ Head(q) = q[1]
  BY HeadTailProperties, EmptySeq, LenProperties
<1>2. DOMAIN q = 1..Len(q) /\ DOMAIN Tail(q) = 1..Len(q) - 1
  BY <1>1, LenProperties
<1>3. Distinct(Tail(q))
  BY <1>1, <1>2 DEF Distinct
<1>4. Head(q) \in S /\ Head(q) \in Elems(q)
  BY <1>1, <1>2, ElementOfSeq DEF Elems
<1>5. ASSUME NEW x \in Elems(Tail(q))  PROVE x \in Elems(q) \ {Head(q)}
  <2>1. PICK i \in 1..Len(q) - 1 : x = q[i + 1]
    BY <1>1, <1>2, <1>5 DEF Elems
  <2>2. i + 1 \in DOMAIN q /\ 1 \in DOMAIN q /\ i + 1 # 1
    BY <1>1, <1>2
  <2>3. QED  BY <1>1, <2>1, <2>2 DEF Elems, Distinct
<1>6. ASSUME NEW x \in Elems(q), x # Head(q)  PROVE x \in Elems(Tail(q))
  <2>1. PICK i \in 1..Len(q) : x = q[i] /\ i # 1
    BY <1>1, <1>2, <1>6 DEF Elems
  <2>2. i - 1 \in 1..Len(q) - 1 /\ (i - 1) + 1 = i
    BY <1>1, <2>1
  <2>3. QED  BY <1>1, <1>2, <2>1, <2>2 DEF Elems
<1>7. QED  BY <1>1, <1>3, <1>4, <1>5, <1>6

\* push_front() of a new element adds exactly that element.
LEMMA PushFront ==
  ASSUME NEW S, NEW q \in Seq(S), NEW x \in S, Distinct(q), x \notin Elems(q)
  PROVE  /\ <<x>> \o q \in Seq(S) /\ Distinct(<<x>> \o q)
         /\ Elems(<<x>> \o q) = Elems(q) \cup {x}
<1> DEFINE r == <<x>> \o q
<1>1. <<x>> \in Seq(S) /\ Len(<<x>>) = 1 /\ <<x>>[1] = x
  OBVIOUS
<1>2. /\ r \in Seq(S) /\ Len(q) \in Nat /\ Len(r) = Len(q) + 1 /\ r[1] = x
      /\ \A i \in 1..Len(q) : r[i + 1] = q[i]
  BY <1>1, ConcatProperties, LenProperties
<1>3. DOMAIN q = 1..Len(q) /\ DOMAIN r = 1..Len(q) + 1
  BY <1>2, LenProperties
<1>4. ASSUME NEW i \in DOMAIN r
      PROVE  i = 1 \/ (i - 1 \in DOMAIN q /\ r[i] = q[i - 1])
  <2>1. CASE i # 1
    <3>1. i - 1 \in 1..Len(q) /\ (i - 1) + 1 = i  BY <1>2, <1>3, <2>1
    <3>2. QED  BY <1>2, <1>3, <3>1
  <2>2. QED  BY <2>1
<1>5. Distinct(r)
  <2> SUFFICES ASSUME NEW i \in DOMAIN r, NEW j \in DOMAIN r, r[i] = r[j]
               PROVE  i = j
    BY DEF Distinct
  <2>1. i \in Int /\ j \in Int  BY <1>3
  <2>2. QED  BY <1>2, <1>4, <2>1 DEF Distinct, Elems
<1>6. Elems(r) = Elems(q) \cup {x}
  <2>1. ASSUME NEW y \in Elems(r)  PROVE y \in Elems(q) \cup {x}
    BY <1>2, <1>4 DEF Elems
  <2>2. x \in Elems(r)  BY <1>2, <1>3 DEF Elems
  <2>3. ASSUME NEW y \in Elems(q)  PROVE y \in Elems(r)
    <3>1. PICK i \in 1..Len(q) : y = q[i]  BY <1>3 DEF Elems
    <3>2. i + 1 \in DOMAIN r /\ r[i + 1] = y  BY <1>2, <1>3, <3>1
    <3>3. QED  BY <3>2 DEF Elems
  <2>4. QED  BY <2>1, <2>2, <2>3
<1>7. QED  BY <1>2, <1>5, <1>6

\* Closing a socket changes no queue but the live fields.
LEMMA OrphanType ==
  ASSUME NEW q \in Seq(Request), NEW s
  PROVE  /\ Orphan(q, s) \in Seq(Request)
         /\ DOMAIN Orphan(q, s) = DOMAIN q
<1>1. DOMAIN q = 1..Len(q) /\ Len(q) \in Nat
  BY LenProperties
<1>2. ASSUME NEW i \in DOMAIN q
      PROVE  Orphan(q, s)[i] \in Request
  <2>1. q[i] \in Request  BY <1>1, ElementOfSeq
  <2>2. QED  BY <2>1 DEF Orphan, Request
<1>3. Orphan(q, s) \in [1..Len(q) -> Request]
  BY <1>1, <1>2 DEF Orphan
<1>4. QED  BY <1>1, <1>3, SeqDef DEF Orphan
-----------------------------------------------------------------------------
(* The inductive invariant *)

Owned == Pooled \cup InUse

\* A socket in the list or with a thread is open: its slot cannot be given to
\* somebody else.
OwnedOpen ==
  /\ \A s \in Pooled : zmq[s] \in {"open", "awaiting"}
  /\ \A t \in Threads : sock[t] # NoSocket => zmq[sock[t]] \in {"open", "awaiting"}

IInv == TypeOK /\ OneOwner /\ OwnedOpen /\ SocketsAccounted

LEMMA PooledElems == Pooled = Elems(socketList)
  BY DEF Pooled, Elems

\* The owned sockets are slots of the context, hence finitely many.
LEMMA OwnedFinite ==
  ASSUME TypeOK, OneOwner
  PROVE  Pooled \subseteq Sockets /\ InUse \subseteq Sockets /\ IsFiniteSet(Owned)
<1>1. Pooled \subseteq Sockets
  BY ElementOfSeq, LenProperties DEF TypeOK, Pooled
<1>2. InUse \subseteq Sockets
  BY DEF TypeOK, OneOwner, InUse, Holding
<1>3. IsFiniteSet(Owned)
  BY <1>1, <1>2, FS_Subset, SocketsAssumption DEF Owned
<1>4. QED  BY <1>1, <1>2, <1>3

\* What the pool's counter depends on: a step that keeps the set of owned
\* sockets may keep the counter, one that adds or removes a socket moves it by
\* one.
LEMMA CounterSteps ==
  ASSUME TypeOK, OneOwner, SocketsAccounted, NEW s \in Sockets
  PROVE  /\ s \in Owned => /\ numSockets - 1 \in 0..maxSockets
                           /\ Cardinality(Owned \ {s}) = numSockets - 1
         /\ s \notin Owned => Cardinality(Owned \cup {s}) = numSockets + 1
<1>1. IsFiniteSet(Owned) /\ numSockets = Cardinality(Owned)
  BY OwnedFinite DEF SocketsAccounted, Owned
<1>2. numSockets \in 0..maxSockets /\ maxSockets \in Nat
  BY LimitsAssumption DEF TypeOK
<1>3. s \in Owned => Owned # {} /\ Cardinality(Owned) # 0
  BY <1>1, FS_EmptySet
<1>4. s \in Owned => Cardinality(Owned \ {s}) = numSockets - 1
  BY <1>1, FS_RemoveElement
<1>5. s \notin Owned => Cardinality(Owned \cup {s}) = numSockets + 1
  BY <1>1, FS_AddElement
<1>6. QED  BY <1>1, <1>2, <1>3, <1>4, <1>5

\* The states a thread can be moved to by NotifyOne(t, p).
LEMMA NotifyOneEffect ==
  ASSUME TypeOK, NEW t \in Threads, NEW p \in Program, NotifyOne(t, p),
         pc[t] # "waiting"
  PROVE  /\ pc' \in [Threads -> Program]
         /\ pc'[t] = p
         /\ \A u \in Threads : u # t =>
              \/ pc'[u] = pc[u]
              \/ pc[u] = "waiting" /\ pc'[u] = "woken"
<1>1. CASE Waiters = {}
  BY <1>1 DEF NotifyOne, TypeOK
<1>2. CASE Waiters # {}
  <2>1. PICK w \in Waiters : pc' = [pc EXCEPT ![t] = p, ![w] = "woken"]
    BY <1>2 DEF NotifyOne
  <2>2. w \in Threads /\ pc[w] = "waiting" /\ w # t /\ "woken" \in Program
    BY <2>1 DEF Waiters, Program
  <2>3. QED  BY <2>1, <2>2 DEF TypeOK
<1>3. QED  BY <1>1, <1>2

\* Initially no socket exists.
LEMMA InitIInv == Init => IInv
<1> SUFFICES ASSUME Init PROVE IInv
  OBVIOUS
<1>1. TypeOK
  BY LimitsAssumption DEF Init, TypeOK, Program, ZmqStates
<1>2. Pooled = {} /\ InUse = {}
  BY DEF Init, Pooled, InUse, Holding
<1>3. OneOwner /\ OwnedOpen
  BY <1>2 DEF Init, OneOwner, OwnedOpen, Holding
<1>4. SocketsAccounted
  BY <1>2, FS_EmptySet DEF Init, SocketsAccounted
<1>5. QED  BY <1>1, <1>3, <1>4 DEF IInv

\* A step that changes at most where non-owners stand keeps the invariant: the
\* owners, what they own and what the slots are stay as they were.
LEMMA OwnersUnchanged ==
  ASSUME IInv, UNCHANGED <<sock, numSockets, socketList>>,
         pc' \in [Threads -> Program],
         \A t \in Threads : pc'[t] \in Holding <=> pc[t] \in Holding,
         \A t \in Threads : pc'[t] = "closing" <=> pc[t] = "closing",
         zmq' \in [Sockets -> ZmqStates],
         \A s \in Sockets : zmq[s] \in {"open", "awaiting"}
                              => zmq'[s] \in {"open", "awaiting"},
         routerIn' \in Seq(Request), dealerOut' \in Seq(Request),
         inBackend' \subseteq Sockets, replies' \subseteq Sockets,
         backendUp' \in BOOLEAN
  PROVE  IInv'
<1> USE DEF IInv
<1>1. TypeOK'
  BY DEF TypeOK
<1>2. Pooled' = Pooled /\ InUse' = InUse
  BY DEF Pooled, InUse
<1>3. OneOwner'
  BY <1>2 DEF OneOwner
<1>4. OwnedOpen'
  <2>1. Pooled \subseteq Sockets  BY OwnedFinite
  <2>2. QED  BY <1>2, <2>1 DEF OwnedOpen, TypeOK
<1>5. SocketsAccounted'
  BY <1>2 DEF SocketsAccounted
<1>6. QED  BY <1>1, <1>3, <1>4, <1>5

\* Taking the head of the list moves one socket from the list to thread t.
LEMMA TakeHead ==
  ASSUME IInv, NEW t \in Threads, socketList # <<>>,
         pc[t] \in {"idle", "woken"},
         pc' \in [Threads -> Program], pc'[t] = "holding",
         \A u \in Threads : u # t => \/ pc'[u] = pc[u]
                                     \/ pc[u] = "waiting" /\ pc'[u] = "woken",
         sock' = [sock EXCEPT ![t] = Head(socketList)],
         socketList' = Tail(socketList),
         UNCHANGED <<numSockets, zmq, netVars>>
  PROVE  IInv'
<1> USE DEF IInv
<1> DEFINE s == Head(socketList)
<1>1. /\ socketList' \in Seq(Sockets) /\ Distinct(socketList')
      /\ s \in Sockets /\ s \in Pooled /\ Pooled' = Pooled \ {s}
  <2>1. Distinct(socketList) /\ socketList \in Seq(Sockets)
    BY DEF OneOwner, Distinct, TypeOK
  <2>2. Pooled' = Elems(socketList')
    BY DEF Pooled, Elems
  <2>3. QED  BY <2>1, <2>2, PopFront, PooledElems
<1>2. sock[t] = NoSocket /\ sock' \in [Threads -> Sockets \cup {NoSocket}]
  BY <1>1 DEF OneOwner, Holding, TypeOK
<1>3. TypeOK'
  BY <1>1, <1>2 DEF TypeOK, netVars
<1>4. s # NoSocket /\ \A u \in Threads : sock[u] # s
  BY <1>1, SocketsAssumption DEF OneOwner
<1>5. InUse' = InUse \cup {s}
  <2>1. \A u \in Threads : u # t => (pc'[u] \in Holding <=> pc[u] \in Holding)
    BY DEF Holding
  <2>2. sock'[t] = s /\ pc'[t] \in Holding /\ pc[t] \notin Holding
        /\ \A u \in Threads : u # t => sock'[u] = sock[u]
    BY <1>2 DEF TypeOK, Holding
  <2>3. QED  BY <2>1, <2>2 DEF InUse
<1>6. OneOwner'
  <2>1. \A i, j \in DOMAIN socketList' : socketList'[i] = socketList'[j] => i = j
    BY <1>1 DEF Distinct
  <2>2. ASSUME NEW u \in Threads
        PROVE  sock'[u] # NoSocket <=> pc'[u] \in Holding \cup {"closing"}
    BY <1>4 DEF OneOwner, Holding, TypeOK
  <2>3. ASSUME NEW u \in Threads, NEW v \in Threads,
               sock'[u] = sock'[v], sock'[u] # NoSocket
        PROVE  u = v
    BY <1>4, <2>3 DEF OneOwner, TypeOK
  <2>4. ASSUME NEW u \in Threads  PROVE sock'[u] \notin Pooled'
    BY <1>1 DEF OneOwner, TypeOK
  <2>5. QED  BY <2>1, <2>2, <2>3, <2>4 DEF OneOwner
<1>7. OwnedOpen'
  BY <1>1 DEF OwnedOpen, TypeOK
<1>8. SocketsAccounted'
  <2>1. (Pooled \cup InUse)' = Pooled \cup InUse  BY <1>1, <1>5
  <2>2. QED  BY <2>1 DEF SocketsAccounted
<1>9. QED  BY <1>3, <1>6, <1>7, <1>8

\* A new socket: one more owner, one more in the count.
LEMMA CreateStep ==
  ASSUME IInv, NEW t \in Threads, CreateSocket(t)
  PROVE  IInv'
<1> USE DEF IInv
<1>1. PICK s \in Free : /\ zmq' = [zmq EXCEPT ![s] = "open"]
                        /\ sock' = [sock EXCEPT ![t] = s]
  BY DEF CreateSocket
<1>2. /\ s \in Sockets /\ s # NoSocket /\ zmq[s] = "free"
      /\ s \notin Pooled /\ \A u \in Threads : sock[u] # s
  BY <1>1, SocketsAssumption DEF Free, OwnedOpen
<1>3. numSockets < maxSockets /\ numSockets' = numSockets + 1
  BY DEF CreateSocket, BelowLimit
<1>4. TypeOK'
  BY <1>1, <1>2, <1>3, LimitsAssumption
     DEF CreateSocket, TypeOK, ZmqStates, Program, Holding, netVars
<1>5. Pooled' = Pooled
  BY DEF CreateSocket, Pooled
<1>6. InUse' = InUse \cup {s}
  <2>1. pc'[t] \in Holding /\ pc[t] \notin Holding /\ sock'[t] = s
        /\ \A u \in Threads : u # t => pc'[u] = pc[u] /\ sock'[u] = sock[u]
    BY <1>1 DEF CreateSocket, TypeOK, Holding
  <2>2. QED  BY <2>1 DEF InUse
<1>7. s \notin Owned
  BY <1>2 DEF Owned, InUse
<1>8. OneOwner'
  BY <1>1, <1>2, <1>5 DEF CreateSocket, OneOwner, TypeOK, Holding
<1>9. OwnedOpen'
  BY <1>1, <1>2, <1>5, OwnedFinite DEF OwnedOpen, TypeOK
<1>10. SocketsAccounted'
  <2>1. (Pooled \cup InUse)' = Owned \cup {s}  BY <1>5, <1>6 DEF Owned
  <2>2. QED  BY <1>2, <1>3, <1>7, <2>1, CounterSteps DEF SocketsAccounted
<1>11. QED  BY <1>4, <1>8, <1>9, <1>10

\* A returned socket goes from its thread to the list.
LEMMA ReturnStep ==
  ASSUME IInv, NEW t \in Threads, ReturnSocket(t)
  PROVE  IInv'
<1> USE DEF IInv
<1> DEFINE s == sock[t]
<1>1. /\ pc[t] = "received" /\ s \in Sockets /\ s # NoSocket
      /\ s \notin Pooled /\ s \in InUse
  BY DEF ReturnSocket, OneOwner, TypeOK, Holding, InUse
<1>2. /\ pc' \in [Threads -> Program] /\ pc'[t] = "idle"
      /\ \A u \in Threads : u # t => \/ pc'[u] = pc[u]
                                     \/ pc[u] = "waiting" /\ pc'[u] = "woken"
  <2>1. "idle" \in Program  BY DEF Program
  <2>2. CASE socketList = <<>>
    BY <1>1, <2>1, <2>2, NotifyOneEffect DEF ReturnSocket
  <2>3. CASE socketList # <<>>
    BY <1>1, <2>1, <2>3 DEF ReturnSocket, TypeOK
  <2>4. QED  BY <2>2, <2>3
<1>3. /\ socketList' \in Seq(Sockets) /\ Distinct(socketList')
      /\ Pooled' = Pooled \cup {s}
  <2>1. Distinct(socketList) /\ socketList \in Seq(Sockets)
    BY DEF OneOwner, Distinct, TypeOK
  <2>2. socketList' = <<s>> \o socketList  BY DEF ReturnSocket
  <2>3. Pooled' = Elems(socketList')  BY DEF Pooled, Elems
  <2>4. QED  BY <1>1, <2>1, <2>2, <2>3, PushFront, PooledElems
<1>4. sock' = [sock EXCEPT ![t] = NoSocket] /\ UNCHANGED <<numSockets, zmq, netVars>>
  BY DEF ReturnSocket
<1>5. TypeOK'
  BY <1>2, <1>3, <1>4 DEF TypeOK, netVars
<1>6. InUse' = InUse \ {s}
  <2>1. \A u \in Threads : u # t => (pc'[u] \in Holding <=> pc[u] \in Holding)
                                    /\ sock'[u] = sock[u]
    BY <1>2, <1>4 DEF Holding, TypeOK
  <2>2. pc'[t] \notin Holding  BY <1>2 DEF Holding
  <2>3. \A u \in Threads : u # t => sock[u] # s  BY <1>1 DEF OneOwner
  <2>4. QED  BY <1>1, <2>1, <2>2, <2>3 DEF InUse
<1>7. OneOwner'
  <2>1. \A i, j \in DOMAIN socketList' : socketList'[i] = socketList'[j] => i = j
    BY <1>3 DEF Distinct
  <2>2. ASSUME NEW u \in Threads
        PROVE  sock'[u] # NoSocket <=> pc'[u] \in Holding \cup {"closing"}
    BY <1>2, <1>4 DEF OneOwner, Holding, TypeOK
  <2>3. ASSUME NEW u \in Threads, NEW v \in Threads,
               sock'[u] = sock'[v], sock'[u] # NoSocket
        PROVE  u = v
    BY <1>4, <2>3 DEF OneOwner, TypeOK
  <2>4. ASSUME NEW u \in Threads  PROVE sock'[u] \notin Pooled'
    <3>1. NoSocket \notin Pooled'
      BY <1>1, <1>3, OwnedFinite, SocketsAssumption
    <3>2. u # t => sock[u] # s /\ sock[u] \notin Pooled
      BY <1>1 DEF OneOwner
    <3>3. QED  BY <1>3, <1>4, <3>1, <3>2 DEF TypeOK
  <2>5. QED  BY <2>1, <2>2, <2>3, <2>4 DEF OneOwner
<1>8. OwnedOpen'
  BY <1>1, <1>3, <1>4 DEF OwnedOpen, TypeOK
<1>9. SocketsAccounted'
  <2>1. (Pooled \cup InUse)' = Pooled \cup InUse  BY <1>1, <1>3, <1>6
  <2>2. QED  BY <1>4, <2>1 DEF SocketsAccounted
<1>10. QED  BY <1>5, <1>7, <1>8, <1>9

\* A socket that timed out leaves the count before it leaves its thread.
LEMMA DestroyStep ==
  ASSUME IInv, NEW t \in Threads, DestroySocket(t)
  PROVE  IInv'
<1> USE DEF IInv
<1> DEFINE s == sock[t]
<1>1. /\ pc[t] = "timedOut" /\ s \in Sockets /\ s # NoSocket
      /\ s \notin Pooled /\ s \in InUse
  BY DEF DestroySocket, OneOwner, TypeOK, Holding, InUse
<1>2. /\ pc' = [pc EXCEPT ![t] = "closing"] /\ numSockets' = numSockets - 1
      /\ UNCHANGED <<sock, socketList, zmq, netVars>>
  BY DEF DestroySocket, CountAfterDestroy
<1>3. s \in Owned /\ numSockets - 1 \in 0..maxSockets
      /\ Cardinality(Owned \ {s}) = numSockets - 1
  BY <1>1, CounterSteps DEF Owned
<1>4. TypeOK'
  BY <1>2, <1>3 DEF TypeOK, Program, netVars
<1>5. Pooled' = Pooled
  BY <1>2 DEF Pooled
<1>6. InUse' = InUse \ {s}
  <2>1. pc'[t] \notin Holding /\ \A u \in Threads : u # t => pc'[u] = pc[u]
    BY <1>2 DEF Holding, TypeOK
  <2>2. \A u \in Threads : u # t => sock[u] # s  BY <1>1 DEF OneOwner
  <2>3. QED  BY <1>1, <1>2, <2>1, <2>2 DEF InUse
<1>7. OneOwner'
  BY <1>1, <1>2, <1>5 DEF OneOwner, TypeOK, Holding
<1>8. OwnedOpen'
  BY <1>2, <1>5 DEF OwnedOpen
<1>9. SocketsAccounted'
  <2>1. (Pooled \cup InUse)' = Owned \ {s}  BY <1>1, <1>5, <1>6 DEF Owned
  <2>2. QED  BY <1>2, <1>3, <2>1 DEF SocketsAccounted
<1>10. QED  BY <1>4, <1>7, <1>8, <1>9

\* zmq_close() ends the ownership of a socket that left the count already.
LEMMA CloseStep ==
  ASSUME IInv, NEW t \in Threads, CloseSocket(t)
  PROVE  IInv'
<1> USE DEF IInv
<1> DEFINE s == sock[t]
<1>1. /\ pc[t] = "closing" /\ s \in Sockets /\ s # NoSocket
      /\ s \notin Pooled /\ \A u \in Threads : u # t => sock[u] # s
  BY DEF CloseSocket, OneOwner, TypeOK, Holding
<1>2. /\ pc' = [pc EXCEPT ![t] = "idle"] /\ sock' = [sock EXCEPT ![t] = NoSocket]
      /\ zmq' = [zmq EXCEPT ![s] = "closed"]
      /\ UNCHANGED <<numSockets, socketList, backendUp>>
  BY DEF CloseSocket, poolVars
<1>3. routerIn' \in Seq(Request) /\ dealerOut' \in Seq(Request)
  BY OrphanType DEF CloseSocket, TypeOK
<1>4. TypeOK'
  BY <1>2, <1>3 DEF CloseSocket, TypeOK, Program, ZmqStates
<1>5. Pooled' = Pooled
  BY <1>2 DEF Pooled
<1>6. InUse' = InUse
  BY <1>1, <1>2 DEF InUse, Holding, TypeOK
<1>7. NoSocket \notin Pooled
  BY OwnedFinite, SocketsAssumption
<1>8. OneOwner'
  BY <1>1, <1>2, <1>5, <1>7 DEF OneOwner, TypeOK, Holding
<1>9. OwnedOpen'
  BY <1>1, <1>2, <1>5, OwnedFinite DEF OwnedOpen, TypeOK
<1>10. SocketsAccounted'
  BY <1>2, <1>5, <1>6 DEF SocketsAccounted
<1>11. QED  BY <1>4, <1>8, <1>9, <1>10

\* Forwarding, taking and sending keep the queues sequences of requests.
LEMMA QueueTypes ==
  ASSUME NEW q \in Seq(Request)
  PROVE  /\ q # <<>> => Head(q) \in Request /\ Tail(q) \in Seq(Request)
         /\ \A r \in Request : Append(q, r) \in Seq(Request)
  OBVIOUS

\* Every step keeps the invariant.
LEMMA NextIInv == IInv /\ [Next]_vars => IInv'
<1> SUFFICES ASSUME IInv, [Next]_vars  PROVE IInv'
  OBVIOUS
<1> USE DEF IInv
<1>1. ASSUME NEW t \in Threads, ThreadStep(t)  PROVE IInv'
  <2>1. CASE WaitAgain(t)
    BY <2>1, OwnersUnchanged
       DEF WaitAgain, TypeOK, Program, Holding, poolVars, netVars
  <2>2. CASE TakeAfterWait(t)
    <3>1. /\ pc' \in [Threads -> Program] /\ pc'[t] = "holding"
          /\ \A u \in Threads : u # t => \/ pc'[u] = pc[u]
                                         \/ pc[u] = "waiting" /\ pc'[u] = "woken"
      <4>1. "holding" \in Program /\ pc[t] = "woken"
        BY <2>2 DEF Program, Holding, TakeAfterWait
      <4>2. CASE PassWakeupOn
        BY <2>2, <4>1, <4>2, NotifyOneEffect DEF TakeAfterWait
      <4>3. CASE ~PassWakeupOn
        BY <2>2, <4>1, <4>3 DEF TakeAfterWait, TypeOK
      <4>4. QED  BY <4>2, <4>3
    <3>2. QED  BY <2>2, <3>1, TakeHead DEF TakeAfterWait, ListAfterTake
  <2>3. CASE Send(t)
    <3>1. sock[t] \in Sockets
      BY <2>3 DEF Send, OneOwner, Holding, TypeOK
    <3>2. [from |-> sock[t], live |-> TRUE] \in Request
      BY <3>1 DEF Request
    <3>3. routerIn' \in Seq(Request)
      BY <2>3, <3>2, QueueTypes DEF Send, TypeOK
    <3>4. QED
      BY <2>3, <3>1, <3>3, OwnersUnchanged
         DEF Send, TypeOK, Program, Holding, ZmqStates, poolVars
  <2>4. CASE Receive(t)
    BY <2>4, OwnersUnchanged
       DEF Receive, TypeOK, Program, Holding, ZmqStates, poolVars
  <2>5. CASE Timeout(t)
    BY <2>5, OwnersUnchanged
       DEF Timeout, TypeOK, Program, Holding, poolVars, netVars
  <2>6. CASE ReturnSocket(t)  BY <2>6, ReturnStep
  <2>7. CASE DestroySocket(t)  BY <2>7, DestroyStep
  <2>8. CASE CloseSocket(t)  BY <2>8, CloseStep
  <2>9. CASE AnswerWithoutSocket(t)
    BY <2>9, OwnersUnchanged
       DEF AnswerWithoutSocket, TypeOK, Program, Holding, poolVars, netVars
  <2>10. QED
    BY <1>1, <2>1, <2>2, <2>3, <2>4, <2>5, <2>6, <2>7, <2>8, <2>9 DEF ThreadStep
<1>2. ASSUME NEW t \in Threads, ClientRequest(t)  PROVE IInv'
  <2>1. CASE TakePooled(t)
    BY <2>1, TakeHead DEF TakePooled, ListAfterTake, TypeOK, Program, Holding
  <2>2. CASE CreateSocket(t)  BY <2>2, CreateStep
  <2>3. CASE GiveUp(t)
    BY <2>3, OwnersUnchanged
       DEF GiveUp, TypeOK, Program, Holding, poolVars, netVars
  <2>4. CASE StartWaiting(t)
    BY <2>4, OwnersUnchanged
       DEF StartWaiting, TypeOK, Program, Holding, poolVars, netVars
  <2>5. QED  BY <1>2, <2>1, <2>2, <2>3, <2>4 DEF ClientRequest
<1>3. ASSUME NEW t \in Threads, SpuriousWakeup(t)  PROVE IInv'
  BY <1>3, OwnersUnchanged
     DEF SpuriousWakeup, TypeOK, Program, Holding, poolVars, netVars
<1>4. ASSUME NEW s \in Sockets, Reap(s)  PROVE IInv'
  BY <1>4, OwnersUnchanged DEF Reap, TypeOK, ZmqStates, poolVars, netVars
<1>5. ASSUME NEW s \in Sockets, BackendAnswers(s)  PROVE IInv'
  BY <1>5, OwnersUnchanged DEF BackendAnswers, TypeOK, poolVars
<1>6. CASE ProxyForward
  BY <1>6, OwnersUnchanged, QueueTypes DEF ProxyForward, TypeOK, poolVars
<1>7. CASE BackendTakes
  <2>1. Head(dealerOut) \in Request /\ Tail(dealerOut) \in Seq(Request)
    BY <1>7, QueueTypes DEF BackendTakes, TypeOK
  <2>2. inBackend' \subseteq Sockets
    BY <1>7, <2>1 DEF BackendTakes, TypeOK, Request
  <2>3. QED  BY <1>7, <2>1, <2>2, OwnersUnchanged DEF BackendTakes, TypeOK, poolVars
<1>8. CASE BackendDies
  BY <1>8, OwnersUnchanged DEF BackendDies, TypeOK, poolVars
<1>9. CASE BackendRestarts
  BY <1>9, OwnersUnchanged DEF BackendRestarts, TypeOK, poolVars
<1>10. CASE UNCHANGED vars
  BY <1>10, OwnersUnchanged DEF vars, TypeOK, poolVars, netVars
<1>11. QED
  BY <1>1, <1>2, <1>3, <1>4, <1>5, <1>6, <1>7, <1>8, <1>9, <1>10 DEF Next

LEMMA SpecIInv == Spec => []IInv
<1>1. QED  BY InitIInv, NextIInv, PTL DEF Spec

\* The variables of the pool, its threads and the network keep their types; in
\* particular the pool never has more than maxSockets sockets and destroySocket()
\* never takes the counter below zero (its ASSERT).
THEOREM PoolTypeOK == Spec => []TypeOK
<1>1. IInv => TypeOK  BY DEF IInv
<1>2. QED  BY <1>1, SpecIInv, PTL

\* No socket is ever handed to two threads, nor kept in the list while a thread
\* uses it.
THEOREM PoolOneOwner == Spec => []OneOwner
<1>1. IInv => OneOwner  BY DEF IInv
<1>2. QED  BY <1>1, SpecIInv, PTL

\* numSockets is the number of sockets in the list and in use, whatever times
\* out and whenever: the assertion of ~SocketPool().
THEOREM PoolSocketsAccounted == Spec => []SocketsAccounted
<1>1. IInv => SocketsAccounted  BY DEF IInv
<1>2. QED  BY <1>1, SpecIInv, PTL

-----------------------------------------------------------------------------
(* No lost wake-up *)

LEMMA TailOfShort ==
  ASSUME NEW q \in Seq(Sockets), q # <<>>, ~(Len(q) > 1)
  PROVE  Tail(q) = <<>>
<1>1. Len(q) = 1
  <2>1. Len(q) \in Nat  OBVIOUS
  <2>2. Len(q) # 0  BY EmptySeq
  <2>3. \A n \in Nat : n # 0 /\ ~(n > 1) => n = 1  OBVIOUS
  <2>4. QED  BY <2>1, <2>2, <2>3
<1>2. Tail(q) \in Seq(Sockets) /\ Len(Tail(q)) = 0
  BY <1>1, HeadTailProperties
<1>3. QED  BY <1>2, EmptySeq

\* A step that fills no empty list, adds no waiter and loses no woken thread.
LEMMA WakeupKept ==
  ASSUME NoLostWakeup, socketList' # <<>> => socketList # <<>>,
         Waiters' \subseteq Waiters, Woken \subseteq Woken'
  PROVE  NoLostWakeup'
  BY DEF NoLostWakeup

\* NotifyOne leaves no waiting thread without a woken one.
LEMMA NotifyOneWakes ==
  ASSUME TypeOK, NEW t \in Threads, NEW p \in Program \ {"waiting"}, NotifyOne(t, p),
         pc[t] # "waiting"
  PROVE  Waiters' # {} => Woken' # {}
<1>1. CASE Waiters = {}
  <2>1. Waiters' = {}
    BY <1>1 DEF NotifyOne, Waiters, TypeOK
  <2>2. QED  BY <2>1
<1>2. CASE Waiters # {}
  <2>1. PICK w \in Waiters : pc' = [pc EXCEPT ![t] = p, ![w] = "woken"]
    BY <1>2 DEF NotifyOne
  <2>2. w \in Woken'
    BY <2>1 DEF Waiters, Woken, TypeOK
  <2>3. QED  BY <2>2
<1>3. QED  BY <1>1, <1>2

\* Every step keeps a woken thread for a list that is not empty.
LEMMA NextNoLostWakeup ==
  ASSUME TypeOK, NoLostWakeup, [Next]_vars
  PROVE  NoLostWakeup'
<1>1. ASSUME NEW t \in Threads, ThreadStep(t)  PROVE NoLostWakeup'
  <2>1. CASE WaitAgain(t)
    BY <2>1 DEF WaitAgain, NoLostWakeup, poolVars
  <2>2. CASE TakeAfterWait(t)
    <3>1. pc[t] = "woken" /\ "holding" \in Program \ {"waiting"}
      BY <2>2 DEF TakeAfterWait, Program, Holding
    <3>2. CASE PassWakeupOn
      BY <2>2, <3>1, <3>2, NotifyOneWakes DEF TakeAfterWait, NoLostWakeup
    <3>3. CASE ~PassWakeupOn
      <4>1. socketList # <<>> /\ ~(Len(socketList) > 1) /\ socketList \in Seq(Sockets)
        BY <2>2, <3>3, LenProperties DEF TakeAfterWait, PassWakeupOn, TypeOK
      <4>2. Tail(socketList) = <<>>
        BY <4>1, TailOfShort
      <4>3. QED  BY <2>2, <4>2 DEF TakeAfterWait, ListAfterTake, NoLostWakeup
    <3>4. QED  BY <3>2, <3>3
  <2>3. CASE ReturnSocket(t)
    <3>1. pc[t] = "received" /\ "idle" \in Program \ {"waiting"}
      BY <2>3 DEF ReturnSocket, Program
    <3>2. CASE socketList = <<>>
      BY <2>3, <3>1, <3>2, NotifyOneWakes DEF ReturnSocket, NoLostWakeup
    <3>3. CASE socketList # <<>>
      BY <2>3, <3>1, <3>3, WakeupKept DEF ReturnSocket, Waiters, Woken, TypeOK
    <3>4. QED  BY <3>2, <3>3
  <2>4. CASE Send(t) \/ Receive(t) \/ Timeout(t)
    BY <2>4, WakeupKept
       DEF Send, Receive, Timeout, Waiters, Woken, TypeOK, poolVars
  <2>5. CASE DestroySocket(t) \/ CloseSocket(t) \/ AnswerWithoutSocket(t)
    BY <2>5, WakeupKept
       DEF DestroySocket, CloseSocket, AnswerWithoutSocket, Waiters, Woken, TypeOK,
           poolVars
  <2>6. QED  BY <1>1, <2>1, <2>2, <2>3, <2>4, <2>5 DEF ThreadStep
<1>2. ASSUME NEW t \in Threads, ClientRequest(t)  PROVE NoLostWakeup'
  <2>1. CASE TakePooled(t)
    BY <2>1, WakeupKept DEF TakePooled, Waiters, Woken, TypeOK
  <2>2. CASE CreateSocket(t) \/ GiveUp(t) \/ StartWaiting(t)
    BY <2>2 DEF CreateSocket, GiveUp, StartWaiting, CannotCreate, NoLostWakeup, poolVars
  <2>3. QED  BY <1>2, <2>1, <2>2 DEF ClientRequest
<1>3. ASSUME NEW t \in Threads, SpuriousWakeup(t)  PROVE NoLostWakeup'
  BY <1>3, WakeupKept DEF SpuriousWakeup, Waiters, Woken, TypeOK, poolVars
<1>4. ASSUME NEW s \in Sockets, Reap(s) \/ BackendAnswers(s)  PROVE NoLostWakeup'
  BY <1>4, WakeupKept DEF Reap, BackendAnswers, Waiters, Woken, poolVars
<1>5. CASE ProxyForward \/ BackendTakes \/ BackendDies \/ BackendRestarts
  BY <1>5, WakeupKept
     DEF ProxyForward, BackendTakes, BackendDies, BackendRestarts, Waiters, Woken,
         poolVars
<1>6. CASE UNCHANGED vars
  BY <1>6, WakeupKept DEF vars, poolVars, Waiters, Woken
<1>7. QED  BY <1>1, <1>2, <1>3, <1>4, <1>5, <1>6 DEF Next

\* While the list has a socket and a thread waits for one, some thread is on its
\* way to the list: notifying only when the list was empty, and once more in
\* getSocket() when more than one socket is there, is enough.
THEOREM PoolNoLostWakeup == Spec => []NoLostWakeup
<1>1. Init => NoLostWakeup
  BY DEF Init, NoLostWakeup
<1>2. TypeOK /\ NoLostWakeup /\ [Next]_vars => NoLostWakeup'
  BY NextNoLostWakeup
<1>3. QED  BY <1>1, <1>2, PoolTypeOK, PTL DEF Spec

-----------------------------------------------------------------------------
(* Whose answer is on its way on a socket *)

\* The sockets with a request in a queue whose answer can still be routed, and that
\* no socket has two of them.
LiveIn(q)   == {q[i].from : i \in {j \in DOMAIN q : q[j].live}}
LiveOnce(q) ==
  \A i, j \in DOMAIN q : q[i].live /\ q[j].live /\ q[i].from = q[j].from => i = j

\* What one message adds to a queue.
LiveOf(r) == IF r.live THEN {r.from} ELSE {}

LEMMA LiveTail ==
  ASSUME NEW q \in Seq(Request), q # <<>>, LiveOnce(q)
  PROVE  /\ LiveOnce(Tail(q)) /\ LiveOf(Head(q)) \subseteq LiveIn(q)
         /\ LiveIn(Tail(q)) = LiveIn(q) \ LiveOf(Head(q))
<1>1. /\ Len(q) \in Nat /\ Len(q) >= 1 /\ DOMAIN q = 1..Len(q)
      /\ DOMAIN Tail(q) = 1..Len(q) - 1
      /\ \A i \in 1..Len(q) - 1 : Tail(q)[i] = q[i + 1]
      /\ Head(q) = q[1]
  BY HeadTailProperties, EmptySeq, LenProperties
<1>2. LiveOnce(Tail(q))
  BY <1>1 DEF LiveOnce
<1>3. LiveOf(Head(q)) \subseteq LiveIn(q)
  BY <1>1 DEF LiveOf, LiveIn
<1>4. ASSUME NEW x \in LiveIn(Tail(q)) PROVE x \in LiveIn(q) \ LiveOf(Head(q))
  <2>1. PICK i \in 1..Len(q) - 1 : q[i + 1].live /\ x = q[i + 1].from
    BY <1>1 DEF LiveIn
  <2>2. i + 1 \in DOMAIN q /\ 1 \in DOMAIN q /\ i + 1 # 1
    BY <1>1
  <2>. QED BY <1>1, <2>1, <2>2 DEF LiveIn, LiveOf, LiveOnce
<1>5. ASSUME NEW x \in LiveIn(q), x \notin LiveOf(Head(q)) PROVE x \in LiveIn(Tail(q))
  <2>1. PICK i \in 1..Len(q) : q[i].live /\ x = q[i].from
    BY <1>1 DEF LiveIn
  <2>2. i # 1
    BY <1>1, <1>5, <2>1 DEF LiveOf
  <2>3. i - 1 \in 1..Len(q) - 1 /\ (i - 1) + 1 = i
    BY <1>1, <2>2
  <2>4. Tail(q)[i - 1] = q[i]
    BY <1>1, <2>3
  <2>. QED BY <1>1, <2>1, <2>3, <2>4 DEF LiveIn
<1>. QED BY <1>2, <1>3, <1>4, <1>5

LEMMA LiveAppend ==
  ASSUME NEW q \in Seq(Request), NEW r \in Request, LiveOnce(q),
         LiveOf(r) \cap LiveIn(q) = {}
  PROVE  /\ LiveOnce(Append(q, r))
         /\ LiveIn(Append(q, r)) = LiveIn(q) \cup LiveOf(r)
<1>. DEFINE a == Append(q, r)
<1>1. /\ Len(q) \in Nat /\ DOMAIN q = 1..Len(q) /\ DOMAIN a = 1..Len(q) + 1
      /\ a[Len(q) + 1] = r /\ \A i \in 1..Len(q) : a[i] = q[i]
  BY AppendProperties, LenProperties
<1>2. \A i \in DOMAIN a : (i \in DOMAIN q /\ a[i] = q[i]) \/ (i = Len(q) + 1 /\ a[i] = r)
  BY <1>1
<1>3. Len(q) + 1 \in DOMAIN a /\ \A i \in DOMAIN q : i \in DOMAIN a /\ a[i] = q[i]
  BY <1>1
<1>4. \A i \in DOMAIN q : q[i].live => q[i].from \in LiveIn(q)
  BY DEF LiveIn
<1>. HIDE DEF a
<1>5. LiveOnce(a)
  BY <1>2, <1>4 DEF LiveOnce, LiveOf
<1>6. LiveIn(a) = LiveIn(q) \cup LiveOf(r)
  <2>1. \A x \in LiveIn(a) : x \in LiveIn(q) \cup LiveOf(r)
    BY <1>2 DEF LiveIn, LiveOf
  <2>2. \A x \in LiveIn(q) \cup LiveOf(r) : x \in LiveIn(a)
    BY <1>1, <1>3 DEF LiveIn, LiveOf
  <2>. QED BY <2>1, <2>2
<1>. QED BY <1>5, <1>6 DEF a

LEMMA LiveOrphan ==
  ASSUME NEW q \in Seq(Request), NEW s, LiveOnce(q)
  PROVE  LiveOnce(Orphan(q, s)) /\ LiveIn(Orphan(q, s)) = LiveIn(q) \ {s}
<1>1. /\ DOMAIN Orphan(q, s) = DOMAIN q
      /\ \A i \in DOMAIN q :
           /\ Orphan(q, s)[i].from = q[i].from
           /\ Orphan(q, s)[i].live <=> q[i].live /\ q[i].from # s
  BY DEF Orphan
<1>2. LiveOnce(Orphan(q, s))
  BY <1>1 DEF LiveOnce
<1>3. LiveIn(Orphan(q, s)) = LiveIn(q) \ {s}
  BY <1>1 DEF LiveIn
<1>. QED BY <1>2, <1>3

\* The message of a query is in one place, so that one receive leaves nothing behind.
AskedOnce ==
  /\ LiveOnce(routerIn) /\ LiveOnce(dealerOut)
  /\ LiveIn(routerIn) \cap LiveIn(dealerOut) = {}
  /\ (LiveIn(routerIn) \cup LiveIn(dealerOut)) \cap (inBackend \cup replies) = {}
  /\ inBackend \cap replies = {}

InQuery == {"polling", "timedOut", "closing"}

OutstandingAsked ==
  \A s \in Outstanding : \E t \in Threads : sock[t] = s /\ pc[t] \in InQuery

\* A thread that has a socket it may send on or return has a clean one.
CleanSockets ==
  /\ \A s \in Pooled : zmq[s] = "open"
  /\ \A t \in Threads : pc[t] \in {"holding", "received"} => zmq[sock[t]] = "open"

MInv == AskedOnce /\ OutstandingAsked /\ CleanSockets

LEMMA OutstandingParts ==
  Outstanding = inBackend \cup replies \cup LiveIn(routerIn) \cup LiveIn(dealerOut)
BY DEF Outstanding, LiveIn

\* Steps in which nothing is sent or received: nothing changes on the network.
LEMMA NetUnchanged ==
  ASSUME MInv, UNCHANGED netVars,
         \A t \in Threads : pc[t] \in InQuery => pc'[t] \in InQuery /\ sock'[t] = sock[t]
  PROVE  AskedOnce' /\ OutstandingAsked'
<1>1. AskedOnce'
  BY DEF MInv, AskedOnce, netVars, LiveIn, LiveOnce
<1>2. Outstanding' = Outstanding
  BY DEF Outstanding, netVars
<1>3. OutstandingAsked'
  BY <1>2 DEF MInv, OutstandingAsked
<1>. QED BY <1>1, <1>3

\* Steps of the proxy and the backend: no thread sees them.
LEMMA ThreadsUnchanged ==
  ASSUME MInv, UNCHANGED <<pc, sock, poolVars, zmq>>, AskedOnce',
         Outstanding' \subseteq Outstanding
  PROVE  MInv'
<1>1. OutstandingAsked'
  BY DEF MInv, OutstandingAsked
<1>2. CleanSockets'
  BY DEF MInv, CleanSockets, Pooled, poolVars
<1>. QED BY <1>1, <1>2 DEF MInv

\* Taking a socket from the list, which is clean.
LEMMA TakeClean ==
  ASSUME IInv, MInv, NEW t \in Threads, socketList # <<>>, pc[t] \in {"idle", "woken"},
         \A u \in Threads : u # t => \/ pc'[u] = pc[u]
                                     \/ pc[u] = "waiting" /\ pc'[u] = "woken",
         sock' = [sock EXCEPT ![t] = Head(socketList)],
         socketList' = Tail(socketList),
         UNCHANGED <<zmq, netVars>>
  PROVE  MInv'
<1>1. TypeOK /\ OneOwner /\ CleanSockets
  BY DEF IInv, MInv
<1>2. Head(socketList) \in Pooled /\ Pooled' \subseteq Pooled
  <2>1. socketList \in Seq(Sockets) /\ Distinct(socketList)
    BY <1>1 DEF TypeOK, OneOwner, Distinct
  <2>2. Head(socketList) \in Elems(socketList) /\ Elems(Tail(socketList)) \subseteq Elems(socketList)
    BY <2>1, PopFront
  <2>. QED BY <2>2 DEF Pooled, Elems
<1>3. AskedOnce' /\ OutstandingAsked'
  BY <1>1, NetUnchanged DEF TypeOK, InQuery
<1>4. CleanSockets'
  BY <1>1, <1>2 DEF TypeOK, CleanSockets
<1>. QED BY <1>3, <1>4 DEF MInv

\* A socket that may be sent on has nothing on its way.
LEMMA SendOnClean ==
  ASSUME IInv, MInv, NEW t \in Threads, Send(t)
  PROVE  MInv'
<1>. DEFINE s == sock[t]
            r == [from |-> s, live |-> TRUE]
<1>1. /\ TypeOK /\ OneOwner /\ pc[t] = "holding" /\ s \in Sockets /\ s # NoSocket
      /\ s \notin Pooled /\ \A u \in Threads : u # t => sock[u] # s
  BY DEF IInv, Send, OneOwner, TypeOK, Holding
<1>2. s \notin Outstanding
  BY <1>1 DEF MInv, OutstandingAsked, InQuery
<1>3. /\ pc' = [pc EXCEPT ![t] = "polling"] /\ zmq' = [zmq EXCEPT ![s] = "awaiting"]
      /\ routerIn' = Append(routerIn, r)
      /\ UNCHANGED <<sock, socketList, dealerOut, inBackend, replies>>
  BY DEF Send, poolVars
<1>4. LiveOnce(routerIn)' /\ LiveIn(routerIn)' = LiveIn(routerIn) \cup {s}
  <2>1. r \in Request /\ LiveOf(r) = {s} /\ routerIn \in Seq(Request)
    BY <1>1 DEF Request, LiveOf, TypeOK
  <2>2. LiveOf(r) \cap LiveIn(routerIn) = {}
    BY <1>2, <2>1, OutstandingParts
  <2>. HIDE DEF r
  <2>3. LiveOnce(Append(routerIn, r)) /\ LiveIn(Append(routerIn, r)) = LiveIn(routerIn) \cup LiveOf(r)
    BY <2>1, <2>2, LiveAppend DEF MInv, AskedOnce
  <2>. QED BY <1>3, <2>1, <2>3 DEF LiveIn, LiveOnce
<1>5. LiveOnce(dealerOut)' /\ LiveIn(dealerOut)' = LiveIn(dealerOut)
  BY <1>3 DEF MInv, AskedOnce, LiveOnce, LiveIn
<1>6. AskedOnce'
  BY <1>2, <1>3, <1>4, <1>5, OutstandingParts DEF MInv, AskedOnce
<1>7. Outstanding' = Outstanding \cup {s}
  BY <1>3, <1>4, <1>5, OutstandingParts DEF Outstanding, LiveIn
<1>8. OutstandingAsked'
  BY <1>1, <1>3, <1>7 DEF MInv, OutstandingAsked, TypeOK, InQuery
<1>9. CleanSockets'
  BY <1>1, <1>3 DEF MInv, CleanSockets, TypeOK, Pooled, OneOwner, Holding
<1>. QED BY <1>6, <1>8, <1>9 DEF MInv

\* The one answer is read: nothing is left on its way, and the socket is clean.
LEMMA ReceiveCleans ==
  ASSUME IInv, MInv, NEW t \in Threads, Receive(t)
  PROVE  MInv'
<1>. DEFINE s == sock[t]
<1>1. /\ TypeOK /\ OneOwner /\ pc[t] = "polling" /\ s \in replies /\ s \in Sockets
      /\ s # NoSocket /\ \A u \in Threads : u # t => sock[u] # s
  BY DEF IInv, Receive, OneOwner, TypeOK, Holding
<1>2. /\ pc' = [pc EXCEPT ![t] = "received"] /\ zmq' = [zmq EXCEPT ![s] = "open"]
      /\ replies' = replies \ {s}
      /\ UNCHANGED <<sock, socketList, routerIn, dealerOut, inBackend>>
  BY DEF Receive, poolVars
<1>3. /\ LiveIn(routerIn)' = LiveIn(routerIn) /\ LiveOnce(routerIn)' = LiveOnce(routerIn)
      /\ LiveIn(dealerOut)' = LiveIn(dealerOut) /\ LiveOnce(dealerOut)' = LiveOnce(dealerOut)
  BY <1>2 DEF LiveIn, LiveOnce
<1>4. AskedOnce'
  BY <1>2, <1>3 DEF MInv, AskedOnce
<1>5. Outstanding' = Outstanding \ {s}
  <2>1. Outstanding' = inBackend \cup (replies \ {s}) \cup LiveIn(routerIn) \cup LiveIn(dealerOut)
    BY <1>2, <1>3 DEF Outstanding, LiveIn
  <2>. QED BY <1>1, <2>1, OutstandingParts DEF MInv, AskedOnce
<1>6. OutstandingAsked'
  BY <1>1, <1>2, <1>5 DEF MInv, OutstandingAsked, TypeOK, InQuery
<1>7. CleanSockets'
  BY <1>1, <1>2, OwnedFinite DEF MInv, CleanSockets, TypeOK, Pooled
<1>. QED BY <1>4, <1>6, <1>7 DEF MInv

\* A closed socket takes what was on its way with it.
LEMMA CloseForgets ==
  ASSUME IInv, MInv, NEW t \in Threads, CloseSocket(t)
  PROVE  MInv'
<1>. DEFINE s == sock[t]
<1>1. /\ TypeOK /\ OneOwner /\ pc[t] = "closing" /\ s \in Sockets /\ s # NoSocket
      /\ s \notin Pooled /\ \A u \in Threads : u # t => sock[u] # s
  BY DEF IInv, CloseSocket, OneOwner, TypeOK, Holding
<1>2. /\ pc' = [pc EXCEPT ![t] = "idle"] /\ zmq' = [zmq EXCEPT ![s] = "closed"]
      /\ sock' = [sock EXCEPT ![t] = NoSocket]
      /\ inBackend' = inBackend \ {s} /\ replies' = replies \ {s}
      /\ routerIn' = Orphan(routerIn, s) /\ dealerOut' = Orphan(dealerOut, s)
      /\ UNCHANGED socketList
  BY DEF CloseSocket, poolVars
<1>3. /\ LiveIn(routerIn)' = LiveIn(routerIn) \ {s} /\ LiveOnce(routerIn)'
      /\ LiveIn(dealerOut)' = LiveIn(dealerOut) \ {s} /\ LiveOnce(dealerOut)'
  <2>1. /\ routerIn \in Seq(Request) /\ dealerOut \in Seq(Request)
        /\ LiveOnce(routerIn) /\ LiveOnce(dealerOut)
    BY <1>1 DEF TypeOK, MInv, AskedOnce
  <2>2. /\ LiveIn(Orphan(routerIn, s)) = LiveIn(routerIn) \ {s} /\ LiveOnce(Orphan(routerIn, s))
        /\ LiveIn(Orphan(dealerOut, s)) = LiveIn(dealerOut) \ {s} /\ LiveOnce(Orphan(dealerOut, s))
    BY <2>1, LiveOrphan
  <2>. QED BY <1>2, <2>2 DEF LiveIn, LiveOnce
<1>4. AskedOnce'
  BY <1>2, <1>3 DEF MInv, AskedOnce
<1>5. Outstanding' = Outstanding \ {s}
  <2>1. Outstanding' = (inBackend \ {s}) \cup (replies \ {s}) \cup (LiveIn(routerIn) \ {s})
                         \cup (LiveIn(dealerOut) \ {s})
    BY <1>2, <1>3 DEF Outstanding, LiveIn
  <2>. QED BY <2>1, OutstandingParts
<1>6. OutstandingAsked'
  BY <1>1, <1>2, <1>5 DEF MInv, OutstandingAsked, TypeOK, InQuery
<1>7. CleanSockets'
  BY <1>1, <1>2, OwnedFinite DEF MInv, CleanSockets, TypeOK, Pooled
<1>. QED BY <1>4, <1>6, <1>7 DEF MInv

LEMMA ReturnClean ==
  ASSUME IInv, MInv, NEW t \in Threads, ReturnSocket(t)
  PROVE  MInv'
<1>1. /\ TypeOK /\ OneOwner /\ pc[t] = "received" /\ sock[t] \in Sockets
      /\ sock[t] \notin Pooled /\ zmq[sock[t]] = "open"
  BY DEF IInv, ReturnSocket, OneOwner, TypeOK, Holding, MInv, CleanSockets
<1>2. /\ socketList' = <<sock[t]>> \o socketList /\ sock' = [sock EXCEPT ![t] = NoSocket]
      /\ UNCHANGED zmq /\ UNCHANGED netVars
  BY DEF ReturnSocket
<1>3. /\ pc'[t] = "idle"
      /\ \A u \in Threads : u # t => \/ pc'[u] = pc[u]
                                     \/ pc[u] = "waiting" /\ pc'[u] = "woken"
  <2>1. "idle" \in Program
    BY DEF Program
  <2>2. CASE socketList = <<>>
    BY <1>1, <2>1, <2>2, NotifyOneEffect DEF ReturnSocket
  <2>3. CASE socketList # <<>>
    BY <1>1, <2>3 DEF ReturnSocket, TypeOK
  <2>. QED BY <2>2, <2>3
<1>4. Pooled' = Pooled \cup {sock[t]}
  <2>1. socketList \in Seq(Sockets) /\ Distinct(socketList) /\ sock[t] \notin Elems(socketList)
    BY <1>1, PooledElems DEF TypeOK, OneOwner, Distinct
  <2>2. Elems(<<sock[t]>> \o socketList) = Elems(socketList) \cup {sock[t]}
    BY <1>1, <2>1, PushFront
  <2>. QED BY <1>2, <2>2 DEF Pooled, Elems
<1>5. AskedOnce' /\ OutstandingAsked'
  BY <1>1, <1>2, <1>3, NetUnchanged DEF TypeOK, InQuery
<1>6. CleanSockets'
  BY <1>1, <1>2, <1>3, <1>4 DEF MInv, CleanSockets, TypeOK
<1>. QED BY <1>5, <1>6 DEF MInv

\* The proxy moves a message, the backend takes one.
LEMMA MessageMoves ==
  ASSUME IInv, MInv, ProxyForward \/ BackendTakes
  PROVE  MInv'
<1>1. /\ routerIn \in Seq(Request) /\ dealerOut \in Seq(Request)
      /\ LiveOnce(routerIn) /\ LiveOnce(dealerOut)
  BY DEF IInv, TypeOK, MInv, AskedOnce
<1>2. CASE ProxyForward
  <2>. DEFINE r == Head(routerIn)
  <2>1. /\ routerIn # <<>> /\ routerIn' = Tail(routerIn) /\ dealerOut' = Append(dealerOut, r)
        /\ UNCHANGED <<pc, sock, poolVars, zmq, inBackend, replies>>
    BY <1>2 DEF ProxyForward
  <2>2. /\ LiveOnce(Tail(routerIn)) /\ LiveOf(r) \subseteq LiveIn(routerIn)
        /\ LiveIn(Tail(routerIn)) = LiveIn(routerIn) \ LiveOf(r)
        /\ r \in Request
    BY <1>1, <2>1, LiveTail, QueueTypes
  <2>3. LiveOf(r) \cap LiveIn(dealerOut) = {}
    BY <2>2 DEF MInv, AskedOnce
  <2>4. /\ LiveOnce(Append(dealerOut, r))
        /\ LiveIn(Append(dealerOut, r)) = LiveIn(dealerOut) \cup LiveOf(r)
    BY <1>1, <2>2, <2>3, LiveAppend
  <2>. HIDE DEF r
  <2>5. /\ LiveOnce(routerIn)' /\ LiveIn(routerIn)' = LiveIn(routerIn) \ LiveOf(r)
        /\ LiveOnce(dealerOut)' /\ LiveIn(dealerOut)' = LiveIn(dealerOut) \cup LiveOf(r)
    BY <2>1, <2>2, <2>4 DEF LiveOnce, LiveIn
  <2>6. AskedOnce'
    BY <2>1, <2>2, <2>5 DEF MInv, AskedOnce
  <2>7. Outstanding' \subseteq Outstanding
    <3>1. Outstanding' = inBackend \cup replies \cup (LiveIn(routerIn) \ LiveOf(r))
                           \cup (LiveIn(dealerOut) \cup LiveOf(r))
      BY <2>1, <2>5 DEF Outstanding, LiveIn
    <3>. QED BY <2>2, <3>1, OutstandingParts
  <2>. QED BY <2>1, <2>6, <2>7, ThreadsUnchanged
<1>3. CASE BackendTakes
  <2>. DEFINE r == Head(dealerOut)
  <2>1. /\ dealerOut # <<>> /\ dealerOut' = Tail(dealerOut)
        /\ inBackend' = inBackend \cup LiveOf(r)
        /\ UNCHANGED <<pc, sock, poolVars, zmq, routerIn, replies>>
    BY <1>3 DEF BackendTakes, LiveOf
  <2>2. /\ LiveOnce(Tail(dealerOut)) /\ LiveOf(r) \subseteq LiveIn(dealerOut)
        /\ LiveIn(Tail(dealerOut)) = LiveIn(dealerOut) \ LiveOf(r)
    BY <1>1, <2>1, LiveTail
  <2>. HIDE DEF r
  <2>3. /\ LiveOnce(dealerOut)' /\ LiveIn(dealerOut)' = LiveIn(dealerOut) \ LiveOf(r)
        /\ LiveOnce(routerIn)' /\ LiveIn(routerIn)' = LiveIn(routerIn)
    BY <1>1, <2>1, <2>2 DEF LiveOnce, LiveIn
  <2>4. AskedOnce'
    BY <2>1, <2>2, <2>3 DEF MInv, AskedOnce
  <2>5. Outstanding' \subseteq Outstanding
    <3>1. Outstanding' = (inBackend \cup LiveOf(r)) \cup replies \cup LiveIn(routerIn)
                           \cup (LiveIn(dealerOut) \ LiveOf(r))
      BY <2>1, <2>3 DEF Outstanding, LiveIn
    <3>. QED BY <2>2, <3>1, OutstandingParts
  <2>. QED BY <2>1, <2>4, <2>5, ThreadsUnchanged
<1>. QED BY <1>2, <1>3

\* A worker answers, or the backend dies with its requests, or starts again.
LEMMA BackendMoves ==
  ASSUME MInv,
         BackendDies \/ BackendRestarts \/ \E s \in Sockets : BackendAnswers(s)
  PROVE  MInv'
<1>1. /\ UNCHANGED <<pc, sock, poolVars, zmq, routerIn, dealerOut>>
      /\ inBackend' \cup replies' \subseteq inBackend \cup replies
      /\ inBackend' \cap replies' = {}
  BY DEF BackendDies, BackendRestarts, BackendAnswers, MInv, AskedOnce
<1>2. /\ LiveIn(routerIn)' = LiveIn(routerIn) /\ LiveOnce(routerIn)' = LiveOnce(routerIn)
      /\ LiveIn(dealerOut)' = LiveIn(dealerOut) /\ LiveOnce(dealerOut)' = LiveOnce(dealerOut)
  BY <1>1 DEF LiveIn, LiveOnce
<1>3. AskedOnce'
  BY <1>1, <1>2 DEF MInv, AskedOnce
<1>4. Outstanding' \subseteq Outstanding
  <2>1. Outstanding' = inBackend' \cup replies' \cup LiveIn(routerIn) \cup LiveIn(dealerOut)
    BY <1>1 DEF Outstanding, LiveIn
  <2>. QED BY <1>1, <2>1, OutstandingParts
<1>. QED BY <1>1, <1>3, <1>4, ThreadsUnchanged

LEMMA NextMInv == IInv /\ MInv /\ [Next]_vars => MInv'
<1>. SUFFICES ASSUME IInv, MInv, [Next]_vars PROVE MInv'
  OBVIOUS
<1>0. TypeOK /\ OneOwner /\ OwnedOpen /\ CleanSockets
  BY DEF IInv, MInv
\* Threads that neither have a clean socket nor get one.
<1>1. ASSUME UNCHANGED <<sock, socketList, zmq, netVars>>,
             \A t \in Threads : pc[t] \in InQuery => pc'[t] \in InQuery,
             \A t \in Threads : pc'[t] \in {"holding", "received"}
                                  => pc[t] \in {"holding", "received"}
      PROVE  MInv'
  <2>1. AskedOnce' /\ OutstandingAsked'
    BY <1>1, NetUnchanged
  <2>2. CleanSockets'
    BY <1>0, <1>1 DEF CleanSockets, Pooled
  <2>. QED BY <2>1, <2>2 DEF MInv
<1>2. ASSUME NEW t \in Threads, ThreadStep(t) PROVE MInv'
  <2>1. CASE WaitAgain(t) \/ Timeout(t) \/ DestroySocket(t) \/ AnswerWithoutSocket(t)
    BY <1>0, <1>1, <2>1
    DEF TypeOK, WaitAgain, Timeout, DestroySocket, AnswerWithoutSocket, InQuery, poolVars
  <2>2. CASE TakeAfterWait(t)
    <3>1. \A u \in Threads : u # t => \/ pc'[u] = pc[u]
                                      \/ pc[u] = "waiting" /\ pc'[u] = "woken"
      <4>1. "holding" \in Program /\ pc[t] = "woken"
        BY <2>2 DEF Program, Holding, TakeAfterWait
      <4>2. CASE PassWakeupOn
        BY <1>0, <2>2, <4>1, <4>2, NotifyOneEffect DEF TakeAfterWait
      <4>3. CASE ~PassWakeupOn
        BY <1>0, <2>2, <4>1, <4>3 DEF TakeAfterWait, TypeOK
      <4>. QED BY <4>2, <4>3
    <3>. QED BY <2>2, <3>1, TakeClean DEF TakeAfterWait, ListAfterTake
  <2>. QED
    BY <1>2, <2>1, <2>2, SendOnClean, ReceiveCleans, ReturnClean, CloseForgets DEF ThreadStep
<1>3. ASSUME NEW t \in Threads, ClientRequest(t) PROVE MInv'
  <2>1. CASE TakePooled(t)
    BY <1>0, <2>1, TakeClean DEF TakePooled, ListAfterTake, TypeOK
  <2>2. CASE CreateSocket(t)
    <3>1. PICK s \in Free : zmq' = [zmq EXCEPT ![s] = "open"] /\ sock' = [sock EXCEPT ![t] = s]
      BY <2>2 DEF CreateSocket
    <3>2. /\ pc' = [pc EXCEPT ![t] = "holding"] /\ pc[t] = "idle"
          /\ UNCHANGED <<socketList, netVars>>
      BY <2>2 DEF CreateSocket
    <3>3. AskedOnce' /\ OutstandingAsked'
      BY <1>0, <3>1, <3>2, NetUnchanged DEF TypeOK, InQuery
    <3>4. CleanSockets'
      BY <1>0, <3>1, <3>2, OwnedFinite
      DEF TypeOK, CleanSockets, Pooled, Free, OneOwner, Holding
    <3>. QED BY <3>3, <3>4 DEF MInv
  <2>3. CASE GiveUp(t) \/ StartWaiting(t)
    BY <1>0, <1>1, <2>3 DEF TypeOK, GiveUp, StartWaiting, InQuery, poolVars
  <2>. QED BY <1>3, <2>1, <2>2, <2>3 DEF ClientRequest
<1>4. ASSUME NEW t \in Threads, SpuriousWakeup(t) PROVE MInv'
  BY <1>0, <1>1, <1>4 DEF TypeOK, SpuriousWakeup, InQuery, poolVars
<1>5. ASSUME NEW s \in Sockets, Reap(s) PROVE MInv'
  <2>1. /\ zmq[s] = "closed" /\ zmq' = [zmq EXCEPT ![s] = "free"]
        /\ UNCHANGED <<pc, sock, poolVars, netVars>>
    BY <1>5 DEF Reap
  <2>2. AskedOnce' /\ OutstandingAsked'
    BY <2>1, NetUnchanged
  <2>3. CleanSockets'
    BY <1>0, <2>1, OwnedFinite DEF TypeOK, CleanSockets, Pooled, poolVars, OneOwner, Holding
  <2>. QED BY <2>2, <2>3 DEF MInv
<1>6. CASE UNCHANGED vars
  BY <1>1, <1>6 DEF vars, poolVars
<1>. QED
  BY <1>2, <1>3, <1>4, <1>5, <1>6, MessageMoves, BackendMoves DEF Next

\* backendQuery() never reads the answer to another query from a socket of the pool,
\* for any number of threads and sockets, whatever times out, dies or comes late.
THEOREM PoolAnswersMatchQueries == Spec => []AnswersMatchQueries
<1>1. Init => MInv
  BY DEF Init, MInv, AskedOnce, LiveOnce, LiveIn, OutstandingAsked, Outstanding,
         CleanSockets, Pooled
<1>2. MInv => AnswersMatchQueries
  BY DEF MInv, OutstandingAsked, InQuery, CleanSockets, AnswersMatchQueries
<1>. QED BY <1>1, <1>2, NextMInv, SpecIInv, PTL DEF Spec
=============================================================================
