------------------------------ MODULE SocketPool ------------------------------
(***************************************************************************)
(* The pool of zmq REQ sockets of httpd (class SocketPool in httpd.cc) and *)
(* its only user, backendQuery(), run by one thread per HTTP connection.   *)
(*                                                                         *)
(* A socket is a slot of the zmq context, which holds at most              *)
(* ZMQ_MAX_SOCKETS of them.  A closed socket keeps its slot until the      *)
(* router end of "inproc://httpd-internal" is read: that is done by        *)
(* zmq_proxy() in main(), which blocks while the dealer queue towards the  *)
(* backend is full.                                                        *)
(*                                                                         *)
(* Each critical section of the pool's mutex is one action.  A thread in   *)
(* socketAvailable.wait() is "waiting"; "woken" is a thread that was       *)
(* notified, or that woke spuriously, and has not got the mutex back yet.  *)
(***************************************************************************)
EXTENDS Naturals, Sequences, FiniteSets

CONSTANTS
  Threads,      \* connection threads of the HTTP daemon
  Sockets,      \* slots of the zmq context left for REQ sockets
  NoSocket,     \* what a thread without a socket holds (a NULL pointer)
  maxSockets,   \* the pool's own limit
  dealerHwm     \* messages the dealer queues for an absent backend

ASSUME ThreadsAssumption == IsFiniteSet(Threads)
ASSUME SocketsAssumption == IsFiniteSet(Sockets) /\ NoSocket \notin Sockets
ASSUME LimitsAssumption  == maxSockets \in Nat \ {0} /\ dealerHwm \in Nat \ {0}

VARIABLES
  pc,           \* where each thread is in backendQuery()
  sock,         \* the local variable "socket" of each thread
  numSockets,   \* SocketPool::numSockets
  socketList,   \* SocketPool::socketList
  zmq,          \* state of each slot of the context
  routerIn,     \* requests sent by REQ sockets and not yet read by the proxy
  dealerOut,    \* requests forwarded by the proxy, not yet taken by a backend
  inBackend,    \* sockets whose request a backend works on
  replies,      \* sockets with an answer to read
  backendUp     \* whether the backend process runs

poolVars == <<numSockets, socketList>>
netVars  == <<routerIn, dealerOut, inBackend, replies, backendUp>>
vars     == <<pc, sock, poolVars, zmq, netVars>>

-----------------------------------------------------------------------------
\* A slot is "free"; "open": a REQ socket that may send; "awaiting": a REQ
\* socket that sent a request and may only receive; or "closed": passed to
\* zmq_close() and not cleaned up yet.
ZmqStates == {"free", "open", "awaiting", "closed"}

\* The states of a thread that has a socket of the pool.
Holding == {"holding", "polling", "received", "timedOut"}

Program == {"idle", "waiting", "woken", "closing", "noSocket"} \cup Holding

\* A request in a zmq queue; live is FALSE once its socket was closed, and
\* its answer can then reach nobody.
Request == [from : Sockets, live : BOOLEAN]

Waiters == {t \in Threads : pc[t] = "waiting"}
Woken   == {t \in Threads : pc[t] = "woken"}
Free    == {s \in Sockets : zmq[s] = "free"}

\* The program counters after thread t goes to state p and notify_one() moves
\* one of the waiting threads, if there is any, to "woken".
NotifyOne(t, p) ==
  IF Waiters = {}
  THEN pc' = [pc EXCEPT ![t] = p]
  ELSE \E w \in Waiters : pc' = [pc EXCEPT ![t] = p, ![w] = "woken"]

-----------------------------------------------------------------------------
Init ==
  /\ pc = [t \in Threads |-> "idle"]
  /\ sock = [t \in Threads |-> NoSocket]
  /\ numSockets = 0
  /\ socketList = <<>>
  /\ zmq = [s \in Sockets |-> "free"]
  /\ routerIn = <<>>
  /\ dealerOut = <<>>
  /\ inBackend = {}
  /\ replies = {}
  /\ backendUp = TRUE

-----------------------------------------------------------------------------
(* SocketPool::getSocket() *)

\* Mutated forms, each named for the mistake, precede what they mutate.
BelowLimit == numSockets < maxSockets

ListAfterTake_NoPop == socketList
ListAfterTake == Tail(socketList)

PassWakeupOn_Never == FALSE
PassWakeupOn == Len(socketList) > 1

\* The list has a socket: take the one returned last.
TakePooled(t) ==
  /\ pc[t] = "idle"
  /\ socketList # <<>>
  /\ sock' = [sock EXCEPT ![t] = Head(socketList)]
  /\ socketList' = ListAfterTake
  /\ pc' = [pc EXCEPT ![t] = "holding"]
  /\ UNCHANGED <<numSockets, zmq, netVars>>

\* The list is empty and the limit not reached: create a socket.
CreateSocket(t) ==
  /\ pc[t] = "idle"
  /\ socketList = <<>>
  /\ BelowLimit
  /\ \E s \in Free :
       /\ zmq' = [zmq EXCEPT ![s] = "open"]
       /\ sock' = [sock EXCEPT ![t] = s]
  /\ numSockets' = numSockets + 1
  /\ pc' = [pc EXCEPT ![t] = "holding"]
  /\ UNCHANGED <<socketList, netVars>>

\* No socket can be created: at the limit, or zmq_socket() returned NULL.
CannotCreate == socketList = <<>> /\ (~BelowLimit \/ Free = {})

\* Nobody has a socket either, so there is nothing to wait for.
GiveUp(t) ==
  /\ pc[t] = "idle"
  /\ CannotCreate
  /\ numSockets = 0
  /\ pc' = [pc EXCEPT ![t] = "noSocket"]
  /\ UNCHANGED <<sock, poolVars, zmq, netVars>>

StartWaiting(t) ==
  /\ pc[t] = "idle"
  /\ CannotCreate
  /\ numSockets # 0
  /\ pc' = [pc EXCEPT ![t] = "waiting"]
  /\ UNCHANGED <<sock, poolVars, zmq, netVars>>

SpuriousWakeup(t) ==
  /\ pc[t] = "waiting"
  /\ pc' = [pc EXCEPT ![t] = "woken"]
  /\ UNCHANGED <<sock, poolVars, zmq, netVars>>

\* Back from wait(): another thread emptied the list meanwhile, wait again ...
WaitAgain(t) ==
  /\ pc[t] = "woken"
  /\ socketList = <<>>
  /\ pc' = [pc EXCEPT ![t] = "waiting"]
  /\ UNCHANGED <<sock, poolVars, zmq, netVars>>

\* ... or take a socket, and pass the wake-up on if more than one is there.
TakeAfterWait(t) ==
  /\ pc[t] = "woken"
  /\ socketList # <<>>
  /\ IF PassWakeupOn
     THEN NotifyOne(t, "holding")
     ELSE pc' = [pc EXCEPT ![t] = "holding"]
  /\ sock' = [sock EXCEPT ![t] = Head(socketList)]
  /\ socketList' = ListAfterTake
  /\ UNCHANGED <<numSockets, zmq, netVars>>

-----------------------------------------------------------------------------
(* backendQuery() *)

\* zmq_msg_send(): legal only on a socket that awaits no answer.
Send(t) ==
  /\ pc[t] = "holding"
  /\ zmq[sock[t]] = "open"
  /\ zmq' = [zmq EXCEPT ![sock[t]] = "awaiting"]
  /\ routerIn' = Append(routerIn, [from |-> sock[t], live |-> TRUE])
  /\ pc' = [pc EXCEPT ![t] = "polling"]
  /\ UNCHANGED <<sock, poolVars, dealerOut, inBackend, replies, backendUp>>

\* zmq_poll() reports POLLIN and zmq_msg_recv() reads the answer.
Receive(t) ==
  /\ pc[t] = "polling"
  /\ sock[t] \in replies
  /\ replies' = replies \ {sock[t]}
  /\ zmq' = [zmq EXCEPT ![sock[t]] = "open"]
  /\ pc' = [pc EXCEPT ![t] = "received"]
  /\ UNCHANGED <<sock, poolVars, routerIn, dealerOut, inBackend, backendUp>>

\* The socket of a query that timed out goes back to the pool.
Timeout_KeepSocket(t) ==
  /\ pc[t] = "polling"
  /\ sock[t] \notin replies
  /\ pc' = [pc EXCEPT ![t] = "received"]
  /\ UNCHANGED <<sock, poolVars, zmq, netVars>>

\* zmq_poll() returns after requestTimeout without POLLIN.
Timeout(t) ==
  /\ pc[t] = "polling"
  /\ sock[t] \notin replies
  /\ pc' = [pc EXCEPT ![t] = "timedOut"]
  /\ UNCHANGED <<sock, poolVars, zmq, netVars>>

\* SocketPool::returnSocket()
ReturnSocket(t) ==
  /\ pc[t] = "received"
  /\ socketList' = <<sock[t]>> \o socketList
  /\ sock' = [sock EXCEPT ![t] = NoSocket]
  /\ IF socketList = <<>>
     THEN NotifyOne(t, "idle")
     ELSE pc' = [pc EXCEPT ![t] = "idle"]
  /\ UNCHANGED <<numSockets, zmq, netVars>>

CountAfterDestroy_Unchanged == numSockets
CountAfterDestroy == numSockets - 1

\* SocketPool::destroySocket(), under the mutex ...
DestroySocket(t) ==
  /\ pc[t] = "timedOut"
  /\ numSockets' = CountAfterDestroy
  /\ pc' = [pc EXCEPT ![t] = "closing"]
  /\ UNCHANGED <<sock, socketList, zmq, netVars>>

\* A queue after socket s is closed: what it sent is still queued, but the
\* answer can no longer be routed.
Orphan(queue, s) ==
  [i \in DOMAIN queue |->
     IF queue[i].from = s THEN [from |-> s, live |-> FALSE] ELSE queue[i]]

\* The socket is dropped without zmq_close().
CloseSocket_Leak(t) ==
  /\ pc[t] = "closing"
  /\ sock' = [sock EXCEPT ![t] = NoSocket]
  /\ pc' = [pc EXCEPT ![t] = "idle"]
  /\ UNCHANGED <<poolVars, zmq, netVars>>

\* ... and zmq_close() after the mutex is released.
CloseSocket(t) ==
  /\ pc[t] = "closing"
  /\ zmq' = [zmq EXCEPT ![sock[t]] = "closed"]
  /\ inBackend' = inBackend \ {sock[t]}
  /\ replies' = replies \ {sock[t]}
  /\ routerIn' = Orphan(routerIn, sock[t])
  /\ dealerOut' = Orphan(dealerOut, sock[t])
  /\ sock' = [sock EXCEPT ![t] = NoSocket]
  /\ pc' = [pc EXCEPT ![t] = "idle"]
  /\ UNCHANGED <<poolVars, backendUp>>

\* Without a socket the query pretends to have timed out.
AnswerWithoutSocket(t) ==
  /\ pc[t] = "noSocket"
  /\ pc' = [pc EXCEPT ![t] = "idle"]
  /\ UNCHANGED <<sock, poolVars, zmq, netVars>>

-----------------------------------------------------------------------------
(* The zmq proxy in main(), the zmq context and the backend *)

\* zmq_proxy() reads the router while the dealer accepts messages.
ProxyReads == Len(dealerOut) < dealerHwm

ProxyForward ==
  /\ ProxyReads
  /\ routerIn # <<>>
  /\ dealerOut' = Append(dealerOut, Head(routerIn))
  /\ routerIn' = Tail(routerIn)
  /\ UNCHANGED <<pc, sock, poolVars, zmq, inBackend, replies, backendUp>>

\* Reading the router also completes the closing of sockets whose messages
\* were all read.
Reap(s) ==
  /\ ProxyReads
  /\ zmq[s] = "closed"
  /\ \A i \in DOMAIN routerIn : routerIn[i].from # s
  /\ zmq' = [zmq EXCEPT ![s] = "free"]
  /\ UNCHANGED <<pc, sock, poolVars, netVars>>

\* A request whose socket was closed is worked on too, but leaves no trace:
\* the router drops the answer.
BackendTakes ==
  /\ backendUp
  /\ dealerOut # <<>>
  /\ inBackend' = IF Head(dealerOut).live
                  THEN inBackend \cup {Head(dealerOut).from}
                  ELSE inBackend
  /\ dealerOut' = Tail(dealerOut)
  /\ UNCHANGED <<pc, sock, poolVars, zmq, routerIn, replies, backendUp>>

\* The workers answer in any order.
BackendAnswers(s) ==
  /\ s \in inBackend
  /\ inBackend' = inBackend \ {s}
  /\ replies' = replies \cup {s}
  /\ UNCHANGED <<pc, sock, poolVars, zmq, routerIn, dealerOut, backendUp>>

\* The backend dies with the requests it is working on.
BackendDies ==
  /\ backendUp
  /\ backendUp' = FALSE
  /\ inBackend' = {}
  /\ UNCHANGED <<pc, sock, poolVars, zmq, routerIn, dealerOut, replies>>

BackendRestarts ==
  /\ ~backendUp
  /\ backendUp' = TRUE
  /\ UNCHANGED <<pc, sock, poolVars, zmq, routerIn, dealerOut, inBackend, replies>>

-----------------------------------------------------------------------------
\* What a thread does without waiting for a client or for a wake-up.
ThreadStep(t) ==
  \/ WaitAgain(t)  \/ TakeAfterWait(t) \/ Send(t)          \/ Receive(t)
  \/ Timeout(t)    \/ ReturnSocket(t)  \/ DestroySocket(t) \/ CloseSocket(t)
  \/ AnswerWithoutSocket(t)

\* A client's request arrives on connection t.
ClientRequest(t) ==
  TakePooled(t) \/ CreateSocket(t) \/ GiveUp(t) \/ StartWaiting(t)

Next ==
  \/ \E t \in Threads : ThreadStep(t) \/ ClientRequest(t) \/ SpuriousWakeup(t)
  \/ \E s \in Sockets : Reap(s) \/ BackendAnswers(s)
  \/ ProxyForward \/ BackendTakes \/ BackendDies \/ BackendRestarts

Spec == Init /\ [][Next]_vars

\* Threads that can run are scheduled, the proxy forwards and a running backend
\* takes requests.  Nothing makes a client send, the kernel wake a thread
\* without a notification, or a stopped backend restart.  Reap needs strong
\* fairness: it is part of every read of the router, and the proxy goes on
\* reading whenever the dealer queue is drained.
Fairness ==
  /\ \A t \in Threads : WF_vars(ThreadStep(t))
  /\ WF_vars(ProxyForward)
  /\ WF_vars(BackendTakes)
  /\ \A s \in Sockets : SF_vars(Reap(s))

FairSpec == Spec /\ Fairness

-----------------------------------------------------------------------------
(* Properties *)

TypeOK ==
  /\ pc \in [Threads -> Program]
  /\ sock \in [Threads -> Sockets \cup {NoSocket}]
  /\ numSockets \in 0..maxSockets
  /\ socketList \in Seq(Sockets)
  /\ zmq \in [Sockets -> ZmqStates]
  /\ routerIn \in Seq(Request)
  /\ dealerOut \in Seq(Request)
  /\ inBackend \subseteq Sockets
  /\ replies \subseteq Sockets
  /\ backendUp \in BOOLEAN

Pooled  == {socketList[i] : i \in DOMAIN socketList}
InUse   == {sock[t] : t \in {u \in Threads : pc[u] \in Holding}}

\* Every socket has one owner: it is in the list at most once, or one thread
\* has it, from getSocket() until it is returned or closed.
OneOwner ==
  /\ \A i, j \in DOMAIN socketList : socketList[i] = socketList[j] => i = j
  /\ \A t \in Threads : sock[t] # NoSocket <=> pc[t] \in Holding \cup {"closing"}
  /\ \A t, u \in Threads : sock[t] = sock[u] /\ sock[t] # NoSocket => t = u
  /\ \A t \in Threads : sock[t] \notin Pooled

\* numSockets counts the sockets of the pool, in the list or in use: what the
\* destructor asserts once all are back, and what stops getSocket() from
\* waiting when there is nothing to wait for.
SocketsAccounted == numSockets = Cardinality(Pooled \cup InUse)

\* The sockets with a request or an answer on its way.
Outstanding ==
  inBackend \cup replies
    \cup {routerIn[i].from  : i \in {j \in DOMAIN routerIn  : routerIn[j].live}}
    \cup {dealerOut[i].from : i \in {j \in DOMAIN dealerOut : dealerOut[j].live}}

\* Whatever is on its way on a socket belongs to the query of the thread that
\* polls it.  A pooled socket is clean, so a thread never reads the answer to
\* the query of another one, however late the backend answers.
AnswersMatchQueries ==
  /\ \A s \in Outstanding :
       \E t \in Threads : sock[t] = s /\ pc[t] \in {"polling", "timedOut", "closing"}
  /\ \A s \in Pooled : zmq[s] = "open"

\* No wake-up is lost: while the list has a socket and a thread waits for one,
\* some thread is on its way to look at the list, although returnSocket()
\* notifies only when the list was empty.
NoLostWakeup == socketList # <<>> /\ Waiters # {} => Woken # {}

\* While sockets exist the pool cannot stall: if a thread waits, some thread
\* will get a socket, unless every socket is lost to timeouts first.
PoolProgress ==
  Waiters # {} /\ numSockets > 0
    ~> numSockets = 0 \/ \E t \in Threads : pc[t] = "holding"

\* "When backend is back sockets should be available again" (comment in
\* backendQuery()), read for the zmq context: the slot of a socket that left the
\* pool becomes free again.
Lost(s) == zmq[s] # "free" /\ s \notin Pooled \cup InUse
LostSocketsReclaimed ==
  <>[]backendUp => \A s \in Sockets : Lost(s) ~> zmq[s] = "free"

\* The same comment read for the pool: when the backend is back for good, a
\* thread that waits sees some socket handed out.
SocketsAvailableAgain ==
  <>[]backendUp =>
    (Waiters # {} ~> \E t \in Threads : pc[t] = "holding")
=============================================================================
