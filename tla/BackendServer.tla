----------------------------- MODULE BackendServer -----------------------------
(***************************************************************************)
(* The backend's Server (backend/server.cpp): run() on the main thread with *)
(* the load balancing loop, one workerFunction() per worker thread, and the *)
(* management thread, whose "stop" command terminates the zmq context.     *)
(*                                                                         *)
(* Once the context is being terminated a zmq call may still succeed, as   *)
(* the socket has not seen the termination yet, or end in ETERM; creating  *)
(* a socket then throws outside of any try block, and std::terminate()     *)
(* ends the process.                                                       *)
(*                                                                         *)
(* A worker needs its connection to the database for every request: a query *)
(* that fails is repeated on a reopened connection, without a limit, and    *)
(* given up only when the connection cannot be reopened.                    *)
(***************************************************************************)
EXTENDS Naturals, Sequences, FiniteSets

CONSTANTS
  Workers,       \* worker threads
  Requests,      \* queries; each stands for the client address it came from too
  Intentional,   \* those of user action INTENTIONAL_REQUEST, which are logged
  None           \* no request; on its way to the broker it is READY_STR

ASSUME WorkersAssumption  == IsFiniteSet(Workers) /\ Workers # {}
ASSUME RequestsAssumption == Intentional \subseteq Requests /\ None \notin Requests

VARIABLES
  db,              \* "slow": it accepts connections, but no query ends in time
  connection,      \* of each worker to it
  main,            \* where the main thread is
  clientsPolled,   \* revents of the clients socket in the current round
  worker_queue,    \* idle workers, the one idle for longest first
  pc,              \* where each worker is
  request,         \* the request a worker has
  clients,         \* requests to be read from the clients socket
  toWorker,        \* messages on their way to each worker
  fromWorker,      \* messages of each worker to be read by the broker
  contextClosed,   \* context.close() was called
  mgmt,            \* where the management thread is
  crashed,         \* the process was ended by abort() or std::terminate()
  sent,            \* requests sent by clients
  answered,        \* requests whose response was sent to the client
  logged           \* requests passed to requestLogger.logRequest(), in this order

broker  == <<main, clientsPolled, worker_queue>>
worker  == <<pc, request>>
network == <<clients, toWorker, fromWorker, sent>>
stop    == <<contextClosed, mgmt, crashed>>
record  == <<answered, logged>>
database == <<db, connection>>
vars    == <<database, broker, worker, network, stop, record>>

-----------------------------------------------------------------------------
\* "starting": before the sockets are bound; "poll", "workers", "clients": in
\* loadBalancing(); "joining", "stopLogger": after it, in run(); "joinMgmt": in
\* ~MgmtInterface().
InLoop    == {"poll", "workers", "clients"}
MainState == {"starting", "joining", "stopLogger", "joinMgmt", "exited"} \cup InLoop

WorkerState == {"none", "starting", "connecting", "ready", "receiving", "working",
                "logging", "finished"}

\* "opened": its statements are not registered yet; "interrupted": broken before
\* they were; "lost": broken later.
ConnectionState == {"none", "opened", "interrupted", "ready", "lost"}

WithSocket == {"connecting", "ready", "receiving", "working", "logging"}

Init ==
  /\ db = "up" /\ connection = [w \in Workers |-> "none"]
  /\ main = "starting" /\ clientsPolled = FALSE /\ worker_queue = <<>>
  /\ pc = [w \in Workers |-> "none"]
  /\ request = [w \in Workers |-> None]
  /\ clients = <<>>
  /\ toWorker = [w \in Workers |-> <<>>]
  /\ fromWorker = [w \in Workers |-> <<>>]
  /\ contextClosed = FALSE /\ mgmt = "serving" /\ crashed = FALSE
  /\ sent = {} /\ answered = {} /\ logged = <<>>

Crash == /\ crashed' = TRUE
         /\ UNCHANGED <<database, broker, worker, network, contextClosed, mgmt, record>>

-----------------------------------------------------------------------------
(* Clients, that is httpd, and the "stop" command *)

\* A request waits in the network until the clients socket is bound and polled.
SendRequest(r) ==
  /\ r \notin sent
  /\ sent' = sent \cup {r}
  /\ clients' = Append(clients, r)
  /\ UNCHANGED <<database, broker, worker, toWorker, fromWorker, stop, record>>

\* cmdStop(): Server::requestStop() closes the context, at any time since the
\* management thread runs before the server does.
RequestStop ==
  /\ mgmt = "serving"
  /\ mgmt' = "closing"
  /\ contextClosed' = TRUE
  /\ UNCHANGED <<database, broker, worker, network, crashed, record>>

\* context.close() returns when all sockets are closed.
CloseReturns ==
  /\ mgmt = "closing"
  /\ main \in {"starting", "joinMgmt"}
  /\ \A w \in Workers : pc[w] \notin WithSocket
  /\ mgmt' = "done"
  /\ UNCHANGED <<database, broker, worker, network, contextClosed, crashed, record>>

-----------------------------------------------------------------------------
(* Server::run() and Server::loadBalancing() *)

MainGoto(from, to) == main = from /\ main' = to

\* Bind the sockets, start the request logger and the workers.
StartWorkers ==
  /\ ~contextClosed
  /\ MainGoto("starting", "poll")
  /\ pc' = [w \in Workers |-> "starting"]
  /\ UNCHANGED <<database, clientsPolled, worker_queue, request, network, stop, record>>

\* The sockets cannot be created any more.
CannotBind ==
  /\ main = "starting"
  /\ contextClosed
  /\ Crash

Readable == {w \in Workers : fromWorker[w] # <<>>}

\* Mutated forms, each named for the mistake, precede what they mutate.
PollsClients_Always == TRUE
PollsClients == worker_queue # <<>>

\* zmq::poll(): clients are looked at only while a worker is idle.
Poll ==
  /\ main = "poll"
  /\ clientsPolled' = (PollsClients /\ clients # <<>>)
  /\ \/ Readable # {} /\ main' = "workers"
     \/ Readable = {} /\ clientsPolled' /\ main' = "clients"
  /\ UNCHANGED <<database, worker_queue, worker, network, stop, record>>

AfterWorkers == IF clientsPolled THEN "clients" ELSE "poll"

Idle_IgnoreReady(w) ==
  IF Head(fromWorker[w]) = None THEN worker_queue ELSE Append(worker_queue, w)
Idle(w) == Append(worker_queue, w)

\* One message of a worker: READY or the response to a client.
HandleWorker(w) ==
  LET r == Head(fromWorker[w])
  IN  /\ MainGoto("workers", AfterWorkers)
      /\ fromWorker[w] # <<>>
      /\ fromWorker' = [fromWorker EXCEPT ![w] = Tail(@)]
      /\ worker_queue' = Idle(w)
      /\ answered' = IF r = None THEN answered ELSE answered \cup {r}
      /\ UNCHANGED <<database, clientsPolled, worker, clients, toWorker, sent, stop, logged>>

Popped_Kept == worker_queue
Popped == Tail(worker_queue)

\* One request of a client goes to the worker idle for longest.
HandleClient ==
  LET w == Head(worker_queue)
  IN  /\ MainGoto("clients", "poll")
      /\ worker_queue # <<>>
      /\ toWorker' = [toWorker EXCEPT ![w] = Append(@, Head(clients))]
      /\ clients' = Tail(clients)
      /\ worker_queue' = Popped
      /\ UNCHANGED <<database, clientsPolled, worker, fromWorker, sent, stop, record>>

\* ETERM in the loop, possibly between the parts of a message: what was being
\* forwarded is lost.
LoopTerminated ==
  /\ contextClosed
  /\ main \in InLoop
  /\ main' = "joining"
  /\ \/ UNCHANGED <<clients, fromWorker>>
     \/ /\ main = "clients"
        /\ clients' = Tail(clients)
        /\ UNCHANGED fromWorker
     \/ /\ main = "workers"
        /\ \E w \in Readable : fromWorker' = [fromWorker EXCEPT ![w] = Tail(@)]
        /\ UNCHANGED clients
  /\ UNCHANGED <<database, clientsPolled, worker_queue, worker, toWorker, sent, stop, record>>

\* workerThreads.join_all()
AllJoined_NotAwaited == TRUE
AllJoined == \A w \in Workers : pc[w] = "finished"

JoinWorkers ==
  /\ MainGoto("joining", "stopLogger")
  /\ AllJoined
  /\ UNCHANGED <<database, clientsPolled, worker_queue, worker, network, stop, record>>

\* requestLogger.stop(), the shutdown of webroot, and the end of run().
StopLogger ==
  /\ MainGoto("stopLogger", "joinMgmt")
  /\ UNCHANGED <<database, clientsPolled, worker_queue, worker, network, stop, record>>

\* main() returns: ~MgmtInterface() joins its thread.
Exit ==
  /\ MainGoto("joinMgmt", "exited")
  /\ mgmt = "done"
  /\ UNCHANGED <<database, clientsPolled, worker_queue, worker, network, stop, record>>

-----------------------------------------------------------------------------
(* Server::workerFunction() *)

WorkerGoto(w, from, to) == pc[w] = from /\ pc' = [pc EXCEPT ![w] = to]

CreateSocket(w) ==
  /\ ~contextClosed
  /\ WorkerGoto(w, "starting", "connecting")
  /\ UNCHANGED <<database, broker, request, network, stop, record>>

CannotCreateSocket(w) ==
  /\ contextClosed
  /\ pc[w] = "starting"
  /\ Crash

\* DBConnection::create().
ConnectToDb(w) ==
  /\ pc[w] = "connecting" /\ connection[w] = "none"
  /\ db # "down"
  /\ connection' = [connection EXCEPT ![w] = "opened"]
  /\ UNCHANGED <<db, broker, worker, network, stop, record>>

\* FAILURE("Cannot connect to database.")
CannotConnectToDb(w) ==
  /\ pc[w] = "connecting" /\ connection[w] = "none"
  /\ Crash

AfterPreparing(w) == IF pc[w] = "connecting" THEN "ready" ELSE pc[w]

\* registerPreparedStatements(), on connecting and on reconnecting.
PrepareStatements(w) ==
  /\ connection[w] = "opened"
  /\ connection' = [connection EXCEPT ![w] = "ready"]
  /\ pc' = [pc EXCEPT ![w] = AfterPreparing(w)]
  /\ UNCHANGED <<db, request, broker, network, stop, record>>

\* FAILURE("Failed to register prepared statement [...]")
CannotPrepareStatements(w) ==
  /\ connection[w] = "interrupted"
  /\ Crash

\* socket.send() of READY or of a response.
Send(w, message) == fromWorker' = [fromWorker EXCEPT ![w] = Append(@, message)]

SendReady(w) ==
  /\ WorkerGoto(w, "ready", "receiving")
  /\ Send(w, None)
  /\ UNCHANGED <<database, broker, request, clients, toWorker, sent, stop, record>>

ReceiveRequest(w) ==
  /\ WorkerGoto(w, "receiving", "working")
  /\ toWorker[w] # <<>>
  /\ request' = [request EXCEPT ![w] = Head(toWorker[w])]
  /\ toWorker' = [toWorker EXCEPT ![w] = Tail(@)]
  /\ UNCHANGED <<database, broker, clients, fromWorker, sent, stop, record>>

Reply_OnlyIfLogged(w) ==
  IF request[w] \in Intentional THEN Send(w, request[w]) ELSE UNCHANGED fromWorker
Reply(w) == Send(w, request[w])

IsLogged_Any(w) == TRUE
IsLogged(w) == request[w] \in Intentional

AfterReply(w) == IF IsLogged(w) THEN "logging" ELSE "receiving"

RequestAfterReply(w) == IF IsLogged(w) THEN request[w] ELSE None

\* A query of the decision fails or times out, and shouldRetryAfterFailure() opens
\* the connection again.
QueryFails(w) ==
  /\ pc[w] = "working"
  /\ connection[w] = "lost" \/ (connection[w] = "ready" /\ db = "slow")
  /\ db # "down"
  /\ connection' = [connection EXCEPT ![w] = "opened"]
  /\ UNCHANGED <<db, broker, worker, network, stop, record>>

\* The last query has a result, or is given up as the database is away.
QueriesEnd_OnlyWithResult(w) == connection[w] = "ready" /\ db = "up"
QueriesEnd(w) ==
  \/ connection[w] = "ready" /\ db = "up"
  \/ connection[w] = "lost" /\ db = "down"

\* The decision is made and sent; only then the request is logged.
SendResponse(w) ==
  /\ QueriesEnd(w)
  /\ WorkerGoto(w, "working", AfterReply(w))
  /\ Reply(w)
  /\ request' = [request EXCEPT ![w] = RequestAfterReply(w)]
  /\ UNCHANGED <<database, broker, clients, toWorker, sent, stop, record>>

LogRequest(w) ==
  /\ WorkerGoto(w, "logging", "receiving")
  /\ logged' = Append(logged, request[w])
  /\ request' = [request EXCEPT ![w] = None]
  /\ UNCHANGED <<database, broker, network, stop, answered>>

\* The send() and recv() calls of a worker, where ETERM ends its loop.
Terminates(w) ==
  pc[w] \in {"ready", "receiving"} \/ (pc[w] = "working" /\ QueriesEnd(w))

\* ETERM is not caught around recv().
WorkerTerminated_Uncaught(w) ==
  /\ contextClosed
  /\ Terminates(w)
  /\ IF pc[w] = "receiving"
     THEN Crash
     ELSE /\ pc' = [pc EXCEPT ![w] = "finished"]
          /\ request' = [request EXCEPT ![w] = None]
          /\ UNCHANGED <<database, broker, network, stop, record>>

WorkerTerminated(w) ==
  /\ contextClosed
  /\ Terminates(w)
  /\ pc' = [pc EXCEPT ![w] = "finished"]
  /\ request' = [request EXCEPT ![w] = None]
  /\ UNCHANGED <<database, broker, network, stop, record>>

-----------------------------------------------------------------------------
(* The database *)

WhenBroken(state) ==
  CASE state = "opened" -> "interrupted"
    [] state = "ready"  -> "lost"
    [] OTHER            -> state

DbFails ==
  /\ db # "down" /\ db' = "down"
  /\ connection' = [w \in Workers |-> WhenBroken(connection[w])]
  /\ UNCHANGED <<broker, worker, network, stop, record>>

DbSlows ==
  /\ db = "up" /\ db' = "slow"
  /\ UNCHANGED <<connection, broker, worker, network, stop, record>>

DbRecovers ==
  /\ db # "up" /\ db' = "up"
  /\ UNCHANGED <<connection, broker, worker, network, stop, record>>

-----------------------------------------------------------------------------
MainThread ==
  \/ StartWorkers \/ CannotBind \/ Poll \/ HandleClient \/ LoopTerminated
  \/ JoinWorkers  \/ StopLogger \/ Exit
  \/ \E w \in Workers : HandleWorker(w)

WorkerThread(w) ==
  \/ CreateSocket(w) \/ CannotCreateSocket(w)
  \/ ConnectToDb(w) \/ CannotConnectToDb(w)
  \/ PrepareStatements(w) \/ CannotPrepareStatements(w)
  \/ SendReady(w) \/ ReceiveRequest(w)
  \/ QueryFails(w) \/ SendResponse(w) \/ LogRequest(w)
  \/ WorkerTerminated(w)

Ended == crashed \/ main = "exited"

\* The process is gone; everywhere else a state without a successor is a
\* deadlock.
Gone == Ended /\ UNCHANGED vars

Next ==
  \/ /\ ~Ended
     /\ \/ MainThread
        \/ \E w \in Workers : WorkerThread(w)
        \/ \E r \in Requests : SendRequest(r)
        \/ RequestStop \/ CloseReturns
        \/ DbFails \/ DbSlows \/ DbRecovers
  \/ Gone

Spec == Init /\ [][Next]_vars

\* The threads are scheduled, and sockets see the termination of the context sooner
\* or later.  Nothing makes a client send, an operator stop the backend, or the
\* database recover.
Fairness ==
  /\ WF_vars(~Ended /\ MainThread)
  /\ SF_vars(~Ended /\ LoopTerminated)
  /\ WF_vars(~Ended /\ CloseReturns)
  /\ \A w \in Workers :
       /\ WF_vars(~Ended /\ WorkerThread(w))
       /\ SF_vars(~Ended /\ WorkerTerminated(w))

FairSpec == Spec /\ Fairness

-----------------------------------------------------------------------------
(* Properties *)

InSeq(q) == {q[i] : i \in DOMAIN q}

DatabaseTypeOK ==
  db \in {"up", "slow", "down"} /\ connection \in [Workers -> ConnectionState]

\* A worker has a request while it works on it or logs it.
TypeOK ==
  /\ DatabaseTypeOK
  /\ main \in MainState /\ clientsPolled \in BOOLEAN
  /\ worker_queue \in Seq(Workers)
  /\ pc \in [Workers -> WorkerState]
  /\ request \in [Workers -> Requests \cup {None}]
  /\ \A w \in Workers : request[w] # None <=> pc[w] \in {"working", "logging"}
  /\ clients \in Seq(Requests)
  /\ toWorker \in [Workers -> Seq(Requests)]
  /\ fromWorker \in [Workers -> Seq(Requests \cup {None})]
  /\ contextClosed \in BOOLEAN /\ mgmt \in {"serving", "closing", "done"}
  /\ crashed \in BOOLEAN
  /\ sent \subseteq Requests /\ answered \subseteq Requests /\ logged \in Seq(Requests)

Available(w) ==
  /\ pc[w] \in {"receiving", "logging"}
  /\ toWorker[w] = <<>> /\ fromWorker[w] = <<>>

\* A request taken from the clients socket always finds a worker: front() is
\* never called on an empty queue.
ClientFindsWorker == main = "clients" => worker_queue # <<>> /\ clients # <<>>

\* The broker only knows what workers told it, and yet its queue is exactly the
\* workers that have nothing to do: none is listed twice, listed while a request
\* or a response of it is under way, or forgotten.
QueueIsIdleWorkers ==
  /\ main \in InLoop /\ ~contextClosed =>
       /\ InSeq(worker_queue) = {w \in Workers : Available(w)}
       /\ \A i, j \in DOMAIN worker_queue : worker_queue[i] = worker_queue[j] => i = j
  /\ ClientFindsWorker

\* Where a request can be: in the clients socket, on the way to a worker, with it,
\* and on the way back.
Waiting    == InSeq(clients)
Carried(w) == InSeq(toWorker[w])
Worked(w)  == IF pc[w] = "working" THEN {request[w]} ELSE {}
Replied(w) == InSeq(fromWorker[w]) \ {None}

\* The places of a request, one by one.
PositionsOf(r, queues) ==
  UNION {{w} \X {i \in DOMAIN queues[w] : queues[w][i] = r} : w \in Workers}

Places(r) ==
  [waiting  |-> {i \in DOMAIN clients : clients[i] = r},
   toWorker |-> PositionsOf(r, toWorker),
   working  |-> {w \in Workers : pc[w] = "working" /\ request[w] = r},
   replied  |-> PositionsOf(r, fromWorker),
   answered |-> {r} \cap answered]

Copies(r) ==
  LET p == Places(r)
  IN  Cardinality(p.waiting) + Cardinality(p.toWorker) + Cardinality(p.working)
        + Cardinality(p.replied) + Cardinality(p.answered)

\* Each request is in one place, at one worker, and answered at most once; before
\* the context is closed none is lost.
ServedOnce ==
  \A r \in Requests :
    /\ Copies(r) <= (IF r \in sent THEN 1 ELSE 0)
    /\ r \in sent /\ ~contextClosed => Copies(r) = 1

\* A response leaves the worker before the request is logged, but by the time the
\* request logger is stopped every response a client can have got is logged, and
\* nobody calls a stopped logger.
AnswersLogged ==
  main \in {"joinMgmt", "exited"} =>
    /\ answered \cap Intentional \subseteq InSeq(logged)
    /\ \A w \in Workers : pc[w] = "finished"

\* abort() and std::terminate(): the context is closed before all sockets are
\* created; a worker cannot connect at its start; or the database goes away between
\* the opening of a worker's connection and the registration of its statements.  The
\* stop of a server whose workers are started never ends so otherwise.
CrashHasCause ==
  crashed =>
    \/ contextClosed /\ (main = "starting" \/ \E w \in Workers : pc[w] = "starting")
    \/ \E w \in Workers : pc[w] = "connecting" /\ connection[w] = "none"
    \/ \E w \in Workers :
         pc[w] \in {"connecting", "working"} /\ connection[w] = "interrupted"

\* How RequestService sees a request and the server.
Asked(r)   == r \in Waiting \/ \E w \in Workers : r \in Carried(w) \cup Worked(w)
Decided(r) == \E w \in Workers : r \in Replied(w)

PlaceOf(r) ==
  IF r \notin sent THEN "unsent"
  ELSE IF r \in answered THEN "answered"
  ELSE IF Asked(r) THEN "asked"
  ELSE IF Decided(r) THEN "decided"
  ELSE "lost"

Phase ==
  IF main \in {"joinMgmt", "exited"} THEN "stopped"
  ELSE IF contextClosed THEN "stopping"
  ELSE "serving"

Service ==
  INSTANCE RequestService WITH place <- [r \in Requests |-> PlaceOf(r)], phase <- Phase

\* The broker, its workers and the shutdown implement the service: whatever the
\* interleaving, a request is decided once, answered and logged at most once,
\* and nothing is answered or logged when run() has stopped the logger.
ImplementsRequestService == Service!Spec

\* The database does not keep accepting connections on which queries fail.
Settles == <>[](db = "up") \/ <>[](db = "down")

\* A server that is not stopped answers every request, also those whose queries
\* fail, but not while a query can be repeated on ever new connections.
EveryRequestAnswered ==
  Settles =>
    \A r \in Requests : r \in sent ~> r \in answered \/ contextClosed \/ crashed

\* The stop command ends the process, whenever it comes, and in an orderly way
\* unless something in CrashHasCause comes first.  It waits for workers that repeat
\* a query.
StopEndsProcess ==
  Settles => (contextClosed ~> main = "exited" \/ (crashed /\ CrashHasCause))
=============================================================================
