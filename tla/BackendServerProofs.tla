-------------------------- MODULE BackendServerProofs --------------------------
(***************************************************************************)
(* Proofs about BackendServer, for any number of workers and requests: the  *)
(* types, the broker's queue of idle workers, the way of each request, the   *)
(* order of the shutdown, and that all of it implements RequestService.     *)
(***************************************************************************)
EXTENDS BackendServer, SequenceTheorems, FiniteSetTheorems, TLAPS

-----------------------------------------------------------------------------
(* The queue of workers *)

Distinct(q) == \A i, j \in DOMAIN q : q[i] = q[j] => i = j

LEMMA AppendElement ==
  ASSUME NEW S, NEW q \in Seq(S), NEW x \in S
  PROVE  /\ InSeq(Append(q, x)) = InSeq(q) \cup {x}
         /\ Distinct(q) /\ x \notin InSeq(q) => Distinct(Append(q, x))
<1>1. /\ Len(q) \in Nat /\ DOMAIN q = 1..Len(q)
      /\ DOMAIN Append(q, x) = 1..Len(q) + 1
      /\ Append(q, x)[Len(q) + 1] = x
      /\ \A i \in 1..Len(q) : Append(q, x)[i] = q[i]
  OBVIOUS
<1>2. InSeq(Append(q, x)) = InSeq(q) \cup {x}
  BY <1>1 DEF InSeq
<1>3. ASSUME Distinct(q), x \notin InSeq(q) PROVE Distinct(Append(q, x))
  BY <1>1, <1>3 DEF Distinct, InSeq
<1>. QED BY <1>2, <1>3

LEMMA AppendNonEmpty ==
  ASSUME NEW S, NEW q \in Seq(S), NEW x \in S PROVE Append(q, x) # <<>>
<1>1. Len(Append(q, x)) = Len(q) + 1 /\ Len(q) \in Nat /\ Len(<<>>) = 0
  OBVIOUS
<1>. QED BY <1>1

LEMMA TailElement ==
  ASSUME NEW S, NEW q \in Seq(S), q # <<>>
  PROVE  /\ Head(q) \in InSeq(q) /\ Tail(q) \in Seq(S)
         /\ Distinct(q) => /\ InSeq(Tail(q)) = InSeq(q) \ {Head(q)}
                           /\ Distinct(Tail(q))
<1>1. /\ Len(q) \in Nat \ {0} /\ DOMAIN q = 1..Len(q)
      /\ Head(q) = q[1] /\ Tail(q) \in Seq(S)
      /\ DOMAIN Tail(q) = 1..Len(q) - 1
      /\ \A i \in 1..Len(q) - 1 : Tail(q)[i] = q[i + 1]
  OBVIOUS
<1>2. Head(q) \in InSeq(q)
  BY <1>1 DEF InSeq
<1>3. ASSUME Distinct(q)
      PROVE  InSeq(Tail(q)) = InSeq(q) \ {Head(q)} /\ Distinct(Tail(q))
  <2>1. \A y \in InSeq(Tail(q)) : y \in InSeq(q) /\ y # Head(q)
    BY <1>1, <1>3 DEF InSeq, Distinct
  <2>2. \A y \in InSeq(q) : y # Head(q) => y \in InSeq(Tail(q))
    <3>. SUFFICES ASSUME NEW i \in 1..Len(q), q[i] # Head(q)
                  PROVE  q[i] \in InSeq(Tail(q))
      BY <1>1 DEF InSeq
    <3>1. i - 1 \in 1..Len(q) - 1
      BY <1>1
    <3>2. Tail(q)[i - 1] = q[i]
      BY <1>1, <3>1
    <3>. QED BY <1>1, <3>1, <3>2 DEF InSeq
  <2>3. Distinct(Tail(q))
    BY <1>1, <1>3 DEF Distinct
  <2>. QED BY <2>1, <2>2, <2>3
<1>. QED BY <1>1, <1>2, <1>3

-----------------------------------------------------------------------------
(* Steps *)

\* The broker, the protocol and the shutdown do not depend on the database, which
\* only decides when a worker becomes ready and when it has its decision.
serverVars == <<broker, worker, network, stop, record>>

BecomesReady(w) ==
  /\ WorkerGoto(w, "connecting", "ready")
  /\ UNCHANGED <<broker, request, network, stop, record>>

WorkerStep(w) ==
  \/ CreateSocket(w) \/ CannotCreateSocket(w) \/ BecomesReady(w) \/ SendReady(w)
  \/ ReceiveRequest(w) \/ SendResponse(w) \/ LogRequest(w) \/ WorkerTerminated(w)

NextStep ==
  /\ DatabaseTypeOK'
  /\ \/ MainThread
     \/ \E w \in Workers : WorkerStep(w)
     \/ \E r \in Requests : SendRequest(r)
     \/ RequestStop \/ CloseReturns \/ Crash
     \/ UNCHANGED serverVars

LEMMA DatabaseTypeNext == TypeOK /\ [Next]_vars => DatabaseTypeOK'
<1>. SUFFICES ASSUME TypeOK, [Next]_vars PROVE DatabaseTypeOK'
  OBVIOUS
<1>. USE DEF TypeOK, DatabaseTypeOK, ConnectionState
<1>1. CASE DbFails
  BY <1>1 DEF DbFails, WhenBroken
<1>2. CASE DbSlows \/ DbRecovers
  BY <1>2 DEF DbSlows, DbRecovers
<1>3. ASSUME NEW w \in Workers, ConnectToDb(w) \/ PrepareStatements(w) \/ QueryFails(w)
      PROVE  DatabaseTypeOK'
  BY <1>3 DEF ConnectToDb, PrepareStatements, QueryFails
<1>4. CASE UNCHANGED database
  BY <1>4 DEF database
<1>5. \/ DbFails \/ DbSlows \/ DbRecovers \/ UNCHANGED database
      \/ \E w \in Workers : ConnectToDb(w) \/ PrepareStatements(w) \/ QueryFails(w)
  BY DEF Next, Gone, MainThread, WorkerThread, StartWorkers, CannotBind, Poll, HandleClient,
         LoopTerminated, JoinWorkers, StopLogger, Exit, HandleWorker, CreateSocket,
         CannotCreateSocket, CannotConnectToDb, CannotPrepareStatements, SendReady,
         ReceiveRequest, SendResponse, LogRequest, WorkerTerminated, SendRequest,
         RequestStop, CloseReturns, Crash, vars
<1>. QED BY <1>1, <1>2, <1>3, <1>4, <1>5

LEMMA NextSteps == TypeOK /\ [Next]_vars => NextStep
<1>. SUFFICES ASSUME TypeOK, [Next]_vars PROVE NextStep
  OBVIOUS
<1>1. ASSUME NEW w \in Workers, PrepareStatements(w)
      PROVE  BecomesReady(w) \/ UNCHANGED serverVars
  <2>1. CASE pc[w] = "connecting"
    BY <1>1, <2>1 DEF PrepareStatements, AfterPreparing, BecomesReady, WorkerGoto
  <2>2. CASE pc[w] # "connecting"
    <3>1. pc' = pc
      BY <1>1, <2>2 DEF PrepareStatements, AfterPreparing, TypeOK
    <3>. QED BY <1>1, <3>1 DEF PrepareStatements, serverVars, worker
  <2>. QED BY <2>1, <2>2
<1>2. ASSUME NEW w \in Workers, WorkerThread(w)
      PROVE  WorkerStep(w) \/ Crash \/ UNCHANGED serverVars
  BY <1>1, <1>2
  DEF WorkerThread, WorkerStep, ConnectToDb, CannotConnectToDb, CannotPrepareStatements,
      QueryFails, serverVars
<1>3. DbFails \/ DbSlows \/ DbRecovers \/ UNCHANGED vars => UNCHANGED serverVars
  BY DEF DbFails, DbSlows, DbRecovers, vars, serverVars
<1>. QED BY <1>2, <1>3, DatabaseTypeNext DEF Next, Gone, NextStep

-----------------------------------------------------------------------------
(* Types *)

\* The broker goes on to the clients socket only after poll() has seen a request
\* and an idle worker, and neither can go away meanwhile.
PolledClients ==
  /\ main = "clients" => clientsPolled
  /\ main \in {"workers", "clients"} /\ clientsPolled
       => worker_queue # <<>> /\ clients # <<>>

\* Nothing moves before the server is started.
NotStarted ==
  main = "starting" =>
    /\ worker_queue = <<>>
    /\ \A w \in Workers : pc[w] = "none" /\ toWorker[w] = <<>> /\ fromWorker[w] = <<>>

TInv == TypeOK /\ PolledClients /\ NotStarted

LEMMA TypeInit == Init => TInv
<1>. SUFFICES ASSUME Init PROVE TInv
  OBVIOUS
<1>1. /\ clientsPolled \in BOOLEAN /\ contextClosed \in BOOLEAN /\ crashed \in BOOLEAN
  BY Zenon DEF Init
<1>. QED
  BY <1>1, RequestsAssumption
  DEF Init, TInv, TypeOK, DatabaseTypeOK, ConnectionState, PolledClients, NotStarted,
      MainState, InLoop, WorkerState

LEMMA NotStartedNext == NotStarted /\ NextStep => NotStarted'
<1>. SUFFICES ASSUME NotStarted, NextStep PROVE NotStarted'
  OBVIOUS
<1>1. CASE MainThread
  <2>1. main' # "starting" \/ Crash
    BY <1>1 DEF MainThread, StartWorkers, CannotBind, Poll, HandleClient,
       LoopTerminated, JoinWorkers, StopLogger, Exit, HandleWorker, AfterWorkers, MainGoto
  <2>. QED BY <2>1 DEF NotStarted, Crash, broker, worker, network
<1>2. ASSUME NEW w \in Workers, WorkerStep(w) PROVE NotStarted'
  <2>1. pc[w] # "none"
    BY <1>2 DEF WorkerStep, CreateSocket, CannotCreateSocket, BecomesReady, SendReady,
       ReceiveRequest, SendResponse, LogRequest, WorkerTerminated, Terminates, WorkerGoto
  <2>2. main' = main
    BY <1>2 DEF WorkerStep, CreateSocket, CannotCreateSocket, BecomesReady, SendReady,
       ReceiveRequest, SendResponse, LogRequest, WorkerTerminated, Crash, broker
  <2>. QED BY <2>1, <2>2 DEF NotStarted
<1>3. CASE \/ RequestStop \/ CloseReturns \/ Crash \/ UNCHANGED serverVars
           \/ \E r \in Requests : SendRequest(r)
  BY <1>3 DEF RequestStop, CloseReturns, Crash, SendRequest, NotStarted, serverVars, broker,
              worker, network
<1>. QED BY <1>1, <1>2, <1>3 DEF NextStep

LEMMA PolledClientsNext == TypeOK /\ PolledClients /\ NextStep => PolledClients'
<1>. SUFFICES ASSUME TypeOK, PolledClients, NextStep PROVE PolledClients'
  OBVIOUS
<1>1. CASE Poll
  <2>1. /\ clientsPolled' => worker_queue # <<>> /\ clients # <<>>
        /\ main' = "clients" => clientsPolled'
    BY <1>1 DEF Poll, PollsClients
  <2>. QED BY <1>1, <2>1 DEF PolledClients, Poll, network
<1>2. ASSUME NEW w \in Workers, HandleWorker(w) PROVE PolledClients'
  <2>1. Append(worker_queue, w) # <<>>
    BY <1>2, AppendNonEmpty DEF TypeOK
  <2>2. /\ main' = (IF clientsPolled THEN "clients" ELSE "poll")
        /\ main = "workers" /\ UNCHANGED <<clientsPolled, clients>>
        /\ worker_queue' = Append(worker_queue, w)
    BY <1>2 DEF HandleWorker, AfterWorkers, MainGoto, Idle
  <2>. QED BY <2>1, <2>2 DEF PolledClients
<1>3. ASSUME NEW r \in Requests, SendRequest(r) PROVE PolledClients'
  <2>1. Append(clients, r) # <<>>
    BY <1>3, AppendNonEmpty DEF TypeOK
  <2>. QED BY <1>3, <2>1 DEF SendRequest, PolledClients, broker
<1>4. CASE \/ StartWorkers \/ HandleClient \/ LoopTerminated \/ JoinWorkers
           \/ StopLogger \/ Exit
  <2>1. main' \notin {"workers", "clients"}
    BY <1>4 DEF StartWorkers, HandleClient, LoopTerminated, JoinWorkers, StopLogger,
                Exit, MainGoto
  <2>. QED BY <2>1 DEF PolledClients
<1>5. CASE RequestStop \/ CloseReturns \/ Crash \/ UNCHANGED serverVars
  BY <1>5 DEF RequestStop, CloseReturns, Crash, PolledClients, serverVars, broker, network
<1>6. ASSUME NEW w \in Workers, WorkerStep(w), ~Crash PROVE PolledClients'
  BY <1>6 DEF WorkerStep, CreateSocket, CannotCreateSocket, BecomesReady, SendReady,
              ReceiveRequest, SendResponse, LogRequest, WorkerTerminated,
              PolledClients, broker, network
<1>. QED
  BY <1>1, <1>2, <1>3, <1>4, <1>5, <1>6
  DEF NextStep, MainThread, CannotBind

LEMMA TypeNext == TInv /\ NextStep => TypeOK'
<1>. SUFFICES ASSUME TypeOK, PolledClients, NotStarted, NextStep PROVE TypeOK'
  BY DEF TInv
<1>. USE DEF TypeOK, broker, worker, network, stop, record, MainState, InLoop,
             WorkerState, MainGoto, WorkerGoto
<1>a. None \notin Requests
  BY RequestsAssumption
<1>b. DatabaseTypeOK'
  BY DEF NextStep
<1>. USE <1>b
<1>1. ASSUME NEW r \in Requests, SendRequest(r) PROVE TypeOK'
  BY <1>1 DEF SendRequest
<1>2. CASE RequestStop
  <2>1. contextClosed' \in BOOLEAN /\ mgmt' = "closing"
        /\ UNCHANGED <<broker, worker, network, crashed, record>>
    BY <1>2, Zenon DEF RequestStop
  <2>. QED BY <2>1
<1>3. CASE CloseReturns
  BY <1>3 DEF CloseReturns
<1>4. CASE Crash
  <2>1. crashed' \in BOOLEAN
        /\ UNCHANGED <<broker, worker, network, contextClosed, mgmt, record>>
    BY <1>4, Zenon DEF Crash
  <2>. QED BY <2>1
<1>5. CASE StartWorkers
  <2>1. main = "starting" /\ \A w \in Workers : request[w] = None
    BY <1>5 DEF StartWorkers, NotStarted
  <2>. QED BY <1>5, <2>1 DEF StartWorkers
<1>6. CASE Poll
  <2>1. clientsPolled' \in BOOLEAN
    BY <1>6, Zenon DEF Poll
  <2>2. main' \in {"workers", "clients"}
    BY <1>6 DEF Poll
  <2>. QED BY <1>6, <2>1, <2>2 DEF Poll
<1>7. ASSUME NEW w \in Workers, HandleWorker(w) PROVE TypeOK'
  <2>1. /\ Head(fromWorker[w]) \in Requests \cup {None}
        /\ Tail(fromWorker[w]) \in Seq(Requests \cup {None})
        /\ Append(worker_queue, w) \in Seq(Workers)
        /\ main' \in {"clients", "poll"}
    BY <1>7 DEF HandleWorker, AfterWorkers
  <2>. QED BY <1>7, <2>1 DEF HandleWorker, Idle
<1>8. CASE HandleClient
  <2>1. main = "clients" /\ main' = "poll" /\ worker_queue # <<>>
    BY <1>8 DEF HandleClient
  <2>2. Head(worker_queue) \in Workers /\ Tail(worker_queue) \in Seq(Workers)
    BY <2>1
  <2>3. Head(clients) \in Requests /\ Tail(clients) \in Seq(Requests)
    BY <2>1 DEF PolledClients
  <2>. QED BY <1>8, <2>1, <2>2, <2>3 DEF HandleClient, Popped
<1>9. CASE LoopTerminated
  <2>1. fromWorker' \in [Workers -> Seq(Requests \cup {None})]
    <3>1. \A w \in Readable : Tail(fromWorker[w]) \in Seq(Requests \cup {None})
      BY DEF Readable
    <3>. QED BY <1>9, <3>1 DEF LoopTerminated, Readable
  <2>2. clients' \in Seq(Requests)
    <3>1. main = "clients" => Tail(clients) \in Seq(Requests)
      BY DEF PolledClients
    <3>. QED BY <1>9, <3>1 DEF LoopTerminated
  <2>. QED BY <1>9, <2>1, <2>2 DEF LoopTerminated
<1>10. CASE JoinWorkers \/ StopLogger \/ Exit
  BY <1>10 DEF JoinWorkers, StopLogger, Exit
<1>11. ASSUME NEW w \in Workers, CreateSocket(w) \/ BecomesReady(w) PROVE TypeOK'
  BY <1>11 DEF CreateSocket, BecomesReady
<1>12. ASSUME NEW w \in Workers, SendReady(w) PROVE TypeOK'
  <2>1. fromWorker' \in [Workers -> Seq(Requests \cup {None})]
    BY <1>12 DEF SendReady, Send
  <2>. QED BY <1>12, <2>1 DEF SendReady
<1>13. ASSUME NEW w \in Workers, ReceiveRequest(w) PROVE TypeOK'
  <2>1. Head(toWorker[w]) \in Requests /\ Tail(toWorker[w]) \in Seq(Requests)
    BY <1>13 DEF ReceiveRequest
  <2>. QED BY <1>13, <1>a, <2>1 DEF ReceiveRequest
<1>14. ASSUME NEW w \in Workers, SendResponse(w) PROVE TypeOK'
  <2>1. request[w] \in Requests
    BY <1>14 DEF SendResponse
  <2>2. AfterReply(w) \in {"logging", "receiving"}
        /\ (AfterReply(w) = "logging" <=> RequestAfterReply(w) # None)
        /\ RequestAfterReply(w) \in Requests \cup {None}
    BY <1>a, <2>1 DEF AfterReply, RequestAfterReply, IsLogged
  <2>3. fromWorker' \in [Workers -> Seq(Requests \cup {None})]
    BY <1>14, <2>1 DEF SendResponse, Reply, Send
  <2>. QED BY <1>14, <2>2, <2>3 DEF SendResponse
<1>15. ASSUME NEW w \in Workers, LogRequest(w) PROVE TypeOK'
  <2>1. request[w] \in Requests
    BY <1>15 DEF LogRequest
  <2>. QED BY <1>15, <2>1 DEF LogRequest
<1>16. ASSUME NEW w \in Workers, WorkerTerminated(w) PROVE TypeOK'
  BY <1>16 DEF WorkerTerminated
<1>17. CASE UNCHANGED serverVars
  BY <1>17 DEF serverVars
<1>. QED
  BY <1>1, <1>2, <1>3, <1>4, <1>5, <1>6, <1>7, <1>8, <1>9, <1>10, <1>11, <1>12,
     <1>13, <1>14, <1>15, <1>16, <1>17
  DEF NextStep, MainThread, WorkerStep, CannotBind, CannotCreateSocket

LEMMA TInvNext == TInv /\ NextStep => TInv'
BY TypeNext, PolledClientsNext, NotStartedNext DEF TInv

LEMMA TInvSteps == TInv /\ [Next]_vars => TInv' /\ NextStep
BY NextSteps, TInvNext DEF TInv

LEMMA Typed == Spec => []TInv
BY TypeInit, TInvSteps, PTL DEF Spec

\* Every value the server's threads and its network hold has its type, and a worker
\* has a request exactly while it works on it or logs it.
THEOREM ServerTypeOK == Spec => []TypeOK
<1>1. TInv => TypeOK
  BY DEF TInv
<1>. QED BY <1>1, Typed, PTL

\* When the broker takes a request of a client there is one, and a worker for it.
THEOREM ServerClientFindsWorker == Spec => []ClientFindsWorker
<1>1. TInv => ClientFindsWorker
  BY DEF TInv, PolledClients, ClientFindsWorker
<1>. QED BY <1>1, Typed, PTL

-----------------------------------------------------------------------------
(* The shutdown *)

\* A response that was sent is logged, or its worker is about to log it.
RepliedIsLogged ==
  \A r \in Intentional :
    r \in answered \/ (\E w \in Workers : r \in InSeq(fromWorker[w]))
      => r \in InSeq(logged) \/ \E w \in Workers : pc[w] = "logging" /\ request[w] = r

\* run() goes on to stop the logger when the workers are joined.
WorkersJoined ==
  main \in {"stopLogger", "joinMgmt", "exited"} =>
    \A w \in Workers : pc[w] = "finished"

\* What a step does to responses, logged requests and the workers that log.
LEMMA RepliedIsLoggedNext == TInv /\ RepliedIsLogged /\ NextStep => RepliedIsLogged'
<1>. SUFFICES ASSUME TInv, RepliedIsLogged, NextStep PROVE RepliedIsLogged'
  OBVIOUS
<1>0. TypeOK
  BY DEF TInv
<1>1. ASSUME NEW w \in Workers, HandleWorker(w) PROVE RepliedIsLogged'
  <2>1. /\ fromWorker[w] # <<>> /\ fromWorker[w] \in Seq(Requests \cup {None})
        /\ fromWorker' = [fromWorker EXCEPT ![w] = Tail(fromWorker[w])]
        /\ answered' \subseteq answered \cup {Head(fromWorker[w])}
        /\ UNCHANGED <<worker, logged>>
    BY <1>0, <1>1 DEF HandleWorker, TypeOK
  <2>2. Head(fromWorker[w]) \in InSeq(fromWorker[w])
    BY <2>1, TailElement
  <2>3. InSeq(Tail(fromWorker[w])) \subseteq InSeq(fromWorker[w])
    BY <2>1 DEF InSeq
  <2>. QED BY <1>0, <2>1, <2>2, <2>3 DEF RepliedIsLogged, TypeOK, worker
<1>2. CASE LoopTerminated
  <2>1. UNCHANGED <<answered, logged, pc, request>>
    BY <1>2 DEF LoopTerminated, worker, record
  <2>2. \A w \in Workers : InSeq(fromWorker'[w]) \subseteq InSeq(fromWorker[w])
    <3>1. CASE UNCHANGED fromWorker
      BY <3>1
    <3>2. ASSUME NEW v \in Readable, fromWorker' = [fromWorker EXCEPT ![v] = Tail(@)]
          PROVE  \A w \in Workers : InSeq(fromWorker'[w]) \subseteq InSeq(fromWorker[w])
      <4>1. /\ v \in Workers /\ fromWorker[v] # <<>>
            /\ fromWorker[v] \in Seq(Requests \cup {None})
        BY <1>0, <3>2 DEF Readable, TypeOK
      <4>2. InSeq(Tail(fromWorker[v])) \subseteq InSeq(fromWorker[v])
        BY <4>1 DEF InSeq
      <4>. QED BY <1>0, <3>2, <4>1, <4>2 DEF TypeOK
    <3>. QED BY <1>2, <3>1, <3>2 DEF LoopTerminated
  <2>. QED BY <2>1, <2>2 DEF RepliedIsLogged
<1>3. ASSUME NEW w \in Workers, SendReady(w) PROVE RepliedIsLogged'
  <2>1. /\ fromWorker' = [fromWorker EXCEPT ![w] = Append(fromWorker[w], None)]
        /\ fromWorker[w] \in Seq(Requests \cup {None})
        /\ UNCHANGED <<request, answered, logged>>
        /\ \A v \in Workers : pc[v] = "logging" => pc'[v] = "logging"
    BY <1>0, <1>3 DEF SendReady, Send, WorkerGoto, TypeOK, record
  <2>2. InSeq(Append(fromWorker[w], None)) = InSeq(fromWorker[w]) \cup {None}
    BY <2>1, AppendElement
  <2>3. None \notin Intentional
    BY RequestsAssumption
  <2>. QED BY <1>0, <2>1, <2>2, <2>3 DEF RepliedIsLogged, TypeOK
<1>4. ASSUME NEW w \in Workers, SendResponse(w) PROVE RepliedIsLogged'
  <2>. DEFINE q == request[w]
  <2>1. /\ fromWorker' = [fromWorker EXCEPT ![w] = Append(fromWorker[w], q)]
        /\ fromWorker[w] \in Seq(Requests \cup {None}) /\ q \in Requests
        /\ pc[w] = "working"
        /\ UNCHANGED <<answered, logged>>
    BY <1>0, <1>4 DEF SendResponse, Reply, Send, WorkerGoto, TypeOK, record
  <2>2. InSeq(Append(fromWorker[w], q)) = InSeq(fromWorker[w]) \cup {q}
    BY <2>1, AppendElement
  <2>3. q \in Intentional => pc'[w] = "logging" /\ request'[w] = q
    BY <1>0, <1>4 DEF SendResponse, WorkerGoto, AfterReply, RequestAfterReply, IsLogged, TypeOK
  <2>4. \A v \in Workers \ {w} : pc'[v] = pc[v] /\ request'[v] = request[v]
    BY <1>0, <1>4 DEF SendResponse, WorkerGoto, TypeOK
  <2>5. ASSUME NEW r \in Intentional, r # q,
               r \in answered' \/ \E v \in Workers : r \in InSeq(fromWorker'[v])
        PROVE  r \in InSeq(logged) \/ \E v \in Workers : pc'[v] = "logging" /\ request'[v] = r
    <3>1. r \in answered \/ \E v \in Workers : r \in InSeq(fromWorker[v])
      BY <1>0, <2>1, <2>2, <2>5 DEF TypeOK
    <3>2. r \in InSeq(logged) \/ \E v \in Workers \ {w} : pc[v] = "logging" /\ request[v] = r
      BY <2>1, <3>1 DEF RepliedIsLogged
    <3>. QED BY <2>4, <3>2
  <2>. QED BY <2>1, <2>3, <2>5 DEF RepliedIsLogged
<1>5. ASSUME NEW w \in Workers, LogRequest(w) PROVE RepliedIsLogged'
  <2>1. /\ logged' = Append(logged, request[w])
        /\ logged \in Seq(Requests) /\ request[w] \in Requests
        /\ \A v \in Workers \ {w} : pc'[v] = pc[v] /\ request'[v] = request[v]
        /\ UNCHANGED <<fromWorker, answered>>
    BY <1>0, <1>5 DEF LogRequest, WorkerGoto, TypeOK, network
  <2>2. InSeq(logged') = InSeq(logged) \cup {request[w]}
    BY <2>1, AppendElement
  <2>. QED BY <2>1, <2>2 DEF RepliedIsLogged
<1>6. ASSUME NEW w \in Workers,
             CreateSocket(w) \/ BecomesReady(w) \/ ReceiveRequest(w) \/ WorkerTerminated(w)
      PROVE  RepliedIsLogged'
  <2>1. UNCHANGED <<fromWorker, answered, logged>>
    BY <1>6 DEF CreateSocket, BecomesReady, ReceiveRequest, WorkerTerminated, network, record
  <2>2. \A v \in Workers :
           pc[v] = "logging" => pc'[v] = pc[v] /\ request'[v] = request[v]
    BY <1>0, <1>6 DEF CreateSocket, BecomesReady, ReceiveRequest, WorkerTerminated,
                      Terminates, WorkerGoto, TypeOK
  <2>. QED BY <2>1, <2>2 DEF RepliedIsLogged
<1>7. CASE StartWorkers
  <2>1. /\ UNCHANGED <<fromWorker, answered, logged>>
        /\ \A w \in Workers : pc[w] = "none"
    BY <1>7 DEF StartWorkers, MainGoto, network, record, TInv, NotStarted
  <2>. QED BY <2>1 DEF RepliedIsLogged
<1>8. CASE \/ Crash \/ Poll \/ HandleClient \/ JoinWorkers \/ StopLogger \/ Exit
           \/ RequestStop \/ CloseReturns \/ UNCHANGED serverVars
           \/ \E r \in Requests : SendRequest(r)
  BY <1>8 DEF Crash, Poll, HandleClient, JoinWorkers, StopLogger, Exit, RequestStop,
              CloseReturns, SendRequest, serverVars, worker, network, record, RepliedIsLogged
<1>. QED
  BY <1>1, <1>2, <1>3, <1>4, <1>5, <1>6, <1>7, <1>8
  DEF NextStep, MainThread, WorkerStep, CannotBind, CannotCreateSocket

LEMMA WorkersJoinedNext == TInv /\ WorkersJoined /\ NextStep => WorkersJoined'
<1>. SUFFICES ASSUME TInv, WorkersJoined, NextStep PROVE WorkersJoined'
  OBVIOUS
<1>0. TypeOK
  BY DEF TInv
<1>1. CASE \/ StartWorkers \/ Poll \/ HandleClient \/ LoopTerminated
           \/ \E w \in Workers : HandleWorker(w)
  <2>1. main' \notin {"stopLogger", "joinMgmt", "exited"}
    BY <1>1 DEF StartWorkers, Poll, HandleClient, LoopTerminated, HandleWorker,
                AfterWorkers, MainGoto
  <2>. QED BY <2>1 DEF WorkersJoined
<1>2. CASE JoinWorkers
  BY <1>2 DEF JoinWorkers, AllJoined, WorkersJoined, worker
<1>3. CASE StopLogger \/ Exit
  <2>1. main \in {"stopLogger", "joinMgmt"} /\ pc' = pc
    BY <1>3 DEF StopLogger, Exit, MainGoto, worker
  <2>. QED BY <2>1 DEF WorkersJoined
<1>4. ASSUME NEW w \in Workers, WorkerStep(w) PROVE WorkersJoined'
  <2>1. pc[w] # "finished" /\ main' = main
    BY <1>4 DEF WorkerStep, CreateSocket, CannotCreateSocket, BecomesReady, SendReady,
       ReceiveRequest, SendResponse, LogRequest, WorkerTerminated, Terminates, WorkerGoto,
       Crash, broker
  <2>. QED BY <1>4, <2>1 DEF WorkersJoined
<1>5. CASE \/ Crash \/ RequestStop \/ CloseReturns \/ UNCHANGED serverVars
           \/ \E r \in Requests : SendRequest(r)
  BY <1>5 DEF Crash, RequestStop, CloseReturns, SendRequest, serverVars, broker, worker,
              WorkersJoined
<1>. QED
  BY <1>1, <1>2, <1>3, <1>4, <1>5
  DEF NextStep, MainThread, CannotBind

\* When the request logger has been stopped, every response that a client can have
\* got is logged, and no worker is left that could call the logger.
THEOREM ServerAnswersLogged == Spec => []AnswersLogged
<1>. DEFINE Inv == TInv /\ RepliedIsLogged /\ WorkersJoined
<1>1. Init => Inv
  <2>. SUFFICES ASSUME Init PROVE Inv
    OBVIOUS
  <2>1. RepliedIsLogged
    BY DEF Init, RepliedIsLogged, InSeq
  <2>. QED BY <2>1, TypeInit DEF Init, WorkersJoined
<1>2. Inv /\ NextStep => Inv'
  BY TInvNext, RepliedIsLoggedNext, WorkersJoinedNext
<1>3. Inv => AnswersLogged
  BY DEF RepliedIsLogged, WorkersJoined, AnswersLogged
<1>. QED BY <1>1, <1>2, <1>3, Typed, TInvSteps, PTL DEF Spec

\* A connection is opened, and its statements registered, at the start of a worker
\* and during the queries for a request, and at no other time.
OpenedAtWork ==
  \A w \in Workers :
    connection[w] \in {"opened", "interrupted"} => pc[w] \in {"connecting", "working"}

LEMMA OpenedAtWorkNext == TInv /\ OpenedAtWork /\ [Next]_vars => OpenedAtWork'
<1>. SUFFICES ASSUME TInv, OpenedAtWork, [Next]_vars PROVE OpenedAtWork'
  OBVIOUS
<1>0. TypeOK
  BY DEF TInv
<1>. USE <1>0 DEF TypeOK, DatabaseTypeOK, ConnectionState, WorkerState
<1>1. ASSUME NEW w \in Workers, ConnectToDb(w) \/ QueryFails(w) PROVE OpenedAtWork'
  BY <1>1 DEF ConnectToDb, QueryFails, worker, OpenedAtWork
<1>2. ASSUME NEW w \in Workers, PrepareStatements(w) PROVE OpenedAtWork'
  BY <1>2 DEF PrepareStatements, OpenedAtWork
<1>3. ASSUME NEW w \in Workers, SendResponse(w) \/ WorkerTerminated(w) PROVE OpenedAtWork'
  <2>1. /\ connection' = connection
        /\ pc[w] = "working" => connection[w] \in {"ready", "lost"}
        /\ \A v \in Workers \ {w} : pc'[v] = pc[v]
    BY <1>3 DEF SendResponse, WorkerTerminated, Terminates, QueriesEnd, WorkerGoto, database
  <2>2. UNCHANGED connection /\ pc[w] # "connecting"
    BY <1>3 DEF SendResponse, WorkerTerminated, Terminates, WorkerGoto, database
  <2>. QED BY <2>1, <2>2 DEF OpenedAtWork
<1>4. ASSUME NEW w \in Workers,
             CreateSocket(w) \/ SendReady(w) \/ ReceiveRequest(w) \/ LogRequest(w)
      PROVE  OpenedAtWork'
  <2>1. /\ UNCHANGED connection /\ pc[w] \notin {"connecting", "working"}
        /\ \A v \in Workers \ {w} : pc'[v] = pc[v]
    BY <1>4 DEF CreateSocket, SendReady, ReceiveRequest, LogRequest, WorkerGoto, database
  <2>. QED BY <2>1 DEF OpenedAtWork
<1>5. CASE StartWorkers
  <2>1. UNCHANGED connection /\ \A w \in Workers : pc[w] = "none"
    BY <1>5 DEF StartWorkers, MainGoto, TInv, NotStarted, database
  <2>. QED BY <2>1 DEF OpenedAtWork
<1>6. CASE DbFails
  BY <1>6 DEF DbFails, WhenBroken, worker, OpenedAtWork
<1>7. CASE UNCHANGED <<connection, pc>>
  BY <1>7 DEF OpenedAtWork
<1>8. \/ \E w \in Workers : WorkerThread(w) /\ ~Crash
      \/ StartWorkers \/ DbFails \/ UNCHANGED <<connection, pc>>
  BY DEF Next, Gone, MainThread, CannotBind, Poll, HandleClient, LoopTerminated, JoinWorkers,
         StopLogger, Exit, HandleWorker, SendRequest, RequestStop, CloseReturns, Crash,
         DbSlows, DbRecovers, database, worker, vars
<1>9. ASSUME NEW w \in Workers, WorkerThread(w), ~Crash PROVE OpenedAtWork'
  BY <1>1, <1>2, <1>3, <1>4, <1>9
  DEF WorkerThread, CannotCreateSocket, CannotConnectToDb, CannotPrepareStatements
<1>. QED BY <1>5, <1>6, <1>7, <1>8, <1>9

\* The process is ended by abort() or std::terminate() only when the context is
\* closed before all sockets are created, or a worker cannot connect at its start, or
\* its connection breaks before its statements are registered on it.
THEOREM ServerCrashHasCause == Spec => []CrashHasCause
<1>1. Init => OpenedAtWork /\ CrashHasCause
  BY DEF Init, OpenedAtWork, CrashHasCause
<1>2. OpenedAtWork /\ CrashHasCause /\ [Next]_vars => CrashHasCause'
  <2>. SUFFICES ASSUME OpenedAtWork, CrashHasCause, [Next]_vars PROVE CrashHasCause'
    OBVIOUS
  <2>1. CASE UNCHANGED vars
    BY <2>1 DEF vars, database, broker, worker, stop, CrashHasCause
  <2>2. CASE \/ CannotBind
             \/ \E w \in Workers : CannotCreateSocket(w) \/ CannotConnectToDb(w)
    BY <2>2 DEF CannotBind, CannotCreateSocket, CannotConnectToDb, Crash, database, broker,
                worker, stop, CrashHasCause
  <2>3. ASSUME NEW w \in Workers, CannotPrepareStatements(w) PROVE CrashHasCause'
    BY <2>3 DEF CannotPrepareStatements, Crash, database, broker, worker, OpenedAtWork,
                CrashHasCause
  <2>4. ASSUME ~crashed, UNCHANGED crashed PROVE CrashHasCause'
    BY <2>4 DEF CrashHasCause
  <2>5. \/ UNCHANGED vars
        \/ CannotBind
        \/ \E w \in Workers : \/ CannotCreateSocket(w) \/ CannotConnectToDb(w)
                              \/ CannotPrepareStatements(w)
        \/ ~crashed /\ UNCHANGED crashed
    BY DEF Next, Gone, Ended, MainThread, WorkerThread, StartWorkers, Poll, HandleClient,
           LoopTerminated, JoinWorkers, StopLogger, Exit, HandleWorker, CreateSocket,
           ConnectToDb, PrepareStatements, QueryFails, SendReady, ReceiveRequest,
           SendResponse, LogRequest, WorkerTerminated, SendRequest, RequestStop,
           CloseReturns, DbFails, DbSlows, DbRecovers, stop
  <2>. QED BY <2>1, <2>2, <2>3, <2>4, <2>5
<1>. QED BY <1>1, <1>2, Typed, OpenedAtWorkNext, PTL DEF Spec

-----------------------------------------------------------------------------
(* The broker's queue *)

\* Each worker that has sent READY has one token: its entry in the queue, a message
\* to it, the request it works on, or a message from it.
OneToken(w) ==
  /\ pc[w] # "finished"
  /\ \/ toWorker[w] = <<>>
     \/ /\ Len(toWorker[w]) = 1 /\ fromWorker[w] = <<>>
        /\ pc[w] \in {"receiving", "logging"}
  /\ \/ fromWorker[w] = <<>>
     \/ /\ Len(fromWorker[w]) = 1 /\ toWorker[w] = <<>>
        /\ pc[w] \in {"receiving", "logging"}

QueueInv ==
  ~contextClosed =>
    /\ Distinct(worker_queue)
    /\ InSeq(worker_queue) = {w \in Workers : Available(w)}
    /\ \A w \in Workers : OneToken(w)

LEMMA SingleMessage ==
  ASSUME NEW S, NEW q \in Seq(S), NEW x \in S
  PROVE  /\ Len(q) = 1 => Tail(q) = <<>>
         /\ q = <<>> => Len(Append(q, x)) = 1 /\ Append(q, x) # <<>>
<1>1. q = <<>> => Append(q, x) # <<>> /\ Len(Append(q, x)) = 1
  BY AppendNonEmpty
<1>2. ASSUME Len(q) = 1 PROVE Tail(q) = <<>>
  <2>1. Tail(q) \in Seq(S) /\ Len(Tail(q)) = 0
    BY <1>2
  <2>. QED BY <2>1, EmptySeq
<1>. QED BY <1>1, <1>2

\* A step of worker w that touches only its own state keeps the queue right when it
\* makes w neither available nor unavailable.
LEMMA WorkerStepQueue ==
  ASSUME TInv, QueueInv, NEW w \in Workers,
         UNCHANGED <<worker_queue, contextClosed>>,
         \A v \in Workers \ {w} : /\ pc'[v] = pc[v] /\ toWorker'[v] = toWorker[v]
                                  /\ fromWorker'[v] = fromWorker[v],
         ~contextClosed => (OneToken(w)' /\ (Available(w)' <=> Available(w)))
  PROVE  QueueInv'
<1>1. \A v \in Workers \ {w} :
         (OneToken(v)' <=> OneToken(v)) /\ (Available(v)' <=> Available(v))
  BY DEF OneToken, Available
<1>2. InSeq(worker_queue)' = InSeq(worker_queue)
      /\ (Distinct(worker_queue)' <=> Distinct(worker_queue))
  BY DEF InSeq, Distinct
<1>. QED BY <1>1, <1>2 DEF QueueInv

LEMMA QueueNext == TInv /\ QueueInv /\ NextStep => QueueInv'
<1>. SUFFICES ASSUME TInv, QueueInv, NextStep PROVE QueueInv'
  OBVIOUS
<1>0. TypeOK
  BY DEF TInv
<1>1. CASE contextClosed' # FALSE
  BY <1>0, <1>1, TInvNext DEF QueueInv, TInv, TypeOK
<1>2. ASSUME ~contextClosed, ~contextClosed', NEW w \in Workers, HandleWorker(w)
      PROVE  QueueInv'
  <2>1. /\ fromWorker[w] # <<>> /\ fromWorker[w] \in Seq(Requests \cup {None})
        /\ fromWorker' = [fromWorker EXCEPT ![w] = Tail(fromWorker[w])]
        /\ worker_queue' = Append(worker_queue, w)
        /\ UNCHANGED <<pc, toWorker>>
    BY <1>0, <1>2 DEF HandleWorker, Idle, TypeOK, worker
  <2>2. OneToken(w) /\ ~Available(w) /\ w \notin InSeq(worker_queue)
    BY <1>2, <2>1 DEF QueueInv, Available
  <2>3. Tail(fromWorker[w]) = <<>>
    BY <2>1, <2>2, SingleMessage DEF OneToken
  <2>4. OneToken(w)' /\ Available(w)'
    BY <1>0, <2>1, <2>2, <2>3 DEF OneToken, Available, TypeOK
  <2>5. \A v \in Workers \ {w} :
           (OneToken(v)' <=> OneToken(v)) /\ (Available(v)' <=> Available(v))
    BY <1>0, <2>1 DEF OneToken, Available, TypeOK
  <2>6. /\ InSeq(worker_queue') = InSeq(worker_queue) \cup {w}
        /\ Distinct(worker_queue')
    BY <1>0, <1>2, <2>1, <2>2, AppendElement DEF QueueInv, TypeOK
  <2>. QED BY <1>2, <2>4, <2>5, <2>6 DEF QueueInv
<1>3. ASSUME ~contextClosed, ~contextClosed', HandleClient PROVE QueueInv'
  <2>0. PICK w, r : w = Head(worker_queue) /\ r = Head(clients)
    OBVIOUS
  <2>1. /\ worker_queue # <<>> /\ worker_queue \in Seq(Workers)
        /\ r \in Requests
        /\ toWorker' = [toWorker EXCEPT ![w] = Append(toWorker[w], r)]
        /\ worker_queue' = Tail(worker_queue)
        /\ UNCHANGED <<pc, fromWorker>>
    BY <1>0, <1>3, <2>0
    DEF HandleClient, Popped, MainGoto, TInv, PolledClients, TypeOK, worker
  <2>2. /\ w \in InSeq(worker_queue) /\ w \in Workers
        /\ InSeq(worker_queue') = InSeq(worker_queue) \ {w}
        /\ Distinct(worker_queue')
    BY <1>3, <2>0, <2>1, TailElement DEF QueueInv
  <2>3. Available(w) /\ OneToken(w)
    BY <1>3, <2>2 DEF QueueInv
  <2>4. Len(Append(toWorker[w], r)) = 1 /\ Append(toWorker[w], r) # <<>>
    BY <1>0, <2>1, <2>2, <2>3, SingleMessage DEF Available, TypeOK
  <2>5. OneToken(w)' /\ ~Available(w)'
    BY <1>0, <2>1, <2>2, <2>3, <2>4 DEF OneToken, Available, TypeOK
  <2>6. \A v \in Workers \ {w} :
           (OneToken(v)' <=> OneToken(v)) /\ (Available(v)' <=> Available(v))
    BY <1>0, <2>1 DEF OneToken, Available, TypeOK
  <2>. QED BY <1>3, <2>2, <2>5, <2>6 DEF QueueInv
<1>4. ASSUME ~contextClosed, ~contextClosed', StartWorkers PROVE QueueInv'
  <2>1. /\ \A w \in Workers : pc'[w] = "starting" /\ ~Available(w) /\ OneToken(w)'
        /\ UNCHANGED <<worker_queue, toWorker, fromWorker>>
    BY <1>4 DEF StartWorkers, MainGoto, TInv, NotStarted, Available, OneToken, network
  <2>2. \A w \in Workers : ~Available(w)'
    BY <2>1 DEF Available
  <2>. QED BY <1>4, <2>1, <2>2 DEF QueueInv, Distinct, InSeq
<1>5. ASSUME ~contextClosed, ~contextClosed', NEW w \in Workers,
             \/ CreateSocket(w) \/ BecomesReady(w) \/ SendReady(w) \/ ReceiveRequest(w)
             \/ SendResponse(w) \/ LogRequest(w)
      PROVE  QueueInv'
  <2>1. /\ UNCHANGED <<worker_queue, contextClosed>>
        /\ \A v \in Workers \ {w} :
              /\ pc'[v] = pc[v] /\ toWorker'[v] = toWorker[v]
              /\ fromWorker'[v] = fromWorker[v]
    BY <1>0, <1>5
    DEF CreateSocket, BecomesReady, SendReady, ReceiveRequest, SendResponse, LogRequest,
        Send, Reply, WorkerGoto, TypeOK, broker, network, stop
  <2>2. OneToken(w) /\ toWorker[w] \in Seq(Requests)
        /\ fromWorker[w] \in Seq(Requests \cup {None})
    BY <1>0, <1>5 DEF QueueInv, TypeOK
  <2>3. CASE CreateSocket(w) \/ BecomesReady(w)
    <3>1. /\ pc[w] \in {"starting", "connecting"} /\ pc'[w] \in {"connecting", "ready"}
          /\ UNCHANGED <<toWorker, fromWorker>>
      BY <1>0, <2>3 DEF CreateSocket, BecomesReady, WorkerGoto, TypeOK, network
    <3>2. OneToken(w)' /\ ~Available(w)' /\ ~Available(w)
      BY <2>2, <3>1 DEF OneToken, Available
    <3>. QED BY <2>1, <3>2, WorkerStepQueue
  <2>4. CASE SendReady(w)
    <3>1. /\ pc[w] = "ready" /\ pc'[w] = "receiving" /\ UNCHANGED toWorker
          /\ fromWorker'[w] = Append(fromWorker[w], None)
      BY <1>0, <2>4 DEF SendReady, Send, WorkerGoto, TypeOK
    <3>2. Len(fromWorker'[w]) = 1 /\ fromWorker'[w] # <<>>
      BY <2>2, <3>1, SingleMessage DEF OneToken
    <3>3. OneToken(w)' /\ ~Available(w)' /\ ~Available(w)
      BY <2>2, <3>1, <3>2 DEF OneToken, Available
    <3>. QED BY <2>1, <3>3, WorkerStepQueue
  <2>5. CASE ReceiveRequest(w)
    <3>1. /\ pc'[w] = "working" /\ UNCHANGED fromWorker
          /\ toWorker[w] # <<>> /\ toWorker'[w] = Tail(toWorker[w])
      BY <1>0, <2>5 DEF ReceiveRequest, WorkerGoto, TypeOK
    <3>2. toWorker'[w] = <<>>
      <4>1. Len(toWorker[w]) = 1
        BY <2>2, <3>1 DEF OneToken
      <4>2. Head(toWorker[w]) \in Requests
        BY <2>2, <3>1
      <4>. QED BY <2>2, <3>1, <4>1, <4>2, SingleMessage
    <3>3. OneToken(w)' /\ ~Available(w)' /\ ~Available(w)
      BY <2>2, <3>1, <3>2 DEF OneToken, Available
    <3>. QED BY <2>1, <3>3, WorkerStepQueue
  <2>6. CASE SendResponse(w)
    <3>1. /\ pc[w] = "working" /\ pc'[w] \in {"logging", "receiving"}
          /\ UNCHANGED toWorker
          /\ request[w] \in Requests /\ fromWorker'[w] = Append(fromWorker[w], request[w])
      BY <1>0, <2>6 DEF SendResponse, Reply, Send, AfterReply, WorkerGoto, TypeOK
    <3>2. Len(fromWorker'[w]) = 1 /\ fromWorker'[w] # <<>>
      BY <2>2, <3>1, SingleMessage DEF OneToken
    <3>3. OneToken(w)' /\ ~Available(w)' /\ ~Available(w)
      BY <2>2, <3>1, <3>2 DEF OneToken, Available
    <3>. QED BY <2>1, <3>3, WorkerStepQueue
  <2>7. CASE LogRequest(w)
    <3>1. /\ pc[w] = "logging" /\ pc'[w] = "receiving"
          /\ UNCHANGED <<toWorker, fromWorker>>
      BY <1>0, <2>7 DEF LogRequest, WorkerGoto, TypeOK, network
    <3>2. OneToken(w)' /\ (Available(w)' <=> Available(w))
      BY <2>2, <3>1 DEF OneToken, Available
    <3>. QED BY <2>1, <3>2, WorkerStepQueue
  <2>. QED BY <1>5, <2>3, <2>4, <2>5, <2>6, <2>7
<1>6. CASE \/ LoopTerminated \/ RequestStop \/ \E w \in Workers : WorkerTerminated(w)
  <2>1. contextClosed'
    BY <1>6 DEF LoopTerminated, RequestStop, WorkerTerminated, stop
  <2>. QED BY <2>1 DEF QueueInv
<1>7. CASE \/ Crash \/ Poll \/ JoinWorkers \/ StopLogger \/ Exit \/ CloseReturns
           \/ UNCHANGED serverVars \/ \E r \in Requests : SendRequest(r)
  <2>1. UNCHANGED <<worker_queue, pc, toWorker, fromWorker, contextClosed>>
    BY <1>7 DEF Crash, Poll, JoinWorkers, StopLogger, Exit, CloseReturns, SendRequest,
                serverVars, broker, worker, network, stop
  <2>. QED BY <2>1 DEF QueueInv, Distinct, InSeq, OneToken, Available
<1>8. contextClosed' \in BOOLEAN /\ contextClosed \in BOOLEAN /\ (contextClosed => contextClosed')
  <2>1. contextClosed' \in BOOLEAN /\ contextClosed \in BOOLEAN
    BY <1>0, TInvNext DEF TInv, TypeOK
  <2>2. contextClosed' = contextClosed \/ contextClosed' = TRUE
    BY DEF NextStep, MainThread, WorkerStep, CannotBind, CannotCreateSocket, Crash,
           Crash, StartWorkers, Poll, HandleClient, LoopTerminated, JoinWorkers,
           StopLogger, Exit, HandleWorker, CreateSocket, BecomesReady, SendReady,
           ReceiveRequest, SendResponse, LogRequest, WorkerTerminated, SendRequest,
           RequestStop, CloseReturns, stop, serverVars
  <2>. QED BY <2>1, <2>2
<1>. QED
  BY <1>1, <1>2, <1>3, <1>4, <1>5, <1>6, <1>7, <1>8
  DEF NextStep, MainThread, WorkerStep, CannotBind, CannotCreateSocket

\* Until the server is stopped the broker's queue holds each idle worker once and
\* no worker that has something to do, and it has one whenever a request is read.
THEOREM ServerQueueIsIdleWorkers == Spec => []QueueIsIdleWorkers
<1>1. Init => QueueInv
  BY DEF Init, QueueInv, Distinct, InSeq, OneToken, Available
<1>2. QueueInv /\ ClientFindsWorker => QueueIsIdleWorkers
  BY DEF QueueInv, Distinct, QueueIsIdleWorkers
<1>. QED
  BY <1>1, <1>2, ServerClientFindsWorker, Typed, TInvSteps, QueueNext, PTL DEF Spec

-----------------------------------------------------------------------------
(* Where each request is *)

WithWorker(w) == Carried(w) \cup Worked(w) \cup Replied(w)

\* A queue that holds no request twice; READY may be there more than once.
Once(q) == \A i, j \in DOMAIN q : q[i] = q[j] /\ q[i] # None => i = j

EachOnce ==
  /\ Once(clients)
  /\ \A w \in Workers : Once(toWorker[w]) /\ Once(fromWorker[w])

OnePlaceAt(w) ==
  /\ Carried(w) \cap Worked(w) = {}
  /\ Carried(w) \cap Replied(w) = {}
  /\ Worked(w) \cap Replied(w) = {}
  /\ WithWorker(w) \cap (Waiting \cup answered) = {}
  /\ WithWorker(w) \subseteq sent

OnePlace ==
  /\ Waiting \cup answered \subseteq sent
  /\ Waiting \cap answered = {}
  /\ \A w \in Workers : OnePlaceAt(w)
  /\ \A v, w \in Workers : v # w => WithWorker(v) \cap WithWorker(w) = {}

NoneLost ==
  ~contextClosed =>
    \A r \in sent : r \in Waiting \cup answered \/ \E w \in Workers : r \in WithWorker(w)

PInv == EachOnce /\ OnePlace /\ NoneLost

LEMMA OnceAppend ==
  ASSUME NEW S, NEW q \in Seq(S), NEW x \in S, Once(q), x = None \/ x \notin InSeq(q)
  PROVE  Once(Append(q, x)) /\ InSeq(Append(q, x)) = InSeq(q) \cup {x}
<1>1. /\ Len(q) \in Nat /\ DOMAIN q = 1..Len(q)
      /\ DOMAIN Append(q, x) = 1..Len(q) + 1
      /\ Append(q, x)[Len(q) + 1] = x
      /\ \A i \in 1..Len(q) : Append(q, x)[i] = q[i]
  OBVIOUS
<1>2. Once(Append(q, x))
  BY <1>1 DEF Once, InSeq
<1>. QED BY <1>2, AppendElement

LEMMA OnceTail ==
  ASSUME NEW S, NEW q \in Seq(S), q # <<>>, Once(q)
  PROVE  /\ Tail(q) \in Seq(S) /\ Once(Tail(q)) /\ Head(q) \in S
         /\ InSeq(q) = InSeq(Tail(q)) \cup {Head(q)}
         /\ Head(q) # None => Head(q) \notin InSeq(Tail(q))
<1>1. /\ Len(q) \in Nat \ {0} /\ DOMAIN q = 1..Len(q)
      /\ Head(q) = q[1] /\ Tail(q) \in Seq(S)
      /\ DOMAIN Tail(q) = 1..Len(q) - 1
      /\ \A i \in 1..Len(q) - 1 : Tail(q)[i] = q[i + 1]
  OBVIOUS
<1>2. Once(Tail(q))
  BY <1>1 DEF Once
<1>3. Head(q) # None => Head(q) \notin InSeq(Tail(q))
  BY <1>1 DEF Once, InSeq
<1>4. InSeq(Tail(q)) \cup {Head(q)} \subseteq InSeq(q)
  BY <1>1 DEF InSeq
<1>5. ASSUME NEW i \in 1..Len(q) PROVE q[i] \in InSeq(Tail(q)) \cup {Head(q)}
  <2>1. CASE i = 1
    BY <1>1, <2>1
  <2>2. CASE i # 1
    <3>1. i - 1 \in 1..Len(q) - 1 /\ Tail(q)[i - 1] = q[i]
      BY <1>1, <2>2
    <3>. QED BY <1>1, <3>1 DEF InSeq
  <2>. QED BY <2>1, <2>2
<1>6. InSeq(q) \subseteq InSeq(Tail(q)) \cup {Head(q)}
  BY <1>1, <1>5 DEF InSeq
<1>. QED BY <1>1, <1>2, <1>3, <1>4, <1>6

\* The requests with a worker depend on what is its own.
LEMMA OthersKeep ==
  ASSUME NEW w \in Workers,
         \A v \in Workers \ {w} : /\ pc'[v] = pc[v] /\ request'[v] = request[v]
                                  /\ toWorker'[v] = toWorker[v]
                                  /\ fromWorker'[v] = fromWorker[v]
  PROVE  \A v \in Workers \ {w} :
           /\ Carried(v)' = Carried(v) /\ Worked(v)' = Worked(v) /\ Replied(v)' = Replied(v)
           /\ WithWorker(v)' = WithWorker(v)
<1>. SUFFICES ASSUME NEW v \in Workers \ {w}
              PROVE  /\ Carried(v)' = Carried(v) /\ Worked(v)' = Worked(v)
                     /\ Replied(v)' = Replied(v) /\ WithWorker(v)' = WithWorker(v)
  OBVIOUS
<1>1. Carried(v)' = Carried(v) /\ Replied(v)' = Replied(v)
  BY DEF Carried, Replied, InSeq
<1>2. Worked(v)' = Worked(v)
  BY DEF Worked
<1>. QED BY <1>1, <1>2 DEF WithWorker

\* A worker moves its requests from one place to another, or loses some after the
\* context is closed.
LEMMA WorkerMoves ==
  ASSUME PInv, NEW w \in Workers, UNCHANGED <<clients, answered, sent>>,
         \A v \in Workers \ {w} : /\ pc'[v] = pc[v] /\ request'[v] = request[v]
                                  /\ toWorker'[v] = toWorker[v]
                                  /\ fromWorker'[v] = fromWorker[v],
         Once(toWorker[w])', Once(fromWorker[w])',
         (Carried(w) \cap Worked(w))' = {},
         (Carried(w) \cap Replied(w))' = {},
         (Worked(w) \cap Replied(w))' = {},
         WithWorker(w)' \subseteq WithWorker(w),
         ~contextClosed' => ~contextClosed /\ WithWorker(w) \subseteq WithWorker(w)'
  PROVE  PInv'
<1>1. \A v \in Workers \ {w} :
         /\ Carried(v)' = Carried(v) /\ Worked(v)' = Worked(v) /\ Replied(v)' = Replied(v)
         /\ WithWorker(v)' = WithWorker(v)
  BY OthersKeep
<1>2. Waiting' = Waiting
  BY DEF Waiting, InSeq
<1>3. EachOnce'
  BY DEF PInv, EachOnce, Once
<1>4. OnePlace'
  <2>1. \A v \in Workers : OnePlaceAt(v)'
    BY <1>1, <1>2 DEF PInv, OnePlace, OnePlaceAt
  <2>2. \A u, v \in Workers : u # v => WithWorker(u)' \cap WithWorker(v)' = {}
    BY <1>1 DEF PInv, OnePlace
  <2>. QED BY <1>2, <2>1, <2>2 DEF PInv, OnePlace
<1>5. NoneLost'
  BY <1>1, <1>2 DEF PInv, NoneLost
<1>. QED BY <1>3, <1>4, <1>5 DEF PInv

\* What the steps of a worker leave alone.
OwnSteps(w) ==
  \/ CreateSocket(w) \/ BecomesReady(w) \/ SendReady(w) \/ ReceiveRequest(w)
  \/ SendResponse(w) \/ LogRequest(w) \/ WorkerTerminated(w)

LEMMA OwnStepFrame ==
  ASSUME TypeOK, NEW w \in Workers, OwnSteps(w)
  PROVE  /\ UNCHANGED <<clients, answered, sent, contextClosed, main>>
         /\ \A v \in Workers \ {w} : /\ pc'[v] = pc[v] /\ request'[v] = request[v]
                                     /\ toWorker'[v] = toWorker[v]
                                     /\ fromWorker'[v] = fromWorker[v]
BY DEF OwnSteps, CreateSocket, BecomesReady, SendReady, ReceiveRequest, SendResponse, LogRequest,
   WorkerTerminated, Send, Reply, WorkerGoto, TypeOK, network, stop, record, broker

\* A worker takes a request.
LEMMA ReceiveRequestMoves ==
  ASSUME TypeOK, EachOnce, NEW w \in Workers, ReceiveRequest(w)
  PROVE  /\ Worked(w) = {} /\ Replied(w)' = Replied(w)
         /\ \E r \in Carried(w) : Carried(w)' = Carried(w) \ {r} /\ Worked(w)' = {r}
         /\ Once(toWorker[w])' /\ Once(fromWorker[w])'
<1>1. PICK r : r = Head(toWorker[w])
  OBVIOUS
<1>2. /\ UNCHANGED fromWorker /\ pc[w] = "receiving" /\ pc'[w] = "working"
      /\ toWorker[w] # <<>> /\ toWorker'[w] = Tail(toWorker[w]) /\ request'[w] = r
      /\ toWorker[w] \in Seq(Requests) /\ Once(toWorker[w]) /\ Once(fromWorker[w])
  BY <1>1 DEF ReceiveRequest, WorkerGoto, TypeOK, EachOnce
<1>3. /\ Once(Tail(toWorker[w])) /\ r \in Requests
      /\ Carried(w) = InSeq(Tail(toWorker[w])) \cup {r}
      /\ r \notin InSeq(Tail(toWorker[w]))
  BY <1>1, <1>2, OnceTail, RequestsAssumption DEF Carried
<1>4. /\ Carried(w)' = Carried(w) \ {r} /\ Worked(w)' = {r} /\ Worked(w) = {}
      /\ Replied(w)' = Replied(w) /\ r \in Carried(w)
  BY <1>2, <1>3 DEF Carried, Worked, Replied, InSeq
<1>5. Once(toWorker[w])' /\ Once(fromWorker[w])'
  BY <1>2, <1>3 DEF Once
<1>. QED BY <1>4, <1>5

\* A worker sends a response.
LEMMA SendResponseMoves ==
  ASSUME TypeOK, EachOnce, NEW w \in Workers, OnePlaceAt(w), SendResponse(w)
  PROVE  /\ Carried(w)' = Carried(w) /\ Worked(w)' = {}
         /\ request[w] \in Requests /\ Worked(w) = {request[w]}
         /\ Replied(w)' = Replied(w) \cup {request[w]}
         /\ Once(toWorker[w])' /\ Once(fromWorker[w])'
<1>1. PICK r : r = request[w]
  OBVIOUS
<1>2. /\ UNCHANGED toWorker /\ pc[w] = "working" /\ pc'[w] # "working"
      /\ r \in Requests /\ fromWorker'[w] = Append(fromWorker[w], r)
      /\ fromWorker[w] \in Seq(Requests \cup {None})
      /\ Once(toWorker[w]) /\ Once(fromWorker[w]) /\ None \notin Requests
  BY <1>1, RequestsAssumption
  DEF SendResponse, Reply, Send, AfterReply, WorkerGoto, TypeOK, EachOnce
<1>3. Worked(w) = {r} /\ r \notin InSeq(fromWorker[w])
  BY <1>1, <1>2 DEF Worked, OnePlaceAt, Replied
<1>4. /\ Once(Append(fromWorker[w], r))
      /\ InSeq(Append(fromWorker[w], r)) = InSeq(fromWorker[w]) \cup {r}
  BY <1>2, <1>3, OnceAppend
<1>5. /\ Carried(w)' = Carried(w) /\ Worked(w)' = {}
      /\ Replied(w)' = Replied(w) \cup {r}
  BY <1>2, <1>4 DEF Carried, Worked, Replied, InSeq
<1>6. Once(toWorker[w])' /\ Once(fromWorker[w])'
  BY <1>2, <1>4 DEF Once
<1>. QED BY <1>1, <1>2, <1>3, <1>5, <1>6

\* A worker ends, with the request it works on.
LEMMA WorkerTerminatedMoves ==
  ASSUME TypeOK, NEW w \in Workers, WorkerTerminated(w)
  PROVE  /\ contextClosed /\ UNCHANGED <<toWorker, fromWorker>>
         /\ Carried(w)' = Carried(w) /\ Worked(w)' = {} /\ Replied(w)' = Replied(w)
<1>1. /\ UNCHANGED <<toWorker, fromWorker>> /\ pc'[w] # "working" /\ contextClosed
  BY DEF WorkerTerminated, TypeOK, network
<1>. QED BY <1>1 DEF Carried, Worked, Replied, InSeq

\* Every other step of a worker leaves its requests where they are.
LEMMA OwnStepKeeps ==
  ASSUME TypeOK, EachOnce, NEW w \in Workers,
         CreateSocket(w) \/ BecomesReady(w) \/ SendReady(w) \/ LogRequest(w)
  PROVE  /\ Carried(w)' = Carried(w) /\ Worked(w)' = Worked(w) /\ Replied(w)' = Replied(w)
         /\ Once(toWorker[w])' /\ Once(fromWorker[w])'
<1>0. Once(toWorker[w]) /\ Once(fromWorker[w])
  BY DEF EachOnce
<1>1. UNCHANGED toWorker /\ pc[w] # "working" /\ pc'[w] # "working"
  BY DEF CreateSocket, BecomesReady, SendReady, LogRequest, WorkerGoto, TypeOK, network
<1>2. Carried(w)' = Carried(w) /\ Worked(w)' = Worked(w) /\ Once(toWorker[w])'
  BY <1>0, <1>1 DEF Carried, Worked, InSeq, Once
<1>3. CASE UNCHANGED fromWorker
  BY <1>0, <1>2, <1>3 DEF Replied, InSeq, Once
<1>4. CASE SendReady(w)
  <2>1. /\ fromWorker'[w] = Append(fromWorker[w], None)
        /\ fromWorker[w] \in Seq(Requests \cup {None})
    BY <1>4 DEF SendReady, Send, TypeOK
  <2>2. /\ Once(Append(fromWorker[w], None))
        /\ InSeq(Append(fromWorker[w], None)) = InSeq(fromWorker[w]) \cup {None}
    BY <1>0, <2>1, OnceAppend
  <2>3. Replied(w)' = Replied(w) /\ Once(fromWorker[w])'
    BY <2>1, <2>2 DEF Replied, InSeq, Once
  <2>. QED BY <1>2, <2>3
<1>. QED BY <1>3, <1>4 DEF CreateSocket, BecomesReady, LogRequest, network

\* Requests change place neither in the broker nor in the clients socket.
LEMMA OwnStep == ASSUME TInv, PInv, NEW w \in Workers, OwnSteps(w) PROVE PInv'
<1>1. TypeOK /\ EachOnce /\ OnePlaceAt(w)
  BY DEF TInv, PInv, OnePlace
<1>2. /\ UNCHANGED <<clients, answered, sent, contextClosed>>
      /\ \A v \in Workers \ {w} : /\ pc'[v] = pc[v] /\ request'[v] = request[v]
                                  /\ toWorker'[v] = toWorker[v]
                                  /\ fromWorker'[v] = fromWorker[v]
  BY <1>1, OwnStepFrame
<1>3. CASE CreateSocket(w) \/ BecomesReady(w) \/ SendReady(w) \/ LogRequest(w)
  <2>1. /\ Carried(w)' = Carried(w) /\ Worked(w)' = Worked(w) /\ Replied(w)' = Replied(w)
        /\ Once(toWorker[w])' /\ Once(fromWorker[w])'
    BY <1>1, <1>3, OwnStepKeeps
  <2>2. WithWorker(w)' = WithWorker(w)
    BY <2>1 DEF WithWorker
  <2>. QED BY <1>1, <1>2, <2>1, <2>2, WorkerMoves DEF OnePlaceAt
<1>4. CASE ReceiveRequest(w)
  <2>1. /\ Worked(w) = {} /\ Replied(w)' = Replied(w)
        /\ Once(toWorker[w])' /\ Once(fromWorker[w])'
    BY <1>1, <1>4, ReceiveRequestMoves
  <2>2. PICK r \in Carried(w) : Carried(w)' = Carried(w) \ {r} /\ Worked(w)' = {r}
    BY <1>1, <1>4, ReceiveRequestMoves
  <2>3. WithWorker(w)' = WithWorker(w)
    BY <2>1, <2>2 DEF WithWorker
  <2>. QED BY <1>1, <1>2, <2>1, <2>2, <2>3, WorkerMoves DEF OnePlaceAt
<1>5. CASE SendResponse(w)
  <2>1. /\ Carried(w)' = Carried(w) /\ Worked(w)' = {} /\ Worked(w) = {request[w]}
        /\ Replied(w)' = Replied(w) \cup {request[w]}
        /\ Once(toWorker[w])' /\ Once(fromWorker[w])'
    BY <1>1, <1>5, SendResponseMoves
  <2>2. WithWorker(w)' = WithWorker(w)
    BY <2>1 DEF WithWorker
  <2>. QED BY <1>1, <1>2, <2>1, <2>2, WorkerMoves DEF OnePlaceAt
<1>6. CASE WorkerTerminated(w)
  <2>1. /\ contextClosed /\ UNCHANGED <<toWorker, fromWorker>>
        /\ Carried(w)' = Carried(w) /\ Worked(w)' = {} /\ Replied(w)' = Replied(w)
    BY <1>1, <1>6, WorkerTerminatedMoves
  <2>2. WithWorker(w)' \subseteq WithWorker(w)
    BY <2>1 DEF WithWorker
  <2>3. Once(toWorker[w])' /\ Once(fromWorker[w])'
    BY <1>1, <2>1 DEF Once, EachOnce
  <2>. QED BY <1>1, <1>2, <2>1, <2>2, <2>3, WorkerMoves DEF OnePlaceAt
<1>. QED BY <1>3, <1>4, <1>5, <1>6 DEF OwnSteps

\* Nothing is moved.
LEMMA NothingMoves ==
  ASSUME PInv, UNCHANGED <<clients, toWorker, fromWorker, answered, sent>>,
         \A w \in Workers : Worked(w)' = Worked(w),
         ~contextClosed' => ~contextClosed
  PROVE  PInv'
<1>1. /\ Waiting' = Waiting
      /\ \A w \in Workers : /\ Carried(w)' = Carried(w) /\ Replied(w)' = Replied(w)
                            /\ WithWorker(w)' = WithWorker(w)
  BY DEF Waiting, Carried, Replied, WithWorker, InSeq
<1>2. EachOnce'
  BY DEF PInv, EachOnce, Once
<1>3. OnePlace' /\ NoneLost'
  BY <1>1 DEF PInv, OnePlace, OnePlaceAt, NoneLost
<1>. QED BY <1>2, <1>3 DEF PInv

\* Something is lost after the context is closed.
LEMMA SomeLost ==
  ASSUME PInv, contextClosed', EachOnce', Waiting' \subseteq Waiting,
         UNCHANGED <<answered, sent>>,
         \A w \in Workers : /\ Carried(w)' = Carried(w) /\ Worked(w)' = Worked(w)
                            /\ Replied(w)' \subseteq Replied(w)
  PROVE  PInv'
<1>1. \A w \in Workers : WithWorker(w)' \subseteq WithWorker(w)
  BY DEF WithWorker
<1>2. \A w \in Workers : OnePlaceAt(w)'
  BY <1>1 DEF PInv, OnePlace, OnePlaceAt
<1>3. OnePlace'
  BY <1>1, <1>2 DEF PInv, OnePlace
<1>. QED BY <1>3 DEF PInv, NoneLost

\* The broker takes READY, or a response, which it forwards.
LEMMA HandleWorkerMoves ==
  ASSUME TypeOK, EachOnce, NEW w \in Workers, HandleWorker(w)
  PROVE  /\ UNCHANGED <<pc, request, clients, toWorker, sent, contextClosed>>
         /\ \A v \in Workers \ {w} : fromWorker'[v] = fromWorker[v]
         /\ Carried(w)' = Carried(w) /\ Worked(w)' = Worked(w)
         /\ Once(toWorker[w])' /\ Once(fromWorker[w])'
         /\ \/ Replied(w)' = Replied(w) /\ UNCHANGED answered
            \/ \E r \in Replied(w) :
                 Replied(w)' = Replied(w) \ {r} /\ answered' = answered \cup {r}
<1>0. None \notin Requests
  BY RequestsAssumption
<1>1. PICK r : r = Head(fromWorker[w])
  OBVIOUS
<1>2. /\ fromWorker[w] # <<>> /\ fromWorker[w] \in Seq(Requests \cup {None})
      /\ fromWorker' = [fromWorker EXCEPT ![w] = Tail(fromWorker[w])]
      /\ answered' = (IF r = None THEN answered ELSE answered \cup {r})
      /\ UNCHANGED <<pc, request, clients, toWorker, sent, contextClosed>>
      /\ Once(fromWorker[w])
  BY <1>0, <1>1 DEF HandleWorker, TypeOK, worker, stop, EachOnce
<1>3. /\ Once(Tail(fromWorker[w])) /\ r \in Requests \cup {None}
      /\ InSeq(fromWorker[w]) = InSeq(Tail(fromWorker[w])) \cup {r}
      /\ r # None => r \notin InSeq(Tail(fromWorker[w]))
  BY <1>1, <1>2, OnceTail
<1>4. /\ fromWorker'[w] = Tail(fromWorker[w])
      /\ \A v \in Workers \ {w} : fromWorker'[v] = fromWorker[v]
  BY <1>2 DEF TypeOK
<1>5. Carried(w)' = Carried(w) /\ Worked(w)' = Worked(w)
  BY <1>2 DEF Carried, Worked, InSeq
<1>6. Replied(w)' = InSeq(Tail(fromWorker[w])) \ {None}
  BY <1>4 DEF Replied, InSeq
<1>7. Replied(w)' = Replied(w) \ {r} /\ (r # None => r \in Replied(w))
  BY <1>3, <1>6 DEF Replied
<1>8. Once(toWorker[w])' /\ Once(fromWorker[w])'
  BY <1>2, <1>3, <1>4 DEF Once, EachOnce
<1>9. r = None => Replied(w)' = Replied(w)
  BY <1>7 DEF Replied
<1>. QED BY <1>2, <1>4, <1>5, <1>7, <1>8, <1>9

LEMMA HandleWorkerPlaces ==
  ASSUME TInv, PInv, NEW w \in Workers, HandleWorker(w) PROVE PInv'
<1>1. TypeOK /\ EachOnce /\ OnePlaceAt(w)
  BY DEF TInv, PInv, OnePlace
<1>2. /\ UNCHANGED <<pc, request, clients, toWorker, sent, contextClosed>>
      /\ \A v \in Workers \ {w} : fromWorker'[v] = fromWorker[v]
      /\ Carried(w)' = Carried(w) /\ Worked(w)' = Worked(w)
      /\ Once(toWorker[w])' /\ Once(fromWorker[w])'
  BY <1>1, HandleWorkerMoves
<1>3. CASE Replied(w)' = Replied(w) /\ UNCHANGED answered
  <2>1. WithWorker(w)' = WithWorker(w)
    BY <1>2, <1>3 DEF WithWorker
  <2>. QED BY <1>1, <1>2, <1>3, <2>1, WorkerMoves DEF OnePlaceAt
<1>4. ASSUME NEW r \in Replied(w), Replied(w)' = Replied(w) \ {r}, answered' = answered \cup {r}
      PROVE  PInv'
  <2>1. r \notin Carried(w) \cup Worked(w)
    BY <1>1 DEF OnePlaceAt
  <2>2. WithWorker(w)' = WithWorker(w) \ {r} /\ r \in WithWorker(w)
    BY <1>2, <1>4, <2>1 DEF WithWorker
  <2>3. \A v \in Workers \ {w} :
           /\ Carried(v)' = Carried(v) /\ Worked(v)' = Worked(v) /\ Replied(v)' = Replied(v)
           /\ WithWorker(v)' = WithWorker(v)
    BY <1>2, OthersKeep
  <2>4. Waiting' = Waiting
    BY <1>2 DEF Waiting, InSeq
  <2>5. EachOnce'
    BY <1>2 DEF PInv, EachOnce, Once
  <2>6. \A v \in Workers \ {w} : r \notin WithWorker(v)
    BY <2>2 DEF PInv, OnePlace
  <2>7. OnePlaceAt(w)'
    BY <1>1, <1>2, <1>4, <2>1, <2>2, <2>4 DEF OnePlaceAt
  <2>8. \A v \in Workers \ {w} : OnePlaceAt(v)'
    BY <1>2, <1>4, <2>3, <2>4, <2>6 DEF PInv, OnePlace, OnePlaceAt
  <2>9. OnePlace'
    BY <1>1, <1>2, <1>4, <2>2, <2>3, <2>4, <2>7, <2>8 DEF PInv, OnePlace, OnePlaceAt
  <2>10. NoneLost'
    BY <1>2, <1>4, <2>2, <2>3, <2>4 DEF PInv, NoneLost
  <2>. QED BY <2>5, <2>9, <2>10 DEF PInv
<1>. QED BY <1>1, <1>3, <1>4, HandleWorkerMoves

\* The broker gives a request to a worker.
LEMMA HandleClientMoves ==
  ASSUME TInv, PInv, HandleClient
  PROVE  \E w \in Workers, r \in Waiting :
           /\ UNCHANGED <<pc, request, fromWorker, answered, sent, contextClosed>>
           /\ \A v \in Workers \ {w} : toWorker'[v] = toWorker[v]
           /\ Waiting' = Waiting \ {r} /\ Carried(w)' = Carried(w) \cup {r}
           /\ Once(clients)' /\ Once(toWorker[w])'
<1>0. TypeOK /\ None \notin Requests
  BY RequestsAssumption DEF TInv
<1>1. PICK w, r : w = Head(worker_queue) /\ r = Head(clients)
  OBVIOUS
<1>2. /\ clients # <<>> /\ clients \in Seq(Requests) /\ w \in Workers
      /\ toWorker' = [toWorker EXCEPT ![w] = Append(toWorker[w], r)]
      /\ clients' = Tail(clients)
      /\ UNCHANGED <<pc, request, fromWorker, answered, sent, contextClosed>>
  BY <1>0, <1>1
  DEF HandleClient, MainGoto, TypeOK, worker, stop, record, TInv, PolledClients
<1>3. Once(clients) /\ Once(toWorker[w]) /\ toWorker[w] \in Seq(Requests)
  BY <1>0, <1>2 DEF PInv, EachOnce, TypeOK
<1>4. /\ Once(Tail(clients)) /\ r \in Requests /\ r # None
      /\ Waiting = InSeq(Tail(clients)) \cup {r} /\ r \notin InSeq(Tail(clients))
  BY <1>0, <1>1, <1>2, <1>3, OnceTail DEF Waiting
<1>5. Waiting' = Waiting \ {r} /\ r \in Waiting /\ Once(clients)'
  BY <1>2, <1>4 DEF Waiting, InSeq, Once
<1>6. r \notin Carried(w)
  BY <1>2, <1>5 DEF PInv, OnePlace, OnePlaceAt, WithWorker
<1>7. /\ Once(Append(toWorker[w], r))
      /\ InSeq(Append(toWorker[w], r)) = Carried(w) \cup {r}
  BY <1>2, <1>3, <1>4, <1>6, OnceAppend DEF Carried
<1>8. /\ toWorker'[w] = Append(toWorker[w], r)
      /\ \A v \in Workers \ {w} : toWorker'[v] = toWorker[v]
  BY <1>0, <1>2 DEF TypeOK
<1>9. Carried(w)' = Carried(w) \cup {r} /\ Once(toWorker[w])'
  BY <1>7, <1>8 DEF Carried, InSeq, Once
<1>. QED BY <1>2, <1>5, <1>8, <1>9

LEMMA HandleClientPlaces == ASSUME TInv, PInv, HandleClient PROVE PInv'
<1>1. PICK w \in Workers, r \in Waiting :
        /\ UNCHANGED <<pc, request, fromWorker, answered, sent, contextClosed>>
        /\ \A v \in Workers \ {w} : toWorker'[v] = toWorker[v]
        /\ Waiting' = Waiting \ {r} /\ Carried(w)' = Carried(w) \cup {r}
        /\ Once(clients)' /\ Once(toWorker[w])'
  BY HandleClientMoves
<1>2. OnePlaceAt(w)
  BY DEF PInv, OnePlace
<1>3. \A v \in Workers : r \notin WithWorker(v)
  BY DEF PInv, OnePlace, OnePlaceAt
<1>4. Worked(w)' = Worked(w) /\ Replied(w)' = Replied(w)
  BY <1>1 DEF Worked, Replied, InSeq
<1>5. WithWorker(w)' = WithWorker(w) \cup {r}
  BY <1>1, <1>4 DEF WithWorker
<1>6. \A v \in Workers \ {w} :
        /\ Carried(v)' = Carried(v) /\ Worked(v)' = Worked(v) /\ Replied(v)' = Replied(v)
        /\ WithWorker(v)' = WithWorker(v)
  BY <1>1, OthersKeep
<1>7. EachOnce'
  BY <1>1 DEF PInv, EachOnce, Once
<1>8. OnePlaceAt(w)'
  BY <1>1, <1>2, <1>3, <1>4, <1>5 DEF PInv, OnePlace, OnePlaceAt, WithWorker
<1>9. \A v \in Workers \ {w} : OnePlaceAt(v)'
  BY <1>1, <1>6 DEF PInv, OnePlace, OnePlaceAt
<1>10. OnePlace'
  BY <1>1, <1>3, <1>5, <1>6, <1>8, <1>9 DEF PInv, OnePlace
<1>11. NoneLost'
  BY <1>1, <1>5, <1>6 DEF PInv, NoneLost
<1>. QED BY <1>7, <1>10, <1>11 DEF PInv

LEMMA SendRequestPlaces ==
  ASSUME TInv, PInv, NEW r \in Requests, SendRequest(r) PROVE PInv'
<1>0. TypeOK /\ None \notin Requests
  BY RequestsAssumption DEF TInv
<1>1. /\ r \notin sent /\ sent' = sent \cup {r} /\ clients' = Append(clients, r)
      /\ clients \in Seq(Requests) /\ Once(clients)
      /\ UNCHANGED <<pc, request, toWorker, fromWorker, answered, contextClosed>>
  BY <1>0 DEF SendRequest, TypeOK, worker, stop, record, PInv, EachOnce
<1>2. r \notin Waiting \cup answered /\ \A w \in Workers : r \notin WithWorker(w)
  BY <1>1 DEF PInv, OnePlace, OnePlaceAt
<1>3. Once(clients)' /\ Waiting' = Waiting \cup {r}
  <2>1. Once(Append(clients, r)) /\ InSeq(Append(clients, r)) = InSeq(clients) \cup {r}
    BY <1>1, <1>2, OnceAppend DEF Waiting
  <2>. QED BY <1>1, <2>1 DEF Once, Waiting, InSeq
<1>4. \A w \in Workers :
         /\ Carried(w)' = Carried(w) /\ Worked(w)' = Worked(w) /\ Replied(w)' = Replied(w)
         /\ WithWorker(w)' = WithWorker(w)
  BY <1>1 DEF Carried, Worked, Replied, WithWorker, InSeq
<1>5. EachOnce'
  BY <1>1, <1>3 DEF PInv, EachOnce, Once
<1>6. \A w \in Workers : OnePlaceAt(w)'
  BY <1>1, <1>2, <1>3, <1>4 DEF PInv, OnePlace, OnePlaceAt
<1>7. OnePlace'
  BY <1>1, <1>2, <1>3, <1>4, <1>6 DEF PInv, OnePlace
<1>8. NoneLost'
  BY <1>1, <1>3, <1>4 DEF PInv, NoneLost
<1>. QED BY <1>5, <1>7, <1>8 DEF PInv

\* The loop ends, and what it was forwarding is lost.
LEMMA LoopTerminatedMoves ==
  ASSUME TInv, PInv, LoopTerminated
  PROVE  /\ contextClosed /\ UNCHANGED <<contextClosed, pc, request, toWorker, answered, sent>>
         /\ main \in InLoop /\ EachOnce'
         /\ \/ UNCHANGED <<clients, fromWorker>>
            \/ /\ UNCHANGED fromWorker
               /\ \E r \in Waiting : Waiting' = Waiting \ {r}
            \/ /\ UNCHANGED clients
               /\ \E w \in Workers :
                    /\ \A v \in Workers \ {w} : fromWorker'[v] = fromWorker[v]
                    /\ \/ Replied(w)' = Replied(w)
                       \/ \E r \in Replied(w) : Replied(w)' = Replied(w) \ {r}
<1>0. TypeOK /\ None \notin Requests
  BY RequestsAssumption DEF TInv
<1>1. /\ contextClosed /\ UNCHANGED <<contextClosed, pc, request, toWorker, answered, sent>>
      /\ main \in InLoop
  BY DEF LoopTerminated, worker, stop, record
<1>2. CASE UNCHANGED <<clients, fromWorker>>
  <2>1. EachOnce'
    BY <1>1, <1>2 DEF PInv, EachOnce, Once
  <2>. QED BY <1>1, <1>2, <2>1
<1>3. CASE main = "clients" /\ clients' = Tail(clients) /\ UNCHANGED fromWorker
  <2>1. PICK r : r = Head(clients)
    OBVIOUS
  <2>2. clients # <<>> /\ clients \in Seq(Requests) /\ Once(clients)
    BY <1>0, <1>3 DEF TInv, PolledClients, TypeOK, PInv, EachOnce
  <2>3. /\ Once(Tail(clients)) /\ InSeq(clients) = InSeq(Tail(clients)) \cup {r}
        /\ r \in Requests /\ r \notin InSeq(Tail(clients))
    BY <1>0, <2>1, <2>2, OnceTail
  <2>4. Waiting' = Waiting \ {r} /\ r \in Waiting
    BY <1>3, <2>3 DEF Waiting, InSeq
  <2>5. EachOnce'
    BY <1>1, <1>3, <2>3 DEF PInv, EachOnce, Once
  <2>. QED BY <1>1, <1>3, <2>4, <2>5
<1>4. ASSUME NEW w \in Readable, fromWorker' = [fromWorker EXCEPT ![w] = Tail(@)],
             UNCHANGED clients
      PROVE  /\ EachOnce' /\ w \in Workers
             /\ \A v \in Workers \ {w} : fromWorker'[v] = fromWorker[v]
             /\ \/ Replied(w)' = Replied(w)
                \/ \E r \in Replied(w) : Replied(w)' = Replied(w) \ {r}
  <2>1. PICK r : r = Head(fromWorker[w])
    OBVIOUS
  <2>2. /\ w \in Workers /\ fromWorker[w] # <<>>
        /\ fromWorker[w] \in Seq(Requests \cup {None}) /\ Once(fromWorker[w])
    BY <1>0, <1>4 DEF Readable, TypeOK, PInv, EachOnce
  <2>3. /\ Once(Tail(fromWorker[w]))
        /\ InSeq(fromWorker[w]) = InSeq(Tail(fromWorker[w])) \cup {r}
        /\ r # None => r \notin InSeq(Tail(fromWorker[w]))
    BY <2>1, <2>2, OnceTail
  <2>4. /\ fromWorker'[w] = Tail(fromWorker[w])
        /\ \A v \in Workers \ {w} : fromWorker'[v] = fromWorker[v]
    BY <1>0, <1>4, <2>2 DEF TypeOK
  <2>5. EachOnce'
    BY <1>1, <1>4, <2>3, <2>4 DEF PInv, EachOnce, Once
  <2>6. Replied(w)' = InSeq(Tail(fromWorker[w])) \ {None}
    BY <2>4 DEF Replied, InSeq
  <2>7. Replied(w)' = Replied(w) \/ (r \in Replied(w) /\ Replied(w)' = Replied(w) \ {r})
    BY <2>3, <2>6 DEF Replied
  <2>. QED BY <2>2, <2>4, <2>5, <2>7
<1>. QED BY <1>1, <1>2, <1>3, <1>4 DEF LoopTerminated

LEMMA LoopTerminatedPlaces == ASSUME TInv, PInv, LoopTerminated PROVE PInv'
<1>1. /\ contextClosed' /\ UNCHANGED <<pc, request, toWorker, answered, sent>> /\ EachOnce'
  BY LoopTerminatedMoves
<1>2. \A w \in Workers : Carried(w)' = Carried(w) /\ Worked(w)' = Worked(w)
  BY <1>1 DEF Carried, Worked, InSeq
<1>3. UNCHANGED clients => Waiting' = Waiting
  BY DEF Waiting, InSeq
<1>4. \A w \in Workers : fromWorker'[w] = fromWorker[w] => Replied(w)' = Replied(w)
  BY DEF Replied, InSeq
<1>5. Waiting' \subseteq Waiting
  BY <1>3, LoopTerminatedMoves
<1>6. \A w \in Workers : Replied(w)' \subseteq Replied(w)
  BY <1>4, LoopTerminatedMoves
<1>. QED BY <1>1, <1>2, <1>5, <1>6, SomeLost

LEMMA PInvInit == Init => PInv
BY DEF Init, PInv, EachOnce, OnePlace, OnePlaceAt, NoneLost, Once, InSeq, Waiting,
       Carried, Worked, Replied, WithWorker

LEMMA PInvNext == TInv /\ PInv /\ NextStep => PInv'
<1>. SUFFICES ASSUME TInv, PInv, NextStep PROVE PInv'
  OBVIOUS
<1>1. CASE StartWorkers
  <2>1. /\ UNCHANGED <<clients, toWorker, fromWorker, answered, sent, contextClosed>>
        /\ \A w \in Workers : pc[w] # "working" /\ pc'[w] # "working"
    BY <1>1 DEF StartWorkers, MainGoto, TInv, NotStarted, network, stop, record
  <2>2. \A w \in Workers : Worked(w)' = Worked(w)
    BY <2>1 DEF Worked
  <2>. QED BY <2>1, <2>2, NothingMoves
<1>2. CASE \/ Crash \/ Poll \/ JoinWorkers \/ StopLogger \/ Exit \/ CloseReturns
           \/ RequestStop \/ UNCHANGED serverVars
  <2>1. /\ UNCHANGED <<pc, request, clients, toWorker, fromWorker, answered, sent>>
        /\ UNCHANGED contextClosed \/ contextClosed'
    BY <1>2 DEF Crash, Poll, JoinWorkers, StopLogger, Exit, CloseReturns, RequestStop,
                serverVars, worker, network, stop, record
  <2>2. \A w \in Workers : Worked(w)' = Worked(w)
    BY <2>1 DEF Worked
  <2>. QED BY <2>1, <2>2, NothingMoves
<1>. QED
  BY <1>1, <1>2, OwnStep, HandleWorkerPlaces, HandleClientPlaces, SendRequestPlaces,
     LoopTerminatedPlaces
  DEF NextStep, MainThread, WorkerStep, OwnSteps, CannotBind, CannotCreateSocket

-----------------------------------------------------------------------------
(* Counting the places of a request *)

Number(condition) == IF condition THEN 1 ELSE 0

\* The places of r in a queue.
LEMMA InQueueOnce ==
  ASSUME NEW S, NEW q \in Seq(S), Once(q), NEW r, r # None
  PROVE  /\ r \in InSeq(q) => \E i \in DOMAIN q : \A j \in DOMAIN q : q[j] = r <=> j = i
         /\ r \notin InSeq(q) => \A j \in DOMAIN q : q[j] # r
BY DEF Once, InSeq

LEMMA InQueueNumber ==
  ASSUME NEW S, NEW q \in Seq(S), Once(q), NEW r, r # None
  PROVE  Cardinality({i \in DOMAIN q : q[i] = r}) = Number(r \in InSeq(q))
<1>1. CASE r \in InSeq(q)
  <2>1. PICK i \in DOMAIN q : \A j \in DOMAIN q : q[j] = r <=> j = i
    BY <1>1, InQueueOnce
  <2>2. {j \in DOMAIN q : q[j] = r} = {i}
    BY <2>1
  <2>3. Cardinality({i}) = 1
    BY FS_Singleton
  <2>. QED BY <1>1, <2>2, <2>3 DEF Number
<1>2. CASE r \notin InSeq(q)
  <2>1. {j \in DOMAIN q : q[j] = r} = {}
    BY <1>2, InQueueOnce
  <2>2. Cardinality({}) = 0
    BY FS_EmptySet
  <2>. QED BY <1>2, <2>1, <2>2 DEF Number
<1>. QED BY <1>1, <1>2

\* The places of r in the queues of all workers, when it is in one of them at most.
LEMMA PositionsNumber ==
  ASSUME NEW S, NEW queues \in [Workers -> Seq(S)],
         \A w \in Workers : Once(queues[w]), NEW r, r # None,
         \A v, w \in Workers : r \in InSeq(queues[v]) /\ r \in InSeq(queues[w]) => v = w
  PROVE  Cardinality(PositionsOf(r, queues))
           = Number(\E w \in Workers : r \in InSeq(queues[w]))
<1>1. CASE \E w \in Workers : r \in InSeq(queues[w])
  <2>1. PICK w \in Workers : r \in InSeq(queues[w])
    BY <1>1
  <2>2. queues[w] \in Seq(S) /\ Once(queues[w])
    OBVIOUS
  <2>3. PICK i \in DOMAIN queues[w] : \A j \in DOMAIN queues[w] : queues[w][j] = r <=> j = i
    BY <2>1, <2>2, InQueueOnce
  <2>4. PositionsOf(r, queues) = {<<w, i>>}
    <3>1. \A v \in Workers \ {w} :
             {v} \X {j \in DOMAIN queues[v] : queues[v][j] = r} = {}
      BY <2>1 DEF InSeq
    <3>2. {w} \X {j \in DOMAIN queues[w] : queues[w][j] = r} = {<<w, i>>}
      <4>1. {j \in DOMAIN queues[w] : queues[w][j] = r} = {i}
        BY <2>3
      <4>. QED BY <4>1
    <3>. QED BY <3>1, <3>2 DEF PositionsOf
  <2>5. Cardinality({<<w, i>>}) = 1
    BY FS_Singleton
  <2>. QED BY <1>1, <2>4, <2>5 DEF Number
<1>2. CASE ~(\E w \in Workers : r \in InSeq(queues[w]))
  <2>1. \A v \in Workers : {j \in DOMAIN queues[v] : queues[v][j] = r} = {}
    BY <1>2 DEF InSeq
  <2>2. PositionsOf(r, queues) = {}
    BY <2>1 DEF PositionsOf
  <2>3. Cardinality({}) = 0
    BY FS_EmptySet
  <2>. QED BY <1>2, <2>2, <2>3 DEF Number
<1>. QED BY <1>1, <1>2

\* The five kinds of places, counted.
LEMMA CopiesNumber ==
  ASSUME TypeOK, PInv, NEW r \in Requests
  PROVE  Copies(r) = Number(r \in Waiting)
                     + Number(\E w \in Workers : r \in Carried(w))
                     + Number(\E w \in Workers : r \in Worked(w))
                     + Number(\E w \in Workers : r \in Replied(w))
                     + Number(r \in answered)
<1>0. r # None
  BY RequestsAssumption
<1>1. \A v, w \in Workers : r \in WithWorker(v) /\ r \in WithWorker(w) => v = w
  BY DEF PInv, OnePlace
<1>2. Cardinality({i \in DOMAIN clients : clients[i] = r}) = Number(r \in Waiting)
  BY <1>0, InQueueNumber DEF TypeOK, PInv, EachOnce, Waiting
<1>3. Cardinality(PositionsOf(r, toWorker)) = Number(\E w \in Workers : r \in Carried(w))
  <2>1. \A v, w \in Workers :
           r \in InSeq(toWorker[v]) /\ r \in InSeq(toWorker[w]) => v = w
    BY <1>1 DEF WithWorker, Carried
  <2>2. toWorker \in [Workers -> Seq(Requests)] /\ \A w \in Workers : Once(toWorker[w])
    BY DEF TypeOK, PInv, EachOnce
  <2>3. Cardinality(PositionsOf(r, toWorker))
          = Number(\E w \in Workers : r \in InSeq(toWorker[w]))
    BY <1>0, <2>1, <2>2, PositionsNumber
  <2>. QED BY <2>3 DEF Carried
<1>4. Cardinality(PositionsOf(r, fromWorker)) = Number(\E w \in Workers : r \in Replied(w))
  <2>1. \A v, w \in Workers :
           r \in InSeq(fromWorker[v]) /\ r \in InSeq(fromWorker[w]) => v = w
    BY <1>0, <1>1 DEF WithWorker, Replied
  <2>2. /\ fromWorker \in [Workers -> Seq(Requests \cup {None})]
        /\ \A w \in Workers : Once(fromWorker[w])
    BY DEF TypeOK, PInv, EachOnce
  <2>3. Cardinality(PositionsOf(r, fromWorker))
          = Number(\E w \in Workers : r \in InSeq(fromWorker[w]))
    BY <1>0, <2>1, <2>2, PositionsNumber
  <2>. QED BY <1>0, <2>3 DEF Replied
<1>5. Cardinality({w \in Workers : pc[w] = "working" /\ request[w] = r})
        = Number(\E w \in Workers : r \in Worked(w))
  <2>. DEFINE W == {w \in Workers : pc[w] = "working" /\ request[w] = r}
  <2>1. \A w \in Workers : r \in Worked(w) <=> w \in W
    BY DEF Worked
  <2>2. CASE \E w \in Workers : r \in Worked(w)
    <3>1. PICK w \in Workers : r \in Worked(w)
      BY <2>2
    <3>2. W = {w}
      BY <1>1, <2>1, <3>1 DEF WithWorker
    <3>. QED BY <2>2, <3>2, FS_Singleton DEF Number
  <2>3. CASE ~ \E w \in Workers : r \in Worked(w)
    <3>1. W = {}
      BY <2>1, <2>3
    <3>. QED BY <2>3, <3>1, FS_EmptySet DEF Number
  <2>. QED BY <2>2, <2>3
<1>6. Cardinality({r} \cap answered) = Number(r \in answered)
  <2>1. CASE r \in answered
    <3>1. {r} \cap answered = {r}
      BY <2>1
    <3>. QED BY <2>1, <3>1, FS_Singleton DEF Number
  <2>2. CASE r \notin answered
    <3>1. {r} \cap answered = {}
      BY <2>2
    <3>. QED BY <2>2, <3>1, FS_EmptySet DEF Number
  <2>. QED BY <2>1, <2>2
<1>. QED BY <1>2, <1>3, <1>4, <1>5, <1>6 DEF Copies, Places

\* Each request is in one place, at one worker, and answered at most once; while the
\* server runs none is lost.
THEOREM ServerServedOnce == Spec => []ServedOnce
<1>1. Init => PInv
  BY PInvInit
<1>2. TInv /\ PInv => ServedOnce
  <2>. SUFFICES ASSUME TInv, PInv, NEW r \in Requests
                PROVE  /\ Copies(r) <= (IF r \in sent THEN 1 ELSE 0)
                       /\ r \in sent /\ ~contextClosed => Copies(r) = 1
    BY DEF ServedOnce
  <2>. DEFINE a == r \in Waiting
              b == \E w \in Workers : r \in Carried(w)
              c == \E w \in Workers : r \in Worked(w)
              d == \E w \in Workers : r \in Replied(w)
              e == r \in answered
  <2>1. Copies(r) = Number(a) + Number(b) + Number(c) + Number(d) + Number(e)
    BY CopiesNumber DEF TInv
  <2>2. \A v, w \in Workers : r \in WithWorker(v) /\ r \in WithWorker(w) => v = w
    BY DEF PInv, OnePlace
  <2>3. /\ ~(b /\ c) /\ ~(b /\ d) /\ ~(c /\ d)
    BY <2>2 DEF PInv, OnePlace, OnePlaceAt, WithWorker
  <2>4. /\ ~(a /\ (b \/ c \/ d)) /\ ~(e /\ (b \/ c \/ d)) /\ ~(a /\ e)
    BY DEF PInv, OnePlace, OnePlaceAt, WithWorker
  <2>5. a \/ b \/ c \/ d \/ e => r \in sent
    BY DEF PInv, OnePlace, OnePlaceAt, WithWorker
  <2>6. r \in sent /\ ~contextClosed => a \/ b \/ c \/ d \/ e
    BY DEF PInv, NoneLost, WithWorker
  <2>. HIDE DEF a, b, c, d, e
  <2>. QED BY <2>1, <2>3, <2>4, <2>5, <2>6 DEF Number
<1>. QED BY <1>1, <1>2, Typed, TInvSteps, PInvNext, PTL DEF Spec

-----------------------------------------------------------------------------
(* The server implements RequestService *)

\* One request changes its place, or none does.
Moved(r, from, to) ==
  /\ PlaceOf(r) = from /\ PlaceOf(r)' = to
  /\ \A q \in Requests \ {r} : PlaceOf(q)' = PlaceOf(q)

SamePlaces == \A q \in Requests : PlaceOf(q)' = PlaceOf(q)

\* What has been decided, also if the response was lost.
Settled(r) == PlaceOf(r) \notin {"unsent", "asked"}

\* A request is logged, or about to be by one worker, only after its decision.
LogInv ==
  /\ \A r \in InSeq(logged) : Settled(r)
  /\ \A w \in Workers : pc[w] = "logging" =>
       /\ request[w] \in Intentional /\ Settled(request[w])
       /\ request[w] \notin InSeq(logged)
  /\ \A v, w \in Workers :
       pc[v] = "logging" /\ pc[w] = "logging" /\ request[v] = request[w] => v = w

\* The loop ends only by the stop.
StopFirst ==
  main \in {"joining", "stopLogger", "joinMgmt", "exited"} => contextClosed

LEMMA PlaceKept ==
  ASSUME NEW r, r \in sent' <=> r \in sent, r \in answered' <=> r \in answered,
         Asked(r)' <=> Asked(r), Decided(r)' <=> Decided(r)
  PROVE  PlaceOf(r)' = PlaceOf(r)
BY DEF PlaceOf

\* The places in the parts of the server.
LEMMA PlacesOf ==
  ASSUME PInv, NEW r
  PROVE  /\ r \notin sent <=> PlaceOf(r) = "unsent"
         /\ r \in answered => PlaceOf(r) = "answered"
         /\ Asked(r) => PlaceOf(r) = "asked"
         /\ Decided(r) => PlaceOf(r) = "decided"
<1>1. Asked(r) => r \in sent /\ r \notin answered
  BY DEF Asked, PInv, OnePlace, OnePlaceAt, WithWorker
<1>2. Decided(r) => r \in sent /\ r \notin answered /\ ~Asked(r)
  BY DEF Decided, Asked, PInv, OnePlace, OnePlaceAt, WithWorker
<1>3. r \in answered => r \in sent
  BY DEF PInv, OnePlace
<1>. QED BY <1>1, <1>2, <1>3 DEF PlaceOf

\* Where no queue and no worker's task changes, no place does.
LEMMA StayPlaces ==
  ASSUME UNCHANGED <<clients, toWorker, fromWorker, answered, sent>>,
         \A w \in Workers : Worked(w)' = Worked(w)
  PROVE  SamePlaces
<1>. SUFFICES ASSUME NEW r \in Requests PROVE PlaceOf(r)' = PlaceOf(r)
  BY DEF SamePlaces
<1>1. Waiting' = Waiting
  BY DEF Waiting, InSeq
<1>2. \A w \in Workers : Carried(w)' = Carried(w) /\ Replied(w)' = Replied(w)
  BY DEF Carried, Replied, InSeq
<1>3. (Asked(r)' <=> Asked(r)) /\ (Decided(r)' <=> Decided(r))
  BY <1>1, <1>2 DEF Asked, Decided
<1>. QED BY <1>3, PlaceKept

\* A step of one worker changes the place of what it handles only.
LEMMA OwnPlace ==
  ASSUME NEW w \in Workers, UNCHANGED <<clients, answered, sent>>,
         \A v \in Workers \ {w} : /\ pc'[v] = pc[v] /\ request'[v] = request[v]
                                  /\ toWorker'[v] = toWorker[v]
                                  /\ fromWorker'[v] = fromWorker[v],
         NEW r, (r \in Carried(w) \cup Worked(w))' <=> r \in Carried(w) \cup Worked(w),
         r \in Replied(w)' <=> r \in Replied(w)
  PROVE  PlaceOf(r)' = PlaceOf(r)
<1>1. Waiting' = Waiting
  BY DEF Waiting, InSeq
<1>2. \A v \in Workers \ {w} :
        Carried(v)' = Carried(v) /\ Worked(v)' = Worked(v) /\ Replied(v)' = Replied(v)
  BY OthersKeep
<1>3. (Asked(r)' <=> Asked(r)) /\ (Decided(r)' <=> Decided(r))
  BY <1>1, <1>2 DEF Asked, Decided
<1>. QED BY <1>3, PlaceKept

LEMMA SendRequestMoved ==
  ASSUME TInv, PInv, PInv', NEW r \in Requests, SendRequest(r)
  PROVE  Moved(r, "unsent", "asked")
<1>1. /\ r \notin sent /\ sent' = sent \cup {r} /\ clients' = Append(clients, r)
      /\ clients \in Seq(Requests)
      /\ UNCHANGED <<pc, request, toWorker, fromWorker, answered>>
  BY DEF SendRequest, TInv, TypeOK, worker, record
<1>2. Waiting' = Waiting \cup {r}
  BY <1>1, AppendElement DEF Waiting, InSeq
<1>3. \A w \in Workers :
        Carried(w)' = Carried(w) /\ Worked(w)' = Worked(w) /\ Replied(w)' = Replied(w)
  BY <1>1 DEF Carried, Worked, Replied, InSeq
<1>4. PlaceOf(r) = "unsent"
  BY <1>1 DEF PlaceOf
<1>5. PlaceOf(r)' = "asked"
  <2>1. r \in sent' /\ r \notin answered'
    BY <1>1 DEF PInv, OnePlace
  <2>2. Asked(r)'
    BY <1>2 DEF Asked
  <2>. QED BY <2>1, <2>2 DEF PlaceOf
<1>6. ASSUME NEW q \in Requests \ {r} PROVE PlaceOf(q)' = PlaceOf(q)
  <2>1. (Asked(q)' <=> Asked(q)) /\ (Decided(q)' <=> Decided(q))
    BY <1>2, <1>3 DEF Asked, Decided
  <2>. QED BY <1>1, <2>1, PlaceKept
<1>. QED BY <1>4, <1>5, <1>6 DEF Moved

LEMMA HandleWorkerMoved ==
  ASSUME TInv, PInv, PInv', NEW w \in Workers, HandleWorker(w)
  PROVE  SamePlaces \/ \E r \in Requests : Moved(r, "decided", "answered")
<1>1. TypeOK /\ EachOnce
  BY DEF TInv, PInv
<1>2. /\ UNCHANGED <<pc, request, clients, toWorker, sent>>
      /\ \A v \in Workers \ {w} : fromWorker'[v] = fromWorker[v]
      /\ Carried(w)' = Carried(w) /\ Worked(w)' = Worked(w)
  BY <1>1, HandleWorkerMoves
<1>3. Replied(w) \subseteq Requests
  BY <1>1 DEF Replied, InSeq, TypeOK
<1>4. CASE Replied(w)' = Replied(w) /\ UNCHANGED answered
  BY <1>2, <1>4, OwnPlace DEF SamePlaces
<1>5. ASSUME NEW r \in Replied(w), Replied(w)' = Replied(w) \ {r}, answered' = answered \cup {r}
      PROVE  Moved(r, "decided", "answered")
  <2>1. PlaceOf(r) = "decided"
    BY PlacesOf DEF Decided
  <2>2. PlaceOf(r)' = "answered"
    BY <1>2, <1>5 DEF PlaceOf, PInv, OnePlace
  <2>3. ASSUME NEW q \in Requests \ {r} PROVE PlaceOf(q)' = PlaceOf(q)
    <3>1. Waiting' = Waiting
      BY <1>2 DEF Waiting, InSeq
    <3>2. \A v \in Workers \ {w} :
            Carried(v)' = Carried(v) /\ Worked(v)' = Worked(v) /\ Replied(v)' = Replied(v)
      BY <1>2, OthersKeep
    <3>3. (Asked(q)' <=> Asked(q)) /\ (Decided(q)' <=> Decided(q))
      BY <1>2, <1>5, <3>1, <3>2 DEF Asked, Decided
    <3>. QED BY <1>2, <1>5, <3>3, PlaceKept
  <2>. QED BY <2>1, <2>2, <2>3 DEF Moved
<1>. QED BY <1>1, <1>3, <1>4, <1>5, HandleWorkerMoves

LEMMA HandleClientMoved == ASSUME TInv, PInv, HandleClient PROVE SamePlaces
<1>. SUFFICES ASSUME NEW q \in Requests PROVE PlaceOf(q)' = PlaceOf(q)
  BY DEF SamePlaces
<1>1. PICK w \in Workers, r \in Waiting :
        /\ UNCHANGED <<pc, request, fromWorker, answered, sent, contextClosed>>
        /\ \A v \in Workers \ {w} : toWorker'[v] = toWorker[v]
        /\ Waiting' = Waiting \ {r} /\ Carried(w)' = Carried(w) \cup {r}
  BY HandleClientMoves
<1>2. \A v \in Workers : Worked(v)' = Worked(v) /\ Replied(v)' = Replied(v)
  BY <1>1 DEF Worked, Replied, InSeq
<1>3. \A v \in Workers \ {w} : Carried(v)' = Carried(v)
  BY <1>1 DEF Carried, InSeq
<1>4. (Asked(q)' <=> Asked(q)) /\ (Decided(q)' <=> Decided(q))
  BY <1>1, <1>2, <1>3 DEF Asked, Decided
<1>. QED BY <1>1, <1>4, PlaceKept

LEMMA SendResponseMoved ==
  ASSUME TInv, PInv, PInv', NEW w \in Workers, SendResponse(w)
  PROVE  \E r \in Requests : r = request[w] /\ Moved(r, "asked", "decided")
<1>1. TypeOK /\ EachOnce /\ OnePlaceAt(w)
  BY DEF TInv, PInv, OnePlace
<1>2. /\ UNCHANGED <<clients, answered, sent>>
      /\ \A v \in Workers \ {w} : /\ pc'[v] = pc[v] /\ request'[v] = request[v]
                                  /\ toWorker'[v] = toWorker[v]
                                  /\ fromWorker'[v] = fromWorker[v]
  BY <1>1, OwnStepFrame DEF OwnSteps
<1>3. PICK r : r = request[w]
  OBVIOUS
<1>4. /\ Carried(w)' = Carried(w) /\ Worked(w)' = {} /\ Worked(w) = {r}
      /\ Replied(w)' = Replied(w) \cup {r} /\ r \in Requests
  BY <1>1, <1>3, SendResponseMoves
<1>5. PlaceOf(r) = "asked"
  BY <1>4, PlacesOf DEF Asked
<1>6. PlaceOf(r)' = "decided"
  <2>1. r \in WithWorker(w)' /\ r \in Replied(w)'
    BY <1>4 DEF WithWorker
  <2>2. r \in sent' /\ r \notin answered' /\ r \notin Waiting'
    BY <2>1 DEF PInv, OnePlace, OnePlaceAt
  <2>3. \A v \in Workers : r \notin Carried(v)' /\ r \notin Worked(v)'
    BY <2>1 DEF PInv, OnePlace, OnePlaceAt, WithWorker
  <2>4. ~Asked(r)' /\ Decided(r)'
    BY <2>1, <2>2, <2>3 DEF Asked, Decided
  <2>. QED BY <2>2, <2>4 DEF PlaceOf
<1>7. ASSUME NEW q \in Requests \ {r} PROVE PlaceOf(q)' = PlaceOf(q)
  BY <1>2, <1>4, OwnPlace
<1>8. Moved(r, "asked", "decided")
  BY <1>5, <1>6, <1>7 DEF Moved
<1>. QED BY <1>3, <1>4, <1>8

LEMMA OwnStepMoved ==
  ASSUME TInv, PInv, PInv', NEW w \in Workers, OwnSteps(w)
  PROVE  \/ SamePlaces
         \/ /\ SendResponse(w)
            /\ \E r \in Requests : r = request[w] /\ Moved(r, "asked", "decided")
         \/ /\ WorkerTerminated(w) /\ contextClosed
            /\ \E r \in Requests : Moved(r, "asked", "lost")
<1>1. TypeOK /\ EachOnce /\ OnePlaceAt(w)
  BY DEF TInv, PInv, OnePlace
<1>2. /\ UNCHANGED <<clients, answered, sent>>
      /\ \A v \in Workers \ {w} : /\ pc'[v] = pc[v] /\ request'[v] = request[v]
                                  /\ toWorker'[v] = toWorker[v]
                                  /\ fromWorker'[v] = fromWorker[v]
  BY <1>1, OwnStepFrame
<1>3. CASE CreateSocket(w) \/ BecomesReady(w) \/ SendReady(w) \/ LogRequest(w)
  <2>1. Carried(w)' = Carried(w) /\ Worked(w)' = Worked(w) /\ Replied(w)' = Replied(w)
    BY <1>1, <1>3, OwnStepKeeps
  <2>. QED BY <1>2, <2>1, OwnPlace DEF SamePlaces
<1>4. CASE ReceiveRequest(w)
  <2>1. Worked(w) = {} /\ Replied(w)' = Replied(w)
    BY <1>1, <1>4, ReceiveRequestMoves
  <2>2. PICK r \in Carried(w) : Carried(w)' = Carried(w) \ {r} /\ Worked(w)' = {r}
    BY <1>1, <1>4, ReceiveRequestMoves
  <2>3. (Carried(w) \cup Worked(w))' = Carried(w) \cup Worked(w)
    BY <2>1, <2>2
  <2>. QED BY <1>2, <2>1, <2>3, OwnPlace DEF SamePlaces
<1>5. CASE SendResponse(w)
  BY <1>5, SendResponseMoved
<1>6. CASE WorkerTerminated(w)
  <2>1. /\ contextClosed
        /\ Carried(w)' = Carried(w) /\ Worked(w)' = {} /\ Replied(w)' = Replied(w)
    BY <1>1, <1>6, WorkerTerminatedMoves
  <2>2. CASE pc[w] # "working"
    <3>1. Worked(w) = {}
      BY <2>2 DEF Worked
    <3>. QED BY <1>2, <2>1, <3>1, OwnPlace DEF SamePlaces
  <2>3. CASE pc[w] = "working"
    <3>1. PICK r : r = request[w]
      OBVIOUS
    <3>2. r \in Requests /\ Worked(w) = {r}
      BY <1>1, <2>3, <3>1 DEF TypeOK, Worked
    <3>3. PlaceOf(r) = "asked"
      BY <3>2, PlacesOf DEF Asked
    <3>4. PlaceOf(r)' = "lost"
      <4>1. r \in sent' /\ r \notin answered' /\ r \notin Waiting'
        BY <1>1, <1>2, <3>2 DEF OnePlaceAt, WithWorker, Waiting, InSeq
      <4>2. r \notin Carried(w)' /\ r \notin Worked(w)' /\ r \notin Replied(w)'
        BY <1>1, <2>1, <3>2 DEF OnePlaceAt
      <4>3. \A v \in Workers \ {w} : r \notin WithWorker(v)
        BY <3>2 DEF PInv, OnePlace, WithWorker
      <4>4. \A v \in Workers \ {w} :
              r \notin Carried(v)' /\ r \notin Worked(v)' /\ r \notin Replied(v)'
        BY <1>2, <4>3, OthersKeep DEF WithWorker
      <4>5. ~Asked(r)' /\ ~Decided(r)'
        BY <4>1, <4>2, <4>4 DEF Asked, Decided
      <4>. QED BY <4>1, <4>5 DEF PlaceOf
    <3>5. ASSUME NEW q \in Requests \ {r} PROVE PlaceOf(q)' = PlaceOf(q)
      BY <1>2, <2>1, <3>2, OwnPlace
    <3>6. Moved(r, "asked", "lost")
      BY <3>3, <3>4, <3>5 DEF Moved
    <3>. QED BY <1>6, <2>1, <3>2, <3>6
  <2>. QED BY <2>2, <2>3
<1>. QED BY <1>3, <1>4, <1>5, <1>6 DEF OwnSteps

LEMMA LoopTerminatedMoved ==
  ASSUME TInv, PInv, LoopTerminated
  PROVE  \/ SamePlaces
         \/ \E r \in Requests : Moved(r, "asked", "lost") \/ Moved(r, "decided", "lost")
<1>0. TypeOK
  BY DEF TInv
<1>1. UNCHANGED <<pc, request, toWorker, answered, sent>>
  BY LoopTerminatedMoves
<1>2. \A w \in Workers : Carried(w)' = Carried(w) /\ Worked(w)' = Worked(w)
  BY <1>1 DEF Carried, Worked, InSeq
<1>3. CASE UNCHANGED <<clients, fromWorker>>
  BY <1>1, <1>2, <1>3, StayPlaces
<1>4. ASSUME UNCHANGED fromWorker, NEW r \in Waiting, Waiting' = Waiting \ {r}
      PROVE  r \in Requests /\ Moved(r, "asked", "lost")
  <2>0. r \in Requests
    BY <1>0 DEF Waiting, InSeq, TypeOK
  <2>1. \A w \in Workers : Replied(w)' = Replied(w)
    BY <1>4 DEF Replied, InSeq
  <2>2. PlaceOf(r) = "asked"
    BY PlacesOf DEF Asked
  <2>3. PlaceOf(r)' = "lost"
    <3>1. r \in sent' /\ r \notin answered' /\ \A w \in Workers : r \notin WithWorker(w)
      BY <1>1 DEF PInv, OnePlace, OnePlaceAt
    <3>2. ~Asked(r)' /\ ~Decided(r)'
      BY <1>2, <1>4, <2>1, <3>1 DEF Asked, Decided, WithWorker
    <3>. QED BY <3>1, <3>2 DEF PlaceOf
  <2>4. ASSUME NEW q \in Requests \ {r} PROVE PlaceOf(q)' = PlaceOf(q)
    <3>1. (Asked(q)' <=> Asked(q)) /\ (Decided(q)' <=> Decided(q))
      BY <1>2, <1>4, <2>1 DEF Asked, Decided
    <3>. QED BY <1>1, <3>1, PlaceKept
  <2>. QED BY <2>0, <2>2, <2>3, <2>4 DEF Moved
<1>5. ASSUME UNCHANGED clients, NEW w \in Workers,
             \A v \in Workers \ {w} : fromWorker'[v] = fromWorker[v],
             \/ Replied(w)' = Replied(w)
             \/ \E r \in Replied(w) : Replied(w)' = Replied(w) \ {r}
      PROVE  SamePlaces \/ \E r \in Requests : Moved(r, "decided", "lost")
  <2>1. Waiting' = Waiting
    BY <1>5 DEF Waiting, InSeq
  <2>2. \A v \in Workers \ {w} : Replied(v)' = Replied(v)
    BY <1>5 DEF Replied, InSeq
  <2>3. \A q : Asked(q)' <=> Asked(q)
    BY <1>2, <2>1 DEF Asked
  <2>4. CASE Replied(w)' = Replied(w)
    <3>. SUFFICES ASSUME NEW q \in Requests PROVE PlaceOf(q)' = PlaceOf(q)
      BY DEF SamePlaces
    <3>1. Decided(q)' <=> Decided(q)
      BY <2>2, <2>4 DEF Decided
    <3>. QED BY <1>1, <2>3, <3>1, PlaceKept
  <2>5. ASSUME NEW r \in Replied(w), Replied(w)' = Replied(w) \ {r}
        PROVE  r \in Requests /\ Moved(r, "decided", "lost")
    <3>0. r \in Requests
      BY <1>0 DEF Replied, InSeq, TypeOK
    <3>1. PlaceOf(r) = "decided"
      BY PlacesOf DEF Decided
    <3>2. PlaceOf(r)' = "lost"
      <4>1. r \in WithWorker(w)
        BY DEF WithWorker
      <4>2. r \in sent' /\ r \notin answered'
        BY <1>1, <4>1 DEF PInv, OnePlace, OnePlaceAt
      <4>3. ~Asked(r)
        BY <4>1 DEF PInv, OnePlace, OnePlaceAt, Asked, WithWorker
      <4>4. \A v \in Workers \ {w} : r \notin Replied(v)
        BY <4>1 DEF PInv, OnePlace, WithWorker
      <4>5. ~Asked(r)' /\ ~Decided(r)'
        BY <2>2, <2>3, <2>5, <4>3, <4>4 DEF Decided
      <4>. QED BY <4>2, <4>5 DEF PlaceOf
    <3>3. ASSUME NEW q \in Requests \ {r} PROVE PlaceOf(q)' = PlaceOf(q)
      <4>1. Decided(q)' <=> Decided(q)
        BY <2>2, <2>5 DEF Decided
      <4>. QED BY <1>1, <2>3, <4>1, PlaceKept
    <3>. QED BY <3>0, <3>1, <3>2, <3>3 DEF Moved
  <2>. QED BY <1>5, <2>4, <2>5
<1>. QED BY <1>3, <1>4, <1>5, LoopTerminatedMoves

\* The other steps: of the main thread, of the stop, and a crash.
Elsewhere ==
  \/ Crash \/ StartWorkers \/ Poll \/ JoinWorkers \/ StopLogger \/ Exit
  \/ CloseReturns \/ RequestStop \/ UNCHANGED serverVars

LEMMA ElsewhereSame == ASSUME TInv, Elsewhere PROVE SamePlaces
<1>1. CASE StartWorkers
  <2>1. /\ UNCHANGED <<clients, toWorker, fromWorker, answered, sent>>
        /\ \A w \in Workers : pc[w] # "working" /\ pc'[w] # "working"
    BY <1>1 DEF StartWorkers, MainGoto, TInv, NotStarted, network, record
  <2>2. \A w \in Workers : Worked(w)' = Worked(w)
    BY <2>1 DEF Worked
  <2>. QED BY <2>1, <2>2, StayPlaces
<1>2. CASE \/ Crash \/ Poll \/ JoinWorkers \/ StopLogger \/ Exit \/ CloseReturns
           \/ RequestStop \/ UNCHANGED serverVars
  <2>1. UNCHANGED <<pc, request, clients, toWorker, fromWorker, answered, sent>>
    BY <1>2 DEF Crash, Poll, JoinWorkers, StopLogger, Exit, CloseReturns, RequestStop,
                serverVars, worker, network, record
  <2>2. \A w \in Workers : Worked(w)' = Worked(w)
    BY <2>1 DEF Worked
  <2>. QED BY <2>1, <2>2, StayPlaces
<1>. QED BY <1>1, <1>2 DEF Elsewhere

\* Every step is one of these.
LEMMA StepKinds ==
  ASSUME NextStep
  PROVE  \/ Elsewhere \/ HandleClient \/ LoopTerminated
         \/ \E r \in Requests : SendRequest(r)
         \/ \E w \in Workers : HandleWorker(w) \/ OwnSteps(w)
BY DEF NextStep, MainThread, WorkerStep, OwnSteps, Elsewhere, CannotBind,
       CannotCreateSocket

LEMMA SettledForward ==
  ASSUME TInv, PInv, PInv', NextStep, NEW r \in Requests, Settled(r)
  PROVE  Settled(r)'
<1>1. ASSUME SamePlaces PROVE Settled(r)'
  BY <1>1 DEF SamePlaces, Settled
<1>2. ASSUME NEW q \in Requests, NEW from, NEW to, Moved(q, from, to),
             from = "unsent" \/ to \notin {"unsent", "asked"}
      PROVE  Settled(r)'
  <2>1. CASE q = r
    BY <1>2, <2>1 DEF Moved, Settled
  <2>2. CASE q # r
    BY <1>2, <2>2 DEF Moved, Settled
  <2>. QED BY <2>1, <2>2
<1>3. CASE Elsewhere \/ HandleClient
  BY <1>1, <1>3, ElsewhereSame, HandleClientMoved
<1>4. CASE LoopTerminated
  BY <1>1, <1>2, <1>4, LoopTerminatedMoved
<1>5. ASSUME NEW q \in Requests, SendRequest(q) PROVE Settled(r)'
  BY <1>2, <1>5, SendRequestMoved
<1>6. ASSUME NEW w \in Workers, HandleWorker(w) PROVE Settled(r)'
  BY <1>1, <1>2, <1>6, HandleWorkerMoved
<1>7. ASSUME NEW w \in Workers, OwnSteps(w) PROVE Settled(r)'
  BY <1>1, <1>2, <1>7, OwnStepMoved
<1>. QED BY <1>3, <1>4, <1>5, <1>6, <1>7, StepKinds

LEMMA LogInvNext ==
  ASSUME TInv, PInv, PInv', LogInv, NextStep PROVE LogInv'
<1>0. TypeOK /\ InSeq(logged) \subseteq Requests
  BY DEF TInv, TypeOK, InSeq
<1>1. \A r \in Requests : Settled(r) => Settled(r)'
  BY SettledForward
<1>2. ASSUME UNCHANGED logged,
             \A v \in Workers :
               pc'[v] = "logging" => pc[v] = "logging" /\ request'[v] = request[v]
      PROVE  LogInv'
  <2>1. InSeq(logged') = InSeq(logged)
    BY <1>2 DEF InSeq
  <2>2. \A v \in Workers : pc[v] = "logging" => request[v] \in Requests
    BY <1>0 DEF TypeOK
  <2>3. \A r \in InSeq(logged') : Settled(r)'
    BY <1>0, <1>1, <2>1 DEF LogInv
  <2>4. ASSUME NEW v \in Workers, pc'[v] = "logging"
        PROVE  /\ request'[v] \in Intentional /\ Settled(request[v])'
               /\ request'[v] \notin InSeq(logged')
    <3>1. PICK q \in Requests : q = request[v]
      BY <1>2, <2>2, <2>4
    <3>2. q \in Intentional /\ Settled(q) /\ q \notin InSeq(logged) /\ request'[v] = q
      BY <1>2, <2>4, <3>1 DEF LogInv
    <3>3. Settled(q)'
      BY <1>1, <3>2
    <3>4. Settled(request[v])'
      BY <3>2, <3>3
    <3>. QED BY <2>1, <3>2, <3>4
  <2>5. \A v, w \in Workers :
          pc'[v] = "logging" /\ pc'[w] = "logging" /\ request'[v] = request'[w] => v = w
    BY <1>2 DEF LogInv
  <2>. QED BY <2>3, <2>4, <2>5 DEF LogInv
<1>3. ASSUME NEW w \in Workers, SendResponse(w) PROVE LogInv'
  <2>1. PICK q \in Requests : q = request[w] /\ Moved(q, "asked", "decided")
    BY <1>3, SendResponseMoved
  <2>2. /\ UNCHANGED logged
        /\ pc'[w] = "logging" => q \in Intentional /\ request'[w] = q
        /\ \A v \in Workers \ {w} : pc'[v] = pc[v] /\ request'[v] = request[v]
    BY <1>0, <1>3, <2>1
    DEF SendResponse, WorkerGoto, AfterReply, RequestAfterReply, IsLogged, TypeOK, record
  <2>3. ~Settled(q) /\ Settled(q)'
    BY <2>1 DEF Moved, Settled
  <2>4. q \notin InSeq(logged)
    BY <2>3 DEF LogInv
  <2>5. \A v \in Workers \ {w} : pc[v] = "logging" => request[v] # q
    BY <2>3 DEF LogInv
  <2>6. InSeq(logged') = InSeq(logged)
    BY <2>2 DEF InSeq
  <2>7. \A r \in InSeq(logged') : Settled(r)'
    BY <1>0, <1>1, <2>6 DEF LogInv
  <2>8. ASSUME NEW v \in Workers, pc'[v] = "logging"
        PROVE  /\ request'[v] \in Intentional /\ Settled(request[v])'
               /\ request'[v] \notin InSeq(logged')
    <3>1. CASE v = w
      <4>1. Settled(request[w])'
        BY <2>2, <2>3, <2>8, <3>1
      <4>. QED BY <2>2, <2>4, <2>6, <2>8, <3>1, <4>1
    <3>2. CASE v # w
      <4>1. PICK r \in Requests : r = request[v]
        BY <1>0, <2>2, <2>8, <3>2 DEF TypeOK
      <4>2. r \in Intentional /\ Settled(r) /\ r \notin InSeq(logged) /\ request'[v] = r
        BY <2>2, <2>8, <3>2, <4>1 DEF LogInv
      <4>3. Settled(r)'
        BY <1>1, <4>2
      <4>4. Settled(request[v])'
        BY <4>2, <4>3
      <4>. QED BY <2>6, <4>2, <4>4
    <3>. QED BY <3>1, <3>2
  <2>9. \A u, v \in Workers :
          pc'[u] = "logging" /\ pc'[v] = "logging" /\ request'[u] = request'[v] => u = v
    BY <2>2, <2>5 DEF LogInv
  <2>. QED BY <2>7, <2>8, <2>9 DEF LogInv
<1>4. ASSUME NEW w \in Workers, LogRequest(w) PROVE LogInv'
  <2>1. PICK q \in Requests : q = request[w]
    BY <1>0, <1>4 DEF LogRequest, WorkerGoto, TypeOK
  <2>2. /\ logged' = Append(logged, q) /\ logged \in Seq(Requests)
        /\ pc[w] = "logging" /\ pc'[w] # "logging"
        /\ \A v \in Workers \ {w} : pc'[v] = pc[v] /\ request'[v] = request[v]
    BY <1>0, <1>4, <2>1 DEF LogRequest, WorkerGoto, TypeOK
  <2>3. InSeq(logged') = InSeq(logged) \cup {q}
    <3>1. InSeq(Append(logged, q)) = InSeq(logged) \cup {q}
      BY <2>2, AppendElement
    <3>. QED BY <2>2, <3>1
  <2>4. Settled(q) /\ q \notin InSeq(logged)
    BY <2>1, <2>2 DEF LogInv
  <2>5. \A r \in InSeq(logged') : Settled(r)'
    BY <1>0, <1>1, <2>3, <2>4 DEF LogInv
  <2>6. ASSUME NEW v \in Workers, pc'[v] = "logging"
        PROVE  /\ request'[v] \in Intentional /\ Settled(request[v])'
               /\ request'[v] \notin InSeq(logged')
    <3>1. v # w
      BY <2>2, <2>6
    <3>2. PICK r \in Requests : r = request[v]
      BY <1>0, <2>2, <2>6, <3>1 DEF TypeOK
    <3>3. /\ r \in Intentional /\ Settled(r) /\ r \notin InSeq(logged)
          /\ request'[v] = r /\ r # q
      BY <2>1, <2>2, <2>6, <3>1, <3>2 DEF LogInv
    <3>4. Settled(r)'
      BY <1>1, <3>3
    <3>5. Settled(request[v])'
      BY <3>3, <3>4
    <3>. QED BY <2>3, <3>3, <3>5
  <2>7. \A u, v \in Workers :
          pc'[u] = "logging" /\ pc'[v] = "logging" /\ request'[u] = request'[v] => u = v
    BY <2>2 DEF LogInv
  <2>. QED BY <2>5, <2>6, <2>7 DEF LogInv
<1>5. CASE StartWorkers
  BY <1>0, <1>2, <1>5 DEF StartWorkers, record, TypeOK
<1>6. CASE \/ Crash \/ Poll \/ JoinWorkers \/ StopLogger \/ Exit \/ CloseReturns
           \/ RequestStop \/ UNCHANGED serverVars \/ HandleClient \/ LoopTerminated
           \/ \E r \in Requests : SendRequest(r)
           \/ \E w \in Workers : HandleWorker(w)
  <2>1. UNCHANGED <<logged, pc, request>>
    BY <1>6 DEF Crash, Poll, JoinWorkers, StopLogger, Exit, CloseReturns, RequestStop, serverVars,
                HandleClient, LoopTerminated, SendRequest, HandleWorker, worker, record
  <2>. QED BY <1>2, <2>1
<1>7. ASSUME NEW w \in Workers,
             \/ CreateSocket(w) \/ BecomesReady(w) \/ SendReady(w) \/ ReceiveRequest(w)
             \/ WorkerTerminated(w)
      PROVE  LogInv'
  <2>1. /\ UNCHANGED logged /\ pc'[w] # "logging"
        /\ \A v \in Workers \ {w} : pc'[v] = pc[v] /\ request'[v] = request[v]
    BY <1>0, <1>7 DEF CreateSocket, BecomesReady, SendReady, ReceiveRequest, WorkerTerminated,
                      WorkerGoto, TypeOK, record
  <2>. QED BY <1>2, <2>1
<1>. QED BY <1>3, <1>4, <1>5, <1>6, <1>7, StepKinds DEF Elsewhere, OwnSteps

LEMMA StopFirstNext == ASSUME StopFirst, NextStep PROVE StopFirst'
<1>1. CASE LoopTerminated
  BY <1>1 DEF LoopTerminated, StopFirst, stop
<1>2. CASE \/ StartWorkers \/ Poll \/ HandleClient \/ \E w \in Workers : HandleWorker(w)
  <2>1. main' \in InLoop
    BY <1>2 DEF StartWorkers, Poll, HandleClient, HandleWorker, AfterWorkers, MainGoto, InLoop
  <2>. QED BY <2>1 DEF StopFirst, InLoop
<1>3. CASE JoinWorkers \/ StopLogger \/ Exit
  BY <1>3 DEF JoinWorkers, StopLogger, Exit, MainGoto, StopFirst, stop
<1>4. CASE RequestStop
  BY <1>4 DEF RequestStop, StopFirst
<1>5. CASE \/ Crash \/ CloseReturns \/ UNCHANGED serverVars
           \/ \E r \in Requests : SendRequest(r)
           \/ \E w \in Workers : OwnSteps(w)
  <2>1. UNCHANGED <<main, contextClosed>>
    BY <1>5 DEF Crash, CloseReturns, serverVars, SendRequest, OwnSteps, CreateSocket, BecomesReady,
       SendReady, ReceiveRequest, SendResponse, LogRequest, WorkerTerminated, broker, stop
  <2>. QED BY <2>1 DEF StopFirst
<1>. QED BY <1>1, <1>2, <1>3, <1>4, <1>5, StepKinds DEF Elsewhere

\* Steps of the server as steps of the service.
LEMMA MovedImplements ==
  ASSUME NEW r \in Requests, NEW from, NEW to, Moved(r, from, to),
         UNCHANGED logged, Phase' = Phase
  PROVE  Service!Move(r, from, to)
<1>. DEFINE place == [q \in Requests |-> PlaceOf(q)]
<1>1. place[r] = from
  BY DEF Moved
<1>2. place' = [place EXCEPT ![r] = to]
  <2>1. place' = [q \in Requests |-> PlaceOf(q)']
    OBVIOUS
  <2>2. \A q \in Requests : PlaceOf(q)' = (IF q = r THEN to ELSE PlaceOf(q))
    BY DEF Moved
  <2>. QED BY <2>1, <2>2
<1>. QED BY <1>1, <1>2 DEF Service!Move

LEMMA SameImplements ==
  ASSUME SamePlaces, UNCHANGED logged, Phase' = Phase
  PROVE  UNCHANGED Service!vars
<1>1. [q \in Requests |-> PlaceOf(q)]' = [q \in Requests |-> PlaceOf(q)]
  BY DEF SamePlaces
<1>. QED BY <1>1 DEF Service!vars

SInv == TInv /\ PInv /\ LogInv /\ StopFirst /\ RepliedIsLogged /\ WorkersJoined

LEMMA InitSInv == Init => SInv
<1>. SUFFICES ASSUME Init PROVE SInv
  OBVIOUS
<1>1. TInv
  BY TypeInit
<1>2. PInv
  BY PInvInit
<1>3. LogInv /\ RepliedIsLogged
  BY DEF Init, LogInv, RepliedIsLogged, InSeq
<1>4. StopFirst /\ WorkersJoined
  BY DEF Init, StopFirst, WorkersJoined
<1>. QED BY <1>1, <1>2, <1>3, <1>4 DEF SInv

LEMMA SInvNext == SInv /\ NextStep => SInv'
BY TInvNext, PInvNext, LogInvNext, StopFirstNext, RepliedIsLoggedNext, WorkersJoinedNext
DEF SInv

LEMMA WorkerWhileServing ==
  ASSUME WorkersJoined, NEW w \in Workers, OwnSteps(w)
  PROVE  main \notin {"joinMgmt", "exited"}
<1>1. pc[w] # "finished"
  BY DEF OwnSteps, CreateSocket, BecomesReady, SendReady, ReceiveRequest, SendResponse,
         LogRequest, WorkerTerminated, Terminates, WorkerGoto
<1>. QED BY <1>1 DEF WorkersJoined

LEMMA LogRequestImplements ==
  ASSUME SInv, SInv', NEW w \in Workers, LogRequest(w)
  PROVE  \E r \in Requests : Service!Log(r)
<1>1. PICK r \in Requests : r = request[w]
  BY DEF LogRequest, WorkerGoto, SInv, TInv, TypeOK
<1>2. r \in Intentional \ InSeq(logged) /\ PlaceOf(r) \notin {"unsent", "asked"}
  BY <1>1 DEF LogRequest, WorkerGoto, SInv, LogInv, Settled
<1>3. logged' = Append(logged, r)
  BY <1>1 DEF LogRequest
<1>4. OwnSteps(w) /\ ~SendResponse(w) /\ ~WorkerTerminated(w)
  BY DEF OwnSteps, LogRequest, SendResponse, WorkerTerminated, Terminates, WorkerGoto
<1>5. SamePlaces
  BY <1>4, OwnStepMoved DEF SInv
<1>6. Phase # "stopped" /\ Phase' = Phase
  <2>1. UNCHANGED <<main, contextClosed>>
    BY DEF LogRequest, broker, stop
  <2>2. main \notin {"joinMgmt", "exited"}
    BY <1>4, WorkerWhileServing DEF SInv
  <2>. QED BY <2>1, <2>2 DEF Phase
<1>7. [q \in Requests |-> PlaceOf(q)]' = [q \in Requests |-> PlaceOf(q)]
  BY <1>5 DEF SamePlaces
<1>8. Service!InSeq(logged) = InSeq(logged)
  BY DEF Service!InSeq, InSeq
<1>. QED BY <1>2, <1>3, <1>6, <1>7, <1>8 DEF Service!Log

LEMMA OwnStepImplements ==
  ASSUME SInv, SInv', NEW w \in Workers, OwnSteps(w), ~LogRequest(w)
  PROVE  [Service!Next]_(Service!vars)
<1>1. UNCHANGED <<main, contextClosed>> /\ main \notin {"joinMgmt", "exited"}
  BY OwnStepFrame, WorkerWhileServing DEF SInv, TInv
<1>2. UNCHANGED logged
  BY DEF OwnSteps, CreateSocket, BecomesReady, SendReady, ReceiveRequest, SendResponse,
         WorkerTerminated, record
<1>3. Phase # "stopped" /\ Phase' = Phase /\ (contextClosed => Phase = "stopping")
  BY <1>1 DEF Phase
<1>4. CASE SamePlaces
  BY <1>2, <1>3, <1>4, SameImplements
<1>5. ASSUME NEW r \in Requests, Moved(r, "asked", "decided")
      PROVE  Service!Decide(r)
  BY <1>2, <1>3, <1>5, MovedImplements DEF Service!Decide
<1>6. ASSUME NEW r \in Requests, Moved(r, "asked", "lost"), contextClosed
      PROVE  Service!Lose(r)
  BY <1>2, <1>3, <1>6, MovedImplements DEF Service!Lose
<1>. QED BY <1>4, <1>5, <1>6, OwnStepMoved DEF SInv, Service!Next

LEMMA BrokerImplements ==
  ASSUME SInv, SInv',
         HandleClient \/ LoopTerminated \/ \E w \in Workers : HandleWorker(w)
  PROVE  [Service!Next]_(Service!vars)
<1>1. UNCHANGED <<logged, contextClosed>> /\ main \in InLoop
  BY DEF HandleClient, LoopTerminated, HandleWorker, MainGoto, InLoop, stop, record
<1>2. main' \in InLoop \cup {"joining"}
  BY DEF HandleClient, LoopTerminated, HandleWorker, MainGoto, AfterWorkers, InLoop
<1>3. Phase # "stopped" /\ Phase' = Phase /\ (contextClosed => Phase = "stopping")
  BY <1>1, <1>2 DEF Phase, InLoop
<1>4. CASE SamePlaces
  BY <1>1, <1>3, <1>4, SameImplements
<1>5. CASE LoopTerminated
  <2>1. contextClosed
    BY <1>5 DEF LoopTerminated
  <2>2. ASSUME NEW r \in Requests, Moved(r, "asked", "lost") \/ Moved(r, "decided", "lost")
        PROVE  Service!Lose(r)
    BY <1>1, <1>3, <2>1, <2>2, MovedImplements DEF Service!Lose
  <2>. QED BY <1>4, <1>5, <2>2, LoopTerminatedMoved DEF SInv, Service!Next
<1>6. ASSUME NEW w \in Workers, HandleWorker(w) PROVE [Service!Next]_(Service!vars)
  <2>1. ASSUME NEW r \in Requests, Moved(r, "decided", "answered") PROVE Service!Answer(r)
    BY <1>1, <1>3, <2>1, MovedImplements DEF Service!Answer
  <2>. QED BY <1>4, <1>6, <2>1, HandleWorkerMoved DEF SInv, Service!Next
<1>. QED BY <1>4, <1>5, <1>6, HandleClientMoved DEF SInv

LEMMA StopLoggerImplements == ASSUME SInv, StopLogger PROVE Service!Finish
<1>1. /\ main = "stopLogger" /\ main' = "joinMgmt"
      /\ UNCHANGED <<contextClosed, logged>>
  BY DEF StopLogger, MainGoto, stop, record
<1>2. Phase = "stopping" /\ Phase' = "stopped"
  BY <1>1 DEF SInv, StopFirst, Phase
<1>3. \A r \in Intentional : PlaceOf(r) = "answered" => r \in InSeq(logged)
  <2>1. ASSUME NEW r \in Intentional, PlaceOf(r) = "answered" PROVE r \in InSeq(logged)
    <3>1. r \in answered
      BY <2>1 DEF PlaceOf
    <3>2. \A w \in Workers : pc[w] = "finished"
      BY <1>1 DEF SInv, WorkersJoined
    <3>. QED BY <3>1, <3>2 DEF SInv, RepliedIsLogged
  <2>. QED BY <2>1
<1>4. SamePlaces
  BY ElsewhereSame DEF SInv, Elsewhere
<1>5. [q \in Requests |-> PlaceOf(q)]' = [q \in Requests |-> PlaceOf(q)]
  BY <1>4 DEF SamePlaces
<1>6. Service!InSeq(logged) = InSeq(logged)
  BY DEF Service!InSeq, InSeq
<1>7. \A r \in Intentional : r \in Requests
  BY RequestsAssumption
<1>. QED BY <1>1, <1>2, <1>3, <1>5, <1>6, <1>7 DEF Service!Finish

LEMMA ElsewhereImplements ==
  ASSUME SInv, Elsewhere PROVE [Service!Next]_(Service!vars)
<1>1. SamePlaces
  BY ElsewhereSame DEF SInv
<1>2. [q \in Requests |-> PlaceOf(q)]' = [q \in Requests |-> PlaceOf(q)]
  BY <1>1 DEF SamePlaces
<1>3. UNCHANGED logged
  BY DEF Elsewhere, Crash, StartWorkers, Poll, JoinWorkers, StopLogger, Exit, CloseReturns,
         RequestStop, serverVars, record
<1>4. CASE StopLogger
  BY <1>4, StopLoggerImplements DEF Service!Next
<1>5. CASE RequestStop
  <2>1. UNCHANGED main /\ contextClosed'
    BY <1>5 DEF RequestStop, broker
  <2>2. CASE Phase = "serving"
    <3>1. Phase' = "stopping"
      BY <2>1, <2>2 DEF Phase
    <3>. QED BY <1>2, <1>3, <2>2, <3>1 DEF Service!Stop, Service!Next
  <2>3. CASE Phase # "serving"
    <3>1. Phase' = Phase
      BY <2>1, <2>3 DEF Phase
    <3>. QED BY <1>1, <1>3, <3>1, SameImplements
  <2>. QED BY <2>2, <2>3
<1>6. CASE \/ Crash \/ StartWorkers \/ Poll \/ JoinWorkers \/ Exit \/ CloseReturns
           \/ UNCHANGED serverVars
  <2>1. UNCHANGED contextClosed
    BY <1>6 DEF Crash, StartWorkers, Poll, JoinWorkers, Exit, CloseReturns, serverVars, stop
  <2>2. main' \in {"joinMgmt", "exited"} <=> main \in {"joinMgmt", "exited"}
    BY <1>6 DEF Crash, StartWorkers, Poll, JoinWorkers, Exit, CloseReturns, MainGoto, serverVars,
                broker
  <2>3. Phase' = Phase
    BY <2>1, <2>2 DEF Phase
  <2>. QED BY <1>1, <1>3, <2>3, SameImplements
<1>. QED BY <1>4, <1>5, <1>6 DEF Elsewhere

\* A server with any number of workers and requests behaves like the service: each
\* request is decided once, answered and logged at most once, lost only after a stop,
\* and logged, if it asks for it, before the logger is stopped.
THEOREM ServerImplementsRequestService == Spec => ImplementsRequestService
<1>1. Init => Service!Init
  <2>. SUFFICES ASSUME Init PROVE Service!Init
    OBVIOUS
  <2>1. [r \in Requests |-> PlaceOf(r)] = [r \in Requests |-> "unsent"]
    BY DEF Init, PlaceOf
  <2>2. logged = <<>> /\ Phase = "serving"
    BY DEF Init, Phase
  <2>. QED BY <2>1, <2>2 DEF Service!Init
<1>2. SInv /\ SInv' /\ NextStep => [Service!Next]_(Service!vars)
  <2>. SUFFICES ASSUME SInv, SInv', NextStep PROVE [Service!Next]_(Service!vars)
    OBVIOUS
  <2>1. ASSUME NEW r \in Requests, SendRequest(r) PROVE Service!Ask(r)
    <3>1. UNCHANGED <<logged, main, contextClosed>>
      BY <2>1 DEF SendRequest, record, broker, stop
    <3>2. Phase' = Phase
      BY <3>1 DEF Phase
    <3>. QED BY <2>1, <3>1, <3>2, SendRequestMoved, MovedImplements DEF SInv, Service!Ask
  <2>2. ASSUME NEW w \in Workers, OwnSteps(w) PROVE [Service!Next]_(Service!vars)
    BY <2>2, OwnStepImplements, LogRequestImplements DEF Service!Next
  <2>. QED
    BY <2>1, <2>2, ElsewhereImplements, BrokerImplements, StepKinds DEF Service!Next
<1>. QED
  BY <1>1, <1>2, InitSInv, SInvNext, Typed, TInvSteps, PTL DEF Spec, ImplementsRequestService, Service!Spec
=============================================================================
