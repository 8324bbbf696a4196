----------------------------- MODULE RequestLogger -----------------------------
(***************************************************************************)
(* The request logger of the backend (backendLib/requestLogger.cpp):       *)
(* worker threads put log requests into a RequestsContainer, one logger    *)
(* thread copies them to the logs database over two connections, whose     *)
(* transactions overlap: the commit of one is awaited only when its        *)
(* connection is used again.                                               *)
(*                                                                         *)
(* Requests are numbered in the order of logRequest().  A request of       *)
(* Malformed is a row that the database rejects.                           *)
(***************************************************************************)
EXTENDS Naturals, Sequences, FiniteSets

CONSTANTS
  MaxRequests,              \* bound of the model: calls of logRequest()
  Malformed,                \* requests whose row the database rejects
  NumConnections,           \* size of the connection pool
  maxQueueLength,           \* config.requestLoggerMaxQueueLength
  maxRequestsInBatch,
  maxBatchesInTransaction

ASSUME SizesAssumption ==
  /\ MaxRequests \in Nat
  /\ {NumConnections, maxQueueLength, maxRequestsInBatch,
      maxBatchesInTransaction} \subseteq Nat \ {0}
  /\ Malformed \subseteq 1..MaxRequests

VARIABLES
  \* RequestsContainer
  requests,            \* the shared queue, under requestsMutex
  getRequestsBuffer,   \* what the logger thread took out of it
  stopRequested,
  numLogRequests,      \* statistics: calls of putRequest() ...
  numDropped,          \* ... and the requests it knows to be dropped
  \* the logger thread
  pc,
  currentConnectionNum,
  needsCommit,
  copyData,            \* the batch being sent
  firstRequest,        \* no getRequests() yet in this transaction
  batchNum,
  shouldStop,
  drained,             \* connections already waited for at the end
  \* the logs database
  session,             \* state of each connection as the server sees it
  tx,                  \* rows of the transaction open on each connection
  cut,                 \* connections that no longer reach the server
  reachable,           \* whether new connections can be made
  orphans,             \* transactions ended by a client that then gave up
  \* what became of the requests
  committed, lost, dropped,
  \* history: whether there was an outage
  disturbed

container == <<requests, getRequestsBuffer, stopRequested, numLogRequests, numDropped>>
thread    == <<currentConnectionNum, needsCommit, copyData, firstRequest, batchNum,
               shouldStop, drained>>
server    == <<session, tx, cut, reachable, orphans, committed, lost, disturbed>>
vars      == <<container, pc, thread, server, dropped>>

-----------------------------------------------------------------------------
Connections == 0..NumConnections - 1

ThreadStates ==
  {"connecting", "useConnection", "startCopy", "getRequests", "waiting", "woken",
   "sleeping", "sendBatch", "endCopy", "awaitCommits", "dbFailure", "finished"}

\* "copying": inside COPY; "ended": COPY ended, commit under way; "ok" and
\* "error": the result the client can read.
SessionStates == {"none", "idle", "copying", "ended", "ok", "error"}

InSeq(q) == {q[i] : i \in DOMAIN q}
Rejected(rows) == InSeq(rows) \cap Malformed # {}

Init ==
  /\ requests = <<>> /\ getRequestsBuffer = <<>> /\ stopRequested = FALSE
  /\ numLogRequests = 0 /\ numDropped = 0
  /\ pc = "connecting"
  /\ currentConnectionNum = 0
  /\ needsCommit = [c \in Connections |-> FALSE]
  /\ copyData = <<>> /\ firstRequest = TRUE /\ batchNum = 0
  /\ shouldStop = FALSE /\ drained = {}
  /\ session = [c \in Connections |-> "none"]
  /\ tx = [c \in Connections |-> <<>>]
  /\ cut = {} /\ reachable = TRUE /\ orphans = {}
  /\ committed = <<>> /\ lost = {} /\ dropped = {} /\ disturbed = FALSE

-----------------------------------------------------------------------------
(* RequestsContainer, called by workers and by the server's main thread *)

\* Mutated forms, each named for the mistake, precede what they mutate.
QueueFull == Len(requests) = maxQueueLength

\* notify_one() on requestAvailable: only the logger thread waits there.
Notify == pc' = IF pc = "waiting" THEN "woken" ELSE pc

NotifyIfWasEmpty_WhenNotEmpty ==
  IF requests # <<>> THEN Notify ELSE UNCHANGED pc
NotifyIfWasEmpty ==
  IF requests = <<>> THEN Notify ELSE UNCHANGED pc

Enqueue_AtFront(request) == <<request>> \o requests
Enqueue(request) == Append(requests, request)

\* putRequest()
PutRequest ==
  LET request == numLogRequests + 1
  IN  /\ request <= MaxRequests
      /\ numLogRequests' = request
      /\ IF QueueFull \/ stopRequested
         THEN /\ numDropped' = numDropped + 1
              /\ dropped' = dropped \cup {request}
              /\ UNCHANGED <<requests, pc>>
         ELSE /\ requests' = Enqueue(request)
              /\ NotifyIfWasEmpty
              /\ UNCHANGED <<numDropped, dropped>>
      /\ UNCHANGED <<getRequestsBuffer, stopRequested, thread, server>>

\* requestStop(), called by RequestLogger::stop()
RequestStop ==
  /\ ~stopRequested
  /\ stopRequested' = TRUE
  /\ Notify
  /\ UNCHANGED <<requests, getRequestsBuffer, numLogRequests, numDropped, thread,
                 server, dropped>>

-----------------------------------------------------------------------------
(* loggerThreadFunction() and loggingLoop() *)

Goto(from, to) == pc = from /\ pc' = to

\* createConnectionPool() connects all or fails.
Connect ==
  /\ Goto("connecting", "useConnection")
  /\ reachable
  /\ session' = [c \in Connections |-> "idle"]
  /\ tx' = [c \in Connections |-> <<>>]
  /\ cut' = {}
  /\ currentConnectionNum' = 0
  /\ needsCommit' = [c \in Connections |-> FALSE]
  /\ UNCHANGED <<container, copyData, firstRequest, batchNum, shouldStop, drained,
                 reachable, orphans, committed, lost, disturbed, dropped>>

ConnectFails ==
  /\ Goto("connecting", "dbFailure")
  /\ ~reachable
  /\ UNCHANGED <<container, thread, server, dropped>>

\* The current connection is free, or waitForCommit() reads the result of its
\* last transaction.
UseConnection ==
  LET c == currentConnectionNum
  IN  /\ Goto("useConnection", "startCopy")
      /\ needsCommit[c] => c \notin cut /\ session[c] = "ok"
      /\ UNCHANGED <<container, thread, server, dropped>>

\* execute("copy request_log ... from stdin")
StartCopy ==
  LET c == currentConnectionNum
  IN  /\ Goto("startCopy", "getRequests")
      /\ c \notin cut
      /\ session' = [session EXCEPT ![c] = "copying"]
      /\ firstRequest' = TRUE
      /\ batchNum' = 0
      /\ UNCHANGED <<container, currentConnectionNum, needsCommit, copyData,
                     shouldStop, drained, tx, cut, reachable, orphans, committed,
                     lost, disturbed, dropped>>

\* The batch getRequests() takes out of buffer, and the rest of it.
BatchSize(buffer) ==
  IF Len(buffer) < maxRequestsInBatch THEN Len(buffer) ELSE maxRequestsInBatch
Batch(buffer) == SubSeq(buffer, 1, BatchSize(buffer))
Rest_KeepsBatch(buffer) == buffer
Rest(buffer) == SubSeq(buffer, BatchSize(buffer) + 1, Len(buffer))

\* The logger stops when the first, blocking, getRequests() of a transaction
\* returns nothing.
StopAfter_AnyEmptyBatch(batch) == batch = <<>>
StopAfter(batch) == batch = <<>> /\ firstRequest

\* The end of getRequests(), with the requests it may take from.
Deliver(buffer) ==
  /\ copyData' = Batch(buffer)
  /\ getRequestsBuffer' = Rest(buffer)
  /\ shouldStop' = StopAfter(Batch(buffer))
  /\ pc' = "sendBatch"

\* getRequests() returns at once: the buffer is not empty, or nothing is there
\* and it may not block.
GetBuffered ==
  /\ pc = "getRequests"
  /\ getRequestsBuffer # <<>> \/ (requests = <<>> /\ ~firstRequest)
  /\ Deliver(getRequestsBuffer)
  /\ UNCHANGED <<requests, stopRequested, numLogRequests, numDropped,
                 currentConnectionNum, needsCommit, firstRequest, batchNum, drained,
                 server, dropped>>

\* getRequests() has to look at the shared queue, on entry or after a wake-up.
InMutex == \/ pc = "woken"
           \/ pc = "getRequests" /\ getRequestsBuffer = <<>>
              /\ (requests # <<>> \/ firstRequest)

MustWait == requests = <<>> /\ ~stopRequested

WaitForRequest ==
  /\ InMutex
  /\ MustWait
  /\ pc' = "waiting"
  /\ UNCHANGED <<container, thread, server, dropped>>

SpuriousWakeup ==
  /\ Goto("waiting", "woken")
  /\ UNCHANGED <<container, thread, server, dropped>>

FewRequests == ~stopRequested /\ Len(requests) < maxRequestsInBatch

\* Few requests: release the mutex and sleep for 100 ms.
SleepForMore ==
  /\ InMutex
  /\ ~MustWait
  /\ FewRequests
  /\ pc' = "sleeping"
  /\ UNCHANGED <<container, thread, server, dropped>>

\* moveAllTo() the buffer, then take a batch.
MoveRequests ==
  /\ \/ InMutex /\ ~MustWait /\ ~FewRequests
     \/ pc = "sleeping"
  /\ requests' = <<>>
  /\ Deliver(getRequestsBuffer \o requests)
  /\ UNCHANGED <<stopRequested, numLogRequests, numDropped, currentConnectionNum,
                 needsCommit, firstRequest, batchNum, drained, server, dropped>>

\* Another batch follows a full one, up to the limit of the transaction.
MoreBatches(sent) ==
  sent < maxBatchesInTransaction /\ Len(copyData) = maxRequestsInBatch

\* PQputCopyData(), unless the batch is empty.
SendBatch ==
  LET c    == currentConnectionNum
      sent == IF copyData = <<>> THEN batchNum ELSE batchNum + 1
  IN  /\ pc = "sendBatch"
      /\ copyData # <<>> => c \notin cut
      /\ tx' = [tx EXCEPT ![c] = @ \o copyData]
      /\ copyData' = <<>>
      /\ batchNum' = sent
      /\ firstRequest' = FALSE
      /\ pc' = IF MoreBatches(sent) THEN "getRequests" ELSE "endCopy"
      /\ UNCHANGED <<container, currentConnectionNum, needsCommit, shouldStop, drained,
                     session, cut, reachable, orphans, committed, lost, disturbed,
                     dropped>>

\* PQputCopyEnd()
EndCopy ==
  LET c == currentConnectionNum
  IN  /\ Goto("endCopy", IF shouldStop THEN "awaitCommits" ELSE "useConnection")
      /\ c \notin cut
      /\ session' = [session EXCEPT ![c] = "ended"]
      /\ needsCommit' = [needsCommit EXCEPT ![c] = TRUE]
      /\ currentConnectionNum' = (c + 1) % NumConnections
      /\ UNCHANGED <<container, copyData, firstRequest, batchNum, shouldStop, drained,
                     tx, cut, reachable, orphans, committed, lost, disturbed, dropped>>

\* After the loop: waitForCommit() for each connection in turn.
NextToDrain == Cardinality(drained)

AwaitCommit ==
  /\ pc = "awaitCommits"
  /\ NextToDrain \in Connections
  /\ needsCommit[NextToDrain] => NextToDrain \notin cut /\ session[NextToDrain] = "ok"
  /\ drained' = drained \cup {NextToDrain}
  /\ UNCHANGED <<container, pc, currentConnectionNum, needsCommit, copyData,
                 firstRequest, batchNum, shouldStop, server, dropped>>

-----------------------------------------------------------------------------
(* Failures and the end of the thread *)

\* The connection pool is destroyed: the server rolls back what is still being
\* copied and goes on with the transactions that were ended.
ClosePool(unsent) ==
  /\ orphans' = orphans \cup {tx[c] : c \in {d \in Connections : session[d] = "ended"}}
  /\ lost' = lost \cup unsent
               \cup UNION {InSeq(tx[c]) : c \in {d \in Connections : session[d] = "copying"}}
  /\ session' = [c \in Connections |-> "none"]
  /\ tx' = [c \in Connections |-> <<>>]
  /\ cut' = {}
  /\ copyData' = <<>>
  /\ UNCHANGED <<reachable, committed, disturbed>>

\* The result of connection c's transaction is an error, or does not come within
\* the socket timeout.
CommitFails(c) == needsCommit[c] /\ (c \in cut \/ session[c] = "error")

\* loggingLoop() returns DB_FAILURE.
DbFailure ==
  /\ \/ pc = "useConnection" /\ CommitFails(currentConnectionNum)
     \/ pc \in {"startCopy", "endCopy"} /\ currentConnectionNum \in cut
     \/ pc = "sendBatch" /\ copyData # <<>> /\ currentConnectionNum \in cut
  /\ pc' = "dbFailure"
  /\ ClosePool(InSeq(copyData))
  /\ UNCHANGED <<container, currentConnectionNum, needsCommit, firstRequest, batchNum,
                 shouldStop, drained, dropped>>

\* loggingLoop() returns STOP_REQUESTED: all commits seen, or one failed.
Finish ==
  /\ Goto("awaitCommits", "finished")
  /\ NextToDrain \in Connections => CommitFails(NextToDrain)
  /\ ClosePool({})
  /\ UNCHANGED <<container, currentConnectionNum, needsCommit, firstRequest, batchNum,
                 shouldStop, drained, dropped>>

DropAllRequests_OnlyShared ==
  /\ dropped' = dropped \cup InSeq(requests)
  /\ numDropped' = numDropped + Len(requests)
  /\ requests' = <<>>
  /\ UNCHANGED getRequestsBuffer

\* dropAllRequests()
DropAllRequests ==
  /\ dropped' = dropped \cup InSeq(requests) \cup InSeq(getRequestsBuffer)
  /\ numDropped' = numDropped + Len(requests) + Len(getRequestsBuffer)
  /\ requests' = <<>>
  /\ getRequestsBuffer' = <<>>

\* After a failure the thread ends if a stop was requested: nothing can be put
\* any more, so that the containers stay empty.
StopWithoutDb == stopRequested

StopAfterFailure ==
  /\ Goto("dbFailure", "finished")
  /\ StopWithoutDb
  /\ DropAllRequests
  /\ UNCHANGED <<stopRequested, numLogRequests, thread, server>>

Reconnect ==
  /\ Goto("dbFailure", "connecting")
  /\ ~StopWithoutDb
  /\ UNCHANGED <<container, thread, server, dropped>>

-----------------------------------------------------------------------------
(* The logs database *)

\* The server commits an ended transaction, unless it rejects a row or is the
\* reason why the connection was cut.
ServerEnds(c) ==
  /\ session[c] = "ended"
  /\ \/ /\ ~Rejected(tx[c])
        /\ session' = [session EXCEPT ![c] = "ok"]
        /\ committed' = committed \o tx[c]
        /\ UNCHANGED lost
     \/ /\ Rejected(tx[c]) \/ c \in cut
        /\ session' = [session EXCEPT ![c] = "error"]
        /\ lost' = lost \cup InSeq(tx[c])
        /\ UNCHANGED committed
  /\ tx' = [tx EXCEPT ![c] = <<>>]
  /\ UNCHANGED <<container, pc, thread, cut, reachable, orphans, disturbed, dropped>>

\* A transaction whose client is gone is committed or rolled back.
OrphanEnds(rows) ==
  /\ orphans' = orphans \ {rows}
  /\ \/ /\ ~Rejected(rows)
        /\ committed' = committed \o rows
        /\ UNCHANGED lost
     \/ /\ lost' = lost \cup InSeq(rows)
        /\ UNCHANGED committed
  /\ UNCHANGED <<container, pc, thread, session, tx, cut, reachable, disturbed, dropped>>

\* The network or the server fails: some connections are cut ...
Outage ==
  /\ reachable
  /\ reachable' = FALSE
  /\ disturbed' = TRUE
  /\ \E broken \in SUBSET {c \in Connections : session[c] # "none"} :
       cut' = cut \cup broken
  /\ UNCHANGED <<container, pc, thread, session, tx, orphans, committed, lost, dropped>>

\* ... and later new ones can be made.
OutageEnds ==
  /\ ~reachable
  /\ reachable' = TRUE
  /\ UNCHANGED <<container, pc, thread, session, tx, cut, orphans, committed, lost,
                 disturbed, dropped>>

-----------------------------------------------------------------------------
LoggerThread ==
  \/ Connect \/ ConnectFails \/ UseConnection \/ StartCopy \/ GetBuffered
  \/ WaitForRequest \/ SleepForMore \/ MoveRequests \/ SendBatch \/ EndCopy
  \/ AwaitCommit \/ DbFailure \/ Finish \/ StopAfterFailure \/ Reconnect

Database ==
  \/ \E c \in Connections : ServerEnds(c)
  \/ \E rows \in orphans : OrphanEnds(rows)

Next ==
  \/ LoggerThread \/ Database
  \/ PutRequest \/ RequestStop \/ SpuriousWakeup \/ Outage \/ OutageEnds

Spec == Init /\ [][Next]_vars

\* The logger thread is scheduled and the server finishes what it was told to
\* commit; the calls of the other threads and the outages are not owed.
Fairness ==
  /\ WF_vars(LoggerThread)
  /\ \A c \in Connections : WF_vars(ServerEnds(c))
  /\ WF_vars(\E rows \in orphans : OrphanEnds(rows))

FairSpec == Spec /\ Fairness

-----------------------------------------------------------------------------
(* Properties *)

Submitted == 1..numLogRequests

\* The memory taken by waiting requests is bounded although the logger takes the
\* whole queue at once ("queue length exceeded" in putRequest()).
TypeOK ==
  /\ Len(requests) <= maxQueueLength /\ Len(getRequestsBuffer) <= maxQueueLength
  /\ requests \in Seq(Submitted) /\ getRequestsBuffer \in Seq(Submitted)
  /\ stopRequested \in BOOLEAN
  /\ numLogRequests \in 0..MaxRequests /\ numDropped \in 0..MaxRequests
  /\ pc \in ThreadStates
  /\ currentConnectionNum \in Connections
  /\ needsCommit \in [Connections -> BOOLEAN]
  /\ copyData \in Seq(Submitted) /\ firstRequest \in BOOLEAN
  /\ batchNum \in 0..maxBatchesInTransaction
  /\ shouldStop \in BOOLEAN /\ drained \subseteq Connections
  /\ session \in [Connections -> SessionStates]
  /\ tx \in [Connections -> Seq(Submitted)]
  /\ cut \subseteq Connections /\ reachable \in BOOLEAN
  /\ orphans \subseteq Seq(Submitted)
  /\ committed \in Seq(Submitted)
  /\ lost \subseteq Submitted /\ dropped \subseteq Submitted /\ disturbed \in BOOLEAN

\* What the database or a dying transaction may still hold.
InTransactions == UNION {InSeq(tx[c]) : c \in Connections}
InOrphans      == UNION {InSeq(rows) : rows \in orphans}

\* The requests that are neither logged nor given up.
Pending == InSeq(requests) \cup InSeq(getRequestsBuffer) \cup InSeq(copyData)
             \cup InTransactions \cup InOrphans

\* The logger, seen from outside.
Log == INSTANCE RequestLog
         WITH submitted <- numLogRequests, pending <- Pending, logged <- committed,
              givenUp <- lost \cup dropped

\* With all its buffers, overlapping transactions and failures the logger does
\* what RequestLog promises: nothing is logged twice, or partly, or after it was
\* given up.
ImplementsRequestLog == Log!Spec

Increasing(q) == \A i, j \in DOMAIN q : i < j => q[i] < q[j]

\* What was not yet handed to the database, in the order it will be.
Unsent == copyData \o getRequestsBuffer \o requests

\* Requests reach the database in the order they were put, through two buffers
\* and batches: only the two transactions under way can overtake each other.
SentInOrder ==
  /\ Increasing(Unsent)
  /\ \A c \in Connections : Increasing(tx[c])
  /\ \A r \in InTransactions \cup InOrphans \cup InSeq(committed) \cup lost :
       \A u \in InSeq(Unsent) : r < u

\* The logger thread never sleeps on requestAvailable with work to do: neither a
\* queue that is not empty nor a requested stop.
NoLostWakeup == pc = "waiting" => requests = <<>> /\ ~stopRequested

\* stop() "waits until all requests are committed" (requestLogger.h) ...
StopCommitsAll ==
  pc = "finished" => Pending = {} /\ lost = {}

\* ... which it does as long as the database is there and rejects no row.
CalmStopCommitsAll ==
  ~disturbed /\ Malformed \cap Submitted = {} => StopCommitsAll

\* RequestLogger::stop() returns whatever the database does: the thread ends, and
\* leaves the containers empty as ~RequestsContainer() asserts.
StopTerminates ==
  stopRequested ~> pc = "finished" /\ requests = <<>> /\ getRequestsBuffer = <<>>

\* Once the database stays reachable no request waits for ever.
EventuallyResolved ==
  <>[]reachable =>
    \A r \in 1..MaxRequests : r \in Submitted ~> r \notin Pending
=============================================================================
