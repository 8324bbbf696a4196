# SafeKiddo backend: a verification project

SafeKiddo is a parental control service. A plugin of an ICAP server asks `httpd`
over HTTP whether a child may open an url; `httpd` asks `backend` over ZeroMQ;
`backend` decides with the configuration of the child (PostgreSQL), a
categorisation of the url (a closed webroot library, corrected by a table of
overrides) and the time of the day, answers, and logs the request to a second
database. All of it is C++ with many threads and hand-written condition variables.

This directory has TLA+ models of the parts that carry the concurrency and the
decisions, TLC runs on small instances, and TLAPS proofs for all instances.
`PROJECT.json` lists components, runs, theorems, hazards, and the source lines of
each definition. Paths below are relative to `src/` of the repository.

To check a run: `tlc -config <run>.cfg <module>.tla`; a proof: `tlapm <module>.tla`.

## 1. The system

```
 browser -> ICAP plugin --HTTP--> httpd --zmq--> backend --> configuration db
                                  |                 |  \---> webroot library
                     admission control      request logger --> logs db
                     socket pool            overrides thread <-- configuration db
                     server status          statistics, management fifo
```

| Component | Where | State | Operations | What makes it hard |
|---|---|---|---|---|
| ICAP plugin | `icap/plugin` | cache of connections to `httpd` with their expiry, one session with the web API | `wsRequest` of each thread of c-icap | two time-outs that must agree across processes, late answers, a peer that restarts |
| socket pool and backend query | `modules/httpd/httpd.cc` | list of idle REQ sockets, their number, one condition variable | `getSocket`, `returnSocket`, `destroySocket`, `backendQuery` | notification only when the list was empty; time-outs destroy sockets without notifying; zmq slots are freed late |
| admission control | `modules/httpd/admissionControlContainer.cpp` | attempts per address, settings per address | `getAccess`, penalty, periodic clearing, reload | three threads of control, two mutexes, limits read before the count is taken |
| server status | `modules/httpd/serverStatus.cpp` | counter and time of problems | `reportProblem`, `statusOk` | boundaries of one interval |
| backend server | `modules/backend/server.cpp`, `backendMgmt.cpp` | queue of idle workers, zmq context, one thread per worker | load balancing, worker loop, stop | the broker infers idleness from messages; the context may be closed at any moment; order of shutdown |
| access decision | `modules/backend/server.cpp`, `modules/backendLib/dbClient.cpp` | none between requests | a chain of queries and fallbacks | each query may fail and sees the configuration of its own moment |
| url patterns | `modules/backendLib/dbClient.cpp` | none | match, compare, choose the best | the order is partial; the loop relies on it being total where used |
| overrides provider | `modules/backendLib/webrootOverrides.cpp` | map, flags `ready`, `forceUpdateRequired`, `stopped` | update loop, reload command, stop | commands during an update, failing queries, reconnection |
| overrides script | `scripts/webrootOverridesScript/webrootOverridesScript.py` | rows of the table, one command per session | add, delete, update | what a session has shown is out of date when it writes |
| request logger | `modules/backendLib/requestLogger.cpp`, `include/utils/queue.h` | shared queue, private buffer, batch, pool of connections with overlapping transactions | `putRequest`, logger thread, `stop` | failures with two transactions in flight, stop at any moment |
| database connection | `modules/backendLib/dbClient.cpp` | connection, prepared statements | query with reconnection | retries without bound |
| logging device | `modules/utils/loggingDevice.cpp` | log entries, two mutexes, the stream | log, flush, reopen, stop, and `ASSERT` | entries in the hands of several threads; an assertion that flushes while the flush mutex is held |
| statistics | `modules/stats`, `hitBySourceStatisticsSender.cpp` | counters | send, print | shutdown |

They interact by messages (ICAP, HTTP, zmq), by calls (worker to logger,
overrides and statistics) and by the management fifo, whose commands reach the
server (`stop`), the overrides (`reloadOverrides`), admission control (reload of
its settings) and the logs.

What makes each component correct is stated as its properties in section 3. The
components that are not modelled, with the reasons, are in section 7.

## 2. Modules

| Module | Models | Checked by | Proved in |
|---|---|---|---|
| `IcapPlugin` | threads of the plugin, `TcpCache`, `httpd`'s connections, time | itself | `IcapPluginProofs` |
| `SocketPool` | pool, query, time-outs, zmq context and proxy, a backend that dies and restarts | `MCSocketPool` | `SocketPoolProofs` |
| `AdmissionControl` | `getAccess`, penalty, clearing, reload | `MCAdmissionControl` | `AdmissionControlProofs` |
| `BackendServer` | broker, workers, stop, shutdown | `MCBackendServer` | `BackendServerProofs` |
| `RequestService` | what the backend promises for each request (abstract) | by refinement | `BackendServerProofs` |
| `AccessDecision` | one worker's decision while parents change the configuration | `MCAccessDecision` | `AccessDecisionProofs` |
| `UrlPatterns` | patterns and their comparison; extended by the next one and `AccessDecision` | with both | `AccessDecisionProofs` |
| `UrlPatternSelection` | the loop that keeps the best match | `MCUrlPatternSelection` | `AccessDecisionProofs` |
| `WebrootOverrides` | update thread, its database connection, its callers | with the next ones | `WebrootOverridesProofs` |
| `WebrootOverridesScript` | operators' sessions of the script | with the next one | `WebrootOverridesProofs` |
| `WebrootOverridesSystem` | the two above, through the table they share | `MCWebrootOverrides` | `WebrootOverridesProofs` |
| `RequestLog` | what the logger promises (abstract) | by refinement | `RequestLoggerProofs` |
| `RequestLogger` | container, logger thread, connections, logs database | `MCRequestLogger` | `RequestLoggerProofs` |
| `LoggingDevice` | log lists, flush thread, flush, reopen, stop, `ASSERT`, disk | itself | `LoggingDeviceProofs` |

Conventions. One action is one critical section or one step between two calls
that another thread can see; actions and variables have the names of the
functions and members they stand for. A thread in a condition wait is in a state
"waiting", a notified or spuriously woken one that has not got the mutex yet in
"woken", so that a third thread can come in between. Names such as
`Sleep_DropRequest` stand before the definition they vary: `PROJECT.json` pairs
each property with such a plausible mistake, which must break it. Where a type
invariant is not in the list of a run, it is a theorem.

## 3. What each module says

### IcapPlugin

`WsRequest(t)` takes the first cached connection that has not expired
(`TakeCached`) or finds none (`Miss`); `WriteRequest`, `ReadResponse` and their
failures are `writeWsRequest()` and `readWsResponse()`, which takes the first
`Result` in whatever has arrived; `Add` is `TcpCache::add()`. `httpd` answers with or without a
result (503), closes connections that are idle for `clientTimeout`, stops and
starts. Time is a clock that `Tick` advances unless a thread with a connection in
hand has been held up for `MaxDelay` ticks; ages replace points in time, so that
nothing is unbounded. The plugin compares `validTill` with the wall clock
(`descriptor.cc:27`): a clock that is set back lengthens the life of entries and is
not modelled.

`AnswersMatchRequests`: a verdict is about the url the thread asked for, though
connections pass between threads. It holds because every failure, a time-out
included, drops the connection; nothing in the protocol numbers the answers.
`OneUser`, `ConnectionsBounded` (the cache has no limit of its own),
`DeadConnectionsLeave`. `NeverTimedOut`: `httpd` never closes, for idleness, a
connection that is being used. The comment at `srv_safekiddo.cc:88` asks for a
lifetime "lower than clientTimeout"; the property needs it lower by twice the time
a thread may be held up between `httpd`'s last byte and `add()`, and between
`connect()` and the write, because the two clocks do not start together
(`LifetimeAssumption`). `icap_all` has two threads, three connections and a
lifetime of three ticks against a time-out of five: an entry can expire, be
renewed, and be taken at its last moment.

### SocketPool

Each of the `Threads` serves one HTTP connection. `TakePooled`, `CreateSocket`,
`GiveUp`, `StartWaiting`, `WaitAgain` and `TakeAfterWait` are the paths through
`getSocket()`; `Send`, `Receive`, `Timeout` are `backendQuery()`; `ReturnSocket`
is `returnSocket()`; `destroySocket()` is two actions, `DestroySocket` under the
mutex and `CloseSocket` after it. `ProxyForward` and `Reap` are the zmq proxy of
`main()` and the context, whose slots are `Sockets`.

`OneOwner`, `SocketsAccounted` (the assertion of the destructor at any time),
`AnswersMatchQueries` (a late answer reaches nobody else's query), `NoLostWakeup`
(although `returnSocket()` notifies only when the list was empty), `PoolProgress`
and `LostSocketsReclaimed` are checked by `socketpool_all` with four threads and a
pool and a context of two: fewer threads could not have one waiting, one woken
and one sneaking in while a socket comes back.
`socketpool_stranded` refutes `SocketsAvailableAgain`: see section 6.

### AdmissionControl

The two mutexes of the container make two actions of `getAccess()`: `ReadSettings`
and `CountAttempt`, between which a reload (`SwapSettings`, `ClearAfterReload`) or
the period (`PeriodEnds`) may come. `AnswerUnknownUser` and `AddPenalty` are what
the caller in `httpd.cc` does afterwards. The history variables `admitted`,
`guesses` and `inForce` count since the last clearing.
`AdmittedWithinLimit`: between two clearings an address is let through only as
often as a limit in force at some time meanwhile allows. `GuessesWithinLimit` bounds the
answers "unknown user" with the penalty and the requests under way.
The backend never gives that answer at present (section 6), so the latter is about
`httpd`'s half of the protocol.
`admission_safety` has two threads, two addresses and three settings files; counts are
bounded by `MaxCount` = 6, above the largest limit (4) and the penalty (2).

### BackendServer

`main` follows `Server::run()` and `loadBalancing()`, `pc[w]` follows
`workerFunction()`, `mgmt` the management thread that executes `stop`. zmq is a
queue per direction and worker. Closing the context makes every later call of a
thread end by `ETERM` (`WorkerTerminated`, `LoopTerminated`), except for the
creation of a socket, which throws outside of any handler (`CannotBind`,
`CannotCreateSocket`).

Each worker has a `connection` to the configuration database, which is up, down or
slow (it accepts connections but no query ends in time). The queries of a decision
are one step, `SendResponse`, guarded by `QueriesEnd`: they have results, or are
given up because the database cannot be reached again (`dbClient.cpp:311-323`). Until
then `QueryFails` reopens the connection, without a limit (`354-374`), and
`PrepareStatements` registers its statements; a connection that breaks in between
aborts the whole process (`CannotPrepareStatements`, `dbClient.cpp:192`), at the
start of a worker and during a stop alike.

`QueueIsIdleWorkers` (the broker's queue is the idle workers, each once, and never
empty when it takes a request), `ServedOnce`, `AnswersLogged` (each response a
client can have got is logged when the logger has been stopped),
`ImplementsRequestService` (seen from outside there are only requests, each in one
place: asked, decided, answered or lost, and a log; the broker, the workers and the
order of the shutdown are steps of that or none; a request logged twice, decided
twice, lost before the stop or logged after it would be no step),
`EveryRequestAnswered` and `StopEndsProcess` are checked by `backendserver_all`.
The last two hold if the database ends up reachable and answering, or down
(`Settles`): otherwise a worker may repeat a query for ever, its request is not
answered and `join_all()` waits for it. A stop ends in an orderly way unless the
process aborts, and `CrashHasCause` names what can abort it: a socket created after
the context was closed, a worker that cannot connect at its start, a connection that
breaks while its statements are registered. Aborts for broken data (a
`lexical_cast` on a column that is no number) are not modelled.

The run has two workers and two requests, one of which is logged. With less than
two workers the broker's queue has no order and no request overtakes another; with
two requests one waits while no worker is idle (both still starting, or one in a
long query), or both go to the same worker one after the other. Both workers can
be in different states of their connections when it breaks. Deadlock is checked:
the only end is `Ended`.

### UrlPatterns, UrlPatternSelection

A host is the sequence of its labels, a path of its characters: "ends with the
pattern, at a dot" is a suffix of labels. That the loop finds the most specific
match in any order (`BestIsMostSpecific`), and that the assertions of
`isMoreSpecificThan()` never fail (`OnlyComparableCompared`), is checked by `urlpatterns_all` for all
profiles of up to four of nine patterns and proved for all. Deadlock is not
checked: the loop ends.

### AccessDecision

Nine steps follow the worker from `Child::create()` to the code; each query may
fail, and `ChangeConfig` may come between any two. `Verdict` is the declarative
reading of one configuration for a known user. When nothing changes the steps
compute it (`DecidesVerdict`; what an unknown user should get is open, section 6),
and a block always names its profile and a blocked group (`BlockNamesItsReason`).

`get_child` returns the id of the default profile too, and the worker keeps it for
the queries that follow (`dbClient.cpp:473`, `server.cpp:215`): `child` holds it, and
`FetchProfile`, `FetchUrlDecisions` and `FetchCategoryGroupDecisions` read that
profile, though the child may have another one by then or the profile may be
gone. So a block need never have been in force for the child: the child is fetched
with profile A, gets profile B, and A is edited to block before its lists are read.
`RestrictionHasSource` is what remains when parents change the configuration or
queries fail: times forbade when they were read and grants allowed nothing later
on, and a url or category is blocked by a profile that the child had before, as
that profile was then or later. No failure blocks.
`decision_safety` starts from every combination of status, schedule, grants and
decisions on urls and groups, and lets parents change between a few of them
(`SomeConfigs`: times, the lists of the profile, the profile of the child with its
former one edited, kept or deleted), at most twice in a decision: the case above
needs two changes, and two make any three queries disagree.
`decision_times` is a finding, section 6. The time of the
day is one value; schedules lie before or around it, or cover the whole day. Two
comparisons of the statements are modelled as they are and judged by no property:
a schedule that ends after midnight matches never (`dbClient.cpp:142`), and a
temporary grant is compared with its end only, so that one that starts in the
future is in force at once (`dbClient.cpp:622`).

### WebrootOverrides, WebrootOverridesScript, WebrootOverridesSystem

`table` is a version number that writers increase; the thread copies it. Its
database connection has the steps of `queryPrepared()`: the query
(`"fetching"`), the socket time-out and the loss of the connection, the
reconnection, the statements that are registered again, the repetition.
`waitUntilReady()`, `forceUpdateMap()` and the destructor are the actions of the
callers. `WebrootOverridesScript` has the operators: an address is a sequence of
prefixes and a site, so that `NormalizeUrl` does what one pass over "http://",
"https://" and "www." does; a session shows what it has read, waits for the operator and
writes later.

`WebrootOverridesSystem` puts the two together: each commit of a session that
changes a row is a new version of the table, and the maps have contents. A row is
stored under the first LCP of its address (`KeyOf`); rows that the parser refuses
are skipped (`Accepted`), and of rows with the same key only the first one of the
query is kept, in an order that nothing determines (`MapsOf`,
`webrootOverrides.cpp:206-229`; the second row raises an `ALERT`). `Applied` is
`findCategorization()`: the LCPs of a url are looked up, the most specific first. The
parser is webroot's; it is the constant `LcpsOf`, of which only `LcpsAssumption` is
assumed: no LCP twice for an url. That the MD5 of two LCPs is never the same is
taken for granted.

`ReloadNotLost`: a command that comes during an update leads to another one.
`OverridesCatchUp`: also after a failed query, thanks to the periodic update.
`ServerStartsAndStops`: with the database up or down for good the server gets to
serve, or dies, and stops; with one that keeps accepting connections on which
queries time out neither is promised, since the repetition has no limit
(`Settles`). `AddOverwritesNothing`: an add never changes a row of another
operator, because of the unique key alone. `LastingOverridesApplied` spans both
programs: when the rows for a url (`Claims`: accepted, of one of its LCPs, and none
with a more specific one) change no more, a lookup finds one of them in the end,
and nothing only if there is none (`Obeys`). It does not say which one if two
addresses share a key: the code leaves that open, and an update may change it.
The script's confirmation before a delete promises less: the row deleted after "y"
may be another one than was shown, which `Delete` models and no text excludes.

`overrides_all` has two operators, two categories, three versions, one reload
command, and three addresses: a site, the same with "/" at its end, another
row that the parser gives the same key here, and one that the parser refuses; what is typed with two schemes is refused by the
script. Lookups are for a page of the site, whose own LCP has no row. `MCNext`
bounds the sum of table changes, reload commands and commands in progress by
`MaxActivity` = 2: two rows, or one added and deleted, or a change and a command, or two sessions that add
the same address, against any behaviour of the thread, the callers and the
database. The bound only keeps operators from beginning something.

### RequestLogger, RequestLog

Requests are numbered in the order of `logRequest()`. The container and the
thread are modelled with all its local state; two connections with their
transactions, what the server knows (`session`, `tx`), outages (`Outage`, `cut`)
and transactions whose client is gone and which may still be committed
(`orphans`). `RequestLog` is the promise: a request is pending until it is logged
once, in order within its group, or given up; `ImplementsRequestLog` is the
refinement. `requestlogger_all` checks it together with
`SentInOrder`, `CalmStopCommitsAll` (what `stop()` promises, as long as
the database works), `StopTerminates` and `EventuallyResolved` with four
requests, the last one malformed, a queue of three, batches of two and two batches
per transaction: enough to fill the queue while a transaction is open, to leave a
rest in the logger's own buffer at a stop or a failure, and to overlap two
transactions. Deadlock is not checked: the thread ends.

### LoggingDevice

`OutputLog` appends under `logMutex`; `Swap` takes the list, `AcquireFlushMutex`
passes from one mutex to the other, `Write` writes and frees, in
`flushLogEntries()`, which the flush thread, a `flushLogs` command and a failed
`ASSERT` run. `CloseLogFile` and `OpenLogFile` are `reopen()`; `Stop` and `Join`
the end. The stream has an open file or not and a bad bit; a full disk takes a
part of what is written and loses the rest.

`WrittenInOrder`, `NothingVanishes`, `FlushWritesEarlier` (what another thread is
still writing when `flush()` finds an empty list is written before it returns),
`StopWritesAll` (the assertion of `stop()`), `EventuallyWritten` and `CallsReturn`
are checked by `logging_all` with a worker, the management thread and the flush
thread, two entries besides those of failing assertions: one thread can write,
the second hold the next list and the third log. `logging_reopen` is a finding.
What happens to the rotated file is not modelled: until `reopenLog` comes, entries
go to the file under its new name.

## 4. Fairness

Threads that can run are scheduled (weak fairness of their steps); the proxy
forwards and a running backend takes requests (in `SocketPool` it need not answer:
the time-out covers that); the logs database ends
each transaction it has got. `Reap` has strong fairness, since it is part of every
read of the router, which is disabled again and again while the dealer is full.
In `LoggingDevice` a thread that wants a mutex gets it in the end although others
take it again and again: strong fairness of the flush thread and of calls that
have begun. In `IcapPlugin` a request that has begun goes on, since connecting,
writing and reading have time-outs, and no request has to begin.
The queries of a worker need not end: `BackendServer` and `WebrootOverrides` assume
nothing about the database.
Nothing makes a client send, a stopped backend or `httpd` restart, a database recover, an
operator act, a disk be emptied, or a thread wake up without notification; where a
property needs one of them it says so (`<>[]backendUp`, `<>[]reachable`, `<>[]up`,
`<>[](db = "up")`, `Settles`).

## 5. What is proved

Theorems hold for all values of the constants under the named assumptions of the
modules (finite sets of threads and slots, positive limits, well-formed settings
and profiles). Every invariant and every action property of the passing runs is
stated by one of them, and so are the refinements. TLC has checked each
inductive invariant below on the instance of the run before it was proved.

* `SocketPoolProofs`: `PoolTypeOK`, `PoolOneOwner`, `PoolSocketsAccounted` from one
  inductive invariant. Ownership alone is not inductive: taking a socket needs
  that the list has no duplicates, creating one that a free slot is neither in
  the list nor with a thread, and the count that the sockets in the list and with
  threads are disjoint. `PoolNoLostWakeup` is an invariant on top of it: its heart is that the wake-up
  is passed on exactly when more than one socket is in the list.
  `PoolAnswersMatchQueries` needs a third one (`MInv`): the message of a query is in
  one place of the network, so that one receive leaves nothing behind
  (`AskedOnce`), what can still be routed belongs to a thread that is in its query
  (`OutstandingAsked`), and a socket in the list has nothing outstanding
  (`CleanSockets`).
* `AdmissionControlProofs`: `AdmissionTypeOK`, `AdmissionWithinLimit`. `HeldInForce`
  strengthens it: what a thread has read, or would read now, is in `inForce`, and
  the count of an address is never below the number of requests let through.
  `AdmissionGuessesWithinLimit`: the penalty comes after the answer, so that the
  count lags behind by one penalty for each thread between the two.
* `BackendServerProofs`: `ServerTypeOK`, `ServerClientFindsWorker`,
  `ServerAnswersLogged`, `ServerCrashHasCause`, `ServerQueueIsIdleWorkers`. The
  last one needs what is on its way on each of the two queues of a worker, for
  each of its states. `ServerServedOnce` speaks of numbers of copies; the invariant
  below it (`PInv`) of sets: no request is twice in a queue (`EachOnce`), the places
  are disjoint (`OnePlace`), and with an open context they cover what was sent
  (`NoneLost`). Lemmas say what each step moves (`...Moves`); the
  counting is done once, at the end. `ServerImplementsRequestService` uses them again:
  each step moves one request from one place of `RequestService` to another, or none
  (`Moved`). That nothing is logged twice needs `LogInv`: what is logged, or about to be, has
  been decided and is about to be logged by one worker only.
* `AccessDecisionProofs`: `SelectionBest`, `SelectionComparable`, `SelectionResult`
  about the loop. They rest on lemmas that two suffixes (prefixes) of one
  sequence are comparable, from which `IsMoreSpecificThan` is a strict total order
  of the patterns that match one url. `DecisionTypeOK`, `DecisionRestrictionHasSource`,
  `DecisionDecidesVerdict`, `DecisionBlockNamesItsReason` about the chain of
  queries, for any configurations the tables can hold. The invariant says for each
  step what the local variables owe to the configurations seen so far
  (`Reliable`), and what they are when all of them were one and no query failed
  (`Answered`); that the profile's best pattern is unique is what makes the steps
  agree with the declarative `Verdict`.
* `WebrootOverridesProofs`: `OverridesServeLoadedMap`, `OverridesReloadNotLost`,
  `OverridesNeverOlder`, of the provider alone, with any writers of the table.
  Needed besides: what was fetched is not older than the
  map, and a command is either pending or not newer than what was fetched.
  `SystemImplementsProvider`: the provider and the operators together implement the
  provider with its fairness, so that these three hold of the system too
  (`SystemReloadNotLost`). `SystemAddOverwritesNothing` and `SystemReloadApplied` are
  about the system itself: a session with a command has an address the script
  accepted (`SessionInv`), and the last version of the table is its rows
  (`ContentsInv`). The latter says that after a reload command every lookup finds what
  the rows of one moment not before the command say (`Obeys`): the map, and the one
  that will replace it, are made from the rows of their versions (`MapsInv`), and any
  map made from rows obeys them, with whatever keys the parser gives (`MapObeys`).
* `IcapPluginProofs`: `IcapTypeOK`, `IcapAnswersMatchRequests`, `IcapOneUser`,
  `IcapNeverTimedOut`, `IcapConnectionsBounded`. The invariant says what is under
  way on each connection: nothing on a cached one, one request or its answer on
  one that is being read (`Exchange`); and how many ticks `httpd` can have counted
  on it (`Young`), which grows from the answer to `add()`, in the cache, and to
  the next write: the three terms of `LifetimeAssumption`. The number of
  connections is bounded because each of them has a place, a thread or an entry,
  and a new one is made only when the cache is empty (`Places`).
* `LoggingDeviceProofs`: `LoggingTypeOK`, `LoggingWrittenInOrder`,
  `LoggingNothingVanishes`, `LoggingFlushWritesEarlier`, `LoggingStopWritesAll`. The
  first invariant (`TInv`) is about the two mutexes: a thread that has taken the
  list keeps `logMutex` until it has `flushMutex`, so that at most two lists exist
  and the older one is being written. The second (`DInv`) orders file, list being
  written, list taken, and shared list.
* `RequestLoggerProofs`: `LoggerTypeOK`, `LoggerNoLostWakeup`, `LoggerSentInOrder`,
  `LoggerCalmStop`, `LoggerImplementsRequestLog`. `CInv` ties the place of the
  thread to the connections (one in COPY, transactions only where one is under way) and to the buffers
  (the queue is moved only into an empty one, and a stop of the loop leaves both
  empty). `Order` and `Separate` add that everything handed to the database is
  older than everything that was not, and that no two transactions share a
  request: without the second a commit would not remove exactly its rows from what
  is pending, which is what the refinement needs. `NothingFailed` is the invariant of
  calm runs; that the last `waitForCommit()` has seen every connection is a
  counting argument on `drained`.

Only model-checked are the liveness properties (`PoolProgress`,
`LostSocketsReclaimed`, `DeadConnectionsLeave`, `EveryRequestAnswered`,
`StopEndsProcess`, `OverridesCatchUp`, `ServerStartsAndStops`,
`LastingOverridesApplied`, `StopTerminates`, `EventuallyResolved`,
`EventuallyWritten`, `CallsReturn`): they follow from the fairness of actions, and the
prover cannot reason about when an action is enabled.

## 6. Findings

Refuted by a run:

* `socketpool_stranded`: after time-outs have destroyed all sockets, threads in
  `socketAvailable.wait()` are never notified, although "when backend is back
  sockets should be available again" (`httpd.cc:279`).
* `decision_times`: a request of an unknown child is logged with unset times, against the
  assertion at `requestLogger.cpp:481`.
* `logging_reopen`: `reopen()` asserts, under `flushMutex`, that the file was
  opened; the failing assertion flushes the log, waits for `flushMutex` and never
  gets to `abort()`, although "flush() can be called from any thread"
  (`loggingDevice.cpp:219`). Every other thread that flushes hangs with it.

Seen while modelling, without a run of their own:

* `stop()` "waits until all requests are committed" (`requestLogger.h:95`), but
  the thread ends with requests lost when a connection fails after the stop
  (`requestLogger.cpp:276`). `LoggerCalmStop` proves that it keeps its word while
  the database is there.
* An unknown child is answered RES_OK (`server.cpp:490`) where
  `unknownUserTest.py:34`, `admissionControlTest.py:404` and
  `requestLoggerTest.py:254` expect UNKNOWN_USER; the penalty of admission control
  is therefore never applied. `FetchChild` does what the code does, and
  `DecidesVerdict` says nothing about such users.
* A decision may apply a profile that the child no longer has, with edits made
  after the child lost it (`server.cpp:215`), see `RestrictionHasSource`.
* Two addresses that the script takes for different rows can have one key, if the
  parser gives both the same first LCP, and which of their categories then holds is
  not determined (`webrootOverrides.cpp:225`).
* A failed exchange of the plugin allows the request; after a restart of `httpd`
  each dead connection in the cache does so once (`DeadConnectionsLeave` says
  that there is an end to it).

## 7. Not modelled, and the plan

Not modelled for good: the webroot library and its wrapper (closed source), url
normalisation and time zones (pure conversions, covered by tables of unit tests),
parsing and building of HTTP and protobuf messages (input and output), build,
packaging, schema and test programs. Most of the Python in the repository is a
copy of SCons, which is not part of the system.

Left out because there is little to go wrong: `ServerStatus` (one counter under
one mutex), the statistics (growing counters under one mutex each; hits of the
last interval are not printed at the end), the commands that set log levels.

Next, in this order:

1. Composition of `httpd` and `backend`: `SocketPool`'s external backend replaced
   by `BackendServer`, so that a stop and restart of the backend is seen by queries.
2. `ApiConnect`, the plugin's session with the web API, which all threads share.
3. The composition of 1 with `RequestService` in the place of `BackendServer`, which
   the refinement allows, so that proofs about both processes need no threads.
