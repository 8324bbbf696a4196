---------------------------- MODULE WebrootOverrides ----------------------------
(***************************************************************************)
(* The WebrootOverridesProvider of the backend: a thread that copies the    *)
(* table webroot_overrides into a map, at fixed times and when the          *)
(* management command reloadOverrides asks for it, while worker threads      *)
(* look URLs up in the map.  Contents of the table are versions, in the      *)
(* order in which the table had them; for a map the version is that of the   *)
(* rows it was made from (WebrootOverridesSystem has what is in it).         *)
(***************************************************************************)
EXTENDS Naturals

CONSTANTS MaxVersion,   \* bound of the model: changes of the table
          MaxReloads    \* bound of the model: reloadOverrides commands

ASSUME BoundsAssumption == MaxVersion \in Nat \ {0} /\ MaxReloads \in Nat

NotLoaded == 0

VARIABLES
  table,                \* version in the configuration database
  db,                   \* "slow": it accepts connections, but no query ends in time
  linked,               \* the thread's connection to it is alive
  pc,                   \* where the update thread is
  fetched,              \* newCategorizationsMap; NotLoaded if the query failed
  categorizationsMap,
  ready, forceUpdateRequired, stopped,
  server,               \* where the main thread is
  reloads,              \* reload commands so far
  wanted                \* version in the table at the last reload command

database == <<table, db, linked>>
updater  == <<pc, fetched, categorizationsMap>>
flags    == <<ready, forceUpdateRequired, stopped>>
callers  == <<server, reloads, wanted>>
vars     == <<database, updater, flags, callers>>

-----------------------------------------------------------------------------
UpdaterState == {"connecting", "preparing", "fetching", "reconnecting", "fetched",
                 "updated", "sleeping", "finished", "aborted"}

\* "loading": not in waitUntilReady() yet; "waiting": in it; "woken": notified,
\* without the mutex yet; "joining": in the destructor.
ServerState == {"loading", "waiting", "woken", "serving", "joining", "done"}

Init ==
  /\ table = 1 /\ db = "up" /\ linked = FALSE
  /\ pc = "connecting" /\ fetched = NotLoaded /\ categorizationsMap = NotLoaded
  /\ ready = FALSE /\ forceUpdateRequired = FALSE /\ stopped = FALSE
  /\ server = "loading" /\ reloads = 0 /\ wanted = NotLoaded

Goto(from, to) == pc = from /\ pc' = to

-----------------------------------------------------------------------------
(* updateLoop() *)

Connect ==
  /\ Goto("connecting", IF db = "down" THEN "aborted" ELSE "preparing")
  /\ linked' = (db # "down")
  /\ UNCHANGED <<table, db, fetched, categorizationsMap, flags, callers>>

\* registerPreparedStatements(), on connecting and on reconnecting: FAILURE when
\* the connection breaks again.
PrepareStatements ==
  /\ Goto("preparing", IF linked THEN "fetching" ELSE "aborted")
  /\ UNCHANGED <<database, fetched, categorizationsMap, flags, callers>>

\* fetchOverrides() sees the table at one moment of its query.
FetchOverrides ==
  /\ pc = "fetching"
  /\ IF linked /\ db = "up"
     THEN pc' = "fetched" /\ fetched' = table
     ELSE pc' = "reconnecting" /\ UNCHANGED fetched
  /\ UNCHANGED <<database, categorizationsMap, flags, callers>>

\* Mutated forms, each named for the mistake, precede what they mutate.

\* shouldRetryAfterFailure(): the query fails only if the database cannot be reached
\* again, and is repeated otherwise, without a limit.
Retries_Never == FALSE
Retries == db # "down"

Reconnect ==
  /\ pc = "reconnecting"
  /\ linked' = Retries
  /\ IF Retries
     THEN pc' = "preparing" /\ UNCHANGED fetched
     ELSE pc' = "fetched" /\ fetched' = NotLoaded
  /\ UNCHANGED <<table, db, categorizationsMap, flags, callers>>

AbortsWithoutMap == fetched = NotLoaded /\ ~ready

MapAfter == IF fetched = NotLoaded THEN categorizationsMap ELSE fetched

\* The map is replaced; a failure is fatal only when there is none yet.
ReplaceMap ==
  /\ Goto("fetched", IF AbortsWithoutMap THEN "aborted" ELSE "updated")
  /\ categorizationsMap' = MapAfter
  /\ UNCHANGED <<database, fetched, flags, callers>>

UpdateAsked_NotByStop == forceUpdateRequired
UpdateAsked == forceUpdateRequired \/ stopped

\* Going on after wait_until(), called when an update or a stop is asked for.
Resume ==
  /\ pc' = IF stopped THEN "finished" ELSE "fetching"
  /\ forceUpdateRequired' = (forceUpdateRequired /\ stopped)

NotifyReady == server' = IF server = "waiting" THEN "woken" ELSE server

\* Under sleepMutex: tell the waiting server, then sleep unless an update was
\* asked for meanwhile.
Sleep_DropRequest ==
  /\ Goto("updated", IF stopped THEN "finished" ELSE "sleeping")
  /\ ready' = TRUE
  /\ IF ready THEN UNCHANGED server ELSE NotifyReady
  /\ forceUpdateRequired' = FALSE
  /\ UNCHANGED <<database, fetched, categorizationsMap, stopped, reloads, wanted>>

Sleep ==
  /\ pc = "updated"
  /\ ready' = TRUE
  /\ IF ready THEN UNCHANGED server ELSE NotifyReady
  /\ IF UpdateAsked
     THEN Resume
     ELSE pc' = "sleeping" /\ UNCHANGED forceUpdateRequired
  /\ UNCHANGED <<database, fetched, categorizationsMap, stopped, reloads, wanted>>

\* Woken by notify_one() of a caller.
WakeUp ==
  /\ pc = "sleeping"
  /\ UpdateAsked
  /\ Resume
  /\ UNCHANGED <<database, fetched, categorizationsMap, ready, stopped, callers>>

\* getNextUpdateTime() is reached.
PeriodicUpdate ==
  /\ Goto("sleeping", "fetching")
  /\ ~UpdateAsked
  /\ UNCHANGED <<database, fetched, categorizationsMap, flags, callers>>

-----------------------------------------------------------------------------
(* Callers: the server's main thread and the management thread *)

\* waitUntilReady(), on entry and after each wake-up.
StaysInWait == ~ready

WaitUntilReady ==
  /\ server \in {"loading", "woken"}
  /\ server' = IF StaysInWait THEN "waiting" ELSE "serving"
  /\ UNCHANGED <<database, updater, flags, reloads, wanted>>

SpuriousWakeup ==
  /\ server = "waiting"
  /\ server' = "woken"
  /\ UNCHANGED <<database, updater, flags, reloads, wanted>>

\* forceUpdateMap(); the management thread runs before the provider is started.
ReloadOverrides ==
  /\ server # "done"
  /\ reloads < MaxReloads
  /\ reloads' = reloads + 1
  /\ wanted' = table
  /\ forceUpdateRequired' = TRUE
  /\ UNCHANGED <<database, updater, ready, stopped, server>>

\* ~WebrootOverridesProvider(), when main() returns.
Stop ==
  /\ server = "serving"
  /\ server' = "joining"
  /\ stopped' = TRUE
  /\ UNCHANGED <<database, updater, ready, forceUpdateRequired, reloads, wanted>>

Join ==
  /\ server = "joining"
  /\ pc = "finished"
  /\ server' = "done"
  /\ UNCHANGED <<database, updater, flags, reloads, wanted>>

-----------------------------------------------------------------------------
(* The configuration database *)

TableChanges ==
  /\ table < MaxVersion
  /\ table' = table + 1
  /\ UNCHANGED <<db, linked, updater, flags, callers>>

DbFails ==
  /\ db # "down" /\ db' = "down"
  /\ linked' = FALSE
  /\ UNCHANGED <<table, updater, flags, callers>>

DbSlows ==
  /\ db = "up" /\ db' = "slow"
  /\ UNCHANGED <<table, linked, updater, flags, callers>>

DbRecovers ==
  /\ db # "up" /\ db' = "up"
  /\ UNCHANGED <<table, linked, updater, flags, callers>>

-----------------------------------------------------------------------------
Updater ==
  \/ Connect \/ PrepareStatements \/ FetchOverrides \/ Reconnect
  \/ ReplaceMap \/ Sleep \/ WakeUp \/ PeriodicUpdate

Ended == pc = "aborted" \/ server = "done"
Gone == Ended /\ UNCHANGED vars

Provider ==
  /\ pc # "aborted"
  /\ \/ Updater
     \/ WaitUntilReady \/ SpuriousWakeup \/ ReloadOverrides \/ Stop \/ Join
     \/ DbFails \/ DbSlows \/ DbRecovers

Next ==
  \/ Provider
  \/ pc # "aborted" /\ TableChanges
  \/ Gone

Spec == Init /\ [][Next]_vars

\* The threads are scheduled and the clock reaches the next update; nothing makes
\* the database recover or an operator act.
Fairness ==
  /\ WF_vars(pc # "aborted" /\ Updater)
  /\ WF_vars(pc # "aborted" /\ WaitUntilReady)
  /\ WF_vars(pc # "aborted" /\ Join)

FairSpec == Spec /\ Fairness

-----------------------------------------------------------------------------
(* Properties *)

\* The thread never has a version that the table did not have.
TypeOK ==
  /\ table \in 1..MaxVersion /\ db \in {"up", "slow", "down"} /\ linked \in BOOLEAN
  /\ pc \in UpdaterState /\ fetched \in NotLoaded..table
  /\ categorizationsMap \in (IF ready THEN 1 ELSE NotLoaded)..table
  /\ ready \in BOOLEAN /\ forceUpdateRequired \in BOOLEAN /\ stopped \in BOOLEAN
  /\ server \in ServerState /\ reloads \in 0..MaxReloads
  /\ wanted \in NotLoaded..table

\* Workers look URLs up only in a map that was loaded: "db not yet loaded" in
\* findCategorization() is never reached, and a failure on first try ends the
\* process before it serves.
ServesLoadedMap == server = "serving" => ready /\ categorizationsMap # NotLoaded

\* A reload command given while an update is under way is not lost: when the
\* thread goes to sleep without a failure, the map is at least as new as the
\* table was at the last command.
ReloadNotLost ==
  pc = "sleeping" /\ ~forceUpdateRequired /\ fetched # NotLoaded
    => categorizationsMap >= wanted

\* The map never goes back to an older version of the table.
NeverOlder == [][categorizationsMap' >= categorizationsMap]_vars

\* Once the database stays up the map catches up with a reload command, also when
\* the command was consumed by a query that failed.
OverridesCatchUp ==
  <>[](db = "up") =>
    \A v \in 1..MaxVersion :
      wanted = v ~> categorizationsMap >= v \/ stopped \/ pc = "aborted"

\* The server does not wait for a map for ever, and the destructor returns, unless
\* the database keeps accepting connections on which queries fail.
Settles == <>[](db = "up") \/ <>[](db = "down")
ServerStartsAndStops ==
  Settles =>
    /\ (server = "loading" ~> server = "serving" \/ pc = "aborted")
    /\ (server = "joining" ~> server = "done" \/ pc = "aborted")
=============================================================================
