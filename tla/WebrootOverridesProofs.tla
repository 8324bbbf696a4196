------------------------ MODULE WebrootOverridesProofs ------------------------
(***************************************************************************)
(* Proofs about WebrootOverrides and WebrootOverridesSystem: workers look   *)
(* up only in a loaded map, reload commands are not lost and the map never  *)
(* gets older, also when the versions of the table are what the sessions of *)
(* the script commit; no session overwrites a row that another one added.   *)
(* For any number of changes, commands, operators, urls and categories.     *)
(***************************************************************************)
EXTENDS WebrootOverridesSystem, TLAPS

\* The thread reports "ready" only with a map, and nobody serves without it.
LoadedBeforeReady ==
  /\ pc \in {"updated", "sleeping"} => categorizationsMap # NotLoaded
  /\ server \in {"serving", "joining", "done"} => ready

\* What was fetched is at least as new as the map it will replace.
FetchedIsNewer ==
  pc = "fetched" /\ fetched # NotLoaded => fetched >= categorizationsMap

\* From the query on, the table of the last command is either fetched or the
\* command is still pending.
CommandPending ==
  ~forceUpdateRequired /\ fetched # NotLoaded =>
    /\ pc = "fetched" => fetched >= wanted
    /\ pc \in {"updated", "sleeping"} => categorizationsMap >= wanted

IInv == TypeOK /\ LoadedBeforeReady /\ FetchedIsNewer /\ CommandPending

-----------------------------------------------------------------------------
LEMMA InitInv == Init => IInv
<1>. SUFFICES ASSUME Init PROVE IInv
  OBVIOUS
<1>1. TypeOK
  <2>1. ready \in BOOLEAN /\ forceUpdateRequired \in BOOLEAN /\ stopped \in BOOLEAN
    BY Zenon DEF Init
  <2>2. linked \in BOOLEAN /\ ~ready
    BY Zenon DEF Init
  <2>. QED
    BY <2>1, <2>2, BoundsAssumption DEF Init, TypeOK, NotLoaded, UpdaterState, ServerState
<1>. QED
  BY <1>1 DEF Init, IInv, LoadedBeforeReady, FetchedIsNewer, CommandPending, NotLoaded

\* The steps of the update thread.
LEMMA UpdaterInv == IInv /\ Updater => IInv' /\ categorizationsMap' >= categorizationsMap
<1>. SUFFICES ASSUME IInv, Updater
              PROVE  IInv' /\ categorizationsMap' >= categorizationsMap
  OBVIOUS
<1>. USE BoundsAssumption
     DEF IInv, TypeOK, LoadedBeforeReady, FetchedIsNewer, CommandPending, NotLoaded,
         UpdaterState, ServerState, database, flags, callers, Goto
<1>1. CASE Connect
  <2>1. linked' \in BOOLEAN
    BY <1>1, Zenon DEF Connect
  <2>. QED BY <1>1, <2>1 DEF Connect
<1>2. CASE FetchOverrides
  BY <1>2 DEF FetchOverrides
<1>7. CASE PrepareStatements
  BY <1>7 DEF PrepareStatements
<1>8. CASE Reconnect
  <2>1. linked' \in BOOLEAN
    BY <1>8, Zenon DEF Reconnect, Retries
  <2>. QED BY <1>8, <2>1 DEF Reconnect
<1>3. CASE ReplaceMap
  BY <1>3 DEF ReplaceMap, AbortsWithoutMap, MapAfter
<1>4. CASE Sleep
  BY <1>4 DEF Sleep, NotifyReady, UpdateAsked, Resume
<1>5. CASE WakeUp
  BY <1>5 DEF WakeUp, UpdateAsked, Resume
<1>6. CASE PeriodicUpdate
  BY <1>6 DEF PeriodicUpdate, UpdateAsked
<1>. QED BY <1>1, <1>2, <1>3, <1>4, <1>5, <1>6, <1>7, <1>8 DEF Updater

\* The steps of the callers and of the database.
LEMMA OthersInv ==
  ASSUME IInv,
         \/ WaitUntilReady \/ SpuriousWakeup \/ ReloadOverrides \/ Stop \/ Join
         \/ TableChanges \/ DbFails \/ DbSlows \/ DbRecovers \/ UNCHANGED vars
  PROVE  IInv' /\ categorizationsMap' >= categorizationsMap
<1>. USE BoundsAssumption
     DEF IInv, TypeOK, LoadedBeforeReady, FetchedIsNewer, CommandPending, NotLoaded,
         UpdaterState, ServerState, database, updater, flags, callers
<1>1. CASE WaitUntilReady
  BY <1>1 DEF WaitUntilReady, StaysInWait
<1>2. CASE SpuriousWakeup
  BY <1>2 DEF SpuriousWakeup
<1>3. CASE ReloadOverrides
  BY <1>3 DEF ReloadOverrides
<1>4. CASE Stop
  <2>1. stopped' \in BOOLEAN /\ server' = "joining"
    BY <1>4, Zenon DEF Stop
  <2>. QED BY <1>4, <2>1 DEF Stop
<1>5. CASE Join
  BY <1>5 DEF Join
<1>6. CASE TableChanges
  BY <1>6 DEF TableChanges
<1>7. CASE DbFails
  <2>1. linked' \in BOOLEAN
    BY <1>7, Zenon DEF DbFails
  <2>. QED BY <1>7, <2>1 DEF DbFails
<1>9. CASE DbSlows \/ DbRecovers
  BY <1>9 DEF DbSlows, DbRecovers
<1>8. CASE UNCHANGED vars
  BY <1>8 DEF vars
<1>. QED BY <1>1, <1>2, <1>3, <1>4, <1>5, <1>6, <1>7, <1>8, <1>9

LEMMA NextInv ==
  IInv /\ [Next]_vars => IInv' /\ categorizationsMap' >= categorizationsMap
BY UpdaterInv, OthersInv DEF Next, Provider, Gone

LEMMA Invariance == Spec => []IInv
BY InitInv, NextInv, PTL DEF Spec

-----------------------------------------------------------------------------
\* Workers never look a url up in a map that was not loaded.
THEOREM OverridesServeLoadedMap == Spec => []ServesLoadedMap
<1>1. IInv => ServesLoadedMap
  BY DEF IInv, TypeOK, LoadedBeforeReady, ServesLoadedMap, NotLoaded
<1>. QED BY <1>1, Invariance, PTL

\* A reload command is not lost, whenever it comes.
THEOREM OverridesReloadNotLost == Spec => []ReloadNotLost
<1>1. IInv => ReloadNotLost
  BY DEF IInv, CommandPending, ReloadNotLost
<1>. QED BY <1>1, Invariance, PTL

\* No update replaces the map by an older version of the table.
THEOREM OverridesNeverOlder == Spec => NeverOlder
<1>1. IInv /\ [Next]_vars => [categorizationsMap' >= categorizationsMap]_vars
  BY NextInv
<1>. QED BY <1>1, Invariance, PTL DEF Spec, NeverOlder

-----------------------------------------------------------------------------
(* The provider together with the script *)

\* A step of the system is one of the provider or the database, or a change of the
\* table, or leaves the provider alone.
LEMMA SystemStep == [SystemNext]_systemVars => [Next]_vars
BY DEF SystemNext, systemVars, Commit, Next

\* With the script as the writer of the table the provider is what WebrootOverrides
\* says, so that all that is proved or checked of it holds in the system.
THEOREM SystemImplementsProvider == SystemSpec => FairSpec
<1>1. SystemInit => Init
  BY DEF SystemInit
<1>. QED BY <1>1, SystemStep, PTL DEF SystemSpec, FairSpec, Spec

LEMMA SystemIInv == SystemSpec => []IInv
BY Invariance, SystemImplementsProvider, PTL DEF FairSpec

\* In the system too no reload command is lost.
THEOREM SystemReloadNotLost == SystemSpec => []ReloadNotLost
BY OverridesReloadNotLost, SystemImplementsProvider, PTL DEF FairSpec

-----------------------------------------------------------------------------
(* The sessions of the script *)

Rows == [Script!Addresses -> Categories \cup {NoRow}]

\* A session works on an address of the table while it is in a command.
SessionInv ==
  /\ rows \in Rows
  /\ session \in [Operators -> {"menu", "left"} \cup Commands]
  /\ url \in [Operators -> Script!Addresses \cup {<<>>}]
  /\ \A o \in Operators : session[o] \in Commands => url[o] \in Script!Addresses

\* The version of the table counts the commits, and the last one is in it.
ContentsInv ==
  /\ contents \in Seq(Rows) /\ Len(contents) = table
  /\ contents[table] = rows

SInv == SessionInv /\ ContentsInv

\* What a step of a session does: it ends in a command or leaves one, and a command
\* that ends changes the row of its own address at most.
LEMMA SessionStep ==
  ASSUME SessionInv, NEW o \in Operators, Script!Session(o)
  PROVE  /\ SessionInv'
         /\ \A p \in Operators \ {o} : session'[p] = session[p]
         /\ \A a \in Script!Addresses \ {url[o]} : rows'[a] = rows[a]
         /\ session[o] = "adding" /\ session'[o] # "adding" /\ rows' # rows
              => rows[url[o]] = NoRow
<1>. USE DEF SessionInv, Rows, Commands
<1>1. CASE Script!UrlFromInput(o)
  <2>1. PICK a \in Script!Addresses : url' = [url EXCEPT ![o] = a]
    BY <1>1 DEF Script!UrlFromInput
  <2>2. /\ session' = [session EXCEPT ![o] = "adding"] /\ session[o] = "menu"
        /\ rows' = rows
    BY <1>1 DEF Script!UrlFromInput, Script!Goto
  <2>. QED BY <2>1, <2>2
<1>2. ASSUME NEW command \in {"deleting", "updating"}, Script!UrlThatExists(o, command)
      PROVE  /\ SessionInv'
             /\ \A p \in Operators \ {o} : session'[p] = session[p]
             /\ \A a \in Script!Addresses \ {url[o]} : rows'[a] = rows[a]
             /\ session[o] = "adding" /\ session'[o] # "adding" /\ rows' # rows
                  => rows[url[o]] = NoRow
  <2>1. PICK a \in Script!Addresses : url' = [url EXCEPT ![o] = a]
    BY <1>2 DEF Script!UrlThatExists
  <2>2. /\ session' = [session EXCEPT ![o] = command] /\ session[o] = "menu"
        /\ rows' = rows
    BY <1>2 DEF Script!UrlThatExists, Script!Goto
  <2>. QED BY <1>2, <2>1, <2>2
<1>3. CASE Script!Insert(o)
  <2>1. /\ session[o] = "adding" /\ url' = [url EXCEPT ![o] = <<>>]
        /\ \/ session' = [session EXCEPT ![o] = "menu"]
           \/ session' = [session EXCEPT ![o] = "left"]
    BY <1>3 DEF Script!Insert, Script!Done, Script!Goto
  <2>2. \/ rows' = rows
        \/ /\ rows[url[o]] = NoRow
           /\ \E c \in Categories : rows' = [rows EXCEPT ![url[o]] = c]
    BY <1>3 DEF Script!Insert, Script!Unique
  <2>. QED BY <2>1, <2>2
<1>4. CASE Script!Delete(o) \/ Script!Cancel(o)
  <2>1. /\ session[o] = "deleting" /\ url' = [url EXCEPT ![o] = <<>>]
        /\ session' = [session EXCEPT ![o] = "menu"]
        /\ rows' = rows \/ rows' = [rows EXCEPT ![url[o]] = NoRow]
    BY <1>4 DEF Script!Delete, Script!Cancel, Script!Done, Script!Goto
  <2>. QED BY <2>1
<1>5. CASE Script!Update(o)
  <2>1. /\ session[o] = "updating" /\ url' = [url EXCEPT ![o] = <<>>]
        /\ session' = [session EXCEPT ![o] = "menu"]
    BY <1>5 DEF Script!Update, Script!Done, Script!Goto
  <2>2. \E d \in Categories \cup {NoRow} : rows' = [rows EXCEPT ![url[o]] = d]
    BY <1>5 DEF Script!Update, Script!Updated
  <2>. QED BY <2>1, <2>2
<1>. QED BY <1>1, <1>2, <1>3, <1>4, <1>5 DEF Script!Session

LEMMA ScriptInit == SystemInit /\ Init => SInv
<1>. SUFFICES ASSUME SystemInit, Init PROVE SInv
  OBVIOUS
<1>1. rows \in [Script!Addresses -> {NoRow}] /\ contents = <<rows>> /\ table = 1
  BY DEF SystemInit, Script!Init, Init
<1>2. rows \in Rows
  BY <1>1 DEF Rows
<1>3. SessionInv
  BY <1>2 DEF SystemInit, Script!Init, SessionInv, Commands
<1>4. ContentsInv
  BY <1>1, <1>2 DEF ContentsInv
<1>. QED BY <1>3, <1>4 DEF SInv

LEMMA SystemNextSInv == SInv /\ IInv /\ [SystemNext]_systemVars => SInv'
<1>. SUFFICES ASSUME SInv, IInv, [SystemNext]_systemVars PROVE SInv'
  OBVIOUS
<1>0. SessionInv /\ ContentsInv /\ table \in Nat \ {0}
  BY BoundsAssumption DEF SInv, IInv, TypeOK
<1>1. CASE Script!Next /\ Commit
  <2>1. SessionInv'
    BY <1>0, <1>1, SessionStep DEF Script!Next
  <2>2. CASE rows' = rows
    BY <1>0, <1>1, <2>1, <2>2
    DEF Commit, vars, database, ContentsInv, SInv
  <2>3. CASE rows' # rows
    <3>1. table' = table + 1 /\ contents' = Append(contents, rows')
      BY <1>1, <2>3 DEF Commit, TableChanges
    <3>2. rows' \in Rows
      BY <2>1 DEF SessionInv
    <3>3. ContentsInv'
      BY <1>0, <3>1, <3>2 DEF ContentsInv
    <3>. QED BY <2>1, <3>3 DEF SInv
  <2>. QED BY <2>2, <2>3
<1>2. CASE UNCHANGED <<script, contents, table>>
  BY <1>0, <1>2 DEF SInv, script, SessionInv, ContentsInv
<1>3. Provider => UNCHANGED table
  BY DEF Provider, Updater, Connect, PrepareStatements, FetchOverrides, Reconnect, ReplaceMap,
     Sleep, WakeUp, PeriodicUpdate, WaitUntilReady, SpuriousWakeup, ReloadOverrides, Stop,
     Join, DbFails, DbSlows, DbRecovers, database
<1>. QED
  BY <1>1, <1>2, <1>3 DEF SystemNext, Gone, systemVars, vars, database

LEMMA SystemSInv == SystemSpec => []SInv
<1>1. SystemInit => SInv
  BY ScriptInit DEF SystemInit
<1>. QED BY <1>1, SystemIInv, SystemNextSInv, PTL DEF SystemSpec

\* An operator who adds a row changes no row that another one has added since the
\* check for it, for any number of operators: the UNIQUE constraint is enough.
THEOREM SystemAddOverwritesNothing == SystemSpec => AddOverwritesNothing
<1>. DEFINE Step ==
       \A o \in Operators :
         session[o] = "adding" /\ session'[o] # "adding" =>
           \A a \in Script!Addresses : rows[a] # NoRow => rows'[a] = rows[a]
<1>1. SInv /\ [SystemNext]_systemVars => [Step]_systemVars
  <2>. SUFFICES ASSUME SInv, SystemNext, NEW o \in Operators,
                       session[o] = "adding", session'[o] # "adding",
                       NEW a \in Script!Addresses, rows[a] # NoRow
                PROVE  rows'[a] = rows[a]
    OBVIOUS
  <2>1. PICK p \in Operators : Script!Session(p)
    BY DEF SystemNext, Script!Next, script
  <2>2. p = o
    BY <2>1, SessionStep DEF SInv
  <2>3. CASE rows' # rows
    <3>1. a # url[o]
      BY <2>1, <2>2, <2>3, SessionStep DEF SInv
    <3>. QED BY <2>1, <2>2, <3>1, SessionStep DEF SInv
  <2>. QED BY <2>3
<1>. QED BY <1>1, SystemSInv, PTL DEF SystemSpec, AddOverwritesNothing

-----------------------------------------------------------------------------
(* What is in the map *)

\* The map is made from the rows that the table had in one version, and so is the
\* one that will replace it.
MapsInv ==
  /\ categorizationsMap # NotLoaded => appliedMap \in MapsOf(contents[categorizationsMap])
  /\ pc = "fetched" /\ fetched # NotLoaded => fetchedMap \in MapsOf(contents[fetched])

\* A step of the provider ends a query, replaces the map or does neither.
LEMMA ProviderStep ==
  ASSUME Provider
  PROVE  /\ UNCHANGED table
         /\ \/ /\ pc = "fetching" /\ pc' = "fetched"
               /\ fetched' = table /\ UNCHANGED categorizationsMap
            \/ /\ pc = "fetched" /\ pc' = "updated"
               /\ categorizationsMap' = MapAfter
            \/ /\ ~(pc = "fetched" /\ pc' = "updated")
               /\ UNCHANGED categorizationsMap
               /\ \/ pc' # "fetched"
                  \/ pc = "fetched" /\ UNCHANGED fetched
                  \/ fetched' = NotLoaded
<1>. USE DEF database, updater, flags, callers, Goto
<1>1. CASE Connect \/ PrepareStatements \/ WakeUp \/ PeriodicUpdate \/ Sleep
  BY <1>1 DEF Connect, PrepareStatements, WakeUp, PeriodicUpdate, Sleep, Resume
<1>2. CASE FetchOverrides
  BY <1>2 DEF FetchOverrides
<1>3. CASE Reconnect
  BY <1>3 DEF Reconnect
<1>4. CASE ReplaceMap
  BY <1>4 DEF ReplaceMap, AbortsWithoutMap, MapAfter
<1>5. CASE WaitUntilReady \/ SpuriousWakeup \/ ReloadOverrides \/ Stop \/ Join
           \/ DbFails \/ DbSlows \/ DbRecovers
  BY <1>5 DEF WaitUntilReady, SpuriousWakeup, ReloadOverrides, Stop, Join, DbFails,
              DbSlows, DbRecovers
<1>. QED BY <1>1, <1>2, <1>3, <1>4, <1>5 DEF Provider, Updater

LEMMA MapsInit == SystemInit => MapsInv
BY DEF SystemInit, Init, MapsInv

LEMMA SystemNextMaps ==
  MapsInv /\ SInv /\ IInv /\ [SystemNext]_systemVars => MapsInv'
<1>. SUFFICES ASSUME MapsInv, SInv, IInv, [SystemNext]_systemVars PROVE MapsInv'
  OBVIOUS
<1>1. /\ ContentsInv /\ table \in Nat \ {0}
      /\ categorizationsMap \in 0..table /\ fetched \in 0..table
  BY BoundsAssumption DEF SInv, IInv, TypeOK, NotLoaded
<1>2. CASE Script!Next /\ Commit
  <2>1. \A v \in 1..table : contents'[v] = contents[v]
    <3>1. CASE contents' = Append(contents, rows')
      BY <1>1, <3>1 DEF ContentsInv
    <3>. QED BY <1>2, <3>1 DEF Commit
  <2>2. UNCHANGED <<pc, fetched, categorizationsMap, fetchedMap, appliedMap>>
    BY <1>2 DEF Commit, TableChanges, vars, updater, maps
  <2>. QED BY <1>1, <2>1, <2>2 DEF MapsInv, MapsOf, NotLoaded
<1>3. CASE Provider /\ UpdateMaps /\ UNCHANGED <<script, contents>>
  <2>. USE <1>3 DEF MapsInv, MapsOf, UpdateMaps
  <2>1. CASE pc = "fetching" /\ pc' = "fetched" /\ fetched' = table
             /\ UNCHANGED categorizationsMap
    BY <1>1, <2>1 DEF ContentsInv, MapsOf
  <2>2. CASE pc = "fetched" /\ pc' = "updated" /\ categorizationsMap' = MapAfter
    BY <2>2 DEF MapAfter
  <2>3. CASE /\ ~(pc = "fetched" /\ pc' = "updated")
             /\ UNCHANGED categorizationsMap
             /\ \/ pc' # "fetched"
                \/ pc = "fetched" /\ UNCHANGED fetched
                \/ fetched' = NotLoaded
    BY <2>3
  <2>. QED BY <2>1, <2>2, <2>3, ProviderStep
<1>4. CASE UNCHANGED systemVars
  BY <1>4 DEF systemVars, vars, updater, maps, MapsInv, MapsOf
<1>. QED BY <1>2, <1>3, <1>4 DEF SystemNext, Gone, systemVars

LEMMA SystemMaps == SystemSpec => []MapsInv
BY MapsInit, SystemIInv, SystemSInv, SystemNextMaps, PTL DEF SystemSpec

\* A map made from rows gives each url what the rows say of it, whichever of the rows
\* with the same key it has.
LEMMA MapObeys ==
  ASSUME NEW r \in Rows, appliedMap \in MapsOf(r), NEW u \in Lookups
  PROVE  Obeys(u, r)
<1>. DEFINE L == LcpsOf[u]
<1>1. /\ DOMAIN L \subseteq Nat
      /\ \A i, j \in DOMAIN L : L[i] = L[j] => i = j
  BY LcpsAssumption
<1>2. /\ DOMAIN appliedMap = Keys(r)
      /\ \A k \in Keys(r) : \E a \in Accepted(r) : KeyOf(a) = k /\ appliedMap[k] = r[a]
  BY DEF MapsOf
<1>3. Applied(u) \subseteq Claims(r, u)
  <2>. SUFFICES ASSUME NEW i \in FirstFound(u) PROVE appliedMap[L[i]] \in Claims(r, u)
    BY DEF Applied
  <2>1. /\ i \in DOMAIN L /\ L[i] \in Keys(r)
        /\ \A j \in DOMAIN L : L[j] \in Keys(r) => i <= j
    BY <1>2 DEF FirstFound
  <2>2. PICK a \in Accepted(r) : KeyOf(a) = L[i] /\ appliedMap[L[i]] = r[a]
    BY <1>2, <2>1
  <2>3. ASSUME NEW b \in Accepted(r), Better(b, a, u) PROVE FALSE
    <3>1. PICK j, k \in DOMAIN L : j < k /\ L[j] = KeyOf(b) /\ L[k] = KeyOf(a)
      BY <2>3 DEF Better
    <3>2. k = i /\ L[j] \in Keys(r)
      BY <1>1, <2>1, <2>2, <3>1 DEF Keys
    <3>. QED BY <1>1, <2>1, <3>1, <3>2
  <2>. QED BY <2>1, <2>2, <2>3 DEF Claims, IsFor
<1>4. ASSUME Claims(r, u) # {} PROVE Applied(u) # {}
  <2>1. PICK a \in Accepted(r) : IsFor(a, u) /\ \A b \in Accepted(r) : ~Better(b, a, u)
    BY <1>4 DEF Claims
  <2>2. PICK i \in DOMAIN L : L[i] = KeyOf(a)
    BY <2>1 DEF IsFor
  <2>3. ASSUME NEW j \in DOMAIN L, L[j] \in Keys(r) PROVE i <= j
    <3>1. PICK b \in Accepted(r) : KeyOf(b) = L[j]
      BY <2>3 DEF Keys
    <3>. QED BY <1>1, <2>1, <2>2, <3>1 DEF Better
  <2>4. i \in FirstFound(u)
    BY <1>2, <2>2, <2>3 DEF FirstFound, Keys
  <2>. QED BY <2>4 DEF Applied
<1>. QED BY <1>3, <1>4 DEF Obeys

\* What lookups find when the thread sleeps after a query with no command pending:
\* what the rows of one moment say, not before the last reload command.
ReloadApplied ==
  pc = "sleeping" /\ ~forceUpdateRequired /\ fetched # NotLoaded =>
    \E v \in DOMAIN contents :
      v >= wanted /\ \A u \in Lookups : Obeys(u, contents[v])

\* After a reload command each lookup finds the category of a row that is the most
\* specific one for its url in the table at one moment after the command, and none
\* only if there is no such row.  Which of the rows with the same key is applied is
\* open, and rows that the parser refuses do not count.
THEOREM SystemReloadApplied == SystemSpec => []ReloadApplied
<1>1. IInv /\ SInv /\ MapsInv => ReloadApplied
  <2>. SUFFICES ASSUME IInv, SInv, MapsInv,
                       pc = "sleeping", ~forceUpdateRequired, fetched # NotLoaded
                PROVE  \E v \in DOMAIN contents :
                         v >= wanted /\ \A u \in Lookups : Obeys(u, contents[v])
    BY DEF ReloadApplied
  <2>1. categorizationsMap # NotLoaded /\ categorizationsMap >= wanted
    BY DEF IInv, LoadedBeforeReady, CommandPending
  <2>2. categorizationsMap \in 1..table
    BY <2>1, BoundsAssumption DEF IInv, TypeOK, NotLoaded
  <2>3. DOMAIN contents = 1..table /\ contents[categorizationsMap] \in Rows
    BY <2>2 DEF SInv, ContentsInv
  <2>4. \A u \in Lookups : Obeys(u, contents[categorizationsMap])
    BY <2>1, <2>3, MapObeys DEF MapsInv
  <2>. QED BY <2>1, <2>2, <2>3, <2>4
<1>. QED BY <1>1, SystemIInv, SystemSInv, SystemMaps, PTL
=============================================================================
