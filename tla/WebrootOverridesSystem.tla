------------------------- MODULE WebrootOverridesSystem -------------------------
(***************************************************************************)
(* The backend's WebrootOverridesProvider and the script with which         *)
(* operators change the table that it copies.  The versions of the table in *)
(* WebrootOverrides are the contents that the script has committed.         *)
(***************************************************************************)
EXTENDS WebrootOverrides, Sequences

CONSTANTS Operators, Urls, Categories, NoRow,
          Lookups,   \* urls of requests
          Lcps,      \* prefixes of urls, by which the map is keyed
          LcpsOf     \* webroot's cLcpParse: those of a url, the longest first

ASSUME RowsAssumption == NoRow \notin Categories

VARIABLES rows, session, url,   \* of the script
          fetchedMap,           \* newCategorizationsMap, from LCPs to categories
          appliedMap,           \* categorizationsMap
          contents              \* history: rows, by version

Commands == {"adding", "deleting", "updating"}   \* what a session may be in

script == <<rows, session, url>>
maps == <<fetchedMap, appliedMap>>
systemVars == <<vars, script, maps, contents>>

Script == INSTANCE WebrootOverridesScript WITH pc <- session

\* The parser finds no LCP in an url that it refuses, and none twice in one that it
\* accepts.
ASSUME LcpsAssumption ==
  /\ LcpsOf \in [Lookups \cup Script!Addresses -> Seq(Lcps)]
  /\ \A u \in Lookups \cup Script!Addresses :
       \A i, j \in DOMAIN LcpsOf[u] : LcpsOf[u][i] = LcpsOf[u][j] => i = j

-----------------------------------------------------------------------------
\* A row is stored under the first LCP of its address.  Those that are refused are
\* skipped.
KeyOf(a) == Head(LcpsOf[a])
Accepted(r) == {a \in DOMAIN r : r[a] # NoRow /\ LcpsOf[a] # <<>>}
Keys(r) == {KeyOf(a) : a \in Accepted(r)}

\* Of rows with the same key the first of the query is taken, whose order is not
\* determined.
MapsOf(r) ==
  {m \in [Keys(r) -> Categories] :
     \A k \in Keys(r) : \E a \in Accepted(r) : KeyOf(a) = k /\ m[k] = r[a]}

NoMap == <<>>

SystemInit ==
  /\ Init
  /\ Script!Init
  /\ fetchedMap = NoMap /\ appliedMap = NoMap
  /\ contents = <<rows>>

\* A commit of the script; one that changes no row makes no version.
Commit ==
  /\ UNCHANGED maps
  /\ IF rows' = rows
     THEN UNCHANGED <<vars, contents>>
     ELSE /\ TableChanges
          /\ contents' = Append(contents, rows')

\* The map is made from the rows at FetchOverrides and installed by ReplaceMap.
UpdateMaps ==
  /\ fetchedMap' \in (IF pc = "fetching" /\ pc' = "fetched" THEN MapsOf(rows)
                      ELSE IF pc = "fetched" /\ pc' # "fetched" THEN {NoMap}
                      ELSE {fetchedMap})
  /\ appliedMap' = IF pc = "fetched" /\ pc' = "updated" /\ fetched # NotLoaded
                   THEN fetchedMap ELSE appliedMap

SystemNext ==
  \/ Script!Next /\ pc # "aborted" /\ Commit
  \/ Provider /\ UpdateMaps /\ UNCHANGED <<script, contents>>
  \/ Gone /\ UNCHANGED <<script, maps, contents>>

SystemSpec == SystemInit /\ [][SystemNext]_systemVars /\ Fairness

\* Mutated forms, each named for the mistake, precede what they mutate.
FirstFound_Exact(u) == {i \in DOMAIN LcpsOf[u] \cap {1} : LcpsOf[u][i] \in DOMAIN appliedMap}
FirstFound(u) ==
  LET found == {i \in DOMAIN LcpsOf[u] : LcpsOf[u][i] \in DOMAIN appliedMap}
  IN  {i \in found : \A j \in found : i <= j}

\* findCategorization(): at most one category, of the most specific LCP in the map.
Applied(u) == {appliedMap[LcpsOf[u][i]] : i \in FirstFound(u)}

-----------------------------------------------------------------------------
(* Properties *)

\* An operator who adds a row changes no row that another one has added since the
\* check for it.
AddOverwritesNothing ==
  [][\A o \in Operators :
       session[o] = "adding" /\ session'[o] # "adding" =>
         \A a \in Script!Addresses : rows[a] # NoRow => rows'[a] = rows[a]]_systemVars

\* The rows for a url: those whose key is one of its LCPs, and none has a key that
\* is a more specific one.  They may have different categories.
IsFor(a, u) == \E i \in DOMAIN LcpsOf[u] : LcpsOf[u][i] = KeyOf(a)
Better(a, b, u) ==
  \E i, j \in DOMAIN LcpsOf[u] : i < j /\ LcpsOf[u][i] = KeyOf(a) /\ LcpsOf[u][j] = KeyOf(b)

Claims(r, u) ==
  {r[a] : a \in {x \in Accepted(r) :
                   IsFor(x, u) /\ \A y \in Accepted(r) : ~Better(y, x, u)}}

\* Lookups find one of them, and nothing only if there is none.
Obeys(u, r) ==
  /\ Applied(u) \subseteq Claims(r, u)
  /\ Claims(r, u) # {} => Applied(u) # {}

\* When the rows for a url change no more they are applied in the end, without any
\* command: by the update at a fixed time, though queries failed and the connection
\* was lost before.  Which row is applied is open if several have the same key.
LastingOverridesApplied ==
  \A u \in Lookups :
    <>[](db = "up") /\ <>[][Claims(rows, u)' = Claims(rows, u)]_systemVars
      => <>[](Obeys(u, rows) \/ stopped \/ pc = "aborted")

=============================================================================
