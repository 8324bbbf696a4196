----------------------------- MODULE AccessDecision -----------------------------
(***************************************************************************)
(* How a worker of the backend decides on a request: the middle part of     *)
(* Server::workerFunction() and queryDatabase() (backend/server.cpp) with    *)
(* the queries of backendLib/dbClient.cpp.                                   *)
(*                                                                         *)
(* Each query is a transaction of its own: it may fail, and between two     *)
(* queries a parent may change the configuration.                           *)
(***************************************************************************)
EXTENDS UrlPatterns, FiniteSets, Sequences

CONSTANTS
  Configs,             \* what the configuration of the child may be
  Versions,            \* those that parents change between
  Lookups,             \* what overrides and webroot may say of the url
  requestUrl, now,     \* the request and its time of day, the same every day
  GroupOf,             \* table categories: the group of each known category
  uncategorizedGroupId,
  PrivateIp,           \* the category PRIVATE_IP_ADDRESSES
  MaxChanges           \* bound of the model: changes during a decision

Groups == {GroupOf[c] : c \in DOMAIN GroupOf} \cup {uncategorizedGroupId}

Decides(decisions) == \A e \in DOMAIN decisions : decisions[e] \in {"blocked", "allowed"}

\* status: of the child's user, "absent" without a child of that uuid; schedule:
\* access_control, as [from, to]; grants: tmp_access_control accepted by the
\* parent; defaultProfile: of the child, a foreign key; profiles: the decisions
\* of each profile.
IsConfig(c) ==
  /\ c.status \in {"absent", "free", "restricted"}
  /\ c.schedule \subseteq [from : Nat, to : Nat]
  /\ c.grants \subseteq [start : Nat, duration : Nat]
  /\ c.defaultProfile \in DOMAIN c.profiles
  /\ \A p \in DOMAIN c.profiles :
       Decides(c.profiles[p].forUrls) /\ Decides(c.profiles[p].forCategoryGroups)

ASSUME ConfigsAssumption == Versions \subseteq Configs /\ \A c \in Configs : IsConfig(c)
ASSUME LookupsAssumption ==
  \A l \in Lookups : IsFiniteSet(l.override) /\ Cardinality(l.override) <= 1
ASSUME NumbersAssumption == now \in Nat /\ MaxChanges \in Nat

VARIABLES
  config,           \* the configuration in the database
  lookup,           \* [override, webroot]: sets of categories
  pc,               \* which step of the decision is next
  child,            \* the row that get_child returned
  categorizations,
  forUrls, forCategoryGroups,   \* decisions fetched so far
  matchingGroups,               \* matchingCategoryGroupIds
  result,           \* code, timesSet (utcTime and childTime), profile, group
  \* history of this decision
  seen,             \* configurations since it began, in their order
  failures          \* queries that failed

locals  == <<child, categorizations, forUrls, forCategoryGroups, matchingGroups>>
vars    == <<config, lookup, pc, locals, result, seen, failures>>

-----------------------------------------------------------------------------
Steps == {"child", "categorize", "access", "tmpAccess", "profile", "urlList",
          "groupList", "categories", "group", "done"}

NoDecisions == <<>>

ChildOf(c) == [status |-> c.status, defaultProfile |-> c.defaultProfile]
NoChild == [status |-> "absent"]

\* What the two lists of a profile have, nothing when it was deleted.
DecisionsOf(c, profile) ==
  IF profile \in DOMAIN c.profiles
  THEN c.profiles[profile]
  ELSE [forUrls |-> NoDecisions, forCategoryGroups |-> NoDecisions]

NoResult == [code |-> "none", timesSet |-> FALSE, profile |-> FALSE, group |-> {}]

StartOfDecision ==
  /\ lookup' \in Lookups
  /\ pc' = "child"
  /\ child' = NoChild /\ categorizations' = {}
  /\ forUrls' = NoDecisions /\ forCategoryGroups' = NoDecisions
  /\ matchingGroups' = {}
  /\ result' = NoResult
  /\ failures' = {}

Init ==
  /\ config \in Configs /\ lookup \in Lookups
  /\ pc = "child"
  /\ child = NoChild /\ categorizations = {}
  /\ forUrls = NoDecisions /\ forCategoryGroups = NoDecisions
  /\ matchingGroups = {}
  /\ result = NoResult
  /\ seen = <<config>> /\ failures = {}

At(step) == pc = step /\ UNCHANGED <<config, lookup, seen>>

\* The result so far gets its code, and is sent and logged.
Answer(code) ==
  /\ pc' = "done"
  /\ result' = [result EXCEPT !.code = code]

\* A query whose failure is logged and then treated like this.
Fails == failures' = failures \cup {pc}
Succeeds == UNCHANGED failures

-----------------------------------------------------------------------------
(* workerFunction() *)

\* Child::create(): without a child the worker answers RES_OK.
FetchChild ==
  /\ At("child")
  /\ \/ /\ Succeeds
        /\ config.status # "absent"
        /\ child' = ChildOf(config)
        /\ pc' = "categorize"
        /\ UNCHANGED result
     \/ /\ IF config.status = "absent" THEN Succeeds \/ Fails ELSE Fails
        /\ Answer("RES_OK")
        /\ UNCHANGED child
  /\ UNCHANGED <<categorizations, forUrls, forCategoryGroups, matchingGroups>>

WithoutPrivateIPs(categories) == categories \ {PrivateIp}

\* findCategorization(), then BcLookup() unless the user is free or an override
\* was found.
Categorize ==
  /\ At("categorize")
  /\ categorizations' =
       IF child.status = "free" THEN lookup.override
       ELSE WithoutPrivateIPs(IF lookup.override # {} THEN lookup.override
                                                       ELSE lookup.webroot)
  /\ pc' = "access"
  /\ result' = [result EXCEPT !.timesSet = TRUE]
  /\ UNCHANGED <<child, forUrls, forCategoryGroups, matchingGroups, failures>>

-----------------------------------------------------------------------------
(* queryDatabase() *)

\* The statement check_access_control.
WholeDay == [from |-> 0, to |-> 0]
HasInternetAccess(schedule) ==
  \E w \in schedule : (w.from <= now /\ now <= w.to) \/ w = WholeDay

HasTemporaryInternetAccess(grants) == \E g \in grants : now <= g.start + g.duration

\* Mutated forms, each named for the mistake, precede what they mutate.
AccessUnknown_Refused == "tmpAccess"
AccessUnknown == "profile"

\* hasInternetAccess(); a failure counts as access.
CheckAccess ==
  /\ At("access")
  /\ \/ Succeeds
        /\ pc' = IF HasInternetAccess(config.schedule) THEN "profile" ELSE "tmpAccess"
     \/ Fails /\ pc' = AccessUnknown
  /\ UNCHANGED <<locals, result>>

\* hasTemporaryInternetAccess(); a failure counts as access.
CheckTmpAccess ==
  /\ At("tmpAccess")
  /\ \/ Fails /\ pc' = "profile" /\ UNCHANGED result
     \/ /\ Succeeds
        /\ HasTemporaryInternetAccess(config.grants)
        /\ pc' = "profile"
        /\ UNCHANGED result
     \/ /\ Succeeds
        /\ ~HasTemporaryInternetAccess(config.grants)
        /\ Answer("RES_INTERNET_ACCESS_FORBIDDEN")
  /\ UNCHANGED locals

\* A query of queryDatabase() without which it answers RES_OK.
FailsOpen == Fails /\ Answer("RES_OK") /\ UNCHANGED locals

\* Profile::create(), three queries about the profile that the child had when it was
\* fetched; its configuration is not looked at again.
FetchProfile ==
  /\ At("profile")
  /\ \/ /\ Succeeds
        /\ child.defaultProfile \in DOMAIN config.profiles
        /\ pc' = "urlList"
        /\ UNCHANGED <<locals, result>>
     \/ /\ Succeeds
        /\ child.defaultProfile \notin DOMAIN config.profiles
        /\ Answer("RES_OK")
        /\ UNCHANGED locals
     \/ FailsOpen

FetchUrlDecisions ==
  /\ At("urlList")
  /\ \/ /\ Succeeds
        /\ forUrls' = DecisionsOf(config, child.defaultProfile).forUrls
        /\ pc' = "groupList"
        /\ UNCHANGED <<child, categorizations, forCategoryGroups, matchingGroups, result>>
     \/ FailsOpen

FetchCategoryGroupDecisions ==
  /\ At("groupList")
  /\ \/ /\ Succeeds
        /\ forCategoryGroups' = DecisionsOf(config, child.defaultProfile).forCategoryGroups
        /\ result' = [result EXCEPT !.profile = TRUE]
        /\ pc' = "categories"
        /\ UNCHANGED <<child, categorizations, forUrls, matchingGroups>>
     \/ FailsOpen

OrUncategorized(groups) == IF groups = {} THEN {uncategorizedGroupId} ELSE groups

\* getCategoryGroupIds(): no query is made for no categories.
FetchCategories ==
  /\ At("categories")
  /\ \/ /\ Succeeds
        /\ matchingGroups' =
             OrUncategorized({GroupOf[c] : c \in categorizations \cap DOMAIN GroupOf})
        /\ pc' = "group"
        /\ UNCHANGED <<child, categorizations, forUrls, forCategoryGroups, result>>
     \/ categorizations # {} /\ FailsOpen

\* anyElementContainsDecision()
Having(decisions, decision, elements) ==
  {e \in elements \cap DOMAIN decisions : decisions[e] = decision}

BlockedGroups == Having(forCategoryGroups, "blocked", matchingGroups)

\* The end of queryDatabase(), with the best matching url pattern.
Code_GroupsFirst(best) ==
  IF BlockedGroups # {} THEN "RES_CATEGORY_BLOCKED_CUSTOM"
  ELSE IF Having(forUrls, "blocked", best) # {} THEN "RES_URL_BLOCKED_CUSTOM"
  ELSE "RES_OK"

Code(best) ==
  IF Having(forUrls, "blocked", best) # {} THEN "RES_URL_BLOCKED_CUSTOM"
  ELSE IF Having(forUrls, "allowed", best) # {} THEN "RES_OK"
  ELSE IF BlockedGroups # {} THEN "RES_CATEGORY_BLOCKED_CUSTOM"
  ELSE "RES_OK"

NamedGroups_Any == matchingGroups
NamedGroups == IF BlockedGroups # {} THEN BlockedGroups ELSE matchingGroups

\* CategoryGroup::Create() for a blocked group, else for any; then the answer.
FetchGroupAndDecide ==
  /\ At("group")
  /\ \/ /\ Succeeds
        /\ \E g \in NamedGroups :
             result' = [result EXCEPT
                          !.code = Code(MostSpecific(DOMAIN forUrls, requestUrl)),
                          !.group = {g}]
        /\ pc' = "done"
        /\ UNCHANGED locals
     \/ FailsOpen

-----------------------------------------------------------------------------
(* The next request, and the parents *)

NextRequest ==
  /\ pc = "done"
  /\ StartOfDecision
  /\ seen' = <<config>>
  /\ UNCHANGED config

ChangeConfig ==
  /\ pc # "done"
  /\ Len(seen) <= MaxChanges
  /\ config \in Versions
  /\ config' \in Versions \ {config}
  /\ seen' = Append(seen, config')
  /\ UNCHANGED <<lookup, pc, locals, result, failures>>

Next ==
  \/ FetchChild \/ Categorize \/ CheckAccess \/ CheckTmpAccess
  \/ FetchProfile \/ FetchUrlDecisions \/ FetchCategoryGroupDecisions
  \/ FetchCategories \/ FetchGroupAndDecide
  \/ NextRequest \/ ChangeConfig

Spec == Init /\ [][Next]_vars

-----------------------------------------------------------------------------
(* What configurations mean for the request *)

ForbidsNow(c) == ~HasInternetAccess(c.schedule)
GrantsNow(c)  == HasTemporaryInternetAccess(c.grants)

\* The decision of a profile on the url, by its best matching pattern.
UrlIs(decision, c, profile) ==
  LET forUrl == DecisionsOf(c, profile).forUrls
  IN  \E p \in MostSpecific(DOMAIN forUrl, requestUrl) : forUrl[p] = decision

Categories(c) ==
  IF c.status = "free" THEN lookup.override
  ELSE (IF lookup.override # {} THEN lookup.override ELSE lookup.webroot) \ {PrivateIp}

GroupsFor(c) ==
  LET known == {GroupOf[k] : k \in Categories(c) \cap DOMAIN GroupOf}
  IN  IF known = {} THEN {uncategorizedGroupId} ELSE known

BlocksAnyOf(groups, c, profile) ==
  LET forGroup == DecisionsOf(c, profile).forCategoryGroups
  IN  \E g \in groups \cap DOMAIN forGroup : forGroup[g] = "blocked"

\* For a known user.
Verdict(c) ==
  IF ForbidsNow(c) /\ ~GrantsNow(c) THEN "RES_INTERNET_ACCESS_FORBIDDEN"
  ELSE IF UrlIs("blocked", c, c.defaultProfile) THEN "RES_URL_BLOCKED_CUSTOM"
  ELSE IF \/ UrlIs("allowed", c, c.defaultProfile)
          \/ ~BlocksAnyOf(GroupsFor(c), c, c.defaultProfile) THEN "RES_OK"
  ELSE "RES_CATEGORY_BLOCKED_CUSTOM"

-----------------------------------------------------------------------------
(* Properties *)

Blocks == {"RES_INTERNET_ACCESS_FORBIDDEN", "RES_URL_BLOCKED_CUSTOM",
           "RES_CATEGORY_BLOCKED_CUSTOM"}

ProfileIds == UNION {DOMAIN c.profiles : c \in Configs}

TypeOK ==
  /\ config \in Configs /\ lookup \in Lookups
  /\ pc \in Steps
  /\ child \in {NoChild} \cup [status : {"free", "restricted"}, defaultProfile : ProfileIds]
  /\ result.code \in Blocks \cup {"none", "RES_OK"}
  /\ result.timesSet \in BOOLEAN /\ result.profile \in BOOLEAN
  /\ result.group \subseteq matchingGroups /\ matchingGroups \subseteq Groups
  /\ (pc = "group" => matchingGroups # {})
  /\ seen \in Seq(Configs) /\ failures \subseteq Steps

Undisturbed == Len(seen) = 1

\* When nothing fails or changes the nine steps compute, for a user that has a child,
\* the verdict of the configuration.
DecidesVerdict ==
  pc = "done" /\ Undisturbed /\ failures = {} /\ config.status # "absent"
    => result.code = Verdict(config)

\* The configuration may change between the queries, so that the answer may be
\* that of no single version of it.  But nothing else restricts: times forbid that
\* forbade when they were read, and grants were none later on; urls and categories
\* are blocked by a profile that the child had before, as that profile was then or
\* later, though the child may have another one by then.  So failures only ever
\* open: no request is blocked because a query failed.
RestrictionHasSource ==
  pc = "done" =>
    /\ result.code = "RES_INTERNET_ACCESS_FORBIDDEN" =>
         \E i, j \in DOMAIN seen : i <= j /\ ForbidsNow(seen[i]) /\ ~GrantsNow(seen[j])
    /\ result.code = "RES_URL_BLOCKED_CUSTOM" =>
         \E i, j \in DOMAIN seen : i <= j /\ UrlIs("blocked", seen[j], seen[i].defaultProfile)
    /\ result.code = "RES_CATEGORY_BLOCKED_CUSTOM" =>
         \E i, j, k \in DOMAIN seen :
           LET profile == seen[i].defaultProfile
           IN  /\ i <= j /\ j <= k
               /\ ~UrlIs("blocked", seen[j], profile) /\ ~UrlIs("allowed", seen[j], profile)
               /\ BlocksAnyOf(GroupsFor(seen[i]), seen[k], profile)

\* A response that blocks by url or category names the profile that does ("profile
\* info not set"), and one that blocks by category also a group that is blocked.
BlockNamesItsReason ==
  /\ result.code \in {"RES_URL_BLOCKED_CUSTOM", "RES_CATEGORY_BLOCKED_CUSTOM"}
       => result.profile
  /\ result.code = "RES_CATEGORY_BLOCKED_CUSTOM"
       => result.group # {} /\ result.group \subseteq BlockedGroups

\* What is passed to RequestLogger::logRequest() has its times set ("time must be
\* set").
LoggedWithTimes == pc = "done" => result.timesSet
=============================================================================
