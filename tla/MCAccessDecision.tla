---------------------------- MODULE MCAccessDecision ----------------------------
(* Constant values to check AccessDecision with. *)
EXTENDS AccessDecision, TLC

\* www.onet.pl/ab at 12 o'clock.
MCUrl == [host |-> <<"www", "onet", "pl">>, path |-> <<"/", "a", "b">>]
MCNow == 12

MCGroupOf == [c \in {"news", "games", "private"} |->
                IF c = "news" THEN "media" ELSE "leisure"]

\* Categories the database does not know, several of them, and overrides.
MCLookups ==
  [override : {{}}, webroot : {{}, {"news"}, {"news", "games"}, {"private"}, {"unknown"}}]
    \cup [override : {{"games"}, {"private"}}, webroot : {{"news"}}]

\* Two patterns that match, one of them better, and one that does not.
General == AllSubdomains(<<"onet", "pl">>)
Special == DomainWithPath(<<"www", "onet", "pl">>, <<"/", "a">>)
Other   == DomainWithPath(<<"onet", "pl">>, <<"/">>)

Verdicts == {"blocked", "allowed"}
DecisionsOn(elements) == UNION {[E -> Verdicts] : E \in SUBSET elements}

\* Now within the window, out of it, and all day.
Schedules == {{}, {[from |-> 12, to |-> 15]}, {[from |-> 8, to |-> 11]},
              {[from |-> 0, to |-> 0]}}
Grants == {{}, {[start |-> 10, duration |-> 2]}, {[start |-> 9, duration |-> 2]}}

Lists(urls, groups) == [forUrls : urls, forCategoryGroups : groups]

ConfigsOf(statuses, schedules, grants, defaults, profiles) ==
  [status : statuses, schedule : schedules, grants : grants,
   defaultProfile : defaults, profiles : profiles]

\* Every kind of configuration.
AllConfigs ==
  ConfigsOf({"free", "restricted"}, {{}, {[from |-> 12, to |-> 15]}},
            {{}, {[start |-> 10, duration |-> 2]}}, {"own"},
            [{"own"} -> Lists(DecisionsOn({General, Special}), DecisionsOn({"media", "none"}))])
    \cup ConfigsOf({"absent", "restricted"}, Schedules, Grants, {"own"},
                   [{"own"} -> Lists({General :> "blocked" @@ Other :> "allowed"}, {<<>>})])

\* A few that differ in one or two respects, to change between: times, the lists of
\* a profile, the profile of the child, and what becomes of its former one.
Open  == Lists({<<>>}, {<<>>})
Media == Lists({<<>>}, {"media" :> "blocked"})
WholeDays == {{[from |-> 0, to |-> 0]}}

SomeConfigs ==
  ConfigsOf({"restricted"}, {{}} \cup WholeDays, {{}, {[start |-> 10, duration |-> 2]}},
            {"own"}, [{"own"} -> Open \cup Media])
    \cup ConfigsOf({"restricted"}, WholeDays, {{}}, {"own"},
                   [{"own"} -> Lists({General :> v : v \in Verdicts}, {"media" :> "blocked"})])
    \cup ConfigsOf({"restricted"}, WholeDays, {{}}, {"other"},
                   {[other |-> o, own |-> p] :
                      o \in Open, p \in Lists({<<>>, General :> "blocked"}, {<<>>})})
    \cup ConfigsOf({"restricted"}, WholeDays, {{}}, {"other"}, [{"other"} -> Open \cup Media])
    \cup ConfigsOf({"absent", "free"}, WholeDays, {{}}, {"own"},
                   [{"own"} -> Lists({<<>>}, {"none" :> "blocked"})])

Everything == AllConfigs \cup SomeConfigs
NoVersions == {}
=============================================================================
