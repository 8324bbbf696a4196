----------------------- MODULE AccessDecisionProofs -----------------------
(***************************************************************************)
(* Proofs about AccessDecision and about the loop it calls,                 *)
(* UrlPatternSelection.                                                     *)
(*                                                                         *)
(* The loop: for every profile and url, the pattern that it keeps is the    *)
(* most specific one, and the assertions of isMoreSpecificThan() hold.  All  *)
(* rests on IsMoreSpecificThan being a total order of the patterns that     *)
(* match one url, which it is not of all.                                   *)
(*                                                                         *)
(* The decision: everything fetched so far was, when it was fetched, part   *)
(* of the configuration then in force, so it is part of a configuration     *)
(* seen during the decision, and of none before the one with the child - of  *)
(* the only one, if there was only one.                                     *)
(***************************************************************************)
EXTENDS AccessDecision, UrlPatternSelection, TLAPS

-----------------------------------------------------------------------------
(* Sequences of labels and of characters *)

\* Two suffixes of one sequence are suffixes of each other, the shorter of the
\* longer; of the same length they are equal.
LEMMA SuffixesComparable ==
  ASSUME NEW S, NEW s \in Seq(S), NEW t \in Seq(S), NEW u \in Seq(S),
         IsSuffixOf(s, u), IsSuffixOf(t, u), Len(s) <= Len(t)
  PROVE  IsSuffixOf(s, t)
<1>1. /\ Len(s) \in Nat /\ Len(t) \in Nat /\ Len(u) \in Nat
      /\ Len(s) <= Len(t) /\ Len(t) <= Len(u)
  BY DEF IsSuffixOf
<1>2. /\ s = SubSeq(u, Len(u) - Len(s) + 1, Len(u))
      /\ t = SubSeq(u, Len(u) - Len(t) + 1, Len(u))
  BY DEF IsSuffixOf
<1>3. /\ SubSeq(t, Len(t) - Len(s) + 1, Len(t)) \in Seq(S)
      /\ Len(SubSeq(t, Len(t) - Len(s) + 1, Len(t))) = Len(s)
  BY <1>1
<1>4. ASSUME NEW i \in 1..Len(s)
      PROVE  s[i] = SubSeq(t, Len(t) - Len(s) + 1, Len(t))[i]
  <2>1. s[i] = u[Len(u) - Len(s) + i]
    <3>1. SubSeq(u, Len(u) - Len(s) + 1, Len(u))[i] = u[Len(u) - Len(s) + i]
      BY <1>1
    <3>. QED BY <1>2, <3>1
  <2>2. SubSeq(t, Len(t) - Len(s) + 1, Len(t))[i] = t[Len(t) - Len(s) + i]
    BY <1>1
  <2>3. Len(t) - Len(s) + i \in 1..Len(t)
    BY <1>1
  <2>4. t[Len(t) - Len(s) + i] = u[Len(u) - Len(t) + (Len(t) - Len(s) + i)]
    BY <1>1, <1>2, <2>3
  <2>. QED BY <1>1, <2>1, <2>2, <2>4
<1>5. s = SubSeq(t, Len(t) - Len(s) + 1, Len(t))
  <2>. DEFINE x == SubSeq(t, Len(t) - Len(s) + 1, Len(t))
  <2>1. x \in Seq(S) /\ Len(x) = Len(s) /\ \A i \in 1..Len(s) : s[i] = x[i]
    BY <1>3, <1>4
  <2>. HIDE DEF x
  <2>2. s = x
    BY <2>1
  <2>. QED BY <2>2 DEF x
<1>. QED BY <1>5 DEF IsSuffixOf

LEMMA PrefixesComparable ==
  ASSUME NEW S, NEW s \in Seq(S), NEW t \in Seq(S), NEW u \in Seq(S),
         IsPrefixOf(s, u), IsPrefixOf(t, u), Len(s) <= Len(t)
  PROVE  IsPrefixOf(s, t)
<1>1. /\ Len(s) \in Nat /\ Len(t) \in Nat /\ Len(u) \in Nat
      /\ Len(s) <= Len(t) /\ Len(t) <= Len(u)
  BY DEF IsPrefixOf
<1>2. s = SubSeq(u, 1, Len(s)) /\ t = SubSeq(u, 1, Len(t))
  BY DEF IsPrefixOf
<1>3. SubSeq(t, 1, Len(s)) \in Seq(S) /\ Len(SubSeq(t, 1, Len(s))) = Len(s)
  BY <1>1
<1>4. ASSUME NEW i \in 1..Len(s) PROVE s[i] = SubSeq(t, 1, Len(s))[i]
  <2>1. s[i] = u[i] /\ t[i] = u[i]
    BY <1>1, <1>2
  <2>. QED BY <1>1, <2>1
<1>. QED BY <1>1, <1>3, <1>4 DEF IsPrefixOf

-----------------------------------------------------------------------------
(* The order of the patterns that match one url *)

LEMMA PatternFields ==
  ASSUME NEW p \in Pattern(Label, Char)
  PROVE  /\ p.hostName \in Seq(Label) /\ p.path \in Seq(Char)
         /\ p.kind \in {MATCH_ALL_SUBDOMAINS, MATCH_DOMAIN_WITH_PATH}
         /\ p.kind = MATCH_ALL_SUBDOMAINS => p.path = <<>>
         /\ p = [kind |-> p.kind, hostName |-> p.hostName, path |-> p.path]
<1>1. <<>> \in Seq(Char)
  OBVIOUS
<1>2. CASE p \in [kind : {MATCH_ALL_SUBDOMAINS}, hostName : Seq(Label), path : {<<>>}]
  BY <1>1, <1>2
<1>3. CASE p \in [kind : {MATCH_DOMAIN_WITH_PATH}, hostName : Seq(Label),
                  path : Seq(Char) \ {<<>>}]
  BY <1>3 DEF MATCH_ALL_SUBDOMAINS, MATCH_DOMAIN_WITH_PATH
<1>. QED BY <1>2, <1>3 DEF Pattern

\* The assertions of isMoreSpecificThan(), for patterns that match one url.
LEMMA MatchingComparable ==
  ASSUME NEW p \in Pattern(Label, Char), NEW q \in Pattern(Label, Char),
         NEW url \in Url(Label, Char), MatchesUrl(p, url), MatchesUrl(q, url)
  PROVE  Comparable(p, q)
<1>. /\ url.host \in Seq(Label) /\ url.path \in Seq(Char)
  BY DEF Url
<1>0. /\ p.hostName \in Seq(Label) /\ q.hostName \in Seq(Label)
      /\ p.path \in Seq(Char) /\ q.path \in Seq(Char)
      /\ p.kind \in {MATCH_ALL_SUBDOMAINS, MATCH_DOMAIN_WITH_PATH}
  BY PatternFields
<1>1. IsSuffixOf(p.hostName, url.host) /\ IsSuffixOf(q.hostName, url.host)
  BY DEF MatchesUrl, HostNameMatches
<1>2. IsSuffixOf(p.hostName, q.hostName) \/ IsSuffixOf(q.hostName, p.hostName)
  <2>1. Len(p.hostName) <= Len(q.hostName) \/ Len(q.hostName) <= Len(p.hostName)
    BY <1>0
  <2>. QED BY <1>0, <1>1, <2>1, SuffixesComparable
<1>3. ASSUME p.kind = MATCH_DOMAIN_WITH_PATH, q.kind = MATCH_DOMAIN_WITH_PATH
      PROVE  /\ p.hostName = q.hostName
             /\ IsPrefixOf(p.path, q.path) \/ IsPrefixOf(q.path, p.path)
  <2>1. /\ Len(p.hostName) = Len(url.host) /\ Len(q.hostName) = Len(url.host)
        /\ IsPrefixOf(p.path, url.path) /\ IsPrefixOf(q.path, url.path)
    BY <1>3 DEF MatchesUrl, HostNameMatches, PathMatches,
                MATCH_ALL_SUBDOMAINS, MATCH_DOMAIN_WITH_PATH
  <2>2. p.hostName = q.hostName
    BY <1>0, <1>1, <2>1 DEF IsSuffixOf
  <2>3. Len(p.path) <= Len(q.path) \/ Len(q.path) <= Len(p.path)
    BY <1>0
  <2>. QED BY <1>0, <2>1, <2>2, <2>3, PrefixesComparable
<1>. QED BY <1>0, <1>2, <1>3 DEF Comparable

\* Of two patterns that match one url one is more specific than the other.
LEMMA MoreSpecificTotal ==
  ASSUME NEW p \in Pattern(Label, Char), NEW q \in Pattern(Label, Char),
         NEW url \in Url(Label, Char), MatchesUrl(p, url), MatchesUrl(q, url),
         p # q
  PROVE  IsMoreSpecificThan(p, q) \/ IsMoreSpecificThan(q, p)
<1>0. /\ p.hostName \in Seq(Label) /\ q.hostName \in Seq(Label)
      /\ p.path \in Seq(Char) /\ q.path \in Seq(Char)
      /\ p.kind \in {1, 2} /\ q.kind \in {1, 2}
  BY PatternFields DEF MATCH_ALL_SUBDOMAINS, MATCH_DOMAIN_WITH_PATH
<1>1. Comparable(p, q)
  BY MatchingComparable
<1>2. CASE p.kind # q.kind
  BY <1>0, <1>2 DEF IsMoreSpecificThan
<1>3. CASE p.kind = q.kind /\ p.kind = MATCH_ALL_SUBDOMAINS
  <2>1. SUFFICES ASSUME Len(p.hostName) = Len(q.hostName) PROVE FALSE
    BY <1>0, <1>3 DEF IsMoreSpecificThan
  <2>2. p.hostName = q.hostName
    BY <1>0, <1>1, <1>3, <2>1 DEF Comparable, IsSuffixOf,
       MATCH_ALL_SUBDOMAINS, MATCH_DOMAIN_WITH_PATH
  <2>. QED BY <1>3, <2>2, PatternFields
<1>4. CASE p.kind = q.kind /\ p.kind = MATCH_DOMAIN_WITH_PATH
  <2>1. SUFFICES ASSUME Len(p.path) = Len(q.path) PROVE FALSE
    BY <1>0, <1>4 DEF IsMoreSpecificThan
  <2>2. p.hostName = q.hostName /\ p.path = q.path
    BY <1>0, <1>1, <1>4, <2>1 DEF Comparable, IsPrefixOf,
       MATCH_ALL_SUBDOMAINS, MATCH_DOMAIN_WITH_PATH
  <2>. QED BY <1>4, <2>2, PatternFields
<1>. QED BY <1>0, <1>2, <1>3, <1>4 DEF MATCH_ALL_SUBDOMAINS, MATCH_DOMAIN_WITH_PATH

\* It is a strict order, whatever the patterns match.
LEMMA MoreSpecificOrder ==
  ASSUME NEW p \in Pattern(Label, Char), NEW q \in Pattern(Label, Char),
         NEW r \in Pattern(Label, Char), IsMoreSpecificThan(p, q)
  PROVE  /\ ~IsMoreSpecificThan(q, p)
         /\ IsMoreSpecificThan(q, r) => IsMoreSpecificThan(p, r)
<1>1. \A x \in {p, q, r} :
         Len(x.hostName) \in Nat /\ Len(x.path) \in Nat /\ x.kind \in {1, 2}
  BY PatternFields DEF MATCH_ALL_SUBDOMAINS, MATCH_DOMAIN_WITH_PATH
<1>. QED BY <1>1 DEF IsMoreSpecificThan, MATCH_ALL_SUBDOMAINS, MATCH_DOMAIN_WITH_PATH

-----------------------------------------------------------------------------
(* One round of the loop *)

HasBest(patterns, url, best) ==
  /\ best = MostSpecific(patterns, url)
  /\ (\E p \in patterns : MatchesUrl(p, url)) => best # {}

\* Comparing a new pattern with the best one is as good as comparing it with all.
LEMMA AddPattern ==
  ASSUME NEW url \in Url(Label, Char),
         NEW patterns \in SUBSET Pattern(Label, Char),
         NEW p \in Pattern(Label, Char), p \notin patterns,
         NEW best, HasBest(patterns, url, best)
  PROVE  HasBest(patterns \cup {p}, url,
                 IF MatchesUrl(p, url) /\ (\A b \in best : IsMoreSpecificThan(p, b))
                 THEN {p} ELSE best)
<1>. DEFINE matching == {q \in patterns : MatchesUrl(q, url)}
            all == patterns \cup {p}
<1>1. \A q : q \in best <=> q \in matching
                            /\ \A r \in matching \ {q} : IsMoreSpecificThan(q, r)
  BY DEF HasBest, MostSpecific
<1>2. matching # {} => best # {}
  BY DEF HasBest
<1>3. CASE ~MatchesUrl(p, url)
  <2>1. {q \in all : MatchesUrl(q, url)} = matching
    BY <1>3
  <2>2. MostSpecific(all, url) = best
    BY <2>1 DEF HasBest, MostSpecific
  <2>. QED BY <1>2, <1>3, <2>1, <2>2 DEF HasBest
<1>4. CASE MatchesUrl(p, url) /\ \A b \in best : IsMoreSpecificThan(p, b)
  <2>1. \A q \in matching : IsMoreSpecificThan(p, q)
    <3>. SUFFICES ASSUME NEW q \in matching PROVE IsMoreSpecificThan(p, q)
      OBVIOUS
    <3>1. PICK b \in best : TRUE
      BY <1>2
    <3>2. b = q \/ IsMoreSpecificThan(b, q)
      BY <1>1, <3>1
    <3>3. IsMoreSpecificThan(p, b)
      BY <1>4, <3>1
    <3>4. b \in Pattern(Label, Char) /\ q \in Pattern(Label, Char)
      BY <1>1, <3>1
    <3>. QED BY <3>2, <3>3, <3>4, MoreSpecificOrder
  <2>2. {q \in all : MatchesUrl(q, url)} = matching \cup {p}
    BY <1>4
  <2>3. \A q \in matching : ~IsMoreSpecificThan(q, p)
    BY <2>1, MoreSpecificOrder
  <2>4. MostSpecific(all, url) = {p}
    BY <2>1, <2>2, <2>3 DEF MostSpecific
  <2>. QED BY <1>4, <2>4 DEF HasBest
<1>5. CASE MatchesUrl(p, url) /\ ~(\A b \in best : IsMoreSpecificThan(p, b))
  <2>1. PICK b \in best : ~IsMoreSpecificThan(p, b)
    BY <1>5
  <2>2. b \in matching /\ b \in Pattern(Label, Char) /\ b # p
    BY <1>1, <2>1
  <2>3. IsMoreSpecificThan(b, p)
    BY <1>5, <2>1, <2>2, MoreSpecificTotal
  <2>4. best = {b}
    BY <1>1, <2>1, <2>2, MoreSpecificOrder
  <2>5. {q \in all : MatchesUrl(q, url)} = matching \cup {p}
    BY <1>5
  <2>6. MostSpecific(all, url) = {b}
    <3>1. \A q \in matching \cup {p} :
             q # b => IsMoreSpecificThan(b, q) /\ ~IsMoreSpecificThan(q, b)
      BY <1>1, <2>1, <2>2, <2>3, MoreSpecificOrder
    <3>. QED BY <2>2, <2>5, <3>1 DEF MostSpecific
  <2>. QED BY <1>5, <2>4, <2>6 DEF HasBest
<1>. QED BY <1>3, <1>4, <1>5

-----------------------------------------------------------------------------
(* The loop *)

\* For every set of profiles and urls, in any order of the patterns, the loop has
\* the most specific matching pattern of those it has looked at.
THEOREM SelectionBest == SelectionSpec => [](SelectionTypeOK /\ BestIsMostSpecific)
<1>. DEFINE Inv == SelectionTypeOK /\ BestIsMostSpecific
<1>1. SelectionInit => Inv
  <2>. SUFFICES ASSUME SelectionInit PROVE Inv
    OBVIOUS
  <2>1. SelectionTypeOK
    <3>1. profileUrlPatterns \in Seq(Pattern(Label, Char))
      BY ProfilesAssumption DEF SelectionInit
    <3>2. Len(profileUrlPatterns) \in Nat
      BY <3>1
    <3>. QED BY <3>2 DEF SelectionInit, SelectionTypeOK
  <2>2. Visited = {}
    BY DEF SelectionInit, Visited
  <2>. QED BY <2>1, <2>2 DEF SelectionInit, BestIsMostSpecific, MostSpecific
<1>2. Inv /\ [Look]_selectionVars => Inv'
  <2>. SUFFICES ASSUME Inv, [Look]_selectionVars PROVE Inv'
    OBVIOUS
  <2>1. CASE UNCHANGED selectionVars
    BY <2>1 DEF selectionVars, SelectionTypeOK, BestIsMostSpecific, Visited
  <2>2. CASE Look
    <3>. DEFINE profile == profileUrlPatterns
    <3>1. /\ profile \in Seq(Pattern(Label, Char))
          /\ \A i, j \in DOMAIN profile : profile[i] = profile[j] => i = j
          /\ urlToMatch \in Url(Label, Char)
      BY ProfilesAssumption, UrlsAssumption DEF SelectionTypeOK
    <3>2. Len(profile) \in Nat /\ DOMAIN profile = 1..Len(profile)
      BY <3>1
    <3>3. next \in 1..Len(profile) /\ Current \in Pattern(Label, Char)
      BY <2>2, <3>1, <3>2 DEF Look, Current
    <3>4. Visited \in SUBSET Pattern(Label, Char) /\ Current \notin Visited
      BY <3>1, <3>2, <3>3 DEF Visited, Current
    <3>5. Visited' = Visited \cup {Current}
      BY <2>2, <3>2, <3>3 DEF Look, Visited, Current
    <3>6. HasBest(Visited, urlToMatch, bestMatching)
      BY DEF BestIsMostSpecific, HasBest
    <3>7. HasBest(Visited \cup {Current}, urlToMatch, bestMatching')
      <4>1. bestMatching' =
              IF /\ MatchesUrl(Current, urlToMatch)
                 /\ \A b \in bestMatching : IsMoreSpecificThan(Current, b)
              THEN {Current} ELSE bestMatching
        BY <2>2 DEF Look, BetterThanBest
      <4>. QED BY <3>1, <3>3, <3>4, <3>6, <4>1, AddPattern
    <3>8. BestIsMostSpecific'
      BY <2>2, <3>5, <3>7 DEF BestIsMostSpecific, HasBest, Look
    <3>9. SelectionTypeOK'
      BY <2>2, <3>2, <3>3 DEF SelectionTypeOK, Look
    <3>. QED BY <3>8, <3>9
  <2>. QED BY <2>1, <2>2
<1>. QED BY <1>1, <1>2, PTL DEF SelectionSpec

\* For every profile and url isMoreSpecificThan() is called with patterns that its
\* assertions accept.
THEOREM SelectionComparable == SelectionSpec => []OnlyComparableCompared
<1>1. SelectionTypeOK /\ BestIsMostSpecific => OnlyComparableCompared
  <2>. SUFFICES ASSUME SelectionTypeOK, BestIsMostSpecific,
                       next \in DOMAIN profileUrlPatterns,
                       MatchesUrl(Current, urlToMatch),
                       NEW b \in bestMatching
                PROVE  Comparable(Current, b)
    BY DEF OnlyComparableCompared
  <2>1. /\ profileUrlPatterns \in Seq(Pattern(Label, Char))
        /\ urlToMatch \in Url(Label, Char)
    BY ProfilesAssumption, UrlsAssumption DEF SelectionTypeOK
  <2>2. Current \in Pattern(Label, Char)
    BY <2>1 DEF Current
  <2>3. b \in Pattern(Label, Char) /\ MatchesUrl(b, urlToMatch)
    BY DEF SelectionTypeOK, BestIsMostSpecific, MostSpecific
  <2>. QED BY <2>1, <2>2, <2>3, MatchingComparable
<1>. QED BY <1>1, SelectionBest, PTL

\* When the loop ends it has the most specific of all the patterns of the profile
\* that match the url, and no second one: what FetchGroupAndDecide goes on with.
SelectionEnded ==
  next \notin DOMAIN profileUrlPatterns =>
    /\ bestMatching = MostSpecific({profileUrlPatterns[i] : i \in DOMAIN profileUrlPatterns},
                                   urlToMatch)
    /\ \A p, q \in bestMatching : p = q

\* selectBestMatchingUrlPatternIds() returns MostSpecific() of the patterns it is
\* given, and at most one of them.
THEOREM SelectionResult == SelectionSpec => []SelectionEnded
<1>1. SelectionTypeOK /\ BestIsMostSpecific => SelectionEnded
  <2>. SUFFICES ASSUME SelectionTypeOK, BestIsMostSpecific,
                       next \notin DOMAIN profileUrlPatterns
                PROVE  /\ bestMatching = MostSpecific({profileUrlPatterns[i] :
                                            i \in DOMAIN profileUrlPatterns}, urlToMatch)
                       /\ \A p, q \in bestMatching : p = q
    BY DEF SelectionEnded
  <2>1. profileUrlPatterns \in Seq(Pattern(Label, Char))
    BY ProfilesAssumption DEF SelectionTypeOK
  <2>2. /\ Len(profileUrlPatterns) \in Nat
        /\ DOMAIN profileUrlPatterns = 1..Len(profileUrlPatterns)
    BY <2>1
  <2>3. next = Len(profileUrlPatterns) + 1
    BY <2>2 DEF SelectionTypeOK
  <2>4. Visited = {profileUrlPatterns[i] : i \in DOMAIN profileUrlPatterns}
    BY <2>2, <2>3 DEF Visited
  <2>5. \A p, q \in bestMatching : p = q
    <3>. SUFFICES ASSUME NEW p \in bestMatching, NEW q \in bestMatching, p # q
                  PROVE  FALSE
      OBVIOUS
    <3>1. IsMoreSpecificThan(p, q) /\ IsMoreSpecificThan(q, p)
      BY DEF BestIsMostSpecific, MostSpecific
    <3>. QED BY <3>1, MoreSpecificOrder DEF SelectionTypeOK
  <2>. QED BY <2>4, <2>5 DEF BestIsMostSpecific
<1>. QED BY <1>1, SelectionBest, PTL

-----------------------------------------------------------------------------
(* What the decision rests on at each of its steps *)

\* What findCategorization() and BcLookup() find for a user of this status.
CategoriesOf(status) ==
  IF status = "free" THEN lookup.override
  ELSE WithoutPrivateIPs(IF lookup.override # {} THEN lookup.override
                                                ELSE lookup.webroot)

GroupsOf(categories) ==
  OrUncategorized({GroupOf[c] : c \in categories \cap DOMAIN GroupOf})

\* What was fetched is what a configuration that was seen has, the lists of the
\* profile those of the profile of the child.
ChildAt(i)  == i \in DOMAIN seen /\ child = ChildOf(seen[i])
UrlsAt(j)   == j \in DOMAIN seen /\ forUrls = DecisionsOf(seen[j], child.defaultProfile).forUrls
GroupsAt(k) ==
  /\ k \in DOMAIN seen
  /\ forCategoryGroups = DecisionsOf(seen[k], child.defaultProfile).forCategoryGroups

\* The child, its categories, the decisions and the groups were each fetched, in
\* this order.
ChildSeen      == child.status # "absent" /\ \E i \in Nat : ChildAt(i)
Categorized    == ChildSeen /\ categorizations = CategoriesOf(child.status)
ForbidSeen     == \E i \in DOMAIN seen : ForbidsNow(seen[i])
AccessSeen     == failures = {} => \E i \in DOMAIN seen : ~ForbidsNow(seen[i]) \/ GrantsNow(seen[i])
UrlsSeen       == \E i, j \in Nat : i <= j /\ ChildAt(i) /\ UrlsAt(j)
CategoriesSeen ==
  \E i, j, k \in Nat : i <= j /\ j <= k /\ ChildAt(i) /\ UrlsAt(j) /\ GroupsAt(k)
ListsSeen      == Categorized /\ AccessSeen /\ CategoriesSeen /\ result.profile
AllSeen        == ListsSeen /\ matchingGroups = GroupsOf(categorizations)

\* What each step may rely on.
Reliable ==
  /\ pc = "categorize" => ChildSeen
  /\ pc = "access"     => Categorized
  /\ pc = "tmpAccess"  => Categorized /\ ForbidSeen
  /\ pc = "profile"    => Categorized /\ AccessSeen
  /\ pc = "urlList"    => Categorized /\ AccessSeen
  /\ pc = "groupList"  => Categorized /\ AccessSeen /\ UrlsSeen
  /\ pc = "categories" => ListsSeen
  /\ pc = "group"      => AllSeen

\* The ways to an answer, and a failure.
AnsweredWithoutChild ==
  /\ result.code = "RES_OK"
  /\ \E i \in DOMAIN seen : seen[i].status = "absent"

AnsweredForbidden ==
  /\ result.code = "RES_INTERNET_ACCESS_FORBIDDEN"
  /\ ChildSeen
  /\ \E i, j \in DOMAIN seen : i <= j /\ ForbidsNow(seen[i]) /\ ~GrantsNow(seen[j])

AnsweredWithoutProfile ==
  /\ result.code = "RES_OK"
  /\ ChildSeen
  /\ \E j \in DOMAIN seen : child.defaultProfile \notin DOMAIN seen[j].profiles

AnsweredByProfile ==
  /\ AllSeen
  /\ result.code = Code(MostSpecific(DOMAIN forUrls, requestUrl))
  /\ result.group # {} /\ result.group \subseteq NamedGroups

AnsweredAfterFailure == result.code = "RES_OK" /\ failures # {}

Answered ==
  IF pc = "done"
  THEN \/ AnsweredWithoutChild \/ AnsweredForbidden \/ AnsweredWithoutProfile
       \/ AnsweredByProfile    \/ AnsweredAfterFailure
  ELSE result.code = "none" /\ result.group = {}

Results == [code : Blocks \cup {"none", "RES_OK"}, timesSet : BOOLEAN, profile : BOOLEAN,
            group : SUBSET Groups]

DInv == /\ TypeOK /\ result \in Results
        /\ seen # <<>> /\ config = seen[Len(seen)]
        /\ Reliable /\ Answered

-----------------------------------------------------------------------------
(* The steps of the decision *)

\* The lists of steps and of codes that the proofs distinguish.
LEMMA Names ==
  /\ Steps = {"child", "categorize", "access", "tmpAccess", "profile", "urlList",
              "groupList", "categories", "group", "done"}
  /\ Blocks = {"RES_INTERNET_ACCESS_FORBIDDEN", "RES_URL_BLOCKED_CUSTOM",
               "RES_CATEGORY_BLOCKED_CUSTOM"}
BY DEF Steps, Blocks

LEMMA ConfigParts ==
  ASSUME DInv
  PROVE  /\ config \in Configs /\ IsConfig(config)
         /\ seen \in Seq(Configs) /\ Len(seen) \in Nat /\ DOMAIN seen = 1..Len(seen)
         /\ Len(seen) \in DOMAIN seen /\ seen[Len(seen)] = config
         /\ pc \in Steps /\ result \in Results
<1>1. config \in Configs /\ seen \in Seq(Configs) /\ seen # <<>> /\ seen[Len(seen)] = config
  BY DEF DInv, TypeOK
<1>2. Len(seen) \in Nat \ {0} /\ DOMAIN seen = 1..Len(seen)
  BY <1>1
<1>3. IsConfig(config)
  BY <1>1, ConfigsAssumption
<1>. QED BY <1>1, <1>2, <1>3 DEF DInv, TypeOK

\* A step that leaves alone what facts are about keeps them.
LEMMA FactsKept ==
  ASSUME DInv, UNCHANGED <<config, lookup, seen, child, categorizations>>
  PROVE  /\ ChildSeen => ChildSeen'
         /\ Categorized => Categorized'
         /\ ForbidSeen => ForbidSeen'
         /\ UNCHANGED failures /\ AccessSeen => AccessSeen'
         /\ UNCHANGED forUrls /\ UrlsSeen => UrlsSeen'
         /\ UNCHANGED <<forUrls, forCategoryGroups>> /\ CategoriesSeen => CategoriesSeen'
<1>1. /\ \A i \in Nat : ChildAt(i)' <=> ChildAt(i)
      /\ UNCHANGED forUrls => \A i \in Nat : UrlsAt(i)' <=> UrlsAt(i)
      /\ UNCHANGED forCategoryGroups => \A i \in Nat : GroupsAt(i)' <=> GroupsAt(i)
  BY DEF ChildAt, UrlsAt, GroupsAt
<1>. QED
  BY <1>1 DEF ChildSeen, Categorized, CategoriesOf, ForbidSeen, AccessSeen, ForbidsNow,
              GrantsNow, UrlsSeen, CategoriesSeen

\* A query of queryDatabase() fails, whichever it is.
LEMMA FailureKept ==
  ASSUME DInv, pc # "done", Fails, Answer("RES_OK"), UNCHANGED <<config, lookup, seen, locals>>
  PROVE  DInv'
<1>1. /\ result' = [result EXCEPT !.code = "RES_OK"] /\ pc' = "done"
      /\ failures' = failures \cup {pc}
  BY DEF Answer, Fails
<1>2. /\ result' \in Results /\ result'.code = "RES_OK"
      /\ result'.group = result.group /\ result'.profile = result.profile
      /\ result'.timesSet = result.timesSet
  BY <1>1, ConfigParts DEF Results
<1>3. TypeOK'
  BY <1>1, <1>2, Names DEF DInv, TypeOK, locals
<1>4. Reliable' /\ Answered'
  BY <1>1, <1>2 DEF Reliable, Answered, AnsweredAfterFailure
<1>. QED BY <1>2, <1>3, <1>4 DEF DInv

\* Another configuration only adds to what has been seen.
LEMMA ChangeKept == ASSUME DInv, ChangeConfig PROVE DInv'
<1>1. /\ config' \in Configs /\ seen' = Append(seen, config')
      /\ UNCHANGED <<lookup, pc, locals, result, failures>>
  BY ConfigsAssumption DEF ChangeConfig
<1>2. UNCHANGED <<child, categorizations, forUrls, forCategoryGroups, matchingGroups>>
  BY <1>1 DEF locals
<1>3. /\ seen' \in Seq(Configs) /\ seen' # <<>> /\ seen'[Len(seen')] = config'
      /\ \A i \in DOMAIN seen : i \in DOMAIN seen' /\ seen'[i] = seen[i]
  BY <1>1, ConfigParts
<1>4. TypeOK' /\ result' \in Results
  BY <1>1, <1>2, <1>3 DEF DInv, TypeOK
<1>5. \A i \in Nat : /\ ChildAt(i) => ChildAt(i)'
                     /\ UrlsAt(i) => UrlsAt(i)'
                     /\ GroupsAt(i) => GroupsAt(i)'
  BY <1>2, <1>3 DEF ChildAt, UrlsAt, GroupsAt
<1>6. /\ ChildSeen => ChildSeen'
      /\ UrlsSeen => UrlsSeen'
      /\ CategoriesSeen => CategoriesSeen'
  BY <1>2, <1>5 DEF ChildSeen, UrlsSeen, CategoriesSeen
<1>7. /\ Categorized => Categorized'
      /\ ForbidSeen => ForbidSeen'
      /\ AccessSeen => AccessSeen'
  BY <1>1, <1>2, <1>3, <1>6
  DEF Categorized, CategoriesOf, ForbidSeen, AccessSeen, ForbidsNow, GrantsNow
<1>8. (ListsSeen => ListsSeen') /\ (AllSeen => AllSeen')
  BY <1>1, <1>2, <1>6, <1>7 DEF ListsSeen, AllSeen, GroupsOf
<1>9. Reliable' /\ Answered'
  BY <1>1, <1>6, <1>7, <1>8 DEF DInv, Reliable, Answered, ChangeConfig
<1>. QED BY <1>3, <1>4, <1>9 DEF DInv

\* Child::create()
LEMMA FetchChildKept == ASSUME DInv, FetchChild PROVE DInv'
<1>0. /\ pc = "child" /\ UNCHANGED <<config, lookup, seen>>
      /\ UNCHANGED <<categorizations, forUrls, forCategoryGroups, matchingGroups>>
  BY DEF FetchChild, At
<1>1. CASE /\ Succeeds /\ config.status # "absent" /\ child' = ChildOf(config)
           /\ pc' = "categorize" /\ UNCHANGED result
  <2>1. /\ child' \in [status : {"free", "restricted"}, defaultProfile : ProfileIds]
        /\ child'.status # "absent"
    BY <1>1, ConfigParts DEF IsConfig, ChildOf, ProfileIds
  <2>3. ChildAt(Len(seen))'
    BY <1>0, <1>1, ConfigParts DEF ChildAt
  <2>4. ChildSeen'
    BY <2>1, <2>3, ConfigParts DEF ChildSeen
  <2>2. TypeOK' /\ Reliable' /\ Answered'
    BY <1>0, <1>1, <2>1, <2>4, Names DEF DInv, TypeOK, Reliable, Answered, Succeeds
  <2>. QED BY <1>0, <1>1, <2>2 DEF DInv
<1>2. CASE Fails /\ Answer("RES_OK") /\ UNCHANGED child
  BY <1>0, <1>2, FailureKept DEF locals
<1>3. CASE config.status = "absent" /\ Succeeds /\ Answer("RES_OK") /\ UNCHANGED child
  <2>1. /\ result' = [result EXCEPT !.code = "RES_OK"] /\ pc' = "done"
        /\ UNCHANGED failures
    BY <1>3 DEF Answer, Succeeds
  <2>2. /\ result' \in Results /\ result'.code = "RES_OK"
        /\ result'.group = result.group /\ result'.profile = result.profile
        /\ result'.timesSet = result.timesSet
    BY <2>1, ConfigParts DEF Results
  <2>3. TypeOK'
    BY <1>0, <1>3, <2>1, <2>2, Names DEF DInv, TypeOK
  <2>4. Reliable' /\ Answered'
    BY <1>0, <1>3, <2>1, <2>2, ConfigParts DEF Reliable, Answered, AnsweredWithoutChild
  <2>. QED BY <1>0, <2>2, <2>3, <2>4 DEF DInv
<1>. QED BY <1>1, <1>2, <1>3 DEF FetchChild

\* findCategorization() and BcLookup()
LEMMA CategorizeKept == ASSUME DInv, Categorize PROVE DInv'
<1>0. /\ pc = "categorize" /\ pc' = "access" /\ UNCHANGED <<config, lookup, seen>>
      /\ categorizations' = CategoriesOf(child.status)
      /\ result' = [result EXCEPT !.timesSet = TRUE]
      /\ UNCHANGED <<child, forUrls, forCategoryGroups, matchingGroups, failures>>
  BY DEF Categorize, At, CategoriesOf
<1>1. /\ result' \in Results /\ result'.code = result.code
      /\ result'.group = result.group /\ result'.profile = result.profile
      /\ result'.timesSet = TRUE
  BY <1>0, ConfigParts DEF Results
<1>2. TypeOK'
  BY <1>0, <1>1, Names DEF DInv, TypeOK
<1>3. Categorized'
  BY <1>0 DEF DInv, Reliable, Categorized, ChildSeen, ChildAt, CategoriesOf
<1>4. Reliable' /\ Answered'
  BY <1>0, <1>1, <1>3 DEF DInv, Reliable, Answered
<1>. QED BY <1>0, <1>1, <1>2, <1>4 DEF DInv

\* A step that goes on and changes none of the locals.
LEMMA GoOn ==
  ASSUME DInv, pc # "done", pc' \in Steps \ {"done"},
         UNCHANGED <<config, lookup, seen, locals, result>>,
         failures' \subseteq Steps, Reliable'
  PROVE  DInv'
<1>1. UNCHANGED <<child, categorizations, forUrls, forCategoryGroups, matchingGroups>>
  BY DEF locals
<1>2. TypeOK'
  BY <1>1, Names DEF DInv, TypeOK, Reliable, AllSeen, GroupsOf, OrUncategorized
<1>3. Answered'
  BY <1>1 DEF DInv, Answered
<1>. QED BY <1>2, <1>3 DEF DInv

\* hasInternetAccess() and hasTemporaryInternetAccess()
LEMMA ChecksKept == ASSUME DInv, CheckAccess \/ CheckTmpAccess PROVE DInv'
<1>0. /\ UNCHANGED <<config, lookup, seen, locals>>
      /\ UNCHANGED <<child, categorizations, forUrls, forCategoryGroups, matchingGroups>>
      /\ pc \in {"access", "tmpAccess"} /\ Categorized
  BY DEF CheckAccess, CheckTmpAccess, At, locals, DInv, Reliable
<1>5. Categorized'
  BY <1>0, FactsKept
<1>1. CASE Fails /\ pc' = "profile" /\ UNCHANGED result
  <2>1. AccessSeen'
    BY <1>1, Zenon DEF AccessSeen, Fails
  <2>2. failures' \subseteq Steps
    BY <1>0, <1>1, Names DEF Fails, DInv, TypeOK
  <2>3. Reliable'
    BY <1>0, <1>5, <1>1, <2>1 DEF Reliable
  <2>. QED BY <1>0, <1>1, <2>2, <2>3, Names, GoOn
<1>2. CASE /\ Succeeds /\ pc' = "profile" /\ UNCHANGED result
           /\ HasInternetAccess(config.schedule) \/ HasTemporaryInternetAccess(config.grants)
  <2>1. AccessSeen'
    BY <1>0, <1>2, ConfigParts DEF AccessSeen, ForbidsNow, GrantsNow
  <2>2. failures' \subseteq Steps
    BY <1>2 DEF Succeeds, DInv, TypeOK
  <2>3. Reliable'
    BY <1>0, <1>5, <1>2, <2>1 DEF Reliable
  <2>. QED BY <1>0, <1>2, <2>2, <2>3, Names, GoOn
<1>3. CASE /\ Succeeds /\ pc' = "tmpAccess" /\ UNCHANGED result
           /\ ~HasInternetAccess(config.schedule)
  <2>1. failures' \subseteq Steps
    BY <1>3 DEF Succeeds, DInv, TypeOK
  <2>3. ForbidSeen'
    BY <1>0, <1>3, ConfigParts DEF ForbidSeen, ForbidsNow
  <2>2. Reliable'
    BY <1>0, <1>5, <1>3, <2>3 DEF Reliable
  <2>. QED BY <1>0, <1>3, <2>1, <2>2, Names, GoOn
<1>4. CASE /\ pc = "tmpAccess" /\ Succeeds /\ Answer("RES_INTERNET_ACCESS_FORBIDDEN")
           /\ ~HasTemporaryInternetAccess(config.grants)
  <2>1. /\ result' = [result EXCEPT !.code = "RES_INTERNET_ACCESS_FORBIDDEN"]
        /\ pc' = "done" /\ UNCHANGED failures
    BY <1>4 DEF Answer, Succeeds
  <2>2. /\ result' \in Results /\ result'.code = "RES_INTERNET_ACCESS_FORBIDDEN"
        /\ result'.group = result.group /\ result'.profile = result.profile
        /\ result'.timesSet = result.timesSet
    BY <2>1, ConfigParts, Names DEF Results
  <2>3. TypeOK'
    BY <1>0, <2>1, <2>2, Names DEF DInv, TypeOK
  <2>5. \E i, j \in DOMAIN seen : i <= j /\ ForbidsNow(seen[i]) /\ ~GrantsNow(seen[j])
    <3>1. PICK i \in DOMAIN seen : ForbidsNow(seen[i])
      BY <1>4 DEF DInv, Reliable, ForbidSeen
    <3>2. ~GrantsNow(seen[Len(seen)]) /\ i <= Len(seen)
      BY <1>4, ConfigParts DEF GrantsNow
    <3>. QED BY <3>1, <3>2, ConfigParts
  <2>4. Reliable' /\ AnsweredForbidden'
    BY <1>0, <1>5, <2>1, <2>2, <2>5
    DEF Reliable, AnsweredForbidden, GrantsNow, ForbidsNow, Categorized
  <2>. QED BY <1>0, <2>1, <2>2, <2>3, <2>4 DEF DInv, Answered
<1>. QED
  BY <1>0, <1>1, <1>2, <1>3, <1>4, ConfigParts
  DEF CheckAccess, CheckTmpAccess, At, AccessUnknown

\* Profile::create() and the two lists of decisions.
LEMMA ListsKept ==
  ASSUME DInv, FetchProfile \/ FetchUrlDecisions \/ FetchCategoryGroupDecisions
  PROVE  DInv'
<1>0. /\ pc \in {"profile", "urlList", "groupList"} /\ UNCHANGED <<config, lookup, seen>>
      /\ Categorized /\ AccessSeen
  BY DEF FetchProfile, FetchUrlDecisions, FetchCategoryGroupDecisions, At, DInv, Reliable
<1>1. CASE FailsOpen
  BY <1>0, <1>1, FailureKept DEF FailsOpen
<1>6. /\ UNCHANGED <<child, categorizations>>
      /\ Categorized'
      /\ UNCHANGED failures => AccessSeen'
  <2>1. UNCHANGED <<child, categorizations>>
    BY DEF FetchProfile, FetchUrlDecisions, FetchCategoryGroupDecisions, FailsOpen, locals
  <2>. QED BY <1>0, <2>1, FactsKept
<1>2. CASE /\ FetchProfile /\ Succeeds /\ pc' = "urlList" /\ UNCHANGED <<locals, result>>
  <2>1. failures' \subseteq Steps /\ Reliable'
    BY <1>0, <1>6, <1>2 DEF Reliable, DInv, TypeOK, Succeeds
  <2>. QED BY <1>0, <1>2, <2>1, Names, GoOn
<1>5. CASE /\ FetchProfile /\ Succeeds /\ Answer("RES_OK") /\ UNCHANGED locals
           /\ child.defaultProfile \notin DOMAIN config.profiles
  <2>1. /\ result' = [result EXCEPT !.code = "RES_OK"] /\ pc' = "done"
        /\ UNCHANGED failures
        /\ UNCHANGED <<child, categorizations, forUrls, forCategoryGroups, matchingGroups>>
    BY <1>5 DEF Answer, Succeeds, locals
  <2>2. /\ result' \in Results /\ result'.code = "RES_OK"
        /\ result'.group = result.group /\ result'.profile = result.profile
        /\ result'.timesSet = result.timesSet
    BY <2>1, ConfigParts DEF Results
  <2>3. TypeOK'
    BY <1>0, <2>1, <2>2, Names DEF DInv, TypeOK
  <2>4. AnsweredWithoutProfile'
    BY <1>0, <1>6, <1>5, <2>2, ConfigParts DEF AnsweredWithoutProfile, Categorized
  <2>5. Reliable' /\ Answered'
    BY <2>1, <2>4 DEF Reliable, Answered
  <2>. QED BY <1>0, <2>2, <2>3, <2>5 DEF DInv
<1>3. CASE FetchUrlDecisions /\ ~FailsOpen
  <2>1. /\ pc = "urlList" /\ pc' = "groupList"
        /\ forUrls' = DecisionsOf(config, child.defaultProfile).forUrls
        /\ UNCHANGED <<forCategoryGroups, matchingGroups, result, failures>>
    BY <1>3 DEF FetchUrlDecisions, Succeeds, At
  <2>2. UrlsSeen'
    <3>1. PICK i \in Nat : ChildAt(i)
      BY <1>0 DEF Categorized, ChildSeen
    <3>2. i <= Len(seen) /\ ChildAt(i)' /\ UrlsAt(Len(seen))'
      BY <1>0, <1>6, <2>1, <3>1, ConfigParts DEF ChildAt, UrlsAt
    <3>. QED BY <1>0, <3>2, ConfigParts DEF UrlsSeen
  <2>3. TypeOK'
    BY <1>0, <1>6, <2>1, Names DEF DInv, TypeOK
  <2>4. Reliable' /\ Answered'
    BY <1>0, <1>6, <2>1, <2>2 DEF DInv, Reliable, Answered
  <2>. QED BY <1>0, <2>1, <2>3, <2>4 DEF DInv
<1>4. CASE FetchCategoryGroupDecisions /\ ~FailsOpen
  <2>1. /\ pc = "groupList" /\ pc' = "categories"
        /\ forCategoryGroups' = DecisionsOf(config, child.defaultProfile).forCategoryGroups
        /\ result' = [result EXCEPT !.profile = TRUE]
        /\ UNCHANGED <<forUrls, matchingGroups, failures>>
    BY <1>4 DEF FetchCategoryGroupDecisions, Succeeds, At
  <2>2. /\ result' \in Results /\ result'.code = result.code
        /\ result'.group = result.group /\ result'.profile = TRUE
        /\ result'.timesSet = result.timesSet
    BY <2>1, ConfigParts DEF Results
  <2>3. CategoriesSeen'
    <3>1. PICK i \in Nat, j \in Nat : i <= j /\ ChildAt(i) /\ UrlsAt(j)
      BY <2>1 DEF DInv, Reliable, UrlsSeen
    <3>2. /\ j <= Len(seen) /\ ChildAt(i)' /\ UrlsAt(j)'
          /\ GroupsAt(Len(seen))'
      BY <1>0, <1>6, <2>1, <3>1, ConfigParts DEF ChildAt, UrlsAt, GroupsAt
    <3>. QED BY <1>0, <3>1, <3>2, ConfigParts DEF CategoriesSeen
  <2>4. TypeOK'
    BY <1>0, <1>6, <2>1, <2>2, Names DEF DInv, TypeOK
  <2>5. Reliable' /\ Answered'
    BY <1>0, <1>6, <2>1, <2>2, <2>3 DEF DInv, Reliable, Answered, ListsSeen
  <2>. QED BY <1>0, <2>2, <2>4, <2>5 DEF DInv
<1>. QED
  BY <1>1, <1>2, <1>3, <1>4, <1>5 DEF FetchProfile

\* getCategoryGroupIds()
LEMMA GroupsInGroups ==
  ASSUME NEW categories
  PROVE  GroupsOf(categories) \subseteq Groups /\ GroupsOf(categories) # {}
BY DEF GroupsOf, OrUncategorized, Groups

LEMMA CategoriesKept == ASSUME DInv, FetchCategories PROVE DInv'
<1>0. /\ pc = "categories" /\ UNCHANGED <<config, lookup, seen>> /\ ListsSeen
  BY DEF FetchCategories, At, DInv, Reliable
<1>1. CASE FailsOpen
  BY <1>0, <1>1, FailureKept DEF FailsOpen
<1>2. CASE ~FailsOpen
  <2>1. /\ pc' = "group" /\ matchingGroups' = GroupsOf(categorizations)
        /\ UNCHANGED <<child, categorizations, forUrls, forCategoryGroups, result, failures>>
    BY <1>2 DEF FetchCategories, Succeeds, GroupsOf
  <2>2. AllSeen'
    BY <1>0, <2>1, FactsKept DEF AllSeen, ListsSeen, GroupsOf
  <2>3. matchingGroups' \subseteq Groups /\ matchingGroups' # {}
    BY <2>1, GroupsInGroups
  <2>4. result.code = "none" /\ result.group = {}
    BY <1>0 DEF DInv, Answered
  <2>5. TypeOK' /\ Reliable' /\ Answered'
    BY <1>0, <2>1, <2>2, <2>3, <2>4, Names DEF DInv, TypeOK, Reliable, Answered
  <2>. QED BY <1>0, <2>1, <2>5 DEF DInv
<1>. QED BY <1>1, <1>2

\* CategoryGroup::Create() and the end of queryDatabase()
LEMMA DecideKept == ASSUME DInv, FetchGroupAndDecide PROVE DInv'
<1>0. /\ pc = "group" /\ UNCHANGED <<config, lookup, seen, locals>> /\ AllSeen
      /\ UNCHANGED <<child, categorizations, forUrls, forCategoryGroups, matchingGroups>>
  BY DEF FetchGroupAndDecide, FailsOpen, At, DInv, Reliable, locals
<1>1. CASE FailsOpen
  BY <1>0, <1>1, FailureKept DEF FailsOpen
<1>2. CASE ~FailsOpen
  <2>. DEFINE code == Code(MostSpecific(DOMAIN forUrls, requestUrl))
  <2>1. PICK g \in NamedGroups : result' = [result EXCEPT !.code = code, !.group = {g}]
    BY <1>2 DEF FetchGroupAndDecide
  <2>2. pc' = "done" /\ UNCHANGED failures
    BY <1>2 DEF FetchGroupAndDecide, Succeeds
  <2>3. code \in Blocks \cup {"RES_OK"}
    BY Names DEF Code
  <2>4. NamedGroups \subseteq matchingGroups /\ matchingGroups \subseteq Groups
    BY DEF NamedGroups, BlockedGroups, Having, DInv, TypeOK
  <2>. HIDE DEF code
  <2>5. /\ result' \in Results /\ result'.code = code
        /\ result'.group = {g} /\ result'.profile = result.profile
        /\ result'.timesSet = result.timesSet
    BY <2>1, <2>3, <2>4, ConfigParts DEF Results
  <2>6. AllSeen'
    BY <1>0, <2>2, <2>5, FactsKept DEF AllSeen, ListsSeen, GroupsOf
  <2>7. AnsweredByProfile'
    BY <1>0, <2>5, <2>6
    DEF AnsweredByProfile, code, Code, NamedGroups, BlockedGroups
  <2>8. TypeOK'
    BY <1>0, <2>1, <2>2, <2>3, <2>4, <2>5, Names DEF DInv, TypeOK
  <2>. QED BY <1>0, <2>2, <2>5, <2>7, <2>8 DEF DInv, Reliable, Answered
<1>. QED BY <1>1, <1>2

\* The start of a decision, the first or a later one.
LEMMA StartKept ==
  ASSUME DInv, NextRequest PROVE DInv'
<1>1. /\ seen' = <<config>> /\ UNCHANGED config /\ pc' = "child" /\ lookup' \in Lookups
      /\ child' = NoChild /\ matchingGroups' = {} /\ result' = NoResult /\ failures' = {}
  BY DEF NextRequest, StartOfDecision
<1>2. /\ result' \in Results /\ result'.code = "none" /\ result'.group = {}
      /\ result'.timesSet = FALSE /\ result'.profile = FALSE
  BY <1>1 DEF NoResult, Results
<1>3. seen' \in Seq(Configs) /\ seen' # <<>> /\ seen'[Len(seen')] = config'
  BY <1>1, ConfigParts
<1>4. TypeOK'
  BY <1>1, <1>2, <1>3, ConfigParts, Names DEF TypeOK
<1>. QED BY <1>1, <1>2, <1>3, <1>4 DEF DInv, Reliable, Answered

LEMMA InitDInv == Init => DInv
<1>. SUFFICES ASSUME Init PROVE DInv
  OBVIOUS
<1>1. /\ seen = <<config>> /\ config \in Configs /\ pc = "child" /\ lookup \in Lookups
      /\ child = NoChild /\ matchingGroups = {} /\ result = NoResult /\ failures = {}
  BY DEF Init
<1>2. /\ result \in Results /\ result.code = "none" /\ result.group = {}
      /\ result.timesSet = FALSE /\ result.profile = FALSE
  BY <1>1 DEF NoResult, Results
<1>3. seen \in Seq(Configs) /\ seen # <<>> /\ seen[Len(seen)] = config
  BY <1>1
<1>4. TypeOK
  BY <1>1, <1>2, <1>3, Names DEF TypeOK
<1>. QED BY <1>1, <1>2, <1>3, <1>4 DEF DInv, Reliable, Answered

LEMMA NextDInv == DInv /\ [Next]_vars => DInv'
<1>. SUFFICES ASSUME DInv, [Next]_vars PROVE DInv'
  OBVIOUS
<1>1. CASE UNCHANGED vars
  <2>1. /\ UNCHANGED <<config, lookup, pc, result, seen, failures>>
        /\ UNCHANGED <<child, categorizations, forUrls, forCategoryGroups, matchingGroups>>
    BY <1>1 DEF vars, locals
  <2>4. ListsSeen => ListsSeen'
    BY <2>1, FactsKept DEF ListsSeen
  <2>5. AllSeen => AllSeen'
    BY <2>1, <2>4 DEF AllSeen, GroupsOf
  <2>2. TypeOK' /\ Reliable'
    BY <2>1, <2>4, <2>5, FactsKept DEF DInv, TypeOK, Reliable
  <2>6. /\ AnsweredWithoutChild => AnsweredWithoutChild'
        /\ AnsweredForbidden => AnsweredForbidden'
        /\ AnsweredWithoutProfile => AnsweredWithoutProfile'
        /\ AnsweredAfterFailure => AnsweredAfterFailure'
    BY <2>1, FactsKept
    DEF AnsweredWithoutChild, AnsweredForbidden, AnsweredWithoutProfile,
        AnsweredAfterFailure, ForbidsNow, GrantsNow
  <2>7. AnsweredByProfile => AnsweredByProfile'
    BY <2>1, <2>5 DEF AnsweredByProfile, Code, NamedGroups, BlockedGroups
  <2>3. Answered'
    BY <2>1, <2>6, <2>7 DEF DInv, Answered
  <2>. QED BY <2>1, <2>2, <2>3 DEF DInv
<1>2. CASE Next
  BY <1>2, FetchChildKept, CategorizeKept, ChecksKept, ListsKept, CategoriesKept,
     DecideKept, StartKept, ChangeKept DEF Next
<1>. QED BY <1>1, <1>2

LEMMA SpecDInv == Spec => []DInv
BY InitDInv, NextDInv, PTL DEF Spec

-----------------------------------------------------------------------------
(* What follows for the answer *)

\* The types of the decision, for any configurations, lookups, url and time of day.
THEOREM DecisionTypeOK == Spec => []TypeOK
<1>1. DInv => TypeOK
  BY DEF DInv
<1>. QED BY <1>1, SpecDInv, PTL

\* The best matching patterns are patterns with a decision.
LEMMA BestDecided ==
  ASSUME NEW decisions
  PROVE  MostSpecific(DOMAIN decisions, requestUrl) \subseteq DOMAIN decisions
BY DEF MostSpecific

\* The code, read off the configuration the url decisions are from.
LEMMA CodeOf ==
  ASSUME NEW c, NEW profile, forUrls = DecisionsOf(c, profile).forUrls
  PROVE  LET code == Code(MostSpecific(DOMAIN forUrls, requestUrl))
         IN  /\ code = "RES_URL_BLOCKED_CUSTOM" <=> UrlIs("blocked", c, profile)
             /\ code = "RES_CATEGORY_BLOCKED_CUSTOM" <=>
                  /\ ~UrlIs("blocked", c, profile) /\ ~UrlIs("allowed", c, profile)
                  /\ BlockedGroups # {}
             /\ code \in {"RES_URL_BLOCKED_CUSTOM", "RES_CATEGORY_BLOCKED_CUSTOM", "RES_OK"}
<1>. DEFINE best == MostSpecific(DOMAIN forUrls, requestUrl)
<1>1. best \subseteq DOMAIN forUrls
  BY BestDecided
<1>2. /\ Having(forUrls, "blocked", best) # {} <=> UrlIs("blocked", c, profile)
      /\ Having(forUrls, "allowed", best) # {} <=> UrlIs("allowed", c, profile)
  BY <1>1 DEF Having, UrlIs
<1>. QED BY <1>2 DEF Code

\* The groups that were matched are those of the configuration the child is from.
LEMMA GroupsAre ==
  ASSUME NEW c, AllSeen, c.status = child.status
  PROVE  matchingGroups = GroupsFor(c)
BY DEF AllSeen, ListsSeen, Categorized, CategoriesOf, Categories, WithoutPrivateIPs,
       GroupsOf, GroupsFor, OrUncategorized

LEMMA BlockedGroupsAre ==
  ASSUME NEW c, NEW profile,
         forCategoryGroups = DecisionsOf(c, profile).forCategoryGroups
  PROVE  BlockedGroups # {} <=> BlocksAnyOf(matchingGroups, c, profile)
BY DEF BlockedGroups, Having, BlocksAnyOf

\* Every restriction was read from a configuration seen during the decision, and the
\* lists not from one before that of the child, whose profile they are of, whatever
\* the parents change between the queries and whatever fails.
THEOREM DecisionRestrictionHasSource == Spec => []RestrictionHasSource
<1>1. DInv => RestrictionHasSource
  <2>. SUFFICES ASSUME DInv, pc = "done"
                PROVE  RestrictionHasSource
    BY DEF RestrictionHasSource
  <2>. USE DEF RestrictionHasSource
  <2>1. CASE AnsweredWithoutChild \/ AnsweredWithoutProfile \/ AnsweredAfterFailure
    BY <2>1 DEF AnsweredWithoutChild, AnsweredWithoutProfile, AnsweredAfterFailure
  <2>2. CASE AnsweredForbidden
    BY <2>2 DEF AnsweredForbidden
  <2>3. CASE AnsweredByProfile
    <3>. DEFINE profile == child.defaultProfile
    <3>1. PICK i \in Nat, j \in Nat, k \in Nat :
            i <= j /\ j <= k /\ ChildAt(i) /\ UrlsAt(j) /\ GroupsAt(k)
      BY <2>3 DEF AnsweredByProfile, AllSeen, ListsSeen, CategoriesSeen
    <3>2. /\ i \in DOMAIN seen /\ j \in DOMAIN seen /\ k \in DOMAIN seen
          /\ seen[i].status = child.status /\ seen[i].defaultProfile = profile
          /\ forUrls = DecisionsOf(seen[j], profile).forUrls
          /\ forCategoryGroups = DecisionsOf(seen[k], profile).forCategoryGroups
      BY <3>1 DEF ChildAt, UrlsAt, GroupsAt, ChildOf
    <3>3. result.code = Code(MostSpecific(DOMAIN forUrls, requestUrl))
      BY <2>3 DEF AnsweredByProfile
    <3>. HIDE DEF profile
    <3>4. result.code = "RES_URL_BLOCKED_CUSTOM" => UrlIs("blocked", seen[j], profile)
      BY <3>2, <3>3, CodeOf
    <3>5. result.code = "RES_CATEGORY_BLOCKED_CUSTOM" =>
            /\ ~UrlIs("blocked", seen[j], profile) /\ ~UrlIs("allowed", seen[j], profile)
            /\ BlockedGroups # {}
      BY <3>2, <3>3, CodeOf
    <3>6. matchingGroups = GroupsFor(seen[i])
      BY <2>3, <3>2, GroupsAre DEF AnsweredByProfile
    <3>7. BlockedGroups # {} => BlocksAnyOf(GroupsFor(seen[i]), seen[k], profile)
      BY <3>2, <3>6, BlockedGroupsAre
    <3>8. result.code \in {"RES_URL_BLOCKED_CUSTOM", "RES_CATEGORY_BLOCKED_CUSTOM", "RES_OK"}
      BY <3>2, <3>3, CodeOf
    <3>. QED BY <3>1, <3>2, <3>4, <3>5, <3>7, <3>8
  <2>. QED BY <2>1, <2>2, <2>3 DEF DInv, Answered
<1>. QED BY <1>1, SpecDInv, PTL

\* Without failures and changes the nine steps answer what the configuration says.
THEOREM DecisionDecidesVerdict == Spec => []DecidesVerdict
<1>1. DInv => DecidesVerdict
  <2>. SUFFICES ASSUME DInv, pc = "done", Undisturbed, failures = {}, config.status # "absent"
                PROVE  result.code = Verdict(config)
    BY DEF DecidesVerdict
  <2>. DEFINE profile == config.defaultProfile
  <2>1. \A i \in DOMAIN seen : seen[i] = config
    BY ConfigParts DEF Undisturbed
  <2>2. ~AnsweredWithoutChild /\ ~AnsweredAfterFailure
    BY <2>1 DEF AnsweredWithoutChild, AnsweredAfterFailure
  <2>3. ChildSeen => child = ChildOf(config) /\ child.defaultProfile = profile
    BY <2>1 DEF ChildSeen, ChildAt, ChildOf
  <2>4. ~AnsweredWithoutProfile
    BY <2>1, <2>3, ConfigParts DEF AnsweredWithoutProfile, IsConfig
  <2>5. CASE AnsweredForbidden
    BY <2>1, <2>5 DEF AnsweredForbidden, Verdict
  <2>6. CASE AnsweredByProfile
    <3>1. ChildSeen /\ AccessSeen /\ CategoriesSeen
      BY <2>6 DEF AnsweredByProfile, AllSeen, ListsSeen, Categorized
    <3>2. /\ child.status = config.status
          /\ forUrls = DecisionsOf(config, profile).forUrls
          /\ forCategoryGroups = DecisionsOf(config, profile).forCategoryGroups
          /\ ~ForbidsNow(config) \/ GrantsNow(config)
      BY <2>1, <2>3, <3>1 DEF CategoriesSeen, UrlsAt, GroupsAt, AccessSeen, ChildOf
    <3>3. result.code = Code(MostSpecific(DOMAIN forUrls, requestUrl))
      BY <2>6 DEF AnsweredByProfile
    <3>4. matchingGroups = GroupsFor(config)
      BY <2>6, <3>2, GroupsAre DEF AnsweredByProfile
    <3>. HIDE DEF profile
    <3>5. BlockedGroups # {} <=> BlocksAnyOf(GroupsFor(config), config, profile)
      BY <3>2, <3>4, BlockedGroupsAre
    <3>6. Verdict(config) = IF UrlIs("blocked", config, profile) THEN "RES_URL_BLOCKED_CUSTOM"
                            ELSE IF \/ UrlIs("allowed", config, profile)
                                    \/ ~BlocksAnyOf(GroupsFor(config), config, profile)
                            THEN "RES_OK" ELSE "RES_CATEGORY_BLOCKED_CUSTOM"
      BY <3>2 DEF Verdict, profile
    <3>. QED BY <3>2, <3>3, <3>5, <3>6, CodeOf
  <2>. QED BY <2>2, <2>4, <2>5, <2>6 DEF DInv, Answered
<1>. QED BY <1>1, SpecDInv, PTL

\* An answer that blocks by url or category names the profile, and one that blocks by
\* category a group that the profile blocks.
THEOREM DecisionBlockNamesItsReason == Spec => []BlockNamesItsReason
<1>1. DInv => BlockNamesItsReason
  <2>. SUFFICES ASSUME DInv,
                       result.code \in {"RES_URL_BLOCKED_CUSTOM", "RES_CATEGORY_BLOCKED_CUSTOM"}
                PROVE  /\ result.profile
                       /\ result.code = "RES_CATEGORY_BLOCKED_CUSTOM"
                            => result.group # {} /\ result.group \subseteq BlockedGroups
    BY DEF BlockNamesItsReason
  <2>1. AnsweredByProfile
    BY DEF DInv, Answered, AnsweredWithoutChild, AnsweredForbidden,
           AnsweredWithoutProfile, AnsweredAfterFailure
  <2>2. result.profile /\ result.group # {} /\ result.group \subseteq NamedGroups
    BY <2>1 DEF AnsweredByProfile, AllSeen, ListsSeen
  <2>3. PICK j \in Nat : UrlsAt(j)
    BY <2>1 DEF AnsweredByProfile, AllSeen, ListsSeen, CategoriesSeen
  <2>4. result.code = "RES_CATEGORY_BLOCKED_CUSTOM" => BlockedGroups # {}
    BY <2>1, <2>3, CodeOf DEF AnsweredByProfile, UrlsAt
  <2>. QED BY <2>2, <2>4 DEF NamedGroups
<1>. QED BY <1>1, SpecDInv, PTL
=============================================================================
