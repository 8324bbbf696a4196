-------------------------- MODULE UrlPatternSelection --------------------------
(***************************************************************************)
(* The loop of selectBestMatchingUrlPatternIds() (backend/server.cpp): the  *)
(* patterns of a profile are looked at one by one, in any order, and the    *)
(* best match so far is kept.                                               *)
(***************************************************************************)
EXTENDS UrlPatterns

CONSTANTS Label, Char,   \* what host names and paths are made of
          Profiles,      \* sequences of patterns, without repetition
          RequestUrls

ASSUME ProfilesAssumption ==
  \A profile \in Profiles :
    /\ profile \in Seq(Pattern(Label, Char))
    /\ \A i, j \in DOMAIN profile : profile[i] = profile[j] => i = j
ASSUME UrlsAssumption == RequestUrls \subseteq Url(Label, Char)

VARIABLES profileUrlPatterns,
          urlToMatch,    \* the parameter requestUrl
          next,          \* index of the pattern to look at
          bestMatching   \* at most one pattern

selectionVars == <<profileUrlPatterns, urlToMatch, next, bestMatching>>

SelectionInit ==
  /\ profileUrlPatterns \in Profiles
  /\ urlToMatch \in RequestUrls
  /\ next = 1
  /\ bestMatching = {}

Current == profileUrlPatterns[next]

\* Mutated forms, each named for the mistake, precede what they mutate.
BetterThanBest_LastWins == TRUE
BetterThanBest == \A b \in bestMatching : IsMoreSpecificThan(Current, b)

Look ==
  /\ next \in DOMAIN profileUrlPatterns
  /\ bestMatching' = IF MatchesUrl(Current, urlToMatch) /\ BetterThanBest
                     THEN {Current} ELSE bestMatching
  /\ next' = next + 1
  /\ UNCHANGED <<profileUrlPatterns, urlToMatch>>

SelectionSpec == SelectionInit /\ [][Look]_selectionVars

-----------------------------------------------------------------------------
(* Properties *)

SelectionTypeOK ==
  /\ profileUrlPatterns \in Profiles
  /\ urlToMatch \in RequestUrls
  /\ next \in 1..Len(profileUrlPatterns) + 1
  /\ bestMatching \subseteq Pattern(Label, Char)

Visited == {profileUrlPatterns[i] : i \in 1..next - 1}

\* Whatever the order of the patterns, what is kept is the most specific of the
\* matching ones looked at so far: there is exactly one as soon as any matches.
BestIsMostSpecific ==
  /\ bestMatching = MostSpecific(Visited, urlToMatch)
  /\ (\E p \in Visited : MatchesUrl(p, urlToMatch)) => bestMatching # {}

\* The assertions of isMoreSpecificThan() hold for all that it compares: "only
\* patterns matching the same url can be compared".
OnlyComparableCompared ==
  next \in DOMAIN profileUrlPatterns /\ MatchesUrl(Current, urlToMatch)
    => \A b \in bestMatching : Comparable(Current, b)
=============================================================================
