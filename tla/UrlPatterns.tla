------------------------------ MODULE UrlPatterns ------------------------------
(***************************************************************************)
(* The url patterns of a profile (db::UrlPattern) and the choice of the     *)
(* most specific one that matches a request (selectBestMatching-            *)
(* UrlPatternIds in backend/server.cpp).                                    *)
(*                                                                         *)
(* A host name is the sequence of its labels, so that "ends with the        *)
(* pattern, at a dot" is a suffix of labels; a path is the sequence of its  *)
(* characters, the first of which is a slash.                               *)
(***************************************************************************)
EXTENDS Naturals, Sequences

\* UrlPattern::Kind, in the order of the enumeration.
MATCH_ALL_SUBDOMAINS   == 1
MATCH_DOMAIN_WITH_PATH == 2

\* createAllSubdomains(): an address without a path.
AllSubdomains(host) ==
  [kind |-> MATCH_ALL_SUBDOMAINS, hostName |-> host, path |-> <<>>]

\* createDomainWithPath()
DomainWithPath(host, path) ==
  [kind |-> MATCH_DOMAIN_WITH_PATH, hostName |-> host, path |-> path]

IsPrefixOf(s, t) == Len(s) <= Len(t) /\ s = SubSeq(t, 1, Len(s))
IsSuffixOf(s, t) == Len(s) <= Len(t) /\ s = SubSeq(t, Len(t) - Len(s) + 1, Len(t))

\* The patterns over a set of labels and a set of characters.
Pattern(Label, Char) ==
  [kind : {MATCH_ALL_SUBDOMAINS}, hostName : Seq(Label), path : {<<>>}]
    \cup [kind : {MATCH_DOMAIN_WITH_PATH}, hostName : Seq(Label),
          path : Seq(Char) \ {<<>>}]

Url(Label, Char) == [host : Seq(Label), path : Seq(Char)]

\* A mutated form, named for the mistake.
HostNameMatches_AnySubdomain(pattern, url, subDomainAllowed) ==
  IsSuffixOf(pattern.hostName, url.host)

HostNameMatches(pattern, url, subDomainAllowed) ==
  /\ IsSuffixOf(pattern.hostName, url.host)
  /\ subDomainAllowed \/ Len(pattern.hostName) = Len(url.host)

PathMatches(pattern, url) == IsPrefixOf(pattern.path, url.path)

MatchesUrl(pattern, url) ==
  \/ /\ pattern.kind = MATCH_ALL_SUBDOMAINS
     /\ HostNameMatches(pattern, url, TRUE)
  \/ /\ pattern.kind = MATCH_DOMAIN_WITH_PATH
     /\ HostNameMatches(pattern, url, FALSE)
     /\ PathMatches(pattern, url)

IsMoreSpecificThan(p, q) ==
  \/ p.kind > q.kind
  \/ /\ p.kind = q.kind
     /\ \/ p.kind = MATCH_ALL_SUBDOMAINS /\ Len(p.hostName) > Len(q.hostName)
        \/ p.kind = MATCH_DOMAIN_WITH_PATH /\ Len(p.path) > Len(q.path)

\* The assertions of isMoreSpecificThan(): "only patterns matching the same url
\* can be compared".
Comparable(p, q) ==
  p.kind = q.kind =>
    \/ /\ p.kind = MATCH_ALL_SUBDOMAINS
       /\ IsSuffixOf(p.hostName, q.hostName) \/ IsSuffixOf(q.hostName, p.hostName)
    \/ /\ p.kind = MATCH_DOMAIN_WITH_PATH
       /\ p.hostName = q.hostName
       /\ IsPrefixOf(p.path, q.path) \/ IsPrefixOf(q.path, p.path)

\* What selectBestMatchingUrlPatternIds() returns, by the theorem SelectionResult
\* of AccessDecisionProofs: the matching pattern that is more specific than every
\* other one, if any pattern matches.
MostSpecific(patterns, url) ==
  LET matching == {p \in patterns : MatchesUrl(p, url)}
  IN  {p \in matching : \A q \in matching \ {p} : IsMoreSpecificThan(p, q)}
=============================================================================
