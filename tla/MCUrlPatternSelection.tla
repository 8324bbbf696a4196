------------------------- MODULE MCUrlPatternSelection -------------------------
(* Patterns and urls to check UrlPatternSelection with. *)
EXTENDS UrlPatternSelection, FiniteSets

MCLabel == {"www", "m", "onet", "wp", "pl"}
MCChar  == {"/", "a", "b"}

\* Nested and unrelated hosts, nested and diverging paths.
Patterns ==
  {AllSubdomains(h) : h \in {<<"pl">>, <<"onet", "pl">>, <<"www", "onet", "pl">>,
                             <<"wp", "pl">>}}
    \cup {DomainWithPath(<<"onet", "pl">>, p) :
            p \in {<<"/">>, <<"/", "a">>, <<"/", "a", "b">>, <<"/", "b">>}}
    \cup {DomainWithPath(<<"www", "onet", "pl">>, <<"/">>)}

Distinct(profile) ==
  \A i, j \in DOMAIN profile : profile[i] = profile[j] => i = j

MCProfiles ==
  {profile \in UNION {[1..n -> Patterns] : n \in 0..4} : Distinct(profile)}

MCUrls ==
  [host : {<<"onet", "pl">>, <<"www", "onet", "pl">>, <<"m", "www", "onet", "pl">>},
   path : {<<"/">>, <<"/", "a", "b", "a">>}]
=============================================================================
