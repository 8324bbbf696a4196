--------------------------- MODULE MCWebrootOverrides ---------------------------
(***************************************************************************)
(* Two operators and a web site, which is typed in several ways; with a "/"  *)
(* at its end it is another address of the same key.  Requests are for a     *)
(* page of it.  The parser refuses a third address.                          *)
(***************************************************************************)
EXTENDS WebrootOverridesSystem, FiniteSets

CONSTANTS site, slash, odd, page,
          MaxActivity  \* bound of the model: changes, reloads and commands in progress

MCUrls ==
  {<<site>>, <<"https://", "www.", site>>, <<"https://", "http://", site>>,
   <<slash>>, <<odd>>}

MCLookups == {<<page>>}

MCLcpsOf ==
  [u \in {<<site>>, <<slash>>, <<odd>>, <<page>>} |->
     CASE u = <<odd>>  -> <<>>
       [] u = <<page>> -> <<page, site>>
       [] OTHER        -> <<site>>]

\* The bound holds back only operators: a command that starts, a reload, a commit
\* that changes rows (a command that ends makes room for its own commit).
InCommand == {o \in Operators : session[o] \in Commands}
Activity == reloads + (table - 1) + Cardinality(InCommand)

MCNext == SystemNext /\ Activity' <= MaxActivity
MCSpec == SystemInit /\ [][MCNext]_systemVars /\ Fairness

=============================================================================
