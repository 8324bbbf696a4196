------------------------- MODULE WebrootOverridesScript -------------------------
(***************************************************************************)
(* webrootOverridesScript.py: operators, each in a session of the script,   *)
(* add, delete and update rows of the table webroot_overrides.  What a      *)
(* session has shown and checked may be out of date when it writes: there   *)
(* is a transaction per command, but its statements are READ COMMITTED.     *)
(*                                                                         *)
(* A url is the sequence of its prefixes "http://", "https://" and "www.",   *)
(* followed by the rest of it.  Its case is ignored.                        *)
(***************************************************************************)
EXTENDS Naturals, Sequences

CONSTANTS Operators,
          Urls,         \* what operators type
          Categories,
          NoRow         \* no row for this address

VARIABLES rows,    \* category of each address in the table, or NoRow
          pc,      \* where each session is
          url      \* the address its command is about

vars == <<rows, pc, url>>

-----------------------------------------------------------------------------
HTTP == "http://"
HTTPS == "https://"
WWW == "www."

RemovePrefix(u, prefix) == IF Len(u) > 1 /\ Head(u) = prefix THEN Tail(u) ELSE u

\* One pass over the three prefixes.
NormalizeUrl(u) == RemovePrefix(RemovePrefix(RemovePrefix(u, HTTP), HTTPS), WWW)

\* The regular expression knows no scheme.
IsValid(u) == \A i \in DOMAIN u : u[i] \notin {HTTP, HTTPS}

Addresses == {a \in {NormalizeUrl(u) : u \in Urls} : IsValid(a)}

\* A session is in the menu, in one of its three commands, or has left the script.
Init ==
  /\ rows \in [Addresses -> {NoRow}]
  /\ pc = [o \in Operators |-> "menu"]
  /\ url = [o \in Operators |-> <<>>]

Goto(o, from, to) == pc[o] = from /\ pc' = [pc EXCEPT ![o] = to]

\* The command is done.  A session that quits stays in the menu for ever.
Done(o, from) == Goto(o, from, "menu") /\ url' = [url EXCEPT ![o] = <<>>]

-----------------------------------------------------------------------------
(* addWebrootOverride() *)

\* urlFromInput(), which asks again for a url that it does not accept.
UrlFromInput(o) ==
  /\ Goto(o, "menu", "adding")
  /\ \E u \in Urls :
       LET a == NormalizeUrl(u)
       IN  /\ a \in Addresses /\ rows[a] = NoRow
           /\ url' = [url EXCEPT ![o] = a]
  /\ UNCHANGED rows

\* Mutated forms, each named for the mistake, precede what they mutate.

\* "address" is UNIQUE: the INSERT fails if another session was faster, and the
\* exception ends the script.
Unique_NoConstraint(a) == TRUE
Unique(a) == rows[a] = NoRow

Insert(o) ==
  LET a == url[o]
  IN  \/ /\ Done(o, "adding") /\ Unique(a)
         /\ \E c \in Categories : rows' = [rows EXCEPT ![a] = c]
      \/ /\ Goto(o, "adding", "left") /\ ~Unique(a)
         /\ url' = [url EXCEPT ![o] = <<>>]
         /\ UNCHANGED rows

-----------------------------------------------------------------------------
(* deleteWebrootOverride() and updateWebrootOverride() *)

\* getUrlThatExistsInDatabaseWithItsCategory(): the url as typed.
UrlThatExists(o, command) ==
  /\ Goto(o, "menu", command)
  /\ \E a \in Urls \cap Addresses :
       /\ rows[a] # NoRow
       /\ url' = [url EXCEPT ![o] = a]
  /\ UNCHANGED rows

\* After "y", whatever the category now is.
Delete(o) ==
  /\ Done(o, "deleting")
  /\ rows' = [rows EXCEPT ![url[o]] = NoRow]

Cancel(o) == Done(o, "deleting") /\ UNCHANGED rows

\* Updates nothing if the row is gone.
Updated(a, c) == [rows EXCEPT ![a] = IF @ = NoRow THEN NoRow ELSE c]

Update(o) ==
  /\ Done(o, "updating")
  /\ \E c \in Categories : rows' = Updated(url[o], c)

Session(o) ==
  \/ UrlFromInput(o) \/ Insert(o)
  \/ UrlThatExists(o, "deleting") \/ Delete(o) \/ Cancel(o)
  \/ UrlThatExists(o, "updating") \/ Update(o)

Next == \E o \in Operators : Session(o)

=============================================================================
