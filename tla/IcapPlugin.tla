------------------------------ MODULE IcapPlugin -------------------------------
(***************************************************************************)
(* The ICAP plugin as a client of httpd (icap/plugin): each thread of       *)
(* c-icap asks httpd about the request of a browser (wsRequest()) over a    *)
(* connection of a shared TcpCache, which keeps the connections that may    *)
(* be used again.  httpd closes those that are idle for clientTimeout, and  *)
(* all of them when it stops.                                              *)
(*                                                                         *)
(* A message is [to, result]: the thread the exchange belongs to, or None   *)
(* when that thread has given it up, and whether it carries a Result line.  *)
(* What the plugin does with the result is not modelled; a request for      *)
(* which wsRequest() gives -1 is allowed.                                  *)
(*                                                                         *)
(* validTill and httpd's timer are ages here: the plugin compares it with   *)
(* CLOCK_REALTIME (descriptor.cc:27), and a clock that is set back, which    *)
(* makes entries live longer, is not modelled.                              *)
(***************************************************************************)
EXTENDS Naturals, Sequences, FiniteSets

CONSTANTS
  Threads,
  Sockets,
  None,
  Lifetime,        \* TcpCacheInactivityTime, in ticks of the model's clock
  ClientTimeout,   \* clientTimeout of httpd
  MaxDelay         \* bound of the model: ticks for which a thread is held up before
                   \* it uses the connection it took, or before it returns it

\* "must be lower than clientTimeout in httpd" (srv_safekiddo.cc:88), and by more
\* than the delays of a thread.
ASSUME LifetimeAssumption ==
  /\ {Lifetime, ClientTimeout, MaxDelay} \subseteq Nat
  /\ Lifetime + 2 * MaxDelay <= ClientTimeout

ASSUME SocketsAssumption ==
  /\ None \notin Threads \cup Sockets
  /\ IsFiniteSet(Threads) /\ IsFiniteSet(Sockets)

VARIABLES
  \* TcpCache
  list_,      \* [sock, age]: age since add(), instead of validTill
  \* the threads, in wsRequest()
  pc, socket, delay,
  \* httpd
  up,
  conn,       \* the connection of each socket, as httpd left it
  idle,       \* ticks since httpd last read or wrote on it, while open
  toHttpd, toPlugin

threads  == <<pc, socket>>
channels == <<toHttpd, toPlugin>>
httpd    == <<up, conn, idle, channels>>
vars     == <<list_, threads, delay, httpd>>

-----------------------------------------------------------------------------
\* "closed": the plugin has no such socket.  "stopped": httpd went away.
Connected == {"open", "timedOut", "stopped"}

Cached == {list_[i].sock : i \in DOMAIN list_}

Init ==
  /\ list_ = <<>>
  /\ pc = [t \in Threads |-> "idle"]
  /\ socket = [t \in Threads |-> None]
  /\ delay = [t \in Threads |-> 0]
  /\ up = TRUE
  /\ conn = [s \in Sockets |-> "closed"]
  /\ idle = [s \in Sockets |-> 0]
  /\ toHttpd = [s \in Sockets |-> <<>>]
  /\ toPlugin = [s \in Sockets |-> <<>>]

Goto(t, from, to) == pc[t] = from /\ pc' = [pc EXCEPT ![t] = to]

\* The last shared_ptr to each of these sockets is gone.
Close(socks) ==
  /\ conn' = [s \in Sockets |-> IF s \in socks THEN "closed" ELSE conn[s]]
  /\ toHttpd' = [s \in Sockets |-> IF s \in socks THEN <<>> ELSE toHttpd[s]]
  /\ toPlugin' = [s \in Sockets |-> IF s \in socks THEN <<>> ELSE toPlugin[s]]
  /\ idle' = [s \in Sockets |-> IF s \in socks THEN 0 ELSE idle[s]]
  /\ UNCHANGED up

-----------------------------------------------------------------------------
(* TcpCache::connect() *)

\* Mutated forms, each named for the mistake, precede what they mutate.
Valid_Always(i) == TRUE
Valid(i) == list_[i].age < Lifetime

\* What is left of the list when its first valid entry, at i, is taken.
ListAfterTake_NoPop(i) == SubSeq(list_, i, Len(list_))
ListAfterTake(i) == SubSeq(list_, i + 1, Len(list_))

TakeCached(t) ==
  /\ Goto(t, "idle", "sending")
  /\ \E i \in DOMAIN list_ :
       /\ Valid(i) /\ \A j \in 1..i - 1 : ~Valid(j)
       /\ socket' = [socket EXCEPT ![t] = list_[i].sock]
       /\ list_' = ListAfterTake(i)
       /\ Close({list_[j].sock : j \in 1..i - 1})
  /\ UNCHANGED delay

\* Every entry has expired, and is removed.
ListAfterMiss_Unchanged == list_
ListAfterMiss == <<>>

Miss(t) ==
  /\ Goto(t, "idle", "connecting")
  /\ \A i \in DOMAIN list_ : ~Valid(i)
  /\ list_' = ListAfterMiss
  /\ Close(Cached \ {list_'[i].sock : i \in DOMAIN list_'})
  /\ UNCHANGED <<socket, delay>>

CreateNewConnection(t) ==
  /\ Goto(t, "connecting", "sending")
  /\ up
  /\ \E s \in Sockets :
       /\ conn[s] = "closed"
       /\ conn' = [conn EXCEPT ![s] = "open"]
       /\ socket' = [socket EXCEPT ![t] = s]
  /\ UNCHANGED <<list_, delay, up, idle, channels>>

\* httpd is down or does not accept in time, or its name cannot be resolved.
CannotConnect(t) ==
  /\ Goto(t, "connecting", "idle")
  /\ UNCHANGED <<list_, socket, delay, httpd>>

-----------------------------------------------------------------------------
(* wsRequest(): writeWsRequest(), readWsResponse(), TcpCache::add() *)

\* A write to a connection that httpd has closed may still succeed.
WriteRequest(t) ==
  /\ Goto(t, "sending", "reading")
  /\ LET s == socket[t]
     IN  IF conn[s] = "open"
         THEN /\ toHttpd' = [toHttpd EXCEPT ![s] = Append(@, t)]
              /\ idle' = [idle EXCEPT ![s] = 0]
         ELSE UNCHANGED <<toHttpd, idle>>
  /\ delay' = [delay EXCEPT ![t] = 0]
  /\ UNCHANGED <<list_, socket, up, conn, toPlugin>>

\* -1: the socket is dropped.
Fail_ReturnsSocket(t) ==
  LET s == socket[t]
      GivenUp(owners) == [i \in DOMAIN owners |-> IF owners[i] = t THEN None ELSE owners[i]]
  IN  /\ list_' = Append(list_, [sock |-> s, age |-> 0])
      /\ toHttpd' = [toHttpd EXCEPT ![s] = GivenUp(@)]
      /\ UNCHANGED <<up, conn, idle, toPlugin>>
Fail(t) ==
  /\ Close({socket[t]})
  /\ UNCHANGED list_

RequestFails(t, from) ==
  /\ Goto(t, from, "idle")
  /\ Fail(t)
  /\ socket' = [socket EXCEPT ![t] = None]
  /\ delay' = [delay EXCEPT ![t] = 0]

\* The connection was closed, or waitWrite() timed out.
WriteFails(t) == RequestFails(t, "sending")

\* All that has arrived is read, and the first Result in it is the answer.
ReadResponse(t) ==
  /\ Goto(t, "reading", "answered")
  /\ LET arrived == toPlugin[socket[t]]
     IN  /\ arrived # <<>> /\ Head(arrived).result
         /\ toPlugin' = [toPlugin EXCEPT ![socket[t]] = <<>>]
  /\ UNCHANGED <<list_, socket, delay, up, conn, idle, toHttpd>>

\* 503 and 400 have no Result; or the connection was closed; or waitRead() timed out.
ReadFails(t) ==
  /\ RequestFails(t, "reading")
  /\ LET arrived == toPlugin[socket[t]]
     IN  arrived # <<>> => ~Head(arrived).result

AddTo_Front(entry) == <<entry>> \o list_
AddTo(entry) == Append(list_, entry)

Add(t) ==
  /\ Goto(t, "answered", "idle")
  /\ list_' = AddTo([sock |-> socket[t], age |-> 0])
  /\ socket' = [socket EXCEPT ![t] = None]
  /\ delay' = [delay EXCEPT ![t] = 0]
  /\ UNCHANGED httpd

-----------------------------------------------------------------------------
(* httpd *)

\* Answers the requests of a connection one after the other.
Answer(s) ==
  /\ conn[s] = "open" /\ toHttpd[s] # <<>>
  /\ \E result \in BOOLEAN :
       toPlugin' = [toPlugin EXCEPT ![s] = Append(@, [to |-> Head(toHttpd[s]),
                                                     result |-> result])]
  /\ toHttpd' = [toHttpd EXCEPT ![s] = Tail(@)]
  /\ idle' = [idle EXCEPT ![s] = 0]
  /\ UNCHANGED <<list_, threads, delay, up, conn>>

\* MHD_OPTION_CONNECTION_TIMEOUT
CloseIdle(s) ==
  /\ conn[s] = "open" /\ toHttpd[s] = <<>>
  /\ idle[s] > ClientTimeout
  /\ conn' = [conn EXCEPT ![s] = "timedOut"]
  /\ idle' = [idle EXCEPT ![s] = 0]
  /\ UNCHANGED <<list_, threads, delay, up, channels>>

\* Answers that were sent may be lost with the connection.
StopHttpd ==
  /\ up
  /\ up' = FALSE
  /\ conn' = [s \in Sockets |-> IF conn[s] = "open" THEN "stopped" ELSE conn[s]]
  /\ toHttpd' = [s \in Sockets |-> <<>>]
  /\ \E arriving \in SUBSET Sockets :
       toPlugin' = [s \in Sockets |-> IF s \in arriving THEN toPlugin[s] ELSE <<>>]
  /\ idle' = [s \in Sockets |-> 0]
  /\ UNCHANGED <<list_, threads, delay>>

StartHttpd ==
  /\ ~up
  /\ up' = TRUE
  /\ UNCHANGED <<list_, threads, delay, conn, idle, channels>>

-----------------------------------------------------------------------------
(* Time *)

\* t has a connection in hand on which nothing is under way.
Holds(t) ==
  \/ pc[t] \in {"sending", "answered"}
  \/ pc[t] = "reading" /\ toPlugin[socket[t]] # <<>>

AtMost(n, bound) == IF n < bound THEN n ELSE bound

Tick ==
  /\ \A t \in Threads : Holds(t) => delay[t] < MaxDelay
  /\ delay' = [t \in Threads |-> IF Holds(t) THEN delay[t] + 1 ELSE delay[t]]
  /\ list_' = [i \in DOMAIN list_ |->
                 [sock |-> list_[i].sock, age |-> AtMost(list_[i].age + 1, Lifetime)]]
  /\ idle' = [s \in Sockets |-> IF conn[s] = "open"
                                THEN AtMost(idle[s] + 1, ClientTimeout + 1) ELSE idle[s]]
  /\ UNCHANGED <<threads, up, conn, channels>>

-----------------------------------------------------------------------------
Proceed(t) ==
  \/ CreateNewConnection(t) \/ CannotConnect(t)
  \/ WriteRequest(t) \/ WriteFails(t) \/ ReadResponse(t) \/ ReadFails(t) \/ Add(t)

WsRequest(t) == TakeCached(t) \/ Miss(t)

Httpd == StopHttpd \/ StartHttpd \/ \E s \in Sockets : Answer(s) \/ CloseIdle(s)

Next ==
  \/ \E t \in Threads : WsRequest(t) \/ Proceed(t)
  \/ Httpd
  \/ Tick

Spec == Init /\ [][Next]_vars

\* wsRequest() is never stuck: connecting, writing and reading have time-outs.
Fairness == \A t \in Threads : WF_vars(Proceed(t))

FairSpec == Spec /\ Fairness

-----------------------------------------------------------------------------
(* Properties *)

ThreadStates == {"idle", "connecting", "sending", "reading", "answered"}
Active == {"sending", "reading", "answered"}

TypeOK ==
  /\ list_ \in Seq([sock : Sockets, age : 0..Lifetime])
  /\ pc \in [Threads -> ThreadStates]
  /\ socket \in [Threads -> Sockets \cup {None}]
  /\ \A t \in Threads : pc[t] \in Active <=> socket[t] # None
  /\ delay \in [Threads -> 0..MaxDelay]
  /\ up \in BOOLEAN
  /\ conn \in [Sockets -> Connected \cup {"closed"}]
  /\ idle \in [Sockets -> 0..ClientTimeout + 1]
  /\ toHttpd \in [Sockets -> Seq(Threads \cup {None})]
  /\ toPlugin \in [Sockets -> Seq([to : Threads \cup {None}, result : BOOLEAN])]

\* The verdict a thread reads is about the url it asked for, not about that of an
\* earlier user of the connection, whose answer came too late.
AnswersMatchRequests ==
  \A t \in Threads :
    pc[t] = "reading" /\ toPlugin[socket[t]] # <<>> => Head(toPlugin[socket[t]]).to = t

\* No two threads write to the same connection, nor one to a cached connection.
InUse == {t \in Threads : pc[t] \in Active}
OneUser ==
  /\ \A t, u \in InUse : socket[t] = socket[u] => t = u
  /\ \A t \in InUse : socket[t] \notin Cached
  /\ \A i, j \in DOMAIN list_ : list_[i].sock = list_[j].sock => i = j

\* httpd never closes, for idleness, a connection that a thread uses: cached
\* connections expire before, though httpd's clock started earlier.
NeverTimedOut == \A t \in InUse : conn[socket[t]] # "timedOut"

\* The cache has no limit of its own, yet the plugin never has more connections
\* open than threads.
Opened == {s \in Sockets : conn[s] # "closed"}
ConnectionsBounded == Cardinality(Opened) <= Cardinality(Threads)

\* When httpd comes back and stays, the dead connections in the cache, each of
\* which lets one request through unchecked, are used up while requests go on.
Asking == \E t \in Threads : pc[t] # "idle"
DeadConnectionsLeave ==
  <>[]up /\ []<>Asking => <>[](\A s \in Cached : conn[s] # "stopped")

=============================================================================
