--------------------------- MODULE IcapPluginProofs ---------------------------
(***************************************************************************)
(* Proofs about IcapPlugin, for any number of threads and sockets, and any  *)
(* time-outs that meet LifetimeAssumption.                                  *)
(***************************************************************************)
EXTENDS IcapPlugin, SequenceTheorems, FiniteSetTheorems, TLAPS

Entries == [sock : Sockets, age : 0..Lifetime]

\* Nothing is under way on the connection.
Quiet(s) == conn[s] # "closed" /\ toHttpd[s] = <<>> /\ toPlugin[s] = <<>>

\* httpd has not closed s for idleness, and has counted at most n ticks.
Young(s, n) == conn[s] # "timedOut" /\ (conn[s] = "open" => idle[s] <= n)

\* A thread that reads is owed one answer, its own, unless httpd went away.
Exchange(t, s) ==
  \/ conn[s] = "open" /\ toHttpd[s] = <<t>> /\ toPlugin[s] = <<>>
  \/ conn[s] = "stopped" /\ toHttpd[s] = <<>> /\ toPlugin[s] = <<>>
  \/ /\ conn[s] \in {"open", "stopped"} /\ toHttpd[s] = <<>>
     /\ \E r \in BOOLEAN : toPlugin[s] = <<[to |-> t, result |-> r]>>
     /\ Young(s, delay[t])

Sound(t, s) ==
  /\ pc[t] = "sending"  => Quiet(s) /\ Young(s, Lifetime + MaxDelay + delay[t])
  /\ pc[t] = "reading"  => Exchange(t, s)
  /\ pc[t] = "answered" => Quiet(s) /\ Young(s, delay[t])

ThreadsSound == \A t \in InUse : Sound(t, socket[t])

\* An entry that may still be taken was last used by httpd not long before add().
CacheSound ==
  \A i \in DOMAIN list_ :
    /\ Quiet(list_[i].sock)
    /\ list_[i].age < Lifetime => Young(list_[i].sock, list_[i].age + MaxDelay)

ClosedSound ==
  \A s \in Sockets :
    conn[s] = "closed" => idle[s] = 0 /\ toHttpd[s] = <<>> /\ toPlugin[s] = <<>>

\* No connection is forgotten.
Owned ==
  \A s \in Sockets :
    conn[s] # "closed" => s \in Cached \/ \E t \in InUse : socket[t] = s

IInv == TypeOK /\ OneUser /\ ThreadsSound /\ CacheSound /\ ClosedSound /\ Owned

-----------------------------------------------------------------------------
(* Types *)

Messages == [to : Threads \cup {None}, result : BOOLEAN]

ThreadTypes ==
  /\ pc \in [Threads -> ThreadStates]
  /\ socket \in [Threads -> Sockets \cup {None}]
  /\ \A t \in Threads : pc[t] \in Active <=> socket[t] # None
  /\ delay \in [Threads -> 0..MaxDelay]

HttpdTypes ==
  /\ up \in BOOLEAN
  /\ conn \in [Sockets -> Connected \cup {"closed"}]
  /\ idle \in [Sockets -> 0..ClientTimeout + 1]
  /\ toHttpd \in [Sockets -> Seq(Threads \cup {None})]
  /\ toPlugin \in [Sockets -> Seq(Messages)]

LEMMA Types == TypeOK <=> list_ \in Seq(Entries) /\ ThreadTypes /\ HttpdTypes
BY DEF TypeOK, ThreadTypes, HttpdTypes, Entries, Messages

LEMMA TypesPrime == TypeOK' <=> list_' \in Seq(Entries) /\ ThreadTypes' /\ HttpdTypes'
BY DEF TypeOK, ThreadTypes, HttpdTypes, Entries, Messages

LEMMA Constants ==
  /\ Lifetime \in Nat /\ ClientTimeout \in Nat /\ MaxDelay \in Nat
  /\ Lifetime + 2 * MaxDelay <= ClientTimeout
  /\ None \notin Threads \cup Sockets
BY LifetimeAssumption, SocketsAssumption

LEMMA EntryTypes ==
  ASSUME list_ \in Seq(Entries), NEW i \in DOMAIN list_
  PROVE  list_[i] \in Entries /\ list_[i].sock \in Sockets /\ list_[i].age \in 0..Lifetime
<1>1. list_[i] \in Entries
  OBVIOUS
<1>. QED BY <1>1 DEF Entries

\* A thread in wsRequest() past connect() has a socket, open as far as it knows.
LEMMA UsedSocket ==
  ASSUME IInv, NEW t \in InUse
  PROVE  socket[t] \in Sockets /\ conn[socket[t]] # "closed"
<1>1. socket[t] \in Sockets
  BY Types DEF IInv, InUse, ThreadTypes
<1>2. Sound(t, socket[t])
  BY DEF IInv, ThreadsSound
<1>. QED BY <1>1, <1>2 DEF Sound, InUse, Active, Quiet, Exchange

LEMMA CloseEffect ==
  ASSUME HttpdTypes, NEW socks, Close(socks)
  PROVE  /\ HttpdTypes'
         /\ \A s \in Sockets :
              /\ s \in socks => /\ conn'[s] = "closed" /\ idle'[s] = 0
                                /\ toHttpd'[s] = <<>> /\ toPlugin'[s] = <<>>
              /\ s \notin socks => /\ conn'[s] = conn[s] /\ idle'[s] = idle[s]
                                   /\ toHttpd'[s] = toHttpd[s] /\ toPlugin'[s] = toPlugin[s]
<1>1. \A S : <<>> \in Seq(S)
  OBVIOUS
<1>2. up' \in BOOLEAN
  BY Zenon DEF Close, HttpdTypes
<1>3. /\ conn' \in [Sockets -> Connected \cup {"closed"}]
      /\ idle' \in [Sockets -> 0..ClientTimeout + 1]
      /\ toHttpd' \in [Sockets -> Seq(Threads \cup {None})]
      /\ toPlugin' \in [Sockets -> Seq(Messages)]
  BY <1>1, Constants DEF Close, HttpdTypes
<1>. QED BY <1>2, <1>3 DEF Close, HttpdTypes

LEMMA IInvInit == Init => IInv
<1>. SUFFICES ASSUME Init PROVE IInv
  OBVIOUS
<1>. USE Constants DEF Init
<1>1. \A S : <<>> \in Seq(S)
  OBVIOUS
<1>2. up \in BOOLEAN
  BY Zenon
<1>3. InUse = {} /\ DOMAIN list_ = {}
  BY DEF InUse, Active
<1>4. HttpdTypes
  BY <1>1, <1>2 DEF HttpdTypes
<1>5. ThreadTypes
  BY DEF ThreadTypes, ThreadStates, Active
<1>6. list_ \in Seq(Entries)
  BY <1>1
<1>7. OneUser /\ ThreadsSound /\ CacheSound
  BY <1>3 DEF OneUser, ThreadsSound, CacheSound
<1>8. ClosedSound /\ Owned
  BY DEF ClosedSound, Owned
<1>. QED BY <1>4, <1>5, <1>6, <1>7, <1>8, Types DEF IInv

-----------------------------------------------------------------------------
(* Steps of one thread on its own socket *)

\* What does not change stays sound.
LEMMA SameThread ==
  ASSUME NEW t, NEW s, Sound(t, s), pc'[t] = pc[t], delay'[t] = delay[t],
         conn'[s] = conn[s], idle'[s] = idle[s], toHttpd'[s] = toHttpd[s],
         toPlugin'[s] = toPlugin[s], socket'[t] = socket[t]
  PROVE  /\ s = socket[t] => Sound(t, socket[t])'
BY DEF Sound, Quiet, Young, Exchange

LEMMA LocalStep ==
  ASSUME IInv, TypeOK', NEW t \in Threads, NEW s \in Sockets, UNCHANGED list_,
         \A u \in Threads \ {t} :
           pc'[u] = pc[u] /\ socket'[u] = socket[u] /\ delay'[u] = delay[u],
         \A x \in Sockets \ {s} :
           /\ conn'[x] = conn[x] /\ idle'[x] = idle[x]
           /\ toHttpd'[x] = toHttpd[x] /\ toPlugin'[x] = toPlugin[x],
         IF pc[t] \in Active THEN socket[t] = s ELSE conn[s] = "closed",
         pc'[t] \in Active => socket'[t] = s /\ Sound(t, socket[t])',
         conn'[s] = "closed" => idle'[s] = 0 /\ toHttpd'[s] = <<>> /\ toPlugin'[s] = <<>>,
         pc'[t] \notin Active => conn'[s] = "closed"
  PROVE  IInv'
<1>1. InUse \subseteq Threads /\ InUse' \subseteq InUse \cup {t}
  BY DEF InUse
<1>2. \A u \in InUse \ {t} : socket[u] \in Sockets \ {s} /\ socket'[u] = socket[u]
  <2>1. ASSUME NEW u \in InUse \ {t} PROVE socket[u] \in Sockets \ {s}
    BY <2>1, <1>1, UsedSocket DEF IInv, OneUser, InUse
  <2>. QED BY <1>1, <2>1
<1>3. \A i \in DOMAIN list_ : list_[i].sock \in Sockets \ {s}
  <2>1. ASSUME NEW i \in DOMAIN list_ PROVE list_[i].sock \in Sockets \ {s}
    <3>1. list_[i].sock \in Sockets /\ list_[i].sock \in Cached
      BY EntryTypes, Types DEF IInv, Cached
    <3>2. conn[list_[i].sock] # "closed"
      BY DEF IInv, CacheSound, Quiet
    <3>. QED BY <3>1, <3>2 DEF IInv, OneUser, InUse
  <2>. QED BY <2>1
<1>4. OneUser'
  <2>1. Cached' = Cached /\ s \notin Cached
    BY <1>3 DEF Cached
  <2>2. \A u \in InUse' : u # t => u \in InUse /\ socket'[u] = socket[u] /\ socket[u] # s
    BY <1>1, <1>2
  <2>3. t \in InUse' => socket'[t] = s
    BY DEF InUse
  <2>. QED BY <2>1, <2>2, <2>3 DEF IInv, OneUser
<1>5. ThreadsSound'
  <2>1. ASSUME NEW u \in InUse', u # t PROVE Sound(u, socket[u])'
    <3>1. u \in InUse /\ u \in Threads \ {t}
      BY <1>1, <2>1
    <3>2. Sound(u, socket[u])
      BY <3>1 DEF IInv, ThreadsSound
    <3>. QED BY <1>2, <3>1, <3>2, SameThread
  <2>2. t \in InUse' => Sound(t, socket[t])'
    BY DEF InUse
  <2>. QED BY <2>1, <2>2 DEF ThreadsSound
<1>6. CacheSound'
  BY <1>3 DEF IInv, CacheSound, Quiet, Young
<1>7. ClosedSound'
  BY DEF IInv, ClosedSound
<1>8. Owned'
  <2>1. ASSUME NEW x \in Sockets, conn'[x] # "closed", x # s
        PROVE  x \in Cached' \/ \E u \in InUse' : socket'[u] = x
    <3>1. x \in Cached \/ \E u \in InUse : socket[u] = x
      BY <2>1 DEF IInv, Owned
    <3>2. Cached' = Cached
      BY DEF Cached
    <3>3. ASSUME NEW u \in InUse, socket[u] = x PROVE u \in InUse' /\ socket'[u] = x
      <4>. u # t
        BY <2>1, <3>3 DEF InUse
      <4>. QED BY <3>3 DEF InUse
    <3>. QED BY <3>1, <3>2, <3>3
  <2>2. conn'[s] # "closed" => t \in InUse' /\ socket'[t] = s
    BY DEF InUse
  <2>. QED BY <2>1, <2>2 DEF Owned
<1>. QED BY <1>4, <1>5, <1>6, <1>7, <1>8 DEF IInv

LEMMA CreateInv ==
  ASSUME IInv, NEW t \in Threads, CreateNewConnection(t) PROVE IInv'
<1>. USE Constants
<1>1. PICK s \in Sockets : /\ conn[s] = "closed"
                           /\ conn' = [conn EXCEPT ![s] = "open"]
                           /\ socket' = [socket EXCEPT ![t] = s]
  BY DEF CreateNewConnection
<1>2. /\ pc[t] = "connecting" /\ pc' = [pc EXCEPT ![t] = "sending"]
      /\ UNCHANGED <<list_, delay, up, idle, toHttpd, toPlugin>>
  BY DEF CreateNewConnection, Goto, channels
<1>3. list_ \in Seq(Entries) /\ ThreadTypes /\ HttpdTypes
  BY Types DEF IInv
<1>4. TypeOK'
  <2>1. ThreadTypes'
    BY <1>1, <1>2, <1>3 DEF ThreadTypes, ThreadStates, Active
  <2>2. up' \in BOOLEAN
    BY <1>2, <1>3, Zenon DEF HttpdTypes
  <2>3. HttpdTypes'
    BY <1>1, <1>2, <1>3, <2>2 DEF HttpdTypes, Connected
  <2>. QED BY <1>2, <1>3, <2>1, <2>3, TypesPrime
<1>5. /\ pc'[t] = "sending" /\ socket'[t] = s /\ conn'[s] = "open"
      /\ delay'[t] \in Nat /\ idle'[s] = 0 /\ toHttpd'[s] = <<>> /\ toPlugin'[s] = <<>>
  BY <1>1, <1>2, <1>3 DEF ThreadTypes, HttpdTypes, IInv, ClosedSound
<1>6. Sound(t, socket[t])'
  BY <1>5 DEF Sound, Quiet, Young
<1>7. \A u \in Threads \ {t} :
         pc'[u] = pc[u] /\ socket'[u] = socket[u] /\ delay'[u] = delay[u]
  BY <1>1, <1>2, <1>3 DEF ThreadTypes
<1>8. \A x \in Sockets \ {s} :
         /\ conn'[x] = conn[x] /\ idle'[x] = idle[x]
         /\ toHttpd'[x] = toHttpd[x] /\ toPlugin'[x] = toPlugin[x]
  BY <1>1, <1>2, <1>3 DEF HttpdTypes
<1>. QED BY <1>1, <1>2, <1>4, <1>5, <1>6, <1>7, <1>8, LocalStep DEF Active

LEMMA WriteRequestInv ==
  ASSUME IInv, NEW t \in Threads, WriteRequest(t) PROVE IInv'
<1>. USE Constants
<1>. DEFINE s == socket[t]
<1>1. /\ pc[t] = "sending" /\ pc' = [pc EXCEPT ![t] = "reading"]
      /\ delay' = [delay EXCEPT ![t] = 0]
      /\ UNCHANGED <<list_, socket, up, conn, toPlugin>>
  BY DEF WriteRequest, Goto
<1>2. list_ \in Seq(Entries) /\ ThreadTypes /\ HttpdTypes
  BY Types DEF IInv
<1>3. t \in InUse /\ s \in Sockets /\ Quiet(s) /\ Young(s, Lifetime + MaxDelay + delay[t])
  <2>1. t \in InUse
    BY <1>1 DEF InUse, Active
  <2>. QED BY <1>1, <2>1, UsedSocket DEF IInv, ThreadsSound, Sound
<1>. HIDE DEF s
<1>4. \/ /\ conn[s] = "open"
         /\ toHttpd' = [toHttpd EXCEPT ![s] = Append(@, t)]
         /\ idle' = [idle EXCEPT ![s] = 0]
      \/ conn[s] # "open" /\ UNCHANGED <<toHttpd, idle>>
  BY DEF WriteRequest, s
<1>5. TypeOK'
  <2>1. ThreadTypes'
    BY <1>1, <1>2 DEF ThreadTypes, ThreadStates, Active
  <2>2. up' \in BOOLEAN
    BY <1>1, <1>2, Zenon DEF HttpdTypes
  <2>3. Append(toHttpd[s], t) \in Seq(Threads \cup {None})
    BY <1>2, <1>3, AppendProperties DEF HttpdTypes
  <2>4. toHttpd' \in [Sockets -> Seq(Threads \cup {None})]
    BY <1>2, <1>4, <2>3 DEF HttpdTypes
  <2>5. idle' \in [Sockets -> 0..ClientTimeout + 1]
    BY <1>2, <1>4 DEF HttpdTypes
  <2>6. HttpdTypes'
    BY <1>1, <1>2, <2>2, <2>4, <2>5 DEF HttpdTypes
  <2>. QED BY <1>1, <1>2, <2>1, <2>6, TypesPrime
<1>6. /\ pc'[t] = "reading" /\ socket'[t] = s
      /\ toHttpd[s] = <<>> /\ toPlugin'[s] = <<>> /\ conn'[s] = conn[s]
      /\ conn[s] \in {"open", "stopped"}
      /\ toHttpd'[s] = IF conn[s] = "open" THEN Append(<<>>, t) ELSE <<>>
  BY <1>1, <1>2, <1>3, <1>4 DEF ThreadTypes, HttpdTypes, Quiet, Young, Connected, s
<1>7. Sound(t, socket[t])'
  BY <1>6 DEF Sound, Exchange
<1>8. \A u \in Threads \ {t} :
         pc'[u] = pc[u] /\ socket'[u] = socket[u] /\ delay'[u] = delay[u]
  BY <1>1, <1>2 DEF ThreadTypes
<1>9. \A x \in Sockets \ {s} :
         /\ conn'[x] = conn[x] /\ idle'[x] = idle[x]
         /\ toHttpd'[x] = toHttpd[x] /\ toPlugin'[x] = toPlugin[x]
  BY <1>1, <1>2, <1>4 DEF HttpdTypes
<1>10. /\ pc[t] \in Active /\ socket[t] = s /\ conn'[s] # "closed"
       /\ pc'[t] \in Active
  BY <1>1, <1>6 DEF Active, s
<1>. QED BY <1>1, <1>3, <1>5, <1>6, <1>7, <1>8, <1>9, <1>10, LocalStep

LEMMA RequestFailsInv ==
  ASSUME IInv, NEW t \in Threads, NEW from \in {"sending", "reading"}, RequestFails(t, from)
  PROVE  IInv'
<1>. USE Constants
<1>. DEFINE s == socket[t]
<1>1. /\ pc[t] = from /\ pc' = [pc EXCEPT ![t] = "idle"]
      /\ socket' = [socket EXCEPT ![t] = None]
      /\ delay' = [delay EXCEPT ![t] = 0]
      /\ UNCHANGED list_ /\ Close({s})
  BY DEF RequestFails, Fail, Goto
<1>2. list_ \in Seq(Entries) /\ ThreadTypes /\ HttpdTypes
  BY Types DEF IInv
<1>3. t \in InUse /\ s \in Sockets /\ pc[t] \in Active
  BY <1>1, UsedSocket DEF InUse, Active
<1>4. TypeOK'
  <2>1. ThreadTypes'
    BY <1>1, <1>2 DEF ThreadTypes, ThreadStates, Active
  <2>2. HttpdTypes'
    BY <1>1, <1>2, CloseEffect
  <2>. QED BY <1>1, <1>2, <2>1, <2>2, TypesPrime
<1>5. pc'[t] \notin Active
  BY <1>1, <1>2 DEF ThreadTypes, Active
<1>6. \A u \in Threads \ {t} :
         pc'[u] = pc[u] /\ socket'[u] = socket[u] /\ delay'[u] = delay[u]
  BY <1>1, <1>2 DEF ThreadTypes
<1>7. /\ \A x \in Sockets \ {s} :
            /\ conn'[x] = conn[x] /\ idle'[x] = idle[x]
            /\ toHttpd'[x] = toHttpd[x] /\ toPlugin'[x] = toPlugin[x]
      /\ conn'[s] = "closed" /\ idle'[s] = 0 /\ toHttpd'[s] = <<>> /\ toPlugin'[s] = <<>>
  BY <1>1, <1>2, <1>3, CloseEffect
<1>. QED BY <1>1, <1>3, <1>4, <1>5, <1>6, <1>7, LocalStep

LEMMA ReadResponseInv ==
  ASSUME IInv, NEW t \in Threads, ReadResponse(t) PROVE IInv'
<1>. USE Constants
<1>. DEFINE s == socket[t]
<1>1. /\ pc[t] = "reading" /\ pc' = [pc EXCEPT ![t] = "answered"]
      /\ toPlugin[s] # <<>>
      /\ toPlugin' = [toPlugin EXCEPT ![s] = <<>>]
      /\ UNCHANGED <<list_, socket, delay, up, conn, idle, toHttpd>>
  BY DEF ReadResponse, Goto
<1>2. list_ \in Seq(Entries) /\ ThreadTypes /\ HttpdTypes
  BY Types DEF IInv
<1>3. t \in InUse /\ s \in Sockets /\ pc[t] \in Active /\ Exchange(t, s)
  BY <1>1, UsedSocket DEF InUse, Active, IInv, ThreadsSound, Sound
<1>. HIDE DEF s
<1>4. conn[s] \in {"open", "stopped"} /\ toHttpd[s] = <<>> /\ Young(s, delay[t])
  BY <1>1, <1>3 DEF Exchange
<1>5. TypeOK'
  <2>1. ThreadTypes'
    BY <1>1, <1>2 DEF ThreadTypes, ThreadStates, Active
  <2>2. up' \in BOOLEAN
    BY <1>1, <1>2, Zenon DEF HttpdTypes
  <2>3. <<>> \in Seq(Messages)
    OBVIOUS
  <2>4. HttpdTypes'
    BY <1>1, <1>2, <2>2, <2>3 DEF HttpdTypes
  <2>. QED BY <1>1, <1>2, <2>1, <2>4, TypesPrime
<1>6. pc'[t] = "answered" /\ socket'[t] = s /\ toPlugin'[s] = <<>>
  BY <1>1, <1>2, <1>3 DEF ThreadTypes, HttpdTypes, s
<1>7. Sound(t, socket[t])'
  BY <1>1, <1>4, <1>6 DEF Sound, Quiet, Young
<1>8. \A u \in Threads \ {t} :
         pc'[u] = pc[u] /\ socket'[u] = socket[u] /\ delay'[u] = delay[u]
  BY <1>1, <1>2 DEF ThreadTypes
<1>9. \A x \in Sockets \ {s} :
         /\ conn'[x] = conn[x] /\ idle'[x] = idle[x]
         /\ toHttpd'[x] = toHttpd[x] /\ toPlugin'[x] = toPlugin[x]
  BY <1>1, <1>2 DEF HttpdTypes
<1>10. socket[t] = s /\ conn'[s] # "closed" /\ pc'[t] \in Active
  BY <1>1, <1>4, <1>6 DEF s, Active
<1>. QED BY <1>1, <1>3, <1>5, <1>6, <1>7, <1>8, <1>9, <1>10, LocalStep

-----------------------------------------------------------------------------
(* Steps on the cache *)

LEMMA TakeCachedInv ==
  ASSUME IInv, NEW t \in Threads, TakeCached(t)
  PROVE  IInv' /\ Len(list_') < Len(list_)
<1>. USE Constants
<1>1. /\ pc[t] = "idle" /\ pc' = [pc EXCEPT ![t] = "sending"]
      /\ UNCHANGED delay
  BY DEF TakeCached, Goto
<1>2. PICK i \in DOMAIN list_ :
         /\ list_[i].age < Lifetime
         /\ socket' = [socket EXCEPT ![t] = list_[i].sock]
         /\ list_' = SubSeq(list_, i + 1, Len(list_))
         /\ Close({list_[j].sock : j \in 1..i - 1})
  BY DEF TakeCached, Valid, ListAfterTake
<1>. DEFINE s == list_[i].sock
            socks == {list_[j].sock : j \in 1..i - 1}
<1>3. list_ \in Seq(Entries) /\ ThreadTypes /\ HttpdTypes
  BY Types DEF IInv
<1>4. /\ Len(list_) \in Nat /\ DOMAIN list_ = 1..Len(list_) /\ i \in 1..Len(list_)
      /\ \A j \in DOMAIN list_ : list_[j] \in Entries
  BY <1>3
<1>5. /\ list_' \in Seq(Entries) /\ Len(list_') = Len(list_) - i
      /\ DOMAIN list_' = 1..Len(list_) - i
      /\ \A k \in DOMAIN list_' : i + k \in DOMAIN list_ /\ list_'[k] = list_[i + k]
  <2>1. \A k \in (i + 1)..Len(list_) : list_[k] \in Entries
    BY <1>4
  <2>2. i + 1 \in Int /\ Len(list_) \in Int
    BY <1>4
  <2>3. /\ list_' \in Seq(Entries)
        /\ Len(list_') = IF i + 1 <= Len(list_) THEN Len(list_) - (i + 1) + 1 ELSE 0
        /\ \A k \in 1..(Len(list_) - (i + 1) + 1) : list_'[k] = list_[(i + 1) + k - 1]
    BY <1>2, <2>1, <2>2, SubSeqProperties
  <2>4. Len(list_') = Len(list_) - i
    BY <1>4, <2>3
  <2>5. DOMAIN list_' = 1..Len(list_) - i
    BY <2>3, <2>4
  <2>6. ASSUME NEW k \in 1..Len(list_) - i
        PROVE  i + k \in DOMAIN list_ /\ list_'[k] = list_[i + k]
    <3>1. k \in 1..(Len(list_) - (i + 1) + 1) /\ (i + 1) + k - 1 = i + k
      BY <1>4
    <3>2. i + k \in DOMAIN list_
      BY <1>4
    <3>. QED BY <2>3, <3>1, <3>2
  <2>. QED BY <2>3, <2>4, <2>5, <2>6
\* The sockets that are closed are cached before the one that is taken.
<1>6. /\ s \in Sockets /\ s \in Cached /\ s \notin socks
      /\ socks \subseteq Cached
      /\ \A k \in DOMAIN list_' : list_'[k].sock \notin socks \cup {s}
  <2>1. s \in Sockets /\ s \in Cached
    BY <1>3, EntryTypes DEF Cached
  <2>2. \A j \in 1..i - 1 : j \in DOMAIN list_ /\ j # i
    BY <1>4
  <2>3. \A j, k \in DOMAIN list_ : list_[j].sock = list_[k].sock => j = k
    BY DEF IInv, OneUser
  <2>4. s \notin socks /\ socks \subseteq Cached
    BY <2>2, <2>3 DEF Cached
  <2>5. ASSUME NEW k \in DOMAIN list_' PROVE list_'[k].sock \notin socks \cup {s}
    <3>1. i + k # i /\ \A j \in 1..i - 1 : i + k # j
      BY <1>4, <1>5
    <3>. QED BY <1>5, <2>2, <2>3, <3>1
  <2>. QED BY <2>1, <2>4, <2>5
<1>7. Quiet(s) /\ Young(s, list_[i].age + MaxDelay) /\ list_[i].age \in Nat
  BY <1>2, <1>3, EntryTypes DEF IInv, CacheSound
<1>8. /\ HttpdTypes'
      /\ \A x \in Sockets :
           /\ x \in socks => /\ conn'[x] = "closed" /\ idle'[x] = 0
                             /\ toHttpd'[x] = <<>> /\ toPlugin'[x] = <<>>
           /\ x \notin socks => /\ conn'[x] = conn[x] /\ idle'[x] = idle[x]
                                /\ toHttpd'[x] = toHttpd[x] /\ toPlugin'[x] = toPlugin[x]
  BY <1>2, <1>3, CloseEffect
<1>. HIDE DEF s, socks
<1>9. TypeOK'
  <2>1. ThreadTypes'
    BY <1>1, <1>2, <1>3, <1>6 DEF ThreadTypes, ThreadStates, Active, s
  <2>. QED BY <1>5, <1>8, <2>1, TypesPrime
<1>10. /\ pc'[t] = "sending" /\ socket'[t] = s /\ delay'[t] \in Nat
       /\ \A u \in Threads \ {t} :
            pc'[u] = pc[u] /\ socket'[u] = socket[u] /\ delay'[u] = delay[u]
  BY <1>1, <1>2, <1>3 DEF ThreadTypes, s
<1>11. \A u \in InUse : u # t /\ socket[u] \in Sockets /\ socket[u] \notin socks \cup {s}
  <2>1. ASSUME NEW u \in InUse PROVE socket[u] \notin Cached
    BY DEF IInv, OneUser
  <2>. QED BY <1>1, <1>6, <2>1, UsedSocket DEF InUse, Active
<1>12. InUse' \subseteq InUse \cup {t}
  BY <1>10 DEF InUse
<1>13. OneUser'
  <2>1. Cached' \subseteq Cached
    BY <1>5 DEF Cached
  <2>2. s \notin Cached'
    BY <1>6 DEF Cached
  <2>3. ASSUME NEW j \in DOMAIN list_', NEW k \in DOMAIN list_',
               list_'[j].sock = list_'[k].sock
        PROVE  j = k
    <3>1. i + j = i + k
      BY <1>5, <2>3 DEF IInv, OneUser
    <3>. QED BY <1>4, <1>5, <3>1
  <2>4. \A u \in InUse' : u # t => u \in InUse /\ u \in Threads \ {t}
    BY <1>12 DEF InUse
  <2>5. \A u \in InUse' : socket'[u] \notin Cached'
    BY <1>10, <2>1, <2>2, <2>4 DEF IInv, OneUser
  <2>6. \A u, v \in InUse' : socket'[u] = socket'[v] => u = v
    BY <1>10, <1>11, <2>4 DEF IInv, OneUser
  <2>. QED BY <2>3, <2>5, <2>6 DEF OneUser
<1>14. ThreadsSound'
  <2>1. ASSUME NEW u \in InUse', u # t PROVE Sound(u, socket[u])'
    <3>1. u \in InUse /\ u \in Threads \ {t}
      BY <1>12, <2>1 DEF InUse
    <3>2. Sound(u, socket[u])
      BY <3>1 DEF IInv, ThreadsSound
    <3>. QED BY <1>8, <1>10, <1>11, <3>1, <3>2, SameThread
  <2>2. Sound(t, socket[t])'
    <3>1. conn[s] = "open" => idle[s] <= Lifetime + MaxDelay + delay'[t]
      <4>1. idle[s] \in Nat
        BY <1>3, <1>6 DEF HttpdTypes
      <4>. QED BY <1>2, <1>7, <1>10, <4>1 DEF Young
    <3>. QED BY <1>6, <1>7, <1>8, <1>10, <3>1 DEF Sound, Quiet, Young
  <2>. QED BY <2>1, <2>2 DEF ThreadsSound
<1>15. CacheSound'
  <2>1. ASSUME NEW k \in DOMAIN list_'
        PROVE  /\ Quiet(list_[k].sock)'
               /\ (list_[k].age < Lifetime => Young(list_[k].sock, list_[k].age + MaxDelay))'
    <3>. DEFINE x == list_'[k].sock
                n == list_'[k].age
    <3>1. i + k \in DOMAIN list_ /\ x = list_[i + k].sock /\ n = list_[i + k].age
      BY <1>5
    <3>2. x \notin socks /\ x \in Sockets
      BY <1>3, <1>6, <3>1, EntryTypes
    <3>3. Quiet(x) /\ (n < Lifetime => Young(x, n + MaxDelay))
      BY <3>1 DEF IInv, CacheSound
    <3>. HIDE DEF x, n
    <3>4. /\ conn'[x] # "closed" /\ toHttpd'[x] = <<>> /\ toPlugin'[x] = <<>>
          /\ n < Lifetime => /\ conn'[x] # "timedOut"
                             /\ conn'[x] = "open" => idle'[x] <= n + MaxDelay
      BY <1>8, <3>2, <3>3 DEF Quiet, Young
    <3>. QED BY <3>4 DEF Quiet, Young, x, n
  <2>. QED BY <2>1 DEF CacheSound
<1>16. ClosedSound'
  BY <1>8 DEF IInv, ClosedSound
<1>17. Owned'
  <2>1. ASSUME NEW x \in Sockets, conn'[x] # "closed"
        PROVE  x \in Cached' \/ \E u \in InUse' : socket'[u] = x
    <3>1. x \notin socks /\ conn[x] # "closed"
      BY <1>8, <2>1
    <3>2. ASSUME NEW j \in DOMAIN list_, list_[j].sock = x, x # s PROVE x \in Cached'
      <4>1. j \notin 1..i - 1 /\ j # i
        BY <3>1, <3>2 DEF s, socks
      <4>2. j - i \in DOMAIN list_' /\ i + (j - i) = j
        BY <1>4, <1>5, <4>1
      <4>3. list_'[j - i] = list_[j]
        BY <1>5, <4>2
      <4>. QED BY <3>2, <4>2, <4>3 DEF Cached
    <3>3. ASSUME NEW u \in InUse, socket[u] = x PROVE u \in InUse' /\ socket'[u] = x
      BY <1>10, <1>11, <3>3 DEF InUse
    <3>4. t \in InUse' /\ socket'[t] = s
      BY <1>10 DEF InUse, Active
    <3>5. x \in Cached \/ \E u \in InUse : socket[u] = x
      BY <3>1 DEF IInv, Owned
    <3>. QED BY <3>2, <3>3, <3>4, <3>5 DEF Cached
  <2>. QED BY <2>1 DEF Owned
<1>. QED BY <1>4, <1>5, <1>9, <1>13, <1>14, <1>15, <1>16, <1>17 DEF IInv

LEMMA MissInv ==
  ASSUME IInv, NEW t \in Threads, Miss(t) PROVE IInv' /\ list_' = <<>>
<1>. USE Constants
<1>1. /\ pc[t] = "idle" /\ pc' = [pc EXCEPT ![t] = "connecting"]
      /\ list_' = <<>>
      /\ UNCHANGED <<socket, delay>>
  BY DEF Miss, Goto, ListAfterMiss
<1>2. list_ \in Seq(Entries) /\ ThreadTypes /\ HttpdTypes
  BY Types DEF IInv
<1>3. DOMAIN list_' = {}
  BY <1>1
<1>4. Close(Cached)
  <2>1. {list_'[i].sock : i \in DOMAIN list_'} = {}
    BY <1>3
  <2>2. Close(Cached \ {list_'[i].sock : i \in DOMAIN list_'})
    BY DEF Miss
  <2>3. Cached \ {list_'[i].sock : i \in DOMAIN list_'} = Cached
    BY <2>1
  <2>. QED BY <2>2, <2>3
<1>5. /\ HttpdTypes'
      /\ \A x \in Sockets :
           /\ x \in Cached => /\ conn'[x] = "closed" /\ idle'[x] = 0
                              /\ toHttpd'[x] = <<>> /\ toPlugin'[x] = <<>>
           /\ x \notin Cached => /\ conn'[x] = conn[x] /\ idle'[x] = idle[x]
                                 /\ toHttpd'[x] = toHttpd[x] /\ toPlugin'[x] = toPlugin[x]
  BY <1>2, <1>4, CloseEffect
<1>6. TypeOK'
  <2>1. ThreadTypes'
    BY <1>1, <1>2 DEF ThreadTypes, ThreadStates, Active
  <2>2. list_' \in Seq(Entries)
    BY <1>1
  <2>. QED BY <1>5, <2>1, <2>2, TypesPrime
<1>7. InUse' = InUse /\ InUse \subseteq Threads \ {t}
  BY <1>1, <1>2 DEF InUse, Active, ThreadTypes
<1>8. OneUser'
  <2>1. Cached' = {}
    BY <1>3 DEF Cached
  <2>. QED BY <1>1, <1>3, <1>7, <2>1 DEF IInv, OneUser
<1>9. ThreadsSound'
  <2>1. ASSUME NEW u \in InUse PROVE Sound(u, socket[u])'
    <3>1. Sound(u, socket[u]) /\ socket[u] \in Sockets /\ socket[u] \notin Cached
      BY UsedSocket DEF IInv, ThreadsSound, OneUser
    <3>2. pc'[u] = pc[u]
      BY <1>1, <1>2, <1>7 DEF ThreadTypes
    <3>. QED BY <1>1, <1>5, <3>1, <3>2, SameThread
  <2>. QED BY <1>7, <2>1 DEF ThreadsSound
<1>10. CacheSound'
  BY <1>3 DEF CacheSound
<1>11. ClosedSound' /\ Owned'
  BY <1>1, <1>5, <1>7 DEF IInv, ClosedSound, Owned
<1>. QED BY <1>1, <1>6, <1>8, <1>9, <1>10, <1>11 DEF IInv

LEMMA AddInv ==
  ASSUME IInv, NEW t \in Threads, Add(t)
  PROVE  IInv' /\ Len(list_') = Len(list_) + 1
<1>. USE Constants
<1>. DEFINE s == socket[t]
            e == [sock |-> s, age |-> 0]
<1>1. /\ pc[t] = "answered" /\ pc' = [pc EXCEPT ![t] = "idle"]
      /\ list_' = Append(list_, e)
      /\ socket' = [socket EXCEPT ![t] = None]
      /\ delay' = [delay EXCEPT ![t] = 0]
      /\ UNCHANGED <<up, conn, idle, toHttpd, toPlugin>>
  BY DEF Add, Goto, AddTo, httpd, channels
<1>2. list_ \in Seq(Entries) /\ ThreadTypes /\ HttpdTypes
  BY Types DEF IInv
<1>3. /\ t \in InUse /\ s \in Sockets /\ Quiet(s) /\ Young(s, delay[t])
      /\ delay[t] \in 0..MaxDelay
  <2>1. t \in InUse
    BY <1>1 DEF InUse, Active
  <2>. QED BY <1>1, <1>2, <2>1, UsedSocket DEF IInv, ThreadsSound, Sound, ThreadTypes
<1>4. e \in Entries /\ e.sock = s /\ e.age = 0
  BY <1>3 DEF Entries
<1>. HIDE DEF e
<1>5. /\ list_' \in Seq(Entries) /\ Len(list_') = Len(list_) + 1
      /\ Len(list_) \in Nat /\ DOMAIN list_ = 1..Len(list_)
      /\ DOMAIN list_' = 1..Len(list_) + 1
      /\ list_'[Len(list_) + 1] = e
      /\ \A i \in DOMAIN list_ : list_'[i] = list_[i]
  BY <1>1, <1>2, <1>4, AppendProperties
<1>6. \A i \in DOMAIN list_' : \/ i \in DOMAIN list_ /\ list_'[i] = list_[i]
                               \/ i = Len(list_) + 1 /\ list_'[i] = e
  BY <1>5
<1>. HIDE DEF s
<1>7. TypeOK'
  <2>1. ThreadTypes'
    BY <1>1, <1>2 DEF ThreadTypes, ThreadStates, Active
  <2>2. HttpdTypes'
    <3>1. up' \in BOOLEAN
      BY <1>1, <1>2, Zenon DEF HttpdTypes
    <3>. QED BY <1>1, <1>2, <3>1 DEF HttpdTypes
  <2>. QED BY <1>5, <2>1, <2>2, TypesPrime
<1>8. /\ \A u \in Threads \ {t} :
            pc'[u] = pc[u] /\ socket'[u] = socket[u] /\ delay'[u] = delay[u]
      /\ InUse' = InUse \ {t}
  BY <1>1, <1>2 DEF ThreadTypes, InUse, Active
<1>9. OneUser'
  <2>1. Cached' \subseteq Cached \cup {s} /\ s \notin Cached
    <3>1. Cached' \subseteq Cached \cup {s}
      BY <1>4, <1>6 DEF Cached
    <3>. QED BY <1>3, <3>1 DEF IInv, OneUser, s
  <2>2. ASSUME NEW i \in DOMAIN list_', NEW j \in DOMAIN list_',
               list_'[i].sock = list_'[j].sock
        PROVE  i = j
    <3>1. \A k \in DOMAIN list_ : list_[k].sock # s
      BY <2>1 DEF Cached
    <3>. QED BY <1>4, <1>6, <2>2, <3>1 DEF IInv, OneUser
  <2>3. \A u \in InUse' : u \in Threads \ {t} /\ u \in InUse /\ socket[u] # s
    BY <1>3, <1>8 DEF IInv, OneUser, InUse, s
  <2>. QED BY <1>8, <2>1, <2>2, <2>3 DEF IInv, OneUser
<1>10. ThreadsSound'
  <2>1. ASSUME NEW u \in InUse' PROVE Sound(u, socket[u])'
    <3>1. u \in InUse /\ u \in Threads \ {t}
      BY <1>8 DEF InUse
    <3>2. Sound(u, socket[u])
      BY <3>1 DEF IInv, ThreadsSound
    <3>. QED BY <1>1, <1>8, <3>1, <3>2, SameThread
  <2>. QED BY <2>1 DEF ThreadsSound
<1>11. CacheSound'
  <2>1. ASSUME NEW i \in DOMAIN list_'
        PROVE  /\ Quiet(list_[i].sock)'
               /\ (list_[i].age < Lifetime => Young(list_[i].sock, list_[i].age + MaxDelay))'
    <3>1. CASE i \in DOMAIN list_ /\ list_'[i] = list_[i]
      BY <1>1, <3>1 DEF IInv, CacheSound, Quiet, Young
    <3>2. CASE list_'[i] = e
      <4>1. delay[t] <= 0 + MaxDelay /\ \A n \in Nat : n <= delay[t] => n <= 0 + MaxDelay
        BY <1>3
      <4>2. conn[s] = "open" => idle[s] \in Nat
        BY <1>2, <1>3 DEF HttpdTypes
      <4>. QED BY <1>1, <1>3, <1>4, <3>2, <4>1, <4>2 DEF Quiet, Young
    <3>. QED BY <1>6, <3>1, <3>2
  <2>. QED BY <2>1 DEF CacheSound
<1>12. ClosedSound'
  BY <1>1 DEF IInv, ClosedSound
<1>13. Owned'
  <2>1. ASSUME NEW x \in Sockets, conn[x] # "closed"
        PROVE  x \in Cached' \/ \E u \in InUse' : socket'[u] = x
    <3>1. ASSUME NEW i \in DOMAIN list_, list_[i].sock = x PROVE x \in Cached'
      <4>1. i \in DOMAIN list_' /\ list_'[i].sock = x
        BY <1>5, <3>1
      <4>. QED BY <4>1 DEF Cached
    <3>2. s \in Cached'
      <4>1. Len(list_) + 1 \in DOMAIN list_' /\ list_'[Len(list_) + 1].sock = s
        BY <1>4, <1>5
      <4>. QED BY <4>1 DEF Cached
    <3>3. ASSUME NEW u \in InUse, socket[u] = x, u # t PROVE u \in InUse' /\ socket'[u] = x
      BY <1>8, <3>3 DEF InUse
    <3>4. x \in Cached \/ \E u \in InUse : socket[u] = x
      BY <2>1 DEF IInv, Owned
    <3>. QED BY <3>1, <3>2, <3>3, <3>4 DEF Cached, s
  <2>. QED BY <1>1, <2>1 DEF Owned
<1>. QED BY <1>5, <1>7, <1>9, <1>10, <1>11, <1>12, <1>13 DEF IInv

-----------------------------------------------------------------------------
(* httpd, and the clock *)

\* Steps of httpd: no thread moves.
LEMMA HttpdStep ==
  ASSUME IInv, HttpdTypes', UNCHANGED <<list_, pc, socket>>, delay' \in [Threads -> 0..MaxDelay],
         \A s \in Sockets : conn[s] = "closed" => conn'[s] = "closed",
         ThreadsSound', CacheSound', ClosedSound'
  PROVE  IInv'
<1>1. list_ \in Seq(Entries) /\ ThreadTypes
  BY Types DEF IInv
<1>2. TypeOK'
  BY <1>1, TypesPrime DEF ThreadTypes
<1>3. OneUser'
  BY DEF IInv, OneUser, InUse, Cached
<1>4. Owned'
  BY DEF IInv, Owned, InUse, Cached
<1>. QED BY <1>2, <1>3, <1>4 DEF IInv

LEMMA AnswerInv ==
  ASSUME IInv, NEW s \in Sockets, Answer(s) PROVE IInv'
<1>. USE Constants
<1>1. PICK result \in BOOLEAN :
         toPlugin' = [toPlugin EXCEPT ![s] = Append(@, [to |-> Head(toHttpd[s]),
                                                        result |-> result])]
  BY DEF Answer
<1>2. /\ conn[s] = "open" /\ toHttpd[s] # <<>>
      /\ toHttpd' = [toHttpd EXCEPT ![s] = Tail(@)]
      /\ idle' = [idle EXCEPT ![s] = 0]
      /\ UNCHANGED <<list_, pc, socket, delay, up, conn>>
  BY DEF Answer, threads
<1>3. list_ \in Seq(Entries) /\ ThreadTypes /\ HttpdTypes
  BY Types DEF IInv
<1>. DEFINE message == [to |-> Head(toHttpd[s]), result |-> result]
<1>4. toHttpd[s] \in Seq(Threads \cup {None}) /\ toPlugin[s] \in Seq(Messages)
  BY <1>3 DEF HttpdTypes
<1>5. Head(toHttpd[s]) \in Threads \cup {None} /\ Tail(toHttpd[s]) \in Seq(Threads \cup {None})
  BY <1>2, <1>4, HeadTailProperties
<1>6. message \in Messages
  BY <1>5, Zenon DEF Messages
<1>7. HttpdTypes'
  <2>1. up' \in BOOLEAN
    BY <1>2, <1>3, Zenon DEF HttpdTypes
  <2>2. Append(toPlugin[s], message) \in Seq(Messages)
    BY <1>4, <1>6, AppendProperties
  <2>. HIDE DEF message
  <2>3. toPlugin' = [toPlugin EXCEPT ![s] = Append(toPlugin[s], message)]
    BY <1>1 DEF message
  <2>4. toPlugin' \in [Sockets -> Seq(Messages)]
    BY <1>3, <2>2, <2>3 DEF HttpdTypes
  <2>5. toHttpd' \in [Sockets -> Seq(Threads \cup {None})]
    BY <1>2, <1>3, <1>5 DEF HttpdTypes
  <2>6. idle' \in [Sockets -> 0..ClientTimeout + 1] /\ conn' \in [Sockets -> Connected \cup {"closed"}]
    BY <1>2, <1>3 DEF HttpdTypes
  <2>. QED BY <2>1, <2>4, <2>5, <2>6 DEF HttpdTypes
<1>8. /\ \A x \in Sockets \ {s} : /\ idle'[x] = idle[x] /\ toHttpd'[x] = toHttpd[x]
                                  /\ toPlugin'[x] = toPlugin[x]
      /\ idle'[s] = 0 /\ toHttpd'[s] = Tail(toHttpd[s])
      /\ toPlugin'[s] = Append(toPlugin[s], message)
  BY <1>1, <1>2, <1>3 DEF HttpdTypes
<1>. HIDE DEF message
<1>9. ThreadsSound'
  <2>1. ASSUME NEW t \in InUse PROVE Sound(t, socket[t])'
    <3>1. Sound(t, socket[t]) /\ socket[t] \in Sockets
      BY UsedSocket DEF IInv, ThreadsSound
    <3>2. CASE socket[t] # s
      BY <1>2, <1>8, <3>1, <3>2, SameThread
    <3>3. CASE socket[t] = s
      <4>1. pc[t] = "reading" /\ toHttpd[s] = <<t>> /\ toPlugin[s] = <<>>
        BY <1>2, <3>1, <3>3 DEF InUse, Active, Sound, Quiet, Exchange
      <4>2. /\ toHttpd'[s] = <<>>
            /\ toPlugin'[s] = <<[to |-> t, result |-> result]>>
        BY <1>8, <4>1 DEF message
      <4>3. delay[t] \in 0..MaxDelay
        BY <1>3 DEF ThreadTypes, InUse
      <4>4. Exchange(t, s)'
        BY <1>2, <1>8, <4>2, <4>3 DEF Exchange, Young
      <4>. QED BY <1>2, <3>3, <4>1, <4>4 DEF Sound
    <3>. QED BY <3>2, <3>3
  <2>2. InUse' = InUse
    BY <1>2 DEF InUse
  <2>. QED BY <2>1, <2>2 DEF ThreadsSound
<1>10. CacheSound'
  <2>1. \A i \in DOMAIN list_ : list_[i].sock \in Sockets \ {s}
    BY <1>2, <1>3, EntryTypes DEF IInv, CacheSound, Quiet
  <2>. QED BY <1>2, <1>8, <2>1 DEF IInv, CacheSound, Quiet, Young
<1>11. ClosedSound'
  BY <1>2, <1>8 DEF IInv, ClosedSound
<1>. QED BY <1>2, <1>3, <1>7, <1>9, <1>10, <1>11, HttpdStep DEF ThreadTypes

LEMMA CloseIdleInv ==
  ASSUME IInv, NEW s \in Sockets, CloseIdle(s) PROVE IInv'
<1>. USE Constants
<1>1. /\ conn[s] = "open" /\ toHttpd[s] = <<>> /\ idle[s] > ClientTimeout
      /\ conn' = [conn EXCEPT ![s] = "timedOut"]
      /\ idle' = [idle EXCEPT ![s] = 0]
      /\ UNCHANGED <<list_, pc, socket, delay, up, toHttpd, toPlugin>>
  BY DEF CloseIdle, threads, channels
<1>2. list_ \in Seq(Entries) /\ ThreadTypes /\ HttpdTypes
  BY Types DEF IInv
<1>3. HttpdTypes'
  <2>1. up' \in BOOLEAN
    BY <1>1, <1>2, Zenon DEF HttpdTypes
  <2>. QED BY <1>1, <1>2, <2>1 DEF HttpdTypes, Connected
<1>4. /\ \A x \in Sockets \ {s} : conn'[x] = conn[x] /\ idle'[x] = idle[x]
      /\ conn'[s] = "timedOut" /\ idle'[s] = 0 /\ idle[s] \in Nat
  BY <1>1, <1>2 DEF HttpdTypes
\* It is nobody's connection, and of no entry that may be taken.
<1>5. ASSUME NEW t \in InUse PROVE socket[t] \in Sockets \ {s}
  <2>1. Sound(t, socket[t]) /\ socket[t] \in Sockets
    BY UsedSocket DEF IInv, ThreadsSound
  <2>2. delay[t] \in 0..MaxDelay
    BY <1>2 DEF ThreadTypes, InUse
  <2>3. \A n \in Nat : n <= ClientTimeout => ~Young(s, n)
    BY <1>1, <1>4 DEF Young
  <2>4. /\ Lifetime + MaxDelay + delay[t] \in Nat /\ Lifetime + MaxDelay + delay[t] <= ClientTimeout
        /\ delay[t] \in Nat /\ delay[t] <= ClientTimeout
    BY <2>2
  <2>. QED BY <1>1, <2>1, <2>3, <2>4 DEF Sound, Exchange, InUse, Active
<1>6. ASSUME NEW i \in DOMAIN list_, list_[i].age < Lifetime PROVE list_[i].sock \in Sockets \ {s}
  <2>1. list_[i].sock \in Sockets /\ list_[i].age \in Nat
    BY <1>2, EntryTypes
  <2>2. Young(list_[i].sock, list_[i].age + MaxDelay)
    BY <1>6 DEF IInv, CacheSound
  <2>. QED BY <1>1, <1>4, <1>6, <2>1, <2>2 DEF Young
<1>7. ThreadsSound'
  <2>1. ASSUME NEW t \in InUse PROVE Sound(t, socket[t])'
    <3>1. Sound(t, socket[t])
      BY DEF IInv, ThreadsSound
    <3>. QED BY <1>1, <1>4, <1>5, <3>1, SameThread
  <2>2. InUse' = InUse
    BY <1>1 DEF InUse
  <2>. QED BY <2>1, <2>2 DEF ThreadsSound
<1>8. CacheSound'
  <2>1. ASSUME NEW i \in DOMAIN list_
        PROVE  /\ Quiet(list_[i].sock)'
               /\ (list_[i].age < Lifetime => Young(list_[i].sock, list_[i].age + MaxDelay))'
    <3>1. Quiet(list_[i].sock) /\ list_[i].sock \in Sockets
      BY <1>2, EntryTypes DEF IInv, CacheSound
    <3>2. Quiet(list_[i].sock)'
      BY <1>1, <1>4, <3>1 DEF Quiet
    <3>3. (list_[i].age < Lifetime => Young(list_[i].sock, list_[i].age + MaxDelay))'
      BY <1>1, <1>4, <1>6 DEF IInv, CacheSound, Young
    <3>. QED BY <3>2, <3>3
  <2>. QED BY <1>1, <2>1 DEF CacheSound
<1>9. ClosedSound'
  BY <1>1, <1>4 DEF IInv, ClosedSound
<1>. QED BY <1>1, <1>2, <1>3, <1>4, <1>7, <1>8, <1>9, HttpdStep DEF ThreadTypes

LEMMA StopHttpdInv ==
  ASSUME IInv, StopHttpd PROVE IInv'
<1>. USE Constants
<1>1. PICK arriving \in SUBSET Sockets :
         toPlugin' = [s \in Sockets |-> IF s \in arriving THEN toPlugin[s] ELSE <<>>]
  BY DEF StopHttpd
<1>2. /\ up' = FALSE
      /\ conn' = [s \in Sockets |-> IF conn[s] = "open" THEN "stopped" ELSE conn[s]]
      /\ toHttpd' = [s \in Sockets |-> <<>>]
      /\ idle' = [s \in Sockets |-> 0]
      /\ UNCHANGED <<list_, pc, socket, delay>>
  BY DEF StopHttpd, threads
<1>3. list_ \in Seq(Entries) /\ ThreadTypes /\ HttpdTypes
  BY Types DEF IInv
<1>4. HttpdTypes'
  <2>1. up' \in BOOLEAN
    BY <1>2, Zenon
  <2>2. \A S : <<>> \in Seq(S)
    OBVIOUS
  <2>3. toPlugin' \in [Sockets -> Seq(Messages)]
    BY <1>1, <1>3, <2>2 DEF HttpdTypes
  <2>4. /\ conn' \in [Sockets -> Connected \cup {"closed"}]
        /\ idle' \in [Sockets -> 0..ClientTimeout + 1]
    BY <1>2, <1>3 DEF HttpdTypes, Connected
  <2>5. toHttpd' \in [Sockets -> Seq(Threads \cup {None})]
    BY <1>2, <2>2
  <2>. QED BY <2>1, <2>3, <2>4, <2>5 DEF HttpdTypes
<1>5. \A s \in Sockets :
        /\ conn'[s] = IF conn[s] = "open" THEN "stopped" ELSE conn[s]
        /\ conn'[s] # "open" /\ idle'[s] = 0 /\ toHttpd'[s] = <<>>
        /\ toPlugin'[s] \in {toPlugin[s], <<>>}
  BY <1>1, <1>2
<1>6. ThreadsSound'
  <2>1. ASSUME NEW t \in InUse PROVE Sound(t, socket[t])'
    <3>. DEFINE s == socket[t]
    <3>1. Sound(t, s) /\ s \in Sockets
      BY UsedSocket DEF IInv, ThreadsSound
    <3>. HIDE DEF s
    <3>2. /\ conn'[s] = IF conn[s] = "open" THEN "stopped" ELSE conn[s]
          /\ conn'[s] # "open" /\ toHttpd'[s] = <<>>
          /\ toPlugin'[s] \in {toPlugin[s], <<>>}
          /\ pc'[t] = pc[t] /\ delay'[t] = delay[t] /\ socket'[t] = s
      BY <1>2, <1>5, <3>1 DEF s
    <3>3. CASE pc[t] = "sending"
      BY <3>1, <3>2, <3>3 DEF Sound, Quiet, Young
    <3>4. CASE pc[t] = "answered"
      BY <3>1, <3>2, <3>4 DEF Sound, Quiet, Young
    <3>5. CASE pc[t] = "reading"
      <4>1. Exchange(t, s)
        BY <3>1, <3>5 DEF Sound
      <4>2. conn'[s] = "stopped"
        BY <3>2, <4>1 DEF Exchange, Young
      <4>3. toPlugin'[s] = <<>> \/ \E r \in BOOLEAN : toPlugin'[s] = <<[to |-> t, result |-> r]>>
        BY <3>2, <4>1 DEF Exchange
      <4>4. Exchange(t, socket[t])'
        BY <3>2, <4>2, <4>3 DEF Exchange, Young
      <4>. QED BY <3>2, <3>5, <4>4 DEF Sound
    <3>. QED BY <3>3, <3>4, <3>5 DEF InUse, Active
  <2>2. InUse' = InUse
    BY <1>2 DEF InUse
  <2>. QED BY <2>1, <2>2 DEF ThreadsSound
<1>7. CacheSound'
  <2>1. ASSUME NEW i \in DOMAIN list_
        PROVE  /\ Quiet(list_[i].sock)'
               /\ (list_[i].age < Lifetime => Young(list_[i].sock, list_[i].age + MaxDelay))'
    <3>. DEFINE s == list_[i].sock
    <3>1. Quiet(s) /\ s \in Sockets /\ (list_[i].age < Lifetime => conn[s] # "timedOut")
      BY <1>3, EntryTypes DEF IInv, CacheSound, Young
    <3>2. /\ conn'[s] = IF conn[s] = "open" THEN "stopped" ELSE conn[s]
          /\ conn'[s] # "open" /\ toHttpd'[s] = <<>>
          /\ toPlugin'[s] \in {toPlugin[s], <<>>}
      BY <1>5, <3>1
    <3>3. Quiet(s)'
      BY <1>2, <3>1, <3>2 DEF Quiet
    <3>4. (list_[i].age < Lifetime => Young(list_[i].sock, list_[i].age + MaxDelay))'
      BY <1>2, <3>1, <3>2 DEF Young
    <3>. QED BY <3>3, <3>4
  <2>. QED BY <1>2, <2>1 DEF CacheSound
<1>8. ClosedSound'
  BY <1>5 DEF IInv, ClosedSound
<1>. QED BY <1>2, <1>3, <1>4, <1>5, <1>6, <1>7, <1>8, HttpdStep DEF ThreadTypes

LEMMA TickInv ==
  ASSUME IInv, Tick PROVE IInv' /\ Len(list_') = Len(list_)
<1>. USE Constants
<1>1. /\ \A t \in Threads : Holds(t) => delay[t] < MaxDelay
      /\ delay' = [t \in Threads |-> IF Holds(t) THEN delay[t] + 1 ELSE delay[t]]
      /\ idle' = [s \in Sockets |-> IF conn[s] = "open"
                                    THEN AtMost(idle[s] + 1, ClientTimeout + 1) ELSE idle[s]]
      /\ UNCHANGED <<pc, socket, up, conn, toHttpd, toPlugin>>
  BY DEF Tick, threads, channels
<1>2. list_' = [i \in DOMAIN list_ |->
                 [sock |-> list_[i].sock, age |-> AtMost(list_[i].age + 1, Lifetime)]]
  BY DEF Tick
<1>3. list_ \in Seq(Entries) /\ ThreadTypes /\ HttpdTypes
  BY Types DEF IInv
<1>4. /\ DOMAIN list_' = DOMAIN list_
      /\ \A i \in DOMAIN list_ :
           /\ list_'[i].sock = list_[i].sock
           /\ list_'[i].age = AtMost(list_[i].age + 1, Lifetime)
  BY <1>2
<1>5. list_' \in Seq(Entries) /\ Len(list_') = Len(list_)
  <2>1. ASSUME NEW i \in DOMAIN list_
        PROVE  [sock |-> list_[i].sock, age |-> AtMost(list_[i].age + 1, Lifetime)] \in Entries
    <3>1. list_[i].sock \in Sockets /\ list_[i].age \in 0..Lifetime
      BY <1>3, EntryTypes
    <3>2. AtMost(list_[i].age + 1, Lifetime) \in 0..Lifetime
      BY <3>1 DEF AtMost
    <3>. QED BY <3>1, <3>2 DEF Entries
  <2>2. Len(list_) \in Nat /\ DOMAIN list_ = 1..Len(list_)
    BY <1>3
  <2>3. list_' \in [1..Len(list_) -> Entries]
    BY <1>2, <2>1, <2>2
  <2>. QED BY <2>2, <2>3
<1>6. \A t \in Threads : delay'[t] = IF Holds(t) THEN delay[t] + 1 ELSE delay[t]
  BY <1>1
<1>7. \A s \in Sockets : conn[s] = "open" => idle'[s] <= idle[s] + 1
  BY <1>1, <1>3 DEF AtMost, HttpdTypes
<1>8. TypeOK'
  <2>1. delay' \in [Threads -> 0..MaxDelay]
    <3>1. \A t \in Threads : (IF Holds(t) THEN delay[t] + 1 ELSE delay[t]) \in 0..MaxDelay
      BY <1>1, <1>3 DEF ThreadTypes
    <3>. QED BY <1>1, <3>1
  <2>2. ThreadTypes'
    BY <1>1, <1>3, <2>1 DEF ThreadTypes
  <2>3. up' \in BOOLEAN
    BY <1>1, <1>3, Zenon DEF HttpdTypes
  <2>4. idle' \in [Sockets -> 0..ClientTimeout + 1]
    <3>1. \A s \in Sockets : (IF conn[s] = "open" THEN AtMost(idle[s] + 1, ClientTimeout + 1)
                              ELSE idle[s]) \in 0..ClientTimeout + 1
      BY <1>3 DEF HttpdTypes, AtMost
    <3>. QED BY <1>1, <3>1
  <2>5. HttpdTypes'
    BY <1>1, <1>3, <2>3, <2>4 DEF HttpdTypes
  <2>. QED BY <1>5, <2>2, <2>5, TypesPrime
<1>9. InUse' = InUse /\ Cached' = Cached
  BY <1>1, <1>4 DEF InUse, Cached
<1>10. OneUser'
  BY <1>1, <1>4, <1>9 DEF IInv, OneUser
<1>11. ThreadsSound'
  <2>1. ASSUME NEW t \in InUse PROVE Sound(t, socket[t])'
    <3>. DEFINE s == socket[t]
    <3>1. Sound(t, s) /\ s \in Sockets /\ t \in Threads
      BY UsedSocket DEF IInv, ThreadsSound, InUse
    <3>2. delay[t] \in Nat /\ idle[s] \in Nat /\ idle'[s] \in Nat
      BY <1>3, <1>8, <3>1, TypesPrime DEF ThreadTypes, HttpdTypes
    <3>3. Holds(t) <=> \/ pc[t] \in {"sending", "answered"}
                       \/ pc[t] = "reading" /\ toPlugin[s] # <<>>
      BY DEF Holds
    <3>4. /\ Holds(t) => delay'[t] = delay[t] + 1
          /\ conn[s] = "open" => idle'[s] <= idle[s] + 1
          /\ pc'[t] = pc[t] /\ conn'[s] = conn[s] /\ socket'[t] = s
          /\ toHttpd'[s] = toHttpd[s] /\ toPlugin'[s] = toPlugin[s]
      BY <1>1, <1>6, <1>7, <3>1
    <3>. HIDE DEF s
    <3>5. CASE pc[t] = "sending"
      <4>1. conn[s] = "open" => idle'[s] <= Lifetime + MaxDelay + delay'[t]
        BY <3>1, <3>2, <3>3, <3>4, <3>5 DEF Sound, Young
      <4>. QED BY <3>1, <3>4, <3>5, <4>1 DEF Sound, Young, Quiet
    <3>6. CASE pc[t] = "answered"
      <4>1. conn[s] = "open" => idle'[s] <= delay'[t]
        BY <3>1, <3>2, <3>3, <3>4, <3>6 DEF Sound, Young
      <4>. QED BY <3>1, <3>4, <3>6, <4>1 DEF Sound, Young, Quiet
    <3>7. CASE pc[t] = "reading" /\ toPlugin[s] = <<>>
      <4>1. \A r \in BOOLEAN : <<[to |-> t, result |-> r]>> # <<>>
        OBVIOUS
      <4>2. \/ conn[s] = "open" /\ toHttpd[s] = <<t>> /\ toPlugin[s] = <<>>
            \/ conn[s] = "stopped" /\ toHttpd[s] = <<>> /\ toPlugin[s] = <<>>
        BY <3>1, <3>7, <4>1 DEF Sound, Exchange
      <4>3. Exchange(t, socket[t])'
        BY <3>4, <4>2 DEF Exchange
      <4>. QED BY <3>4, <3>7, <4>3 DEF Sound
    <3>8. CASE pc[t] = "reading" /\ toPlugin[s] # <<>>
      <4>1. /\ conn[s] \in {"open", "stopped"} /\ toHttpd[s] = <<>>
            /\ \E r \in BOOLEAN : toPlugin[s] = <<[to |-> t, result |-> r]>>
            /\ Young(s, delay[t])
        BY <3>1, <3>8 DEF Sound, Exchange
      <4>2. conn[s] = "open" => idle'[s] <= delay'[t]
        BY <3>2, <3>3, <3>4, <3>8, <4>1 DEF Young
      <4>3. Exchange(t, socket[t])'
        BY <3>4, <4>1, <4>2 DEF Exchange, Young
      <4>. QED BY <3>4, <3>8, <4>3 DEF Sound
    <3>. QED BY <3>5, <3>6, <3>7, <3>8 DEF InUse, Active
  <2>. QED BY <1>9, <2>1 DEF ThreadsSound
<1>12. CacheSound'
  <2>1. ASSUME NEW i \in DOMAIN list_
        PROVE  /\ Quiet(list_[i].sock)'
               /\ (list_[i].age < Lifetime => Young(list_[i].sock, list_[i].age + MaxDelay))'
    <3>. DEFINE s == list_[i].sock
                n == list_[i].age
    <3>1. s \in Sockets /\ n \in 0..Lifetime /\ Quiet(s) /\ (n < Lifetime => Young(s, n + MaxDelay))
      BY <1>3, EntryTypes DEF IInv, CacheSound
    <3>2. list_'[i].sock = s /\ list_'[i].age = IF n + 1 < Lifetime THEN n + 1 ELSE Lifetime
      BY <1>4 DEF AtMost
    <3>3. /\ idle[s] \in Nat /\ idle'[s] \in Nat
          /\ conn[s] = "open" => idle'[s] <= idle[s] + 1
          /\ conn'[s] = conn[s] /\ toHttpd'[s] = toHttpd[s] /\ toPlugin'[s] = toPlugin[s]
      BY <1>1, <1>3, <1>7, <1>8, <3>1, TypesPrime DEF HttpdTypes
    <3>. HIDE DEF s, n
    <3>4. Quiet(list_[i].sock)'
      BY <3>1, <3>2, <3>3 DEF Quiet
    <3>5. (list_[i].age < Lifetime => Young(list_[i].sock, list_[i].age + MaxDelay))'
      BY <3>1, <3>2, <3>3 DEF Young
    <3>. QED BY <3>4, <3>5
  <2>. QED BY <1>4, <2>1 DEF CacheSound
<1>13. ClosedSound' /\ Owned'
  BY <1>1, <1>9 DEF IInv, ClosedSound, Owned
<1>. QED BY <1>5, <1>8, <1>10, <1>11, <1>12, <1>13 DEF IInv

\* Steps that touch no connection.
LEMMA OtherInv ==
  ASSUME IInv, (\E t \in Threads : CannotConnect(t)) \/ StartHttpd \/ UNCHANGED vars
  PROVE  IInv'
<1>1. UNCHANGED <<list_, socket, delay, conn, idle, toHttpd, toPlugin>>
  BY DEF CannotConnect, StartHttpd, vars, threads, httpd, channels
<1>2. list_ \in Seq(Entries) /\ ThreadTypes /\ HttpdTypes
  BY Types DEF IInv
<1>3. /\ pc' \in [Threads -> ThreadStates]
      /\ \A t \in Threads : pc'[t] = pc[t] \/ (pc[t] = "connecting" /\ pc'[t] = "idle")
  BY <1>2 DEF CannotConnect, Goto, StartHttpd, vars, threads, ThreadTypes, ThreadStates
<1>4. InUse' = InUse /\ Cached' = Cached /\ \A t \in InUse : pc'[t] = pc[t]
  BY <1>1, <1>3 DEF InUse, Active, Cached
<1>5. TypeOK'
  <2>1. up' \in BOOLEAN
    <3>1. up' = up \/ up' = TRUE
      BY Zenon DEF CannotConnect, StartHttpd, vars, httpd
    <3>. QED BY <1>2, <3>1, Zenon DEF HttpdTypes
  <2>2. ThreadTypes'
    BY <1>1, <1>2, <1>3 DEF ThreadTypes, Active
  <2>. QED BY <1>1, <1>2, <2>1, <2>2, TypesPrime DEF HttpdTypes
<1>6. OneUser'
  BY <1>1, <1>4 DEF IInv, OneUser
<1>7. ThreadsSound'
  <2>1. ASSUME NEW t \in InUse PROVE Sound(t, socket[t])'
    <3>1. Sound(t, socket[t])
      BY DEF IInv, ThreadsSound
    <3>. QED BY <1>1, <1>4, <3>1, SameThread
  <2>. QED BY <1>4, <2>1 DEF ThreadsSound
<1>8. CacheSound'
  BY <1>1 DEF IInv, CacheSound, Quiet, Young
<1>9. ClosedSound' /\ Owned'
  BY <1>1, <1>4 DEF IInv, ClosedSound, Owned
<1>. QED BY <1>5, <1>6, <1>7, <1>8, <1>9 DEF IInv

LEMMA Invariance == ASSUME IInv, [Next]_vars PROVE IInv'
<1>1. ASSUME NEW t \in Threads, WsRequest(t) PROVE IInv'
  BY <1>1, TakeCachedInv, MissInv DEF WsRequest
<1>2. ASSUME NEW t \in Threads, Proceed(t) PROVE IInv'
  BY <1>2, CreateInv, WriteRequestInv, RequestFailsInv, ReadResponseInv, AddInv, OtherInv
  DEF Proceed, WriteFails, ReadFails
<1>3. ASSUME Httpd PROVE IInv'
  BY <1>3, StopHttpdInv, OtherInv, AnswerInv, CloseIdleInv DEF Httpd
<1>4. CASE Tick
  BY <1>4, TickInv
<1>5. CASE UNCHANGED vars
  BY <1>5, OtherInv
<1>. QED BY <1>1, <1>2, <1>3, <1>4, <1>5 DEF Next

-----------------------------------------------------------------------------
(* The number of connections *)

\* add() is preceded by a connect() that took an entry or found none: cached
\* entries and threads in wsRequest() share the places of the threads.
Busy == {t \in Threads : pc[t] # "idle"}
Places == Len(list_) + Cardinality(Busy) <= Cardinality(Threads)

LEMMA FiniteBusy ==
  /\ IsFiniteSet(Threads) /\ Cardinality(Threads) \in Nat
  /\ IsFiniteSet(Busy) /\ Cardinality(Busy) \in Nat /\ Cardinality(Busy) <= Cardinality(Threads)
BY SocketsAssumption, FS_Subset, FS_CardinalityType DEF Busy

LEMMA BusyStep ==
  ASSUME TypeOK, NEW t \in Threads, NEW to \in ThreadStates, pc' = [pc EXCEPT ![t] = to]
  PROVE  /\ pc[t] # "idle" /\ to # "idle" => Cardinality(Busy') = Cardinality(Busy)
         /\ pc[t] = "idle" /\ to # "idle" => Cardinality(Busy') = Cardinality(Busy) + 1
         /\ pc[t] # "idle" /\ to = "idle" => Cardinality(Busy') = Cardinality(Busy) - 1
<1>1. pc \in [Threads -> ThreadStates]
  BY DEF TypeOK
<1>2. CASE pc[t] # "idle" /\ to # "idle"
  <2>1. Busy' = Busy
    BY <1>1, <1>2 DEF Busy
  <2>. QED BY <1>2, <2>1
<1>3. CASE pc[t] = "idle" /\ to # "idle"
  <2>1. Busy' = Busy \cup {t} /\ t \notin Busy
    BY <1>1, <1>3 DEF Busy
  <2>. QED BY <1>3, <2>1, FiniteBusy, FS_AddElement
<1>4. CASE pc[t] # "idle" /\ to = "idle"
  <2>1. Busy' = Busy \ {t} /\ t \in Busy
    BY <1>1, <1>4 DEF Busy
  <2>. QED BY <1>4, <2>1, FiniteBusy, FS_RemoveElement
<1>. QED BY <1>2, <1>3, <1>4

LEMMA PlacesInvariance == ASSUME IInv, Places, [Next]_vars PROVE Places'
<1>1. /\ TypeOK /\ Len(list_) \in Nat
      /\ Cardinality(Threads) \in Nat /\ Cardinality(Busy) \in Nat
      /\ Cardinality(Busy') \in Nat /\ Cardinality(Busy') <= Cardinality(Threads)
  <2>1. IsFiniteSet(Busy') /\ Cardinality(Busy') \in Nat /\ Cardinality(Busy') <= Cardinality(Threads)
    BY SocketsAssumption, FS_Subset, FS_CardinalityType DEF Busy
  <2>. QED BY <2>1, FiniteBusy, Types DEF IInv
<1>2. ASSUME NEW t \in Threads, TakeCached(t) PROVE Places'
  <2>1. Cardinality(Busy') = Cardinality(Busy) + 1
    BY <1>1, <1>2, BusyStep DEF TakeCached, Goto, ThreadStates
  <2>2. Len(list_') < Len(list_) /\ Len(list_') \in Nat
    BY <1>2, TakeCachedInv, TypesPrime DEF IInv
  <2>. QED BY <1>1, <2>1, <2>2 DEF Places
<1>3. ASSUME NEW t \in Threads, Miss(t) PROVE Places'
  <2>1. Len(list_') = 0
    BY <1>3, MissInv
  <2>. QED BY <1>1, <2>1 DEF Places
<1>4. ASSUME NEW t \in Threads,
             CannotConnect(t) \/ WriteFails(t) \/ ReadFails(t)
      PROVE  Places'
  <2>1. Cardinality(Busy') = Cardinality(Busy) - 1
    BY <1>1, <1>4, BusyStep
    DEF CannotConnect, WriteFails, ReadFails, RequestFails, Goto, ThreadStates
  <2>2. list_' = list_
    BY <1>4 DEF CannotConnect, WriteFails, ReadFails, RequestFails, Fail
  <2>. QED BY <1>1, <2>1, <2>2 DEF Places
<1>5. ASSUME NEW t \in Threads,
             CreateNewConnection(t) \/ WriteRequest(t) \/ ReadResponse(t)
      PROVE  Places'
  <2>1. Cardinality(Busy') = Cardinality(Busy)
    BY <1>1, <1>5, BusyStep
    DEF CreateNewConnection, WriteRequest, ReadResponse, Goto, ThreadStates
  <2>2. list_' = list_
    BY <1>5 DEF CreateNewConnection, WriteRequest, ReadResponse
  <2>. QED BY <2>1, <2>2 DEF Places
<1>6. ASSUME NEW t \in Threads, Add(t) PROVE Places'
  <2>1. Cardinality(Busy') = Cardinality(Busy) - 1
    BY <1>1, <1>6, BusyStep DEF Add, Goto, ThreadStates
  <2>2. Len(list_') = Len(list_) + 1
    BY <1>6, AddInv
  <2>. QED BY <1>1, <2>1, <2>2 DEF Places
<1>7. ASSUME Httpd \/ Tick \/ UNCHANGED vars PROVE Places'
  <2>1. pc' = pc
    BY <1>7 DEF Httpd, StopHttpd, StartHttpd, Answer, CloseIdle, Tick, vars, threads
  <2>2. Busy' = Busy
    BY <2>1 DEF Busy
  <2>3. CASE Tick
    BY <2>2, <2>3, TickInv DEF Places
  <2>4. CASE Httpd \/ UNCHANGED vars
    <3>1. list_' = list_
      BY <2>4 DEF Httpd, StopHttpd, StartHttpd, Answer, CloseIdle, vars
    <3>. QED BY <2>2, <3>1 DEF Places
  <2>. QED BY <1>7, <2>3, <2>4
<1>. QED BY <1>2, <1>3, <1>4, <1>5, <1>6, <1>7 DEF Next, WsRequest, Proceed

LEMMA PlacesBound == ASSUME IInv, Places PROVE ConnectionsBounded
<1>. DEFINE used == {socket[t] : t \in InUse}
            f == [i \in 1..Len(list_) |-> list_[i].sock]
            g == [t \in InUse |-> socket[t]]
<1>1. Len(list_) \in Nat /\ DOMAIN list_ = 1..Len(list_)
  BY Types DEF IInv
<1>2. IsFiniteSet(Cached) /\ Cardinality(Cached) <= Len(list_) /\ Cardinality(Cached) \in Nat
  <2>1. f \in Surjection(1..Len(list_), Cached)
    BY <1>1 DEF Surjection, Cached
  <2>2. IsFiniteSet(1..Len(list_)) /\ Cardinality(1..Len(list_)) = Len(list_)
    <3>. DEFINE n == Len(list_)
    <3>1. n \in Nat
      BY <1>1
    <3>. HIDE DEF n
    <3>2. 1 \in Int /\ n \in Int
      BY <3>1
    <3>3. IsFiniteSet(1..n) /\ Cardinality(1..n) = IF 1 > n THEN 0 ELSE n - 1 + 1
      BY <3>2, FS_Interval
    <3>4. IsFiniteSet(1..n) /\ Cardinality(1..n) = n
      BY <3>1, <3>3
    <3>. QED BY <3>4 DEF n
  <2>. QED BY <2>1, <2>2, FS_Surjection, FS_CardinalityType
<1>3. IsFiniteSet(InUse) /\ Cardinality(InUse) <= Cardinality(Busy) /\ Cardinality(InUse) \in Nat
  <2>1. InUse \in SUBSET Busy
    BY DEF InUse, Busy, Active
  <2>. QED BY <2>1, FiniteBusy, FS_Subset, FS_CardinalityType
<1>4. IsFiniteSet(used) /\ Cardinality(used) <= Cardinality(InUse) /\ Cardinality(used) \in Nat
  <2>1. g \in Surjection(InUse, used)
    BY DEF Surjection
  <2>. QED BY <1>3, <2>1, FS_Surjection, FS_CardinalityType
<1>5. Opened \in SUBSET (Cached \cup used)
  BY DEF IInv, Owned, Opened
<1>. HIDE DEF used
<1>6. IsFiniteSet(Cached \cup used) /\ Cardinality(Cached \cup used) <= Cardinality(Cached) + Cardinality(used)
  <2>1. IsFiniteSet(Cached \cap used) /\ Cardinality(Cached \cap used) \in Nat
    BY <1>2, FS_Subset, FS_CardinalityType
  <2>2. /\ IsFiniteSet(Cached \cup used)
        /\ Cardinality(Cached \cup used) =
              Cardinality(Cached) + Cardinality(used) - Cardinality(Cached \cap used)
    BY <1>2, <1>4, FS_Union
  <2>. QED BY <1>2, <1>4, <2>1, <2>2
<1>7. /\ Cardinality(Opened) <= Cardinality(Cached \cup used)
      /\ Cardinality(Opened) \in Nat /\ Cardinality(Cached \cup used) \in Nat
  BY <1>5, <1>6, FS_Subset, FS_CardinalityType
<1>. QED BY <1>1, <1>2, <1>3, <1>4, <1>6, <1>7, FiniteBusy DEF Places, ConnectionsBounded

-----------------------------------------------------------------------------
(* The theorems *)

LEMMA IcapInvariant == Spec => [](IInv /\ Places)
<1>1. Init => IInv /\ Places
  <2>1. ASSUME Init PROVE Len(list_) = 0
    BY <2>1 DEF Init
  <2>. QED BY <2>1, IInvInit, FiniteBusy DEF Places
<1>2. (IInv /\ Places) /\ [Next]_vars => (IInv /\ Places)'
  BY Invariance, PlacesInvariance
<1>. QED BY <1>1, <1>2, PTL DEF Spec

\* The variables have their types; a thread has a socket exactly while it asks.
THEOREM IcapTypeOK == Spec => []TypeOK
<1>1. IInv /\ Places => TypeOK
  BY DEF IInv
<1>. QED BY <1>1, IcapInvariant, PTL

\* The verdict that wsRequest() returns is the answer to its own request, however
\* late httpd answers others and however often it restarts.
THEOREM IcapAnswersMatchRequests == Spec => []AnswersMatchRequests
<1>1. ASSUME IInv, NEW t \in Threads, pc[t] = "reading", toPlugin[socket[t]] # <<>>
      PROVE  Head(toPlugin[socket[t]]).to = t
  <2>1. Exchange(t, socket[t])
    BY <1>1 DEF IInv, ThreadsSound, Sound, InUse, Active
  <2>2. PICK r \in BOOLEAN : toPlugin[socket[t]] = <<[to |-> t, result |-> r]>>
    BY <1>1, <2>1 DEF Exchange
  <2>3. Head(toPlugin[socket[t]]) = [to |-> t, result |-> r]
    BY <2>2
  <2>4. [to |-> t, result |-> r].to = t
    OBVIOUS
  <2>. QED BY <2>3, <2>4
<1>2. IInv /\ Places => AnswersMatchRequests
  BY <1>1 DEF AnswersMatchRequests
<1>. QED BY <1>2, IcapInvariant, PTL

\* A connection of the cache has one user at a time.
THEOREM IcapOneUser == Spec => []OneUser
<1>1. IInv /\ Places => OneUser
  BY DEF IInv
<1>. QED BY <1>1, IcapInvariant, PTL

\* With a TcpCacheInactivityTime below clientTimeout by more than what a thread may
\* be delayed, no thread uses a connection that httpd closed for idleness.
THEOREM IcapNeverTimedOut == Spec => []NeverTimedOut
<1>1. ASSUME IInv, NEW t \in InUse PROVE conn[socket[t]] # "timedOut"
  <2>1. Sound(t, socket[t])
    BY <1>1 DEF IInv, ThreadsSound
  <2>. QED BY <2>1 DEF Sound, Exchange, Young, InUse, Active
<1>2. IInv /\ Places => NeverTimedOut
  BY <1>1 DEF NeverTimedOut
<1>. QED BY <1>2, IcapInvariant, PTL

\* The plugin never has more connections than threads, though its cache has no limit.
THEOREM IcapConnectionsBounded == Spec => []ConnectionsBounded
<1>1. IInv /\ Places => ConnectionsBounded
  BY PlacesBound
<1>. QED BY <1>1, IcapInvariant, PTL
=============================================================================
