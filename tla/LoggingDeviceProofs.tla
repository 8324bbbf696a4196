-------------------------- MODULE LoggingDeviceProofs --------------------------
(***************************************************************************)
(* Proofs about LoggingDevice, for any number of threads and of entries:    *)
(* the two mutexes, the order of the file, that no entry vanishes, and what *)
(* flush() and stop() promise.                                              *)
(***************************************************************************)
EXTENDS LoggingDevice, SequenceTheorems, TLAPS

-----------------------------------------------------------------------------
(* Lists of entries *)

Increasing(q) == \A i, j \in DOMAIN q : i < j => q[i] < q[j]

Before(A, B) == \A a \in A, b \in B : a < b

LEMMA EmptyRange == Range(<<>>) = {} /\ Increasing(<<>>)
BY DEF Range, Increasing

LEMMA EntriesOf ==
  ASSUME NEW S, NEW q \in Seq(S) PROVE Range(q) \subseteq S
BY ElementOfSeq DEF Range

LEMMA AppendEntry ==
  ASSUME NEW S, NEW q \in Seq(S), NEW x \in S
  PROVE  /\ Append(q, x) \in Seq(S)
         /\ Range(Append(q, x)) = Range(q) \cup {x}
         /\ Increasing(q) /\ Before(Range(q), {x}) => Increasing(Append(q, x))
<1>1. /\ Append(q, x) \in Seq(S)
      /\ Len(q) \in Nat /\ DOMAIN q = 1..Len(q)
      /\ DOMAIN Append(q, x) = 1..Len(q) + 1
      /\ Append(q, x)[Len(q) + 1] = x
      /\ \A i \in 1..Len(q) : Append(q, x)[i] = q[i]
  OBVIOUS
<1>2. Range(Append(q, x)) = Range(q) \cup {x}
  BY <1>1 DEF Range
<1>3. ASSUME Increasing(q), Before(Range(q), {x}) PROVE Increasing(Append(q, x))
  BY <1>1, <1>3 DEF Increasing, Before, Range
<1>. QED BY <1>1, <1>2, <1>3

LEMMA ConcatEntries ==
  ASSUME NEW S, NEW p \in Seq(S), NEW q \in Seq(S)
  PROVE  /\ p \o q \in Seq(S)
         /\ Range(p \o q) = Range(p) \cup Range(q)
         /\ Increasing(p) /\ Increasing(q) /\ Before(Range(p), Range(q))
              => Increasing(p \o q)
<1>1. /\ p \o q \in Seq(S)
      /\ Len(p) \in Nat /\ DOMAIN p = 1..Len(p)
      /\ Len(q) \in Nat /\ DOMAIN q = 1..Len(q)
      /\ DOMAIN (p \o q) = 1..Len(p) + Len(q)
      /\ \A i \in 1..Len(p) : (p \o q)[i] = p[i]
      /\ \A i \in 1..Len(q) : (p \o q)[Len(p) + i] = q[i]
  BY ConcatProperties
<1>2. \A i \in DOMAIN (p \o q) :
         i \in DOMAIN p \/ \E k \in DOMAIN q : i = Len(p) + k
  <2>1. ASSUME NEW i \in DOMAIN (p \o q), i \notin DOMAIN p
        PROVE  \E k \in DOMAIN q : i = Len(p) + k
    <3>1. i - Len(p) \in DOMAIN q /\ i = Len(p) + (i - Len(p))
      BY <1>1, <2>1
    <3>. QED BY <3>1
  <2>. QED BY <2>1
<1>3. Range(p \o q) = Range(p) \cup Range(q)
  <2>1. \A i \in DOMAIN p : i \in DOMAIN (p \o q) /\ (p \o q)[i] = p[i]
    BY <1>1
  <2>2. \A k \in DOMAIN q :
           Len(p) + k \in DOMAIN (p \o q) /\ (p \o q)[Len(p) + k] = q[k]
    BY <1>1
  <2>3. Range(p) \cup Range(q) \subseteq Range(p \o q)
    BY <2>1, <2>2 DEF Range
  <2>4. ASSUME NEW i \in DOMAIN (p \o q) PROVE (p \o q)[i] \in Range(p) \cup Range(q)
    BY <1>2, <2>1, <2>2 DEF Range
  <2>. QED BY <2>3, <2>4 DEF Range
<1>4. ASSUME Increasing(p), Increasing(q), Before(Range(p), Range(q)),
             NEW i \in DOMAIN (p \o q), NEW j \in DOMAIN (p \o q), i < j
      PROVE  (p \o q)[i] < (p \o q)[j]
  <2>1. CASE i \in DOMAIN p /\ j \in DOMAIN p
    BY <1>1, <1>4, <2>1 DEF Increasing
  <2>2. CASE i \in DOMAIN p /\ j \notin DOMAIN p
    BY <1>1, <1>2, <1>4, <2>2 DEF Before, Range
  <2>3. CASE i \notin DOMAIN p
    <3>1. PICK k \in DOMAIN q : i = Len(p) + k
      BY <1>2, <2>3
    <3>2. j \notin DOMAIN p
      BY <1>1, <1>4, <3>1
    <3>3. PICK l \in DOMAIN q : j = Len(p) + l
      BY <1>2, <3>2
    <3>4. k < l
      BY <1>1, <1>4, <3>1, <3>3
    <3>. QED BY <1>1, <1>4, <3>1, <3>3, <3>4 DEF Increasing
  <2>. QED BY <2>1, <2>2, <2>3
<1>. QED BY <1>1, <1>3, <1>4 DEF Increasing

\* The disk takes a prefix of a list.
LEMMA SplitEntries ==
  ASSUME NEW S, NEW q \in Seq(S), NEW n \in 0..Len(q)
  PROVE  /\ SubSeq(q, 1, n) \in Seq(S)
         /\ Range(SubSeq(q, 1, n)) \cup Range(SubSeq(q, n + 1, Len(q))) = Range(q)
         /\ Increasing(q) => Increasing(SubSeq(q, 1, n))
<1>. DEFINE p == SubSeq(q, 1, n)
            r == SubSeq(q, n + 1, Len(q))
<1>0. Len(q) \in Nat /\ DOMAIN q = 1..Len(q) /\ n \in Nat
  OBVIOUS
<1>1. /\ p \in Seq(S) /\ DOMAIN p = 1..n
      /\ \A i \in 1..n : p[i] = q[i]
  <2>1. \A i \in 1..n : q[i] \in S
    BY <1>0, ElementOfSeq
  <2>2. p \in Seq(S) /\ Len(p) = n /\ \A i \in 1..n : p[i] = q[i]
    BY <1>0, <2>1, SubSeqProperties
  <2>. QED BY <2>2
<1>2. /\ DOMAIN r = 1..(Len(q) - n)
      /\ \A i \in 1..(Len(q) - n) : r[i] = q[n + i]
  <2>1. \A i \in (n + 1)..Len(q) : q[i] \in S
    BY <1>0, ElementOfSeq
  <2>2. n + 1 \in Int /\ Len(q) \in Int
    BY <1>0
  <2>3. /\ r \in Seq(S)
        /\ Len(r) = IF n + 1 <= Len(q) THEN Len(q) - (n + 1) + 1 ELSE 0
        /\ \A i \in 1..(Len(q) - (n + 1) + 1) : r[i] = q[(n + 1) + i - 1]
    BY <2>1, <2>2, SubSeqProperties
  <2>4. Len(r) = Len(q) - n
    BY <1>0, <2>3
  <2>5. DOMAIN r = 1..(Len(q) - n)
    BY <2>3, <2>4
  <2>6. ASSUME NEW i \in 1..(Len(q) - n) PROVE r[i] = q[n + i]
    <3>1. i \in 1..(Len(q) - (n + 1) + 1) /\ (n + 1) + i - 1 = n + i
      BY <1>0
    <3>. QED BY <2>3, <3>1
  <2>. QED BY <2>5, <2>6
<1>3. Range(p) \cup Range(r) = Range(q)
  <2>1. ASSUME NEW i \in DOMAIN q PROVE q[i] \in Range(p) \cup Range(r)
    <3>1. CASE i <= n
      BY <1>0, <1>1, <3>1 DEF Range
    <3>2. CASE i > n
      <4>1. i - n \in DOMAIN r /\ r[i - n] = q[i]
        BY <1>0, <1>2, <3>2
      <4>. QED BY <4>1 DEF Range
    <3>. QED BY <1>0, <3>1, <3>2
  <2>2. Range(p) \subseteq Range(q)
    BY <1>0, <1>1 DEF Range
  <2>3. Range(r) \subseteq Range(q)
    <3>1. ASSUME NEW i \in DOMAIN r PROVE r[i] \in Range(q)
      <4>1. n + i \in DOMAIN q /\ r[i] = q[n + i]
        BY <1>0, <1>2
      <4>. QED BY <4>1 DEF Range
    <3>. QED BY <3>1 DEF Range
  <2>. QED BY <2>1, <2>2, <2>3 DEF Range
<1>4. Increasing(q) => Increasing(p)
  BY <1>0, <1>1 DEF Increasing
<1>. QED BY <1>1, <1>3, <1>4

-----------------------------------------------------------------------------
(* The threads and the two mutexes *)

\* One thread at a time is between the two mutexes, and one at the stream.  The
\* file is closed only while the management thread keeps flushMutex.
Locks ==
  \A t \in Threads :
    /\ pc[t] = "swapped" => logMutex = t
    /\ pc[t] \in {"writing", "reopening"} => flushMutex = t
    /\ flushList[t] # <<>> => pc[t] \in {"swapped", "writing"}

ClosedByManagement ==
  ~isOpen => /\ flushMutex = Management
             /\ pc[Management] \in {"reopening", "failing", "fatal", "swapped"}

\* stop() comes after the last entry, and flushThread ends with nothing to write.
Stopping ==
  /\ stopRequested => main \in {"joining", "stopped"}
  /\ main \in {"joining", "stopped"} => \A t \in Callers : pc[t] = "idle"
  /\ pc[Flusher] = "finished" => stopRequested /\ logEntries = <<>>
  /\ main = "stopped" => pc[Flusher] = "finished"

TInv == TypeOK /\ Locks /\ ClosedByManagement /\ Stopping

\* Nothing is said here of what the entries are.
LEMMA NotifiedPc ==
  ASSUME TypeOK, NEW p \in {pc, Notified, NotifyIfWasEmpty}
  PROVE  /\ p \in [Threads -> CallerStates \cup FlusherStates]
         /\ p[Flusher] \in FlusherStates
         /\ \A t \in Callers : p[t] = pc[t]
         /\ p[Flusher] # pc[Flusher] => p[Flusher] = "relocking" /\ pc[Flusher] = "waiting"
BY ThreadsAssumption
DEF TypeOK, Notified, NotifyIfWasEmpty, Threads, FlusherStates, CallerStates

LEMMA MoreEntries ==
  ASSUME NEW n \in Nat, NEW q \in Seq(1..n)
  PROVE  q \in Seq(1..(n + 1)) /\ q \in Seq(Nat)
<1>1. 1..n \subseteq 1..(n + 1) /\ 1..n \subseteq Nat
  OBVIOUS
<1>. QED BY <1>1, SeqMonotonic

LEMMA TInvInit == Init => TInv
<1>. SUFFICES ASSUME Init PROVE TInv
  OBVIOUS
<1>. USE ThreadsAssumption DEF Init, Threads
<1>1. {stopRequested, isOpen, bad, diskFull} \subseteq BOOLEAN
  BY Zenon
<1>2. TypeOK
  BY <1>1, EmptySeq DEF TypeOK, CallerStates, FlusherStates
<1>3. Locks /\ Stopping
  BY DEF Locks, Stopping
<1>4. ClosedByManagement
  BY Zenon DEF ClosedByManagement
<1>. QED BY <1>2, <1>3, <1>4 DEF TInv

LEMMA OutputLogInv ==
  ASSUME TInv, OutputLog, NEW p \in {pc, Notified, NotifyIfWasEmpty}, NEW t \in Callers,
         pc[t] \in {"idle", "failing"}, Alive,
         \/ main = "running" /\ pc[t] = "idle" /\ pc' = p
         \/ pc[t] = "failing" /\ pc' = [p EXCEPT ![t] = "fatal"],
         UNCHANGED dying
  PROVE  TInv'
<1>. USE ThreadsAssumption DEF Threads
<1>1. /\ \A u \in Callers \ {t} : pc'[u] = pc[u]
      /\ pc'[t] \in {pc[t], "fatal"} /\ pc'[t] \in CallerStates
      /\ pc' \in [Threads -> CallerStates \cup FlusherStates]
      /\ pc'[Flusher] \in FlusherStates
      /\ pc'[Flusher] # pc[Flusher] => pc'[Flusher] = "relocking" /\ pc[Flusher] = "waiting"
  <2>1. /\ p \in [Threads -> CallerStates \cup FlusherStates]
        /\ p[Flusher] \in FlusherStates
        /\ \A u \in Callers : p[u] = pc[u]
        /\ p[Flusher] # pc[Flusher] => p[Flusher] = "relocking" /\ pc[Flusher] = "waiting"
    BY NotifiedPc DEF TInv
  <2>2. "fatal" \in CallerStates /\ \A u \in Callers : pc[u] \in CallerStates
    BY DEF TInv, TypeOK, CallerStates
  <2>3. CASE pc' = p
    BY <2>1, <2>2, <2>3
  <2>4. CASE pc' = [p EXCEPT ![t] = "fatal"]
    BY <2>1, <2>2, <2>4
  <2>. QED BY <2>3, <2>4
<1>2. main \notin {"joining", "stopped"} /\ ~stopRequested
  BY DEF TInv, Stopping, Alive
<1>3. UNCHANGED <<mutexes, stopRequested, flushList, stream, diskFull, main, upTo>>
  BY DEF OutputLog
<1>4. TypeOK'
  <2>1. logged' \in Nat /\ logged' = logged + 1
    BY DEF TInv, TypeOK, OutputLog
  <2>2. logEntries' \in Seq(1..logged')
    <3>1. logEntries \in Seq(1..logged') /\ logged' \in 1..logged'
      BY <2>1, MoreEntries DEF TInv, TypeOK
    <3>. QED BY <3>1, AppendEntry DEF OutputLog
  <2>3. /\ flushList' \in [Threads -> Seq(1..logged')]
        /\ file' \in Seq(1..logged') /\ lost' \subseteq 1..logged'
        /\ upTo' \in [Threads -> 0..logged']
    <3>1. \A u \in Threads :
             /\ flushList[u] \in Seq(1..logged) /\ upTo[u] \in 0..logged
             /\ flushList[u] \in Seq(1..logged')
      BY <2>1, MoreEntries DEF TInv, TypeOK
    <3>2. file \in Seq(1..logged') /\ lost \subseteq 1..logged'
      BY <2>1, MoreEntries DEF TInv, TypeOK
    <3>. QED BY <1>3, <2>1, <3>1, <3>2 DEF TInv, TypeOK, stream
  <2>4. {stopRequested, isOpen, bad, diskFull}' \subseteq BOOLEAN
    BY <1>3, Zenon DEF TInv, TypeOK, stream
  <2>5. /\ {logMutex, flushMutex}' \subseteq Threads \cup {Nobody}
        /\ main' \in {"running", "joining", "stopped", "aborted"}
        /\ dying' \subseteq Callers
    BY <1>3 DEF TInv, TypeOK, mutexes
  <2>6. \A u \in Callers : pc'[u] \in CallerStates
    BY <1>1 DEF TInv, TypeOK
  <2>. QED BY <1>1, <2>1, <2>2, <2>3, <2>4, <2>5, <2>6 DEF TypeOK
<1>5. Locks'
  <2>1. ASSUME NEW u \in Threads, pc'[u] \in {"swapped", "writing", "reopening"}
        PROVE  pc'[u] = pc[u]
    BY <1>1, <2>1
  <2>2. \A u \in Threads : pc[u] \in {"swapped", "writing"} => pc'[u] = pc[u]
    BY <1>1 
  <2>. QED BY <1>3, <2>1, <2>2 DEF TInv, Locks, mutexes
<1>6. ClosedByManagement'
  BY <1>1, <1>3 DEF TInv, ClosedByManagement, mutexes, stream
<1>7. Stopping'
  BY <1>1, <1>2, <1>3 DEF TInv, Stopping
<1>. QED BY <1>4, <1>5, <1>6, <1>7 DEF TInv

LEMMA SwapInv ==
  ASSUME TInv, NEW t \in Threads, Swap(t), Alive,
         \/ t \in Callers /\ MayFlush(t)
         \/ t = Flusher /\ pc[t] = "relocking" /\ logEntries # <<>>
  PROVE  TInv'
<1>. USE ThreadsAssumption DEF Threads
<1>1. /\ \A u \in Threads \ {t} : pc'[u] = pc[u] /\ flushList'[u] = flushList[u]
                                   /\ upTo'[u] = upTo[u]
      /\ pc'[t] = "swapped" /\ flushList'[t] = logEntries /\ upTo'[t] = logged
      /\ logMutex = Nobody /\ logMutex' = t /\ logEntries' = <<>>
      /\ UNCHANGED <<flushMutex, stopRequested, dying, stream, diskFull, main, logged>>
  BY DEF TInv, TypeOK, Swap, OwnerAfterSwap
<1>2. main \in {"joining", "stopped"} => t = Flusher
  BY DEF TInv, Stopping, MayFlush
<1>3. TypeOK'
  <2>1. logEntries' \in Seq(1..logged')
    BY <1>1, EmptySeq
  <2>2. /\ flushList' \in [Threads -> Seq(1..logged')]
        /\ upTo' \in [Threads -> 0..logged']
        /\ pc' \in [Threads -> CallerStates \cup FlusherStates]
        /\ pc'[Flusher] \in FlusherStates
        /\ \A u \in Callers : pc'[u] \in CallerStates
    BY <1>1 DEF TInv, TypeOK, Swap, CallerStates, FlusherStates
  <2>. QED BY <1>1, <2>1, <2>2 DEF TInv, TypeOK, stream
<1>4. Locks'
  BY <1>1 DEF TInv, TypeOK, Locks
<1>5. ClosedByManagement'
  BY <1>1 DEF TInv, ClosedByManagement, MayFlush, stream
<1>6. Stopping'
  BY <1>1, <1>2 DEF TInv, Stopping
<1>. QED BY <1>3, <1>4, <1>5, <1>6 DEF TInv

\* Changes of the program counter of one thread only.
LEMMA GotoPc ==
  ASSUME TInv, NEW t \in Threads, NEW from, NEW to, Goto(t, from, to),
         t \in Callers => to \in CallerStates, t = Flusher => to \in FlusherStates
  PROVE  /\ pc[t] = from /\ pc'[t] = to
         /\ \A u \in Threads \ {t} : pc'[u] = pc[u]
         /\ pc' \in [Threads -> CallerStates \cup FlusherStates]
         /\ pc'[Flusher] \in FlusherStates
         /\ \A u \in Callers : pc'[u] \in CallerStates
BY ThreadsAssumption DEF TInv, TypeOK, Goto, Threads

LEMMA AcquireInv ==
  ASSUME TInv, NEW t \in Threads, AcquireFlushMutex(t) PROVE TInv'
<1>. USE ThreadsAssumption DEF Threads
<1>1. /\ pc[t] = "swapped" /\ pc'[t] = "writing"
      /\ \A u \in Threads \ {t} : pc'[u] = pc[u]
      /\ pc' \in [Threads -> CallerStates \cup FlusherStates]
      /\ pc'[Flusher] \in FlusherStates
      /\ \A u \in Callers : pc'[u] \in CallerStates
  BY GotoPc DEF AcquireFlushMutex, CallerStates, FlusherStates
<1>2. /\ flushMutex = Nobody /\ flushMutex' = t /\ logMutex' = Nobody /\ logMutex = t
      /\ UNCHANGED <<logEntries, stopRequested, flushList, dying, stream, diskFull, main,
                     logged, upTo>>
  BY <1>1 DEF AcquireFlushMutex, TInv, Locks
<1>3. TypeOK'
  BY <1>1, <1>2 DEF TInv, TypeOK, stream
<1>4. Locks'
  BY <1>1, <1>2 DEF TInv, Locks
<1>5. ClosedByManagement'
  BY <1>2 DEF TInv, ClosedByManagement, stream
<1>6. Stopping'
  BY <1>1, <1>2 DEF TInv, Stopping
<1>. QED BY <1>3, <1>4, <1>5, <1>6 DEF TInv

\* What a flush does to the stream, which is open and good.
LEMMA WriteStream ==
  ASSUME TInv, NEW t \in Threads, Write(t)
  PROVE  /\ pc[t] = "writing" /\ isOpen /\ UNCHANGED isOpen
         /\ UNCHANGED <<logMutex, logEntries, stopRequested, dying, diskFull, main, logged,
                        upTo>>
         /\ flushMutex = t /\ flushMutex' = Nobody
         /\ flushList' = [flushList EXCEPT ![t] = <<>>]
         /\ bad' \in BOOLEAN
         /\ \/ flushList[t] = <<>> /\ UNCHANGED <<file, lost>>
            \/ \E n \in 0..Len(flushList[t]) :
                 /\ file' = file \o SubSeq(flushList[t], 1, n)
                 /\ lost' = lost \cup Range(SubSeq(flushList[t], n + 1, Len(flushList[t])))
<1>1. pc[t] = "writing"
  BY DEF Write, WriteList, Goto
<1>2. flushMutex = t
  BY <1>1 DEF TInv, Locks
<1>3. isOpen
  <2>. SUFFICES ASSUME ~isOpen PROVE FALSE
    OBVIOUS
  <2>. QED BY <1>1, <1>2 DEF TInv, ClosedByManagement
<1>4. /\ UNCHANGED <<logMutex, logEntries, stopRequested, dying, diskFull, main, logged, upTo>>
      /\ flushMutex' = Nobody
      /\ flushList' = [flushList EXCEPT ![t] = <<>>]
  BY DEF Write, WriteList
<1>5. CASE flushList[t] = <<>>
  <2>1. UNCHANGED stream
    BY <1>5 DEF Write, WriteList
  <2>2. bad' \in BOOLEAN
    BY <2>1, Zenon DEF stream, TInv, TypeOK
  <2>. QED BY <1>1, <1>2, <1>3, <1>4, <1>5, <2>1, <2>2 DEF stream
<1>6. CASE flushList[t] # <<>>
  <2>1. PICK n \in 0..Len(flushList[t]) : Output(flushList[t], n)
    BY <1>6 DEF Write, WriteList
  <2>2. /\ file' = file \o SubSeq(flushList[t], 1, n)
        /\ lost' = lost \cup Range(SubSeq(flushList[t], n + 1, Len(flushList[t])))
        /\ UNCHANGED isOpen
    BY <1>3, <2>1 DEF Output, BadAfterClear
  <2>3. bad' = (n < Len(flushList[t]))
    BY <1>3, <2>1, Zenon DEF Output, BadAfterClear
  <2>4. bad' \in BOOLEAN
    BY <2>3
  <2>. QED BY <1>1, <1>2, <1>3, <1>4, <2>2, <2>4
<1>. QED BY <1>5, <1>6

LEMMA WriteInv ==
  ASSUME TInv, NEW t \in Threads, Write(t) PROVE TInv'
<1>. USE ThreadsAssumption DEF Threads
<1>1. /\ pc'[t] = "relocking"
      /\ \A u \in Threads \ {t} : pc'[u] = pc[u]
      /\ pc' \in [Threads -> CallerStates \cup FlusherStates]
      /\ pc'[Flusher] \in FlusherStates
      /\ \A u \in Callers : pc'[u] \in CallerStates
  BY GotoPc DEF Write, WriteList, CallerStates, FlusherStates
<1>2. /\ pc[t] = "writing" /\ isOpen /\ UNCHANGED isOpen
      /\ UNCHANGED <<logMutex, logEntries, stopRequested, dying, diskFull, main, logged, upTo>>
      /\ flushMutex = t /\ flushMutex' = Nobody
      /\ flushList' = [flushList EXCEPT ![t] = <<>>]
      /\ bad' \in BOOLEAN
  BY WriteStream
<1>3. flushList[t] \in Seq(1..logged) /\ file \in Seq(1..logged) /\ lost \subseteq 1..logged
  BY DEF TInv, TypeOK
<1>4. file' \in Seq(1..logged) /\ lost' \subseteq 1..logged
  <2>1. CASE UNCHANGED <<file, lost>>
    BY <1>3, <2>1
  <2>2. ASSUME NEW n \in 0..Len(flushList[t]),
               file' = file \o SubSeq(flushList[t], 1, n),
               lost' = lost \cup Range(SubSeq(flushList[t], n + 1, Len(flushList[t])))
        PROVE  file' \in Seq(1..logged) /\ lost' \subseteq 1..logged
    <3>. DEFINE q == flushList[t]
                S == 1..logged
    <3>1. q \in Seq(S) /\ n \in 0..Len(q) /\ file \in Seq(S) /\ lost \subseteq S
      BY <1>3
    <3>2. file' = file \o SubSeq(q, 1, n) /\ lost' = lost \cup Range(SubSeq(q, n + 1, Len(q)))
      BY <2>2
    <3>. HIDE DEF q, S
    <3>3. /\ SubSeq(q, 1, n) \in Seq(S)
          /\ Range(SubSeq(q, n + 1, Len(q))) \subseteq Range(q)
      BY <3>1, SplitEntries
    <3>4. Range(q) \subseteq S
      BY <3>1, EntriesOf
    <3>5. file \o SubSeq(q, 1, n) \in Seq(S)
      BY <3>1, <3>3, ConcatEntries
    <3>6. file' \in Seq(S) /\ lost' \subseteq S
      BY <3>1, <3>2, <3>3, <3>4, <3>5
    <3>. QED BY <3>6 DEF S
  <2>. QED BY <2>1, <2>2, WriteStream
<1>5. TypeOK'
  <2>1. {stopRequested, isOpen, bad, diskFull}' \subseteq BOOLEAN
    BY <1>2, Zenon DEF TInv, TypeOK
  <2>2. flushList' \in [Threads -> Seq(1..logged)]
    BY <1>2, EmptySeq DEF TInv, TypeOK
  <2>. QED BY <1>1, <1>2, <1>4, <2>1, <2>2 DEF TInv, TypeOK
<1>6. Locks'
  BY <1>1, <1>2 DEF TInv, TypeOK, Locks
<1>7. ClosedByManagement'
  BY <1>2 DEF ClosedByManagement
<1>8. Stopping'
  BY <1>1, <1>2 DEF TInv, Stopping
<1>. QED BY <1>5, <1>6, <1>7, <1>8 DEF TInv

\* The steps of a thread that touch neither list nor stream.
LEMMA ThreadInv ==
  ASSUME TInv, NEW t \in Callers, AssertFails(t) \/ Return(t) PROVE TInv'
<1>. USE ThreadsAssumption DEF Threads
<1>1. /\ pc[t] \in {"idle", "relocking"} /\ pc'[t] \in {"failing", "idle"}
      /\ pc[t] = "idle" => main = "running"
      /\ \A u \in Threads \ {t} : pc'[u] = pc[u]
      /\ pc' \in [Threads -> CallerStates \cup FlusherStates]
      /\ pc'[Flusher] \in FlusherStates
      /\ \A u \in Callers : pc'[u] \in CallerStates
  <2>1. CASE AssertFails(t)
    BY <2>1, GotoPc DEF AssertFails, CallerStates, FlusherStates
  <2>2. CASE Return(t)
    BY <2>2, GotoPc DEF Return, CallerStates, FlusherStates
  <2>. QED BY <2>1, <2>2
<1>2. /\ dying' \subseteq Callers /\ main' \in {main, "aborted"}
      /\ upTo' \in [Threads -> 0..logged]
      /\ UNCHANGED <<mutexes, logEntries, stopRequested, flushList, stream, diskFull, logged>>
  <2>1. dying \subseteq Callers /\ upTo \in [Threads -> 0..logged] /\ 0 \in 0..logged
    BY DEF TInv, TypeOK
  <2>2. CASE AssertFails(t)
    BY <2>1, <2>2 DEF AssertFails
  <2>3. CASE Return(t)
    BY <2>1, <2>3 DEF Return
  <2>. QED BY <2>2, <2>3
<1>3. ~stopRequested
  BY <1>1 DEF TInv, Stopping
<1>4. TypeOK'
  BY <1>1, <1>2 DEF TInv, TypeOK, mutexes, stream
<1>5. Locks'
  BY <1>1, <1>2 DEF TInv, Locks, mutexes
<1>6. ClosedByManagement'
  BY <1>1, <1>2 DEF TInv, ClosedByManagement, mutexes, stream
<1>7. Stopping'
  BY <1>1, <1>2, <1>3 DEF TInv, Stopping
<1>. QED BY <1>4, <1>5, <1>6, <1>7 DEF TInv

LEMMA ReopenInv == ASSUME TInv, Reopens PROVE TInv'
<1>. USE ThreadsAssumption DEF Threads
<1>1. CASE CloseLogFile
  <2>1. /\ pc[Management] = "idle" /\ pc'[Management] = "reopening"
        /\ \A u \in Threads \ {Management} : pc'[u] = pc[u]
        /\ pc' \in [Threads -> CallerStates \cup FlusherStates]
        /\ pc'[Flusher] \in FlusherStates
        /\ \A u \in Callers : pc'[u] \in CallerStates
    BY <1>1, GotoPc DEF CloseLogFile, CallerStates, FlusherStates
  <2>2. /\ main = "running" /\ flushMutex = Nobody /\ flushMutex' = Management
        /\ UNCHANGED <<logMutex, logEntries, stopRequested, flushList, dying, bad, file,
                       lost, diskFull, main, logged, upTo>>
    BY <1>1 DEF CloseLogFile, StreamFree
  <2>3. {stopRequested, isOpen, bad, diskFull}' \subseteq BOOLEAN
    BY <1>1, Zenon DEF CloseLogFile, TInv, TypeOK
  <2>4. TypeOK'
    BY <2>1, <2>2, <2>3 DEF TInv, TypeOK
  <2>5. Locks' /\ ClosedByManagement'
    BY <2>1, <2>2 DEF TInv, Locks, ClosedByManagement
  <2>6. Stopping'
    BY <2>1, <2>2 DEF TInv, Stopping
  <2>. QED BY <2>4, <2>5, <2>6 DEF TInv
<1>2. CASE OpenLogFile
  <2>1. /\ pc[Management] = "reopening" /\ pc'[Management] = "idle"
        /\ \A u \in Threads \ {Management} : pc'[u] = pc[u]
        /\ pc' \in [Threads -> CallerStates \cup FlusherStates]
        /\ pc'[Flusher] \in FlusherStates
        /\ \A u \in Callers : pc'[u] \in CallerStates
    BY <1>2, GotoPc DEF OpenLogFile, CallerStates, FlusherStates
  <2>2. /\ flushMutex' = Nobody /\ flushMutex = Management
        /\ UNCHANGED <<logMutex, logEntries, stopRequested, flushList, dying, file, lost,
                       diskFull, main, logged, upTo>>
    BY <1>2, <2>1 DEF OpenLogFile, TInv, Locks
  <2>3. {stopRequested, isOpen, bad, diskFull}' \subseteq BOOLEAN /\ isOpen'
    BY <1>2, Zenon DEF OpenLogFile, TInv, TypeOK
  <2>4. TypeOK'
    BY <2>1, <2>2, <2>3 DEF TInv, TypeOK
  <2>5. Locks' /\ ClosedByManagement'
    BY <2>1, <2>2, <2>3 DEF TInv, Locks, ClosedByManagement
  <2>6. Stopping'
    BY <2>1, <2>2 DEF TInv, Stopping
  <2>. QED BY <2>4, <2>5, <2>6 DEF TInv
<1>3. CASE CannotOpenLogFile
  <2>1. /\ pc[Management] = "reopening" /\ pc'[Management] = "failing"
        /\ \A u \in Threads \ {Management} : pc'[u] = pc[u]
        /\ pc' \in [Threads -> CallerStates \cup FlusherStates]
        /\ pc'[Flusher] \in FlusherStates
        /\ \A u \in Callers : pc'[u] \in CallerStates
    BY <1>3, GotoPc DEF CannotOpenLogFile, CallerStates, FlusherStates
  <2>2. /\ dying' \subseteq Callers
        /\ UNCHANGED <<mutexes, logEntries, stopRequested, flushList, stream, diskFull,
                       main, logged, upTo>>
    BY <1>3 DEF CannotOpenLogFile, TInv, TypeOK
  <2>3. TypeOK'
    BY <2>1, <2>2 DEF TInv, TypeOK, mutexes, stream
  <2>4. Locks' /\ ClosedByManagement'
    BY <2>1, <2>2 DEF TInv, Locks, ClosedByManagement, mutexes, stream
  <2>5. Stopping'
    BY <2>1, <2>2 DEF TInv, Stopping
  <2>. QED BY <2>3, <2>4, <2>5 DEF TInv
<1>. QED BY <1>1, <1>2, <1>3 DEF Reopens

\* flushThread goes to sleep, ends or wakes up; the disk; stop().
LEMMA QuietInv ==
  ASSUME TInv,
         \/ FlusherLoops /\ ~(\E t \in Threads : Swap(t))
         \/ SpuriousWakeup \/ DiskFillsOrEmpties \/ Stop \/ Join \/ UNCHANGED vars
  PROVE  TInv'
<1>. USE ThreadsAssumption DEF Threads
<1>1. CASE FlusherLoops /\ ~(\E t \in Threads : Swap(t))
  <2>1. /\ pc[Flusher] = "relocking" /\ pc'[Flusher] \in {"finished", "waiting"}
        /\ pc'[Flusher] = "finished" => stopRequested /\ logEntries = <<>>
        /\ \A u \in Callers : pc'[u] = pc[u]
        /\ pc' \in [Threads -> CallerStates \cup FlusherStates]
        /\ UNCHANGED <<mutexes, logEntries, stopRequested, flushList, dying, stream,
                       diskFull, main, logged, upTo>>
    BY <1>1 DEF FlusherLoops, MayFinish, TInv, TypeOK, FlusherStates
  <2>2. TypeOK'
    BY <2>1 DEF TInv, TypeOK, FlusherStates, mutexes, stream
  <2>3. Locks' /\ ClosedByManagement'
    BY <2>1 DEF TInv, Locks, ClosedByManagement, mutexes, stream
  <2>4. Stopping'
    BY <2>1 DEF TInv, Stopping
  <2>. QED BY <2>2, <2>3, <2>4 DEF TInv
<1>2. CASE SpuriousWakeup
  <2>1. /\ pc[Flusher] = "waiting" /\ pc'[Flusher] = "relocking"
        /\ \A u \in Callers : pc'[u] = pc[u]
        /\ pc' \in [Threads -> CallerStates \cup FlusherStates]
        /\ UNCHANGED <<mutexes, logEntries, stopRequested, flushList, dying, stream,
                       diskFull, main, logged, upTo>>
    BY <1>2, GotoPc DEF SpuriousWakeup, CallerStates, FlusherStates
  <2>2. TypeOK'
    BY <2>1 DEF TInv, TypeOK, FlusherStates, mutexes, stream
  <2>3. Locks' /\ ClosedByManagement'
    BY <2>1 DEF TInv, Locks, ClosedByManagement, mutexes, stream
  <2>4. Stopping'
    BY <2>1 DEF TInv, Stopping
  <2>. QED BY <2>2, <2>3, <2>4 DEF TInv
<1>3. CASE DiskFillsOrEmpties
  <2>1. UNCHANGED <<mutexes, logEntries, stopRequested, flushList, pc, dying, stream, main,
                    logged, upTo>>
    BY <1>3, Zenon DEF DiskFillsOrEmpties
  <2>2. diskFull' \in BOOLEAN
    BY <1>3, Zenon DEF DiskFillsOrEmpties
  <2>3. {stopRequested, isOpen, bad, diskFull}' \subseteq BOOLEAN
    BY <2>1, <2>2, Zenon DEF TInv, TypeOK, stream
  <2>4. TypeOK'
    BY <2>1, <2>3 DEF TInv, TypeOK, mutexes, stream
  <2>5. Locks' /\ ClosedByManagement' /\ Stopping'
    BY <2>1 DEF TInv, Locks, ClosedByManagement, Stopping, mutexes, stream
  <2>. QED BY <2>4, <2>5 DEF TInv
<1>4. CASE Stop
  <2>1. /\ main = "running" /\ main' = "joining" /\ \A u \in Callers : pc[u] = "idle"
        /\ pc' = Notified
        /\ UNCHANGED <<mutexes, logEntries, flushList, dying, stream, diskFull, logged, upTo>>
    BY <1>4 DEF Stop
  <2>2. /\ pc' \in [Threads -> CallerStates \cup FlusherStates]
        /\ pc'[Flusher] \in FlusherStates /\ \A u \in Callers : pc'[u] = pc[u]
        /\ pc'[Flusher] # pc[Flusher] => pc'[Flusher] = "relocking" /\ pc[Flusher] = "waiting"
    BY <2>1, NotifiedPc DEF TInv
  <2>3. stopRequested' \in BOOLEAN /\ stopRequested'
    BY <1>4, Zenon DEF Stop
  <2>4. {stopRequested, isOpen, bad, diskFull}' \subseteq BOOLEAN
    BY <2>1, <2>3, Zenon DEF TInv, TypeOK, stream
  <2>5. TypeOK'
    BY <2>1, <2>2, <2>4 DEF TInv, TypeOK, mutexes, stream
  <2>6. Locks' /\ ClosedByManagement'
    BY <2>1, <2>2 DEF TInv, Locks, ClosedByManagement, mutexes, stream
  <2>7. Stopping'
    BY <2>1, <2>2, <2>3 DEF TInv, Stopping
  <2>. QED BY <2>5, <2>6, <2>7 DEF TInv
<1>5. CASE Join
  <2>1. /\ main = "joining" /\ main' = "stopped" /\ pc[Flusher] = "finished"
        /\ UNCHANGED <<mutexes, logEntries, stopRequested, flushList, pc, dying, stream,
                       diskFull, logged, upTo>>
    BY <1>5 DEF Join
  <2>2. TypeOK'
    BY <2>1 DEF TInv, TypeOK, mutexes, stream
  <2>3. Locks' /\ ClosedByManagement' /\ Stopping'
    BY <2>1 DEF TInv, Locks, ClosedByManagement, Stopping, mutexes, stream
  <2>. QED BY <2>2, <2>3 DEF TInv
<1>6. CASE UNCHANGED vars
  BY <1>6 DEF vars, mutexes, stream, TInv, TypeOK, Locks, ClosedByManagement, Stopping
<1>. QED BY <1>1, <1>2, <1>3, <1>4, <1>5, <1>6

-----------------------------------------------------------------------------
(* The steps, by what they do to the entries *)

Appends ==
  /\ OutputLog
  /\ \A t \in Threads :
       /\ pc'[t] = "swapped" <=> pc[t] = "swapped"
       /\ pc'[t] = "writing" <=> pc[t] = "writing"

\* Of the threads, only t may change places, and it is not in flushLogEntries().
Rests ==
  /\ UNCHANGED <<logEntries, flushList, file, lost, logged>>
  /\ \A t \in Threads :
       /\ pc'[t] = "swapped" <=> pc[t] = "swapped"
       /\ pc'[t] = "writing" <=> pc[t] = "writing"
       /\ upTo'[t] \in {upTo[t], 0}

Swaps(t) == /\ Swap(t) /\ Alive
            /\ \/ t \in Callers /\ MayFlush(t)
               \/ t = Flusher /\ pc[t] = "relocking" /\ logEntries # <<>>

\* Every step is one of these, and keeps TInv.
LEMMA StepKinds ==
  ASSUME TInv, [Next]_vars
  PROVE  /\ TInv'
         /\ \/ Appends \/ Rests
            \/ \E t \in Threads : Swaps(t) \/ AcquireFlushMutex(t) \/ Write(t)
<1>. USE ThreadsAssumption DEF Threads
<1>1. ASSUME NEW t \in Callers, Log(t) PROVE TInv' /\ Appends
  <2>1. NotifyIfWasEmpty \in {pc, Notified, NotifyIfWasEmpty} /\ pc' = NotifyIfWasEmpty
    BY <1>1 DEF Log
  <2>2. TInv'
    BY <1>1, <2>1, OutputLogInv DEF Log, Alive
  <2>3. \A u \in Callers : pc'[u] = pc[u]
    BY <2>1, NotifiedPc DEF TInv
  <2>4. pc'[Flusher] # pc[Flusher] => pc'[Flusher] = "relocking" /\ pc[Flusher] = "waiting"
    BY <2>1, NotifiedPc DEF TInv
  <2>. QED BY <1>1, <2>2, <2>3, <2>4 DEF Log, Appends
<1>2. ASSUME NEW t \in Callers, LogFatal(t) PROVE TInv' /\ Appends
  <2>1. /\ NotifyIfWasEmpty \in {pc, Notified, NotifyIfWasEmpty}
        /\ pc' = [NotifyIfWasEmpty EXCEPT ![t] = "fatal"]
        /\ pc[t] = "failing" /\ Alive /\ OutputLog /\ UNCHANGED dying
    BY <1>2 DEF LogFatal
  <2>2. TInv'
    BY <2>1, OutputLogInv
  <2>3. /\ NotifyIfWasEmpty \in [Threads -> CallerStates \cup FlusherStates]
        /\ \A u \in Callers : NotifyIfWasEmpty[u] = pc[u]
        /\ NotifyIfWasEmpty[Flusher] # pc[Flusher] =>
              NotifyIfWasEmpty[Flusher] = "relocking" /\ pc[Flusher] = "waiting"
    BY <2>1, NotifiedPc DEF TInv
  <2>4. /\ pc'[t] = "fatal" /\ \A u \in Callers \ {t} : pc'[u] = pc[u]
        /\ pc'[Flusher] # pc[Flusher] => pc'[Flusher] = "relocking" /\ pc[Flusher] = "waiting"
    BY <2>1, <2>3
  <2>. QED BY <2>1, <2>2, <2>4 DEF Appends
<1>3. ASSUME NEW t \in Callers, StartFlush(t) PROVE TInv' /\ Swaps(t)
  BY <1>3, SwapInv DEF StartFlush, Swaps
<1>4. ASSUME NEW t \in Threads, AcquireFlushMutex(t) \/ Write(t) PROVE TInv'
  BY <1>4, AcquireInv, WriteInv
<1>5. ASSUME NEW t \in Callers, AssertFails(t) \/ Return(t) PROVE TInv' /\ Rests
  <2>1. TInv'
    BY <1>5, ThreadInv
  <2>2. /\ pc[t] \in {"idle", "relocking"} /\ pc'[t] \in {"failing", "idle"}
        /\ \A u \in Threads \ {t} : pc'[u] = pc[u]
    BY <1>5, GotoPc DEF AssertFails, Return, CallerStates, FlusherStates
  <2>3. UNCHANGED <<logEntries, flushList, file, lost, logged>>
    BY <1>5 DEF AssertFails, Return, stream
  <2>4. \A u \in Threads : upTo'[u] \in {upTo[u], 0}
    BY <1>5 DEF AssertFails, Return, TInv, TypeOK
  <2>. QED BY <2>1, <2>2, <2>3, <2>4 DEF Rests
<1>6. ASSUME FlusherLoops PROVE TInv' /\ (Swaps(Flusher) \/ Rests)
  <2>1. CASE Swap(Flusher)
    <3>1. Swaps(Flusher)
      BY <1>6, <2>1 DEF Swaps, Swap, OwnerAfterSwap, FlusherLoops, TInv, TypeOK
    <3>. QED BY <3>1, SwapInv DEF Swaps
  <2>2. CASE ~Swap(Flusher)
    <3>1. /\ pc[Flusher] = "relocking" /\ pc' = [pc EXCEPT ![Flusher] = pc'[Flusher]]
          /\ pc'[Flusher] \in {"finished", "waiting"}
          /\ UNCHANGED <<logMutex, logEntries, flushList, file, lost, logged, upTo>>
      BY <1>6, <2>2 DEF FlusherLoops, TInv, TypeOK, mutexes, stream
    <3>2. ~(\E t \in Threads : Swap(t))
      BY <3>1 DEF Swap, OwnerAfterSwap, TInv, TypeOK
    <3>3. TInv'
      BY <1>6, <3>2, QuietInv
    <3>. QED BY <3>1, <3>3 DEF Rests, TInv, TypeOK
  <2>. QED BY <2>1, <2>2
<1>7. ASSUME Reopens PROVE TInv' /\ Rests
  <2>1. TInv'
    BY <1>7, ReopenInv
  <2>2. /\ pc[Management] \in {"idle", "reopening"}
        /\ pc'[Management] \in {"reopening", "idle", "failing"}
        /\ \A u \in Threads \ {Management} : pc'[u] = pc[u]
    BY <1>7, GotoPc
    DEF Reopens, CloseLogFile, OpenLogFile, CannotOpenLogFile, CallerStates, FlusherStates
  <2>3. UNCHANGED <<logEntries, flushList, file, lost, logged, upTo>>
    BY <1>7 DEF Reopens, CloseLogFile, OpenLogFile, CannotOpenLogFile, stream
  <2>. QED BY <2>1, <2>2, <2>3 DEF Rests
<1>8. ASSUME SpuriousWakeup \/ DiskFillsOrEmpties \/ Stop \/ Join \/ UNCHANGED vars
      PROVE  TInv' /\ Rests
  <2>1. TInv'
    BY <1>8, QuietInv
  <2>2. UNCHANGED <<logEntries, flushList, file, lost, logged, upTo>>
    BY <1>8 DEF SpuriousWakeup, DiskFillsOrEmpties, Stop, Join, vars, stream
  <2>3. /\ \A u \in Callers : pc'[u] = pc[u]
        /\ pc'[Flusher] # pc[Flusher] => pc'[Flusher] = "relocking" /\ pc[Flusher] = "waiting"
    <3>1. CASE SpuriousWakeup
      BY <3>1, GotoPc DEF SpuriousWakeup, CallerStates, FlusherStates
    <3>2. CASE Stop
      BY <3>2, NotifiedPc DEF Stop, TInv
    <3>3. CASE DiskFillsOrEmpties \/ Join \/ UNCHANGED vars
      BY <3>3 DEF DiskFillsOrEmpties, Join, vars
    <3>. QED BY <1>8, <3>1, <3>2, <3>3
  <2>. QED BY <2>1, <2>2, <2>3 DEF Rests
<1>. QED
  BY <1>1, <1>2, <1>3, <1>4, <1>5, <1>6, <1>7, <1>8 DEF Next, Flushes, FlushThread, Gone

-----------------------------------------------------------------------------
(* The order of the entries *)

\* On its way to the file an entry passes logEntries, the list of a thread that
\* waits for flushMutex and the list of the one that writes: older ones are ahead.
Order ==
  /\ Increasing(file) /\ Increasing(logEntries)
  /\ Before(Range(file), Range(logEntries))
  /\ \A t \in Threads :
       /\ Increasing(flushList[t])
       /\ Before(Range(file), Range(flushList[t]))
       /\ Before(Range(flushList[t]), Range(logEntries))
  /\ \A t, u \in Threads :
       pc[t] = "writing" /\ pc[u] = "swapped" => Before(Range(flushList[t]), Range(flushList[u]))

\* The entries of t's flush are ahead of those that are taken or logged after it.
LaterEntries ==
  \A t \in Threads :
    /\ \A e \in Range(logEntries) : upTo[t] < e
    /\ pc[t] = "writing" =>
         \A u \in Threads \ {t} : \A e \in Range(flushList[u]) : upTo[t] < e

DInv == Order /\ NothingVanishes /\ LaterEntries /\ FlushWritesEarlier

LEMMA DInvInit == Init => DInv
<1>. SUFFICES ASSUME Init PROVE DInv
  OBVIOUS
<1>1. Order
  BY EmptyRange DEF Init, Order, Before
<1>2. NothingVanishes
  BY EmptyRange DEF Init, NothingVanishes, Pending
<1>3. LaterEntries /\ FlushWritesEarlier
  BY EmptyRange DEF Init, LaterEntries, FlushWritesEarlier
<1>. QED BY <1>1, <1>2, <1>3 DEF DInv

\* What is anywhere has been logged.
LEMMA Logged ==
  ASSUME TypeOK
  PROVE  /\ logged \in Nat
         /\ Range(logEntries) \subseteq 1..logged /\ Range(file) \subseteq 1..logged
         /\ \A t \in Threads : Range(flushList[t]) \subseteq 1..logged /\ upTo[t] \in 0..logged
<1>1. \A t \in Threads : flushList[t] \in Seq(1..logged) /\ upTo[t] \in 0..logged
  BY DEF TypeOK
<1>2. \A t \in Threads : Range(flushList[t]) \subseteq 1..logged
  BY <1>1, EntriesOf
<1>3. Range(logEntries) \subseteq 1..logged /\ Range(file) \subseteq 1..logged
  BY EntriesOf DEF TypeOK
<1>. QED BY <1>1, <1>2, <1>3 DEF TypeOK

LEMMA AppendsData == ASSUME TInv, DInv, Appends PROVE DInv'
<1>. DEFINE x == logged + 1
<1>1. /\ logged \in Nat /\ x \in 1..x
      /\ Range(logEntries) \subseteq 1..logged /\ Range(file) \subseteq 1..logged
      /\ \A t \in Threads : Range(flushList[t]) \subseteq 1..logged /\ upTo[t] \in 0..logged
  BY Logged DEF TInv
<1>2. /\ logEntries' = Append(logEntries, x) /\ logged' = x
      /\ UNCHANGED <<flushList, file, lost, upTo>>
  BY DEF Appends, OutputLog, stream
<1>3. /\ Range(logEntries') = Range(logEntries) \cup {x}
      /\ Increasing(logEntries')
  <2>1. logEntries \in Seq(1..x)
    BY <1>1, MoreEntries DEF TInv, TypeOK
  <2>2. Before(Range(logEntries), {x})
    BY <1>1 DEF Before
  <2>3. Increasing(logEntries)
    BY DEF DInv, Order
  <2>. DEFINE S == 1..x
  <2>. HIDE DEF x
  <2>5. logEntries \in Seq(S) /\ x \in S
    BY <1>1, <2>1
  <2>. HIDE DEF S
  <2>4. /\ Range(Append(logEntries, x)) = Range(logEntries) \cup {x}
        /\ Increasing(Append(logEntries, x))
    BY <2>2, <2>3, <2>5, AppendEntry
  <2>. QED BY <1>2, <2>4
<1>4. Order'
  BY <1>1, <1>2, <1>3 DEF DInv, Order, Before, Appends
<1>5. NothingVanishes'
  <2>1. 1..x = 1..logged \cup {x}
    BY <1>1
  <2>2. Pending' = Pending \cup {x}
    BY <1>2, <1>3 DEF Pending
  <2>. QED BY <1>2, <2>1, <2>2 DEF DInv, NothingVanishes
<1>6. LaterEntries'
  BY <1>1, <1>2, <1>3 DEF DInv, LaterEntries, Appends
<1>7. FlushWritesEarlier'
  BY <1>2 DEF DInv, FlushWritesEarlier, Flushed, Appends
<1>. QED BY <1>4, <1>5, <1>6, <1>7 DEF DInv

LEMMA RestsData == ASSUME TInv, DInv, Rests PROVE DInv'
<1>1. logged \in Nat /\ Range(logEntries) \subseteq 1..logged
      /\ \A t \in Threads : Range(flushList[t]) \subseteq 1..logged /\ upTo[t] \in 0..logged
  BY Logged DEF TInv
<1>2. Order' /\ NothingVanishes'
  BY DEF DInv, Order, NothingVanishes, Pending, Rests
<1>3. LaterEntries'
  BY <1>1 DEF DInv, LaterEntries, Rests
<1>4. FlushWritesEarlier'
  BY <1>1 DEF DInv, FlushWritesEarlier, Flushed, Rests
<1>. QED BY <1>2, <1>3, <1>4 DEF DInv

LEMMA SwapsData == ASSUME TInv, DInv, NEW t \in Threads, Swaps(t) PROVE DInv'
<1>. USE ThreadsAssumption DEF Threads
<1>1. /\ logged \in Nat
      /\ Range(logEntries) \subseteq 1..logged /\ Range(file) \subseteq 1..logged
      /\ \A u \in Threads : Range(flushList[u]) \subseteq 1..logged /\ upTo[u] \in 0..logged
  BY Logged DEF TInv
<1>2. /\ \A u \in Threads \ {t} : pc'[u] = pc[u] /\ flushList'[u] = flushList[u]
                                   /\ upTo'[u] = upTo[u]
      /\ pc'[t] = "swapped" /\ flushList'[t] = logEntries /\ upTo'[t] = logged
      /\ logEntries' = <<>>
      /\ UNCHANGED <<file, lost, logged>>
      /\ \A u \in Threads : pc[u] # "swapped"
      /\ pc[t] # "writing"
  BY DEF Swaps, Swap, OwnerAfterSwap, MayFlush, TInv, TypeOK, Locks, stream
<1>3. flushList[t] = <<>> /\ Range(flushList[t]) = {} /\ Range(logEntries') = {}
  BY <1>2, EmptyRange DEF TInv, Locks
<1>4. Order'
  <2>1. Increasing(logEntries')
    BY <1>2, EmptyRange
  <2>2. \A u \in Threads : /\ Increasing(flushList'[u])
                            /\ Before(Range(file), Range(flushList'[u]))
                            /\ Before(Range(flushList'[u]), {})
    BY <1>2 DEF DInv, Order, Before
  <2>3. ASSUME NEW u \in Threads, NEW v \in Threads, pc'[u] = "writing", pc'[v] = "swapped"
        PROVE  Before(Range(flushList'[u]), Range(flushList'[v]))
    BY <1>2, <2>3 DEF DInv, Order
  <2>. QED BY <1>2, <1>3, <2>1, <2>2, <2>3 DEF DInv, Order, Before
<1>5. NothingVanishes'
  <2>1. Pending' = Pending
    BY <1>2, <1>3 DEF Pending
  <2>. QED BY <1>2, <2>1 DEF DInv, NothingVanishes
<1>6. LaterEntries'
  BY <1>1, <1>2, <1>3 DEF DInv, LaterEntries
<1>7. FlushWritesEarlier'
  BY <1>2 DEF DInv, FlushWritesEarlier, Flushed
<1>. QED BY <1>4, <1>5, <1>6, <1>7 DEF DInv

LEMMA AcquireData ==
  ASSUME TInv, DInv, NEW t \in Threads, AcquireFlushMutex(t) PROVE DInv'
<1>. USE ThreadsAssumption DEF Threads
<1>1. /\ pc[t] = "swapped" /\ pc'[t] = "writing" /\ flushMutex = Nobody /\ logMutex = t
      /\ \A u \in Threads \ {t} : pc'[u] = pc[u]
      /\ UNCHANGED <<logEntries, flushList, file, lost, logged, upTo>>
  BY GotoPc DEF AcquireFlushMutex, CallerStates, FlusherStates, stream, TInv, Locks
<1>2. \A u \in Threads \ {t} :
         /\ pc[u] \notin {"swapped", "writing"} /\ flushList[u] = <<>>
         /\ Range(flushList[u]) = {}
  BY <1>1, EmptyRange DEF TInv, Locks
<1>3. Order'
  BY <1>1, <1>2 DEF DInv, Order
<1>4. NothingVanishes'
  BY <1>1 DEF DInv, NothingVanishes, Pending
<1>5. LaterEntries'
  BY <1>1, <1>2 DEF DInv, LaterEntries
<1>6. FlushWritesEarlier'
  BY <1>1 DEF DInv, FlushWritesEarlier, Flushed
<1>. QED BY <1>3, <1>4, <1>5, <1>6 DEF DInv

LEMMA WriteData == ASSUME TInv, DInv, NEW t \in Threads, Write(t) PROVE DInv'
<1>. USE ThreadsAssumption DEF Threads
<1>. DEFINE q == flushList[t]
<1>1. /\ logged \in Nat
      /\ Range(logEntries) \subseteq 1..logged /\ Range(file) \subseteq 1..logged
      /\ \A u \in Threads : Range(flushList[u]) \subseteq 1..logged /\ upTo[u] \in 0..logged
  BY Logged DEF TInv
<1>2. /\ pc[t] = "writing" /\ pc'[t] = "relocking"
      /\ \A u \in Threads \ {t} : pc'[u] = pc[u] /\ flushList'[u] = flushList[u]
      /\ flushList'[t] = <<>> /\ Range(flushList'[t]) = {} /\ Increasing(flushList'[t])
      /\ flushMutex = t
      /\ UNCHANGED <<logEntries, logged, upTo>>
  BY WriteStream, GotoPc, EmptyRange
  DEF Write, WriteList, CallerStates, FlusherStates, TInv, TypeOK
<1>3. \A u \in Threads \ {t} : pc[u] # "writing" /\ (Range(flushList[u]) # {} => pc[u] = "swapped")
  BY <1>2, EmptyRange DEF TInv, Locks
<1>4. /\ Increasing(file')
      /\ Range(file') \subseteq Range(file) \cup Range(q)
      /\ Range(file') \cup lost' = Range(file) \cup lost \cup Range(q)
  <2>1. CASE q = <<>> /\ UNCHANGED <<file, lost>>
    BY <2>1, EmptyRange DEF DInv, Order
  <2>2. ASSUME NEW n \in 0..Len(q), file' = file \o SubSeq(q, 1, n),
               lost' = lost \cup Range(SubSeq(q, n + 1, Len(q)))
        PROVE  /\ Increasing(file')
               /\ Range(file') \subseteq Range(file) \cup Range(q)
               /\ Range(file') \cup lost' = Range(file) \cup lost \cup Range(q)
    <3>1. /\ q \in Seq(1..logged) /\ file \in Seq(1..logged)
          /\ Increasing(q) /\ Increasing(file) /\ Before(Range(file), Range(q))
      BY DEF TInv, TypeOK, DInv, Order
    <3>. DEFINE p == SubSeq(q, 1, n)
                r == SubSeq(q, n + 1, Len(q))
    <3>. HIDE DEF q
    <3>2. /\ p \in Seq(1..logged) /\ Range(p) \cup Range(r) = Range(q) /\ Increasing(p)
      BY <3>1, <2>2, SplitEntries
    <3>3. file' = file \o p /\ lost' = lost \cup Range(r)
      BY <2>2
    <3>. HIDE DEF p, r
    <3>4. Before(Range(file), Range(p))
      BY <3>1, <3>2 DEF Before
    <3>5. Range(file') = Range(file) \cup Range(p) /\ Increasing(file')
      BY <3>1, <3>2, <3>3, <3>4, ConcatEntries
    <3>. QED BY <3>2, <3>3, <3>5
  <2>. QED BY <2>1, <2>2, WriteStream
<1>5. Order'
  <2>1. ASSUME NEW u \in Threads \ {t} PROVE Before(Range(q), Range(flushList[u]))
    <3>1. CASE Range(flushList[u]) = {}
      BY <3>1 DEF Before
    <3>2. CASE pc[u] = "swapped"
      <4>1. \A v, w \in Threads :
               pc[v] = "writing" /\ pc[w] = "swapped"
                 => Before(Range(flushList[v]), Range(flushList[w]))
        BY DEF DInv, Order
      <4>. QED BY <1>2, <3>2, <4>1
    <3>. QED BY <1>3, <3>1, <3>2
  <2>2. Before(Range(q), Range(logEntries))
    BY DEF DInv, Order
  <2>. QED BY <1>2, <1>3, <1>4, <2>1, <2>2 DEF DInv, Order, Before
<1>6. Pending \subseteq Pending' \cup Range(q) /\ Pending' \subseteq Pending
  BY <1>2 DEF Pending
<1>7. NothingVanishes'
  <2>1. Range(q) \subseteq Pending
    BY DEF Pending
  <2>. QED BY <1>2, <1>4, <1>6, <2>1 DEF DInv, NothingVanishes
<1>8. LaterEntries'
  BY <1>2, <1>3 DEF DInv, LaterEntries
<1>9. FlushWritesEarlier'
  <2>1. ASSUME NEW u \in Threads, u # t, Flushed(u)'
        PROVE  1..upTo[u] \subseteq Range(file') \cup lost'
    BY <1>2, <1>4, <2>1 DEF DInv, FlushWritesEarlier, Flushed
  <2>2. ASSUME NEW e \in 1..upTo[t] PROVE e \in Range(file') \cup lost'
    <3>1. e \in 1..logged /\ ~(upTo[t] < e)
      BY <1>1
    <3>2. e \in Pending \cup Range(file) \cup lost
      BY <3>1 DEF DInv, NothingVanishes
    <3>3. e \notin Range(logEntries) /\ \A u \in Threads \ {t} : e \notin Range(flushList[u])
      BY <1>2, <3>1 DEF DInv, LaterEntries
    <3>. QED BY <1>4, <3>2, <3>3 DEF Pending
  <2>. QED BY <1>2, <2>1, <2>2 DEF FlushWritesEarlier
<1>. QED BY <1>5, <1>7, <1>8, <1>9 DEF DInv
-----------------------------------------------------------------------------
(* The theorems *)

LEMMA DataStep == ASSUME TInv, DInv, [Next]_vars PROVE TInv' /\ DInv'
<1>1. TInv'
  BY StepKinds
<1>2. CASE Appends
  BY <1>1, <1>2, AppendsData
<1>3. CASE Rests
  BY <1>1, <1>3, RestsData
<1>4. ASSUME NEW t \in Threads, Swaps(t) \/ AcquireFlushMutex(t) \/ Write(t) PROVE DInv'
  BY <1>4, SwapsData, AcquireData, WriteData
<1>. QED BY <1>1, <1>2, <1>3, <1>4, StepKinds

LEMMA LoggingInvariant == Spec => [](TInv /\ DInv)
<1>1. Init => TInv /\ DInv
  BY TInvInit, DInvInit
<1>2. (TInv /\ DInv) /\ [Next]_vars => (TInv /\ DInv)'
  BY DataStep
<1>. QED BY <1>1, <1>2, PTL DEF Spec

\* The variables of the log have their types, for any number of threads.
THEOREM LoggingTypeOK == Spec => []TypeOK
<1>1. TInv /\ DInv => TypeOK
  BY DEF TInv
<1>. QED BY <1>1, LoggingInvariant, PTL

\* Entries reach the file in the order of the calls of outputLog(), whatever
\* threads take lists and write them at the same time.
THEOREM LoggingWrittenInOrder == Spec => []WrittenInOrder
<1>1. TInv /\ DInv => WrittenInOrder
  BY DEF DInv, Order, Increasing, WrittenInOrder
<1>. QED BY <1>1, LoggingInvariant, PTL

\* Every entry is in a list that will be written, in the file, or was lost for
\* want of room on the disk.
THEOREM LoggingNothingVanishes == Spec => []NothingVanishes
<1>1. TInv /\ DInv => NothingVanishes
  BY DEF DInv
<1>. QED BY <1>1, LoggingInvariant, PTL

\* When flushLogEntries() has given flushMutex back, all that was logged before it
\* took its list is written, what other threads had taken before it included.
THEOREM LoggingFlushWritesEarlier == Spec => []FlushWritesEarlier
<1>1. TInv /\ DInv => FlushWritesEarlier
  BY DEF DInv
<1>. QED BY <1>1, LoggingInvariant, PTL

\* stop() leaves nothing in memory.
THEOREM LoggingStopWritesAll == Spec => []StopWritesAll
<1>. USE ThreadsAssumption DEF Threads
<1>1. ASSUME TInv, DInv, main = "stopped" PROVE logEntries = <<>> /\ 1..logged = Range(file) \cup lost
  <2>1. /\ \A t \in Callers : pc[t] = "idle"
        /\ pc[Flusher] = "finished" /\ logEntries = <<>>
    BY <1>1 DEF TInv, Stopping
  <2>2. \A t \in Threads : flushList[t] = <<>> /\ Range(flushList[t]) = {}
    BY <1>1, <2>1, EmptyRange DEF TInv, Locks
  <2>3. Range(logEntries) = {}
    BY <2>1, EmptyRange
  <2>4. Pending = {}
    BY <2>2, <2>3 DEF Pending
  <2>. QED BY <1>1, <2>1, <2>4 DEF DInv, NothingVanishes
<1>2. TInv /\ DInv => StopWritesAll
  BY <1>1 DEF StopWritesAll
<1>. QED BY <1>2, LoggingInvariant, PTL
=============================================================================
