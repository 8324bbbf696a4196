----------------------------- MODULE LoggingDevice -----------------------------
(***************************************************************************)
(* The asynchronous log of every process (utils/loggingDevice.cpp): threads *)
(* append entries to logEntries under logMutex; whoever flushes takes the   *)
(* whole list and writes it to the stream under flushMutex.  That is the    *)
(* flush thread, the management thread on a flushLogs command, and any      *)
(* thread after an ALERT or, just before abort(), after a failed ASSERT.    *)
(* On reopenLog the management thread closes and opens the log file.        *)
(*                                                                         *)
(* Entries are numbered in the order of outputLog().  LOG STARTS and LOG    *)
(* ENDS lines, and what a failed write leaves in the buffer of the stream,  *)
(* are not entries.  The two FATAL lines of an ASSERT are one entry.        *)
(***************************************************************************)
EXTENDS Naturals, Sequences, Functions

CONSTANTS
  Callers,      \* the threads that log: workers, and ...
  Management,   \* ... the management thread, one of them
  Flusher,      \* the device's own flushThread
  Nobody,
  MaxEntries    \* bound of the model: calls of LOG() by threads that live on

ASSUME ThreadsAssumption ==
  /\ Management \in Callers
  /\ Flusher \notin Callers
  /\ Nobody \notin Callers \cup {Flusher}
  /\ MaxEntries \in Nat

VARIABLES
  logMutex, flushMutex,   \* their owners, or Nobody
  logEntries,             \* the shared list, under logMutex
  stopRequested,          \* under logMutex
  flushList,              \* of each thread: local in flushLogEntries()
  pc,
  dying,                  \* threads whose ASSERT failed
  isOpen, bad,            \* the stream: the file is open; badbit is set
  diskFull,
  main,                   \* the process, seen from its main thread
  \* history
  logged,                 \* entries so far
  file,                   \* entries on disk, in order
  lost,                   \* entries written while the disk was full
  upTo                    \* threads in flushLogEntries(): `logged' when they took the list

mutexes == <<logMutex, flushMutex>>
stream  == <<isOpen, bad, file, lost>>
vars    == <<mutexes, logEntries, stopRequested, flushList, pc, dying, stream, diskFull,
             main, logged, upTo>>

Threads == Callers \cup {Flusher}

-----------------------------------------------------------------------------
\* "swapped": has the list and logMutex, wants flushMutex.  "writing": has
\* flushMutex.  "relocking": has written, wants logMutex again.  "reopening":
\* has flushMutex and has closed the file.  "failing", "fatal": in ASSERT before
\* and after LOG(FATAL).
CallerStates ==
  {"idle", "swapped", "writing", "relocking", "reopening", "failing", "fatal"}
FlusherStates == {"relocking", "swapped", "writing", "waiting", "finished"}

\* start() lets flushThread lock logMutex for the first time: as if relocking.
Init ==
  /\ logMutex = Nobody /\ flushMutex = Nobody
  /\ logEntries = <<>> /\ stopRequested = FALSE
  /\ flushList = [t \in Threads |-> <<>>]
  /\ pc = [t \in Threads |-> IF t = Flusher THEN "relocking" ELSE "idle"]
  /\ dying = {}
  /\ isOpen = TRUE /\ bad = FALSE /\ diskFull = FALSE
  /\ main = "running"
  /\ logged = 0 /\ file = <<>> /\ lost = {}
  /\ upTo = [t \in Threads |-> 0]

Alive == main \in {"running", "joining"}

Goto(t, from, to) == Alive /\ pc[t] = from /\ pc' = [pc EXCEPT ![t] = to]

-----------------------------------------------------------------------------
(* outputLog() *)

\* Mutated forms, each named for the mistake, precede what they mutate.

\* condition.notify_one(): only flushThread waits there.
Notified == [pc EXCEPT ![Flusher] = IF @ = "waiting" THEN "relocking" ELSE @]

NotifyIfWasEmpty_WhenNotEmpty == IF logEntries # <<>> THEN Notified ELSE pc
NotifyIfWasEmpty == IF logEntries = <<>> THEN Notified ELSE pc

OutputLog ==
  /\ logMutex = Nobody
  /\ logged' = logged + 1
  /\ logEntries' = Append(logEntries, logged')
  /\ UNCHANGED <<mutexes, stopRequested, flushList, stream, diskFull, main, upTo>>

Log(t) ==
  /\ main = "running" /\ pc[t] = "idle" /\ logged < MaxEntries
  /\ OutputLog
  /\ pc' = NotifyIfWasEmpty
  /\ UNCHANGED dying

\* ASSERT: LOG(FATAL), flushLogBuffers(), abort().
AssertFails(t) ==
  /\ main = "running"
  /\ Goto(t, "idle", "failing")
  /\ dying' = dying \cup {t}
  /\ UNCHANGED <<mutexes, logEntries, stopRequested, flushList, stream, diskFull, main,
                 logged, upTo>>

LogFatal(t) ==
  /\ Alive /\ pc[t] = "failing"
  /\ OutputLog
  /\ pc' = [NotifyIfWasEmpty EXCEPT ![t] = "fatal"]
  /\ UNCHANGED dying

-----------------------------------------------------------------------------
(* flushLogEntries(), called by flush() and by threadFunction() *)

\* The caller owns logMutex, and keeps it until it has flushMutex.
OwnerAfterSwap_Nobody(t) == Nobody
OwnerAfterSwap(t) == t

Swap(t) ==
  /\ logMutex = Nobody
  /\ logMutex' = OwnerAfterSwap(t)
  /\ flushList' = [flushList EXCEPT ![t] = logEntries]
  /\ logEntries' = <<>>
  /\ upTo' = [upTo EXCEPT ![t] = logged]
  /\ pc' = [pc EXCEPT ![t] = "swapped"]
  /\ UNCHANGED <<flushMutex, stopRequested, dying, stream, diskFull, main, logged>>

AcquireFlushMutex(t) ==
  /\ Goto(t, "swapped", "writing")
  /\ flushMutex = Nobody
  /\ flushMutex' = t
  /\ logMutex' = Nobody
  /\ UNCHANGED <<logEntries, stopRequested, flushList, dying, stream, diskFull, main,
                 logged, upTo>>

\* outStream.clear()
BadAfterClear_Kept == bad
BadAfterClear == FALSE

\* Writes the first n entries; the disk has no room for the others.  A stream
\* that is closed or bad swallows them all.
Output(entries, n) ==
  IF isOpen /\ ~BadAfterClear
  THEN /\ file' = file \o SubSeq(entries, 1, n)
       /\ lost' = lost \cup Range(SubSeq(entries, n + 1, Len(entries)))
       /\ bad' = (n < Len(entries))
       /\ UNCHANGED isOpen
  ELSE bad' = TRUE /\ UNCHANGED <<isOpen, file, lost>>

WriteList(t) ==
  /\ IF flushList[t] = <<>>
     THEN UNCHANGED stream
     ELSE \E n \in 0..Len(flushList[t]) :
            /\ (n < Len(flushList[t])) <=> diskFull
            /\ Output(flushList[t], n)
  /\ flushList' = [flushList EXCEPT ![t] = <<>>]
  /\ flushMutex' = Nobody
  /\ Goto(t, "writing", "relocking")
  /\ UNCHANGED <<logMutex, logEntries, stopRequested, dying, diskFull, main, logged, upTo>>

\* The lines of flushLock.unlock() and mainLock.lock() swapped.
Write_RelocksFirst(t) == logMutex = Nobody /\ WriteList(t)
Write(t) == WriteList(t)

-----------------------------------------------------------------------------
(* flush(): the flushLogs command, ALERT and ASSERT *)

MayFlush(t) == pc[t] = "fatal" \/ (pc[t] = "idle" /\ main = "running")

StartFlush_ReturnsIfEmpty(t) ==
  /\ Alive /\ MayFlush(t)
  /\ IF logEntries # <<>>
     THEN Swap(t)
     ELSE /\ Goto(t, pc[t], "relocking")
          /\ upTo' = [upTo EXCEPT ![t] = logged]
          /\ UNCHANGED <<mutexes, logEntries, stopRequested, flushList, dying, stream,
                         diskFull, main, logged>>
StartFlush(t) == Alive /\ MayFlush(t) /\ Swap(t)

\* flush() returns, and a failed ASSERT calls abort().
Return(t) ==
  /\ Goto(t, "relocking", "idle")
  /\ t \in Callers /\ logMutex = Nobody
  /\ main' = IF t \in dying THEN "aborted" ELSE main
  /\ upTo' = [upTo EXCEPT ![t] = 0]
  /\ UNCHANGED <<mutexes, logEntries, stopRequested, flushList, dying, stream, diskFull,
                 logged>>

-----------------------------------------------------------------------------
(* threadFunction(), with logMutex held at each turn of its loop *)

MayFinish_OnRequest == stopRequested
MayFinish == stopRequested /\ logEntries = <<>>

FlusherLoops ==
  /\ Alive /\ pc[Flusher] = "relocking" /\ logMutex = Nobody
  /\ IF ~MayFinish /\ logEntries # <<>>
     THEN Swap(Flusher)
     ELSE /\ pc' = [pc EXCEPT ![Flusher] = IF MayFinish THEN "finished" ELSE "waiting"]
          /\ UNCHANGED <<mutexes, logEntries, stopRequested, flushList, dying, stream,
                         diskFull, main, logged, upTo>>

SpuriousWakeup ==
  /\ Goto(Flusher, "waiting", "relocking")
  /\ UNCHANGED <<mutexes, logEntries, stopRequested, flushList, dying, stream, diskFull,
                 main, logged, upTo>>

-----------------------------------------------------------------------------
(* FileLoggingDevice::reopen(), on the management thread *)

\* flushLock of reopen()
StreamFree_NotLocked == TRUE
StreamFree == flushMutex = Nobody

CloseLogFile ==
  /\ main = "running"
  /\ Goto(Management, "idle", "reopening")
  /\ StreamFree
  /\ flushMutex' = Management
  /\ isOpen' = FALSE
  /\ UNCHANGED <<logMutex, logEntries, stopRequested, flushList, dying, bad, file, lost,
                 diskFull, main, logged, upTo>>

OpenLogFile ==
  /\ Goto(Management, "reopening", "idle")
  /\ isOpen' = TRUE /\ bad' = FALSE
  /\ flushMutex' = Nobody
  /\ UNCHANGED <<logMutex, logEntries, stopRequested, flushList, dying, file, lost,
                 diskFull, main, logged, upTo>>

\* The file cannot be opened: the ASSERT fails while flushMutex is held.
CannotOpenLogFile ==
  /\ Goto(Management, "reopening", "failing")
  /\ dying' = dying \cup {Management}
  /\ UNCHANGED <<mutexes, logEntries, stopRequested, flushList, stream, diskFull, main,
                 logged, upTo>>

DiskFillsOrEmpties ==
  /\ Alive
  /\ diskFull' = ~diskFull
  /\ UNCHANGED <<mutexes, logEntries, stopRequested, flushList, pc, dying, stream, main,
                 logged, upTo>>

-----------------------------------------------------------------------------
(* stop(), from the destructor of ScopedLoggingDeviceSetter: every thread but *)
(* flushThread has been joined                                                *)

Stop ==
  /\ main = "running" /\ \A t \in Callers : pc[t] = "idle"
  /\ logMutex = Nobody
  /\ stopRequested' = TRUE
  /\ pc' = Notified
  /\ main' = "joining"
  /\ UNCHANGED <<mutexes, logEntries, flushList, dying, stream, diskFull, logged, upTo>>

Join ==
  /\ main = "joining" /\ pc[Flusher] = "finished"
  /\ main' = "stopped"
  /\ UNCHANGED <<mutexes, logEntries, stopRequested, flushList, pc, dying, stream, diskFull,
                 logged, upTo>>

\* No thread of the process exists any more.
Gone == ~Alive /\ UNCHANGED vars

-----------------------------------------------------------------------------
Flushes(t) == LogFatal(t) \/ StartFlush(t) \/ AcquireFlushMutex(t) \/ Write(t) \/ Return(t)

\* A thread inside flush() or ASSERT, which nothing but a mutex can hold up.
Continues(t) ==
  \/ pc[t] \in {"failing", "fatal", "relocking"} /\ (LogFatal(t) \/ StartFlush(t) \/ Return(t))
  \/ AcquireFlushMutex(t)
  \/ Write(t)

FlushThread == FlusherLoops \/ AcquireFlushMutex(Flusher) \/ Write(Flusher)

Reopens == CloseLogFile \/ OpenLogFile \/ CannotOpenLogFile

Next ==
  \/ \E t \in Callers : Log(t) \/ AssertFails(t) \/ Flushes(t)
  \/ FlushThread \/ SpuriousWakeup
  \/ Reopens
  \/ DiskFillsOrEmpties
  \/ Stop \/ Join
  \/ Gone

Spec == Init /\ [][Next]_vars

\* A thread waiting for a mutex gets it in the end, however often others take it:
\* strong fairness.  Nobody has to log, to send a command, to stop the process;
\* asserts need not fail, nor the disk have room.
Fairness ==
  /\ SF_vars(FlushThread)
  /\ \A t \in Callers : SF_vars(Continues(t))
  /\ WF_vars(OpenLogFile \/ CannotOpenLogFile)
  /\ WF_vars(Join)

FairSpec == Spec /\ Fairness

-----------------------------------------------------------------------------
(* Properties *)

TypeOK ==
  /\ {logMutex, flushMutex} \subseteq Threads \cup {Nobody}
  /\ logEntries \in Seq(1..logged)
  /\ flushList \in [Threads -> Seq(1..logged)]
  /\ pc \in [Threads -> CallerStates \cup FlusherStates]
  /\ pc[Flusher] \in FlusherStates
  /\ \A t \in Callers : pc[t] \in CallerStates
  /\ dying \subseteq Callers
  /\ {stopRequested, isOpen, bad, diskFull} \subseteq BOOLEAN
  /\ main \in {"running", "joining", "stopped", "aborted"}
  /\ logged \in Nat
  /\ file \in Seq(1..logged) /\ lost \subseteq 1..logged
  /\ upTo \in [Threads -> 0..logged]

\* Several threads may hold lists taken at different times, yet entries reach the
\* file in the order in which they were logged.
WrittenInOrder == \A i, j \in DOMAIN file : i < j => file[i] < file[j]

\* No entry disappears, whatever threads flush and reopen the file at the same
\* time: only a full disk loses entries.
Pending == Range(logEntries) \cup UNION {Range(flushList[t]) : t \in Threads}
NothingVanishes == 1..logged = Pending \cup Range(file) \cup lost

\* When flush() returns, everything logged before it was called has been written,
\* also the entries which another thread had taken and was still writing.
Flushed(t) == pc[t] \notin {"swapped", "writing"}
FlushWritesEarlier ==
  \A t \in Threads : Flushed(t) => 1..upTo[t] \subseteq Range(file) \cup lost

\* The process ends with nothing left to write, which stop() asserts: entries
\* logged while flushThread was writing, stopRequested already set or not.
StopWritesAll == main = "stopped" => logEntries = <<>> /\ 1..logged = Range(file) \cup lost

\* The two ways in which entries may stay in memory.
OpenFailed == Management \in dying /\ flushMutex = Management
Over == main = "aborted" \/ OpenFailed

\* Every entry is written though nobody calls flush(): flushThread sleeps only
\* while there is nothing to write.
EventuallyWritten ==
  \A e \in 1..MaxEntries : logged >= e ~> e \in Range(file) \cup lost \/ Over

\* flush() and stop() return: the two mutexes are always taken in the same order,
\* and flushThread does not sleep when it is to end.
CallsReturn ==
  /\ \A t \in Callers :
       pc[t] \in {"swapped", "writing", "relocking"} ~> pc[t] = "idle" \/ Over
  /\ (main = "joining" ~> main = "stopped")

\* "flush() can be called from any thread" (loggingDevice.cpp:219), and ASSERT
\* does: a thread whose ASSERT failed gets to abort().
AssertionsAbort == \A t \in Callers : pc[t] = "failing" ~> main = "aborted"

=============================================================================
