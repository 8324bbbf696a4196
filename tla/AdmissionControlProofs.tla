------------------------- MODULE AdmissionControlProofs -------------------------
(***************************************************************************)
(* Proofs about AdmissionControl: the types, and that however requests,     *)
(* reloads and clearings interleave an address is let through at most as    *)
(* often as a limit in force allows, and learns of unknown users as often    *)
(* as such a limit divided by the penalty, and once more for each thread.    *)
(***************************************************************************)
EXTENDS AdmissionControl, FiniteSetTheorems, TLAPS

\* What a thread may judge by, now or with limits it has read, is in inForce.
HeldInForce ==
  \A a \in Addresses :
    /\ SettingsForIp(a) \in inForce[a]
    /\ \A t \in Threads : pc[t] = "counting" /\ ip[t] = a => settings[t] \in inForce[a]

IInv == TypeOK /\ HeldInForce

-----------------------------------------------------------------------------
LEMMA SettingsForIpType ==
  ASSUME customSettingsMap \in CustomSettingsMaps, NEW a \in Addresses
  PROVE  SettingsForIp(a) \in Settings
BY SettingsAssumption DEF SettingsForIp

LEMMA SettingsForIpTypeNext ==
  ASSUME customSettingsMap' \in CustomSettingsMaps, NEW a \in Addresses
  PROVE  SettingsForIp(a)' \in Settings
BY SettingsAssumption DEF SettingsForIp

\* The one place where the limits that are read and the count that is kept meet.
LEMMA CountedIsAdmitted ==
  ASSUME IInv, NEW t \in Threads, ~Blocked(ipMap[ip[t]] + 1, settings[t]),
         pc[t] = "counting"
  PROVE  \E s \in inForce[ip[t]] : admitted[ip[t]] + 1 <= s.absolute
<1>1. /\ ip[t] \in Addresses /\ settings[t] \in inForce[ip[t]]
      /\ settings[t].absolute \in Nat
  BY DEF IInv, TypeOK, HeldInForce, Settings
<1>2. /\ ipMap[ip[t]] \in Nat /\ admitted[ip[t]] \in Nat
      /\ admitted[ip[t]] <= ipMap[ip[t]]
  BY <1>1 DEF IInv, TypeOK
<1>. QED BY <1>1, <1>2 DEF Blocked

-----------------------------------------------------------------------------
LEMMA InitInv == Init => IInv /\ AdmittedWithinLimit
<1>. SUFFICES ASSUME Init PROVE IInv /\ AdmittedWithinLimit
  OBVIOUS
<1>1. \A a \in Addresses : SettingsForIp(a) \in Settings
  BY SettingsForIpType DEF Init
<1>2. TypeOK
  <2>1. inForce \in [Addresses -> SUBSET Settings]
    BY <1>1 DEF Init
  <2>2. settings \in [Threads -> Settings]
    BY SettingsAssumption DEF Init
  <2>3. ipMap \in [Addresses -> Nat] /\ \A a \in Addresses : ipMap[a] >= admitted[a]
    BY DEF Init
  <2>. QED BY <2>1, <2>2, <2>3 DEF Init, TypeOK, ThreadState
<1>3. HeldInForce
  BY DEF Init, HeldInForce
<1>4. AdmittedWithinLimit
  BY <1>1 DEF Init, AdmittedWithinLimit, Settings
<1>. QED BY <1>2, <1>3, <1>4 DEF IInv

\* A clearing starts a new period with the limits that can still be used.
LEMMA ClearInv ==
  ASSUME IInv, ClearIpMap, UNCHANGED <<customSettingsMap, thread>>
  PROVE  /\ ipMap' \in [Addresses -> Nat] /\ admitted' \in [Addresses -> Nat]
         /\ \A a \in Addresses : ipMap'[a] >= admitted'[a]
         /\ guesses' \in [Addresses -> Nat]
         /\ inForce' \in [Addresses -> SUBSET Settings]
         /\ HeldInForce' /\ AdmittedWithinLimit'
<1>1. \A a \in Addresses : SettingsForIp(a) \in Settings /\ Held(a) \subseteq Settings
  BY SettingsForIpType DEF IInv, TypeOK, Held
<1>2. \A a \in Addresses : SettingsForIp(a)' = SettingsForIp(a)
  BY DEF SettingsForIp
<1>3. inForce' = [a \in Addresses |-> {SettingsForIp(a)} \cup Held(a)]
  BY DEF ClearIpMap
<1>4. inForce' \in [Addresses -> SUBSET Settings]
  BY <1>1, <1>3
<1>5. HeldInForce'
  BY <1>2, <1>3 DEF HeldInForce, Held, thread
<1>6. AdmittedWithinLimit'
  BY <1>1, <1>3 DEF AdmittedWithinLimit, ClearIpMap, Settings
<1>. QED BY <1>4, <1>5, <1>6 DEF ClearIpMap

LEMMA NextInv == IInv /\ AdmittedWithinLimit /\ [Next]_vars => IInv' /\ AdmittedWithinLimit'
<1>. SUFFICES ASSUME IInv, AdmittedWithinLimit, [Next]_vars
              PROVE  IInv' /\ AdmittedWithinLimit'
  OBVIOUS
<1>0. TypeOK /\ HeldInForce
  BY DEF IInv
<1>1. ASSUME NEW t \in Threads, NEW a \in Addresses, ReadSettings(t, a)
      PROVE  IInv' /\ AdmittedWithinLimit'
  <2>1. SettingsForIp(a) \in Settings
    BY <1>0, SettingsForIpType DEF TypeOK
  <2>2. TypeOK'
    BY <1>0, <1>1, <2>1 DEF TypeOK, ReadSettings, Goto, history, ThreadState
  <2>3. HeldInForce'
    BY <1>0, <1>1 DEF TypeOK, HeldInForce, ReadSettings, Goto, history, SettingsForIp
  <2>4. AdmittedWithinLimit'
    BY <1>1 DEF AdmittedWithinLimit, ReadSettings, history
  <2>. QED BY <2>2, <2>3, <2>4 DEF IInv
<1>2. ASSUME NEW t \in Threads, CountAttempt(t)
      PROVE  IInv' /\ AdmittedWithinLimit'
  <2>. DEFINE a == ip[t]
  <2>1. /\ a \in Addresses /\ pc[t] = "counting"
        /\ ipMap' = [ipMap EXCEPT ![a] = ipMap[a] + 1]
        /\ UNCHANGED <<customSettingsMap, ip, settings, reloading, guesses, inForce>>
    BY <1>0, <1>2 DEF TypeOK, CountAttempt, Goto
  <2>2. CASE Blocked(ipMap[a] + 1, settings[t]) /\ UNCHANGED admitted
             /\ Goto(t, "counting", "idle")
    <3>1. TypeOK'
      BY <1>0, <2>1, <2>2 DEF TypeOK, Goto, ThreadState
    <3>2. HeldInForce'
      BY <1>0, <2>1, <2>2 DEF TypeOK, HeldInForce, Goto, SettingsForIp
    <3>3. AdmittedWithinLimit'
      BY <2>1, <2>2 DEF AdmittedWithinLimit
    <3>. QED BY <3>1, <3>2, <3>3 DEF IInv
  <2>3. ASSUME ~Blocked(ipMap[a] + 1, settings[t]),
               admitted' = [admitted EXCEPT ![a] = @ + 1],
               NEW to \in {"slowed", "querying"}, Goto(t, "counting", to)
        PROVE  IInv' /\ AdmittedWithinLimit'
    <3>1. TypeOK'
      BY <1>0, <2>1, <2>3 DEF TypeOK, Goto, ThreadState
    <3>2. HeldInForce'
      BY <1>0, <2>1, <2>3 DEF TypeOK, HeldInForce, Goto, SettingsForIp
    <3>3. \E s \in inForce[a] : admitted[a] + 1 <= s.absolute
      BY <2>1, <2>3, CountedIsAdmitted
    <3>4. AdmittedWithinLimit'
      BY <1>0, <2>1, <2>3, <3>3 DEF TypeOK, AdmittedWithinLimit
    <3>. QED BY <3>1, <3>2, <3>4 DEF IInv
  <2>. QED BY <1>2, <2>2, <2>3 DEF CountAttempt
<1>3. ASSUME NEW t \in Threads, SleepEnds(t) \/ AnswerKnown(t)
      PROVE  IInv' /\ AdmittedWithinLimit'
  <2>1. TypeOK'
    BY <1>0, <1>3 DEF TypeOK, SleepEnds, AnswerKnown, Goto, history, ThreadState
  <2>2. HeldInForce'
    BY <1>0, <1>3
    DEF TypeOK, HeldInForce, SleepEnds, AnswerKnown, Goto, history, SettingsForIp
  <2>3. AdmittedWithinLimit'
    BY <1>3 DEF AdmittedWithinLimit, SleepEnds, AnswerKnown, history
  <2>. QED BY <2>1, <2>2, <2>3 DEF IInv
<1>4. ASSUME NEW t \in Threads, AnswerUnknownUser(t)
      PROVE  IInv' /\ AdmittedWithinLimit'
  <2>1. TypeOK'
    BY <1>0, <1>4 DEF TypeOK, AnswerUnknownUser, Goto, ThreadState
  <2>2. HeldInForce'
    BY <1>0, <1>4 DEF TypeOK, HeldInForce, AnswerUnknownUser, Goto, SettingsForIp
  <2>3. AdmittedWithinLimit'
    BY <1>4 DEF AdmittedWithinLimit, AnswerUnknownUser
  <2>. QED BY <2>1, <2>2, <2>3 DEF IInv
<1>5. ASSUME NEW t \in Threads, AddPenalty(t)
      PROVE  IInv' /\ AdmittedWithinLimit'
  <2>1. TypeOK'
    BY <1>0, <1>5, PenaltyAssumption
    DEF TypeOK, AddPenalty, Penalised, Goto, history, ThreadState
  <2>2. HeldInForce'
    BY <1>0, <1>5 DEF TypeOK, HeldInForce, AddPenalty, Goto, history, SettingsForIp
  <2>3. AdmittedWithinLimit'
    BY <1>5 DEF AdmittedWithinLimit, AddPenalty, history
  <2>. QED BY <2>1, <2>2, <2>3 DEF IInv
<1>6. CASE PeriodEnds
  <2>1. ClearIpMap /\ UNCHANGED <<customSettingsMap, thread, reloading>>
    BY <1>6 DEF PeriodEnds
  <2>. QED BY <1>0, <2>1, ClearInv DEF IInv, TypeOK, thread
<1>7. CASE ClearAfterReload
  <2>1. ClearIpMap /\ UNCHANGED <<customSettingsMap, thread>> /\ reloading' = FALSE
    BY <1>7 DEF ClearAfterReload
  <2>. QED BY <1>0, <2>1, ClearInv DEF IInv, TypeOK, thread
<1>8. CASE SwapSettings
  <2>1. \A a \in Addresses : SettingsForIp(a)' \in Settings
    BY <1>8, SettingsForIpTypeNext DEF SwapSettings
  <2>2. inForce' = [a \in Addresses |-> inForce[a] \cup {SettingsForIp(a)'}]
    BY <1>8 DEF SwapSettings
  <2>3. TypeOK'
    BY <1>0, <1>8, <2>1, <2>2 DEF TypeOK, SwapSettings, thread
  <2>4. HeldInForce'
    BY <1>0, <1>8, <2>2 DEF HeldInForce, SwapSettings, thread
  <2>5. AdmittedWithinLimit'
    BY <1>8, <2>2 DEF AdmittedWithinLimit, SwapSettings
  <2>. QED BY <2>3, <2>4, <2>5 DEF IInv
<1>9. CASE UNCHANGED vars
  <2>1. TypeOK' /\ AdmittedWithinLimit'
    BY <1>0, <1>9 DEF TypeOK, AdmittedWithinLimit, vars, thread, history
  <2>2. HeldInForce'
    BY <1>0, <1>9 DEF HeldInForce, vars, thread, history, SettingsForIp
  <2>. QED BY <2>1, <2>2 DEF IInv
<1>. QED
  BY <1>1, <1>2, <1>3, <1>4, <1>5, <1>6, <1>7, <1>8, <1>9 DEF Next, ThreadStep

-----------------------------------------------------------------------------
(* Guesses of user ids *)

\* The threads that still have to add a penalty for an address, and those that were
\* let through and may still learn of an unknown user.
Penalising(a) == {t \in Threads : pc[t] = "penalising" /\ ip[t] = a}
MayGuess(a)   == {t \in Threads : pc[t] \in {"slowed", "querying"} /\ ip[t] = a}

\* Every guess has been counted with its penalty, or a thread is about to.
PenaltiesCounted ==
  \A a \in Addresses :
    admitted[a] + guesses[a] * invalidCredentialsPenalty
      <= ipMap[a] + Cardinality(Penalising(a)) * invalidCredentialsPenalty

\* GuessesWithinLimit with the guesses that may still follow: these are let through
\* by the count as it was before, at most one for each thread.
Possible(a) == guesses[a] + Cardinality(MayGuess(a))

WithinLimit(a, n) ==
  n > Cardinality(Threads) =>
    \E s \in inForce[a] :
      (n - Cardinality(Threads)) * invalidCredentialsPenalty < s.absolute

PossibleWithinLimit == \A a \in Addresses : WithinLimit(a, Possible(a))

GInv == PenaltiesCounted /\ PossibleWithinLimit

\* A thread is in at most one of the two sets.
LEMMA GuessSets ==
  ASSUME NEW a
  PROVE  /\ IsFiniteSet(Penalising(a)) /\ IsFiniteSet(MayGuess(a))
         /\ Cardinality(Penalising(a)) \in Nat /\ Cardinality(MayGuess(a)) \in Nat
         /\ Cardinality(Threads) \in Nat
         /\ Cardinality(Penalising(a)) + Cardinality(MayGuess(a)) <= Cardinality(Threads)
<1>1. /\ Penalising(a) \in SUBSET Threads /\ MayGuess(a) \in SUBSET Threads
      /\ Penalising(a) \cup MayGuess(a) \in SUBSET Threads
      /\ Penalising(a) \cap MayGuess(a) = {}
  BY DEF Penalising, MayGuess
<1>2. IsFiniteSet(Penalising(a)) /\ IsFiniteSet(MayGuess(a))
  BY <1>1, ThreadsAssumption, FS_Subset
<1>3. Cardinality(Penalising(a) \cup MayGuess(a))
        = Cardinality(Penalising(a)) + Cardinality(MayGuess(a)) - 0
  BY <1>1, <1>2, FS_Union, FS_EmptySet
<1>4. /\ Cardinality(Penalising(a)) \in Nat /\ Cardinality(MayGuess(a)) \in Nat
      /\ Cardinality(Threads) \in Nat
  BY <1>2, ThreadsAssumption, FS_CardinalityType
<1>5. Cardinality(Penalising(a) \cup MayGuess(a)) <= Cardinality(Threads)
  BY <1>1, ThreadsAssumption, FS_Subset
<1>. QED BY <1>2, <1>3, <1>4, <1>5

\* How the sets change when one thread moves.
LEMMA ThreadMoves ==
  ASSUME TypeOK, NEW t \in Threads, NEW from, NEW to, Goto(t, from, to), UNCHANGED ip,
         NEW a \in Addresses
  PROVE  /\ Penalising(a)' = IF ip[t] # a THEN Penalising(a)
                             ELSE IF to = "penalising" THEN Penalising(a) \cup {t}
                             ELSE Penalising(a) \ {t}
         /\ MayGuess(a)' = IF ip[t] # a THEN MayGuess(a)
                           ELSE IF to \in {"slowed", "querying"} THEN MayGuess(a) \cup {t}
                           ELSE MayGuess(a) \ {t}
         /\ t \in Penalising(a) <=> ip[t] = a /\ from = "penalising"
         /\ t \in MayGuess(a) <=> ip[t] = a /\ from \in {"slowed", "querying"}
BY DEF TypeOK, Goto, Penalising, MayGuess

LEMMA MultiplyNext ==
  ASSUME NEW n \in Int, NEW k \in Int
  PROVE  (n + 1) * k = n * k + k /\ (n - 1) * k = n * k - k
OBVIOUS

LEMMA MultiplyMonotone ==
  ASSUME NEW m \in Int, NEW n \in Int, NEW k \in Nat, m <= n
  PROVE  m * k <= n * k
OBVIOUS

\* The step that lets a request through: what the count says of the guesses before it
\* and how many threads there are bound those that may follow.
LEMMA AdmittedMayGuess ==
  ASSUME IInv, GInv, NEW t \in Threads, pc[t] = "counting",
         ~Blocked(ipMap[ip[t]] + 1, settings[t])
  PROVE  WithinLimit(ip[t], Possible(ip[t]) + 1)
<1>. DEFINE a == ip[t]
            P == invalidCredentialsPenalty
            g == guesses[a]
            pen == Cardinality(Penalising(a))
            may == Cardinality(MayGuess(a))
            n == Cardinality(Threads)
<1>1. /\ a \in Addresses /\ settings[t] \in inForce[a] /\ settings[t].absolute \in Nat
      /\ g \in Nat /\ ipMap[a] \in Nat /\ admitted[a] \in Nat /\ P \in Nat
  BY PenaltyAssumption DEF IInv, TypeOK, HeldInForce, Settings
<1>2. /\ IsFiniteSet(Penalising(a)) /\ IsFiniteSet(MayGuess(a))
      /\ pen \in Nat /\ may \in Nat /\ n \in Nat
  BY GuessSets
\* t itself is in neither set.
<1>3. pen + may + 1 <= n
  <2>1. /\ Penalising(a) \cup MayGuess(a) \cup {t} \in SUBSET Threads
        /\ Penalising(a) \cap MayGuess(a) = {}
        /\ t \notin Penalising(a) \cup MayGuess(a)
    BY DEF Penalising, MayGuess
  <2>2. /\ IsFiniteSet(Penalising(a) \cup MayGuess(a))
        /\ Cardinality(Penalising(a) \cup MayGuess(a)) = pen + may - 0
    BY <1>2, <2>1, FS_Union, FS_EmptySet
  <2>3. Cardinality(Penalising(a) \cup MayGuess(a) \cup {t}) = pen + may - 0 + 1
    BY <2>1, <2>2, FS_AddElement
  <2>4. Cardinality(Penalising(a) \cup MayGuess(a) \cup {t}) <= n
    BY <2>1, ThreadsAssumption, FS_Subset
  <2>. QED BY <1>2, <2>3, <2>4
<1>4. ipMap[a] + 1 <= settings[t].absolute
  BY <1>1 DEF Blocked
<1>5. admitted[a] + g * P <= ipMap[a] + pen * P
  BY <1>1 DEF GInv, PenaltiesCounted
<1>6. ((g + may + 1) - n) * P <= (g - pen) * P
  <2>1. (g + may + 1) - n <= g - pen
    BY <1>1, <1>2, <1>3
  <2>. QED BY <1>1, <1>2, <2>1, MultiplyMonotone
<1>7. (g - pen) * P = g * P - pen * P
  BY <1>1, <1>2
<1>8. ((g + may + 1) - n) * P < settings[t].absolute
  <2>. DEFINE guessed == g * P
              pending == pen * P
              later == ((g + may + 1) - n) * P
  <2>1. guessed \in Int /\ pending \in Int /\ later \in Int
    BY <1>1, <1>2
  <2>2. admitted[a] + guessed <= ipMap[a] + pending /\ later <= guessed - pending
    BY <1>5, <1>6, <1>7
  <2>. HIDE DEF guessed, pending, later
  <2>3. later < settings[t].absolute
    BY <1>1, <1>4, <2>1, <2>2
  <2>. QED BY <2>3 DEF later
<1>9. ((Possible(a) + 1) - Cardinality(Threads)) * invalidCredentialsPenalty
        < settings[t].absolute
  BY <1>8 DEF Possible
<1>10. \E s \in inForce[ip[t]] :
         ((Possible(ip[t]) + 1) - Cardinality(Threads)) * invalidCredentialsPenalty < s.absolute
  BY <1>1, <1>9, Zenon
<1>. QED BY <1>10, Zenon DEF WithinLimit

LEMMA GuessesInit == Init => GInv
<1>. SUFFICES ASSUME Init, NEW a \in Addresses
              PROVE  /\ admitted[a] + guesses[a] * invalidCredentialsPenalty
                           <= ipMap[a] + Cardinality(Penalising(a)) * invalidCredentialsPenalty
                     /\ WithinLimit(a, Possible(a))
  BY DEF GInv, PenaltiesCounted, PossibleWithinLimit
<1>1. Penalising(a) = {} /\ MayGuess(a) = {} /\ Cardinality({}) = 0
  BY FS_EmptySet DEF Init, Penalising, MayGuess
<1>2. admitted[a] = 0 /\ guesses[a] = 0 /\ ipMap[a] = 0
  BY DEF Init
<1>. QED BY <1>1, <1>2, GuessSets, PenaltyAssumption DEF Possible, WithinLimit

\* A clearing forgets the guesses; no more can follow than there are threads.
LEMMA GuessesCleared ==
  ASSUME ClearIpMap, UNCHANGED thread
  PROVE  GInv'
<1>. SUFFICES ASSUME NEW a \in Addresses
              PROVE  /\ admitted'[a] + guesses'[a] * invalidCredentialsPenalty
                           <= ipMap'[a] + Cardinality(Penalising(a)') * invalidCredentialsPenalty
                     /\ WithinLimit(a, Possible(a))'
  BY DEF GInv, PenaltiesCounted, PossibleWithinLimit
<1>1. Penalising(a)' = Penalising(a) /\ MayGuess(a)' = MayGuess(a)
  BY DEF Penalising, MayGuess, thread
<1>2. admitted'[a] = 0 /\ guesses'[a] = 0 /\ ipMap'[a] = 0
  BY DEF ClearIpMap
<1>3. /\ Cardinality(Penalising(a)) \in Nat /\ Cardinality(MayGuess(a)) \in Nat
      /\ Cardinality(Threads) \in Nat /\ Cardinality(MayGuess(a)) <= Cardinality(Threads)
  BY GuessSets
<1>4. 0 <= Cardinality(Penalising(a)) * invalidCredentialsPenalty
  BY <1>3, PenaltyAssumption
<1>5. WithinLimit(a, Possible(a))'
  BY <1>1, <1>2, <1>3 DEF Possible, WithinLimit
<1>6. guesses'[a] * invalidCredentialsPenalty = 0
  BY <1>2, PenaltyAssumption
<1>7. admitted'[a] + guesses'[a] * invalidCredentialsPenalty = 0
  BY <1>2, <1>6
<1>8. ipMap'[a] + Cardinality(Penalising(a)') * invalidCredentialsPenalty
        = Cardinality(Penalising(a)) * invalidCredentialsPenalty
  <2>. DEFINE c == Cardinality(Penalising(a)) * invalidCredentialsPenalty
  <2>1. c \in Int
    BY <1>3, PenaltyAssumption
  <2>. HIDE DEF c
  <2>2. ipMap'[a] + c = c
    BY <1>2, <2>1
  <2>. QED BY <1>1, <2>2 DEF c
<1>. QED BY <1>4, <1>5, <1>7, <1>8

LEMMA GuessesNext == IInv /\ GInv /\ [Next]_vars => GInv'
<1>. SUFFICES ASSUME IInv, GInv, [Next]_vars PROVE GInv'
  OBVIOUS
<1>. DEFINE P == invalidCredentialsPenalty
            n == Cardinality(Threads)
<1>0. /\ TypeOK /\ HeldInForce /\ P \in Nat
  BY PenaltyAssumption DEF IInv
<1>1. \A a \in Addresses : ipMap[a] \in Nat /\ admitted[a] \in Nat /\ guesses[a] \in Nat
  BY <1>0 DEF TypeOK
<1>2. \A a \in Addresses : admitted[a] + guesses[a] * P <= ipMap[a] + Cardinality(Penalising(a)) * P
  BY DEF GInv, PenaltiesCounted
<1>3. \A a \in Addresses : WithinLimit(a, Possible(a))
  BY DEF GInv, PossibleWithinLimit
\* Neither the guesses nor the threads that count for an address change.
<1>4. ASSUME UNCHANGED <<admitted, guesses, ipMap>>,
             \A a \in Addresses : inForce[a] \subseteq inForce'[a],
             \A a \in Addresses : Penalising(a)' = Penalising(a) /\ MayGuess(a)' = MayGuess(a)
      PROVE  GInv'
  <2>1. PenaltiesCounted'
    BY <1>2, <1>4 DEF PenaltiesCounted
  <2>2. \A a \in Addresses : Possible(a)' = Possible(a)
    BY <1>4 DEF Possible
  <2>3. PossibleWithinLimit'
    BY <1>3, <1>4, <2>2 DEF PossibleWithinLimit, WithinLimit
  <2>. QED BY <2>1, <2>3 DEF GInv
<1>5. ASSUME NEW t \in Threads, NEW a \in Addresses, ReadSettings(t, a) PROVE GInv'
  <2>1. \A b \in Addresses : Penalising(b)' = Penalising(b) /\ MayGuess(b)' = MayGuess(b)
    BY <1>0, <1>5 DEF TypeOK, ReadSettings, Goto, Penalising, MayGuess
  <2>. QED BY <1>4, <1>5, <2>1 DEF ReadSettings, history
\* A thread moves that the sets do not tell apart in its old and new place, or that
\* leaves MayGuess: fewer guesses can follow.
<1>6. ASSUME NEW t \in Threads, NEW from, NEW to, Goto(t, from, to),
             UNCHANGED <<ip, admitted, guesses, inForce>>,
             \A a \in Addresses : ipMap'[a] \in Nat /\ ipMap[a] <= ipMap'[a],
             from # "penalising", to # "penalising",
             to \in {"slowed", "querying"} => from \in {"slowed", "querying"}
      PROVE  GInv'
  <2>. SUFFICES ASSUME NEW a \in Addresses
                PROVE  /\ Penalising(a)' = Penalising(a)
                       /\ WithinLimit(a, Possible(a))'
    <3>1. ASSUME NEW a \in Addresses, Penalising(a)' = Penalising(a)
          PROVE  admitted'[a] + guesses'[a] * P
                   <= ipMap'[a] + Cardinality(Penalising(a)') * P
      <4>1. Cardinality(Penalising(a)) * P \in Int /\ guesses[a] * P \in Int
        BY <1>0, <1>1, GuessSets
      <4>. DEFINE x == Cardinality(Penalising(a)) * P
                  y == guesses[a] * P
      <4>2. admitted[a] + y <= ipMap[a] + x /\ x \in Int /\ y \in Int
        BY <1>2, <4>1
      <4>. HIDE DEF x, y
      <4>3. admitted[a] + y <= ipMap'[a] + x
        BY <1>1, <1>6, <4>2
      <4>. QED BY <1>6, <3>1, <4>3 DEF x, y
    <3>. QED BY <3>1 DEF GInv, PenaltiesCounted, PossibleWithinLimit
  <2>1. Penalising(a)' = Penalising(a) /\ MayGuess(a)' \in SUBSET MayGuess(a)
    BY <1>0, <1>6, ThreadMoves
  <2>2. /\ Cardinality(MayGuess(a)') \in Nat
        /\ Cardinality(MayGuess(a)') <= Cardinality(MayGuess(a))
        /\ Cardinality(MayGuess(a)) \in Nat /\ n \in Nat
    BY <2>1, GuessSets, FS_Subset, FS_CardinalityType
  <2>3. Possible(a)' <= Possible(a) /\ Possible(a)' \in Nat /\ Possible(a) \in Nat
    BY <1>1, <1>6, <2>2 DEF Possible
  <2>4. ASSUME NEW s \in inForce[a], s.absolute \in Nat,
               (Possible(a) - n) * P < s.absolute
        PROVE  (Possible(a)' - n) * P < s.absolute
    <3>1. Possible(a)' - n <= Possible(a) - n
      BY <2>2, <2>3
    <3>2. (Possible(a)' - n) * P <= (Possible(a) - n) * P
      BY <1>0, <2>2, <2>3, <3>1, MultiplyMonotone
    <3>3. (Possible(a)' - n) * P \in Int /\ (Possible(a) - n) * P \in Int
      BY <1>0, <2>2, <2>3
    <3>. DEFINE x == (Possible(a)' - n) * P
                y == (Possible(a) - n) * P
    <3>. HIDE DEF x, y
    <3>4. x < s.absolute
      BY <2>4, <3>2, <3>3 DEF x, y
    <3>. QED BY <3>4 DEF x
  <2>5. \A s \in inForce[a] : s.absolute \in Nat
    BY <1>0 DEF TypeOK, Settings
  <2>6. ASSUME Possible(a)' > n
        PROVE  \E s \in inForce[a] : (Possible(a)' - n) * P < s.absolute
    <3>1. Possible(a) > n
      BY <2>2, <2>3, <2>6
    <3>2. PICK s \in inForce[a] : (Possible(a) - n) * P < s.absolute
      BY <1>3, <3>1, Zenon DEF WithinLimit
    <3>. QED BY <2>4, <2>5, <3>2
  <2>7. WithinLimit(a, Possible(a))'
    BY <1>6, <2>6, Zenon DEF WithinLimit
  <2>. QED BY <2>1, <2>7
<1>7. ASSUME NEW t \in Threads, CountAttempt(t) PROVE GInv'
  <2>0. PICK a \in Addresses : a = ip[t]
    BY <1>0 DEF TypeOK
  <2>1. /\ a \in Addresses /\ pc[t] = "counting"
        /\ ipMap' = [ipMap EXCEPT ![a] = ipMap[a] + 1]
        /\ UNCHANGED <<ip, guesses, inForce>>
    BY <2>0, <1>0, <1>7 DEF TypeOK, CountAttempt, Goto
  <2>2. CASE Goto(t, "counting", "idle") /\ UNCHANGED admitted
    <3>1. \A b \in Addresses : ipMap'[b] \in Nat /\ ipMap[b] <= ipMap'[b]
      BY <1>0, <1>1, <2>1 DEF TypeOK
    <3>. QED BY <1>6, <2>1, <2>2, <3>1
  <2>3. ASSUME ~Blocked(ipMap[a] + 1, settings[t]),
               admitted' = [admitted EXCEPT ![a] = @ + 1],
               NEW to \in {"slowed", "querying"}, Goto(t, "counting", to)
        PROVE  GInv'
    <3>1. \A b \in Addresses :
             /\ Penalising(b)' = Penalising(b)
             /\ MayGuess(b)' = IF b = a THEN MayGuess(b) \cup {t} ELSE MayGuess(b)
             /\ t \notin MayGuess(a)
      <4>. SUFFICES ASSUME NEW b \in Addresses
                    PROVE  /\ Penalising(b)' = Penalising(b)
                           /\ MayGuess(b)' = IF b = a THEN MayGuess(b) \cup {t} ELSE MayGuess(b)
                           /\ t \notin MayGuess(a)
        OBVIOUS
      <4>1. t \notin Penalising(b) /\ t \notin MayGuess(a)
        BY <2>1 DEF Penalising, MayGuess
      <4>2. to # "penalising" /\ to \in {"slowed", "querying"} /\ UNCHANGED ip
        BY <2>1, <2>3
      <4>3. /\ Penalising(b)' = IF ip[t] # b THEN Penalising(b) ELSE Penalising(b) \ {t}
            /\ MayGuess(b)' = IF ip[t] # b THEN MayGuess(b) ELSE MayGuess(b) \cup {t}
        BY <1>0, <2>3, <4>2, ThreadMoves
      <4>. QED BY <2>0, <4>1, <4>3
    <3>2. PenaltiesCounted'
      <4>. SUFFICES ASSUME NEW b \in Addresses
                    PROVE  admitted'[b] + guesses[b] * P
                             <= ipMap'[b] + Cardinality(Penalising(b)) * P
        BY <2>1, <3>1 DEF PenaltiesCounted
      <4>. DEFINE x == Cardinality(Penalising(b)) * P
                  y == guesses[b] * P
      <4>1. admitted[b] + y <= ipMap[b] + x /\ x \in Int /\ y \in Int
        BY <1>0, <1>1, <1>2, GuessSets
      <4>. HIDE DEF x, y
      <4>2. admitted'[b] + y <= ipMap'[b] + x
        BY <1>0, <1>1, <2>1, <2>3, <4>1 DEF TypeOK
      <4>. QED BY <4>2 DEF x, y
    <3>3. \A b \in Addresses :
             Possible(b)' = IF b = a THEN Possible(b) + 1 ELSE Possible(b)
      <4>1. Cardinality(MayGuess(a) \cup {t}) = Cardinality(MayGuess(a)) + 1
        BY <2>1, <3>1, GuessSets, FS_AddElement
      <4>2. \A b \in Addresses : Cardinality(MayGuess(b)) \in Nat /\ guesses[b] \in Nat
        BY <1>1, GuessSets
      <4>3. Possible(a)' = Possible(a) + 1
        BY <2>1, <3>1, <4>1, <4>2 DEF Possible
      <4>4. ASSUME NEW b \in Addresses, b # a PROVE Possible(b)' = Possible(b)
        BY <2>1, <3>1, <4>4 DEF Possible
      <4>. QED BY <4>3, <4>4
    <3>4. WithinLimit(a, Possible(a) + 1)
      BY <2>0, <2>1, <2>3, AdmittedMayGuess
    <3>5. PossibleWithinLimit'
      BY <1>3, <2>1, <3>3, <3>4 DEF PossibleWithinLimit, WithinLimit
    <3>. QED BY <3>2, <3>5 DEF GInv
  <2>. QED BY <1>7, <2>0, <2>2, <2>3 DEF CountAttempt
<1>8. ASSUME NEW t \in Threads, SleepEnds(t) \/ AnswerKnown(t) PROVE GInv'
  <2>1. UNCHANGED <<ip, ipMap, admitted, guesses, inForce>>
    BY <1>8 DEF SleepEnds, AnswerKnown, history
  <2>2. \A a \in Addresses : ipMap'[a] \in Nat /\ ipMap[a] <= ipMap'[a]
    BY <1>1, <2>1
  <2>3. Goto(t, "slowed", "querying") \/ Goto(t, "querying", "idle")
    BY <1>8 DEF SleepEnds, AnswerKnown
  <2>. QED BY <1>6, <2>1, <2>2, <2>3
\* A possible guess becomes one, which is still to be counted.
<1>9. ASSUME NEW t \in Threads, AnswerUnknownUser(t) PROVE GInv'
  <2>0. PICK a \in Addresses : a = ip[t]
    BY <1>0 DEF TypeOK
  <2>1. /\ a \in Addresses
        /\ guesses' = [guesses EXCEPT ![a] = guesses[a] + 1]
        /\ UNCHANGED <<ip, ipMap, admitted, inForce>>
        /\ Goto(t, "querying", "penalising")
    BY <2>0, <1>0, <1>9 DEF TypeOK, AnswerUnknownUser
  <2>2. \A b \in Addresses :
           /\ Penalising(b)' = IF b = a THEN Penalising(b) \cup {t} ELSE Penalising(b)
           /\ MayGuess(b)' = IF b = a THEN MayGuess(b) \ {t} ELSE MayGuess(b)
           /\ t \in MayGuess(a) /\ t \notin Penalising(a)
    BY <1>0, <2>0, <2>1, ThreadMoves
  <2>3. /\ Cardinality(MayGuess(a) \ {t}) = Cardinality(MayGuess(a)) - 1
        /\ Cardinality(Penalising(a) \cup {t}) = Cardinality(Penalising(a)) + 1
    BY <2>1, <2>2, GuessSets, FS_AddElement, FS_RemoveElement
  <2>4. \A b \in Addresses : Possible(b)' = Possible(b)
    <3>1. \A b \in Addresses : Cardinality(MayGuess(b)) \in Nat /\ guesses[b] \in Nat
      BY <1>1, GuessSets
    <3>2. guesses'[a] = guesses[a] + 1 /\ \A b \in Addresses : b # a => guesses'[b] = guesses[b]
      BY <1>0, <2>1 DEF TypeOK
    <3>3. Possible(a)' = Possible(a)
      <4>1. MayGuess(a)' = MayGuess(a) \ {t}
        BY <2>2
      <4>. QED BY <4>1, <2>1, <2>2, <2>3, <3>1, <3>2 DEF Possible
    <3>4. ASSUME NEW b \in Addresses, b # a PROVE Possible(b)' = Possible(b)
      BY <2>2, <3>2, <3>4 DEF Possible
    <3>. QED BY <3>3, <3>4
  <2>5. PossibleWithinLimit'
    BY <1>3, <2>1, <2>4 DEF PossibleWithinLimit, WithinLimit
  <2>6. PenaltiesCounted'
    <3>. SUFFICES ASSUME NEW b \in Addresses
                  PROVE  admitted[b] + guesses'[b] * P
                           <= ipMap[b] + Cardinality(Penalising(b)') * P
      BY <2>1 DEF PenaltiesCounted
    <3>. DEFINE x == Cardinality(Penalising(b)) * P
                y == guesses[b] * P
    <3>1. admitted[b] + y <= ipMap[b] + x /\ x \in Int /\ y \in Int
      BY <1>0, <1>1, <1>2, GuessSets
    <3>2. CASE b = a
      <4>1. guesses'[b] * P = y + P /\ Cardinality(Penalising(b)') * P = x + P
        <5>1. guesses'[b] = guesses[b] + 1 /\ guesses[b] \in Int
          BY <1>0, <1>1, <2>1, <3>2 DEF TypeOK
        <5>2. /\ Cardinality(Penalising(b)') = Cardinality(Penalising(b)) + 1
              /\ Cardinality(Penalising(b)) \in Int
          <6>1. Penalising(b)' = Penalising(b) \cup {t}
            BY <2>2, <3>2
          <6>. QED BY <2>3, <3>2, <6>1, GuessSets
        <5>. QED BY <1>0, <5>1, <5>2, MultiplyNext
      <4>. HIDE DEF x, y
      <4>2. admitted[b] + (y + P) <= ipMap[b] + (x + P)
        BY <1>0, <1>1, <3>1
      <4>. QED BY <4>1, <4>2
    <3>3. CASE b # a
      BY <1>0, <2>1, <2>2, <3>1, <3>3 DEF TypeOK
    <3>. QED BY <3>2, <3>3
  <2>. QED BY <2>5, <2>6 DEF GInv
\* ... and now it is.
<1>10. ASSUME NEW t \in Threads, AddPenalty(t) PROVE GInv'
  <2>0. PICK a \in Addresses : a = ip[t]
    BY <1>0 DEF TypeOK
  <2>1. /\ a \in Addresses
        /\ ipMap' = [ipMap EXCEPT ![a] = ipMap[a] + P]
        /\ UNCHANGED <<ip, guesses, admitted, inForce>>
        /\ Goto(t, "penalising", "idle")
    BY <2>0, <1>0, <1>10 DEF TypeOK, AddPenalty, Penalised, history
  <2>2. \A b \in Addresses :
           /\ Penalising(b)' = IF b = a THEN Penalising(b) \ {t} ELSE Penalising(b)
           /\ MayGuess(b)' = MayGuess(b)
           /\ t \in Penalising(a)
    BY <1>0, <2>0, <2>1, ThreadMoves
  <2>3. Cardinality(Penalising(a) \ {t}) = Cardinality(Penalising(a)) - 1
    BY <2>1, <2>2, GuessSets, FS_RemoveElement
  <2>4. PossibleWithinLimit'
    <3>1. \A b \in Addresses : Possible(b)' = Possible(b)
      BY <2>1, <2>2 DEF Possible
    <3>. QED BY <1>3, <2>1, <3>1 DEF PossibleWithinLimit, WithinLimit
  <2>5. PenaltiesCounted'
    <3>. SUFFICES ASSUME NEW b \in Addresses
                  PROVE  admitted[b] + guesses[b] * P
                           <= ipMap'[b] + Cardinality(Penalising(b)') * P
      BY <2>1 DEF PenaltiesCounted
    <3>. DEFINE x == Cardinality(Penalising(b)) * P
                y == guesses[b] * P
    <3>1. admitted[b] + y <= ipMap[b] + x /\ x \in Int /\ y \in Int
      BY <1>0, <1>1, <1>2, GuessSets
    <3>2. CASE b = a
      <4>1. Cardinality(Penalising(b)') * P = x - P
        <5>1. /\ Cardinality(Penalising(b)') = Cardinality(Penalising(b)) - 1
              /\ Cardinality(Penalising(b)) \in Int
          <6>1. Penalising(b)' = Penalising(b) \ {t}
            BY <2>2, <3>2
          <6>. QED BY <2>3, <3>2, <6>1, GuessSets
        <5>. QED BY <1>0, <5>1, MultiplyNext
      <4>2. ipMap'[b] = ipMap[b] + P
        BY <1>0, <2>1, <3>2 DEF TypeOK
      <4>. HIDE DEF x, y
      <4>3. admitted[b] + y <= (ipMap[b] + P) + (x - P)
        BY <1>0, <1>1, <3>1
      <4>. QED BY <4>1, <4>2, <4>3 DEF y
    <3>3. CASE b # a
      BY <1>0, <2>1, <2>2, <3>1, <3>3 DEF TypeOK
    <3>. QED BY <3>2, <3>3
  <2>. QED BY <2>4, <2>5 DEF GInv
<1>11. CASE PeriodEnds \/ ClearAfterReload
  BY <1>11, GuessesCleared DEF PeriodEnds, ClearAfterReload
<1>12. CASE SwapSettings
  <2>1. \A a \in Addresses : inForce[a] \subseteq inForce'[a]
    BY <1>12 DEF SwapSettings
  <2>2. \A a \in Addresses : Penalising(a)' = Penalising(a) /\ MayGuess(a)' = MayGuess(a)
    BY <1>12 DEF SwapSettings, thread, Penalising, MayGuess
  <2>. QED BY <1>4, <1>12, <2>1, <2>2 DEF SwapSettings
<1>13. CASE UNCHANGED vars
  <2>1. \A a \in Addresses : Penalising(a)' = Penalising(a) /\ MayGuess(a)' = MayGuess(a)
    BY <1>13 DEF vars, thread, Penalising, MayGuess
  <2>. QED BY <1>4, <1>13, <2>1 DEF vars, history
<1>. QED
  BY <1>5, <1>7, <1>8, <1>9, <1>10, <1>11, <1>12, <1>13 DEF Next, ThreadStep

-----------------------------------------------------------------------------
\* The counts, limits and thread states keep their types, and no request is let
\* through uncounted.
THEOREM AdmissionTypeOK == Spec => []TypeOK
<1>1. IInv => TypeOK
  BY DEF IInv
<1>. QED BY <1>1, InitInv, NextInv, PTL DEF Spec

\* getAccess() lets an address through at most as often as a limit in force allows,
\* for any number of threads, addresses and settings files.
THEOREM AdmissionWithinLimit == Spec => []AdmittedWithinLimit
BY InitInv, NextInv, PTL DEF Spec

\* The penalty of addInvalidCredentialsPenalty(), though it is added only after the
\* backend has answered, bounds what an address can learn of unknown users, for any
\* number of threads, settings and penalty.
THEOREM AdmissionGuessesWithinLimit == Spec => []GuessesWithinLimit
<1>1. IInv /\ GInv => GuessesWithinLimit
  <2>. SUFFICES ASSUME IInv, GInv, NEW a \in Addresses, guesses[a] > Cardinality(Threads)
                PROVE  \E s \in inForce[a] :
                         (guesses[a] - Cardinality(Threads)) * invalidCredentialsPenalty
                           < s.absolute
    BY DEF GuessesWithinLimit
  <2>1. /\ guesses[a] \in Nat /\ Cardinality(MayGuess(a)) \in Nat
        /\ Cardinality(Threads) \in Nat /\ invalidCredentialsPenalty \in Nat
    BY GuessSets, PenaltyAssumption DEF IInv, TypeOK
  <2>2. PICK s \in inForce[a] :
          (Possible(a) - Cardinality(Threads)) * invalidCredentialsPenalty < s.absolute
    BY <2>1 DEF GInv, PossibleWithinLimit, WithinLimit, Possible
  <2>3. s.absolute \in Nat
    BY DEF IInv, TypeOK, Settings
  <2>. DEFINE x == (guesses[a] - Cardinality(Threads)) * invalidCredentialsPenalty
              y == (Possible(a) - Cardinality(Threads)) * invalidCredentialsPenalty
  <2>4. x \in Int /\ y \in Int /\ x <= y
    BY <2>1, MultiplyMonotone DEF Possible
  <2>. HIDE DEF x, y
  <2>5. x < s.absolute
    BY <2>2, <2>3, <2>4 DEF y
  <2>. QED BY <2>5 DEF x
<1>2. Init => IInv /\ AdmittedWithinLimit /\ GInv
  BY InitInv, GuessesInit
<1>3. IInv /\ AdmittedWithinLimit /\ GInv /\ [Next]_vars
        => (IInv /\ AdmittedWithinLimit /\ GInv)'
  BY NextInv, GuessesNext
<1>. QED BY <1>1, <1>2, <1>3, PTL DEF Spec
=============================================================================
