---------------------------- MODULE AdmissionControl ----------------------------
(***************************************************************************)
(* The admission control of httpd (AdmissionControlContainer) as the        *)
(* connection threads use it in processRequestAndReturnHttpStatus().        *)
(*                                                                         *)
(* getAccess() reads the limits under one mutex and counts under another,   *)
(* and a reload replaces the limits and clears the counts in two steps, so  *)
(* that a request may be judged by limits that are not in force any more.   *)
(***************************************************************************)
EXTENDS Naturals, FiniteSets

CONSTANTS
  Threads,                   \* connection threads
  Addresses,                 \* client addresses
  defaultSettings,           \* connectionLimitAbsolute and connectionLimitSlowDown
  CustomSettingsMaps,        \* what the settings file may hold
  invalidCredentialsPenalty,
  MaxCount                   \* bound of the model: counted attempts of an address

Settings == [absolute : Nat, slowDown : Nat]

ASSUME ThreadsAssumption  == IsFiniteSet(Threads)
ASSUME SettingsAssumption ==
  /\ defaultSettings \in Settings
  /\ \A file \in CustomSettingsMaps :
       DOMAIN file \subseteq Addresses /\ \A a \in DOMAIN file : file[a] \in Settings
  /\ CustomSettingsMaps # {}
ASSUME PenaltyAssumption  == invalidCredentialsPenalty \in Nat \ {0}

VARIABLES
  ipMap,               \* counted attempts; 0 stands for no entry too
  customSettingsMap,
  pc,                  \* where each thread is
  ip,                  \* the client address of its request
  settings,            \* the limits it read
  reloading,           \* limits are replaced, counts are not cleared yet
  \* history since the counts were cleared last
  admitted,            \* requests of each address let through
  guesses,             \* answers "unknown user" to each address
  inForce              \* limits of each address that a request could be judged by

thread  == <<pc, ip, settings>>
history == <<admitted, guesses, inForce>>
vars    == <<ipMap, customSettingsMap, thread, reloading, history>>

-----------------------------------------------------------------------------
ThreadState == {"idle", "counting", "slowed", "querying", "penalising"}

\* getSettingsForIp()
SettingsForIp(a) ==
  IF a \in DOMAIN customSettingsMap THEN customSettingsMap[a] ELSE defaultSettings

\* The limits that threads hold or can read now.
Held(a) == {settings[t] : t \in {u \in Threads : pc[u] = "counting" /\ ip[u] = a}}

Init ==
  /\ ipMap = [a \in Addresses |-> 0]
  /\ customSettingsMap \in CustomSettingsMaps
  /\ pc = [t \in Threads |-> "idle"]
  /\ ip \in [Threads -> Addresses]
  /\ settings = [t \in Threads |-> defaultSettings]
  /\ reloading = FALSE
  /\ admitted = [a \in Addresses |-> 0]
  /\ guesses = [a \in Addresses |-> 0]
  /\ inForce = [a \in Addresses |-> {SettingsForIp(a)}]

Goto(t, from, to) == pc[t] = from /\ pc' = [pc EXCEPT ![t] = to]

-----------------------------------------------------------------------------
(* processRequestAndReturnHttpStatus(), run by thread t *)

\* getAccess(): read the limits.
ReadSettings(t, a) ==
  /\ Goto(t, "idle", "counting")
  /\ ipMap[a] < MaxCount
  /\ ip' = [ip EXCEPT ![t] = a]
  /\ settings' = [settings EXCEPT ![t] = SettingsForIp(a)]
  /\ UNCHANGED <<ipMap, customSettingsMap, reloading, history>>

\* Mutated forms, each named for the mistake, precede what they mutate.
Blocked_OffByOne(attempts, limits) == attempts > limits.absolute + 1
Blocked(attempts, limits) == attempts > limits.absolute
SlowedDown(attempts, limits) == attempts > limits.slowDown

\* getAccess(): count, and compare with the limits read before.
CountAttempt(t) ==
  LET a == ip[t]
      attempts == ipMap[a] + 1
  IN  /\ ipMap' = [ipMap EXCEPT ![a] = attempts]
      /\ \/ /\ Blocked(attempts, settings[t])
            /\ Goto(t, "counting", "idle")
            /\ UNCHANGED admitted
         \/ /\ ~Blocked(attempts, settings[t])
            /\ Goto(t, "counting",
                    IF SlowedDown(attempts, settings[t]) THEN "slowed" ELSE "querying")
            /\ admitted' = [admitted EXCEPT ![a] = @ + 1]
      /\ UNCHANGED <<customSettingsMap, ip, settings, reloading, guesses, inForce>>

\* The end of usleep().
SleepEnds(t) ==
  /\ Goto(t, "slowed", "querying")
  /\ UNCHANGED <<ipMap, customSettingsMap, ip, settings, reloading, history>>

\* backendQuery() returns any result but RES_UNKNOWN_USER ...
AnswerKnown(t) ==
  /\ Goto(t, "querying", "idle")
  /\ UNCHANGED <<ipMap, customSettingsMap, ip, settings, reloading, history>>

\* ... or that one.
AnswerUnknownUser(t) ==
  /\ Goto(t, "querying", "penalising")
  /\ guesses' = [guesses EXCEPT ![ip[t]] = @ + 1]
  /\ UNCHANGED <<ipMap, customSettingsMap, ip, settings, reloading, admitted, inForce>>

Penalised_Assigned(count) == invalidCredentialsPenalty
Penalised(count) == count + invalidCredentialsPenalty

\* addInvalidCredentialsPenalty()
AddPenalty(t) ==
  /\ Goto(t, "penalising", "idle")
  /\ ipMap' = [ipMap EXCEPT ![ip[t]] = Penalised(@)]
  /\ UNCHANGED <<customSettingsMap, ip, settings, reloading, history>>

-----------------------------------------------------------------------------
(* The map clearing thread and the management thread *)

\* ipMap.clear(); limits that a request has already read stay in use.
ClearIpMap ==
  /\ ipMap' = [a \in Addresses |-> 0]
  /\ admitted' = [a \in Addresses |-> 0]
  /\ guesses' = [a \in Addresses |-> 0]
  /\ inForce' = [a \in Addresses |-> {SettingsForIp(a)} \cup Held(a)]

\* mapClearLoop(), each admissionControlPeriod.
PeriodEnds ==
  /\ ClearIpMap
  /\ UNCHANGED <<customSettingsMap, thread, reloading>>

\* reloadCustomSettingsFile(): a file that cannot be parsed changes nothing.
SwapSettings ==
  /\ ~reloading
  /\ reloading' = TRUE
  /\ customSettingsMap' \in CustomSettingsMaps
  /\ inForce' = [a \in Addresses |-> inForce[a] \cup {SettingsForIp(a)'}]
  /\ UNCHANGED <<ipMap, thread, admitted, guesses>>

ClearAfterReload ==
  /\ reloading
  /\ reloading' = FALSE
  /\ ClearIpMap
  /\ UNCHANGED <<customSettingsMap, thread>>

-----------------------------------------------------------------------------
ThreadStep(t) ==
  \/ \E a \in Addresses : ReadSettings(t, a)
  \/ CountAttempt(t) \/ SleepEnds(t) \/ AnswerKnown(t) \/ AnswerUnknownUser(t)
  \/ AddPenalty(t)

Next ==
  \/ \E t \in Threads : ThreadStep(t)
  \/ PeriodEnds \/ SwapSettings \/ ClearAfterReload

Spec == Init /\ [][Next]_vars

-----------------------------------------------------------------------------
(* Properties *)

\* Every request that was let through has been counted.
TypeOK ==
  /\ ipMap \in [Addresses -> Nat] /\ \A a \in Addresses : ipMap[a] >= admitted[a]
  /\ customSettingsMap \in CustomSettingsMaps
  /\ pc \in [Threads -> ThreadState]
  /\ ip \in [Threads -> Addresses]
  /\ settings \in [Threads -> Settings]
  /\ reloading \in BOOLEAN
  /\ admitted \in [Addresses -> Nat] /\ guesses \in [Addresses -> Nat]
  /\ inForce \in [Addresses -> SUBSET Settings]

\* However requests, reloads and the end of the period interleave, between two
\* clearings an address is let through at most as often as some absolute limit
\* allows that was in force, or read by a request under way, meanwhile.
AdmittedWithinLimit ==
  \A a \in Addresses : \E s \in inForce[a] : admitted[a] <= s.absolute

\* The penalty limits guessing of user ids: between two clearings an address
\* learns of unknown users as often as the limit divided by the penalty, and once
\* more for each request that is under way at the same time.
GuessesWithinLimit ==
  \A a \in Addresses :
    guesses[a] > Cardinality(Threads) =>
      \E s \in inForce[a] :
        (guesses[a] - Cardinality(Threads)) * invalidCredentialsPenalty < s.absolute
=============================================================================
