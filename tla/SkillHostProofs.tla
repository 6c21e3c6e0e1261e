-------------------------- MODULE SkillHostProofs --------------------------
(***************************************************************************)
(* Theorems about installed skills and running guests, for any names,      *)
(* installs, calls and tries.                                              *)
(***************************************************************************)
EXTENDS SkillHost, TLAPS

Execs == [st : {"none", "queued", "running", "hosted"} \cup Ended,
          version : Versions, left : Nat, late : BOOLEAN]
CallStates == [pc : Busy \cup {"new", "over"}, version : Versions, try : Nat]

\* A call that is to try has a try left, and one that waits has made one.
TriesLeft ==
  \A c \in Calls : /\ call[c].pc = "try" => call[c].try < Attempts(c)
                   /\ call[c].pc = "waiting" => call[c].try > 0

\* A guest at its deadline has seen a timer of its version fire.
DueIsLate ==
  \A e \in Tries :
    /\ exec[e].version = Native \/ exec[e].left > 0 \/ exec[e].late
         \/ exec[e].st \notin {"running", "hosted"}
    /\ exec[e].st = "cut" => exec[e].late

HostInv == TypeOK /\ TriesLeft /\ DueIsLate

LEMMA TryFacts ==
  ASSUME NEW c \in Calls, NEW n \in 1 .. Attempts(c)
  PROVE  <<c, n>> \in Tries
BY DEF Tries

LEMMA SomeName == (CHOOSE n \in Names : TRUE) \in Names
BY NamesAssumption

LEMMA HostInitially == Init => HostInv
BY SomeName, NamesAssumption, BoundsAssumption
   DEF Init, HostInv, TypeOK, TriesLeft, DueIsLate, NoCall, NoExec, Versions, Busy, Ended

-----------------------------------------------------------------------------
LEMMA InstallKeeps ==
  ASSUME HostInv, NEW i \in Installers, InstallStep(i)
  PROVE  HostInv'
<1>1. TypeOK'
  BY SomeName, NamesAssumption, SMTT(30)
     DEF HostInv, TypeOK, InstallStep, Compile, StoreSkill, Register, Disconnect, Finished, Versions
<1>2. UNCHANGED <<call, exec>>
  BY DEF InstallStep, Compile, StoreSkill, Register, Disconnect
<1> QED BY <1>1, <1>2 DEF HostInv, TriesLeft, DueIsLate

\* A guest that stops was at its deadline if it was cut, and so had been made late.
LEMMA StoppedKeeps ==
  ASSUME HostInv, NEW e \in Tries, NEW how \in Ended, Stopped(e, how),
         how = "cut" => exec[e].late
  PROVE  DueIsLate' /\ exec' \in [Tries -> Execs]
BY DEF HostInv, TypeOK, DueIsLate, Stopped, NoExec, Versions, Ended, Execs

LEMMA ExecKeeps ==
  ASSUME HostInv, NEW e \in Tries, ExecStep(e)
  PROVE  HostInv'
<1>0. UNCHANGED <<registry, store, install, call, crashes, stale>>
  BY DEF ExecStep, Start, AskHost, HostAnswers, End, Cut
<1>1. DueIsLate' /\ exec' \in [Tries -> Execs]
  <2>1. CASE Start(e)
    <3>1. exec[e] \in Execs /\ [exec[e] EXCEPT !.st = "running", !.left = 1] \in Execs
      BY ZenonT(30) DEF HostInv, TypeOK, Execs
    <3>2. exec' = [exec EXCEPT ![e] = [exec[e] EXCEPT !.st = "running", !.left = 1]]
      BY <2>1, <3>1 DEF Start, Deadline, HostInv, TypeOK, Execs
    <3> QED BY <3>1, <3>2 DEF HostInv, TypeOK, DueIsLate, Execs
  <2>2. CASE \E how \in {"retryable", "final"} : Stopped(e, how)
    BY <2>2, StoppedKeeps DEF Ended
  <2>3. CASE exec[e].st \in {"running", "hosted"}
             /\ \E there \in {"running", "hosted"} : exec' = [exec EXCEPT ![e].st = there]
    BY <2>3 DEF HostInv, TypeOK, DueIsLate, Ended, Execs
  <2>4. CASE Cut(e)
    <3>1. exec[e].late
      BY <2>4, VersionsAssumption DEF Cut, HostInv, DueIsLate
    <3> QED BY <2>4, <3>1, StoppedKeeps DEF Cut, Ended
  <2> QED
    BY <2>1, <2>2, <2>3, <2>4 DEF ExecStep, AskHost, HostAnswers, End
<1> QED BY <1>0, <1>1 DEF HostInv, TypeOK, TriesLeft, Installing, Execs

-----------------------------------------------------------------------------
\* An answered call pauses only if it has a try left.
LEMMA AnsweredKeeps ==
  ASSUME HostInv, NEW c \in Calls, NEW how, Answered(c, how)
  PROVE  /\ TriesLeft' /\ \A d \in Calls : call'[d].try <= Attempts(d)
         /\ call' \in [Calls -> CallStates]
BY BoundsAssumption
   DEF HostInv, TypeOK, TriesLeft, Answered, Over, NoCall, Busy, Versions, CallStates

LEMMA TickKeeps ==
  ASSUME HostInv, NEW v, Tick(v)
  PROVE  DueIsLate' /\ exec' \in [Tries -> Execs]
<1>1. exec \in [Tries -> Execs]
  BY DEF HostInv, TypeOK, Execs
<1>2. ASSUME NEW e \in Tries PROVE exec'[e] \in Execs
  <2> DEFINE less == IF exec[e].left = 0 THEN 0 ELSE exec[e].left - 1
  <2>1. exec[e] \in Execs /\ exec[e].left \in Nat
    BY <1>1 DEF Execs
  <2>2. less \in Nat
    BY <2>1
  <2> HIDE DEF less
  <2>3. [exec[e] EXCEPT !.left = less, !.late = TRUE] \in Execs
    BY <2>1, <2>2 DEF Execs
  <2>4. exec'[e] \in {exec[e], [exec[e] EXCEPT !.left = less, !.late = TRUE]}
    BY DEF Tick, less
  <2> QED BY <2>1, <2>3, <2>4
<1>3. exec' \in [Tries -> Execs]
  BY <1>2 DEF Tick
<1>4. \A e \in Tries : \/ exec'[e] = exec[e]
                       \/ /\ exec[e].st \in {"running", "hosted"} /\ exec'[e].late
                          /\ exec'[e].st = exec[e].st
  BY <1>1 DEF Tick, Execs
<1> QED BY <1>1, <1>3, <1>4 DEF HostInv, DueIsLate

LEMMA WaitingTry ==
  ASSUME HostInv, NEW c \in Calls, call[c].pc = "waiting"
  PROVE  Try(c) \in Tries
<1>1. call[c].try \in 1 .. Attempts(c)
  BY BoundsAssumption DEF HostInv, TypeOK, TriesLeft
<1> QED BY <1>1, TryFacts DEF Try

LEMMA CallKeeps ==
  ASSUME HostInv, NEW c \in Calls, CallStep(c)
  PROVE  HostInv'
<1>1. CASE LookUp(c)
  <2>1. \A n \in Asked(c) : registry[n] \in Versions
    BY NamesAssumption DEF HostInv, TypeOK
  <2>2. /\ TriesLeft' /\ \A d \in Calls : call'[d].try <= Attempts(d)
        /\ call' \in [Calls -> CallStates]
    <3> PICK n \in Asked(c) :
          call' = [call EXCEPT ![c] = IF registry[n] = Absent
                                      THEN Over
                                      ELSE [NoCall EXCEPT !.pc = "try", !.version = registry[n]]]
      BY <1>1 DEF LookUp
    <3> DEFINE s == IF registry[n] = Absent THEN Over
                    ELSE [NoCall EXCEPT !.pc = "try", !.version = registry[n]]
    <3>1. s \in CallStates /\ s.try = 0 /\ s.pc # "waiting"
      BY <2>1 DEF CallStates, Over, NoCall, Busy, Versions
    <3>2. call' = [call EXCEPT ![c] = s] /\ call \in [Calls -> CallStates]
      BY DEF HostInv, TypeOK, CallStates
    <3> HIDE DEF s
    <3>3. call' \in [Calls -> CallStates]
      BY <3>1, <3>2
    <3>4. call'[c].try = 0 /\ call'[c].pc # "waiting"
      BY <3>1, <3>2
    <3>5. ASSUME NEW d \in Calls, d # c
          PROVE  /\ call'[d].pc = "try" => call'[d].try < Attempts(d)
                 /\ call'[d].pc = "waiting" => call'[d].try > 0
                 /\ call'[d].try <= Attempts(d)
      <4>1. call'[d] = call[d]
        BY <3>2, <3>5
      <4> QED BY <4>1 DEF HostInv, TypeOK, TriesLeft
    <3>6. 0 < Attempts(c) /\ 0 <= Attempts(c)
      BY BoundsAssumption
    <3> QED BY <3>3, <3>4, <3>5, <3>6 DEF TriesLeft
  <2> QED BY <1>1, <2>2 DEF LookUp, HostInv, TypeOK, DueIsLate, CallStates
<1>2. CASE Begin(c)
  <2> DEFINE e == <<c, call[c].try + 1>>
  <2>1. e \in Tries /\ call[c].try + 1 <= Attempts(c) /\ call[c].version \in Versions
    <3>1. call[c].try + 1 \in 1 .. Attempts(c)
      BY <1>2, BoundsAssumption DEF Begin, HostInv, TypeOK, TriesLeft
    <3> QED BY <3>1, TryFacts DEF HostInv, TypeOK
  <2>2. /\ TriesLeft' /\ \A d \in Calls : call'[d].try <= Attempts(d)
        /\ call' \in [Calls -> CallStates]
    BY <1>2, <2>1 DEF Begin, HostInv, TypeOK, TriesLeft, Busy, CallStates
  <2>3. DueIsLate' /\ exec' \in [Tries -> Execs]
    BY <1>2, <2>1 DEF Begin, HostInv, TypeOK, DueIsLate, NoExec, Ended, Execs
  <2> QED BY <1>2, <2>2, <2>3 DEF Begin, HostInv, TypeOK, Execs, CallStates
<1>3. CASE TimeOut(c)
  <2>1. DueIsLate' /\ exec' \in [Tries -> Execs]
    <3>1. CASE Tick(call[c].version)
      BY <3>1, TickKeeps
    <3>2. CASE UNCHANGED exec
      BY <3>2 DEF HostInv, TypeOK, DueIsLate, Execs
    <3>3. CASE Stopped(Try(c), "retryable")
      BY <1>3, <3>3, WaitingTry, StoppedKeeps DEF TimeOut, Ended
    <3> QED BY <1>3, <3>1, <3>2, <3>3 DEF TimeOut
  <2> QED BY <1>3, <2>1, AnsweredKeeps DEF TimeOut, HostInv, TypeOK, Execs, CallStates
<1>4. CASE Answer(c)
  BY <1>4, AnsweredKeeps DEF Answer, HostInv, TypeOK, DueIsLate, CallStates
<1>5. CASE Drop(c)
  BY <1>5, BoundsAssumption
     DEF Drop, HostInv, TypeOK, TriesLeft, DueIsLate, Over, NoCall, Busy, Versions
<1> QED BY <1>1, <1>2, <1>3, <1>4, <1>5 DEF CallStep

LEMMA CrashKeeps == ASSUME HostInv, CrashAndRestart PROVE HostInv'
<1>1. TypeOK'
  BY SomeName, NamesAssumption, BoundsAssumption
     DEF CrashAndRestart, Reloaded, HostInv, TypeOK, Finished, Over, NoCall, NoExec, Versions,
         Busy, Ended
<1>2. TriesLeft' /\ DueIsLate'
  BY DEF CrashAndRestart, HostInv, TypeOK, TriesLeft, DueIsLate, Over, NoCall, NoExec, Busy
<1> QED BY <1>1, <1>2 DEF HostInv

LEMMA HostInductive == HostInv /\ [Next]_vars => HostInv'
<1> SUFFICES ASSUME HostInv, [Next]_vars PROVE HostInv'
  OBVIOUS
<1>1. CASE UNCHANGED vars
  BY <1>1 DEF vars, HostInv, TypeOK, TriesLeft, DueIsLate
<1> QED
  BY <1>1, CallKeeps, ExecKeeps, InstallKeeps, CrashKeeps DEF Next

-----------------------------------------------------------------------------
\* The registry, the store, the calls and their executions keep their types, and no
\* call makes more tries than it may (run_prepared_call).
THEOREM TypeCorrect == Spec => []TypeOK
<1>1. HostInv => TypeOK
  BY DEF HostInv
<1> QED BY <1>1, HostInitially, HostInductive, PTL DEF Spec

\* A guest is trapped by its deadline only after a timer of its own version has fired
\* since it started, for any number of versions, calls and tries that share an epoch.
THEOREM CutOffsDue == Spec => []CutOffOnlyByTimeout
<1>1. HostInv => CutOffOnlyByTimeout
  BY DEF HostInv, DueIsLate, CutOffOnlyByTimeout
<1> QED BY <1>1, HostInitially, HostInductive, PTL DEF Spec

-----------------------------------------------------------------------------
(* The registry and the store. *)

Matches(n) == registry[n] = store[n] \/ (n \in Natives /\ registry[n] = Native)

\* Unless its name is marked stale, an install is the only one of its name; until it
\* has written its row the registry matches the store, and then the row is its own.
Tracked ==
  \A n \in Names : n \notin stale =>
    /\ \A i, j \in Installing(n) : i = j
    /\ \A i \in Installing(n) : install[i].pc = "register" => store[n] = i
    /\ (\A i \in Installing(n) : install[i].pc = "store") => Matches(n)

LEMMA TrackedInitially == Init => Tracked
BY DEF Init, Tracked, Installing, Matches

LEMMA InstallTracked ==
  ASSUME HostInv, Tracked, NEW i \in Installers, InstallStep(i)
  PROVE  Tracked'
<1> SUFFICES ASSUME NEW n \in Names, n \notin stale'
             PROVE  /\ \A a, b \in Installing(n)' : a = b
                    /\ \A a \in Installing(n)' : install'[a].pc = "register" => store'[n] = a
                    /\ (\A a \in Installing(n)' : install'[a].pc = "store") => Matches(n)'
  BY DEF Tracked
<1>1. CASE Compile(i)
  <2>1. PICK m \in Named(i) : /\ install' = [install EXCEPT ![i] = [pc |-> "store", name |-> m]]
                              /\ stale' = IF Installing(m) = {} THEN stale ELSE stale \cup {m}
    BY <1>1 DEF Compile
  <2>2. n \notin stale /\ UNCHANGED <<registry, store>>
    BY <1>1, <2>1 DEF Compile
  <2>3. CASE m = n
    <3>1. Installing(n) = {} /\ Installing(n)' = {i}
      BY <2>1, <2>3, <1>1 DEF Installing, HostInv, TypeOK, Compile
    <3> QED BY <2>1, <2>2, <3>1 DEF Tracked, Matches, HostInv, TypeOK
  <2>4. CASE m # n
    <3>1. Installing(n)' = Installing(n) /\ \A a \in Installing(n) : install'[a] = install[a]
      BY <2>1, <2>4, <1>1 DEF Installing, HostInv, TypeOK, Compile
    <3> QED BY <2>2, <3>1 DEF Tracked, Matches
  <2> QED BY <2>3, <2>4
<1>2. CASE StoreSkill(i) \/ Disconnect(i)
  <2>1. n \notin stale /\ registry' = registry /\ install[i].pc = "store"
    BY <1>2 DEF StoreSkill, Disconnect
  <2>2. \A j \in Installers : j # i => install'[j] = install[j]
    BY <1>2 DEF StoreSkill, Disconnect, HostInv, TypeOK
  <2>3. CASE install[i].name = n
    <3>1. Installing(n) = {i}
      BY <2>1, <2>3 DEF Tracked, Installing
    <3>2. Matches(n)
      BY <2>1, <3>1 DEF Tracked
    <3>3. \/ /\ Installing(n)' = {} /\ store' = store
          \/ /\ Installing(n)' = {i} /\ install'[i].pc = "register" /\ store'[n] = i
      BY <1>2, <2>1, <2>2, <2>3, <3>1
         DEF StoreSkill, Disconnect, Installing, Finished, HostInv, TypeOK
    <3> QED BY <2>1, <3>2, <3>3 DEF Matches
  <2>4. CASE install[i].name # n
    <3>1. store'[n] = store[n] /\ Installing(n)' = Installing(n)
      BY <1>2, <2>2, <2>4 DEF StoreSkill, Disconnect, Installing, Finished, HostInv, TypeOK
    <3>2. \A a \in Installing(n) : install'[a] = install[a]
      BY <2>2, <2>4 DEF Installing
    <3> QED BY <2>1, <3>1, <3>2 DEF Tracked, Matches
  <2> QED BY <2>3, <2>4
<1>3. CASE Register(i)
  <2>1. /\ install[i].pc = "register" /\ store' = store
        /\ registry' = [registry EXCEPT ![install[i].name] = i]
        /\ \A j \in Installers : j # i => install'[j] = install[j]
        /\ install'[i].pc = "ended" /\ install[i].name \in Names
    BY <1>3 DEF Register, Finished, HostInv, TypeOK
  <2>2. CASE install[i].name = n
    <3>1. Installing(n) = {i} /\ store[n] = i
      <4>1. CASE n \in stale
        BY <1>3, <2>2, <4>1 DEF Register
      <4>2. CASE n \notin stale
        BY <2>1, <2>2, <4>2 DEF Tracked, Installing
      <4> QED BY <4>1, <4>2
    <3>2. Installing(n)' = {} /\ registry'[n] = i
      BY <2>1, <2>2, <3>1 DEF Installing, HostInv, TypeOK
    <3> QED BY <2>1, <3>1, <3>2 DEF Matches
  <2>3. CASE install[i].name # n
    <3>1. n \notin stale /\ registry'[n] = registry[n]
      BY <1>3, <2>1, <2>3 DEF Register, HostInv, TypeOK
    <3>2. Installing(n)' = Installing(n) /\ \A a \in Installing(n) : install'[a] = install[a]
      BY <2>1, <2>3 DEF Installing
    <3> QED BY <2>1, <3>1, <3>2 DEF Tracked, Matches
  <2> QED BY <2>2, <2>3
<1> QED BY <1>1, <1>2, <1>3 DEF InstallStep

LEMMA CrashTracked == ASSUME HostInv, CrashAndRestart PROVE Tracked'
<1>1. \A n \in Names : Installing(n)' = {}
  BY DEF CrashAndRestart, Installing, Finished, HostInv, TypeOK
<1>2. \A n \in Names : n \notin stale' => Matches(n)'
  BY DEF CrashAndRestart, Reloaded, Matches, HostInv, TypeOK
<1> QED BY <1>1, <1>2 DEF Tracked

\* What a process serves is what it would serve again after a restart, unless an
\* install is under way or a fault or an overlap left its mark on the name, for any
\* number of installs, names and crashes.
THEOREM RegistryFollowsStore == Spec => []StoredIsServed
<1>1. ASSUME HostInv, Tracked, [Next]_vars PROVE Tracked'
  <2>1. CASE UNCHANGED <<registry, store, install, stale>>
    BY <1>1, <2>1 DEF Tracked, Installing, Matches
  <2>2. CASE \E i \in Installers : InstallStep(i)
    BY <1>1, <2>2, InstallTracked
  <2>3. CASE CrashAndRestart
    BY <1>1, <2>3, CrashTracked
  <2> QED
    BY <1>1, <2>1, <2>2, <2>3
       DEF Next, vars, CallStep, LookUp, Begin, TimeOut, Answer, Drop,
           ExecStep, Start, AskHost, HostAnswers, End, Cut
<1>2. Tracked => StoredIsServed
  BY DEF Tracked, StoredIsServed, Matches
<1> QED
  BY <1>1, <1>2, HostInitially, HostInductive, TrackedInitially, PTL DEF Spec
=============================================================================
