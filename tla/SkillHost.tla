----------------------------- MODULE SkillHost -----------------------------
(***************************************************************************)
(* How skills are installed, and how a call of one runs: the registry and  *)
(* the skill store (rain-engine-core/src/engine.rs, skill_store.rs,        *)
(* rain-engine-store-sqlite, rain-engine-runtime), the tries of a call,    *)
(* and the WASM host with its timer, its epoch and its capabilities        *)
(* (rain-engine-wasm/src/lib.rs).  Several advances make calls at once,    *)
(* installs arrive by HTTP or from the installer skill, and the process    *)
(* may crash.                                                              *)
(***************************************************************************)
EXTENDS Naturals, FiniteSets

CONSTANTS
  Names,        \* skill names
  Natives,      \* those the runtime registers itself when it starts
  Calls,        \* tool calls, each made once
  Installers,   \* install requests, each made once
  Named(_),     \* the names an install may be of
  Capabilities, \* what a guest may ask the host for
  Grants(_),    \* the capabilities granted to each version
  Asked(_),     \* the names a call may be for
  Attempts(_),  \* the tries a call may make: the least of three policies' limits
  MaxCrashes    \* bound: crashes of the process

\* A version of a skill is the installer that brought it; Native and Absent are none.
Native == "native"
Absent == "absent"

ASSUME NamesAssumption == /\ Names # {} /\ Natives \subseteq Names
                          /\ \A i \in Installers : Named(i) \subseteq Names
                          /\ \A c \in Calls : Asked(c) \subseteq Names
ASSUME VersionsAssumption == Native \notin Installers /\ Absent \notin Installers
ASSUME BoundsAssumption == MaxCrashes \in Nat /\ \A c \in Calls : Attempts(c) \in Nat \ {0}

Versions == Installers \cup {Native, Absent}
Tries == UNION {{c} \X (1 .. Attempts(c)) : c \in Calls}

VARIABLES
  registry,  \* the engine's skills, by name
  store,     \* the skill store, by name
  install,   \* the install requests
  call,      \* the calls: run_prepared_call tasks
  exec,      \* the execution each try started
  crashes,
  stale      \* history: names whose entry and row were last written by a fault or a race

vars == <<registry, store, install, call, exec, crashes, stale>>

\* st, the version it runs, the epochs left to its deadline, and as history whether a
\* timer of its version has fired since it started.
NoExec == [st |-> "none", version |-> Absent, left |-> 0, late |-> FALSE]
NoCall == [pc |-> "new", version |-> Absent, try |-> 0]
Over == [NoCall EXCEPT !.pc = "over"]

Init == /\ registry = [n \in Names |-> IF n \in Natives THEN Native ELSE Absent]
        /\ store = [n \in Names |-> Absent]
        /\ install = [i \in Installers |-> [pc |-> "new", name |-> CHOOSE n \in Names : TRUE]]
        /\ call = [c \in Calls |-> NoCall]
        /\ exec = [e \in Tries |-> NoExec]
        /\ crashes = 0
        /\ stale = {}

-----------------------------------------------------------------------------
(* Installing: handle_install_skill and SkillInstallerSkill, from the      *)
(* moment the bytes are there and an executor could be made of them.       *)

Finished == [pc |-> "ended", name |-> CHOOSE n \in Names : TRUE]
Installing(n) == {i \in Installers : install[i].name = n /\ install[i].pc \in {"store", "register"}}

\* An executor is made of the bytes (an install without one has no effect).
Compile(i) ==
  /\ install[i].pc = "new"
  /\ \E n \in Named(i) :
       /\ install' = [install EXCEPT ![i] = [pc |-> "store", name |-> n]]
       /\ stale' = IF Installing(n) = {} THEN stale ELSE stale \cup {n}
  /\ UNCHANGED <<registry, store, call, exec, crashes>>

\* Mutant of StoreSkill: the skill is registered first, whatever the store says.
StoreAfterRegistering(i) ==
  /\ install[i].pc = "store"
  /\ registry' = [registry EXCEPT ![install[i].name] = i]
  /\ \/ /\ store' = [store EXCEPT ![install[i].name] = i]
        /\ install' = [install EXCEPT ![i].pc = "register"]
     \/ /\ install' = [install EXCEPT ![i] = Finished]
        /\ UNCHANGED store
  /\ UNCHANGED <<call, exec, crashes, stale>>

\* The row is written, or the store fails and nothing is registered.
StoreSkill(i) ==
  /\ install[i].pc = "store"
  /\ \/ /\ store' = [store EXCEPT ![install[i].name] = i]
        /\ install' = [install EXCEPT ![i].pc = "register"]
     \/ /\ install' = [install EXCEPT ![i] = Finished]
        /\ UNCHANGED store
  /\ UNCHANGED <<registry, call, exec, crashes, stale>>

\* register_wasm_skill: the entry is replaced, be it a native's; calls prepared
\* before keep the executor they have.
Register(i) ==
  /\ install[i].pc = "register"
  /\ registry' = [registry EXCEPT ![install[i].name] = i]
  /\ install' = [install EXCEPT ![i] = Finished]
  /\ stale' = IF Installing(install[i].name) = {i} /\ store[install[i].name] = i
              THEN stale \ {install[i].name} ELSE stale
  /\ UNCHANGED <<store, call, exec, crashes>>

\* The client of an install is gone: its handler is dropped while it waits for
\* the store, which may have written the row.
Disconnect(i) ==
  /\ install[i].pc = "store"
  /\ \/ UNCHANGED <<store, stale>>
     \/ /\ store' = [store EXCEPT ![install[i].name] = i]
        /\ stale' = stale \cup {install[i].name}
  /\ install' = [install EXCEPT ![i] = Finished]
  /\ UNCHANGED <<registry, call, exec, crashes>>

-----------------------------------------------------------------------------
(* A call: prepare_node's look-up, then run_prepared_call. *)

Busy == {"try", "waiting"}
Try(c) == <<c, call[c].try>>
\* How an execution ends: with an error that is tried again (Timeout, Internal, Trap:
\* is_retryable_skill_error), with a value or an error that is not, cut by the epoch.
Ended == {"retryable", "final", "cut"}

\* The skill is looked up by name, and the call keeps what it found.
LookUp(c) ==
  /\ call[c].pc = "new"
  /\ \E n \in Asked(c) :
       call' = [call EXCEPT ![c] = IF registry[n] = Absent
                                   THEN Over
                                   ELSE [NoCall EXCEPT !.pc = "try", !.version = registry[n]]]
  /\ UNCHANGED <<registry, store, install, exec, crashes, stale>>

\* One try.  A guest is queued for a blocking thread and its timer set; a native
\* skill runs at once, or refuses (shell_exec off its allowlist, missing argument).
Begin(c) ==
  /\ call[c].pc = "try"
  /\ call' = [call EXCEPT ![c].pc = "waiting", ![c].try = @ + 1]
  /\ exec' = [exec EXCEPT ![<<c, call[c].try + 1>>] =
                [NoExec EXCEPT !.version = call[c].version,
                               !.st = IF call[c].version = Native THEN "running" ELSE "queued"]]
  /\ UNCHANGED <<registry, store, install, crashes, stale>>

\* What a try came to: after an error of that kind the call pauses, then tries again.
Answered(c, how) ==
  call' = [call EXCEPT ![c] = IF how \in {"retryable", "cut"} /\ call[c].try < Attempts(c)
                              THEN [@ EXCEPT !.pc = "try"] ELSE Over]

\* The execution is done.
Stopped(e, how) ==
  exec' = [exec EXCEPT ![e] =
             [NoExec EXCEPT !.st = how, !.late = (how = "cut" /\ exec[e].late)]]

\* increment_epoch of a version, seen by all its guests.
Tick(v) ==
  exec' = [e \in Tries |->
             IF exec[e].version = v /\ exec[e].st \in {"running", "hosted"}
             THEN [exec[e] EXCEPT !.left = IF @ = 0 THEN 0 ELSE @ - 1, !.late = TRUE]
             ELSE exec[e]]

\* Mutants of TimeOut: without the timer, and without increment_epoch.
NoTimer(c) == FALSE /\ UNCHANGED vars
NoEpoch(c) ==
  /\ call[c].pc = "waiting" /\ exec[Try(c)].st \notin Ended
  /\ exec' = [exec EXCEPT ![Try(c)].late = (exec[Try(c)].st \in {"running", "hosted"})]
  /\ Answered(c, "retryable")
  /\ UNCHANGED <<registry, store, install, crashes, stale>>

\* The timer fires before the execution has ended.  A guest's moves the epoch of
\* its version; the execution itself goes on, as does a child of shell_exec,
\* while other native skills end with the future that is dropped.
TimeOut(c) ==
  /\ call[c].pc = "waiting" /\ exec[Try(c)].st \notin Ended
  /\ \/ call[c].version # Native /\ Tick(call[c].version)
     \/ call[c].version = Native /\ UNCHANGED exec
     \/ call[c].version = Native /\ Stopped(Try(c), "retryable")
  /\ Answered(c, "retryable")
  /\ UNCHANGED <<registry, store, install, crashes, stale>>

\* The execution's own end is taken.
Answer(c) ==
  /\ call[c].pc = "waiting" /\ exec[Try(c)].st \in Ended
  /\ Answered(c, exec[Try(c)].st)
  /\ UNCHANGED <<registry, store, install, exec, crashes, stale>>

\* The advance is dropped and its JoinSet with it: the timer is gone, what a
\* guest or a child does is not.
Drop(c) ==
  /\ call[c].pc \in Busy
  /\ call' = [call EXCEPT ![c] = Over]
  /\ UNCHANGED <<registry, store, install, exec, crashes, stale>>

-----------------------------------------------------------------------------
(* The executions: execute_blocking on a blocking thread, and the natives. *)

\* Mutant of Deadline: the current epoch.
DeadlineNow == 0

\* set_epoch_deadline(1): an execution that starts may see no further epoch.
Deadline == 1

\* A thread takes it, builds a wasmtime store and instantiates the module; one that
\* cannot be set up is an End right away.
Start(e) ==
  /\ exec[e].st = "queued"
  /\ exec' = [exec EXCEPT ![e].st = "running", ![e].left = Deadline]
  /\ UNCHANGED <<registry, store, install, call, crashes, stale>>

\* The guest asks its host.  Granted, the host is called, which the epoch cannot
\* interrupt; refused, the guest is told so and goes on, but a refused log traps
\* (ensure_capability, register_capabilities).
AskHost(e) ==
  /\ exec[e].st = "running" /\ exec[e].version \in Installers
  /\ \E cap \in Capabilities :
       \/ cap \in Grants(exec[e].version) /\ exec' = [exec EXCEPT ![e].st = "hosted"]
       \/ /\ cap \notin Grants(exec[e].version) /\ cap = "log"
          /\ \E how \in {"retryable", "final"} : Stopped(e, how)
  /\ UNCHANGED <<registry, store, install, call, crashes, stale>>

\* The host answers, or fails and the guest traps.
HostAnswers(e) ==
  /\ exec[e].st = "hosted"
  /\ \/ exec' = [exec EXCEPT ![e].st = "running"]
     \/ \E how \in {"retryable", "final"} : Stopped(e, how)
  /\ UNCHANGED <<registry, store, install, call, crashes, stale>>

\* The guest returns a value or an error, traps, or is out of fuel or memory: also
\* past its deadline, when it has no loop or call ahead of it.
End(e) ==
  /\ exec[e].st = "running"
  /\ \E how \in {"retryable", "final"} : Stopped(e, how)
  /\ UNCHANGED <<registry, store, install, call, crashes, stale>>

\* The guest finds its deadline reached, and traps.
Cut(e) ==
  /\ exec[e].st = "running" /\ exec[e].version \in Installers
  /\ exec[e].left = 0
  /\ Stopped(e, "cut")
  /\ UNCHANGED <<registry, store, install, call, crashes, stale>>

-----------------------------------------------------------------------------
(* The process. *)

\* What is stored is registered, as far as it can be read and compiled; then the
\* runtime's own skills are, over whatever has their name.
Reloaded(n, unread) == IF n \in Natives THEN Native
                       ELSE IF n \in unread THEN Absent ELSE store[n]

CrashAndRestart ==
  /\ crashes < MaxCrashes
  /\ crashes' = crashes + 1
  /\ \E unread \in SUBSET (Names \ Natives) :
       /\ registry' = [n \in Names |-> Reloaded(n, unread)]
       /\ stale' = {n \in unread : store[n] # Absent}
  /\ install' = [i \in Installers |-> IF install[i].pc \in {"store", "register"}
                                      THEN Finished ELSE install[i]]
  /\ call' = [c \in Calls |-> IF call[c].pc \in Busy
                              THEN Over ELSE call[c]]
  /\ exec' = [e \in Tries |-> NoExec]
  /\ UNCHANGED store

CallStep(c) == LookUp(c) \/ Begin(c) \/ TimeOut(c) \/ Answer(c) \/ Drop(c)
ExecStep(e) == Start(e) \/ AskHost(e) \/ HostAnswers(e) \/ End(e) \/ Cut(e)
InstallStep(i) == Compile(i) \/ StoreSkill(i) \/ Register(i) \/ Disconnect(i)

Next == \/ \E c \in Calls : CallStep(c)
        \/ \E e \in Tries : ExecStep(e)
        \/ \E i \in Installers : InstallStep(i)
        \/ CrashAndRestart

\* Timers fire and the tasks of calls are polled.  The natives are those that set a
\* timer themselves (shell_exec, http_fetch, web_reader); the engine sets none, so a
\* native without one (memory_search, install_skill) is not among them.  Nothing is
\* assumed of the threads guests wait for, nor that a guest or a child ends: only that
\* a guest keeps meeting the points where the epoch is checked, between calls of a
\* host that answers (the blocking HTTP client has a timeout of its own).
Fairness == /\ \A c \in Calls : WF_vars(Begin(c) \/ TimeOut(c) \/ Answer(c))
            /\ \A e \in Tries : WF_vars(HostAnswers(e)) /\ SF_vars(Cut(e))

Spec == Init /\ [][Next]_vars
FairSpec == Spec /\ Fairness

-----------------------------------------------------------------------------
(* What is right about it. *)

\* Types.
TypeOK ==
  /\ registry \in [Names -> Versions] /\ store \in [Names -> Installers \cup {Absent}]
  /\ install \in [Installers -> [pc : {"new", "store", "register", "ended"},
                                 name : Names]]
  /\ call \in [Calls -> [pc : Busy \cup {"new", "over"}, version : Versions, try : Nat]]
  /\ exec \in [Tries -> [st : {"none", "queued", "running", "hosted"} \cup Ended,
                         version : Versions, left : Nat, late : BOOLEAN]]
  /\ \A c \in Calls : call[c].try <= Attempts(c)
  /\ crashes \in 0 .. MaxCrashes /\ stale \subseteq Names

\* What is served under a name and what the store would bring back differ only while
\* an install is under way, for a built-in skill's name, or after two overlapping
\* installs, a dropped one or a failed reload (register_wasm_skill_persistent).
StoredIsServed ==
  \A n \in Names : Installing(n) = {} /\ n \notin stale =>
    registry[n] = store[n] \/ (n \in Natives /\ registry[n] = Native)

\* A guest is trapped by the epoch only if, since it started, a timer of a call of the
\* same version fired: one version's timeout never reaches another's guests, nor one
\* that starts later, the retry among them (set_epoch_deadline, increment_epoch).
CutOffOnlyByTimeout == \A e \in Tries : exec[e].st = "cut" => exec[e].late

\* A guest that was running when a timer of its version fired ends, even one that
\* loops (increment_epoch).  One that was still queued need not.
LateGuestsEnd ==
  \A e \in Tries : (exec[e].late /\ exec[e].st \in {"running", "hosted"})
                    ~> exec[e].st \notin {"running", "hosted"}

\* Every call returns or is dropped, though guests may loop, wait for a host that does
\* not answer or never get a thread, and children of the shell never end.
EveryCallReturns == \A c \in Calls : call[c].pc \in Busy ~> call[c].pc \notin Busy
============================================================================
