------------------------------- MODULE Kernel -------------------------------
(***************************************************************************)
(* One session of AgentEngine (rain-engine-core/src/engine.rs): deliveries *)
(* of triggers and approvals, continuations, and what each of them reads   *)
(* from and appends to the session ledger, one append per step.            *)
(* A driver is the future of one advance.  Nothing in the engine orders    *)
(* the advances of a session, so drivers interleave at every await; an     *)
(* interruption (crash, dropped future, failed append) may end any of      *)
(* them at any await.                                                      *)
(* A tool graph has one node here and settles in one step; ToolGraph has   *)
(* its inside.  There is no planner, and the policy is a constant;         *)
(* PolicyTuning has the overlays.                                          *)
(***************************************************************************)
EXTENDS Integers, Sequences, FiniteSets, FiniteSetsExt

CONSTANTS
  Drivers,      \* advances that may be in flight at once
  Keys, NoKey,  \* idempotency keys of requests, and a request without one
  Acts,         \* the provider's actions, of AllActs
  MaxSteps,     \* policy.max_steps
  MaxFailures,  \* policy.max_consecutive_tool_failures
  MaxRequests,  \* bound of the model on deliveries
  MaxInterruptions  \* bound of the model on interruptions

\* The provider's actions, by what the engine does with them: "Respond" stands
\* for Yield and Delegate, "Continue" for the memory actions; "Ask" is a call of
\* a native skill that requires approval.  A Suspend with pending calls goes the
\* same way, and its failing results are not counted.
AllActs == {"Respond", "Continue", "Plan", "Call", "Ask"}

ASSUME KernelAssumption ==
  /\ NoKey \notin Keys
  /\ Acts \subseteq AllActs
  /\ MaxSteps \in Nat /\ MaxFailures \in Nat
  /\ MaxRequests \in Nat /\ MaxInterruptions \in Nat

VARIABLES
  log,           \* the session's records, in order
  run,           \* [Drivers -> what the future of an advance holds]
  requests,      \* deliveries so far
  interruptions  \* interruptions so far

vars == <<log, run, requests, interruptions>>

Verdicts == {"Approved", "Rejected"}

-----------------------------------------------------------------------------
(* Records.  A trigger, a call and a resume token are fresh when they first  *)
(* appear: each is named by the position of the record that introduces it.   *)

Trigger(key) == [kind |-> "Trigger", key |-> key]
Decision(trig, step, act) ==
  [kind |-> "Decision", trig |-> trig, step |-> step, act |-> act]
Deliberation == [kind |-> "Deliberation"]
Pending(step, call) == [kind |-> "Pending", step |-> step, call |-> call]
Resolution(token, verdict) ==
  [kind |-> "Resolution", token |-> token, verdict |-> verdict]
Graph(gid, step, call) ==
  [kind |-> "Graph", gid |-> gid, step |-> step, call |-> call]
Done(gid, call, ok) == [kind |-> "Done", gid |-> gid, call |-> call, ok |-> ok]
Result(call, ok) == [kind |-> "Result", call |-> call, ok |-> ok]
Outcome(trig, key) == [kind |-> "Outcome", trig |-> trig, key |-> key]

\* The records and the futures, for the type invariant.
Position == Nat
Entry ==
  [kind : {"Trigger"}, key : Keys \cup {NoKey}]
  \cup [kind : {"Decision"}, trig : Position, step : Nat, act : Acts]
  \cup [kind : {"Deliberation"}]
  \cup [kind : {"Pending"}, step : Nat, call : Position]
  \cup [kind : {"Resolution"}, token : Position, verdict : Verdicts]
  \cup [kind : {"Graph"}, gid : Position \X Nat, step : Nat, call : Position]
  \cup [kind : {"Done"}, gid : Position \X Nat, call : Position, ok : BOOLEAN]
  \cup [kind : {"Result"}, call : Position, ok : BOOLEAN]
  \cup [kind : {"Outcome"}, trig : Position, key : Keys \cup {NoKey}]

Pcs == {"idle", "accept", "load", "lookup", "resolve", "step", "deliberate",
        "suspend", "finish", "graph", "execute", "result", "reject"}
Future == [pc : Pcs, key : Keys \cup {NoKey}, token : Nat, verdict : Verdicts,
           trig : Nat, upto : Nat, step : Nat, fails : Nat, call : Nat, at : Nat,
           gid : Nat \X Nat, origin : {"decision", "continue", "approval"},
           ok : BOOLEAN]

-----------------------------------------------------------------------------
(* Projections of the first n records. *)

Records(n, kind) == {i \in 1..n : log[i].kind = kind}

LastOutcome(n) == Max({0} \cup Records(n, "Outcome"))
Segment(n, kind) == {i \in Records(n, kind) : i > LastOutcome(n)}

\* There is an active trigger.
Open(n) == Segment(n, "Trigger") # {}

\* Mutant of ActiveTrigger: the session's first trigger.
FirstTrigger(n) == Min(Records(n, "Trigger"))

\* active_trigger: the first one after the last outcome.
ActiveTrigger(n) == Min(Segment(n, "Trigger"))

Steps(n) == Segment(n, "Decision") \cup Segment(n, "Deliberation")

\* Mutant of StepCount: decisions are not counted.
DeliberationCount(n) == Cardinality(Segment(n, "Deliberation"))

\* current_step_count
StepCount(n) == Cardinality(Steps(n))

\* current_consecutive_tool_failure_steps: a decision's window of results opens
\* where the window of the one before was closed, by the next step record.
Closing(i, n) == Min({n + 1} \cup {j \in Steps(n) : j > i})
Opening(i, n) == LET earlier == {j \in Segment(n, "Decision") : j < i}
                 IN IF earlier = {} THEN LastOutcome(n) ELSE Closing(Max(earlier), n)
Window(i, n) == {r \in Segment(n, "Result") : Opening(i, n) < r /\ r < Closing(i, n)}
Failing(i, n) == /\ log[i].act \in {"Call", "Ask"}
                 /\ Cardinality(Window(i, n)) = 1
                 /\ \A r \in Window(i, n) : ~log[r].ok
FailureSteps(n) ==
  Cardinality({i \in Segment(n, "Decision") :
                 \A j \in Segment(n, "Decision") : j >= i => Failing(j, n)})

\* Mutant of Answered: only the latest outcome is looked at.
JustAnswered(key) == LastOutcome(Len(log)) > 0 /\ log[LastOutcome(Len(log))].key = key

\* find_outcome_by_idempotency_key finds one.
Answered(key) == \E i \in Records(Len(log), "Outcome") : log[i].key = key

ResolutionsOf(token, n) == {i \in Records(n, "Resolution") : log[i].token = token}

\* Mutant of IsPending: resolutions are not looked at.
WasPending(token) == token \in Records(Len(log), "Pending")

\* find_pending_approval_by_resume_token finds it.
IsPending(token) == /\ token \in Records(Len(log), "Pending")
                    /\ ResolutionsOf(token, Len(log)) = {}

\* Mutant of GraphId: a new graph for every trigger.
NewGraphId(n, trig, step, call) == <<trig, step>>

\* existing_or_new_graph: the last graph of the same step and calls, if any.
GraphId(n, trig, step, call) ==
  LET same == {i \in Records(n, "Graph") : log[i].step = step /\ log[i].call = call}
  IN IF same = {} THEN <<trig, step>> ELSE log[Max(same)].gid

GraphKnown(n, gid) == \E i \in Records(n, "Graph") : log[i].gid = gid
\* Mutant of CallSettled: a failed node is run again.
CallSucceeded(n, gid, call) ==
  \E i \in Records(n, "Done") : log[i].gid = gid /\ log[i].call = call /\ log[i].ok
CallSettled(n, gid, call) ==
  \E i \in Records(n, "Done") : log[i].gid = gid /\ log[i].call = call

\* active_tool_execution_graph: the last graph after the last outcome, unless as
\* many calls as it has nodes are settled under its id.
LastGraph(n) == Max(Segment(n, "Graph"))
GraphActive(n) == /\ Segment(n, "Graph") # {}
                  /\ \A i \in Segment(n, "Done") : log[i].gid # log[LastGraph(n)].gid

-----------------------------------------------------------------------------
(* The future of an advance. *)

Idle == [pc |-> "idle", key |-> NoKey, token |-> 0, verdict |-> "Approved",
         trig |-> 0, upto |-> 0, step |-> 0, fails |-> 0, call |-> 0, at |-> 0, gid |-> <<0, 0>>,
         origin |-> "decision",
         ok |-> FALSE]

Init == /\ log = <<>>
        /\ run = [d \in Drivers |-> Idle]
        /\ requests = 0 /\ interruptions = 0

At(d, pc) == run[d].pc = pc
Write(rec) == log' = Append(log, rec)
\* Mutant of Here: off by one.
BeyondHere == Len(log) + 2
Here == Len(log) + 1  \* the position Write gives its record
Return(d) == run' = [run EXCEPT ![d] = Idle]
Bounds == <<requests, interruptions>>

-----------------------------------------------------------------------------
(* advance_trigger. *)

\* A request arrives; token 0 is not an approval.  A key that has an outcome is
\* answered from the ledger, and the advance returns at once.
Deliver(d, key, token, verdict) ==
  /\ At(d, "idle") /\ requests < MaxRequests
  /\ requests' = requests + 1
  /\ IF key # NoKey /\ Answered(key)
     THEN UNCHANGED run
     ELSE run' = [run EXCEPT ![d].pc = "accept", ![d].key = key,
                             ![d].token = token, ![d].verdict = verdict]
  /\ UNCHANGED <<log, interruptions>>

AppendTrigger(d) == /\ At(d, "accept")
                    /\ Write(Trigger(run[d].key))
                    /\ run' = [run EXCEPT ![d].pc = "load", ![d].trig = Here]
                    /\ UNCHANGED Bounds

\* The snapshot the rest of the advance works on.
Load(d) == /\ At(d, "load")
           /\ run' = [run EXCEPT ![d].pc = IF run[d].token = 0 THEN "step" ELSE "lookup",
                                 ![d].upto = Len(log),
                                 ![d].step = StepCount(Len(log)),
                                 ![d].fails = FailureSteps(Len(log))]
           /\ UNCHANGED <<log, Bounds>>

\* Mutant of Resume: the verdict is not looked at.
ResumeAnyway(d, verdict) ==
  LET pending == log[run[d].token]
  IN run' = [run EXCEPT ![d].pc = "graph",
                        ![d].call = pending.call, ![d].at = pending.step,
                        ![d].origin = "approval"]

\* The pending calls are executed, or refused, as of the step that asked.
Resume(d, verdict) ==
  LET pending == log[run[d].token]
  IN run' = [run EXCEPT ![d].pc = IF verdict = "Approved" THEN "graph" ELSE "reject",
                        ![d].call = pending.call, ![d].at = pending.step,
                        ![d].origin = "approval"]

\* The store is asked for the pending approval, then the snapshot for an earlier
\* resolution, whose verdict wins over the one just delivered.
LookUp(d) ==
  LET token == run[d].token
      earlier == ResolutionsOf(token, run[d].upto)
  IN /\ At(d, "lookup")
     /\ \/ IsPending(token) /\ run' = [run EXCEPT ![d].pc = "resolve"]
        \/ ~IsPending(token) /\ earlier # {} /\ Resume(d, log[Min(earlier)].verdict)
        \/ ~IsPending(token) /\ earlier = {} /\ run' = [run EXCEPT ![d].pc = "finish"]
     /\ UNCHANGED <<log, Bounds>>

Resolve(d) == /\ At(d, "resolve")
              /\ Write(Resolution(run[d].token, run[d].verdict))
              /\ Resume(d, run[d].verdict)
              /\ UNCHANGED Bounds

-----------------------------------------------------------------------------
(* advance_continue. *)

\* Without an active trigger the advance returns and changes nothing.
Continue(d) ==
  LET n == Len(log)
      graph == log[LastGraph(n)]
      base == [run[d] EXCEPT !.trig = ActiveTrigger(n), !.key = log[ActiveTrigger(n)].key,
                             !.upto = n, !.step = StepCount(n), !.fails = FailureSteps(n)]
  IN /\ At(d, "idle")
     /\ Open(n)
     /\ run' = [run EXCEPT ![d] =
                  IF GraphActive(n)
                  THEN [base EXCEPT !.pc = "graph", !.call = graph.call, !.at = graph.step,
                                    !.origin = "continue"]
                  ELSE [base EXCEPT !.pc = "step"]]
     /\ UNCHANGED <<log, Bounds>>

-----------------------------------------------------------------------------
(* perform_single_step and execute_action. *)

\* Mutant of Stop: reaching max_steps is not an outcome.
StopBelowLimit(d) == /\ At(d, "step") /\ run[d].step < MaxSteps
                     /\ run' = [run EXCEPT ![d].pc = "finish"]
                     /\ UNCHANGED <<log, Bounds>>

\* policy_outcome: cancellation, the deadline and the session's cost (any time)
\* or the limits on steps and failures; or a provider error or timeout.
Stop(d) == /\ At(d, "step")
           /\ run' = [run EXCEPT ![d].pc = "finish"]
           /\ UNCHANGED <<log, Bounds>>

\* Where execute_action goes on; "Continue" ends the advance without an outcome.
Handler == [Respond |-> "finish", Plan |-> "deliberate", Call |-> "graph",
            Ask |-> "suspend"]

\* Mutant of Decide: the failure limit is off by one.
DecideOnceMore(d, act) ==
  /\ At(d, "step")
  /\ run[d].step < MaxSteps /\ run[d].fails <= MaxFailures
  /\ Write(Decision(run[d].trig, run[d].step, act))
  /\ IF act = "Continue" THEN Return(d)
     ELSE run' = [run EXCEPT ![d].pc = Handler[act],
                             ![d].call = Here, ![d].at = run[d].step,
                             ![d].origin = "decision"]
  /\ UNCHANGED Bounds

Decide(d, act) ==
  /\ At(d, "step")
  /\ run[d].step < MaxSteps /\ run[d].fails < MaxFailures
  /\ Write(Decision(run[d].trig, run[d].step, act))
  /\ IF act = "Continue" THEN Return(d)
     ELSE run' = [run EXCEPT ![d].pc = Handler[act],
                             ![d].call = Here, ![d].at = run[d].step,
                             ![d].origin = "decision"]
  /\ UNCHANGED Bounds

Deliberate(d) == /\ At(d, "deliberate")
                 /\ Write(Deliberation)
                 /\ Return(d)
                 /\ UNCHANGED Bounds

Suspend(d) == /\ At(d, "suspend")
              /\ Write(Pending(run[d].at, run[d].call))
              /\ run' = [run EXCEPT ![d].pc = "finish"]
              /\ UNCHANGED Bounds

Finish(d) == /\ At(d, "finish")
             /\ Write(Outcome(run[d].trig, run[d].key))
             /\ Return(d)
             /\ UNCHANGED Bounds

-----------------------------------------------------------------------------
(* execute_planned_calls and the results its caller appends. *)

RecordGraph(d) ==
  LET gid == GraphId(run[d].upto, run[d].trig, run[d].at, run[d].call)
  IN /\ At(d, "graph")
     /\ run' = [run EXCEPT ![d].pc = "execute", ![d].gid = gid]
     /\ IF GraphKnown(run[d].upto, gid) THEN UNCHANGED log
        ELSE Write(Graph(gid, run[d].at, run[d].call))
     /\ UNCHANGED Bounds

\* What the caller goes on with: a decision's advance is over, an approval's
\* takes the step after the one that asked, a continuation's the counted one.
Resumed(r, allFailed) ==
  IF r.origin = "decision" THEN Idle
  ELSE IF r.origin = "continue" THEN [r EXCEPT !.pc = "step"]
  ELSE [r EXCEPT !.pc = "step", !.step = r.at + 1,
                 !.fails = r.fails + (IF allFailed THEN 1 ELSE 0)]

\* The node runs to its terminal checkpoint, unless it has one already.
Execute(d, ok) ==
  /\ At(d, "execute")
  /\ ~CallSettled(run[d].upto, run[d].gid, run[d].call)
  /\ Write(Done(run[d].gid, run[d].call, ok))
  /\ run' = [run EXCEPT ![d].pc = "result", ![d].ok = ok]
  /\ UNCHANGED Bounds

\* No result is new: an empty batch counts as all failed.
Reuse(d) == /\ At(d, "execute")
            /\ CallSettled(run[d].upto, run[d].gid, run[d].call)
            /\ run' = [run EXCEPT ![d] = Resumed(@, TRUE)]
            /\ UNCHANGED <<log, Bounds>>

AppendResult(d) == /\ At(d, "result")
                   /\ Write(Result(run[d].call, run[d].ok))
                   /\ run' = [run EXCEPT ![d] = Resumed(@, ~run[d].ok)]
                   /\ UNCHANGED Bounds

\* A rejected call gets a PermissionDenied result.
Reject(d) == /\ At(d, "reject")
             /\ Write(Result(run[d].call, FALSE))
             /\ run' = [run EXCEPT ![d] = Resumed(@, TRUE)]
             /\ UNCHANGED Bounds

-----------------------------------------------------------------------------
\* The future is gone.  An outcome whose append failed leaves the same ledger:
\* finish only logs that failure.
Interrupt(d) == /\ ~At(d, "idle") /\ interruptions < MaxInterruptions
                /\ interruptions' = interruptions + 1
                /\ Return(d)
                /\ UNCHANGED <<log, requests>>

Arrive(d) == \E key \in Keys \cup {NoKey} :
               \/ Deliver(d, key, 0, "Approved")
               \/ \E token \in Records(Len(log), "Pending"), verdict \in Verdicts :
                    Deliver(d, key, token, verdict)

DriverStep(d) ==
  \/ AppendTrigger(d) \/ Load(d) \/ LookUp(d) \/ Resolve(d)
  \/ Stop(d) \/ \E act \in Acts : Decide(d, act)
  \/ Deliberate(d) \/ Suspend(d) \/ Finish(d)
  \/ RecordGraph(d) \/ \E ok \in BOOLEAN : Execute(d, ok)
  \/ Reuse(d) \/ AppendResult(d) \/ Reject(d)

Next == \E d \in Drivers : Arrive(d) \/ Continue(d) \/ DriverStep(d) \/ Interrupt(d)

Spec == Init /\ [][Next]_vars

\* The runtime polls a future until it returns; run_until_terminal and the
\* ingress worker call advance(Continue) until there is an outcome.
Fairness == \A d \in Drivers : WF_vars(DriverStep(d)) /\ WF_vars(Continue(d))
FairSpec == Spec /\ Fairness
-----------------------------------------------------------------------------
(* Properties. *)

All(kind) == Records(Len(log), kind)

\* Every variable keeps its type, and what a future refers to is in the ledger.
TypeOK ==
  /\ log \in Seq(Entry)
  /\ run \in [Drivers -> Future]
  /\ \A d \in Drivers : /\ run[d].upto <= Len(log) /\ run[d].trig <= Len(log)
                        /\ run[d].token # 0 => run[d].token \in All("Pending")
  /\ requests \in 0..MaxRequests /\ interruptions \in 0..MaxInterruptions

\* A call reaches a terminal checkpoint once in the life of the session, across
\* interruptions, continuations and repeated deliveries of its approval, in one
\* graph or in several (existing_or_new_graph, latest_tool_statuses).
CallRunsOnce ==
  \A i, j \in All("Done") : log[i].call = log[j].call => i = j

\* A call that asked for approval runs only after an approval, whichever way the
\* execution is reached: delivered again, or continued with the approval
\* override of advance_continue.
ApprovalGate ==
  \A i \in All("Done") : log[log[i].call].act = "Ask" =>
     \E p \in All("Pending") : /\ log[p].call = log[i].call
                               /\ \E r \in ResolutionsOf(p, i) : log[r].verdict = "Approved"

\* A request that is delivered again, after a crash or by an impatient client, is
\* answered once: a key never has two outcomes (as long as the lookup by key does
\* not fail, which the engine takes for no outcome).
OneOutcomePerKey ==
  \A i, j \in All("Outcome") :
     log[i].key # NoKey /\ log[i].key = log[j].key => i = j

\* An outcome answers a trigger no earlier outcome has closed off, with the key
\* of that trigger, though a continuation guesses the trigger from the ledger.
OutcomeClosesItsTrigger ==
  \A i \in All("Outcome") :
     /\ log[i].trig \in Segment(i - 1, "Trigger")
     /\ log[log[i].trig].key = log[i].key

\* Between two outcomes the provider is asked at most max_steps times, and once
\* more for each trigger behind the first: an approval counts from the step that
\* asked.
StepBudget ==
  LET decisions == Cardinality(Segment(Len(log), "Decision"))
      triggers == Cardinality(Segment(Len(log), "Trigger"))
  IN decisions # 0 => decisions <= MaxSteps + triggers - 1

\* The limit on consecutive failing steps is exceeded only by steps taken right
\* after an interrupted graph was resumed: advance_continue counts the failures
\* before it runs the rest of the graph.
FailureBudget == FailureSteps(Len(log)) <= MaxFailures + interruptions

\* A result in the ledger is the truth: a success is the call's own terminal
\* checkpoint, a failure of a call that ran as well, and a call that ran has one.
ResultsTruthful ==
  \A r \in All("Result") :
     LET done == {i \in All("Done") : log[i].call = log[r].call}
     IN /\ log[r].ok => done # {}
        /\ \A i \in done : /\ log[i].ok = log[r].ok /\ i < r
                           /\ \A s \in All("Result") : log[s].call = log[r].call => s = r

\* A session with an open trigger reaches an outcome after it, if the host goes on
\* calling advance, however its advances were interrupted before.
EveryTriggerAnswered == (Open(Len(log)) ~> ~Open(Len(log)))

\* README.md:128-130: "`CallSkills` decisions are materialized as a
\* `ToolExecutionGraph`".
CallsMaterialized ==
  \A i \in All("Done") : \E g \in All("Graph") : log[g].call = log[i].call

Unfinished(g) == /\ g \in All("Graph")
                 /\ ~CallSettled(Len(log), log[g].gid, log[g].call)

\* README.md:130-131: "On continuation after interruption, the kernel replays the
\* ledger and resumes unfinished nodes".
UnfinishedNodesResumed == \A g \in 1..8 : Unfinished(g) ~> ~Unfinished(g)

-----------------------------------------------------------------------------
(* What the ledger of one driver at a time means to the hosts. *)

AskedCalls == {log[p].call : p \in All("Pending")}
Answers(verdict) == {log[log[r].token].call :
                       r \in {s \in All("Resolution") : log[s].verdict = verdict}}
RanCalls == {log[i].call : i \in All("Done")}
AnsweredKeys == {log[i].key : i \in All("Outcome")} \ {NoKey}

Promise == INSTANCE Session WITH
  asked <- AskedCalls, approved <- Answers("Approved"), rejected <- Answers("Rejected"),
  ran <- RanCalls, answered <- AnsweredKeys

\* The ledger's appends are steps of the session's promise to its hosts, or are
\* invisible to them.
KeepsPromise == Promise!Spec
=============================================================================
