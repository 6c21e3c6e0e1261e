--------------------------- MODULE SessionRecords ---------------------------
(***************************************************************************)
(* What is read from a session's records: the agent state folded from its  *)
(* events, the plan that is being followed, and the view a client gets     *)
(* (rain-engine-core/src/types.rs, rain-engine-runtime/src/lib.rs).  Every *)
(* definition is a function of a sequence of records, whoever holds it:    *)
(* the store, an advance or the cache.                                     *)
(***************************************************************************)
EXTENDS Naturals, Sequences, FiniteSets, SequencesExt, FiniteSetsExt

\* A record: what it is, the trigger whose advance appended it, what it is about
\* (the number of a task, wake, resume token or step) and one more word.
Rec(kind, by, ref, arg) == [kind |-> kind, by |-> by, ref |-> ref, arg |-> arg]

Kinds == {"trigger", "intent", "goal", "task", "claim", "report", "wakeset", "wakedone",
          "observed", "plan", "decision", "deliberation", "delegation", "graph", "joined",
          "result", "pending", "resolution", "summary", "outcome"}

\* What the last word of a record may be: nothing, a kind of trigger, a status of a
\* goal, task or plan, a verdict, an action or why an advance stopped.
Words == {"", "human", "external", "wake", "Active", "Ready", "Blocked", "Done", "follow up",
          "open", "completed", "approve", "reject", "ok", "refused",
          "Respond", "Yield", "Continue", "Plan", "Search", "Call", "Ask", "Delegate",
          "Responded", "Yielded", "Suspended", "Delegated", "PolicyAborted", "MaxSteps"}

IsRecord(r) == /\ DOMAIN r = {"kind", "by", "ref", "arg"}
               /\ r.kind \in Kinds /\ r.by \in Nat /\ r.ref \in Nat /\ r.arg \in Words

\* The last record of s that passes Test, or None.
None == Rec("none", 0, 0, "")
LastOf(s, Test(_)) ==
  LET at == {i \in DOMAIN s : Test(s[i])} IN IF at = {} THEN None ELSE s[Max(at)]

LatestOutcome(s) == LastOf(s, LAMBDA r : r.kind = "outcome")
SinceOutcome(s) ==
  LET at == {i \in DOMAIN s : s[i].kind = "outcome"}
  IN  IF at = {} THEN s ELSE SubSeq(s, Max(at) + 1, Len(s))

-----------------------------------------------------------------------------
(* The agent state. *)

\* One kernel event.  A plan for a number that is taken replaces the task; news
\* of an unknown task is dropped; a wake is remembered alone, the last one wins.
Folded(state, r) ==
  CASE r.kind = "goal" -> [state EXCEPT !.goals = @ \cup {r.ref}]
    [] r.kind = "task" -> [state EXCEPT !.tasks =
                             [n \in DOMAIN state.tasks \cup {r.ref} |->
                                IF n = r.ref THEN r.arg ELSE state.tasks[n]]]
    [] r.kind = "claim" /\ r.ref \in DOMAIN state.tasks
         -> [state EXCEPT !.tasks[r.ref] = "Running"]
    [] r.kind = "report" /\ r.ref \in DOMAIN state.tasks
         -> [state EXCEPT !.tasks[r.ref] = r.arg]
    [] r.kind = "wakeset" -> [state EXCEPT !.wake = r.ref]
    [] r.kind = "wakedone" /\ r.ref = state.wake -> [state EXCEPT !.wake = 0]
    [] OTHER -> state

AgentState(s) == FoldLeft(Folded, [goals |-> {}, tasks |-> <<>>, wake |-> 0], s)

Open == {"Pending", "Ready", "Running", "Blocked", "WaitingHuman"}
HasActiveTasks(state) == \E t \in DOMAIN state.tasks : state.tasks[t] \in Open

\* The n-th new task is named after the number of tasks there are.
\* Mutant of NextTask: after the number of open ones.
NextOpenTask(state, n) == Cardinality({t \in DOMAIN state.tasks : state.tasks[t] \in Open}) + n
NextTask(state, n) == Cardinality(DOMAIN state.tasks) + n

\* MinimalTaskGraphPlanner::plan for trigger t of this kind.
MinimalPlan(state, t, kind) ==
  CASE kind \in {"human", "external"} /\ ~HasActiveTasks(state) ->
         << Rec("goal", t, Cardinality(state.goals) + 1, "Active"),
            Rec("task", t, NextTask(state, 1), "Ready"),
            Rec("wakeset", t, t, "follow up") >>
    [] kind = "wake"
       /\ \E n \in DOMAIN state.tasks : state.tasks[n] \in {"Ready", "Blocked", "WaitingHuman"} ->
         << Rec("claim", t, Min({n \in DOMAIN state.tasks :
                                   state.tasks[n] \in {"Ready", "Blocked", "WaitingHuman"}}), "") >>
    [] OTHER -> << >>

\* ResearchPlanner::plan: the model is asked for tasks with dependencies.  Blocked
\* is a task with a dependency that the answer has listed by then; one that is
\* listed later is forgotten.
ResearchPlan(state, t, kind, answer) ==
  IF kind # "human" \/ HasActiveTasks(state) \/ answer = << >> THEN << >>
  ELSE << Rec("goal", t, Cardinality(state.goals) + 1, "Active") >>
       \o [i \in DOMAIN answer |->
             Rec("task", t, NextTask(state, i),
                 IF \E j \in answer[i] : j <= i THEN "Blocked" ELSE "Ready")]

-----------------------------------------------------------------------------
(* The plan that is being followed. *)

\* Mutant of ActivePlan: the last record of a plan decides.
LastPlan(s) == LET p == LastOf(s, LAMBDA r : r.kind = "plan")
               IN  IF p.arg = "completed" THEN None ELSE p
\* active_execution_plan: the last plan record that is not a completed one, though
\* a completed one of the same plan may follow it.
ActivePlan(s) == LastOf(s, LAMBDA r : r.kind = "plan" /\ r.arg # "completed")

-----------------------------------------------------------------------------
(* Graphs and approvals, as the views show them. *)

\* active_tool_execution_graph.
ActiveGraph(s) ==
  LET tail == SinceOutcome(s)
      g == LastOf(tail, LAMBDA r : r.kind = "graph")
  IN  IF \E i \in DOMAIN tail : tail[i].kind = "joined" /\ tail[i].ref = g.ref THEN None ELSE g

Resolved(s, token) == \E i \in DOMAIN s : s[i].kind = "resolution" /\ s[i].ref = token
\* find_pending_approval_by_resume_token.
IsPending(s, token) == /\ \E i \in DOMAIN s : s[i].kind = "pending" /\ s[i].ref = token
                       /\ ~Resolved(s, token)

\* latest_pending_approval.
PendingApproval(s, latest) ==
  LastOf(s, LAMBDA r : /\ r.kind = "pending" /\ ~Resolved(s, r.ref)
                       /\ latest.arg = "Suspended" => r.ref = latest.ref)

-----------------------------------------------------------------------------
(* The view of a session. *)

\* derive_session_status.
Status(s, latest) ==
  CASE s = << >> -> "Empty"
    [] s # << >> /\ PendingApproval(s, latest) # None -> "Suspended"
    [] s # << >> /\ PendingApproval(s, latest) = None ->
         CASE latest = None -> "Running"
           [] latest.arg \in {"Responded", "Yielded"} -> "Completed"
           [] latest.arg = "Suspended" -> "Suspended"
           [] latest.arg = "Delegated" -> "Delegated"
           [] latest.arg \in {"PolicyAborted", "ProviderFailure"} -> "Failed"
           [] latest.arg = "MaxSteps" -> "Stopped"

\* derive_activity_state: the last record that says something, an outcome that
\* went well says nothing.
Telling(s) ==
  LET r == LastOf(s, LAMBDA x : \/ x.kind \in {"deliberation", "delegation", "wakeset"}
                                \/ x.kind = "report" /\ x.arg = "Blocked"
                                \/ x.kind = "outcome" /\ x.arg \in {"Delegated", "PolicyAborted",
                                                                    "ProviderFailure"})
  IN  CASE r.kind = "deliberation" -> "Reasoning"
        [] r.kind = "delegation" -> "Delegated"
        [] r.kind = "wakeset" -> "Scheduled"
        [] r.kind = "report" -> "WaitingExternal"
        [] r.kind = "outcome" -> IF r.arg = "Delegated" THEN "Delegated" ELSE "Errored"
        [] OTHER -> IF AgentState(s).wake # 0 THEN "Scheduled" ELSE "Idle"

Activity(s, latest) ==
  CASE PendingApproval(s, latest) # None -> "WaitingHuman"
    [] PendingApproval(s, latest) = None /\ ActiveGraph(s) # None -> "RunningTools"
    [] OTHER -> Telling(s)

\* current_task: tasks are numbered in the order they are created.
Urgency == [Running |-> 0, Ready |-> 1, WaitingHuman |-> 2, Blocked |-> 3, Pending |-> 4,
            Failed |-> 5]
CurrentTask(state) ==
  LET live == {t \in DOMAIN state.tasks : state.tasks[t] \in DOMAIN Urgency}
      first == {t \in live : \A u \in live : Urgency[state.tasks[t]] <= Urgency[state.tasks[u]]}
  IN  IF live = {} THEN 0 ELSE Min(first)

\* build_wake_history: the last 12, each with its place, the latest first.
WakeHistory(s) ==
  LET at == {i \in DOMAIN s : \/ s[i].kind \in {"wakeset", "wakedone"}
                              \/ s[i].kind = "trigger" /\ s[i].arg = "wake"}
      Rank(i) == Cardinality({j \in at : i <= j})
  IN  {<<Rank(i), s[i]>> : i \in {k \in at : Rank(k) <= 12}}

\* build_session_view of a snapshot: its records and the outcome it calls latest.
View(s, latest) ==
  LET state == AgentState(s)
  IN  [status |-> Status(s, latest), activity |-> Activity(s, latest), outcome |-> latest,
       approval |-> PendingApproval(s, latest).ref, task |-> CurrentTask(state),
       wake |-> state.wake, wakes |-> WakeHistory(s), graph |-> ActiveGraph(s).ref]
=============================================================================
