---------------------------- MODULE LiveSession ----------------------------
(***************************************************************************)
(* One session while it lives: the advances that plan and act on it, the   *)
(* store they append to, the projection they leave in the cache, and the   *)
(* clients that watch it (rain-engine-core/src/engine.rs, memory.rs and    *)
(* the SQL stores, state_cache.rs, rain-engine-runtime/src/lib.rs).        *)
(* A store gives a record its number in one step and shows it in another.  *)
(* Graphs are one node here (their inside is ToolGraph), and of a policy's *)
(* limits there are only the steps (Kernel has the others).                *)
(***************************************************************************)
EXTENDS SessionRecords

CONSTANTS
  Drivers,       \* advances that may be in flight at once
  Deployments,   \* what a session may run in, see DeploymentsAssumption
  PlanActions,   \* the steps of a plan a planner proposes
  Answers,       \* what the model answers a ResearchPlanner: sequences of dependency sets
  PageLimit,     \* the limit a client pages with
  MaxSteps,      \* policy.max_steps
  MaxTriggers    \* bound of the model on deliveries

Stores == {"memory", "postgres", "sqlite"}
TriggerKinds == {"human", "external", "wake", "approve", "reject"}
Acts == {"Respond", "Yield", "Continue", "Plan", "Search", "Call", "Ask", "Delegate"}

ASSUME DeploymentsAssumption ==
  \A p \in Deployments :
    /\ p.store \in Stores /\ p.planner \in {"none", "minimal", "research", "proposing"}
    /\ p.observer \in {"none", "stream", "pager"}
    /\ p.width \in 1..Cardinality(Drivers)        \* advances in flight at once
    /\ p.kinds \subseteq TriggerKinds /\ p.acts \subseteq Acts
    /\ p.faults \in Nat                           \* bound on failures
    /\ p.rows \in Nat                             \* bound of the model on records
    /\ p.reports \in BOOLEAN                      \* a host reports tasks done
ASSUME BoundsAssumption == /\ PlanActions \in Seq(Acts) /\ PageLimit \in Nat \ {0}
                           /\ Answers \subseteq Seq(SUBSET Nat)

VARIABLES
  deploy,     \* the deployment
  rows,       \* what the store shows: [seq, rec], in the order it came to be shown
  numbers,    \* the last number given
  cache,      \* the cached projection: its records, or the empty sequence
  run,        \* [Drivers -> the future of an advance]
  triggers,   \* triggers delivered
  faults,     \* failures so far
  watcher,    \* what the observing client has
  met         \* history: pairs of triggers whose advances overlapped

vars == <<deploy, rows, numbers, cache, run, triggers, faults, watcher, met>>

Idle == [pc |-> "idle", by |-> 0, kind |-> "", ref |-> 0, ctx |-> << >>, todo |-> << >>,
         seq |-> 0, n |-> 0]
\* An append to do: soft if its error is ignored, kept if context.records gets it.
Do(r, soft, kept) == [rec |-> r, soft |-> soft, kept |-> kept]
Hard(r) == Do(r, FALSE, TRUE)
Aside(r) == Do(r, FALSE, FALSE)

Init ==
  /\ deploy \in Deployments
  /\ rows = << >> /\ numbers = 0 /\ cache = << >>
  /\ run = [d \in Drivers |-> Idle]
  /\ triggers = 0 /\ faults = 0 /\ met = {}
  /\ watcher = [last |-> 0, sent |-> {}, offset |-> 0, start |-> {}, done |-> FALSE]

-----------------------------------------------------------------------------
(* The store. *)

Visible == {rows[i].seq : i \in DOMAIN rows}

\* The rows of the session as a query returns them.  A SQL store orders them by
\* number: a row's place is how many numbers are no higher than its own.  SQLite's
\* rows, numbered as they are shown, are in that order as they are (TypeOK).
Ordered == \A i, j \in DOMAIN rows : i < j => rows[i].seq < rows[j].seq
Place(i) == Cardinality({j \in DOMAIN rows : rows[j].seq <= rows[i].seq})
Queried == IF deploy.store = "postgres"
           THEN [k \in DOMAIN rows |-> rows[CHOOSE i \in DOMAIN rows : Place(i) = k]]
           ELSE rows
Records(rs) == [i \in DOMAIN rs |-> rs[i].rec]
\* load_session: its records; last_sequence_no is the number of the last of them.
Loaded == Records(Queried)
LastSequenceNo == IF rows = << >> THEN 0 ELSE Last(Queried).seq

\* list_records: a page and where the next one starts, 0 for nowhere.
\* Mutant of Page: the SQL store stops at a full page.
ShortPage(offset) ==
  [got |-> {Queried[i].seq : i \in {j \in DOMAIN rows : offset < j /\ j <= offset + PageLimit}},
   next |-> IF Len(rows) - offset > PageLimit /\ deploy.store = "memory"
            THEN offset + PageLimit ELSE 0]
Page(offset) ==
  LET at == {i \in DOMAIN rows : offset < i /\ i <= offset + PageLimit}
      more == IF deploy.store = "memory" THEN offset + Cardinality(at) < Len(rows)
              ELSE Cardinality(at) = PageLimit
  IN  [got |-> {Queried[i].seq : i \in at},
       next |-> IF more THEN offset + Cardinality(at) ELSE 0]

\* Mutant of Number: the number is counted, not drawn.
NumberByCount(d) ==
  /\ run[d].todo # << >> /\ run[d].seq = 0 /\ numbers < deploy.rows
  /\ deploy.store = "sqlite" => \A e \in Drivers : run[e].seq = 0
  /\ numbers' = numbers + 1
  /\ run' = [run EXCEPT ![d].seq = Len(rows) + 1]
  /\ UNCHANGED <<deploy, rows, cache, triggers, faults, watcher, met>>
\* The next record of advance d gets its number.  In memory the lock of the
\* counter is released before the one of the rows is taken; Postgres draws the
\* number before the insert is committed; SQLite writes one row at a time.
Number(d) ==
  /\ run[d].todo # << >> /\ run[d].seq = 0 /\ numbers < deploy.rows
  /\ deploy.store = "sqlite" => \A e \in Drivers : run[e].seq = 0
  /\ numbers' = numbers + 1
  /\ run' = [run EXCEPT ![d].seq = numbers + 1]
  /\ UNCHANGED <<deploy, rows, cache, triggers, faults, watcher, met>>

\* What an advance holds after the append of its next record.
Kept(r) == IF Head(r.todo).kept THEN Append(r.ctx, Head(r.todo).rec) ELSE r.ctx

\* ... and is shown.
Push(d) ==
  /\ run[d].seq # 0
  /\ rows' = Append(rows, [seq |-> run[d].seq, rec |-> Head(run[d].todo).rec])
  /\ run' = [run EXCEPT ![d] = [@ EXCEPT !.ctx = Kept(run[d]), !.todo = Tail(run[d].todo),
                                           !.seq = 0]]
  /\ UNCHANGED <<deploy, numbers, cache, triggers, faults, watcher, met>>

\* An append fails: the advance ends with an error, or goes on as if it had not.
AppendFails(d) ==
  /\ faults < deploy.faults /\ faults' = faults + 1
  /\ run[d].todo # << >> /\ run[d].seq = 0
  /\ run' = [run EXCEPT ![d] = IF Head(@.todo).soft
                                THEN [@ EXCEPT !.ctx = Kept(run[d]), !.todo = Tail(run[d].todo)]
                                ELSE Idle]
  /\ UNCHANGED <<deploy, rows, numbers, cache, triggers, watcher, met>>

\* The future of an advance is dropped, or its process ends.
Drop(d) ==
  /\ faults < deploy.faults /\ faults' = faults + 1
  /\ run[d].pc # "idle"
  /\ run' = [run EXCEPT ![d] = Idle]
  /\ UNCHANGED <<deploy, rows, numbers, cache, triggers, watcher, met>>

-----------------------------------------------------------------------------
(* An advance. *)

Busy == {d \in Drivers : run[d].pc # "idle"}
Overlaps(d, t) == met \cup {{t, run[e].by} : e \in Busy \ {d}}
At(d, pc) == run[d].pc = pc /\ run[d].todo = << >>

\* A load that may fail, and what an advance then has in its place.
LoadOr(else, Then(_)) ==
  \/ Then(Loaded) /\ UNCHANGED faults
  \/ faults < deploy.faults /\ faults' = faults + 1 /\ Then(else)

\* advance_trigger is called with a new trigger, and its record is to be appended.
\* Wakes are delivered when a client sees one pending, approvals for any call
\* that was suspended.
Subjects(kind) ==
  CASE kind = "wake" -> {AgentState(Loaded).wake} \ {0}
    [] kind \in {"approve", "reject"} ->
         {Loaded[i].ref : i \in {j \in DOMAIN rows : Loaded[j].kind = "pending"}}
    [] OTHER -> {0}
Deliver(d) ==
  /\ run[d].pc = "idle" /\ triggers < MaxTriggers /\ Cardinality(Busy) < deploy.width
  /\ triggers' = triggers + 1
  /\ \E kind \in deploy.kinds : \E ref \in Subjects(kind) :
       run' = [run EXCEPT ![d] =
                 [Idle EXCEPT !.pc = "read", !.by = triggers + 1, !.kind = kind, !.ref = ref,
                              !.todo = <<Aside(Rec("trigger", triggers + 1, ref, kind))>>]]
  /\ met' = Overlaps(d, triggers + 1)
  /\ UNCHANGED <<deploy, rows, numbers, cache, faults, watcher>>

\* The projection is preferred to the ledger, with the new trigger put behind it.
\* Then the intent of the trigger is recorded.
Read(d) ==
  LET r == run[d]
      Have(s) == run' = [run EXCEPT ![d] =
                           [@ EXCEPT !.ctx = s, !.pc = "refresh",
                                     !.todo = <<Do(Rec("intent", r.by, 0, r.kind), TRUE, FALSE)>>]]
  IN  /\ At(d, "read")
      /\ IF cache # << >>
         THEN Have(Append(cache, Rec("trigger", r.by, r.ref, r.kind))) /\ UNCHANGED faults
         ELSE \/ Have(Loaded) /\ UNCHANGED faults
              \/ /\ faults < deploy.faults /\ faults' = faults + 1
                 /\ run' = [run EXCEPT ![d] = Idle]
      /\ UNCHANGED <<deploy, rows, numbers, cache, triggers, watcher, met>>

\* current_step_count.
StepCount(s) ==
  LET tail == SinceOutcome(s)
  IN  Cardinality({i \in DOMAIN tail : tail[i].kind \in {"decision", "deliberation"}})

\* derive_trigger_kernel_events, appended with persist_kernel_events.
TriggerEvents(r) ==
  CASE r.kind \in {"human", "external"} -> <<Hard(Rec("observed", r.by, 0, r.kind))>>
    [] r.kind = "wake" -> <<Hard(Rec("wakedone", r.by, r.ref, ""))>>
    [] OTHER -> << >>
Observing(r, s) ==
  [r EXCEPT !.ctx = s, !.n = StepCount(s), !.todo = TriggerEvents(r),
            !.pc = IF r.kind \in {"approve", "reject"} THEN "resolve" ELSE "step"]

\* What the planner may propose from snapshot s: events and a plan.
Proposals(s, r) ==
  CASE deploy.planner = "none" -> {<< >>}
    [] deploy.planner = "minimal" -> {MinimalPlan(AgentState(s), r.by, r.kind)}
    [] deploy.planner = "research" ->
         {ResearchPlan(AgentState(s), r.by, r.kind, a) : a \in Answers \cup {<< >>}}
    [] deploy.planner = "proposing" ->
         {IF r.kind = "human" THEN <<Rec("plan", r.by, 0, "open")>> ELSE << >>}

\* Where an advance stands that has planned on snapshot s: a planner's session is
\* summed up once it is long, if the provider does so.
SummaryAbove == 10
Planned(r, s) ==
  {Observing(r, s)} \cup
  IF /\ deploy.planner # "none" /\ Len(s) > SummaryAbove
     /\ \A i \in DOMAIN s : s[i].kind # "summary"
  THEN {[r EXCEPT !.ctx = s, !.pc = "summary",
                  !.todo = <<Do(Rec("summary", r.by, 0, ""), TRUE, FALSE)>>]}
  ELSE {}

\* The snapshot is loaded again, the planner is asked, and what it proposes is to
\* be appended, errors ignored.
Refresh(d) ==
  LET Plan(s) ==
        \E out \in Proposals(s, run[d]) :
          \/ /\ out = << >>
             /\ \E r \in Planned(run[d], s) : run' = [run EXCEPT ![d] = r]
          \/ /\ out # << >>
             /\ run' = [run EXCEPT ![d] =
                          [@ EXCEPT !.ctx = s, !.pc = "replan",
                                    !.todo = [i \in DOMAIN out |-> Do(out[i], TRUE, FALSE)]]]
  IN  /\ At(d, "refresh")
      /\ LoadOr(run[d].ctx, Plan)
      /\ UNCHANGED <<deploy, rows, numbers, cache, triggers, watcher, met>>

\* ... and loaded once more after planning and after summing up.
Reload(d) ==
  LET Have(s) == \E r \in IF run[d].pc = "replan" THEN Planned(run[d], s)
                           ELSE {Observing(run[d], s)} : run' = [run EXCEPT ![d] = r]
  IN  /\ At(d, "replan") \/ At(d, "summary")
      /\ LoadOr(run[d].ctx, Have)
      /\ UNCHANGED <<deploy, rows, numbers, cache, triggers, watcher, met>>

\* finish: the outcome is appended, an error only logged, and then cached.
Finish(t, stop, token) == <<Do(Rec("outcome", t, token, stop), TRUE, TRUE)>>

\* One node's graph, its last checkpoint and its result: only the result is put
\* into the context.
Runs(t, call) == <<Aside(Rec("graph", t, call, "")), Aside(Rec("joined", t, call, "")),
                   Hard(Rec("result", t, call, "ok"))>>

\* An approval: the token is looked up in the store, then in the snapshot.
Resolve(d) ==
  LET r == run[d]
      told == LastOf(r.ctx, LAMBDA x : x.kind = "resolution" /\ x.ref = r.ref)
      verdict == IF IsPending(Loaded, r.ref) THEN r.kind ELSE told.arg
      settle == IF verdict = "approve" THEN Runs(r.by, r.ref)
                ELSE <<Hard(Rec("result", r.by, r.ref, "refused"))>>
      resolution == IF IsPending(Loaded, r.ref)
                    THEN <<Aside(Rec("resolution", r.by, r.ref, verdict))>> ELSE << >>
      found == \/ IsPending(Loaded, r.ref)
               \/ told # None /\ \E i \in DOMAIN r.ctx : r.ctx[i].kind = "pending"
                                                         /\ r.ctx[i].ref = r.ref
  IN  /\ At(d, "resolve")
      /\ run' = [run EXCEPT ![d] =
                   IF found THEN [@ EXCEPT !.pc = "step", !.n = r.ref % 10,
                                                !.todo = resolution \o settle]
                   ELSE [@ EXCEPT !.pc = "cache", !.todo = Finish(r.by, "PolicyAborted", 0)]]
      /\ UNCHANGED <<deploy, rows, numbers, cache, triggers, faults, watcher, met>>

\* Mutant of Carried: the context does not get what a suspension waits for.
CarriedUnseen(act, t, n) ==
  CASE act = "Respond" -> Finish(t, "Responded", 0)
    [] act = "Yield" -> Finish(t, "Yielded", 0)
    [] act = "Continue" -> << >>
    [] act = "Plan" -> <<Hard(Rec("deliberation", t, 0, ""))>>
    [] act = "Search" -> [i \in 1..2 |-> Hard(Rec("observed", t, i, act))]
    [] act = "Call" -> Runs(t, 10 * t + n)
    [] act = "Ask" -> <<Aside(Rec("pending", t, 10 * t + n, ""))>>
                      \o Finish(t, "Suspended", 10 * t + n)
    [] act = "Delegate" -> <<Hard(Rec("delegation", t, t, "")), Hard(Rec("observed", t, t, ""))>>
                           \o Finish(t, "Delegated", t)
\* execute_action of trigger t's n-th action: what is to be appended and whether
\* the advance then has an outcome.
Carried(act, t, n) ==
  CASE act = "Respond" -> Finish(t, "Responded", 0)
    [] act = "Yield" -> Finish(t, "Yielded", 0)
    [] act = "Continue" -> << >>
    [] act = "Plan" -> <<Hard(Rec("deliberation", t, 0, ""))>>
    [] act = "Search" -> [i \in 1..2 |-> Hard(Rec("observed", t, i, act))]
    [] act = "Call" -> Runs(t, 10 * t + n)
    [] act = "Ask" -> <<Hard(Rec("pending", t, 10 * t + n, ""))>>
                      \o Finish(t, "Suspended", 10 * t + n)
    [] act = "Delegate" -> <<Hard(Rec("delegation", t, t, "")), Hard(Rec("observed", t, t, ""))>>
                           \o Finish(t, "Delegated", t)
Ends(act) == act \in {"Respond", "Yield", "Ask", "Delegate"}

\* Mutant of FollowPlan: the new record does not count the step.
FollowPlanForever(d, p) ==
  LET act == PlanActions[p.ref + 1]
      record == Do(Rec("plan", p.by, p.ref, "open"), TRUE, FALSE)
  IN  run' = [run EXCEPT ![d] = [@ EXCEPT !.pc = IF Ends(act) THEN "cache" ELSE "between",
                                          !.todo = <<record>> \o
                                            Carried(act, run[d].by, run[d].n + 1)]]
\* The next step of the plan of record p, which only the plan's new record remembers.
FollowPlan(d, p) ==
  LET act == PlanActions[p.ref + 1]
      word == IF p.ref + 1 = Len(PlanActions) THEN "completed" ELSE "open"
      record == Do(Rec("plan", p.by, p.ref + 1, word), TRUE, FALSE)
  IN  run' = [run EXCEPT ![d] = [@ EXCEPT !.pc = IF Ends(act) THEN "cache" ELSE "between",
                                          !.todo = <<record>> \o
                                            Carried(act, run[d].by, run[d].n + 1)]]

\* The provider is asked, for an action that is then carried out.
AskProvider(d) ==
  \E act \in deploy.acts :
    run' = [run EXCEPT ![d] = [@ EXCEPT !.pc = IF Ends(act) THEN "cache" ELSE "between",
                                        !.todo =
                                          <<Hard(Rec("decision", run[d].by, run[d].n + 1, act))>>
                                          \o Carried(act, run[d].by, run[d].n + 1)]]

\* perform_single_step: a plan comes before the limits, and they before a decision.
Step(d) ==
  LET plan == ActivePlan(run[d].ctx)
      planned == plan # None /\ plan.ref < Len(PlanActions)
  IN  /\ At(d, "step")
      /\ \/ planned /\ FollowPlan(d, plan)
         \/ ~planned /\ run[d].n < MaxSteps /\ AskProvider(d)
         \/ /\ ~planned /\ run[d].n >= MaxSteps
            /\ run' = [run EXCEPT ![d] = [@ EXCEPT !.pc = "cache",
                                              !.todo = Finish(run[d].by, "MaxSteps", 0)]]
      /\ UNCHANGED <<deploy, rows, numbers, cache, triggers, faults, watcher, met>>

\* The last step of finish: what the advance holds becomes the projection, unless
\* the cache fails.
Cache(d) ==
  /\ At(d, "cache")
  /\ \/ cache' = run[d].ctx /\ UNCHANGED faults
     \/ faults < deploy.faults /\ faults' = faults + 1 /\ UNCHANGED cache
  /\ run' = [run EXCEPT ![d] = Idle]
  /\ UNCHANGED <<deploy, rows, numbers, triggers, watcher, met>>

\* advance_continue, for the first trigger behind the last outcome; without one,
\* or when the ledger cannot be loaded, the host gets an outcome and stops.
Continue(d) ==
  LET s == Loaded
      tail == SinceOutcome(s)
      at == {i \in DOMAIN tail : tail[i].kind = "trigger"}
      t == tail[Min(at)].by
      g == ActiveGraph(s)
      rest == IF g = None THEN << >>
              ELSE <<Aside(Rec("joined", t, g.ref, "")), Hard(Rec("result", t, g.ref, "ok"))>>
  IN  /\ At(d, "between")
      /\ \/ /\ at # {}
            /\ run' = [run EXCEPT ![d] = [@ EXCEPT !.pc = "step", !.by = t, !.ctx = s,
                                                   !.todo = rest, !.n = StepCount(s)]]
            /\ met' = Overlaps(d, t) /\ UNCHANGED faults
         \/ /\ at = {} \/ faults < deploy.faults
            /\ faults' = IF at = {} THEN faults ELSE faults + 1
            /\ run' = [run EXCEPT ![d] = Idle] /\ UNCHANGED met
      /\ UNCHANGED <<deploy, rows, numbers, cache, triggers, watcher>>

-----------------------------------------------------------------------------
(* Clients and hosts. *)

\* The host records that an open task is done, between two advances.
Report ==
  /\ deploy.reports /\ numbers < deploy.rows /\ Busy = {}
  /\ \E t \in DOMAIN AgentState(Loaded).tasks :
       /\ AgentState(Loaded).tasks[t] \in Open
       /\ rows' = Append(rows, [seq |-> numbers + 1, rec |-> Rec("report", 0, t, "Done")])
  /\ numbers' = numbers + 1
  /\ UNCHANGED <<deploy, cache, run, triggers, faults, watcher, met>>

\* The snapshot a request for a view is answered from: the projection, if any.
Served == IF cache # << >> THEN cache ELSE Loaded

\* Mutant of Poll: only a higher number is news.
PollHigher ==
  /\ deploy.observer = "stream" /\ LastSequenceNo > watcher.last
  /\ watcher' = [watcher EXCEPT !.last = LastSequenceNo, !.sent = Visible]
  /\ UNCHANGED <<deploy, rows, numbers, cache, run, triggers, faults, met>>
\* handle_sse_stream: when the last record's number is not the one seen before,
\* all the records are sent.
Poll ==
  /\ deploy.observer = "stream" /\ LastSequenceNo # watcher.last
  /\ watcher' = [watcher EXCEPT !.last = LastSequenceNo, !.sent = Visible]
  /\ UNCHANGED <<deploy, rows, numbers, cache, run, triggers, faults, met>>

\* A client asks for the records page after page.
ReadPage ==
  LET page == Page(watcher.offset)
  IN  /\ deploy.observer = "pager" /\ ~watcher.done
      /\ watcher' = [watcher EXCEPT !.sent = @ \cup page.got, !.offset = page.next,
                                     !.start = IF watcher.offset = 0 THEN Visible ELSE @,
                                     !.done = page.next = 0]
      /\ UNCHANGED <<deploy, rows, numbers, cache, run, triggers, faults, met>>

-----------------------------------------------------------------------------
Advance(d) == \/ Number(d) \/ Push(d) \/ AppendFails(d) \/ Drop(d)
              \/ Deliver(d) \/ Read(d) \/ Refresh(d) \/ Reload(d) \/ Resolve(d)
              \/ Step(d) \/ Cache(d) \/ Continue(d)
Next == Report \/ Poll \/ ReadPage \/ \E d \in Drivers : Advance(d)
Spec == Init /\ [][Next]_vars
\* The stream's task polls as long as the client is connected, the runtime polls an
\* advance until it returns, and a host continues it.
Progress(d) == \/ Number(d) \/ Push(d) \/ Read(d) \/ Refresh(d) \/ Reload(d) \/ Resolve(d)
               \/ Step(d) \/ Cache(d) \/ Continue(d)
FairSpec == Spec /\ WF_vars(Poll) /\ \A d \in Drivers : WF_vars(Progress(d))

-----------------------------------------------------------------------------
(* Properties. *)

\* Types.  (engine.rs:253)
TypeOK ==
  /\ deploy \in Deployments
  /\ \A i \in DOMAIN rows : IsRecord(rows[i].rec) /\ rows[i].seq \in 1..numbers
  /\ \A i, j \in DOMAIN rows : rows[i].seq = rows[j].seq => i = j
  /\ deploy.store = "sqlite" => Ordered
  /\ \A d \in Drivers :
       /\ run[d].pc \in {"idle", "read", "refresh", "replan", "summary", "resolve", "step",
                         "between", "cache"}
       /\ run[d].seq \in 0..numbers /\ run[d].by \in 0..triggers
       /\ run[d].seq # 0 => run[d].todo # << >> /\ run[d].seq \notin Visible
  /\ \A i \in DOMAIN cache : IsRecord(cache[i])
  /\ watcher.sent \subseteq Visible /\ watcher.start \subseteq Visible

\* A stream that has seen the last number has sent every record, and a client that
\* has read to the last page got every record that was there when it began: numbers
\* given before and shown after are all either can miss.  The stream misses those
\* in Postgres only, which sorts by number what was committed in another order.
\* (runtime lib.rs:2816, store-pg lib.rs:97)
ObserversMissOnlyLate ==
  /\ deploy.observer = "stream" /\ watcher.last = LastSequenceNo =>
       \A i \in DOMAIN rows : \/ rows[i].seq \in watcher.sent
                              \/ deploy.store = "postgres" /\ rows[i].seq < watcher.last
  /\ deploy.observer = "pager" /\ watcher.done => watcher.start \subseteq watcher.sent

\* Where records are loaded in the order they came to be shown, a stream comes to
\* have sent everything there is, however the advances interleave.
\* (runtime lib.rs:2816, memory.rs:383)
StreamCatchesUp ==
  []<>(deploy.observer = "stream" /\ deploy.store # "postgres" => watcher.sent = Visible)

\* Two tasks get one number only by advances that overlapped, or when an append or
\* a load has failed: the number is counted from a snapshot, not drawn.
\* (cognition lib.rs:120, engine.rs:329)
TaskNumbersClashOnlyByOverlap ==
  \A i, j \in DOMAIN rows :
    LET a == rows[i].rec
        b == rows[j].rec
    IN  i # j /\ a.kind = "task" /\ b.kind = "task" /\ a.ref = b.ref
          => faults > 0 \/ {a.by, b.by} \in met

\* A plan is never left: the record that completes it hides nothing, so its last
\* step is taken again by every later trigger and the model is not asked any more.
\* (types.rs:2016, engine.rs:727)
PlanNeverLeft ==
  \A i, j \in DOMAIN rows :
    i < j /\ rows[i].rec.kind = "plan" /\ rows[j].rec.kind = "decision" => faults > 0 \/ met # {}

\* Where advances alone append, one after the other, and nothing fails, the view that
\* is served is the view of the first records of the ledger, for some
\* number of them, but for one thing: a cached projection lacks the verdict on an
\* approval, and goes on showing it as pending after it was given.
\* (engine.rs:1832, runtime lib.rs:1743)
ViewsReconstructable ==
  faults = 0 /\ met = {} /\ ~deploy.reports /\ cache # << >> =>
    \E n \in 0..Len(rows) :
      LET then == SubSeq(Loaded, 1, n)
          past == View(then, LatestOutcome(then))
          now == View(Served, LatestOutcome(Served))
      IN  \/ now = past
          \/ /\ now.approval # past.approval /\ Resolved(Loaded, now.approval)
             /\ \A f \in {"outcome", "task", "wake", "wakes", "graph"} : now[f] = past[f]

\* An advance that is alone and not interrupted comes to an end, with an outcome or without:
\* by the limit on steps, or by the plan's last step.  (A plan whose last step ends
\* nothing is followed for ever, past every limit.)  (engine.rs:583, engine.rs:727)
AdvancesEnd ==
  deploy.width = 1 => \A d \in Drivers : [](run[d].pc # "idle" => <>(run[d].pc = "idle"))
=============================================================================
