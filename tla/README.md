# RainEngine in TLA+

A specification of the agent kernel of RainEngine and of the workers, stores, planners, skills
and providers around it: what the durable ledger of a session may look like after any sequence
of deliveries, continuations, approvals, retries and interruptions, what clients and the
language model are shown of it, and how the calls it plans are run. The modules are translated
from the Rust sources; the README of the repository, its comments and its tests are used only
to say what was promised. Paths below are relative to the repository; `engine.rs`, `types.rs`
and `memory.rs` are in `rain-engine-core/src/`.

## The system

A *host* (runtime route, ingress worker, embedding program) calls
`AgentEngine::advance(Trigger | Continue)` until it returns an outcome. An advance is a
future: it reads the session's ledger, appends records one at a time, asks the LLM provider,
runs skills, and may be dropped at any `.await`. Everything an advance knows is lost with it,
except the ledger. Nothing in the engine orders the advances of one session.

| Part | State | Operations | Hard behaviour | What makes it correct |
|---|---|---|---|---|
| Tool graph execution (`engine.rs` `execute_planned_calls`, `prepare_node`, `skip_blocked_nodes`, `run_prepared_call`) | graph and checkpoint records; in memory the status, attempts and results of nodes and a `JoinSet` | record graph, queue, skip, prepare, start, spawn, retry, join, append results | interruption between any two appends; parallel tasks that finish in any order; skips against the node order; unknown or cyclic dependencies | completed work is not repeated; dependencies first; every node settled; one result per call |
| Session kernel (`engine.rs` `advance_trigger`, `advance_continue`, `perform_single_step`, `execute_action`, `suspend`, `finish`; projections in `types.rs`) | the session's records; in memory a snapshot, the step, the failure count | deliver a trigger or an approval, continue, decide, suspend, execute, finish | redelivery, late and opposite approvals, counts recomputed from the ledger, overlapping advances | no call before its approval; verdicts final; one outcome per key; budgets respected; every trigger answered |
| Self-improvement (`run_self_improvement`, `propose_policy_tuning`, `maybe_rollback_regression`, `active_policy_overlay`) | tuning records; the policy of an advance | propose, apply, roll back, reject | tunings decided on old snapshots; one request's overlay applied to the policy of another | limits are lowered only to what an earlier request allowed; rollbacks undo |
| Ingress worker (`rain-engine-ingress/src/lib.rs`) and coordination store (`coordination.rs`, `rain-engine-store-valkey`) | stream entries, claims with a lifetime | read, claim, refuse, run, acknowledge, release | claims that run out, crashes, two-step release, entries that are never read again, runs of two keys in one session | no acknowledged request is forgotten; none is run twice without a cause |
| Memory, SQLite and Postgres stores (`memory.rs`, `rain-engine-store-*`) | records with sequence numbers | append, load, page, look up by key and by token | a number is given in one step, the record shown in another | a page or a stream skips nothing it could have seen |
| State projection and cache (`agent_state`, `derive_trigger_kernel_events`, `state_cache.rs`) | tasks, wakes, plans and approvals derived from events; the snapshot cached at an outcome | fold events, cache, reload | a view served from an old snapshot | a view is the view of some prefix of the ledger |
| Planner, plans, summaries (`rain-engine-cognition`, `active_execution_plan`) | task and plan records | propose, take a step, complete, summarise | numbers counted in a snapshot; the completing record is skipped by the lookup | task numbers differ; plans end |
| Runtime (`rain-engine-runtime`) | settings, engine, ingress | HTTP routes, request timeout, skill installation, event stream | a timeout drops an advance; polling by sequence number | what a client sees is in the ledger |
| Skills and WASM host (`rain-engine-skills`, `rain-engine-wasm`, `skill_store.rs`) | registry and stored skills; the epoch of a version; guests, children | install, reload, try, time out, cut off | overlapping installs; an epoch shared by all calls of a version; guests that wait for a thread or a host | a restart serves what was served; only timeouts cut guests off; every call returns |
| Providers (`build_provider_contents`, `rain-engine-openai`, `rain-engine-provider-gemini`) | the window of records shown; context caches | build messages, cache, answer | the window's cut, batches, drops and approvals between a call and its results; a cache that gets old | calls and results belong together; everything meant is shown |
| Channels, blobs, retrieval, client, macros | - | translate or move data | may fail | outside the kernel's promises |

## Modules

| Module | Models | Uses |
|---|---|---|
| `TaskGraph` | *abstract*: each call of a graph is settled once, after its dependencies, or skipped for one that failed | |
| `ToolGraph` | the checkpointed execution of one graph | implements `TaskGraph` |
| `Session` | *abstract*: what hosts may rely on in one session: calls asked for, approved, rejected, run, and keys answered | |
| `Kernel` | the advances of one session over its ledger | implements `Session`; a graph is one node in it, whose inside is `ToolGraph` |
| `PolicyTuning` | overlays and the effective policies of requests, which `Kernel` takes as constants | |
| `Ingress` | stream workers with claims around an engine reduced to open triggers and answered keys | |
| `SessionRecords` | what is read from a sequence of records: agent state, plans, graphs, approvals, the view of a client | |
| `LiveSession` | advances with planner and summaries, stores that number before they show, the cache, and watching clients | `SessionRecords` |
| `SkillHost` | installing skills, and the tries, timers, epochs and guests of calls | |
| `Conversation` | the messages of each provider request, Gemini's context cache, the answers | |
| `MCToolGraph`, `MCKernel`, `MCPolicyTuning`, `MCIngress`, `MCLiveSession`, `MCSkillHost`, `MCConversation` | instances for TLC | |
| `ToolGraphProofs`, `KernelProofs`, `KernelSessionProofs`, `PolicyTuningProofs`, `IngressProofs`, `SkillHostProofs`, `LiveSessionProofs`, `ConversationProofs` | theorems and their proofs | |

Definitions named in a comment as *mutant* are deliberate errors, never used: with one of them
in the place of the definition it belongs to, a property of the module must fail.

### ToolGraph

`graphRecorded`, `log` (the checkpoints by call, with status and attempt) and `toolResults`
are the ledger and survive `Interrupt`, which is a crash, a dropped future or a failed append;
every other variable except the bounds is a local of the future and is reset by `DropFuture`.
`Enter` is the head of `execute_planned_calls`, reached by `Take` (a `CallSkills` decision or
an approval), `Continue` (`advance_continue` while `active_tool_execution_graph` finds the
graph) and `Reapprove` (an approval delivered again). One action is one append or one
stretch without an await: `RecordGraph`, `QueueNode`, a pass of `skip_blocked_nodes`
(`SkipNode`, then `StartBatch`, `SkipAgain` or `FinishGraph`), `Validate`/`Refuse`/`Start`/
`Spawn` of `prepare_node`, `Retry`/`Return` of a task, `Join`, and the caller's
`AppendResult` and `Leave`. The `cursor` is the position in the loop over the nodes. The data
of a call, its arguments and its errors are abstracted to which of the refusals may
happen (any) and to the final status. Call ids are distinct; a provider that repeats one
is in the hazards only. Time is abstracted: a timeout may happen at any try, but a
`TimedOut` result is final only after the last one.

### Kernel

`log` is the sequence of records; a trigger, a call and a resume token are named by the
position of the record that introduces them (in the code they are fresh UUIDs or the
provider's ids). `run[d]` is the future of an advance: where it waits, its snapshot (`upto`,
the length of the ledger when it was loaded), the step and failure counts computed *then*,
and what it is about to do. The projections (`ActiveTrigger`, `StepCount`, `FailureSteps`,
`GraphId`, `GraphActive`, `IsPending`, `Answered`) are the functions of `types.rs` and
`memory.rs`. Provider actions are grouped by what the engine does with them (`AllActs`). The
lookup by idempotency key does not fail in the model; in the code an error there counts as
"no outcome". Cancellation, deadline and cost are one `Stop`, possible at any step.

### PolicyTuning

`tunings` is the sequence of tuning records, an overlay is named by the position of the
record that proposes it. `run[d].known` and `seen` are what an advance had loaded. Each request
comes with a policy of its own (`Requests`): the limits, and the settings of its self-improvement
(one that is not enabled waits for more outcomes than there are). An overlay holds absolute
values and is applied to whichever request comes next (`Effective`), so limits tuned for a small policy
hold for a large one as well. `came` remembers the policies that have come. The float
arithmetic of `increase_by_percent` is integer division rounded up: exact for the percentages
used, and otherwise at most one lower than the code. The multiplier of `max_steps` grows
with the number of outcomes and is capped at 200 %, as in the code. `MaxStepsReached` is no
regression. `Shadow` mode behaves as `Advisory`: the task that a comment at
`engine.rs:2316` says will elevate shadow overlays does not exist in the repository.

### Ingress

An entry of the stream is handed out once, in the stream's order (`XREADGROUP` with `>`), then acknowledged or left
pending for good. `claims` is the Valkey key per trigger key; `Expire` may remove a claim
at any time because it is set for 300 s and never renewed. `release_claim` is `Compare` and
`Delete`. The in-memory store behind `memory://` differs by doing both at once; an ingress
worker needs Valkey for its stream anyway. `Unrecorded` is an outcome that is not in the
ledger: `storage_failure_outcome`, or an append that `finish` only logs.

`run_until_terminal` is `Ask` and `Begin` (or `Replay`), then `Continue` any number of times, then `Finish`,
`NoneActive`, `Unrecorded` or `Error`. `open[s]` are the triggers behind the last outcome of a session,
and `turn[w]` is the request the worker's advance is about: at first the entry's own, after `Continue` the
session's first open one, with its key (`engine.rs:603-634`). So with two keys of one session
in flight a run may record the other's outcome, or find nothing open and return without one. `beside`
and `crossed` are history variables: which runs met another request, and how often a request was
left unanswered by one that did. An entry without a key is claimed by its id and asked for by nobody
else; the model answers it under that id, which nothing looks up.

### SessionRecords and LiveSession

`SessionRecords` holds the functions of a sequence of records that the store, an advance and
the cache apply alike: the fold of kernel events, `active_execution_plan`, the active graph,
the pending approval, and the view of the runtime's session routes. In `LiveSession` an append is
`Number` (the store gives a sequence number) and `Push` (the record is shown), because the
in-memory store uses two locks and Postgres draws a number before it commits; SQLite does both
at once. `rows` are in the order they came to be shown; `Queried` is what a load returns, which for
Postgres puts each row at its `Place` by number, and SQLite's are in that order already. `run[d].todo` are the records an advance has still to append before it goes on, and
`run[d].ctx` is the snapshot it adds them to (graphs and checkpoints are not added to
it in the code either). The four deployments of a planner are none, `MinimalTaskGraphPlanner`,
`ResearchPlanner` and one that proposes an execution plan; a
plan's steps are taken before the limits are looked at (`engine.rs:727`). `Cache` writes the
projection at an outcome. `watcher` is a client of the event stream (`Poll`) or of the
record pages (`ReadPage`). A fault is a failing append, load or cache, or a dropped advance.
`met` is a history variable: which advances overlapped.

### SkillHost

A version of a skill is the install that brought it. `install_skill` and the runtime's route
store the row and then replace the registry's entry; `CrashAndRestart` registers the natives
and reloads the store. A call is a task of `run_prepared_call` and `exec[<<c, n>>]` the guest
or native of its n-th try: queued for a blocking thread, running, inside a host call, or
ended. The timer of a call moves the epoch of the version (`left` counts down for every
started guest of it), whatever the guest is doing; a queued guest gets its deadline when it
starts. `stale` and `late` are history variables. Trap kinds are abstracted to retryable or
not, arguments and results are left out.

### Conversation

A record is its kind and the calls, the trigger or the cache it is about. `Window` is the 32
of the code, unabridged, since what is torn depends on how many records a call (7) and an
exchange of n calls (7n + 2) append. `context` is what the driver holds, `request` the
messages meant, the messages sent and the cache they are sent with. Texts are left out.

Calls are numbered for the model's use; `plans` keeps each batch with its step and whether the provider
gave ids (`named`). Without them the ids are the calls' places in the answer, the same in every
answer (with Gemini, where the same parts precede the calls), and `existing_or_new_graph` takes the last graph with the step and these ids for the new
one (`Alike`). `running` is what of it has not ended; `shadowed` collects the calls that came with such
ids. Counts of steps restart at an outcome, so a second turn meets the graphs of the first. A plan without
steps leads the engine to the provider and puts a message behind the trigger (`Guide`); of a plan
with steps a step is taken and nothing is asked.

## What the runs check

All cfgs say `CHECK_DEADLOCK FALSE`: hosts stop when everything is answered, and the model's
bounds stop the rest.

| Run | Bounds | Shows |
|---|---|---|
| `graph_fork` | 3 calls, two depend on the first; width 2; 2 attempts; 2 interruptions; approvals delivered again (260,229 states) | `TypeOK`, `SettledOnce`, `DependenciesFirst`, `SkippedForCause`, `RepeatsOnlyInterrupted`, `OneResultPerCall`, `ResultsLostOnlyByInterruption`, and the refinement of `TaskGraph` |
| `graph_loop` | 6 calls: a chain listed in reverse, two of their own, one that waits for an unknown id; width 2; 1 attempt; 1 interruption; fair (113,528) | `PriorityRespected` across batches, `NothingLeftReady`, `EveryGraphSettles` |
| `kernel_session` | one advance at a time; Respond/Call/Ask; 3 requests; one key; 1 interruption (567,329) | `TypeOK`, `CallRunsOnce`, `ApprovalGate`, `OneOutcomePerKey`, `OutcomeClosesItsTrigger`, `ResultsTruthful`, and the refinement of `Session` |
| `kernel_limits` | all actions; `max_steps` 2, one failing step; 2 requests; 1 interruption; fair (60,531) | `StepBudget`, `FailureBudget`, `EveryTriggerAnswered` |
| `ingress_claims` | 3 workers, 3 deliveries of a key and, second in the stream, one of another of the session; one fault, one lapse; fair (974,114) | `OverlapNeedsLapse`, `NotForgotten`, `RunAgainOnlyForCause`, `EveryEntryTaken` |
| `tuning` | two advances at once, 4 in all; requests of two policies, limits 0, 7, 3 with +25 % and 20, 5, 9 with +50 %; symmetric advances (237,577) | `LoweredOnlyToEarlier`, `RollbackUndoes` |
| `live_session` | 11 deployments: two advances on each of three stores beside a stream or a pager, two with a planner, and one advance with each planner, with a fault, with wakes and with all actions; 2 triggers, 2 steps; pages of 2; fair (206,418) | `TypeOK`, `ObserversMissOnlyLate`, `TaskNumbersClashOnlyByOverlap`, `PlanNeverLeft`, `ViewsReconstructable`, `StreamCatchesUp`, `AdvancesEnd` |
| `skill_host` | one native and one installable name; two installs that may overlap; a call of two tries and one of one; 1 crash; fair | `StoredIsServed`, `CutOffOnlyByTimeout`, `LateGuestsEnd`, `EveryCallReturns` |
| `turns` | window 32; answers of four calls, with ids or without; 3 triggers, 3 requests; a cache, a plan and a summary (3,529,341) | `ExchangesWhole`, `AsksAboutLatest` |
| `kernel_unrecorded`, `kernel_unfinished`, `gemini_cache` | smallest that shows it | the divergences below |

Why the bounds are enough: three calls are the least in which two nodes run in parallel and
both wait for a third, so that a skip, a late join and an interruption can meet; five are the
least that also overflow a batch and need two skip passes, and a sixth waits in vain. Two
interruptions let a resumed graph be interrupted again. Three requests let an original, a
redelivery and an answer of a human meet in one session; a fault and a lapse for three workers
let a holder lose its claim to a second and disturb a third. Two writers and a reader are the
least in which a record can be shown behind the reader; two triggers let a plan outlive the
request it was made for and a number be counted twice. Two calls of one version let the timer
of one reach the guest or the retry of the other; a crash between two installs leaves each of
the two orders. Two exchanges of four calls do not fit a window of 32 records, and with three triggers a
later turn can meet the graph of an earlier one. Two keys in one session are the least that can take each other's trigger,
and two policies the least of which one can be applied with the other's overlay. What the
bounds leave out: zero attempts (a task that fails without being invoked is in the model and
in the proofs, not in a run), graphs inside `Kernel` of more than one node, and two
overlapping advances of `Kernel` (they are in its theorems).

With *two* advances of a session at once `OneOutcomePerKey`, `OutcomeClosesItsTrigger`,
`StepBudget`, `CallRunsOnce` and `ResultsTruthful` are false, and a verdict may be followed by
the opposite one: each advance decides on its own snapshot, and nothing serialises them. The
runs of one driver are for hosts that do, and so are the theorems of `KernelSessionProofs`, which
assume it (`Serial`). `ApprovalGate` holds either way, and is proved so.

### Fairness

The runtime polls a future until it returns, and skills return (`WF` of the driver's and the
tasks' steps in `ToolGraph`, `Kernel`, `LiveSession`). Hosts loop until there is an outcome:
`run_until_terminal_trace` in the runtime and `run_until_terminal` in the ingress call
`advance(Continue)` again, hence `WF` of `Continue`. Workers call `run_once` in a loop; of them it
is enough that some step of a worker is taken while there is one (`WF` of all their steps together). The
stream's task polls while its client is connected. Deliveries, approvals, interruptions,
faults, installs, crashes and expiries are never fair.

In `SkillHost` the timers of calls are fair and their tasks are polled; nothing is assumed of
the threads guests wait for, nor that a guest or a child ends. A guest that runs keeps
meeting the points where the epoch is checked, if only between calls of the host that
answer (`SF` of `Cut`). The engine itself puts no timeout around a skill: `EveryCallReturns` is about guests,
whose call waits for `timeout_ms` + 50, and about the natives that set a timer. A native that
sets none (`install_skill` while it downloads, `memory_search`) can hang the advance.

### Divergences

* `kernel_unrecorded`: the step number restarts after an approval; with it the identifier
  `{trigger}:{step}` of a graph may be one that is taken, and the new graph is run without a
  record (README.md:128-130).
* `kernel_unfinished`: an unfinished graph is looked for only behind the last outcome; once
  another advance ends, it is never resumed (README.md:129-130).
* `gemini_cache`: a context cache of all but the last message is made once; every later
  request of the session finds its id and sends only its own last message, so the turns in
  between are never shown (`rain-engine-provider-gemini/src/lib.rs:227`).

Properties that say exactly how far the code goes, where one would expect more:
`ResultsLostOnlyByInterruption` (a result is lost between a checkpoint and its `ToolResult`),
`StepBudget` and `FailureBudget` (approvals and resumed graphs go past the limits),
`PlanNeverLeft` (a completed plan is found again), `ViewsReconstructable` (a cached projection
lacks the verdict on an approval, so the view goes on showing it as pending),
`ObserversMissOnlyLate` (a stream on Postgres misses what was committed late under a lower
number), `ExchangesWhole` (results are torn from their call at the window's start, and calls without
ids may meet an earlier graph), `LoweredOnlyToEarlier` (a limit may fall below the request's),
`RunAgainOnlyForCause` (two requests of a session disturb each other).

Also observed, without a run of its own:

* A refused call that is interrupted loses its result, though invalid inputs should "become
  structured tool results" (README.md:131-132). A continuation may run two graphs in one
  advance, and with a planner or a summary the provider is asked up to three times
  (README.md:123-126).
* The idempotency key of two sessions is one claim: the second trigger is acknowledged and
  dropped (README.md:13-16), which is why `AcknowledgedNotForgotten` assumes one session per key.
* Two keys of one session in flight: `run_until_terminal` takes the session's first open trigger, so
  one request's outcome may be recorded under the other's key, or its run return "no active trigger".
  It is acknowledged without an outcome of its own, and its next delivery runs it again.
* A turn whose calls have no ids may be taken for an earlier one (`gemini-call-{index}`,
  `openai-call-{index}`; `engine.rs:2376`): its calls are recorded in the decision, but neither run
  nor answered.
* Only the latest overlay applies, so an overlay of one field drops an earlier raise of
  another. It is applied as it is to every policy: after "increasing future step budget" from 2 to
  3 a request with a limit of 20 runs with 3 (`engine.rs:2285`, `types.rs:989`). On Valkey a claim that lapses between the two steps of a release takes its
  successor's claim with it, which is why `OverlapNeedsLapse` counts lapses rather than
  holders whose own claim lapsed.
* A plan whose last step does not end the advance is followed for ever, past every limit.
* A timeout of one call traps every started guest of the version, with a retryable error; a
  guest that was queued starts later and is stopped only by its fuel, and without `max_fuel`
  it has none. A child of `shell_exec` outlives its timeout beside a retry, and guests of a
  dropped advance have no timer. An install over a native's name is undone by a restart, and
  Postgres has no skill store.
* `approval_required: true` in a manifest is not consulted (`engine.rs:1353-1366`).
* A new trigger, an approval or an interruption between a call and its results also parts them in
  the window; calls of an interrupted graph stay unanswered. `retryable` of a provider's error
  is used nowhere. A cache id that has expired is used on. After a `Continue` the repeated
  trigger is the first since the last outcome. The slice at
  `rain-engine-provider-gemini/src/lib.rs:478` may panic inside a character.

## What is proved

With TLAPS, for every value of the constants the assumptions of the modules allow.

`ToolGraphProofs`, for every finite set of calls, every dependency relation (cyclic and dangling
ones included), every order, priority, limit and number of interruptions:

* `TypeCorrect`: `Spec => []TypeOK`;
* `CompletedWorkNotRepeated`: `Spec => []SettledOnce`, a call's terminal checkpoint is its last;
* `DependenciesRespected`: `Spec => [](DependenciesFirst /\ SkippedForCause)`;
* `ImplementsTaskGraph`: `Spec => KeepsPromise`, the refinement.

None of the three properties is inductive: a step appends a checkpoint because of what the
driver *believes*, its `status` map, which was read from the ledger when the advance entered
and updated along the way. The inductive invariant `IInv` ties belief to ledger. Its parts
say that the driver knows a node as settled exactly when its last checkpoint is terminal,
that an idle driver believes nothing, that a node of a batch being prepared and a node with a
task are unsettled and distinct and have all dependencies succeeded, that nodes beyond the
cursor of the queueing loop have no checkpoint, and that the properties hold. `Inductive`
is the case analysis over the actions, with one lemma for each group of them; the lemmas on
`Append` say how one more checkpoint changes `Latest`, `Starts` and `LargestAttempt`. The
refinement needs the invariant as well: a terminal checkpoint is a `Settle` or `Skip` of
`TaskGraph` only if the call was open, a started one is an `Attempt` only if its number is
new, and everything else stutters.

The same module, about the results a graph leaves behind, repetitions and the loop:

* `ResultsRecordedOnce`: `Spec => []OneResultPerCall`;
* `ResultsKept`: `Spec => []ResultsLostOnlyByInterruption`;
* `RepetitionsBounded`: `Spec => []RepeatsOnlyInterrupted`;
* `LoopEndsDry`: `Spec => []NothingLeftReady`;
* `SkipsCaused`: `Spec => []SkippedForCause`;
* `StartsInOrder`: `Spec => PriorityRespected`, an action property.

Each adds to `IInv` what its property needs. `ResultInv`: a result in hand has no record yet, and
without an interruption a settled node has its record or its result in hand. `CountInv`: the
start records of a node are numbered without a gap; a node that runs has started at most
`interruptions + 1` times, an unsettled one that does not run at most `interruptions` times, and
the tries of all starts but the running one are bounded by `Attempts` each. `PassInv`: what the
skip pass and the selection have established so far in the loop that is about to end.
`BatchInv`: the nodes of the batch that are ahead in the order are running or no longer ready,
and the nodes left out of it come later in the order.

`KernelProofs`, for any set of overlapping advances, keys, actions, limits, requests and interruptions:

* `TypeCorrect`: `Spec => []TypeOK`, which includes that the snapshot, trigger and approval a
  future holds are records of the ledger;
* `ApprovalRespected`: `Spec => []ApprovalGate`.

An advance runs a call because its future carries it, perhaps from a snapshot others have
long gone past, or from a graph another advance recorded. `KernelInv` says that a call a
future carries to its graph, and the call of every recorded graph, is *permitted*: it needs
no approval, or the ledger holds an approval of it. The ledger only grows, so what is
permitted stays permitted (`PermittedStays`); a call becomes permitted when it is decided,
or by the resolution that is appended or found. `FutureMoves`, `Reads` and `Writes` reduce every
action to the one future and the one record it changes.

`KernelSessionProofs`, for any number of drivers whose advances do not overlap (`Serial`: at most
one future is not idle), any keys, actions, requests and interruptions, and any limits, zero
included. `Serial` is an assumption about the hosts, which let an advance return or drop it
before they start the next; the run `kernel_session` is its smallest case, one driver.

* `OutcomesBelong`: `Spec /\ []Serial => []OutcomeClosesItsTrigger`;
* `KeysAnsweredOnce`: `Spec /\ []Serial => []OneOutcomePerKey`;
* `CallsRunOnce`: `Spec /\ []Serial => []CallRunsOnce`;
* `ResultsTrue`: `Spec /\ []Serial => []ResultsTruthful`;
* `StepsBudgeted`: `Spec /\ []Serial => []StepBudget`;
* `FailuresBudgeted`: `Spec /\ []Serial => []FailureBudget`;
* `SessionRefined`: `Spec /\ []Serial => KeepsPromise`, the refinement.

All rest on one reduction: a step moves one future from `f` to `g` and appends at most one
record (`Move(f, g)`, `StepMoves`), and under `Serial` the others are idle and stay so
(`OthersStay`). Each invariant is a *ledger* part, which says what the records mean, and a *fits*
part, which says that the future at work knows as much as the ledger. In `OutcomeInv` it carries
the trigger that is open and its key, unanswered. In `CallInv` a call in its hands has been
decided, has no terminal checkpoint unless it is about to be reported, and has the graph and
the approvals the future believes it has (`InHand`, `JustDecided`, `UpToDate`): with two advances
at once it is this part that breaks. In `ResultInv` what a future is about to report is what
the checkpoint says, and a token that is still pending has a call without results. In `BudgetInv`
a future that may still ask the provider has room for one more decision below the budget, or no
approval in hand and a step number that counts the earlier ones. In `FailureInv` what may
still become a run of failing steps (`Expected`: the last decision's result is yet to come) is
what the future has counted, or an interruption has made room for one step that it does not
count; `WindowMeaning` replaces the greatest and least positions that bound a window of results
by a condition on each. The refinement needs the others:
`PromiseStep` has one case for each kind of record.

`PolicyTuningProofs`, for any set of racing advances and any policies that requests come with:

* `TypeCorrect`: `Spec => []TypeOK`;
* `LimitsLoweredOnlyToEarlier`: `Spec => []LoweredOnlyToEarlier`;
* `RollbacksUndo`: `Spec => RollbackUndoes`, an action property.

The invariant `IInv` says that each limit in a patch of the ledger, and each limit an advance runs
under, is at least what some request of the session came with (`Allowed`): a patch raises the policy
it was proposed against, which is a request's own or one with an earlier patch in it. That the request
need not be the one at hand is the point: were all requests to come with one policy, no limit would
ever fall below it. A rollback restores the policy because the overlays in force below the
one undone are those that were in force before it; the proof needs that the greatest overlay in
force (`Active`) exists, by well-founded induction.

`IngressProofs`, for any finite sets of workers and entries, any keys, faults and lapses:

* `TypeCorrect`: `Spec => []TypeOK`;
* `AcknowledgedNotForgotten`: `Spec => []NotForgotten`, assuming `OneSessionPerKey`;
* `OverlapsPaidFor`: `Spec => []OverlapNeedsLapse`;
* `RepeatsPaidFor`: `Spec => []RunAgainOnlyForCause`.

`IInv` says that workers hold distinct entries, and that a claim in the store belongs to an
entry that is still on its way or whose request was served: then a refused entry may be
acknowledged. Overlap is a counting argument: the workers in the engine without the claim of
their key in the store (`Unclaimed`) are no more than the lapses of the key, which holds
although a release may delete a successor's claim, because such a release was paid for by the
lapse of its own. `RunInv` counts repetitions: while a request has no outcome, its runs are those
going on, those a fault cut short and those that met another request and came back without an
outcome of this one (`crossed`). For that a run that met none must leave its request answered:
`AloneUnlessBeside` says that it has the session to itself, no trigger open but its own and every
advance of a run about it, so that its continuations take its own trigger and key, and
there is one to take.

`SkillHostProofs`, for any names, versions, installs, calls and tries:

* `TypeCorrect`: `Spec => []TypeOK`;
* `CutOffsDue`: `Spec => []CutOffOnlyByTimeout`;
* `RegistryFollowsStore`: `Spec => []StoredIsServed`.

`HostInv` adds that a call that is to try has a try left and that a guest at its deadline has
seen a timer of its version; `Tracked` says of an install between its two steps what the
store holds, unless it has been overtaken.

`LiveSessionProofs`, for any deployments (store, planner, observer, advances in flight), plans,
answers, limits and triggers:

* `LateRecordsAreAllThatIsMissed`: `Spec => []ObserversMissOnlyLate`;
* `PlansAreNeverLeft`: `Spec => []PlanNeverLeft`, assuming that a plan has a step.

The first is by `WatchInv`. `Numbered` says that a number is given once, to a row or to an advance
that holds it, and in SQLite above all those shown; then the places of the rows are a permutation,
and a new row moves none to an earlier place. So a stream that reads rows in the order they are
shown has sent a prefix of them, which ends at the number it saw (`StreamInv`), and what a
client reading pages has still to get lies behind its offset (`PagerInv`).

The second is by `NeverLeftInv`. While nothing has failed and no advances overlapped (`Calm`), at
most one advance is under way; a plan that is shown is one that is followed, since only a plan
that is followed is ever completed, and its earlier record stays; and an advance
about to take a step holds the plan that is shown, because it has loaded the session after
planning (`PlanInv`). So it follows the plan, and no decision becomes due. Without a step in the
plan the theorem would be false: the provider is then asked behind it.

Also of `LiveSession`, for the same constants, and without an assumption of their own:

* `TypesAreKept`: `Spec => []TypeOK`;
* `TasksClashOnlyByOverlap`: `Spec => []TaskNumbersClashOnlyByOverlap`;
* `ViewsAreReconstructable`: `Spec => []ViewsReconstructable`.

`Typed` says of every record, shown or still to be appended or held in a snapshot or the cache,
that its word and its reference are what its kind may have, and of every advance what it may be
about to do. What a planner proposes and a report is about come from the agent state, and that is
a fold of the records (`AgentState`, a `FoldLeft`). The provers know nothing of a fold, which is a
recursive function: one that satisfies an equation, *chosen*. So `FoldingExists` proves first that
there is one for every number of records, since if not there would be a least number without; then
the chosen one satisfies the equation, and `AgentStateFacts` unrolls the agent state from each
record to the next.

`TasksInv` explains the numbers. While nothing has failed, the numbers of the tasks that are shown are
`1..k` for some k, as a set; the next task that an advance has to append has all lower numbers
taken by a shown task or by one before it in its own list; and where its number is
taken by somebody else's task, or becomes so, the two advances have met. It is inductive because
planners number from the count of the tasks in the snapshot, plus one (`PlannersNumber`), that
count is the greatest number taken when the snapshot was read (`TakenFromOne`), and whoever took a
number since then was in flight with the reader (`BusyMet`).

`ViewInv` explains the views. An advance that has planned has loaded the whole ledger behind its
plan, and from then on what it holds is a *thin* snapshot of the ledger (`Thin`): the records of the
ledger in their order, but for some of the kinds it appends and does not keep (`Hidden`: graphs,
joined nodes, verdicts and plans), and with the same agent state. While nothing fails and
advances do not overlap, that stays so with every append, since nobody else appends and rows are
shown in the order of their numbers. So the projection is a thin snapshot of a first part of the
ledger, which ends with an outcome (`Projected`), and goes on being one however the ledger
grows. `ThinViews` then compares the views of the two, one fold after the other: the latest outcome and
what is told are found by the last record that matches and is never hidden (`SameLast`), wakes by
their rank from the end (`SameWakes`), no graph is active behind an outcome
(`FinishedHasNoGraph`), and the pending approval alone may differ, when its verdict is one of
the records that are missing (`ApprovalFacts`).

`ConversationProofs`, for any window, batches, planner or cache and any number of triggers and requests:

* `RequestsAskAboutLatest`: `Spec => []AsksAboutLatest`;
* `ExchangesAreWhole`: `Spec => []ExchangesWhole`.

For the first, `AboutInv` says that triggers are numbered in their order, and that the driver's
trigger is the latest whenever one alone is behind the last outcome; `SinceFacts` and `OpenFacts`
relate the positions behind the last outcome to those of the session. It holds whatever is planned,
held for approval, refused or dropped.

The second has two halves. `WindowIsWhole` is about any sequence of records: if each call has its
results behind it with nothing said in between (`Block`), and each result is in such a block, then
the messages of any window of it are well formed from the first that is no result on. It goes through
`Shows`, the places the messages come from: increasing, and missing nothing that is spoken,
so that what is next to each other among the spoken records is next to each other in the request
(`AnswersFollow`), and a result without its call has nothing but results before it
(`ShownLed`). `WholeInv` then keeps the session so as long as nothing has disturbed it:
everything is answered unless the last two records are calls and their graph (`Running`),
whose numbers are new (`Counted`); executing it answers them (`ExecutedRun`), a continuation finds none open
(`NoneOpen`), and the driver holds what is stored whenever it asks. Calls for which an earlier
graph is found are the exception (`shadowed`, the `lost` of the lemmas): that graph has ended, so
nothing is executed (`NothingAgain`), and the calls stay unanswered while everything else goes
on being whole (`PlannedLost`, `MoreAreLost`). `NthFacts` counts a finite set
of numbers upwards, by a bijection to an interval.

Only model-checked: all liveness, for want of a rule for `ENABLED` in the provers
(`EveryGraphSettles`, `EveryTriggerAnswered`, `EveryEntryTaken`, `EveryCallReturns`, `LateGuestsEnd`,
`AdvancesEnd`, `StreamCatchesUp`). Every safety invariant, action property and refinement that a passing run checks is
also a theorem. The divergences are counterexamples, found by TLC. No module declares a
`RECURSIVE` operator: folds and recursive functions can be reasoned about as said above, though
the induction theorems of the library cannot be cited.

## What is left

Not modelled: blob storage, channel adapters, HTTP client, macros, retrieval ranking and
embeddings, which translate or move data and keep no state the kernel depends on; settings,
access policy and metrics of the runtime; what the built-in skills compute; wire formats,
token counting and prices of the providers; delegation to another agent beyond its record;
streaming callbacks; reflections and strategy preferences, which change only the wording of
prompts; the circuit breaker's count (a refusal is always possible in `ToolGraph`); renewal
and scratchpad of the coordination store, which nothing in the repository calls.

Next: what remains true of `Kernel`'s properties with advances that overlap (`ApprovalGate` does);
and hazards without a property, which `PROJECT.json` lists.
