----------------------------- MODULE ToolGraph -----------------------------
(***************************************************************************)
(* The checkpointed execution of one tool graph by AgentEngine             *)
(* (rain-engine-core/src/engine.rs, execute_planned_calls and the          *)
(* functions it calls), as one driver at a time runs it and as             *)
(* interruptions tear it down: a crash, a dropped future (the runtime's    *)
(* request timeout) or a failed append, each at any await point.           *)
(* The ledger variables survive an interruption, the others do not.        *)
(***************************************************************************)
EXTENDS Integers, Sequences, FiniteSets, FiniteSetsExt

CONSTANTS
  Calls,            \* call ids of the graph's nodes (distinct)
  Deps,             \* [Calls -> set of call ids]; an id may name no node
  Priority,         \* [Calls -> Int]
  Order,            \* [Calls -> 1..N]: ToolNode.provider_order
  MaxParallel,      \* policy.max_parallel_skill_calls
  MaxReady,         \* policy.max_ready_tool_nodes
  Attempts,         \* least max_attempts of node, manifest and policy
  ByApproval,       \* TRUE: the graph runs under an approval trigger
  MaxInterruptions  \* bound of the model on interruptions

N == Cardinality(Calls)

ASSUME GraphAssumption ==
  /\ IsFiniteSet(Calls)
  /\ DOMAIN Deps = Calls
  /\ Priority \in [Calls -> Int]
  /\ Order \in [Calls -> 1..N]
  /\ \A c, d \in Calls : Order[c] = Order[d] => c = d
ASSUME PolicyAssumption ==
  /\ MaxParallel \in Nat /\ MaxReady \in Nat /\ Attempts \in Nat
  /\ ByApproval \in BOOLEAN
  /\ MaxInterruptions \in Nat

VARIABLES
  \* the session ledger
  graphRecorded,  \* the ToolExecutionGraph record is appended
  log,            \* [Calls -> Seq([status, attempt])]: checkpoints by call
  toolResults,    \* [Calls -> Seq(status)]: ToolResult records by call
  \* the driver: the future of one advance
  pc,             \* where it awaits; "idle" when no advance runs
  status,         \* status_by_call ("none" for an absent key)
  attempts,       \* attempts_by_call (0 for an absent key)
  cursor,         \* position of the node loop it is in (queue or skip pass)
  skipped,        \* skip_blocked_nodes changed something in this pass
  batch,          \* nodes of the current batch still to be prepared
  tasks,          \* JoinSet: [Calls -> "none", "running" or the result]
  retries,        \* invocations of the running task
  newResults,     \* new_results: calls settled by this advance
  \* the program around it
  taken,          \* the calls were handed to the engine a first time
  interruptions,  \* interruptions so far
  invocations     \* [Calls -> number of executor.execute calls]

ledger == <<graphRecorded, log, toolResults>>
future == <<status, attempts, cursor, skipped, batch, tasks, retries, newResults>>
env == <<taken, interruptions, invocations>>
vars == <<ledger, pc, future, env>>

Terminal == {"Succeeded", "Failed", "Skipped", "TimedOut"}
Statuses == Terminal \cup {"Queued", "Validated", "Started"}
Unsuccessful == Terminal \ {"Succeeded"}
Outputs == Terminal \ {"Skipped"}  \* final_status_for_result

\* A checkpoint of one node, by what the code reads back from it.
Record == [status : Statuses, attempt : Nat]

-----------------------------------------------------------------------------
(* Projections of the ledger. *)

\* Mutant of Latest: the first checkpoint wins.
FirstStatus(s) == IF s = <<>> THEN "none" ELSE s[1].status

\* latest_tool_statuses
Latest(s) == IF s = <<>> THEN "none" ELSE s[Len(s)].status

Starts(s) == {i \in 1..Len(s) : s[i].status = "Started"}

\* Mutant of LargestAttempt: no started attempt is -1.
LargestOrMinusOne(s) == Max({-1} \cup {s[i].attempt : i \in Starts(s)})

\* started_attempt_counts
LargestAttempt(s) == LET A == {s[i].attempt : i \in Starts(s)}
                     IN IF A = {} THEN 0 ELSE Max(A)

Settled(s) == \E i \in 1..Len(s) : s[i].status \in Terminal

\* active_tool_execution_graph
GraphActive == graphRecorded /\ \E c \in Calls : ~Settled(log[c])

-----------------------------------------------------------------------------
(* The driver's view of the nodes. *)

StatusOf(d) == IF d \in Calls THEN status[d] ELSE "none"
\* Mutant of Ready: a dependency need only not have failed.
ReadyUnlessBlocked(c) == /\ status[c] \notin Terminal
                         /\ \A d \in Deps[c] : StatusOf(d) \notin Unsuccessful
Ready(c) == /\ status[c] \notin Terminal
            /\ \A d \in Deps[c] : StatusOf(d) = "Succeeded"
\* Mutants of Blocked: an unfinished dependency blocks; a skipped one does not.
BlockedByUnfinished(c) == /\ status[c] \notin Terminal
                          /\ \E d \in Deps[c] : StatusOf(d) # "Succeeded"
BlockedByFailure(c) == /\ status[c] \notin Terminal
                       /\ \E d \in Deps[c] : StatusOf(d) \in {"Failed", "TimedOut"}
Blocked(c) == /\ status[c] \notin Terminal
              /\ \E d \in Deps[c] : StatusOf(d) \in Unsuccessful

\* The order ready_nodes sorts by.
Before(c, d) == \/ Priority[c] > Priority[d]
                \/ Priority[c] = Priority[d] /\ Order[c] < Order[d]
AtLeast1(n) == IF n = 0 THEN 1 ELSE n
Width == IF AtLeast1(MaxParallel) < AtLeast1(MaxReady)
         THEN AtLeast1(MaxParallel) ELSE AtLeast1(MaxReady)

\* Mutant of FirstReady: the sort reversed.
LastReady == {c \in Calls : Ready(c) /\
                Cardinality({d \in Calls : Ready(d) /\ Before(c, d)}) < Width}

FirstReady == {c \in Calls : Ready(c) /\
                 Cardinality({d \in Calls : Ready(d) /\ Before(d, c)}) < Width}

\* The node the preparation loop is at: the first of the batch.
AtNode(c) == c \in batch /\ \A d \in batch \ {c} : Before(c, d)

-----------------------------------------------------------------------------
Checkpoint(c, st, n) ==
  log' = [log EXCEPT ![c] = Append(@, [status |-> st, attempt |-> n])]

\* status_by_call and new_results after node c was settled.
Note(c, st) == /\ status' = [status EXCEPT ![c] = st]
               /\ newResults' = newResults \cup {c}

None == [c \in Calls |-> "none"]
Zero == [c \in Calls |-> 0]

Init == /\ graphRecorded = FALSE
        /\ log = [c \in Calls |-> <<>>]
        /\ toolResults = [c \in Calls |-> <<>>]
        /\ pc = "idle"
        /\ status = None /\ attempts = Zero
        /\ cursor = 0 /\ skipped = FALSE
        /\ batch = {} /\ tasks = None /\ retries = Zero /\ newResults = {}
        /\ taken = FALSE /\ interruptions = 0 /\ invocations = Zero

\* The future of the advance is gone, and with it all it knew.
DropFuture == /\ pc' = "idle"
              /\ status' = None /\ attempts' = Zero
              /\ cursor' = 0 /\ skipped' = FALSE
              /\ batch' = {} /\ tasks' = None /\ retries' = Zero /\ newResults' = {}

\* The entry of execute_planned_calls: existing_or_new_graph finds the recorded
\* graph, if any, and the node states are projected from the records.
Enter == /\ pc = "idle"
         /\ pc' = IF graphRecorded THEN "skip" ELSE "record"
         /\ status' = [c \in Calls |-> Latest(log[c])]
         /\ attempts' = [c \in Calls |-> LargestAttempt(log[c])]
         /\ UNCHANGED <<cursor, skipped, batch, tasks, retries, newResults>>
         /\ UNCHANGED <<ledger, interruptions, invocations>>

\* A CallSkills decision, or the first delivery of an approval.
Take == ~taken /\ taken' = TRUE /\ Enter

\* AdvanceRequest::Continue while the ledger shows an unfinished graph.
Continue == GraphActive /\ Enter /\ UNCHANGED taken

\* The approval is delivered again: the pending calls are executed again.
Reapprove == ByApproval /\ taken /\ Enter /\ UNCHANGED taken

RecordGraph == /\ pc = "record"
               /\ graphRecorded' = TRUE
               /\ pc' = "queue"
               /\ UNCHANGED <<log, toolResults, future, env>>

QueueNode(c) == /\ pc = "queue"
                /\ Order[c] = cursor + 1
                /\ Checkpoint(c, "Queued", 0)
                /\ cursor' = IF Order[c] = N THEN 0 ELSE Order[c]
                /\ pc' = IF Order[c] = N THEN "skip" ELSE "queue"
                /\ UNCHANGED <<graphRecorded, toolResults, status, attempts, skipped,
                               batch, tasks, retries, newResults, env>>

-----------------------------------------------------------------------------
(* skip_blocked_nodes, one pass over the nodes in provider order. *)

ToSkip == {c \in Calls : Blocked(c) /\ Order[c] > cursor}

SkipNode(c) == /\ pc = "skip"
               /\ c \in ToSkip /\ \A d \in ToSkip : Order[c] <= Order[d]
               /\ Checkpoint(c, "Skipped", 0)
               /\ Note(c, "Skipped")
               /\ cursor' = Order[c]
               /\ skipped' = TRUE
               /\ UNCHANGED <<graphRecorded, toolResults, pc, attempts, batch, tasks,
                              retries, env>>

EndPass == /\ pc = "skip" /\ ToSkip = {}
           /\ cursor' = 0 /\ skipped' = FALSE
           /\ UNCHANGED <<ledger, status, attempts, tasks, retries, newResults, env>>

StartBatch == /\ EndPass
              /\ FirstReady # {}
              /\ batch' = FirstReady
              /\ pc' = "prepare"

SkipAgain == EndPass /\ FirstReady = {} /\ skipped /\ UNCHANGED <<batch, pc>>

\* Mutant of FinishGraph: it does not look again after a pass that skipped nodes.
FinishAfterSkip == EndPass /\ FirstReady = {} /\ pc' = "results" /\ UNCHANGED batch

FinishGraph == EndPass /\ FirstReady = {} /\ ~skipped /\ pc' = "results" /\ UNCHANGED batch

-----------------------------------------------------------------------------
(* prepare_node. *)

\* The arguments, or the absence of a schema check, are accepted.
Validate(c) == /\ pc = "prepare" /\ AtNode(c)
               /\ Checkpoint(c, "Validated", 0)
               /\ pc' = "start"
               /\ UNCHANGED <<graphRecorded, toolResults, future, env>>

\* Unregistered skill or invalid arguments (before "Validated"); scopes, native
\* skills, dry run or circuit breaker (after it).
Refuse(c) == /\ pc \in {"prepare", "start"} /\ AtNode(c)
             /\ Checkpoint(c, "Failed", 0)
             /\ Note(c, "Failed")
             /\ batch' = batch \ {c}
             /\ pc' = "prepare"
             /\ UNCHANGED <<graphRecorded, toolResults, attempts, cursor, skipped, tasks,
                            retries, env>>

Start(c) == /\ pc = "start" /\ AtNode(c)
            /\ attempts' = [attempts EXCEPT ![c] = @ + 1]
            /\ Checkpoint(c, "Started", attempts[c] + 1)
            /\ pc' = "spawn"
            /\ UNCHANGED <<graphRecorded, toolResults, status, cursor, skipped, batch,
                           tasks, retries, newResults, env>>

\* The ToolCall record is appended and the task spawned.
Spawn(c) == /\ pc = "spawn" /\ AtNode(c)
            /\ batch' = batch \ {c}
            /\ tasks' = [tasks EXCEPT ![c] = IF Attempts = 0 THEN "Failed" ELSE "running"]
            /\ retries' = [retries EXCEPT ![c] = IF Attempts = 0 THEN 0 ELSE 1]
            /\ invocations' = [invocations EXCEPT ![c] = @ + (IF Attempts = 0 THEN 0 ELSE 1)]
            /\ pc' = "prepare"
            /\ UNCHANGED <<ledger, status, attempts, cursor, skipped, newResults,
                           taken, interruptions>>

-----------------------------------------------------------------------------
(* run_prepared_call, in a task of its own. *)

\* Mutant of Retry: one attempt too many.
RetryOnceMore(c) == /\ tasks[c] = "running" /\ retries[c] <= Attempts
                    /\ retries' = [retries EXCEPT ![c] = @ + 1]
                    /\ invocations' = [invocations EXCEPT ![c] = @ + 1]
                    /\ UNCHANGED <<ledger, pc, status, attempts, cursor, skipped, batch,
                                   tasks, newResults, taken, interruptions>>

\* A retryable error (timeout, internal, trap) with attempts left.
Retry(c) == /\ tasks[c] = "running" /\ retries[c] < Attempts
            /\ retries' = [retries EXCEPT ![c] = @ + 1]
            /\ invocations' = [invocations EXCEPT ![c] = @ + 1]
            /\ UNCHANGED <<ledger, pc, status, attempts, cursor, skipped, batch, tasks,
                           newResults, taken, interruptions>>

\* Success, an error that is not retried, or the last attempt's error.
Return(c, o) == /\ tasks[c] = "running"
                /\ o \in Outputs
                /\ o = "TimedOut" => retries[c] = Attempts
                /\ tasks' = [tasks EXCEPT ![c] = o]
                /\ UNCHANGED <<ledger, pc, status, attempts, cursor, skipped, batch,
                               retries, newResults, env>>

\* join_next: the driver waits for tasks once the whole batch is prepared.
Join(c) == /\ pc = "prepare" /\ batch = {}
           /\ tasks[c] \in Outputs
           /\ Checkpoint(c, tasks[c], attempts[c])
           /\ Note(c, tasks[c])
           /\ tasks' = [tasks EXCEPT ![c] = "none"]
           /\ retries' = [retries EXCEPT ![c] = 0]
           /\ UNCHANGED <<graphRecorded, toolResults, pc, attempts, cursor, skipped, batch,
                          env>>

EndBatch == /\ pc = "prepare" /\ batch = {}
            /\ \A c \in Calls : tasks[c] = "none"
            /\ pc' = "skip"
            /\ UNCHANGED <<ledger, future, env>>

-----------------------------------------------------------------------------
(* The caller appends the ToolResult records, in provider order. *)

AppendResult(c) == /\ pc = "results"
                   /\ c \in newResults /\ \A d \in newResults : Order[c] <= Order[d]
                   /\ toolResults' = [toolResults EXCEPT ![c] = Append(@, status[c])]
                   /\ newResults' = newResults \ {c}
                   /\ UNCHANGED <<graphRecorded, log, pc, status, attempts, cursor,
                                  skipped, batch, tasks, retries, env>>

\* Mutant of Leave: the advance returns before the last result is appended.
LeaveEarly == /\ pc = "results" /\ Cardinality(newResults) <= 1
              /\ DropFuture
              /\ UNCHANGED <<ledger, env>>

Leave == /\ pc = "results" /\ newResults = {}
         /\ DropFuture
         /\ UNCHANGED <<ledger, env>>

\* The process stops, the future is dropped (with its JoinSet) or an append
\* fails and `?` returns the error.
Interrupt == /\ pc # "idle" /\ interruptions < MaxInterruptions
             /\ interruptions' = interruptions + 1
             /\ DropFuture
             /\ UNCHANGED <<ledger, taken, invocations>>

-----------------------------------------------------------------------------
NodeStep(c) == \/ QueueNode(c) \/ SkipNode(c) \/ Validate(c) \/ Refuse(c)
               \/ Start(c) \/ Spawn(c) \/ Join(c) \/ AppendResult(c)

DriverStep == \/ RecordGraph \/ StartBatch \/ SkipAgain \/ FinishGraph
              \/ EndBatch \/ Leave \/ \E c \in Calls : NodeStep(c)

TaskStep(c) == Retry(c) \/ \E o \in Outputs : Return(c, o)

Next == \/ Take \/ Continue \/ Reapprove \/ Interrupt
        \/ DriverStep \/ \E c \in Calls : TaskStep(c)

Spec == Init /\ [][Next]_vars

\* The runtime polls the future of an advance until it returns, a skill's
\* execute returns, and the host calls advance again while the graph is
\* unfinished.
Fairness == /\ WF_vars(DriverStep)
            /\ WF_vars(Continue)
            /\ \A c \in Calls : WF_vars(TaskStep(c))

FairSpec == Spec /\ Fairness

-----------------------------------------------------------------------------
(* Properties. *)

\* Every variable keeps its type; the driver's volatile state is typed too.
TypeOK ==
  /\ graphRecorded \in BOOLEAN /\ taken \in BOOLEAN /\ skipped \in BOOLEAN
  /\ log \in [Calls -> Seq(Record)]
  /\ toolResults \in [Calls -> Seq(Terminal)]
  /\ pc \in {"idle", "record", "queue", "skip", "prepare", "start", "spawn", "results"}
  /\ status \in [Calls -> Statuses \cup {"none"}]
  /\ attempts \in [Calls -> Nat]
  /\ cursor \in 0..N
  /\ batch \in SUBSET Calls /\ newResults \in SUBSET Calls
  /\ tasks \in [Calls -> {"none", "running"} \cup Outputs]
  /\ retries \in [Calls -> Nat] /\ invocations \in [Calls -> Nat]
  /\ interruptions \in Nat

\* Completed work is never repeated: whatever interrupts the driver and however
\* it is re-entered, nothing is checkpointed for a node after its terminal
\* checkpoint (execute_planned_calls resumes from latest_tool_statuses).
TerminalLast(s) == \A i \in 1..Len(s) : s[i].status \in Terminal => i = Len(s)
SettledOnce == \A c \in Calls : TerminalLast(log[c])

\* A node is started only after every dependency has durably succeeded, and an
\* interruption never makes a started node's dependency anything else
\* (ready_nodes reads a map that a resume rebuilds from the ledger).
DependenciesMet(c) == \A d \in Deps[c] : d \in Calls /\ Latest(log[d]) = "Succeeded"
DependenciesFirst == \A c \in Calls : Starts(log[c]) # {} => DependenciesMet(c)

\* A node is skipped only for a dependency that durably failed, timed out or was
\* itself skipped (skip_blocked_nodes).
DependencyFailed(c) == \E d \in Deps[c] : d \in Calls /\ Latest(log[d]) \in Unsuccessful
SkippedForCause == \A c \in Calls : Latest(log[c]) = "Skipped" => DependencyFailed(c)

\* The price of an interruption is one repetition of each node it caught: a
\* node is started at most once more than the driver was interrupted, its start
\* records are numbered 1, 2, ... (started_attempt_counts), and the skill is
\* invoked at most the retry limit per start (run_prepared_call).
RepeatsOnlyInterrupted ==
  \A c \in Calls :
     LET starts == Cardinality(Starts(log[c])) IN
     /\ starts <= 1 + interruptions
     /\ LargestAttempt(log[c]) = starts
     /\ invocations[c] <= Attempts * starts

\* A call has at most one ToolResult record, and it agrees with the terminal
\* checkpoint, across resumptions and repeated approvals.
OneResultPerCall ==
  \A c \in Calls : Len(toolResults[c]) <= 1 /\
     \A i \in 1..Len(toolResults[c]) : toolResults[c][i] = Latest(log[c])

\* An advance that returns has recorded the result of every node it settled;
\* only an interruption can lose one (the results are appended after the graph).
ResultsLostOnlyByInterruption ==
  pc = "idle" /\ interruptions = 0 =>
     \A c \in Calls : Settled(log[c]) => toolResults[c] # <<>>

\* The execution loop stops only when nothing can be done: an unsettled node it
\* leaves behind waits for an id that names no node or for an unsettled node, and
\* none of its dependencies has failed (the skip pass is repeated until it finds
\* nothing, whatever the order of the calls).
NothingLeftReady ==
  pc = "results" =>
     \A c \in Calls : ~Settled(log[c]) =>
        /\ \E d \in Deps[c] : d \notin Calls \/ ~Settled(log[d])
        /\ ~DependencyFailed(c)

\* A node is started only when every ready node the sort of ready_nodes puts
\* before it is already running, also when the limits split the ready nodes
\* over several batches.
PriorityRespected ==
  [][\A c \in Calls :
        Starts(log[c])' # Starts(log[c]) =>
           \A d \in Calls : Ready(d) /\ Before(d, c) => tasks[d] # "none"]_vars

\* The nodes that wait for an unknown id, in a cycle, or for such a node.
Hopeless == UNION {S \in SUBSET Calls :
                     \A c \in S : Deps[c] \cap S # {} \/ ~(Deps[c] \subseteq Calls)}

\* A recorded graph is settled in the end, but for nodes that wait in vain, with
\* finitely many interruptions, if the host keeps calling advance.
EveryGraphSettles == graphRecorded ~> \A c \in Calls \ Hopeless : Settled(log[c])

-----------------------------------------------------------------------------
(* The durable part of the state implements TaskGraph. *)

Outcome(c) == IF Settled(log[c]) THEN Latest(log[c]) ELSE "Open"
Tries(c) == LargestAttempt(log[c])

Promise == INSTANCE TaskGraph WITH settled <- [c \in Calls |-> Outcome(c)],
                                   tries <- [c \in Calls |-> Tries(c)]

\* Settling, attempting and skipping nodes through checkpoints, resumptions and
\* interruptions is settling each node once after its dependencies.
KeepsPromise == Promise!Spec
=============================================================================
