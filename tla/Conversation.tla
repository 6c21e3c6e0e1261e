---------------------------- MODULE Conversation ----------------------------
(***************************************************************************)
(* What a language model is shown of a session, step by step: the messages *)
(* made of the last records (build_provider_contents in                    *)
(* rain-engine-core/src/engine.rs), the context cache of the Gemini        *)
(* provider, and the answers that become records again                     *)
(* (rain-engine-provider-gemini, rain-engine-openai).  One session, one    *)
(* driver; a driver may be dropped, and calls may wait for an approval.    *)
(* No plan with steps is followed: a session that has one asks no more     *)
(* (LiveSession).  That a graph's id may come again is ToolGraph's matter. *)
(***************************************************************************)
EXTENDS Naturals, Sequences, FiniteSets, SequencesExt, FiniteSetsExt

CONSTANTS
  Window,      \* the records that are shown (32 in the code)
  Batches,     \* how many calls an answer may plan
  Caching,     \* whether the provider keeps a context cache (Gemini)
  Planner,     \* whether a planner is configured, and so summaries are made
  SummaryAbove,\* the length from which a history is summarised (10 in the code)
  MaxTriggers, \* bound: triggers delivered
  MaxAsks      \* bound: requests to the provider

ASSUME WindowAssumption == Window \in Nat \ {0}
ASSUME BatchesAssumption == Batches \subseteq Nat \ {0}

VARIABLES
  records,   \* the stored session
  context,   \* the records the driver holds
  pc,        \* where the driver is
  trigger,   \* the trigger it answers
  step,      \* the steps it has counted
  running,   \* the calls it executes
  plans,     \* the calls planned, each batch with its step and whether they have ids
  request,   \* the last request: the messages meant, those sent, those in its cache
  asks,      \* requests made
  caches,    \* what is in each context cache the provider has made
  disturbed, \* history: whether a driver was dropped or calls were held for approval
  shadowed   \* history: calls that came with the ids of an earlier graph of their step

driver == <<context, pc, trigger, step, running>>
vars == <<records, driver, plans, request, asks, caches, disturbed, shadowed>>

\* A record: its kind and the numbers it is about (calls, a trigger, a cache).
Rec(kind, of) == <<[kind |-> kind, of |-> of]>>
Others(n) == [i \in 1 .. n |-> [kind |-> "other", of |-> {}]]

OfKind(s, kind) == {i \in DOMAIN s : s[i].kind = kind}
Mentioned(s, kind) == UNION {s[i].of : i \in OfKind(s, kind)}
Ids(n, from) == (from + 1) .. (from + n)
Nth(ids, i) == CHOOSE c \in ids : Cardinality({d \in ids : d < c}) = i - 1
Results(ids) == [i \in 1 .. Cardinality(ids) |-> [kind |-> "result", of |-> {Nth(ids, i)}]]

\* The records after the last outcome.
SinceOutcome(s) ==
  IF OfKind(s, "outcome") = {} THEN s ELSE SubSeq(s, Max(OfKind(s, "outcome")) + 1, Len(s))

\* Mutant of ActiveTrigger: the first trigger of the session.
FirstTrigger(s) == s[Min(OfKind(s, "trigger"))].of

\* SessionSnapshot::active_trigger: the first since the last outcome.
ActiveTrigger(s) ==
  LET open == SinceOutcome(s) IN open[Min(OfKind(open, "trigger"))].of

\* SessionSnapshot::active_tool_execution_graph: the calls of the last graph since
\* the last outcome that have not ended, if any.
OpenCalls(s) ==
  LET open == SinceOutcome(s) graphs == OfKind(open, "graph")
  IN  IF graphs = {} THEN {} ELSE open[Max(graphs)].of \ Mentioned(open, "done")

\* SessionSnapshot::current_step_count: the decisions since the last outcome.
StepCount(s) == Cardinality(OfKind(SinceOutcome(s), "call"))

\* find_pending_approval_by_resume_token: the calls each resume token holds.
Held(s) == {s[i].of : i \in OfKind(s, "pending")}

-----------------------------------------------------------------------------
(* Which graph is executed for calls that are planned.  Calls are numbered; their ids *)
(* are the provider's, or their place in the answer where it gives none.              *)

\* Whether two batches have the same ids.
SameIds(p, q) ==
  \/ p.calls = q.calls
  \/ ~p.named /\ ~q.named /\ Cardinality(p.calls) = Cardinality(q.calls)

\* The graphs in s of the step of p and with its ids, whichever trigger they are of.
Alike(s, p) == {i \in OfKind(s, "graph") : \E q \in plans : /\ q.calls = s[i].of
                                                           /\ q.step = p.step /\ SameIds(p, q)}

\* existing_or_new_graph: the last of those, or a new graph, which is recorded; and
\* its calls that have not ended, which are executed.
NewGraph(s, p) == IF Alike(s, p) = {} THEN Rec("graph", p.calls) ELSE <<>>
GraphCalls(s, p) == IF Alike(s, p) = {} THEN p.calls ELSE s[Max(Alike(s, p))].of
Unended(s, p) == GraphCalls(s, p) \ Mentioned(s, "done")

-----------------------------------------------------------------------------
(* The messages. *)

Spoken == {"trigger", "summary", "respond", "call", "result"}
Truncated(s) == Len(s) > Window
Notice == <<[kind |-> "notice", of |-> {}]>>
\* build_trigger_parts: a trigger is one message, whatever its kind and its parts.
Asking(t) == Rec("trigger", t)

\* The records of s that are messages, in their order.
Messages(s) ==
  LET at == {i \in DOMAIN s : s[i].kind \in Spoken}
  IN  [p \in 1 .. Cardinality(at) |-> s[Nth(at, p)]]

\* build_provider_contents: the records of the window that are messages, after a
\* notice if there are older ones, the trigger once more, and the objective of an active
\* plan (which has no steps, or one of them would be taken and nothing asked).
Guide(s) == IF OfKind(s, "plan") = {} THEN <<>> ELSE Rec("guide", {})
Shown(s, t) ==
  LET shown == IF Truncated(s) THEN SubSeq(s, Len(s) - Window + 1, Len(s)) ELSE s
  IN  (IF Truncated(s) THEN Notice ELSE <<>>)
      \o Messages(shown) \o Asking(t)
Contents(s, t) == Shown(s, t) \o Guide(s)

IsTool(m) == m.kind = "result"

\* Calls and their results belong together: the message of the calls is followed by
\* one message for each result, and there is no other (what the providers require).
\* The calls of lost are left out of account.
WellFormed(m, lost) ==
  /\ \A i \in DOMAIN m : m[i].kind = "call" /\ ~(m[i].of \subseteq lost) =>
       LET n == Cardinality(m[i].of)
       IN  /\ i + n <= Len(m)
           /\ {m[j] : j \in (i + 1) .. (i + n)} = {Rec("result", {c})[1] : c \in m[i].of}
  /\ \A i \in DOMAIN m : IsTool(m[i]) =>
       \E j \in 1 .. (i - 1) : /\ m[j].kind = "call" /\ m[i].of \subseteq m[j].of
                               /\ \A k \in (j + 1) .. i : IsTool(m[k])

\* GeminiProvider::latest_cached_content_id: the last recorded, however old.
LatestCache(s) == IF OfKind(s, "cache") = {} THEN {} ELSE s[Max(OfKind(s, "cache"))].of

-----------------------------------------------------------------------------
Init == /\ records = <<>> /\ context = <<>> /\ pc = "idle" /\ trigger = {}
        /\ step = 0 /\ running = {} /\ plans = {} /\ shadowed = {}
        /\ request = [meant |-> <<>>, sent |-> <<>>, cache |-> {}, made |-> FALSE]
        /\ asks = 0 /\ caches = <<>> /\ disturbed = FALSE

AppendAll(more) == records' = records \o more

\* finish and run_self_improvement: the outcome, and the records of what was learnt.
Outcome == Rec("outcome", {}) \o Others(1)
Leave == /\ pc' = "idle" /\ context' = <<>> /\ running' = {} /\ UNCHANGED <<trigger, step>>
Finish(more) == AppendAll(more \o Outcome) /\ Leave

\* A summary is asked of the provider, with the whole history as its only message;
\* a cache made for it is recorded by nobody.
Summary(s) ==
  IF Planner /\ Len(s) > SummaryAbove /\ OfKind(s, "summary") = {}
  THEN {<<>>, Rec("summary", {})} ELSE {<<>>}

\* The plan a planner may propose, without steps (another one would change nothing).
Proposals(s) ==
  IF Planner /\ OfKind(s, "plan") = {} THEN {<<>>, Rec("plan", {})} ELSE {<<>>}

\* advance_trigger up to the first step: the trigger, its intent, a plan, a summary, the
\* observation.  It may be the approval of calls that are or were held.
Deliver ==
  /\ pc = "idle" /\ Cardinality(OfKind(records, "trigger")) < MaxTriggers
  /\ LET t == {Cardinality(OfKind(records, "trigger")) + 1}
     IN  /\ \E plan \in Proposals(records) :
            LET begun == records \o Asking(t) \o Others(1) \o plan
            IN  \E summary \in Summary(begun) : records' = begun \o summary \o Others(1)
         /\ context' = records'
         /\ trigger' = t
         /\ pc' \in IF Held(records) = {} THEN {"ask"} ELSE {"ask", "resolve"}
  /\ step' = StepCount(records)
  /\ UNCHANGED <<running, plans, request, asks, caches, disturbed, shadowed>>

\* The checkpoints of calls that are executed: five and a last one for each.
Checkpoints(calls, ended) ==
  Others(5 * Cardinality(calls)) \o (IF ended = {} THEN <<>> ELSE Rec("done", ended))

\* The approval's decision, or the one recorded before: the calls that have not ended
\* are executed, or all are refused, and the results come after the trigger.  The
\* graph and its checkpoints are stored, but not in the context.
Resolve ==
  /\ pc = "resolve"
  /\ \E p \in plans, verdict \in {"approved", "rejected"} :
       LET resolved == p.calls \subseteq Mentioned(records, "approved")
                                         \cup Mentioned(records, "rejected")
           left == IF verdict = "rejected" THEN p.calls ELSE Unended(context, p)
           graph == IF verdict = "rejected" THEN <<>>
                    ELSE NewGraph(context, p) \o Checkpoints(left, left)
       IN  /\ p.calls \in Held(records)
           /\ resolved => p.calls \subseteq Mentioned(records, verdict)
           /\ AppendAll((IF resolved THEN <<>> ELSE Rec(verdict, p.calls))
                        \o graph \o Results(left))
           /\ context' = context \o Results(left)
           /\ step' = p.step + 1
  /\ pc' = "ask"
  /\ UNCHANGED <<trigger, running, plans, request, asks, caches, disturbed, shadowed>>

-----------------------------------------------------------------------------
(* A request: perform_single_step and generate_action. *)

\* With a cache only the last message is sent; without one everything is, unless
\* it has more tokens than the policy's threshold: then a cache is made of all
\* but the last message first.
Ask ==
  /\ pc = "ask" /\ asks < MaxAsks
  /\ asks' = asks + 1
  /\ LET all == Contents(context, trigger)
         known == LatestCache(context)
         suffix == <<Last(all)>>
     IN  \/ /\ ~Caching \/ known = {}
            /\ request' = [meant |-> all, sent |-> all, cache |-> {}, made |-> FALSE]
            /\ UNCHANGED caches
         \/ /\ Caching /\ known # {}
            /\ request' = [meant |-> all, sent |-> suffix, cache |-> known, made |-> FALSE]
            /\ UNCHANGED caches
         \/ /\ Caching /\ known = {}
            /\ request' = [meant |-> all, sent |-> suffix, cache |-> {Len(caches) + 1},
                           made |-> TRUE]
            /\ caches' = Append(caches, IF Len(all) > 1 THEN Front(all) ELSE all)
  /\ pc' = "asked"
  /\ UNCHANGED <<records, context, trigger, step, running, plans, disturbed, shadowed>>

\* policy_outcome: the step, time or failure limit stops the run before it asks.
Stop ==
  /\ pc = "ask"
  /\ Finish(<<>>)
  /\ UNCHANGED <<plans, request, asks, caches, disturbed, shadowed>>

\* persist_provider_metadata: the usage, and the cache that was made.
Metadata == Others(IF Caching THEN 1 ELSE 0)
            \o IF request.made THEN Rec("cache", request.cache) ELSE <<>>

\* A text is said, or nothing is: the session's turn is over.
Respond ==
  /\ pc = "asked"
  /\ \E said \in {Rec("respond", {}), Others(1)} : Finish(Metadata \o said)
  /\ UNCHANGED <<plans, request, asks, caches, disturbed, shadowed>>

\* An error, a refusal or a timeout ends it too, and its cache is forgotten.
ProviderFails ==
  /\ pc = "asked"
  /\ Finish(<<>>)
  /\ UNCHANGED <<plans, request, asks, caches, disturbed, shadowed>>

\* Calls are planned, with ids or without: executed now, or held until a human has
\* agreed.
PlanCalls ==
  /\ pc = "asked"
  /\ \E n \in Batches, named \in BOOLEAN :
       LET calls == Ids(n, Cardinality(Mentioned(records, "call")))
           p == [calls |-> calls, step |-> step, named |-> named]
           planned == Metadata \o Rec("call", calls)
       IN  /\ plans' = plans \cup {p}
           /\ \/ /\ AppendAll(planned \o NewGraph(context, p))
                 /\ running' = Unended(context, p)
                 /\ shadowed' = IF Alike(context, p) = {} THEN shadowed
                                                        ELSE shadowed \cup calls
                 /\ pc' = "run" /\ UNCHANGED <<context, trigger, step, disturbed>>
              \/ /\ Finish(planned \o Rec("pending", calls))
                 /\ disturbed' = TRUE /\ UNCHANGED shadowed
  /\ UNCHANGED <<request, asks, caches>>

-----------------------------------------------------------------------------
(* The calls: execute_planned_calls, then a result each. *)

\* Mutant of Answers: the results of the calls that were skipped are left out.
SomeAnswers(calls) == {c \in calls : \A d \in calls : d >= c}

\* Every call of a graph gets a result, in the order of the graph.
Answers(calls) == calls

\* The graph is executed; nothing is, and nothing recorded, where it had ended.
Run ==
  /\ pc = "run"
  /\ AppendAll(Checkpoints(running, running) \o Results(Answers(running)))
  /\ running' = {}
  /\ pc' = "continue"
  /\ UNCHANGED <<context, trigger, step, plans, request, asks, caches, disturbed, shadowed>>

\* advance_continue: the session is loaded, and a graph left open is executed
\* before the step.
Continue ==
  /\ pc = "continue"
  /\ context' = records \o Results(OpenCalls(records))
  /\ LET calls == OpenCalls(records)
     IN  AppendAll(IF calls = {} THEN <<>>
                 ELSE Checkpoints(calls, calls) \o Results(calls))
  /\ trigger' = ActiveTrigger(records)
  /\ step' = StepCount(records)
  /\ pc' = "ask"
  /\ UNCHANGED <<running, plans, request, asks, caches, disturbed, shadowed>>

\* The driver is dropped: in the middle of a graph, with some of its calls ended (the
\* first ones, say), or of the results.
FirstOf(ids) == {{c \in ids : c < d} : d \in ids}
Interrupt ==
  /\ pc \in {"resolve", "ask", "asked", "run", "continue"}
  /\ \/ pc # "run" /\ UNCHANGED records
     \/ /\ pc = "run"
        /\ \E some \in FirstOf(running) :
             \/ AppendAll(Checkpoints(running, some))
             \/ AppendAll(Checkpoints(running, running) \o Results(some))
     \/ pc = "run" /\ running = {} /\ UNCHANGED records
  /\ Leave /\ disturbed' = TRUE
  /\ UNCHANGED <<plans, request, asks, caches, shadowed>>

Next == \/ Deliver \/ Resolve \/ Ask \/ Stop \/ Respond \/ ProviderFails \/ PlanCalls
        \/ Run \/ Continue \/ Interrupt

Spec == Init /\ [][Next]_vars

-----------------------------------------------------------------------------
(* What is right about it, and what is not. *)

\* The tool messages a window may open with, their call being before it.
Untorn(m) ==
  LET at == {i \in DOMAIN m : ~IsTool(m[i]) /\ m[i].kind # "notice"}
  IN  SubSeq(m, Min(at), Len(m))

\* In a session where no driver was dropped and no call waited for an approval, calls
\* and results belong together in every request, but for the results the window has
\* torn from their calls at its start, and for calls without ids that an earlier turn's
\* graph of the same step was taken for: nobody executes them (build_provider_contents,
\* existing_or_new_graph, execute_planned_calls).
ExchangesWhole ==
  asks > 0 /\ ~disturbed =>
    LET m == request.meant
    IN  WellFormed(IF Head(m).kind = "notice" THEN Untorn(m) ELSE m, shadowed)

\* The trigger that a request ends with.
Repeated(m) == m[Max(OfKind(m, "trigger"))].of

\* The trigger a request repeats at its end is the latest one, unless an earlier one
\* was left without an outcome (active_trigger).
AsksAboutLatest ==
  LET open == OfKind(SinceOutcome(records), "trigger")
  IN  pc = "asked" /\ Cardinality(open) = 1 =>
        Repeated(request.meant) = {Cardinality(OfKind(records, "trigger"))}

\* Whatever is meant to be shown is sent or in the cache it is sent with
\* ("When using a cache, Gemini expects only the NEW turns in the 'contents' array").
NewTurnsSent ==
  pc = "asked" => ToSet(request.meant) \subseteq
    ToSet(request.sent) \cup UNION {ToSet(caches[c]) : c \in request.cache}
=============================================================================
