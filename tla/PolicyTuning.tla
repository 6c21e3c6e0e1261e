---------------------------- MODULE PolicyTuning ----------------------------
(***************************************************************************)
(* Self-improvement of a session (rain-engine-core/src/engine.rs,          *)
(* run_self_improvement): after an outcome the engine may append a policy  *)
(* tuning, and the next advance runs under the policy of its request with  *)
(* the overlay the ledger shows as active.                                 *)
(* Advances of a session are not ordered: each works on the tunings it had *)
(* loaded, and appends its own to what is there by then.                   *)
(***************************************************************************)
EXTENDS Naturals, Sequences, FiniteSets, FiniteSetsExt

CONSTANTS
  Drivers,     \* advances that may be in flight at once
  Requests,    \* the policies requests of the session come with
  MaxAdvances  \* bound of the model on advances

\* The limits that are ever tuned.
Fields == {"max_steps", "provider_timeout_ms", "max_execution_time_ms"}

\* request.policy: its numeric limits, and of self_improvement the percentage
\* (max_policy_delta_percent), the observations to wait for
\* (min_observations_before_tuning), the mode, and rollback_on_regression.
RequestPolicies == [limits : [Fields -> Nat], delta : Nat, observations : Nat,
                    mode : {"Advisory", "AutoWithGuardrails", "Shadow"}, rollback : BOOLEAN]

ASSUME TuningAssumption == Requests \subseteq RequestPolicies /\ MaxAdvances \in Nat

\* Stop reasons, with the detail the tuning looks at: a provider failure whose
\* message has "timeout", a policy abort whose message has "cost".
Reasons == {"Responded", "MaxStepsReached", "DeadlineExceeded", "ProviderFailure",
            "ProviderTimeout", "PolicyAborted", "CostLimit"}
Regressions == Reasons \ {"Responded", "MaxStepsReached"}

VARIABLES
  tunings,   \* the ledger's tuning records, in order
  outcomes,  \* number of Outcome records in the ledger
  run,       \* [Drivers -> what an advance knows]
  came,      \* policies that requests have come with so far
  advances   \* advances so far

vars == <<tunings, outcomes, run, came, advances>>

-----------------------------------------------------------------------------
(* The policy. *)

RolledBack(n) == {tunings[i].overlay : i \in {j \in 1..n : tunings[j].action = "RolledBack"}}

\* active_policy_overlay of a snapshot with the first n tunings.  An overlay is
\* named by the position of the record that proposes it.
Candidates(n) == {i \in 1..n : tunings[i].action = "Applied" /\ i \notin RolledBack(n)}
\* Mutant of Active: the first overlay wins.
FirstActive(n) == IF Candidates(n) = {} THEN 0 ELSE Min(Candidates(n))
Active(n) == Max({0} \cup Candidates(n))

AtLeast1(v) == IF v = 0 THEN 1 ELSE v

\* with_overlay, PolicyOverlay.apply_to
Overlaid(policy, patch) ==
  [f \in Fields |-> IF f \in DOMAIN patch THEN AtLeast1(patch[f]) ELSE policy[f]]
\* The limits a request runs under: those of the overlay in place of its own, whatever
\* request the overlay was tuned for.
Effective(q, n) == IF Active(n) = 0 THEN q.limits
                   ELSE Overlaid(q.limits, tunings[Active(n)].patch)

\* Mutant of Increase: the limit becomes the increment.
Increment(v, percent) == (AtLeast1(v) * percent + 99) \div 100
\* increase_by_percent, rounded up; the code's f64 is exact for the percentages
\* used here and may be one higher for others.
Increase(v, percent) == (AtLeast1(v) * (100 + percent) + 99) \div 100

Clamped(d) == IF d < 1 THEN 1 ELSE IF d > 100 THEN 100 ELSE d
Least(x, y) == IF x < y THEN x ELSE y

\* The field and the percentage of propose_policy_tuning; the step limit grows
\* faster the more outcomes the session has.
Raised(policy, delta, reason, seen) ==
  LET raise(f, percent) == [g \in {f} |-> Increase(policy[f], percent)]
  IN CASE reason = "MaxStepsReached" ->
            raise("max_steps", Least(Clamped(delta) * AtLeast1(seen), 200))
       [] reason = "ProviderTimeout" -> raise("provider_timeout_ms", Clamped(delta))
       [] reason = "DeadlineExceeded" -> raise("max_execution_time_ms", Clamped(delta))
       [] OTHER -> [g \in {} |-> 0]

-----------------------------------------------------------------------------
Idle == [pc |-> "idle"]

Init == /\ tunings = <<>> /\ outcomes = 0
        /\ run = [d \in Drivers |-> Idle]
        /\ came = {} /\ advances = 0

\* The advance loads the session and fixes its policy.
Load(d, q) == /\ run[d].pc = "idle" /\ advances < MaxAdvances
              /\ advances' = advances + 1 /\ came' = came \cup {q}
              /\ run' = [run EXCEPT ![d] = [pc |-> "running", request |-> q,
                                            known |-> Len(tunings), seen |-> outcomes,
                                            policy |-> Effective(q, Len(tunings)),
                                            reason |-> "Responded"]]
              /\ UNCHANGED <<tunings, outcomes>>

\* finish appends the outcome and adds it to its own history.
Finish(d, reason) == /\ run[d].pc = "running"
                     /\ outcomes' = outcomes + 1
                     /\ run' = [run EXCEPT ![d].pc = "tuning", ![d].reason = reason,
                                           ![d].seen = @ + 1]
                     /\ UNCHANGED <<tunings, came, advances>>

Stop(d) == run' = [run EXCEPT ![d] = Idle] /\ UNCHANGED <<outcomes, came, advances>>

\* maybe_rollback_regression
Regressed(d) == /\ run[d].request.rollback /\ run[d].reason \in Regressions
                /\ Active(run[d].known) # 0

\* PolicyTuningRecord: what is done to which overlay.
Tuning(action, overlay, patch) == [action |-> action, overlay |-> overlay, patch |-> patch]

TooEarly(d) == /\ run[d].pc = "tuning" /\ run[d].seen < run[d].request.observations
               /\ UNCHANGED tunings /\ Stop(d)

Rollback(d) ==
  LET active == Active(run[d].known)
  IN /\ run[d].pc = "tuning" /\ run[d].seen >= run[d].request.observations
     /\ Regressed(d)
     /\ tunings' = Append(tunings, Tuning("RolledBack", active, tunings[active].patch))
     /\ Stop(d)

\* propose_policy_tuning: only AutoWithGuardrails applies what it proposes, and a
\* raised cost limit is never even proposed.
Propose(d) ==
  LET patch == Raised(run[d].policy, run[d].request.delta, run[d].reason, run[d].seen)
      action == IF run[d].reason = "CostLimit" THEN "RejectedUnsafe"
                ELSE IF run[d].request.mode = "AutoWithGuardrails" THEN "Applied" ELSE "Proposed"
  IN /\ run[d].pc = "tuning" /\ run[d].seen >= run[d].request.observations
     /\ ~Regressed(d)
     /\ run[d].reason \in {"MaxStepsReached", "ProviderTimeout", "DeadlineExceeded",
                           "CostLimit"}
     /\ tunings' = Append(tunings, Tuning(action, Len(tunings) + 1, patch))
     /\ Stop(d)

NothingToTune(d) == /\ run[d].pc = "tuning" /\ run[d].seen >= run[d].request.observations
                    /\ ~Regressed(d)
                    /\ run[d].reason \in {"Responded", "ProviderFailure", "PolicyAborted"}
                    /\ UNCHANGED tunings /\ Stop(d)

\* A crash, a dropped future, or a failed append (run_self_improvement returns the
\* error although the outcome is recorded); an advance may also end without one.
Interrupt(d) == run[d].pc # "idle" /\ UNCHANGED tunings /\ Stop(d)

Next == \E d \in Drivers :
          \/ \E q \in Requests : Load(d, q)
          \/ \E reason \in Reasons : Finish(d, reason)
          \/ TooEarly(d) \/ Rollback(d) \/ Propose(d) \/ NothingToTune(d)
          \/ Interrupt(d)

Spec == Init /\ [][Next]_vars

-----------------------------------------------------------------------------
(* Properties. *)

Policies == [Fields -> Nat]
Advance == [pc : {"running", "tuning"}, request : Requests, known : Nat, seen : Nat,
            policy : Policies, reason : Reasons]
IsTuning(t) == /\ t.action \in {"Proposed", "Applied", "RolledBack", "RejectedUnsafe"}
               /\ t.overlay \in 1..Len(tunings)
               /\ DOMAIN t.patch \subseteq Fields
               /\ \A f \in DOMAIN t.patch : t.patch[f] \in Nat

\* Every variable keeps its type, and a tuning names an overlay in the ledger.
TypeOK ==
  /\ \A i \in 1..Len(tunings) : IsTuning(tunings[i])
  /\ outcomes \in Nat /\ advances \in 0..MaxAdvances /\ came \subseteq Requests
  /\ run \in [Drivers -> Advance \cup {Idle}]

\* However overlays are applied, superseded, rolled back and raced, a limit of an advance
\* falls below its request's own only to what an earlier request of the session allowed:
\* an overlay tuned for that one holds for requests with a larger policy as well.
\* Where all requests come with one policy, no limit ever falls below it.
LoweredOnlyToEarlier ==
  \A q \in Requests, f \in Fields :
    \E p \in came \cup {q} : Effective(q, Len(tunings))[f] >= p.limits[f]

\* A rollback of the overlay in force undoes it: the policy of a request is again the one
\* before the overlay was applied, whatever was applied and rolled back on top of it,
\* unless an older overlay was rolled back meanwhile (active_policy_overlay).
RollbackUndoes ==
  [][LET n == Len(tunings)
         last == tunings'[n + 1]
     IN /\ Len(tunings') = n + 1 /\ last.action = "RolledBack"
        /\ last.overlay = Active(n)
        /\ \A i \in last.overlay + 1 .. n : tunings[i].overlay > last.overlay
        => \A q \in Requests :
             Effective(q, Len(tunings))' = Effective(q, last.overlay - 1)]_tunings
=============================================================================
