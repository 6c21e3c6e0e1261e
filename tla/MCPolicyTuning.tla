--------------------------- MODULE MCPolicyTuning ---------------------------
(***************************************************************************)
(* Small self-improvement histories for TLC.                               *)
(***************************************************************************)
EXTENDS PolicyTuning, TLC

CONSTANTS d1, d2

TwoDrivers == {d1, d2}

\* A request that allows no step at all, as in the engine's own tests, with limits small
\* enough to see the rounding, and one that allows more and is never rolled back.
Limits(steps, timeout, time) ==
  ("max_steps" :> steps) @@ ("provider_timeout_ms" :> timeout)
  @@ ("max_execution_time_ms" :> time)
Small == [limits |-> Limits(0, 7, 3), delta |-> 25, observations |-> 2,
          mode |-> "AutoWithGuardrails", rollback |-> TRUE]
Large == [limits |-> Limits(20, 5, 9), delta |-> 50, observations |-> 1,
          mode |-> "AutoWithGuardrails", rollback |-> FALSE]
TwoRequests == {Small, Large}

DriverSymmetry == Permutations(TwoDrivers)
=============================================================================
