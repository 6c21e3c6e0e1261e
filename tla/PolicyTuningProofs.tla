------------------------- MODULE PolicyTuningProofs -------------------------
(***************************************************************************)
(* Theorems about the tuning of policies, for any number of advances in    *)
(* flight, requests and percentages.                                       *)
(***************************************************************************)
EXTENDS PolicyTuning, FiniteSetTheorems, WellFoundedInduction, TLAPS

Actions == {"Proposed", "Applied", "RolledBack", "RejectedUnsafe"}
Patches == UNION {[D -> Nat] : D \in SUBSET Fields}
Tunings == [action : Actions, overlay : Nat, patch : Patches]

\* What a request of the session so far has allowed, or more.
Allowed(f, v) == \E q \in came : v >= q.limits[f]

\* No tuning in the ledger lowers a limit below what some request allowed, and no policy
\* an advance runs under does; an advance knows tunings that are there.
Raises(patch) == \A f \in DOMAIN patch : Allowed(f, patch[f])
Sound(a) == a.known <= Len(tunings) /\ \A f \in Fields : Allowed(f, a.policy[f])
AllSound == \A d \in Drivers : run[d] # Idle => Sound(run[d])

IInv == /\ tunings \in Seq(Tunings) /\ TypeOK
        /\ \A i \in 1..Len(tunings) : Raises(tunings[i].patch)
        /\ AllSound

\* A request's policy is made of what TypeOK says.
LEMMA RequestFacts ==
  ASSUME NEW q \in Requests
  PROVE  /\ q.limits \in Policies /\ q.delta \in Nat /\ q.observations \in Nat
         /\ \A f \in Fields : q.limits[f] \in Nat
  <1>1. q \in RequestPolicies
    BY TuningAssumption
  <1> QED
    BY <1>1 DEF RequestPolicies, Policies

\* What an advance in flight knows.
LEMMA AtWork ==
  ASSUME IInv, NEW d \in Drivers, run[d].pc # "idle"
  PROVE  /\ run[d] \in Advance /\ Sound(run[d]) /\ run[d] # Idle /\ run[d].request \in Requests
         /\ run[d].known \in Nat /\ run[d].seen \in Nat /\ run[d].reason \in Reasons
         /\ run[d].policy \in Policies
  <1>1. run[d] # Idle
    BY DEF Idle
  <1>2. run[d] \in Advance
    BY <1>1 DEF IInv, TypeOK
  <1> QED
    BY <1>1, <1>2 DEF Advance, IInv, AllSound

-----------------------------------------------------------------------------
(* The active overlay. *)

Less == {p \in Nat \X Nat : p[1] < p[2]}

LEMMA LeastNat ==
  ASSUME NEW S \in SUBSET Nat, S # {}
  PROVE  \E x \in S : \A y \in S : x <= y
  <1>1. Less = OpToRel(<, Nat)
    BY DEF Less, OpToRel
  <1>2. IsWellFoundedOn(Less, Nat)
    BY <1>1, NatLessThanWellFounded
  <1>3. PICK x \in S : \A y \in S : <<y, x>> \notin Less
    BY <1>2, WFMin
  <1>4. \A y \in S : ~(y < x)
    BY <1>3 DEF Less
  <1> QED
    BY <1>4

\* The greatest element of a bounded set of positions.
LEMMA MaxBounds ==
  ASSUME NEW n \in Nat, NEW S \in SUBSET (0..n), S # {}
  PROVE  Max(S) \in S /\ \A y \in S : y <= Max(S)
  <1> DEFINE T == {n - x : x \in S}
  <1>0. \A x \in S : n - x \in Nat
    OBVIOUS
  <1>1. T \in SUBSET Nat /\ T # {}
    BY <1>0
  <1>2. PICK t \in T : \A y \in T : t <= y
    BY <1>1, LeastNat
  <1>3. PICK x \in S : t = n - x
    OBVIOUS
  <1>4. \A y \in S : n - x <= n - y
    BY <1>2, <1>3
  <1>5. \A y \in S : x >= y
    BY <1>4
  <1>6. Max(S) \in S /\ \A y \in S : Max(S) >= y
    BY <1>5 DEF Max
  <1> QED
    BY <1>6

\* The active overlay is none or the latest one that is applied and not undone.
LEMMA ActiveFacts ==
  ASSUME NEW n \in Nat
  PROVE  /\ Active(n) \in {0} \cup Candidates(n) /\ Active(n) \in 0..n
         /\ \A i \in Candidates(n) : i <= Active(n)
  <1> DEFINE S == {0} \cup Candidates(n)
  <1>1. S \in SUBSET (0..n) /\ S # {}
    BY DEF Candidates
  <1>2. Max(S) \in S /\ \A y \in S : y <= Max(S)
    BY <1>1, MaxBounds
  <1> QED
    BY <1>1, <1>2 DEF Active

\* A tuning of the ledger, field by field.
LEMMA TuningFacts ==
  ASSUME tunings \in Seq(Tunings), NEW i \in 1..Len(tunings)
  PROVE  /\ tunings[i] \in Tunings /\ tunings[i].action \in Actions
         /\ tunings[i].overlay \in Nat /\ tunings[i].patch \in Patches
         /\ DOMAIN tunings[i].patch \subseteq Fields
         /\ \A f \in DOMAIN tunings[i].patch : tunings[i].patch[f] \in Nat
  <1>1. tunings[i] \in Tunings
    OBVIOUS
  <1>2. tunings[i].patch \in Patches
    BY <1>1 DEF Tunings
  <1> QED
    BY <1>1, <1>2 DEF Tunings, Patches

\* What was allowed stays allowed, and so does more.
LEMMA AllowedFacts ==
  ASSUME TypeOK, NEW f \in Fields, NEW v \in Nat, Allowed(f, v), NEW u \in Nat, u >= v
  PROVE  Allowed(f, u)
  <1>1. PICK q \in came : v >= q.limits[f]
    BY DEF Allowed
  <1>2. q.limits[f] \in Nat
    BY RequestFacts DEF TypeOK
  <1>3. u >= q.limits[f]
    BY <1>1, <1>2
  <1> QED
    BY <1>3 DEF Allowed

\* A request's policy with an overlay in place of its own limits.
LEMMA OverlaidFacts ==
  ASSUME TypeOK, NEW q \in Requests, NEW patch \in Patches, Raises(patch)
  PROVE  /\ Overlaid(q.limits, patch) \in Policies
         /\ \A f \in Fields : \/ Overlaid(q.limits, patch)[f] = q.limits[f]
                             \/ Allowed(f, Overlaid(q.limits, patch)[f])
  <1>1. /\ DOMAIN patch \subseteq Fields /\ \A f \in DOMAIN patch : patch[f] \in Nat
        /\ \A f \in Fields : q.limits[f] \in Nat
    BY RequestFacts DEF Patches
  <1>2. ASSUME NEW f \in DOMAIN patch
        PROVE  AtLeast1(patch[f]) \in Nat /\ Allowed(f, AtLeast1(patch[f]))
    <2>1. patch[f] \in Nat /\ AtLeast1(patch[f]) \in Nat /\ AtLeast1(patch[f]) >= patch[f]
      BY <1>1 DEF AtLeast1
    <2>2. f \in Fields /\ Allowed(f, patch[f])
      BY <1>1 DEF Raises
    <2> QED
      BY <2>1, <2>2, AllowedFacts
  <1> QED
    BY <1>1, <1>2 DEF Overlaid, Policies

LEMMA EffectiveFacts ==
  ASSUME IInv, NEW q \in Requests
  PROVE  /\ Effective(q, Len(tunings)) \in Policies
         /\ \A f \in Fields : \/ Effective(q, Len(tunings))[f] = q.limits[f]
                             \/ Allowed(f, Effective(q, Len(tunings))[f])
  <1> DEFINE n == Len(tunings)
             a == Active(n)
  <1>1. n \in Nat /\ a \in 0..n
    BY ActiveFacts DEF IInv
  <1>2. CASE a = 0
    BY <1>2, RequestFacts DEF Effective
  <1>3. CASE a # 0
    <2>1. tunings[a].patch \in Patches /\ Raises(tunings[a].patch)
      BY <1>1, <1>3, TuningFacts DEF IInv
    <2>2. PICK p \in Patches : p = tunings[a].patch
      BY <2>1
    <2>3. Effective(q, n) = Overlaid(q.limits, p)
      BY <1>3, <2>2 DEF Effective
    <2> QED
      BY <2>1, <2>2, <2>3, OverlaidFacts DEF IInv
  <1> QED
    BY <1>2, <1>3

-----------------------------------------------------------------------------
(* What is proposed. *)

\* Raising a limit by a percentage never lowers it, whatever the rounding.
LEMMA IncreaseFacts ==
  ASSUME NEW v \in Nat, NEW percent \in Nat
  PROVE  Increase(v, percent) \in Nat /\ Increase(v, percent) >= v
  <1> DEFINE u == AtLeast1(v)
             x == u * percent
  <1>1. u \in Nat /\ u >= v
    BY DEF AtLeast1
  <1>2. x \in Nat
    BY <1>1
  <1>3. u * (100 + percent) = 100 * u + x
    BY <1>1
  <1>4. Increase(v, percent) = (100 * u + x + 99) \div 100
    BY <1>3 DEF Increase
  <1> HIDE DEF u, x
  <1> QED
    BY <1>1, <1>2, <1>4

\* A patch of one raised limit.
LEMMA OneRaised ==
  ASSUME TypeOK, NEW policy \in Policies, \A g \in Fields : Allowed(g, policy[g]),
         NEW f \in Fields, NEW percent \in Nat
  PROVE  LET patch == [g \in {f} |-> Increase(policy[f], percent)]
         IN patch \in Patches /\ Raises(patch)
  <1>1. policy[f] \in Nat /\ Allowed(f, policy[f])
    BY DEF Policies
  <1>2. Increase(policy[f], percent) \in Nat /\ Allowed(f, Increase(policy[f], percent))
    <2>1. Increase(policy[f], percent) \in Nat /\ Increase(policy[f], percent) >= policy[f]
      BY <1>1, IncreaseFacts
    <2> QED
      BY <1>1, <2>1, AllowedFacts
  <1> DEFINE patch == [g \in {f} |-> Increase(policy[f], percent)]
  <1>3. patch \in [{f} -> Nat] /\ {f} \in SUBSET Fields
    BY <1>2
  <1>4. Raises(patch)
    BY <1>2 DEF Raises
  <1> HIDE DEF patch
  <1>5. patch \in Patches
    BY <1>3 DEF Patches
  <1> QED
    BY <1>4, <1>5 DEF patch

\* The percentages the tuning uses are positive numbers.
LEMMA Percentages ==
  ASSUME NEW delta \in Nat, NEW seen \in Nat
  PROVE  /\ Clamped(delta) \in Nat
         /\ Least(Clamped(delta) * AtLeast1(seen), 200) \in Nat
  <1>1. Clamped(delta) \in Nat /\ AtLeast1(seen) \in Nat
    BY DEF Clamped, AtLeast1
  <1>2. Clamped(delta) * AtLeast1(seen) \in Nat
    BY <1>1
  <1> QED
    BY <1>1, <1>2 DEF Least

\* Whatever is proposed raises limits of the policy it was proposed under.
LEMMA RaisedFacts ==
  ASSUME TypeOK, NEW policy \in Policies, \A g \in Fields : Allowed(g, policy[g]),
         NEW delta \in Nat, NEW reason \in Reasons, NEW seen \in Nat
  PROVE  /\ Raised(policy, delta, reason, seen) \in Patches
         /\ Raises(Raised(policy, delta, reason, seen))
  <1> DEFINE p == Raised(policy, delta, reason, seen)
  <1>1. CASE reason = "MaxStepsReached"
    <2>1. p = [g \in {"max_steps"} |-> Increase(policy["max_steps"],
                 Least(Clamped(delta) * AtLeast1(seen), 200))]
      BY <1>1 DEF Raised
    <2>2. PICK percent \in Nat : percent = Least(Clamped(delta) * AtLeast1(seen), 200)
      BY Percentages
    <2>3. "max_steps" \in Fields
      BY DEF Fields
    <2>4. p = [g \in {"max_steps"} |-> Increase(policy["max_steps"], percent)]
      BY <2>1, <2>2
    <2> QED
      BY <2>3, <2>4, OneRaised
  <1>2. CASE reason = "ProviderTimeout"
    <2>1. p = [g \in {"provider_timeout_ms"} |->
                 Increase(policy["provider_timeout_ms"], Clamped(delta))]
      BY <1>2 DEF Raised
    <2>2. PICK percent \in Nat : percent = Clamped(delta)
      BY Percentages
    <2> QED
      BY <2>1, <2>2, OneRaised DEF Fields
  <1>3. CASE reason = "DeadlineExceeded"
    <2>1. p = [g \in {"max_execution_time_ms"} |->
                 Increase(policy["max_execution_time_ms"], Clamped(delta))]
      BY <1>3 DEF Raised
    <2>2. PICK percent \in Nat : percent = Clamped(delta)
      BY Percentages
    <2> QED
      BY <2>1, <2>2, OneRaised DEF Fields
  <1>4. CASE reason \notin {"MaxStepsReached", "ProviderTimeout", "DeadlineExceeded"}
    <2>1. p = [g \in {} |-> 0]
      BY <1>4 DEF Raised
    <2>2. [g \in {} |-> 0] \in [{} -> Nat] /\ {} \in SUBSET Fields
      OBVIOUS
    <2> QED
      BY <2>1, <2>2 DEF Patches, Raises
  <1> QED
    BY <1>1, <1>2, <1>3, <1>4

-----------------------------------------------------------------------------
(* The steps. *)

\* Replacing what one advance knows.
LEMMA RunStep ==
  ASSUME IInv, NEW d \in Drivers, NEW a \in Advance \cup {Idle},
         came \subseteq came', came' \subseteq Requests, a # Idle => Sound(a)',
         run' = [run EXCEPT ![d] = a], tunings' = tunings,
         outcomes' \in Nat, advances' \in 0..MaxAdvances
  PROVE  IInv'
  <1>1. run \in [Drivers -> Advance \cup {Idle}]
    BY DEF IInv, TypeOK
  <1>2. /\ run' \in [Drivers -> Advance \cup {Idle}]
        /\ \A e \in Drivers : run'[e] = IF e = d THEN a ELSE run[e]
    BY <1>1
  <1>3. \A f, v : Allowed(f, v) => Allowed(f, v)'
    BY DEF Allowed
  <1>4. AllSound'
    BY <1>2, <1>3 DEF IInv, AllSound, Sound
  <1>5. TypeOK'
    BY <1>2 DEF IInv, TypeOK, IsTuning
  <1>6. \A i \in 1..Len(tunings) : Raises(tunings[i].patch)'
    BY <1>3 DEF IInv, Raises
  <1> QED
    BY <1>4, <1>5, <1>6 DEF IInv

\* Appending a tuning that lowers nothing, at the end of an advance.
LEMMA AppendStep ==
  ASSUME IInv, NEW d \in Drivers, Stop(d), NEW t \in Tunings,
         tunings' = Append(tunings, t), t.overlay \in 1..Len(tunings) + 1, Raises(t.patch)
  PROVE  IInv'
  <1>1. /\ tunings' \in Seq(Tunings) /\ Len(tunings') = Len(tunings) + 1 /\ Len(tunings) \in Nat
        /\ \A i \in 1..Len(tunings) : tunings'[i] = tunings[i]
        /\ tunings'[Len(tunings) + 1] = t
    BY DEF IInv
  <1>2. /\ t.action \in Actions /\ DOMAIN t.patch \subseteq Fields
        /\ \A f \in DOMAIN t.patch : t.patch[f] \in Nat
    BY DEF Tunings, Patches
  <1>3. \A i \in 1..Len(tunings) + 1 : IsTuning(tunings[i])'
    <2>1. ASSUME NEW i \in 1..Len(tunings) PROVE IsTuning(tunings[i])'
      BY <1>1 DEF IInv, TypeOK, IsTuning
    <2>2. \A i \in {Len(tunings) + 1} : IsTuning(tunings[i])'
      BY <1>1, <1>2 DEF IsTuning, Actions
    <2> QED
      BY <1>1, <2>1, <2>2
  <1>4. \A i \in 1..Len(tunings') : Raises(tunings'[i].patch)
    <2>1. ASSUME NEW i \in 1..Len(tunings) PROVE Raises(tunings'[i].patch)
      BY <1>1 DEF IInv
    <2> QED
      BY <1>1, <2>1
  <1>5. /\ \A e \in Drivers : run'[e] = IF e = d THEN Idle ELSE run[e]
        /\ run' \in [Drivers -> Advance \cup {Idle}] /\ came' = came
    BY DEF Stop, IInv, TypeOK
  <1>6. AllSound'
    <2> SUFFICES ASSUME NEW e \in Drivers, run'[e] # Idle PROVE Sound(run[e])'
      BY DEF AllSound
    <2>1. run'[e] = run[e] /\ Sound(run[e]) /\ run[e] \in Advance
      BY <1>5 DEF IInv, AllSound, TypeOK
    <2>2. run[e].known \in Nat
      BY <2>1 DEF Advance
    <2> QED
      BY <1>1, <1>5, <2>1, <2>2 DEF Sound, Allowed
  <1>7. TypeOK'
    BY <1>1, <1>3, <1>5 DEF Stop, IInv, TypeOK
  <1> QED
    BY <1>1, <1>4, <1>5, <1>6, <1>7 DEF IInv, Raises, Allowed

\* An advance that has regressed rolls back an overlay of the ledger.
LEMMA RolledBackFacts ==
  ASSUME IInv, NEW d \in Drivers, Rollback(d)
  PROVE  LET active == Active(run[d].known)
         IN /\ active \in 1..Len(tunings)
            /\ Tuning("RolledBack", active, tunings[active].patch) \in Tunings
            /\ Raises(tunings[active].patch)
  <1> DEFINE active == Active(run[d].known)
  <1>1. run[d].known \in Nat /\ run[d].known <= Len(tunings) /\ Len(tunings) \in Nat
    BY AtWork DEF Rollback, IInv, Sound
  <1>2. active \in 0..run[d].known /\ active # 0
    BY <1>1, ActiveFacts DEF Rollback, Regressed
  <1>3. active \in 1..Len(tunings)
    BY <1>1, <1>2
  <1> HIDE DEF active
  <1>4. tunings[active].patch \in Patches /\ Raises(tunings[active].patch)
    BY <1>3, TuningFacts DEF IInv
  <1>5. Tuning("RolledBack", active, tunings[active].patch) \in Tunings
    BY <1>3, <1>4 DEF Tuning, Tunings, Actions
  <1> QED
    BY <1>3, <1>4, <1>5 DEF active

LEMMA ProposedFacts ==
  ASSUME IInv, NEW d \in Drivers, Propose(d)
  PROVE  \E t \in Tunings : /\ tunings' = Append(tunings, t) /\ Raises(t.patch)
                            /\ t.overlay = Len(tunings) + 1 /\ t.action # "RolledBack"
  <1> DEFINE patch == Raised(run[d].policy, run[d].request.delta, run[d].reason, run[d].seen)
             action == IF run[d].reason = "CostLimit" THEN "RejectedUnsafe"
                       ELSE IF run[d].request.mode = "AutoWithGuardrails" THEN "Applied"
                       ELSE "Proposed"
  <1>1. /\ run[d].policy \in Policies /\ run[d].reason \in Reasons /\ run[d].seen \in Nat
        /\ run[d].request \in Requests /\ \A g \in Fields : Allowed(g, run[d].policy[g])
    BY AtWork DEF Propose, Sound
  <1>2. patch \in Patches /\ Raises(patch)
    <2>1. run[d].request.delta \in Nat
      BY <1>1, RequestFacts
    <2> QED
      BY <1>1, <2>1, RaisedFacts DEF IInv
  <1>3. action \in Actions \ {"RolledBack"} /\ Len(tunings) + 1 \in Nat
    BY DEF Actions, IInv
  <1>4. tunings' = Append(tunings, Tuning(action, Len(tunings) + 1, patch))
    BY DEF Propose
  <1> HIDE DEF patch, action
  <1>5. /\ Tuning(action, Len(tunings) + 1, patch) \in Tunings
        /\ Tuning(action, Len(tunings) + 1, patch).patch = patch
        /\ Tuning(action, Len(tunings) + 1, patch).overlay = Len(tunings) + 1
        /\ Tuning(action, Len(tunings) + 1, patch).action = action
    BY <1>2, <1>3 DEF Tuning, Tunings
  <1> QED
    BY <1>2, <1>3, <1>4, <1>5

LEMMA LoadKeeps ==
  ASSUME IInv, NEW d \in Drivers, NEW q \in Requests, Load(d, q)
  PROVE  IInv'
  <1>0. PICK a : a = [pc |-> "running", request |-> q, known |-> Len(tunings), seen |-> outcomes,
                      policy |-> Effective(q, Len(tunings)), reason |-> "Responded"]
    OBVIOUS
  <1>1. /\ run' = [run EXCEPT ![d] = a] /\ UNCHANGED <<tunings, outcomes>>
        /\ came' = came \cup {q}
    BY <1>0, Zenon DEF Load
  <1>2. advances' \in 0..MaxAdvances
    BY TuningAssumption DEF Load, IInv, TypeOK
  <1>3. /\ Effective(q, Len(tunings)) \in Policies
        /\ \A f \in Fields : \/ Effective(q, Len(tunings))[f] = q.limits[f]
                            \/ Allowed(f, Effective(q, Len(tunings))[f])
    BY EffectiveFacts
  <1>4. outcomes \in Nat /\ Len(tunings) \in Nat /\ came \subseteq Requests
    BY DEF IInv, TypeOK
  <1>5. a \in Advance /\ a.known = Len(tunings) /\ a.policy = Effective(q, Len(tunings))
    BY <1>0, <1>3, <1>4 DEF Advance, Reasons
  <1>6. \A f \in Fields : Allowed(f, a.policy[f])'
    <2> TAKE f \in Fields
    <2>1. CASE a.policy[f] = q.limits[f]
      BY <1>1, <2>1, RequestFacts DEF Allowed
    <2>2. CASE Allowed(f, a.policy[f])
      BY <1>1, <2>2 DEF Allowed
    <2> QED
      BY <1>3, <1>5, <2>1, <2>2
  <1>7. Sound(a)'
    BY <1>1, <1>4, <1>5, <1>6 DEF Sound
  <1>8. came \subseteq came' /\ came' \subseteq Requests /\ outcomes' \in Nat /\ tunings' = tunings
    BY <1>1, <1>4
  <1> QED
    BY <1>1, <1>2, <1>5, <1>7, <1>8, RunStep

LEMMA FinishKeeps ==
  ASSUME IInv, NEW d \in Drivers, NEW reason \in Reasons, Finish(d, reason)
  PROVE  IInv'
  <1>0. run[d] \in Advance /\ Sound(run[d])
    BY AtWork DEF Finish
  <1>1. PICK a1 : a1 = [run[d] EXCEPT !.pc = "tuning"]
    OBVIOUS
  <1>2. PICK a2 : a2 = [a1 EXCEPT !.reason = reason]
    OBVIOUS
  <1>3. PICK a : a = [a2 EXCEPT !.seen = a2.seen + 1]
    OBVIOUS
  <1>4. a1 \in Advance /\ a1.known = run[d].known /\ a1.policy = run[d].policy
    BY <1>0, <1>1 DEF Advance
  <1>5. a2 \in Advance /\ a2.known = run[d].known /\ a2.policy = run[d].policy
    BY <1>2, <1>4 DEF Advance
  <1>6. a \in Advance /\ a.known = run[d].known /\ a.policy = run[d].policy
    BY <1>3, <1>5 DEF Advance
  <1>7. run' = [run EXCEPT ![d] = a]
    BY <1>1, <1>2, <1>3, Zenon DEF Finish
  <1>8. /\ tunings' = tunings /\ outcomes' \in Nat /\ advances' \in 0..MaxAdvances
        /\ came' = came /\ came \subseteq Requests
    BY DEF Finish, IInv, TypeOK
  <1>9. Sound(a)'
    BY <1>0, <1>6, <1>8 DEF Sound, Allowed
  <1> QED
    BY <1>6, <1>7, <1>8, <1>9, RunStep

LEMMA StepKeeps == IInv /\ [Next]_vars => IInv'
  <1> SUFFICES ASSUME IInv, [Next]_vars PROVE IInv'
    OBVIOUS
  <1>1. CASE UNCHANGED vars
    BY <1>1 DEF vars, IInv, TypeOK, IsTuning, Raises, AllSound, Sound, Allowed
  <1>2. ASSUME NEW d \in Drivers, TooEarly(d) \/ NothingToTune(d) \/ Interrupt(d) PROVE IInv'
    <2>1. /\ run' = [run EXCEPT ![d] = Idle] /\ UNCHANGED <<tunings, outcomes, came, advances>>
      BY <1>2 DEF TooEarly, NothingToTune, Interrupt, Stop
    <2>2. outcomes \in Nat /\ advances \in 0..MaxAdvances /\ came \subseteq Requests
      BY DEF IInv, TypeOK
    <2> QED
      BY <2>1, <2>2, RunStep
  <1>3. ASSUME NEW d \in Drivers, Rollback(d) PROVE IInv'
    <2> DEFINE active == Active(run[d].known)
               t == Tuning("RolledBack", active, tunings[active].patch)
    <2>1. /\ active \in 1..Len(tunings) /\ t \in Tunings /\ Raises(tunings[active].patch)
      BY <1>3, RolledBackFacts
    <2>2. t.overlay = active /\ t.patch = tunings[active].patch
      BY DEF Tuning
    <2>3. tunings' = Append(tunings, t) /\ Stop(d)
      BY <1>3 DEF Rollback
    <2>4. active \in 1..Len(tunings) + 1
      BY <2>1 DEF IInv
    <2> HIDE DEF t, active
    <2> QED
      BY <2>1, <2>2, <2>3, <2>4, AppendStep
  <1>4. ASSUME NEW d \in Drivers, Propose(d) PROVE IInv'
    <2>1. PICK t \in Tunings : /\ tunings' = Append(tunings, t) /\ Raises(t.patch)
                               /\ t.overlay = Len(tunings) + 1
      BY <1>4, ProposedFacts
    <2>2. Stop(d) /\ t.overlay \in 1..Len(tunings) + 1
      BY <1>4, <2>1 DEF Propose, IInv
    <2> QED
      BY <2>1, <2>2, AppendStep
  <1> QED
    BY <1>1, <1>2, <1>3, <1>4, LoadKeeps, FinishKeeps DEF Next

THEOREM Inductive == Spec => []IInv
  <1>1. Init => IInv
    <2> SUFFICES ASSUME Init PROVE IInv
      OBVIOUS
    <2>1. tunings \in Seq(Tunings) /\ Len(tunings) = 0
      BY DEF Init
    <2>2. run \in [Drivers -> Advance \cup {Idle}] /\ \A d \in Drivers : run[d] = Idle
      BY DEF Init
    <2> QED
      BY <2>1, <2>2, TuningAssumption DEF Init, IInv, TypeOK, AllSound
  <1> QED
    BY <1>1, StepKeeps, PTL DEF Spec

\* Every variable keeps its type, and a tuning names an overlay of the ledger.
THEOREM TypeCorrect == Spec => []TypeOK
  <1>1. IInv => TypeOK
    BY DEF IInv
  <1> QED
    BY <1>1, Inductive, PTL

\* No limit an advance runs under falls below its request's own but to what an earlier
\* request of the session allowed, for any requests and their policies, any number of
\* racing advances, any percentage and any history of overlays and rollbacks.
THEOREM LimitsLoweredOnlyToEarlier == Spec => []LoweredOnlyToEarlier
  <1>1. ASSUME IInv PROVE LoweredOnlyToEarlier
    <2> SUFFICES ASSUME NEW q \in Requests, NEW f \in Fields
                 PROVE  \E p \in came \cup {q} : Effective(q, Len(tunings))[f] >= p.limits[f]
      BY DEF LoweredOnlyToEarlier
    <2>1. CASE Effective(q, Len(tunings))[f] = q.limits[f]
      BY <2>1, RequestFacts
    <2>2. CASE Allowed(f, Effective(q, Len(tunings))[f])
      BY <2>2 DEF Allowed
    <2> QED
      BY <1>1, <2>1, <2>2, EffectiveFacts
  <1> QED
    BY <1>1, Inductive, PTL

-----------------------------------------------------------------------------
(* Rollbacks. *)

\* The overlays that are left when the one in force is undone are those that were
\* there before it, if no older one was undone since.
LEMMA Undone ==
  ASSUME tunings \in Seq(Tunings), NEW n, n = Len(tunings), NEW t \in Tunings,
         tunings' = Append(tunings, t), t.action = "RolledBack",
         NEW a \in 1..n, a = Active(n), t.overlay = a,
         \A i \in a + 1 .. n : tunings[i].overlay > a
  PROVE  Candidates(n + 1)' = Candidates(a - 1)
  <1>1. /\ n \in Nat /\ \A i \in 1..n : tunings'[i] = tunings[i]
        /\ tunings'[n + 1] = t /\ a - 1 \in Nat
    BY DEF Tunings
  <1>2. a \in Candidates(n) /\ \A i \in Candidates(n) : i <= a
    <2>1. /\ Active(n) \in {0} \cup Candidates(n)
          /\ \A i \in Candidates(n) : i <= Active(n)
      BY <1>1, ActiveFacts
    <2>2. a # 0
      BY <1>1
    <2> QED
      BY <2>1, <2>2
  <1>3. tunings[a].action = "Applied"
    BY <1>2 DEF Candidates
  <1>4. RolledBack(n + 1)' = RolledBack(n) \cup {a}
    <2>1. 1..n + 1 = (1..n) \cup {n + 1}
      <3>1. n \in Nat
        BY <1>1
      <3> QED
        BY <3>1
    <2>2. {j \in 1..n + 1 : tunings'[j].action = "RolledBack"}
          = {j \in 1..n : tunings[j].action = "RolledBack"} \cup {n + 1}
      BY <1>1, <2>1
    <2> QED
      BY <1>1, <2>2 DEF RolledBack
  <1>5. Candidates(n + 1)' = Candidates(n) \ {a}
    <2>1. tunings'[n + 1].action # "Applied" /\ 1..n + 1 = (1..n) \cup {n + 1}
      BY <1>1
    <2> QED
      BY <1>1, <1>4, <2>1 DEF Candidates
  <1>6. ASSUME NEW i \in 1..a - 1 PROVE i \in RolledBack(n) <=> i \in RolledBack(a - 1)
    <2>1. \A j \in 1..a - 1 : j \in 1..n
      BY <1>1
    <2>2. RolledBack(a - 1) \subseteq RolledBack(n)
      BY <2>1 DEF RolledBack
    <2>3. ASSUME i \in RolledBack(n) PROVE i \in RolledBack(a - 1)
      <3>1. PICK j \in 1..n : tunings[j].action = "RolledBack" /\ tunings[j].overlay = i
        BY <2>3 DEF RolledBack
      <3>2. ~(j \in a + 1 .. n) /\ j # a
        BY <1>1, <1>3, <3>1
      <3>3. j \in 1..a - 1
        BY <1>1, <3>1, <3>2
      <3> QED
        BY <3>1, <3>3 DEF RolledBack
    <2> QED
      BY <2>2, <2>3
  <1>7. \A i \in 1..n : i <= a /\ i # a => i \in 1..a - 1
    BY <1>1
  <1>8. \A i \in 1..a - 1 : i \in 1..n /\ i <= a /\ i # a
    BY <1>1
  <1>9. Candidates(n) \ {a} \subseteq Candidates(a - 1)
    BY <1>2, <1>6, <1>7 DEF Candidates
  <1>10. Candidates(a - 1) \subseteq Candidates(n) \ {a}
    BY <1>6, <1>8 DEF Candidates
  <1> QED
    BY <1>5, <1>9, <1>10

LEMMA UndoneEffect ==
  ASSUME tunings \in Seq(Tunings), NEW n, n = Len(tunings), NEW t \in Tunings,
         tunings' = Append(tunings, t), t.action = "RolledBack",
         NEW a \in 1..n, a = Active(n), t.overlay = a,
         \A i \in a + 1 .. n : tunings[i].overlay > a
  PROVE  \A q \in Requests : Effective(q, n + 1)' = Effective(q, a - 1)
  <1>1. Active(n + 1)' = Active(a - 1)
    BY Undone DEF Active
  <1>2. Active(a - 1) \in 0..a - 1 /\ n \in Nat
    BY ActiveFacts, SMTT(30)
  <1>3. \A i \in 1..n : tunings'[i] = tunings[i]
    OBVIOUS
  <1>4. Active(a - 1) # 0 => tunings'[Active(a - 1)] = tunings[Active(a - 1)]
    BY <1>2, <1>3
  <1> QED
    BY <1>1, <1>4 DEF Effective

\* What the property says of one step.
Undoes ==
  LET n == Len(tunings)
      last == tunings'[n + 1]
  IN /\ Len(tunings') = n + 1 /\ last.action = "RolledBack"
     /\ last.overlay = Active(n)
     /\ \A i \in last.overlay + 1 .. n : tunings[i].overlay > last.overlay
     => \A q \in Requests : Effective(q, Len(tunings))' = Effective(q, last.overlay - 1)

LEMMA StepUndoes ==
  ASSUME IInv, [Next]_vars
  PROVE  Undoes \/ tunings' = tunings
  <1>1. tunings \in Seq(Tunings) /\ Len(tunings) \in Nat
    BY DEF IInv
  <1>2. ASSUME NEW d \in Drivers, Propose(d) PROVE Undoes
    <2>1. PICK t \in Tunings : tunings' = Append(tunings, t) /\ t.action # "RolledBack"
      BY <1>2, ProposedFacts
    <2>2. tunings'[Len(tunings) + 1] = t
      BY <1>1, <2>1
    <2> QED
      BY <2>1, <2>2 DEF Undoes
  <1>3. ASSUME NEW d \in Drivers, Rollback(d) PROVE Undoes
    <2>1. PICK a \in 1..Len(tunings), t \in Tunings :
            tunings' = Append(tunings, t) /\ t.action = "RolledBack" /\ t.overlay = a
      BY <1>3, RolledBackFacts DEF Rollback, Tuning
    <2>2. tunings'[Len(tunings) + 1] = t /\ Len(tunings') = Len(tunings) + 1
      BY <1>1, <2>1
    <2> SUFFICES ASSUME a = Active(Len(tunings)),
                        \A i \in a + 1 .. Len(tunings) : tunings[i].overlay > a
                 PROVE  \A q \in Requests :
                          Effective(q, Len(tunings))' = Effective(q, a - 1)
      BY <2>1, <2>2 DEF Undoes
    <2>3. PICK n : n = Len(tunings)
      OBVIOUS
    <2>4. \A q \in Requests : Effective(q, n + 1)' = Effective(q, a - 1)
      BY <1>1, <2>1, <2>3, UndoneEffect
    <2> QED
      BY <2>2, <2>3, <2>4
  <1>4. CASE tunings' = tunings
    BY <1>4
  <1> QED
    BY <1>2, <1>3, <1>4 DEF Next, Load, Finish, TooEarly, NothingToTune, Interrupt, vars

\* A rollback of the overlay in force brings back the policy there was before it,
\* unless an older overlay was rolled back meanwhile.
THEOREM RollbacksUndo == Spec => RollbackUndoes
  <1>1. IInv /\ [Next]_vars => [Undoes]_tunings
    BY StepUndoes
  <1>2. Spec => [][Undoes]_tunings
    BY <1>1, Inductive, PTL DEF Spec
  <1> QED
    BY <1>2, PTL DEF RollbackUndoes, Undoes
=============================================================================
