------------------------ MODULE KernelSessionProofs ------------------------
(***************************************************************************)
(* Theorems about a session whose hosts let one advance return, or be      *)
(* interrupted, before they start the next: for any number of drivers,     *)
(* keys, requests, actions, limits and interruptions.                      *)
(***************************************************************************)
EXTENDS KernelProofs

\* There is one advance at a time.  Nothing in the engine sees to it.
Serial == \A d, e \in Drivers : ~At(d, "idle") /\ ~At(e, "idle") => d = e

-----------------------------------------------------------------------------
(* What each step makes of the ledger and of the future f, which becomes g. *)

FieldNames == {"pc", "key", "token", "verdict", "trig", "upto", "step", "fails", "call",
               "at", "gid", "origin", "ok"}

\* Only the fields in S may change.
Moved(f, g, S) == \A x \in FieldNames \ S : g[x] = f[x]

Silent == log' = log

Delivered(f, g) ==
  /\ f.pc = "idle" /\ Silent
  /\ \/ g = f
     \/ /\ g.key # NoKey => ~Answered(g.key)
        /\ g.pc = "accept" /\ Moved(f, g, {"pc", "key", "token", "verdict"})

Triggered(f, g) ==
  /\ f.pc = "accept" /\ Write(Trigger(f.key))
  /\ g.pc = "load" /\ g.trig = Here /\ Moved(f, g, {"pc", "trig"})

Loaded(f, g) ==
  /\ f.pc = "load" /\ Silent
  /\ f.token = 0 => g.pc = "step"
  /\ f.token # 0 => g.pc = "lookup"
  /\ g.upto = Len(log) /\ g.step = StepCount(Len(log)) /\ g.fails = FailureSteps(Len(log))
  /\ Moved(f, g, {"pc", "upto", "step", "fails"})

\* The pending call of the token, handed to the graph or refused.
HandedBack(f, g, verdict) ==
  /\ verdict = "Approved" => g.pc = "graph"
  /\ verdict # "Approved" => g.pc = "reject"
  /\ g.call = log[f.token].call /\ g.at = log[f.token].step /\ g.origin = "approval"
  /\ Moved(f, g, {"pc", "call", "at", "origin"})

LookedUp(f, g) ==
  /\ f.pc = "lookup" /\ Silent
  /\ \/ IsPending(f.token) /\ g.pc = "resolve" /\ Moved(f, g, {"pc"})
     \/ \E r \in ResolutionsOf(f.token, f.upto) : HandedBack(f, g, log[r].verdict)
     \/ g.pc = "finish" /\ Moved(f, g, {"pc"})

Resolves(f, g) ==
  /\ f.pc = "resolve" /\ Write(Resolution(f.token, f.verdict))
  /\ HandedBack(f, g, f.verdict)

Continued(f, g) ==
  LET n == Len(log)
  IN /\ f.pc = "idle" /\ Silent /\ Open(n)
     /\ g.trig = ActiveTrigger(n) /\ g.key = log[ActiveTrigger(n)].key
     /\ g.upto = n /\ g.step = StepCount(n) /\ g.fails = FailureSteps(n)
     /\ \/ /\ g.pc = "step"
           /\ Moved(f, g, {"pc", "trig", "key", "upto", "step", "fails"})
        \/ /\ g.pc = "graph" /\ g.origin = "continue" /\ LastGraph(n) \in All("Graph")
           /\ g.call = log[LastGraph(n)].call /\ g.at = log[LastGraph(n)].step
           /\ Moved(f, g, {"pc", "trig", "key", "upto", "step", "fails", "call", "at", "origin"})

Stopped(f, g) == f.pc = "step" /\ Silent /\ g.pc = "finish" /\ Moved(f, g, {"pc"})

DecidedOn(f, g, act) ==
  /\ f.pc = "step" /\ f.step < MaxSteps /\ f.fails < MaxFailures
  /\ Write(Decision(f.trig, f.step, act))
  /\ \/ g = Idle /\ act = "Continue"
     \/ /\ g.pc \in {"finish", "deliberate", "graph", "suspend"}
        /\ g.pc = "graph" => act # "Ask"
        /\ g.pc = "suspend" => act = "Ask"
        /\ g.pc = "deliberate" => act = "Plan"
        /\ g.call = Here /\ g.at = f.step /\ g.origin = "decision"
        /\ Moved(f, g, {"pc", "call", "at", "origin"})

Deliberated(f, g) == f.pc = "deliberate" /\ Write(Deliberation) /\ g = Idle

Suspended(f, g) ==
  /\ f.pc = "suspend" /\ Write(Pending(f.at, f.call))
  /\ g.pc = "finish" /\ Moved(f, g, {"pc"})

Finished(f, g) == f.pc = "finish" /\ Write(Outcome(f.trig, f.key)) /\ g = Idle

Graphed(f, g) ==
  /\ f.pc = "graph" /\ g.pc = "execute" /\ g.gid = GraphId(f.upto, f.trig, f.at, f.call)
  /\ Moved(f, g, {"pc", "gid"})
  /\ \/ GraphKnown(f.upto, g.gid) /\ Silent
     \/ ~GraphKnown(f.upto, g.gid) /\ Write(Graph(g.gid, f.at, f.call))

Executed(f, g) ==
  /\ f.pc = "execute" /\ ~CallSettled(f.upto, f.gid, f.call) /\ Write(Done(f.gid, f.call, g.ok))
  /\ g.pc = "result" /\ Moved(f, g, {"pc", "ok"})

\* What the advance goes on with when its call is settled.
GoesOn(f, g) ==
  \/ f.origin = "decision" /\ g = Idle
  \/ f.origin = "continue" /\ g.pc = "step" /\ Moved(f, g, {"pc"})
  \/ /\ f.origin = "approval" /\ g.pc = "step" /\ g.fails >= f.fails
     /\ Moved(f, g, {"pc", "step", "fails"})

Reused(f, g) ==
  f.pc = "execute" /\ CallSettled(f.upto, f.gid, f.call) /\ Silent /\ GoesOn(f, g)

Reported(f, g) == f.pc = "result" /\ Write(Result(f.call, f.ok)) /\ GoesOn(f, g)

Refused(f, g) == f.pc = "reject" /\ Write(Result(f.call, FALSE)) /\ GoesOn(f, g)

Dropped(f, g) ==
  f.pc # "idle" /\ Silent /\ g = Idle /\ interruptions' = interruptions + 1

Move(f, g) ==
  \/ Delivered(f, g) \/ Triggered(f, g) \/ Loaded(f, g) \/ LookedUp(f, g) \/ Resolves(f, g)
  \/ Continued(f, g) \/ Stopped(f, g) \/ \E act \in Acts : DecidedOn(f, g, act)
  \/ Deliberated(f, g) \/ Suspended(f, g) \/ Finished(f, g) \/ Graphed(f, g)
  \/ Executed(f, g) \/ Reused(f, g) \/ Reported(f, g) \/ Refused(f, g) \/ Dropped(f, g)

\* A driver's new future.
LEMMA NewFuture ==
  ASSUME KernelInv, NEW d \in Drivers, NEW g, run' = [run EXCEPT ![d] = g]
  PROVE  run'[d] = g
  BY DEF KernelInv, TypeOK

LEMMA DeliverMoves ==
  ASSUME KernelInv, NEW d \in Drivers, NEW key, NEW token, NEW verdict,
         Deliver(d, key, token, verdict)
  PROVE  Delivered(run[d], run'[d])
<1>1. PICK f \in Future : f = run[d]
  BY Known
<1>2. f.pc = "idle" /\ Silent
  BY <1>1 DEF Deliver, At, Silent
<1>3. CASE UNCHANGED run
  BY <1>1, <1>2, <1>3 DEF Delivered
<1>4. CASE /\ ~(key # NoKey /\ Answered(key))
           /\ run' = [run EXCEPT ![d].pc = "accept", ![d].key = key,
                                 ![d].token = token, ![d].verdict = verdict]
  <2>1. PICK g : g = [f EXCEPT !.pc = "accept", !.key = key, !.token = token,
                               !.verdict = verdict]
    OBVIOUS
  <2>2. run' = [run EXCEPT ![d] = g]
    BY <1>1, <1>4, <2>1, Zenon
  <2>3. run'[d] = g
    BY <2>2, NewFuture
  <2>4. g.pc = "accept" /\ g.key = key /\ Moved(f, g, {"pc", "key", "token", "verdict"})
    BY <2>1 DEF Future, Moved, FieldNames
  <2> QED BY <1>1, <1>2, <1>4, <2>3, <2>4 DEF Delivered
<1> QED BY <1>3, <1>4 DEF Deliver

LEMMA AppendTriggerMoves ==
  ASSUME KernelInv, NEW d \in Drivers, AppendTrigger(d)
  PROVE  Triggered(run[d], run'[d])
<1>1. PICK f \in Future : f = run[d]
  BY Known
<1>2. PICK g : g = [f EXCEPT !.pc = "load", !.trig = Here]
  OBVIOUS
<1>3. run' = [run EXCEPT ![d] = g]
  BY <1>1, <1>2, Zenon DEF AppendTrigger
<1>4. run'[d] = g
  BY <1>3, NewFuture
<1>5. g.pc = "load" /\ g.trig = Here /\ Moved(f, g, {"pc", "trig"})
  BY <1>2 DEF Future, Moved, FieldNames
<1> QED BY <1>1, <1>4, <1>5 DEF AppendTrigger, At, Triggered

LEMMA LoadMoves ==
  ASSUME KernelInv, NEW d \in Drivers, Load(d)
  PROVE  Loaded(run[d], run'[d])
<1>1. PICK f \in Future : f = run[d]
  BY Known
<1>2. PICK pc, fails : /\ pc = IF f.token = 0 THEN "step" ELSE "lookup"
                       /\ fails = FailureSteps(Len(log))
  OBVIOUS
<1>3. PICK g : g = [f EXCEPT !.pc = pc, !.upto = Len(log), !.step = StepCount(Len(log)),
                             !.fails = fails]
  OBVIOUS
<1>4. run' = [run EXCEPT ![d] = g]
  BY <1>1, <1>2, <1>3, Zenon DEF Load
<1>5. run'[d] = g
  BY <1>4, NewFuture
<1>6. /\ g.pc = pc /\ g.upto = Len(log) /\ g.step = StepCount(Len(log)) /\ g.fails = fails
      /\ Moved(f, g, {"pc", "upto", "step", "fails"})
  BY <1>3 DEF Future, Moved, FieldNames
<1> QED BY <1>1, <1>2, <1>5, <1>6 DEF Load, At, Loaded, Silent

LEMMA ResumeMoves ==
  ASSUME KernelInv, NEW d \in Drivers, NEW verdict, Resume(d, verdict)
  PROVE  HandedBack(run[d], run'[d], verdict)
<1>1. PICK f \in Future : f = run[d]
  BY Known
<1>2. PICK pc, call, at : /\ pc = IF verdict = "Approved" THEN "graph" ELSE "reject"
                          /\ call = log[f.token].call /\ at = log[f.token].step
  OBVIOUS
<1>3. PICK g : g = [f EXCEPT !.pc = pc, !.call = call, !.at = at, !.origin = "approval"]
  OBVIOUS
<1>4. run' = [run EXCEPT ![d] = g]
  BY <1>1, <1>2, <1>3, Zenon DEF Resume
<1>5. run'[d] = g
  BY <1>4, NewFuture
<1>6. /\ g.pc = pc /\ g.call = call /\ g.at = at /\ g.origin = "approval"
      /\ Moved(f, g, {"pc", "call", "at", "origin"})
  BY <1>3 DEF Future, Moved, FieldNames
<1> QED BY <1>1, <1>2, <1>5, <1>6 DEF HandedBack

LEMMA OnlyPc ==
  ASSUME KernelInv, NEW d \in Drivers, NEW pc, run' = [run EXCEPT ![d].pc = pc]
  PROVE  run'[d].pc = pc /\ Moved(run[d], run'[d], {"pc"})
<1>1. PICK f \in Future : f = run[d]
  BY Known
<1>2. PICK g : g = [f EXCEPT !.pc = pc]
  OBVIOUS
<1>3. run' = [run EXCEPT ![d] = g]
  BY <1>1, <1>2, Zenon
<1>4. run'[d] = g
  BY <1>3, NewFuture
<1>5. g.pc = pc /\ Moved(f, g, {"pc"})
  BY <1>2 DEF Future, Moved, FieldNames
<1> QED BY <1>1, <1>4, <1>5

LEMMA LookUpMoves ==
  ASSUME KernelInv, NEW d \in Drivers, LookUp(d)
  PROVE  LookedUp(run[d], run'[d])
<1>1. PICK f \in Future : f = run[d] /\ f.upto \in 0 .. Len(log)
  BY Known
<1>2. f.pc = "lookup" /\ Silent
  BY <1>1 DEF LookUp, At, Silent
<1>3. CASE IsPending(f.token) /\ run' = [run EXCEPT ![d].pc = "resolve"]
  BY <1>1, <1>2, <1>3, OnlyPc DEF LookedUp
<1>4. CASE run' = [run EXCEPT ![d].pc = "finish"]
  BY <1>1, <1>2, <1>4, OnlyPc DEF LookedUp
<1>5. CASE /\ ResolutionsOf(f.token, f.upto) # {}
           /\ Resume(d, log[Min(ResolutionsOf(f.token, f.upto))].verdict)
  <2>1. ResolutionsOf(f.token, f.upto) \in SUBSET Nat
    BY DEF ResolutionsOf, Records
  <2>2. Min(ResolutionsOf(f.token, f.upto)) \in ResolutionsOf(f.token, f.upto)
    BY <1>5, <2>1, MinIn
  <2>3. PICK r \in ResolutionsOf(f.token, f.upto) : Resume(d, log[r].verdict)
    BY <1>5, <2>2
  <2>4. HandedBack(run[d], run'[d], log[r].verdict)
    BY <2>3, ResumeMoves
  <2> QED BY <1>1, <1>2, <2>3, <2>4 DEF LookedUp
<1> QED BY <1>1, <1>3, <1>4, <1>5 DEF LookUp

LEMMA ResolveMoves ==
  ASSUME KernelInv, NEW d \in Drivers, Resolve(d)
  PROVE  Resolves(run[d], run'[d])
BY ResumeMoves DEF Resolve, At, Resolves

LEMMA ContinueMoves ==
  ASSUME KernelInv, NEW d \in Drivers, Continue(d)
  PROVE  Continued(run[d], run'[d])
<1>1. PICK f \in Future : f = run[d]
  BY Known
<1>2. PICK n \in Nat : n = Len(log)
  BY DEF KernelInv, TypeOK
<1>3. PICK trig, key, step, fails :
        /\ trig = ActiveTrigger(n) /\ key = log[ActiveTrigger(n)].key
        /\ step = StepCount(n) /\ fails = FailureSteps(n)
  OBVIOUS
<1>4. PICK base : base = [f EXCEPT !.trig = trig, !.key = key, !.upto = n, !.step = step,
                                   !.fails = fails]
  OBVIOUS
<1>5. base = [run[d] EXCEPT !.trig = ActiveTrigger(n), !.key = log[ActiveTrigger(n)].key,
                            !.upto = n, !.step = StepCount(n), !.fails = FailureSteps(n)]
  BY <1>1, <1>3, <1>4, Zenon
<1>6. f.pc = "idle" /\ Silent /\ Open(n)
  BY <1>1, <1>2 DEF Continue, At, Silent
<1>7. CASE GraphActive(n)
  <2>1. PICK call, at : call = log[LastGraph(n)].call /\ at = log[LastGraph(n)].step
    OBVIOUS
  <2>2. PICK g : g = [base EXCEPT !.pc = "graph", !.call = call, !.at = at,
                                  !.origin = "continue"]
    OBVIOUS
  <2>3. run' = [run EXCEPT ![d] = g]
    BY <1>2, <1>5, <1>7, <2>1, <2>2, Zenon DEF Continue
  <2>4. run'[d] = g
    BY <2>3, NewFuture
  <2>5. /\ g.trig = trig /\ g.key = key /\ g.upto = n /\ g.step = step /\ g.fails = fails
        /\ g.pc = "graph" /\ g.call = call /\ g.at = at /\ g.origin = "continue"
        /\ Moved(f, g, {"pc", "trig", "key", "upto", "step", "fails", "call", "at", "origin"})
    BY <1>4, <2>2 DEF Future, Moved, FieldNames
  <2>6. LastGraph(n) \in All("Graph")
    BY <1>2, <1>7, LastGraphFacts DEF GraphActive, All, KernelInv, TypeOK
  <2> QED BY <1>1, <1>2, <1>3, <1>6, <2>1, <2>4, <2>5, <2>6 DEF Continued
<1>8. CASE ~GraphActive(n)
  <2>1. PICK g : g = [base EXCEPT !.pc = "step"]
    OBVIOUS
  <2>2. run' = [run EXCEPT ![d] = g]
    BY <1>2, <1>5, <1>8, <2>1, Zenon DEF Continue
  <2>3. run'[d] = g
    BY <2>2, NewFuture
  <2>4. /\ g.trig = trig /\ g.key = key /\ g.upto = n /\ g.step = step /\ g.fails = fails
        /\ g.pc = "step"
        /\ Moved(f, g, {"pc", "trig", "key", "upto", "step", "fails"})
    BY <1>4, <2>1 DEF Future, Moved, FieldNames
  <2> QED BY <1>1, <1>2, <1>3, <1>6, <2>3, <2>4 DEF Continued
<1> QED BY <1>7, <1>8

LEMMA StopMoves ==
  ASSUME KernelInv, NEW d \in Drivers, Stop(d)
  PROVE  Stopped(run[d], run'[d])
BY OnlyPc DEF Stop, At, Stopped, Silent

LEMMA DecideMoves ==
  ASSUME KernelInv, NEW d \in Drivers, NEW act \in Acts, Decide(d, act)
  PROVE  DecidedOn(run[d], run'[d], act)
<1>1. PICK f \in Future : f = run[d]
  BY Known
<1>2. /\ f.pc = "step" /\ f.step < MaxSteps /\ f.fails < MaxFailures
      /\ Write(Decision(f.trig, f.step, act))
  BY <1>1 DEF Decide, At
<1>3. CASE act = "Continue"
  <2>1. run' = [run EXCEPT ![d] = Idle]
    BY <1>3 DEF Decide, Return
  <2> QED BY <1>1, <1>2, <1>3, <2>1, NewFuture DEF DecidedOn
<1>4. CASE act # "Continue"
  <2>1. PICK pc : /\ pc = Handler[act] /\ pc \in {"finish", "deliberate", "graph", "suspend"}
                  /\ pc = "graph" => act # "Ask"
                  /\ pc = "suspend" => act = "Ask"
                  /\ pc = "deliberate" => act = "Plan"
    BY <1>4, KernelAssumption DEF AllActs, Handler
  <2>2. PICK at : at = f.step
    OBVIOUS
  <2>3. PICK g : g = [f EXCEPT !.pc = pc, !.call = Here, !.at = at, !.origin = "decision"]
    OBVIOUS
  <2>4. run' = [run EXCEPT ![d] = g]
    BY <1>1, <1>4, <2>1, <2>2, <2>3, Zenon DEF Decide
  <2>5. run'[d] = g
    BY <2>4, NewFuture
  <2>6. /\ g.pc = pc /\ g.call = Here /\ g.at = at /\ g.origin = "decision"
        /\ Moved(f, g, {"pc", "call", "at", "origin"})
    BY <2>3 DEF Future, Moved, FieldNames
  <2> QED BY <1>1, <1>2, <2>1, <2>2, <2>5, <2>6 DEF DecidedOn
<1> QED BY <1>3, <1>4

LEMMA ReturnMoves ==
  ASSUME KernelInv, NEW d \in Drivers, Return(d)
  PROVE  run'[d] = Idle
BY NewFuture DEF Return

LEMMA DeliberateMoves ==
  ASSUME KernelInv, NEW d \in Drivers, Deliberate(d)
  PROVE  Deliberated(run[d], run'[d])
BY ReturnMoves DEF Deliberate, At, Deliberated

LEMMA SuspendMoves ==
  ASSUME KernelInv, NEW d \in Drivers, Suspend(d)
  PROVE  Suspended(run[d], run'[d])
BY OnlyPc DEF Suspend, At, Suspended

LEMMA FinishMoves ==
  ASSUME KernelInv, NEW d \in Drivers, Finish(d)
  PROVE  Finished(run[d], run'[d])
BY ReturnMoves DEF Finish, At, Finished

LEMMA RecordGraphMoves ==
  ASSUME KernelInv, NEW d \in Drivers, RecordGraph(d)
  PROVE  Graphed(run[d], run'[d])
<1>1. PICK f \in Future : f = run[d]
  BY Known
<1>2. PICK gid : gid = GraphId(f.upto, f.trig, f.at, f.call)
  OBVIOUS
<1>3. PICK g : g = [f EXCEPT !.pc = "execute", !.gid = gid]
  OBVIOUS
<1>4. run' = [run EXCEPT ![d] = g]
  BY <1>1, <1>2, <1>3, Zenon DEF RecordGraph
<1>5. run'[d] = g
  BY <1>4, NewFuture
<1>6. g.pc = "execute" /\ g.gid = gid /\ Moved(f, g, {"pc", "gid"})
  BY <1>3 DEF Future, Moved, FieldNames
<1> QED BY <1>1, <1>2, <1>5, <1>6 DEF RecordGraph, At, Graphed, Silent

LEMMA ExecuteMoves ==
  ASSUME KernelInv, NEW d \in Drivers, NEW ok \in BOOLEAN, Execute(d, ok)
  PROVE  Executed(run[d], run'[d])
<1>1. PICK f \in Future : f = run[d]
  BY Known
<1>2. PICK g : g = [f EXCEPT !.pc = "result", !.ok = ok]
  OBVIOUS
<1>3. run' = [run EXCEPT ![d] = g]
  BY <1>1, <1>2, Zenon DEF Execute
<1>4. run'[d] = g
  BY <1>3, NewFuture
<1>5. g.pc = "result" /\ g.ok = ok /\ Moved(f, g, {"pc", "ok"})
  BY <1>2 DEF Future, Moved, FieldNames
<1> QED BY <1>1, <1>4, <1>5 DEF Execute, At, Executed

LEMMA ResumedMoves ==
  ASSUME KernelInv, NEW d \in Drivers, NEW b, run' = [run EXCEPT ![d] = Resumed(@, b)]
  PROVE  GoesOn(run[d], run'[d])
<1>1. PICK f \in Future : f = run[d]
  BY Known
<1>2. PICK g : g = Resumed(f, b)
  OBVIOUS
<1>3. run' = [run EXCEPT ![d] = g]
  BY <1>1, <1>2, Zenon
<1>4. run'[d] = g
  BY <1>3, NewFuture
<1>5. CASE f.origin = "decision"
  BY <1>1, <1>2, <1>4, <1>5 DEF Resumed, GoesOn
<1>6. CASE f.origin = "continue"
  <2>1. g = [f EXCEPT !.pc = "step"]
    BY <1>2, <1>6, Zenon DEF Resumed
  <2>2. g.pc = "step" /\ Moved(f, g, {"pc"})
    BY <2>1 DEF Future, Moved, FieldNames
  <2> QED BY <1>1, <1>4, <1>6, <2>2 DEF GoesOn
<1>7. CASE f.origin = "approval"
  <2>1. PICK step, fails : step = f.at + 1 /\ fails = f.fails + (IF b THEN 1 ELSE 0)
    OBVIOUS
  <2>2. g = [f EXCEPT !.pc = "step", !.step = step, !.fails = fails]
    BY <1>2, <1>7, <2>1, Zenon DEF Resumed
  <2>3. g.pc = "step" /\ g.fails = fails /\ Moved(f, g, {"pc", "step", "fails"})
    BY <2>2 DEF Future, Moved, FieldNames
  <2>4. g.fails >= f.fails
    BY <2>1, <2>3 DEF Future
  <2> QED BY <1>1, <1>4, <1>7, <2>3, <2>4 DEF GoesOn
<1> QED BY <1>5, <1>6, <1>7 DEF Future

LEMMA SettledMoves ==
  ASSUME KernelInv, NEW d \in Drivers
  PROVE  /\ Reuse(d) => Reused(run[d], run'[d])
         /\ AppendResult(d) => Reported(run[d], run'[d])
         /\ Reject(d) => Refused(run[d], run'[d])
<1>1. PICK f \in Future : f = run[d]
  BY Known
<1>2. ASSUME Reuse(d) PROVE Reused(run[d], run'[d])
  BY <1>2, ResumedMoves DEF Reuse, At, Reused, Silent
<1>3. ASSUME AppendResult(d) PROVE Reported(run[d], run'[d])
  <2>1. run' = [run EXCEPT ![d] = Resumed(@, ~f.ok)]
    BY <1>1, <1>3, Zenon DEF AppendResult
  <2>2. PICK b : b = ~f.ok
    OBVIOUS
  <2>3. run' = [run EXCEPT ![d] = Resumed(@, b)]
    BY <2>1, <2>2, Zenon
  <2> QED BY <1>3, <2>3, ResumedMoves DEF AppendResult, At, Reported
<1>4. ASSUME Reject(d) PROVE Refused(run[d], run'[d])
  BY <1>4, ResumedMoves DEF Reject, At, Refused
<1> QED BY <1>2, <1>3, <1>4

LEMMA InterruptMoves ==
  ASSUME KernelInv, NEW d \in Drivers, Interrupt(d)
  PROVE  Dropped(run[d], run'[d])
BY ReturnMoves DEF Interrupt, At, Dropped, Silent

\* Every step is one of them, and leaves the other drivers alone.
LEMMA OthersStay ==
  ASSUME KernelInv, NEW d \in Drivers,
         Arrive(d) \/ Continue(d) \/ DriverStep(d) \/ Interrupt(d),
         NEW e \in Drivers, e # d
  PROVE  run'[e] = run[e]
<1>1. run \in [Drivers -> Future]
  BY DEF KernelInv, TypeOK
<1>2. CASE Arrive(d)
  BY <1>1, <1>2 DEF Arrive, Deliver
<1>3. CASE Continue(d)
  BY <1>1, <1>3 DEF Continue
<1>4. CASE Interrupt(d)
  BY <1>1, <1>4 DEF Interrupt, Return
<1>5. CASE AppendTrigger(d) \/ Load(d) \/ Stop(d) \/ Suspend(d) \/ RecordGraph(d)
  BY <1>1, <1>5 DEF AppendTrigger, Load, Stop, Suspend, RecordGraph
<1>6. CASE LookUp(d) \/ Resolve(d)
  BY <1>1, <1>6 DEF LookUp, Resolve, Resume
<1>7. CASE \E act \in Acts : Decide(d, act)
  BY <1>1, <1>7 DEF Decide, Return
<1>8. CASE Deliberate(d) \/ Finish(d)
  BY <1>1, <1>8 DEF Deliberate, Finish, Return
<1>9. CASE \E ok \in BOOLEAN : Execute(d, ok)
  BY <1>1, <1>9 DEF Execute
<1>10. CASE Reuse(d) \/ AppendResult(d) \/ Reject(d)
  BY <1>1, <1>10 DEF Reuse, AppendResult, Reject
<1> QED BY <1>2, <1>3, <1>4, <1>5, <1>6, <1>7, <1>8, <1>9, <1>10 DEF DriverStep

LEMMA StepMoves ==
  ASSUME KernelInv, Next
  PROVE  \E d \in Drivers : /\ Move(run[d], run'[d])
                            /\ \A e \in Drivers : e # d => run'[e] = run[e]
<1>1. PICK d \in Drivers : Arrive(d) \/ Continue(d) \/ DriverStep(d) \/ Interrupt(d)
  BY DEF Next
<1>2. ASSUME Arrive(d) PROVE Delivered(run[d], run'[d])
  BY <1>2, DeliverMoves DEF Arrive
<1>3. ASSUME DriverStep(d) PROVE Move(run[d], run'[d])
  <2>1. CASE AppendTrigger(d) \/ Load(d) \/ LookUp(d) \/ Resolve(d) \/ Stop(d)
    BY <2>1, AppendTriggerMoves, LoadMoves, LookUpMoves, ResolveMoves, StopMoves DEF Move
  <2>2. CASE \E act \in Acts : Decide(d, act)
    BY <2>2, DecideMoves DEF Move
  <2>3. CASE Deliberate(d) \/ Suspend(d) \/ Finish(d) \/ RecordGraph(d)
    BY <2>3, DeliberateMoves, SuspendMoves, FinishMoves, RecordGraphMoves DEF Move
  <2>4. CASE \E ok \in BOOLEAN : Execute(d, ok)
    BY <2>4, ExecuteMoves DEF Move
  <2>5. CASE Reuse(d) \/ AppendResult(d) \/ Reject(d)
    BY <2>5, SettledMoves DEF Move
  <2> QED BY <1>3, <2>1, <2>2, <2>3, <2>4, <2>5 DEF DriverStep
<1>4. Move(run[d], run'[d])
  BY <1>1, <1>2, <1>3, ContinueMoves, InterruptMoves DEF Move
<1>5. \A e \in Drivers : e # d => run'[e] = run[e]
  BY <1>1, OthersStay
<1> QED BY <1>4, <1>5

\* Advances one at a time: another driver holds nothing, or the step records nothing.
LEMMA Bystanders ==
  ASSUME Serial, Serial', NEW d \in Drivers, Move(run[d], run'[d]),
         \A e \in Drivers : e # d => run'[e] = run[e],
         NEW e \in Drivers, e # d
  PROVE  run[e].pc = "idle" \/ Silent
<1>1. SUFFICES ASSUME run[e].pc # "idle" PROVE Silent
  OBVIOUS
<1>2. PICK f, g : f = run[d] /\ g = run'[d] /\ Move(f, g)
  OBVIOUS
<1>3. f.pc = "idle"
  BY <1>1, <1>2 DEF Serial, At
<1>4. g.pc = "idle"
  BY <1>1, <1>2 DEF Serial, At
<1> QED BY <1>2, <1>3 DEF Move, Delivered, Triggered, Loaded, LookedUp, Resolves, Continued,
          Stopped, DecidedOn, Deliberated, Suspended, Finished, Graphed, Executed, Reused,
          Reported, Refused, Dropped

-----------------------------------------------------------------------------
(* One more record. *)

LEMMA Grown ==
  ASSUME log \in Seq(Entry), NEW rec, Write(rec)
  PROVE  /\ Len(log) \in Nat /\ Here = Len(log) + 1 /\ Len(log') = Here
         /\ log'[Here] = rec /\ \A i \in 1 .. Len(log) : log'[i] = log[i]
         /\ \A kind : /\ All(kind) \subseteq 1 .. Len(log)
                      /\ rec.kind = kind => All(kind)' = All(kind) \cup {Here}
                      /\ rec.kind # kind => All(kind)' = All(kind)
BY DEF Write, Here, All, Records

\* What was read from the first records is read again.
LEMMA Prefix ==
  ASSUME log \in Seq(Entry), NEW rec, Write(rec), NEW n \in 0 .. Len(log)
  PROVE  /\ \A kind : Records(n, kind)' = Records(n, kind)
         /\ LastOutcome(n)' = LastOutcome(n)
         /\ \A kind : Segment(n, kind)' = Segment(n, kind)
         /\ \A token : ResolutionsOf(token, n)' = ResolutionsOf(token, n)
<1>1. \A i \in 1 .. n : log'[i] = log[i]
  BY Grown
<1>2. \A kind : Records(n, kind)' = Records(n, kind)
  BY <1>1 DEF Records
<1>3. LastOutcome(n)' = LastOutcome(n)
  BY <1>2 DEF LastOutcome
<1>4. \A kind : Segment(n, kind)' = Segment(n, kind)
  BY <1>2, <1>3 DEF Segment
<1>5. \A token : ResolutionsOf(token, n)' = ResolutionsOf(token, n)
  BY <1>1, <1>2 DEF ResolutionsOf, Records
<1> QED BY <1>2, <1>3, <1>4, <1>5

\* The last outcome is a record or nothing, and no outcome follows it.
LEMMA LastOutcomeFacts ==
  ASSUME NEW n \in Nat
  PROVE  /\ LastOutcome(n) \in {0} \cup Records(n, "Outcome") /\ LastOutcome(n) \in 0 .. n
         /\ \A i \in Records(n, "Outcome") : i <= LastOutcome(n)
<1> DEFINE S == {0} \cup Records(n, "Outcome")
<1>1. S \in SUBSET (0 .. n) /\ S # {}
  BY DEF Records
<1>2. Max(S) \in S /\ \A y \in S : y <= Max(S)
  BY <1>1, MaxIn
<1> QED BY <1>1, <1>2 DEF LastOutcome

\* An outcome opens a new segment, and any other record belongs to the current one.
LEMMA SegmentGrows ==
  ASSUME log \in Seq(Entry), NEW rec, Write(rec)
  PROVE  /\ rec.kind = "Outcome" => \A kind : Segment(Len(log), kind)' = {}
         /\ rec.kind # "Outcome" =>
              \A kind :
                /\ rec.kind = kind => Segment(Len(log), kind)' = Segment(Len(log), kind) \cup {Here}
                /\ rec.kind # kind => Segment(Len(log), kind)' = Segment(Len(log), kind)
<1>1. /\ Len(log) \in Nat /\ Here = Len(log) + 1 /\ Len(log') = Here
      /\ \A kind : /\ rec.kind = kind => All(kind)' = All(kind) \cup {Here}
                   /\ rec.kind # kind => All(kind)' = All(kind)
      /\ \A kind : All(kind) \subseteq 1 .. Len(log)
  BY Grown
<1>2. /\ LastOutcome(Len(log)) \in {0} \cup All("Outcome")
      /\ LastOutcome(Len(log)) \in 0 .. Len(log)
      /\ \A i \in All("Outcome") : i <= LastOutcome(Len(log))
  BY <1>1, LastOutcomeFacts DEF All
<1>3. LastOutcome(Len(log))' = Max({0} \cup All("Outcome")')
  BY DEF LastOutcome, All
<1>4. CASE rec.kind = "Outcome"
  <2>0. All("Outcome")' = All("Outcome") \cup {Here} /\ All("Outcome") \subseteq 1 .. Len(log)
    BY <1>1, <1>4
  <2>1. /\ {0} \cup All("Outcome")' \in SUBSET (0 .. Here) /\ Here \in Nat
        /\ {0} \cup All("Outcome")' # {}
    BY <1>1, <2>0
  <2>2. Max({0} \cup All("Outcome")') \in {0} \cup All("Outcome")'
        /\ \A y \in {0} \cup All("Outcome")' : y <= Max({0} \cup All("Outcome")')
    BY <1>1, <2>1, MaxIn
  <2>3. LastOutcome(Len(log))' = Here
    BY <1>1, <1>3, <2>0, <2>1, <2>2
  <2>4. \A kind : Segment(Len(log), kind)' = {i \in All(kind)' : i > LastOutcome(Len(log))'}
    BY DEF Segment, All
  <2> QED BY <1>1, <1>4, <2>3, <2>4
<1>5. CASE rec.kind # "Outcome"
  <2>1. All("Outcome")' = All("Outcome")
    BY <1>1, <1>5
  <2>2. LastOutcome(Len(log))' = LastOutcome(Len(log))
    BY <1>3, <2>1 DEF LastOutcome, All
  <2>3. ASSUME NEW kind
        PROVE  /\ rec.kind = kind => Segment(Len(log), kind)' = Segment(Len(log), kind) \cup {Here}
               /\ rec.kind # kind => Segment(Len(log), kind)' = Segment(Len(log), kind)
    <3>1. Segment(Len(log), kind)' = {i \in All(kind)' : i > LastOutcome(Len(log))}
      BY <2>2 DEF Segment, All
    <3>2. Segment(Len(log), kind) = {i \in All(kind) : i > LastOutcome(Len(log))}
      BY DEF Segment, All
    <3>3. Here > LastOutcome(Len(log))
      BY <1>1, <1>2
    <3> QED BY <1>1, <3>1, <3>2, <3>3
  <2> QED BY <1>5, <2>3
<1> QED BY <1>4, <1>5

-----------------------------------------------------------------------------
(* Outcomes. *)

\* The triggers that are still to be answered carry no key that has an outcome.
FreshKeys ==
  \A t \in Segment(Len(log), "Trigger") : log[t].key # NoKey => ~Answered(log[t].key)

OutcomeLedger == OneOutcomePerKey /\ OutcomeClosesItsTrigger /\ FreshKeys

\* Nor does an advance, and the trigger it works for is to be answered.
Addressed(f) ==
  /\ f.pc # "idle" /\ f.key # NoKey => ~Answered(f.key)
  /\ f.pc \notin {"idle", "accept"} =>
       f.trig \in Segment(Len(log), "Trigger") /\ log[f.trig].key = f.key

\* A step that records neither a trigger nor an outcome.
Quiet == Silent \/ \E rec : Write(rec) /\ rec.kind \notin {"Trigger", "Outcome"}

LEMMA QuietFacts ==
  ASSUME log \in Seq(Entry), Quiet
  PROVE  /\ All("Outcome")' = All("Outcome")
         /\ \A i \in All("Outcome") : /\ log'[i] = log[i]
                                      /\ Segment(i - 1, "Trigger")' = Segment(i - 1, "Trigger")
         /\ Segment(Len(log), "Trigger")' = Segment(Len(log), "Trigger")
         /\ \A i \in 1 .. Len(log) : log'[i] = log[i]
<1>1. CASE Silent
  BY <1>1 DEF Silent, All, Records, Segment, LastOutcome
<1>2. CASE \E rec : Write(rec) /\ rec.kind \notin {"Trigger", "Outcome"}
  <2>1. PICK rec : Write(rec) /\ rec.kind \notin {"Trigger", "Outcome"}
    BY <1>2
  <2>2. /\ \A i \in 1 .. Len(log) : log'[i] = log[i] /\ Len(log) \in Nat
        /\ All("Outcome")' = All("Outcome") /\ All("Outcome") \subseteq 1 .. Len(log)
    BY <2>1, Grown
  <2>3. \A i \in All("Outcome") : i - 1 \in 0 .. Len(log)
    BY <2>2
  <2>4. \A i \in All("Outcome") : Segment(i - 1, "Trigger")' = Segment(i - 1, "Trigger")
    BY <2>1, <2>3, Prefix
  <2>5. Segment(Len(log), "Trigger")' = Segment(Len(log), "Trigger")
    BY <2>1, SegmentGrows
  <2>6. \A i \in All("Outcome") : log'[i] = log[i]
    BY <2>2
  <2> QED BY <2>2, <2>4, <2>5, <2>6
<1> QED BY <1>1, <1>2 DEF Quiet

LEMMA QuietOutcomes ==
  ASSUME KernelInv, OutcomeLedger, Quiet
  PROVE  OutcomeLedger' /\ \A key : Answered(key)' <=> Answered(key)
<1>1. /\ log \in Seq(Entry) /\ All("Outcome")' = All("Outcome")
      /\ \A kind : All(kind) \subseteq 1 .. Len(log) /\ Segment(Len(log), kind) \subseteq All(kind)
      /\ \A i \in All("Outcome") : /\ log'[i] = log[i]
                                   /\ Segment(i - 1, "Trigger")' = Segment(i - 1, "Trigger")
      /\ Segment(Len(log), "Trigger")' = Segment(Len(log), "Trigger")
      /\ \A i \in 1 .. Len(log) : log'[i] = log[i]
  BY QuietFacts DEF KernelInv, TypeOK, All, Records, Segment
<1>2. \A key : Answered(key)' <=> Answered(key)
  BY <1>1 DEF Answered, All
<1>3. OneOutcomePerKey'
  BY <1>1 DEF OutcomeLedger, OneOutcomePerKey
<1>4. OutcomeClosesItsTrigger'
  <2> SUFFICES ASSUME NEW i \in All("Outcome")
               PROVE  /\ log'[i].trig \in Segment(i - 1, "Trigger")'
                      /\ log'[log'[i].trig].key = log'[i].key
    BY <1>1 DEF OutcomeClosesItsTrigger
  <2>1. /\ log[i].trig \in Segment(i - 1, "Trigger") /\ log[log[i].trig].key = log[i].key
        /\ log'[i] = log[i] /\ i \in 1 .. Len(log)
    BY <1>1 DEF OutcomeLedger, OutcomeClosesItsTrigger
  <2>2. log[i].trig \in 1 .. Len(log)
    BY <2>1 DEF Segment, Records
  <2> QED BY <1>1, <2>1, <2>2
<1>5. FreshKeys'
  BY <1>1, <1>2 DEF OutcomeLedger, FreshKeys
<1> QED BY <1>2, <1>3, <1>4, <1>5 DEF OutcomeLedger

LEMMA QuietAddressed ==
  ASSUME KernelInv, OutcomeLedger, Quiet, NEW f, NEW g, Addressed(f),
         \/ g.pc = "idle"
         \/ f.pc \notin {"idle", "accept"} /\ g.key = f.key /\ g.trig = f.trig
  PROVE  OutcomeLedger' /\ Addressed(g)'
<1>1. OutcomeLedger' /\ \A key : Answered(key)' <=> Answered(key)
  BY QuietOutcomes
<1>2. /\ Segment(Len(log), "Trigger")' = Segment(Len(log), "Trigger")
      /\ Segment(Len(log), "Trigger") \subseteq 1 .. Len(log)
      /\ \A i \in 1 .. Len(log) : log'[i] = log[i]
  BY QuietFacts DEF KernelInv, TypeOK, Segment, Records
<1> QED BY <1>1, <1>2 DEF Addressed

LEMMA TriggerAddressed ==
  ASSUME KernelInv, OutcomeLedger, NEW f, NEW g, Addressed(f), Triggered(f, g)
  PROVE  OutcomeLedger' /\ Addressed(g)'
<1>1. PICK rec : Write(rec) /\ rec.kind = "Trigger" /\ rec.key = f.key
  BY DEF Triggered, Trigger
<1>2. /\ log \in Seq(Entry) /\ Len(log) \in Nat /\ Here = Len(log) + 1
      /\ log'[Here] = rec /\ \A i \in 1 .. Len(log) : log'[i] = log[i]
      /\ All("Outcome")' = All("Outcome") /\ All("Outcome") \subseteq 1 .. Len(log)
      /\ Segment(Len(log), "Trigger")' = Segment(Len(log), "Trigger") \cup {Here}
      /\ Segment(Len(log), "Trigger") \subseteq 1 .. Len(log)
  <2>1. log \in Seq(Entry)
    BY DEF KernelInv, TypeOK
  <2>2. /\ Len(log) \in Nat /\ Here = Len(log) + 1
        /\ log'[Here] = rec /\ \A i \in 1 .. Len(log) : log'[i] = log[i]
        /\ All("Outcome") \subseteq 1 .. Len(log)
        /\ All("Outcome")' = All("Outcome")
    BY <1>1, <2>1, Grown
  <2>3. Segment(Len(log), "Trigger")' = Segment(Len(log), "Trigger") \cup {Here}
    BY <1>1, <2>1, SegmentGrows
  <2>4. Segment(Len(log), "Trigger") \subseteq 1 .. Len(log)
    BY DEF Segment, Records
  <2> QED BY <2>1, <2>2, <2>3, <2>4
<1>3. \A i \in All("Outcome") : Segment(i - 1, "Trigger")' = Segment(i - 1, "Trigger")
  <2>1. \A i \in All("Outcome") : i - 1 \in 0 .. Len(log)
    BY <1>2
  <2> QED BY <1>1, <1>2, <2>1, Prefix
<1>4. \A key : Answered(key)' <=> Answered(key)
  BY <1>2 DEF Answered, All
<1>5. OneOutcomePerKey'
  BY <1>2 DEF OutcomeLedger, OneOutcomePerKey
<1>6. OutcomeClosesItsTrigger'
  <2> SUFFICES ASSUME NEW i \in All("Outcome")
               PROVE  /\ log'[i].trig \in Segment(i - 1, "Trigger")'
                      /\ log'[log'[i].trig].key = log'[i].key
    BY <1>2 DEF OutcomeClosesItsTrigger
  <2>1. /\ log[i].trig \in Segment(i - 1, "Trigger") /\ log[log[i].trig].key = log[i].key
        /\ log'[i] = log[i] /\ i \in 1 .. Len(log)
    BY <1>2 DEF OutcomeLedger, OutcomeClosesItsTrigger
  <2>2. log[i].trig \in 1 .. Len(log)
    BY <2>1 DEF Segment, Records
  <2> QED BY <1>2, <1>3, <2>1, <2>2
<1>7. f.key # NoKey => ~Answered(f.key)
  BY DEF Addressed, Triggered
<1>8. FreshKeys'
  BY <1>1, <1>2, <1>4, <1>7 DEF OutcomeLedger, FreshKeys
<1>9. g.key = f.key /\ g.trig = Here
  BY DEF Triggered, Moved, FieldNames
<1> QED BY <1>1, <1>2, <1>4, <1>5, <1>6, <1>7, <1>8, <1>9 DEF OutcomeLedger, Addressed

LEMMA FinishAddressed ==
  ASSUME KernelInv, OutcomeLedger, NEW f, NEW g, Addressed(f), Finished(f, g)
  PROVE  OutcomeLedger' /\ Addressed(g)'
<1>1. PICK rec : Write(rec) /\ rec.kind = "Outcome" /\ rec.trig = f.trig /\ rec.key = f.key
  BY DEF Finished, Outcome
<1>2. /\ log \in Seq(Entry) /\ Len(log) \in Nat /\ Here = Len(log) + 1
      /\ log'[Here] = rec /\ \A i \in 1 .. Len(log) : log'[i] = log[i]
      /\ All("Outcome")' = All("Outcome") \cup {Here} /\ All("Outcome") \subseteq 1 .. Len(log)
      /\ Segment(Len(log), "Trigger")' = {}
  BY <1>1, Grown, SegmentGrows DEF KernelInv, TypeOK
<1>3. \A i \in All("Outcome") \cup {Here} :
        Segment(i - 1, "Trigger")' = Segment(i - 1, "Trigger")
  <2>1. \A i \in All("Outcome") \cup {Here} : i - 1 \in 0 .. Len(log)
    BY <1>2
  <2> QED BY <1>1, <1>2, <2>1, Prefix
<1>4. /\ f.key # NoKey => ~Answered(f.key)
      /\ f.trig \in Segment(Len(log), "Trigger") /\ log[f.trig].key = f.key
  BY DEF Addressed, Finished
<1>5. OneOutcomePerKey'
  <2>1. ASSUME NEW i \in All("Outcome"), f.key # NoKey PROVE log[i].key # f.key
    BY <1>4, <2>1 DEF Answered, All
  <2> QED BY <1>1, <1>2, <2>1 DEF OutcomeLedger, OneOutcomePerKey
<1>6. OutcomeClosesItsTrigger'
  <2> SUFFICES ASSUME NEW i \in All("Outcome") \cup {Here}
               PROVE  /\ log'[i].trig \in Segment(i - 1, "Trigger")'
                      /\ log'[log'[i].trig].key = log'[i].key
    BY <1>2 DEF OutcomeClosesItsTrigger
  <2>1. CASE i = Here
    <3>1. i - 1 = Len(log) /\ log'[i] = rec
      BY <1>2, <2>1
    <3>2. f.trig \in 1 .. Len(log)
      BY <1>4 DEF Segment, Records
    <3> QED BY <1>1, <1>2, <1>3, <1>4, <3>1, <3>2
  <2>2. CASE i \in All("Outcome")
    <3>1. /\ log[i].trig \in Segment(i - 1, "Trigger") /\ log[log[i].trig].key = log[i].key
          /\ log'[i] = log[i] /\ i \in 1 .. Len(log)
      BY <1>2, <2>2 DEF OutcomeLedger, OutcomeClosesItsTrigger
    <3>2. log[i].trig \in 1 .. Len(log)
      BY <1>2, <3>1 DEF Segment, Records
    <3> QED BY <1>2, <1>3, <3>1, <3>2
  <2> QED BY <2>1, <2>2
<1>7. FreshKeys'
  BY <1>2 DEF FreshKeys
<1>8. g.pc = "idle"
  BY DEF Finished, Idle
<1> QED BY <1>5, <1>6, <1>7, <1>8 DEF OutcomeLedger, Addressed

\* Every step of an advance keeps it so.
LEMMA OutcomeStep ==
  ASSUME KernelInv, OutcomeLedger, NEW f, NEW g, Addressed(f), Move(f, g)
  PROVE  OutcomeLedger' /\ Addressed(g)'
<1>1. Idle.pc = "idle"
  BY DEF Idle
<1>2. CASE Delivered(f, g)
  <2>1. Quiet
    BY <1>2 DEF Delivered, Quiet
  <2>2. OutcomeLedger' /\ \A key : Answered(key)' <=> Answered(key)
    BY <2>1, QuietOutcomes
  <2>3. CASE g = f
    BY <1>2, <2>1, <2>3, QuietAddressed DEF Delivered
  <2>4. CASE g.pc = "accept" /\ (g.key # NoKey => ~Answered(g.key))
    BY <2>2, <2>4 DEF Addressed
  <2> QED BY <1>2, <2>3, <2>4 DEF Delivered
<1>3. CASE Continued(f, g)
  <2>1. Quiet
    BY <1>3 DEF Continued, Quiet
  <2>2. OutcomeLedger' /\ \A key : Answered(key)' <=> Answered(key)
    BY <2>1, QuietOutcomes
  <2>3. log' = log /\ g.trig = ActiveTrigger(Len(log)) /\ g.key = log[g.trig].key
    BY <1>3 DEF Continued, Silent
  <2>4. g.trig \in Segment(Len(log), "Trigger")
    <3>1. Segment(Len(log), "Trigger") \in SUBSET Nat /\ Segment(Len(log), "Trigger") # {}
      BY <1>3 DEF Segment, Records, Continued, Open
    <3> QED BY <2>3, <3>1, MinIn DEF ActiveTrigger
  <2>5. Segment(Len(log), "Trigger")' = Segment(Len(log), "Trigger")
    BY <2>3 DEF Segment, Records, LastOutcome
  <2>6. g.key # NoKey => ~Answered(g.key)
    BY <2>3, <2>4 DEF OutcomeLedger, FreshKeys
  <2> QED BY <2>2, <2>3, <2>4, <2>5, <2>6 DEF Addressed
<1>4. CASE Triggered(f, g) \/ Finished(f, g)
  BY <1>4, TriggerAddressed, FinishAddressed
<1>5. ASSUME NEW act \in Acts, DecidedOn(f, g, act) PROVE OutcomeLedger' /\ Addressed(g)'
  <2>1. Quiet
    BY <1>5 DEF DecidedOn, Quiet, Decision
  <2> QED BY <1>1, <1>5, <2>1, QuietAddressed DEF DecidedOn, Moved, FieldNames
<1>6. CASE Loaded(f, g) \/ LookedUp(f, g) \/ Stopped(f, g) \/ Dropped(f, g)
  <2>1. Quiet
    BY <1>6 DEF Loaded, LookedUp, Stopped, Dropped, Quiet
  <2> QED BY <1>1, <1>6, <2>1, QuietAddressed
          DEF Loaded, LookedUp, HandedBack, Stopped, Dropped, Moved, FieldNames
<1>7. CASE Resolves(f, g) \/ Deliberated(f, g) \/ Suspended(f, g)
  <2>1. Quiet
    BY <1>7 DEF Resolves, Deliberated, Suspended, Resolution, Deliberation, Pending, Quiet
  <2> QED BY <1>1, <1>7, <2>1, QuietAddressed
          DEF Resolves, HandedBack, Deliberated, Suspended, Moved, FieldNames
<1>8. CASE Graphed(f, g) \/ Executed(f, g)
  <2>1. Quiet
    BY <1>8 DEF Graphed, Executed, Graph, Done, Quiet
  <2> QED BY <1>8, <2>1, QuietAddressed DEF Graphed, Executed, Moved, FieldNames
<1>9. CASE Reused(f, g) \/ Reported(f, g) \/ Refused(f, g)
  <2>1. Quiet
    BY <1>9 DEF Reused, Reported, Refused, Result, Quiet
  <2>2. f.pc \notin {"idle", "accept"} /\ GoesOn(f, g)
    BY <1>9 DEF Reused, Reported, Refused
  <2> QED BY <1>1, <2>1, <2>2, QuietAddressed DEF GoesOn, Moved, FieldNames
<1> QED BY <1>2, <1>3, <1>4, <1>5, <1>6, <1>7, <1>8, <1>9 DEF Move

LEMMA SilentAddressed ==
  ASSUME KernelInv, OutcomeLedger, Silent, NEW f, Addressed(f)
  PROVE  OutcomeLedger' /\ Addressed(f)'
<1>1. OutcomeLedger' /\ \A key : Answered(key)' <=> Answered(key)
  BY QuietOutcomes DEF Quiet
<1> QED BY <1>1 DEF Silent, Addressed, Segment, Records, LastOutcome

OutcomeInv == OutcomeLedger /\ \A d \in Drivers : Addressed(run[d])

LEMMA OutcomesKept ==
  ASSUME Serial, Serial', KernelInv, OutcomeInv, [Next]_vars
  PROVE  OutcomeInv'
<1>1. ASSUME NEW e \in Drivers, run'[e] = run[e], Silent
      PROVE  OutcomeLedger' /\ Addressed(run[e])'
  <2>1. PICK h : h = run[e] /\ h = run'[e] /\ Addressed(h)
    BY <1>1 DEF OutcomeInv
  <2>2. OutcomeLedger' /\ Addressed(h)'
    BY <1>1, <2>1, SilentAddressed DEF OutcomeInv
  <2> QED BY <2>1, <2>2 DEF Addressed
<1>2. ASSUME NEW e \in Drivers, run'[e] = run[e], run[e].pc = "idle"
      PROVE  Addressed(run[e])'
  BY <1>2 DEF Addressed
<1>3. CASE UNCHANGED vars
  <2>1. Silent /\ run' = run
    BY <1>3 DEF vars, Silent
  <2>2. OutcomeLedger'
    BY <2>1, QuietOutcomes DEF OutcomeInv, Quiet
  <2> QED BY <1>1, <2>1, <2>2 DEF OutcomeInv
<1>4. CASE Next
  <2>1. PICK d \in Drivers : /\ Move(run[d], run'[d])
                             /\ \A e \in Drivers : e # d => run'[e] = run[e]
    BY <1>4, StepMoves
  <2>2. PICK f, g : f = run[d] /\ g = run'[d] /\ Move(f, g)
    BY <2>1
  <2>9. OutcomeLedger' /\ Addressed(g)'
    BY <2>2, OutcomeStep DEF OutcomeInv
  <2>10. ASSUME NEW e \in Drivers PROVE Addressed(run[e])'
    <3>1. CASE e = d
      BY <2>2, <2>9, <3>1 DEF Addressed
    <3>2. CASE e # d
      <4>1. run'[e] = run[e] /\ (run[e].pc = "idle" \/ Silent)
        BY <2>1, <3>2, Bystanders
      <4> QED BY <1>1, <1>2, <4>1
    <3> QED BY <3>1, <3>2
  <2> QED BY <2>9, <2>10 DEF OutcomeInv
<1> QED BY <1>3, <1>4

LEMMA OutcomesInvariant == Spec /\ []Serial => [](KernelInv /\ OutcomeInv)
<1>1. Init => OutcomeInv
  <2> SUFFICES ASSUME Init PROVE OutcomeInv
    OBVIOUS
  <2>1. log = <<>> /\ Len(log) = 0
    BY DEF Init
  <2>2. \A kind : All(kind) = {} /\ Segment(Len(log), kind) = {}
    BY <2>1 DEF All, Records, Segment
  <2>3. \A d \in Drivers : run[d].pc = "idle"
    BY DEF Init, Idle
  <2> QED BY <2>2, <2>3 DEF OutcomeInv, OutcomeLedger, Addressed, OneOutcomePerKey,
                            OutcomeClosesItsTrigger, FreshKeys
<1>2. Serial /\ Serial' /\ KernelInv /\ OutcomeInv /\ [Next]_vars => OutcomeInv'
  BY OutcomesKept
<1> QED BY <1>1, <1>2, Invariance, PTL DEF Spec

\* A key never has two outcomes, whenever its request is delivered again and the
\* advance before was interrupted, if advances come one at a time.
THEOREM KeysAnsweredOnce == Spec /\ []Serial => []OneOutcomePerKey
<1>1. OutcomeInv => OneOutcomePerKey
  BY DEF OutcomeInv, OutcomeLedger
<1> QED BY <1>1, OutcomesInvariant, PTL

\* An outcome answers an open trigger, with the key of that trigger, also when a
\* continuation has to find the trigger in the ledger.
THEOREM OutcomesBelong == Spec /\ []Serial => []OutcomeClosesItsTrigger
<1>1. OutcomeInv => OutcomeClosesItsTrigger
  BY DEF OutcomeInv, OutcomeLedger
<1> QED BY <1>1, OutcomesInvariant, PTL

-----------------------------------------------------------------------------
(* Calls. *)

\* The records of a kind that are about call c.
About(kind, c) == {i \in All(kind) : log[i].call = c}

Kinds == {"Pending", "Graph", "Done", "Result"}

OfDecisions(kind) == \A i \in All(kind) : log[i].call \in All("Decision")
Stepwise(kind) == \A i \in All(kind) : log[i].step = log[log[i].call].step
OneAbout(kind) == \A i, j \in All(kind) : log[i].call = log[j].call => i = j

\* Approvals are asked for the calls that need one.
PendingAsked == \A p \in All("Pending") : log[log[p].call].act = "Ask"

\* A graph is named after an earlier trigger.
GraphsOlder == \A g \in All("Graph") : log[g].gid[1] < g

\* A call that ran did so in its graph, if it has one, and one that needed an
\* approval has.
DoneInGraph ==
  \A i \in All("Done") : \A g \in About("Graph", log[i].call) : log[g].gid = log[i].gid
AskedInGraph ==
  \A i \in All("Done") : log[log[i].call].act = "Ask" => About("Graph", log[i].call) # {}

CallLedger == /\ \A kind \in Kinds : OfDecisions(kind)
              /\ \A kind \in {"Pending", "Graph"} : Stepwise(kind) /\ OneAbout(kind)
              /\ CallRunsOnce /\ PendingAsked /\ GraphsOlder /\ DoneInGraph /\ AskedInGraph

\* The call in hand is a decision of the step it is run for.
InHand(f) ==
  /\ f.pc = "load" => f.trig = Len(log)
  /\ f.pc \in {"suspend", "graph", "execute", "result", "reject"} =>
       f.call \in All("Decision") /\ f.at = log[f.call].step
  /\ f.pc = "suspend" => f.origin = "decision" /\ log[f.call].act = "Ask"

\* A call that has just been decided has no other record yet.
JustDecided(f) ==
  f.origin = "decision" =>
    /\ f.pc \in {"suspend", "graph"} => About("Graph", f.call) = {}
    /\ f.pc \in {"suspend", "graph", "execute"} =>
         \A kind \in Kinds \ {"Graph"} : About(kind, f.call) = {}
    /\ f.pc \in {"graph", "execute"} => log[f.call].act # "Ask"

\* The snapshot on which a call is run again shows its graph and whether it ran.
UpToDate(f) ==
  /\ f.origin # "decision" /\ f.pc \in {"graph", "execute"} =>
       \A i \in All("Done") : i <= f.upto
  /\ f.pc \in {"lookup", "resolve"} \/ (f.origin = "approval" /\ f.pc = "graph") =>
       f.upto <= f.trig /\ \A i \in All("Done") \cup All("Graph") : i <= f.upto
  /\ f.origin = "approval" /\ f.pc \in {"graph", "execute", "result", "reject"} =>
       f.token # 0 /\ log[f.token].call = f.call
  /\ f.origin = "continue" /\ f.pc = "graph" =>
       \E i \in About("Graph", f.call) : i <= f.upto
  /\ f.pc = "execute" => /\ \A i \in About("Graph", f.call) : log[i].gid = f.gid
                         /\ f.origin # "decision" => About("Graph", f.call) # {}

CallFits(f) == InHand(f) /\ JustDecided(f) /\ UpToDate(f)

\* A future with no call in hand.
LEMMA FreeFits ==
  ASSUME NEW g, g.pc \in {"idle", "accept", "step", "finish", "deliberate"}
  PROVE  CallFits(g) /\ CallFits(g)'
BY DEF CallFits, InHand, JustDecided, UpToDate

LEMMA SilentCalls ==
  ASSUME Silent, CallLedger, NEW g, CallFits(g)
  PROVE  CallLedger' /\ CallFits(g)'
<1>1. /\ log' = log /\ \A kind : All(kind)' = All(kind)
      /\ \A kind, c : About(kind, c)' = About(kind, c)
  BY DEF Silent, All, Records, About
<1>2. CallLedger'
  BY <1>1 DEF CallLedger, OfDecisions, Stepwise, OneAbout, CallRunsOnce, PendingAsked,
              GraphsOlder, DoneInGraph, AskedInGraph
<1>3. CallFits(g)'
  BY <1>1 DEF CallFits, InHand, JustDecided, UpToDate
<1> QED BY <1>2, <1>3

\* What one more record is to the records about a call.
LEMMA AboutGrows ==
  ASSUME log \in Seq(Entry), NEW rec, Write(rec)
  PROVE  /\ \A kind, c : /\ About(kind, c) \subseteq 1 .. Len(log)
                         /\ rec.kind # kind \/ rec.call # c => About(kind, c)' = About(kind, c)
                         /\ rec.kind = kind /\ rec.call = c =>
                              About(kind, c)' = About(kind, c) \cup {Here}
         /\ \A kind : \A i \in All(kind) : log'[i] = log[i]
         /\ \A kind : \A i \in All(kind)' :
              \/ i \in All(kind) /\ log'[i] = log[i]
              \/ i = Here /\ log'[i] = rec /\ rec.kind = kind
<1>1. /\ Len(log) \in Nat /\ Here = Len(log) + 1
      /\ log'[Here] = rec /\ \A i \in 1 .. Len(log) : log'[i] = log[i]
      /\ \A kind : /\ All(kind) \subseteq 1 .. Len(log)
                   /\ rec.kind = kind => All(kind)' = All(kind) \cup {Here}
                   /\ rec.kind # kind => All(kind)' = All(kind)
  BY Grown
<1>2. \A kind : \A i \in All(kind) : log'[i] = log[i]
  BY <1>1
<1>3. ASSUME NEW kind, NEW i \in All(kind)'
      PROVE  \/ i \in All(kind) /\ log'[i] = log[i]
             \/ i = Here /\ log'[i] = rec /\ rec.kind = kind
  BY <1>1, <1>2
<1>4. ASSUME NEW kind, NEW c
      PROVE  /\ About(kind, c) \subseteq 1 .. Len(log)
             /\ rec.kind # kind \/ rec.call # c => About(kind, c)' = About(kind, c)
             /\ rec.kind = kind /\ rec.call = c =>
                  About(kind, c)' = About(kind, c) \cup {Here}
  <2>1. About(kind, c)' = {i \in All(kind)' : log'[i].call = c}
    BY DEF About
  <2>2. About(kind, c) = {i \in All(kind) : log'[i].call = c}
    BY <1>2 DEF About
  <2> QED BY <1>1, <2>1, <2>2
<1> QED BY <1>2, <1>3, <1>4

\* A record keeps the calls in order if it belongs to a decision of its step, is
\* the first of its kind about the call, and names the graph the others name.
LEMMA CallRecord ==
  ASSUME log \in Seq(Entry), CallLedger, NEW rec, Write(rec),
         rec.kind \in Kinds => rec.call \in All("Decision"),
         rec.kind \in {"Pending", "Graph"} =>
           rec.step = log[rec.call].step /\ About(rec.kind, rec.call) = {},
         rec.kind = "Pending" => log[rec.call].act = "Ask",
         rec.kind = "Graph" => /\ rec.gid[1] \in 0 .. Len(log)
                               /\ \A i \in About("Done", rec.call) : log[i].gid = rec.gid,
         rec.kind = "Done" =>
           /\ About("Done", rec.call) = {}
           /\ \A i \in About("Graph", rec.call) : log[i].gid = rec.gid
           /\ log[rec.call].act = "Ask" => About("Graph", rec.call) # {}
  PROVE  CallLedger'
<1>1. /\ Len(log) \in Nat /\ Here = Len(log) + 1
      /\ \A kind : All(kind) \subseteq All(kind)'
  BY Grown
<1>2. /\ \A kind : \A i \in All(kind) : log'[i] = log[i]
      /\ \A kind : \A i \in All(kind)' :
              \/ i \in All(kind) /\ log'[i] = log[i]
              \/ i = Here /\ log'[i] = rec /\ rec.kind = kind
  BY AboutGrows
<1>3. ASSUME NEW kind \in Kinds, NEW i \in All(kind)'
      PROVE  /\ log'[i].call \in All("Decision")
             /\ log'[log'[i].call] = log[log'[i].call]
  BY <1>2 DEF CallLedger, OfDecisions
<1>4. \A kind \in Kinds : OfDecisions(kind)'
  BY <1>1, <1>3 DEF OfDecisions
<1>5. ASSUME NEW kind \in {"Pending", "Graph"}
      PROVE  Stepwise(kind)' /\ OneAbout(kind)'
  <2>1. kind \in Kinds
    BY DEF Kinds
  <2>2. Stepwise(kind) /\ OneAbout(kind)
    BY DEF CallLedger
  <2>3. ASSUME NEW i \in All(kind)' PROVE log'[i].step = log'[log'[i].call].step
    BY <1>2, <1>3, <2>1, <2>2 DEF Stepwise
  <2>4. ASSUME NEW i \in All(kind)', NEW j \in All(kind)', log'[i].call = log'[j].call
        PROVE  i = j
    BY <1>2, <2>2, <2>4 DEF OneAbout, About
  <2> QED BY <2>3, <2>4 DEF Stepwise, OneAbout
<1>6. CallRunsOnce'
  <2>1. ASSUME NEW i \in All("Done")', NEW j \in All("Done")', log'[i].call = log'[j].call
        PROVE  i = j
    BY <1>2, <2>1 DEF CallLedger, CallRunsOnce, About
  <2> QED BY <2>1 DEF CallRunsOnce
<1>7. PendingAsked'
  <2>1. ASSUME NEW i \in All("Pending")' PROVE log'[log'[i].call].act = "Ask"
    BY <1>2, <1>3 DEF CallLedger, PendingAsked, Kinds
  <2> QED BY <2>1 DEF PendingAsked
<1>8. GraphsOlder'
  <2>1. ASSUME NEW i \in All("Graph")' PROVE log'[i].gid[1] < i
    BY <1>1, <1>2 DEF CallLedger, GraphsOlder
  <2> QED BY <2>1 DEF GraphsOlder
<1>9. DoneInGraph'
  <2>1. ASSUME NEW i \in All("Done")', NEW j \in All("Graph")', log'[i].call = log'[j].call
        PROVE  log'[j].gid = log'[i].gid
    BY <1>2, <2>1 DEF CallLedger, DoneInGraph, About
  <2> QED BY <2>1 DEF DoneInGraph, About
<1>10. AskedInGraph'
  <2>1. ASSUME NEW i \in All("Done")', log'[log'[i].call].act = "Ask"
        PROVE  \E j \in All("Graph") : log[j].call = log'[i].call
    <3>1. log[log'[i].call].act = "Ask"
      BY <1>3, <2>1 DEF Kinds
    <3> QED BY <1>2, <3>1 DEF CallLedger, AskedInGraph, About
  <2>2. ASSUME NEW i \in All("Done")', log'[log'[i].call].act = "Ask"
        PROVE  \E j \in All("Graph")' : log'[j].call = log'[i].call
    BY <1>1, <1>2, <2>1, <2>2
  <2> QED BY <2>2 DEF AskedInGraph, About
<1> QED BY <1>4, <1>5, <1>6, <1>7, <1>8, <1>9, <1>10 DEF CallLedger

\* What holds of the future of a driver.
LEMMA Held ==
  ASSUME KernelInv, NEW d \in Drivers
  PROVE  run[d] \in Future /\ Typed(run[d]) /\ Gated(run[d])
BY Known

\* A record about no call.
LEMMA PlainRecord ==
  ASSUME log \in Seq(Entry), CallLedger, NEW rec, Write(rec), rec.kind \notin Kinds
  PROVE  CallLedger' /\ \A kind \in Kinds : /\ All(kind)' = All(kind)
                                            /\ \A c : About(kind, c)' = About(kind, c)
<1>1. CallLedger'
  BY CallRecord DEF Kinds
<1>2. ASSUME NEW kind \in Kinds
      PROVE  All(kind)' = All(kind) /\ \A c : About(kind, c)' = About(kind, c)
  BY Grown, AboutGrows
<1> QED BY <1>1, <1>2

\* The call of a pending approval, as it is handed back.
LEMMA BackFits ==
  ASSUME KernelInv, CallLedger, NEW f, NEW g, NEW verdict, Typed(f), Gated(f), CallFits(f),
         f.pc \in {"lookup", "resolve"}, HandedBack(f, g, verdict)
  PROVE  CallFits(g)
<1>1. /\ f.token \in All("Pending") /\ f.token # 0
      /\ log[f.token].call \in All("Decision")
      /\ log[f.token].step = log[log[f.token].call].step
  BY DEF Typed, Gated, CallLedger, OfDecisions, Stepwise, Kinds
<1>2. /\ g.call = log[f.token].call /\ g.at = log[f.token].step /\ g.origin = "approval"
      /\ g.token = f.token /\ g.upto = f.upto /\ g.trig = f.trig
      /\ g.pc \in {"graph", "reject"}
  BY DEF HandedBack, Moved, FieldNames
<1>3. InHand(g) /\ JustDecided(g)
  BY <1>1, <1>2 DEF InHand, JustDecided
<1>4. UpToDate(g)
  BY <1>1, <1>2 DEF CallFits, UpToDate
<1> QED BY <1>3, <1>4 DEF CallFits

LEMMA SilentStepCalls ==
  ASSUME KernelInv, CallLedger, NEW f, NEW g, Typed(f), Gated(f), CallFits(f),
         \/ Delivered(f, g) \/ Loaded(f, g) \/ LookedUp(f, g) \/ Continued(f, g)
         \/ Stopped(f, g) \/ Reused(f, g) \/ Dropped(f, g)
  PROVE  CallLedger' /\ CallFits(g)'
<1>1. Idle.pc = "idle"
  BY DEF Idle
<1>2. Silent
  BY DEF Delivered, Loaded, LookedUp, Continued, Stopped, Reused, Dropped
<1>3. SUFFICES CallFits(g)
  BY <1>2, SilentCalls
<1>4. CASE Delivered(f, g) \/ Stopped(f, g) \/ Dropped(f, g)
  BY <1>1, <1>4, FreeFits DEF Delivered, Stopped, Dropped
<1>5. CASE Reused(f, g)
  BY <1>1, <1>5, FreeFits DEF Reused, GoesOn
<1>6. CASE Loaded(f, g)
  <2>1. CASE g.pc = "step"
    BY <2>1, FreeFits
  <2>2. CASE g.pc = "lookup"
    <3>1. g.upto = Len(log) /\ g.trig = Len(log) /\ Len(log) \in Nat
      BY <1>6 DEF Loaded, Moved, FieldNames, CallFits, InHand, KernelInv, TypeOK
    <3>2. \A i \in All("Done") \cup All("Graph") : i <= g.upto
      BY <3>1 DEF All, Records
    <3> QED BY <2>2, <3>1, <3>2 DEF CallFits, InHand, JustDecided, UpToDate
  <2> QED BY <1>6, <2>1, <2>2 DEF Loaded
<1>7. CASE LookedUp(f, g)
  <2>1. CASE g.pc = "finish"
    BY <2>1, FreeFits
  <2>2. CASE g.pc = "resolve" /\ Moved(f, g, {"pc"})
    <3>1. f.pc = "lookup" /\ g.upto = f.upto /\ g.trig = f.trig
      BY <1>7, <2>2 DEF LookedUp, Moved, FieldNames
    <3> QED BY <2>2, <3>1 DEF CallFits, InHand, JustDecided, UpToDate
  <2>3. CASE \E r \in ResolutionsOf(f.token, f.upto) : HandedBack(f, g, log[r].verdict)
    BY <1>7, <2>3, BackFits DEF LookedUp
  <2> QED BY <1>7, <2>1, <2>2, <2>3 DEF LookedUp
<1>8. CASE Continued(f, g)
  <2>1. CASE g.pc = "step"
    BY <2>1, FreeFits
  <2>2. CASE g.pc # "step"
    <3> DEFINE i == LastGraph(Len(log))
    <3>1. /\ g.pc = "graph" /\ g.origin = "continue" /\ i \in All("Graph")
          /\ g.call = log[i].call /\ g.at = log[i].step /\ g.upto = Len(log)
      BY <1>8, <2>2 DEF Continued
    <3>2. \A kind : \A j \in All(kind) : j <= g.upto
      BY <3>1 DEF All, Records, KernelInv, TypeOK
    <3>3. log[i].call \in All("Decision") /\ log[i].step = log[log[i].call].step
      BY <3>1 DEF CallLedger, OfDecisions, Stepwise, Kinds
    <3>4. InHand(g) /\ JustDecided(g)
      BY <3>1, <3>3 DEF InHand, JustDecided
    <3>5. i \in About("Graph", g.call) /\ i <= g.upto
      BY <3>1, <3>2 DEF About
    <3> HIDE DEF i
    <3>6. UpToDate(g)
      BY <3>1, <3>2, <3>5 DEF UpToDate
    <3> QED BY <3>4, <3>6 DEF CallFits
  <2> QED BY <2>1, <2>2
<1> QED BY <1>4, <1>5, <1>6, <1>7, <1>8

LEMMA PlainStepCalls ==
  ASSUME KernelInv, CallLedger, NEW f, NEW g, Typed(f), Gated(f), CallFits(f),
         Triggered(f, g) \/ Resolves(f, g) \/ Deliberated(f, g) \/ Finished(f, g)
  PROVE  CallLedger' /\ CallFits(g)'
<1>0. log \in Seq(Entry)
  BY DEF KernelInv, TypeOK
<1>1. PICK rec : /\ Write(rec) /\ rec.kind \notin Kinds
                 /\ rec.kind \in {"Trigger", "Resolution", "Deliberation", "Outcome"}
  BY DEF Triggered, Resolves, Deliberated, Finished, Trigger, Resolution, Deliberation,
         Outcome, Kinds
<1>2. CallLedger' /\ \A kind \in Kinds : /\ All(kind)' = All(kind)
                                         /\ \A c : About(kind, c)' = About(kind, c)
  BY <1>0, <1>1, PlainRecord
<1>3. CASE Deliberated(f, g) \/ Finished(f, g)
  BY <1>2, <1>3, FreeFits DEF Deliberated, Finished, Idle
<1>4. CASE Triggered(f, g)
  <2>1. g.pc = "load" /\ g.trig = Len(log')
    BY <1>0, <1>1, <1>4, Grown DEF Triggered
  <2> QED BY <1>2, <2>1 DEF CallFits, InHand, JustDecided, UpToDate
<1>5. CASE Resolves(f, g)
  <2>1. HandedBack(f, g, f.verdict) /\ f.pc = "resolve"
    BY <1>5 DEF Resolves
  <2>2. CallFits(g)
    BY <2>1, BackFits
  <2>3. /\ f.token \in All("Pending") /\ g.origin = "approval" /\ g.token = f.token
        /\ g.pc \in {"graph", "reject"}
    BY <2>1 DEF Typed, Gated, HandedBack, Moved, FieldNames
  <2>4. log'[f.token] = log[f.token]
    BY <1>0, <1>1, <2>3, AboutGrows
  <2>5. g.call \in All("Decision")
    BY <2>2, <2>3 DEF CallFits, InHand
  <2>6. All("Decision")' = All("Decision") /\ log'[g.call] = log[g.call]
    BY <1>0, <1>1, <2>5, Grown, AboutGrows
  <2>7. InHand(g)' /\ JustDecided(g)'
    BY <2>2, <2>3, <2>6 DEF CallFits, InHand, JustDecided
  <2>8. UpToDate(g)'
    BY <1>2, <2>2, <2>3, <2>4 DEF CallFits, UpToDate, Kinds
  <2> QED BY <1>2, <2>7, <2>8 DEF CallFits
<1> QED BY <1>3, <1>4, <1>5

LEMMA DecisionCalls ==
  ASSUME KernelInv, CallLedger, NEW f, NEW g, NEW act, DecidedOn(f, g, act)
  PROVE  CallLedger' /\ CallFits(g)'
<1>0. log \in Seq(Entry)
  BY DEF KernelInv, TypeOK
<1>1. PICK rec : /\ Write(rec) /\ rec.kind = "Decision" /\ rec.kind \notin Kinds
                 /\ rec.step = f.step /\ rec.act = act
  BY DEF DecidedOn, Decision, Kinds
<1>2. CallLedger' /\ \A kind \in Kinds : /\ All(kind)' = All(kind)
                                         /\ \A c : About(kind, c)' = About(kind, c)
  BY <1>0, <1>1, PlainRecord
<1>3. CASE g.pc \in {"idle", "finish", "deliberate"}
  BY <1>2, <1>3, FreeFits
<1>4. CASE g.pc \in {"graph", "suspend"}
  <2>1. /\ g.call = Here /\ g.at = f.step /\ g.origin = "decision"
        /\ g.pc = "graph" => act # "Ask"
        /\ g.pc = "suspend" => act = "Ask"
    BY <1>4 DEF DecidedOn, Idle
  <2>2. Here \in All("Decision")' /\ log'[Here] = rec /\ Here \notin All("Decision")
    <3>1. /\ Len(log) \in Nat /\ Here = Len(log) + 1 /\ log'[Here] = rec
          /\ All("Decision") \subseteq 1 .. Len(log)
          /\ All("Decision")' = All("Decision") \cup {Here}
      BY <1>0, <1>1, Grown
    <3> QED BY <3>1
  <2>3. \A kind \in Kinds : About(kind, Here) = {}
    BY <2>2 DEF CallLedger, OfDecisions, About
  <2>4. InHand(g)'
    BY <1>1, <1>4, <2>1, <2>2 DEF InHand
  <2>5. JustDecided(g)'
    <3>1. \A kind \in Kinds : About(kind, g.call)' = {}
      BY <1>2, <2>1, <2>3
    <3>2. g.pc = "graph" => log'[g.call].act # "Ask"
      BY <1>1, <2>1, <2>2
    <3>3. "Graph" \in Kinds
      BY DEF Kinds
    <3> QED BY <1>4, <3>1, <3>2, <3>3 DEF JustDecided
  <2>6. UpToDate(g)'
    BY <1>4, <2>1 DEF UpToDate
  <2> QED BY <1>2, <2>4, <2>5, <2>6 DEF CallFits
<1> QED BY <1>3, <1>4 DEF DecidedOn, Idle

LEMMA SuspendCalls ==
  ASSUME KernelInv, CallLedger, NEW f, NEW g, CallFits(f), Suspended(f, g)
  PROVE  CallLedger' /\ CallFits(g)'
<1>0. log \in Seq(Entry)
  BY DEF KernelInv, TypeOK
<1>1. PICK rec : /\ Write(rec) /\ rec.kind = "Pending" /\ rec.step = f.at
                 /\ rec.call = f.call
  BY DEF Suspended, Pending
<1>2. /\ f.call \in All("Decision") /\ f.at = log[f.call].step /\ f.origin = "decision"
      /\ log[f.call].act = "Ask" /\ About("Pending", f.call) = {}
  BY DEF Suspended, CallFits, InHand, JustDecided, Kinds
<1>3. CallLedger'
  BY <1>0, <1>1, <1>2, CallRecord
<1> QED BY <1>3, FreeFits DEF Suspended

\* A result is a record about a call that the advance no longer holds.
LEMMA ResultCalls ==
  ASSUME KernelInv, CallLedger, NEW f, NEW g, CallFits(f), Reported(f, g) \/ Refused(f, g)
  PROVE  CallLedger' /\ CallFits(g)'
<1>0. log \in Seq(Entry)
  BY DEF KernelInv, TypeOK
<1>1. PICK rec : Write(rec) /\ rec.kind = "Result" /\ rec.call = f.call
  BY DEF Reported, Refused, Result
<1>2. f.call \in All("Decision")
  BY DEF Reported, Refused, CallFits, InHand
<1>3. CallLedger'
  BY <1>0, <1>1, <1>2, CallRecord
<1>4. g.pc \in {"idle", "step"}
  <2>1. GoesOn(f, g) /\ Idle.pc = "idle"
    BY DEF Reported, Refused, Idle
  <2> QED BY <2>1 DEF GoesOn
<1> QED BY <1>3, <1>4, FreeFits

\* The node to be run has not run: it was just decided on, or the snapshot shows
\* its graph and would show its checkpoint.
LEMMA NotYetRun ==
  ASSUME KernelInv, CallLedger, NEW f, CallFits(f), f \in Future, f.pc = "execute",
         ~CallSettled(f.upto, f.gid, f.call)
  PROVE  About("Done", f.call) = {}
<1>1. CASE f.origin = "decision"
  BY <1>1 DEF CallFits, JustDecided, Kinds
<1>2. CASE f.origin # "decision"
  <2> SUFFICES ASSUME NEW i \in About("Done", f.call) PROVE FALSE
    OBVIOUS
  <2>1. PICK j \in About("Graph", f.call) : log[j].gid = f.gid
    BY <1>2 DEF CallFits, UpToDate
  <2>2. i \in All("Done") /\ log[i].call = f.call /\ i <= f.upto
    BY <1>2 DEF About, CallFits, UpToDate
  <2>3. log[i].gid = f.gid
    BY <2>1, <2>2 DEF CallLedger, DoneInGraph
  <2>4. f.upto \in Nat
    BY DEF Future
  <2>5. i \in Records(f.upto, "Done")
    BY <2>2, <2>4 DEF All, Records
  <2> QED BY <2>2, <2>3, <2>5 DEF CallSettled
<1> QED BY <1>1, <1>2

LEMMA ExecuteCalls ==
  ASSUME KernelInv, CallLedger, NEW f, NEW g, f \in Future, Typed(f), CallFits(f),
         Executed(f, g)
  PROVE  CallLedger' /\ CallFits(g)'
<1>0. log \in Seq(Entry)
  BY DEF KernelInv, TypeOK
<1>1. PICK rec : Write(rec) /\ rec.kind = "Done" /\ rec.call = f.call /\ rec.gid = f.gid
  BY DEF Executed, Done
<1>2. f.call \in All("Decision") /\ f.at = log[f.call].step /\ f.pc = "execute"
  BY DEF Executed, CallFits, InHand
<1>3. About("Done", f.call) = {}
  BY NotYetRun DEF Executed
<1>4. /\ \A i \in About("Graph", f.call) : log[i].gid = f.gid
      /\ f.origin # "decision" => About("Graph", f.call) # {}
      /\ f.origin = "decision" => log[f.call].act # "Ask"
  BY <1>2 DEF CallFits, UpToDate, JustDecided
<1>5. CallLedger'
  BY <1>0, <1>1, <1>2, <1>3, <1>4, CallRecord
<1>6. /\ g.pc = "result" /\ g.call = f.call /\ g.at = f.at /\ g.origin = f.origin
      /\ g.token = f.token
  BY DEF Executed, Moved, FieldNames
<1>7. /\ All("Decision")' = All("Decision") /\ log'[f.call] = log[f.call]
      /\ \A i \in All("Pending") : log'[i] = log[i]
  BY <1>0, <1>1, <1>2, Grown, AboutGrows
<1>8. InHand(g)' /\ JustDecided(g)'
  BY <1>2, <1>6, <1>7 DEF InHand, JustDecided
<1>9. f.origin = "approval" => f.token # 0 /\ log[f.token].call = f.call
  BY <1>2 DEF CallFits, UpToDate
<1>10. UpToDate(g)'
  BY <1>6, <1>7, <1>9 DEF UpToDate, Typed
<1> QED BY <1>5, <1>8, <1>10 DEF CallFits

\* existing_or_new_graph finds the graph of the call among the first records, or
\* there is none and the new one is named after the trigger.
LEMMA GraphChosen ==
  ASSUME KernelInv, CallLedger, NEW f, NEW g, f \in Future, Typed(f), CallFits(f),
         Graphed(f, g)
  PROVE  \/ /\ GraphKnown(f.upto, g.gid) /\ About("Graph", f.call) # {}
            /\ \A i \in About("Graph", f.call) : log[i].gid = g.gid
         \/ g.gid = <<f.trig, f.at>> /\ \A i \in About("Graph", f.call) : i > f.upto
<1>1. PICK n, trig, at, call, gid :
        n = f.upto /\ trig = f.trig /\ at = f.at /\ call = f.call /\ gid = g.gid
  OBVIOUS
<1>2. gid = GraphId(n, trig, at, call) /\ at = log[call].step
  BY <1>1 DEF Graphed, CallFits, InHand
<1>3. Len(log) \in Nat /\ n \in 0 .. Len(log)
  BY <1>1 DEF KernelInv, TypeOK, Typed, Future
<1> DEFINE same == {i \in Records(n, "Graph") : log[i].step = at /\ log[i].call = call}
<1>4. Records(n, "Graph") \subseteq All("Graph") /\ same \in SUBSET (0 .. n) /\ n \in Nat
  BY <1>3 DEF All, Records
<1>5. CASE same = {}
  <2>1. gid = <<trig, at>>
    BY <1>2, <1>5 DEF GraphId
  <2>2. ASSUME NEW i \in About("Graph", call) PROVE i > n
    <3>1. i \in All("Graph") /\ log[i].call = call /\ log[i].step = at
      BY <1>2 DEF About, CallLedger, Stepwise
    <3>2. i \notin Records(n, "Graph")
      BY <1>5, <3>1
    <3> QED BY <1>3, <3>1, <3>2 DEF All, Records
  <2> QED BY <1>1, <2>1, <2>2
<1>6. CASE same # {}
  <2>1. Max(same) \in same
    BY <1>4, <1>6, MaxIn
  <2>2. PICK m : m = Max(same)
    OBVIOUS
  <2>3. gid = log[m].gid
    BY <1>2, <1>6, <2>2 DEF GraphId
  <2>4. m \in Records(n, "Graph") /\ m \in About("Graph", call)
    BY <1>4, <2>1, <2>2 DEF About
  <2>5. \A i \in About("Graph", call) : i = m
    BY <2>4 DEF About, CallLedger, OneAbout
  <2>6. GraphKnown(n, gid)
    BY <2>3, <2>4 DEF GraphKnown
  <2> QED BY <1>1, <2>3, <2>4, <2>5, <2>6
<1> QED BY <1>5, <1>6

\* A resumption whose snapshot shows no graph of its call makes the first one.
LEMMA GraphFound ==
  ASSUME KernelInv, CallLedger, NEW f, NEW g, f \in Future, Typed(f), CallFits(f),
         Graphed(f, g), GraphKnown(f.upto, g.gid)
  PROVE  /\ \A i \in About("Graph", f.call) : log[i].gid = g.gid
         /\ f.origin # "decision" => About("Graph", f.call) # {}
<1>0. /\ Len(log) \in Nat /\ f.upto \in 0 .. Len(log) /\ f.trig \in Nat
      /\ f.pc = "graph" /\ f.at = log[f.call].step
  BY DEF KernelInv, TypeOK, Typed, Future, Graphed, CallFits, InHand
<1>1. PICK gid : gid = GraphId(f.upto, f.trig, f.at, f.call) /\ gid = g.gid
  BY DEF Graphed
<1>2. \/ /\ About("Graph", f.call) # {}
         /\ \A i \in About("Graph", f.call) : log[i].gid = gid
      \/ gid = <<f.trig, f.at>> /\ \A i \in About("Graph", f.call) : i > f.upto
  BY <1>1, GraphChosen
<1>3. CASE gid = <<f.trig, f.at>> /\ \A i \in About("Graph", f.call) : i > f.upto
  <2>1. CASE f.origin = "decision"
    BY <1>0, <2>1 DEF CallFits, JustDecided
  <2>2. f.origin # "continue"
    <3>1. ASSUME f.origin = "continue" PROVE \E i \in About("Graph", f.call) : i <= f.upto
      BY <1>0, <3>1 DEF CallFits, UpToDate
    <3>2. \A i \in About("Graph", f.call) : i \in Nat
      BY DEF About, All, Records
    <3> QED BY <1>0, <1>3, <3>1, <3>2
  <2>3. f.origin # "approval"
    <3>1. SUFFICES ASSUME f.origin = "approval" PROVE FALSE
      OBVIOUS
    <3>2. f.upto <= f.trig
      BY <1>0, <3>1 DEF CallFits, UpToDate
    <3>3. PICK i \in Records(f.upto, "Graph") : log[i].gid = gid
      BY <1>1 DEF GraphKnown
    <3>4. i \in All("Graph") /\ i <= f.upto /\ i \in Nat
      BY <1>0, <3>3 DEF All, Records
    <3>5. f.trig < i
      BY <1>3, <3>3, <3>4 DEF CallLedger, GraphsOlder
    <3> QED BY <1>0, <3>2, <3>4, <3>5
  <2>4. f.origin \in {"decision", "continue", "approval"}
    BY DEF Future
  <2> QED BY <2>1, <2>2, <2>3, <2>4
<1> QED BY <1>1, <1>2, <1>3

LEMMA GraphMade ==
  ASSUME KernelInv, CallLedger, NEW f, NEW g, f \in Future, Typed(f), CallFits(f),
         Graphed(f, g), ~GraphKnown(f.upto, g.gid)
  PROVE  /\ About("Graph", f.call) = {} /\ About("Done", f.call) = {}
         /\ g.gid = <<f.trig, f.at>>
<1>0. /\ Len(log) \in Nat /\ f.upto \in 0 .. Len(log)
      /\ f.pc = "graph" /\ f.at = log[f.call].step
  BY DEF KernelInv, TypeOK, Typed, Future, Graphed, CallFits, InHand
<1>1. PICK gid : gid = GraphId(f.upto, f.trig, f.at, f.call) /\ gid = g.gid
  BY DEF Graphed
<1>2. gid = <<f.trig, f.at>> /\ \A i \in About("Graph", f.call) : i > f.upto
  BY <1>1, GraphChosen
<1>3. \A i \in About("Graph", f.call) : i \in Nat /\ i \in All("Graph")
  BY DEF About, All, Records
<1>4. CASE f.origin = "decision"
  BY <1>0, <1>1, <1>2, <1>4 DEF CallFits, JustDecided, Kinds
<1>5. CASE f.origin = "continue"
  <2>1. \E i \in About("Graph", f.call) : i <= f.upto
    BY <1>0, <1>5 DEF CallFits, UpToDate
  <2> QED BY <1>0, <1>2, <1>3, <2>1
<1>6. CASE f.origin = "approval"
  <2>1. \A i \in All("Graph") : i <= f.upto
    BY <1>0, <1>6 DEF CallFits, UpToDate
  <2>2. About("Graph", f.call) = {}
    BY <1>0, <1>2, <1>3, <2>1
  <2>3. f.token \in All("Pending") /\ log[f.token].call = f.call
    BY <1>0, <1>6 DEF CallFits, UpToDate, Typed
  <2>4. log[f.call].act = "Ask"
    BY <2>3 DEF CallLedger, PendingAsked
  <2>5. About("Done", f.call) = {}
    BY <2>2, <2>4 DEF CallLedger, AskedInGraph, About
  <2> QED BY <1>1, <1>2, <2>2, <2>5
<1>7. f.origin \in {"decision", "continue", "approval"}
  BY DEF Future
<1> QED BY <1>4, <1>5, <1>6, <1>7

LEMMA GraphCalls ==
  ASSUME KernelInv, CallLedger, NEW f, NEW g, f \in Future, Typed(f), CallFits(f),
         Graphed(f, g)
  PROVE  CallLedger' /\ CallFits(g)'
<1>0. log \in Seq(Entry) /\ Len(log) \in Nat
  BY DEF KernelInv, TypeOK
<1>1. /\ f.pc = "graph" /\ g.pc = "execute" /\ g.call = f.call /\ g.at = f.at
      /\ g.origin = f.origin /\ g.token = f.token /\ g.upto = f.upto
  BY DEF Graphed, Moved, FieldNames
<1>2. InHand(f) /\ JustDecided(f) /\ UpToDate(f)
  BY DEF CallFits
<1>3. InHand(g) /\ JustDecided(g)
  BY <1>1, <1>2 DEF InHand, JustDecided
<1>4. CASE GraphKnown(f.upto, g.gid) /\ Silent
  <2>1. /\ \A i \in About("Graph", g.call) : log[i].gid = g.gid
        /\ g.origin # "decision" => About("Graph", g.call) # {}
    BY <1>1, <1>4, GraphFound
  <2>2. UpToDate(g)
    BY <1>1, <1>2, <2>1 DEF UpToDate
  <2> QED BY <1>3, <1>4, <2>2, SilentCalls DEF CallFits
<1>5. CASE ~GraphKnown(f.upto, g.gid) /\ Write(Graph(g.gid, f.at, f.call))
  <2>1. PICK rec : /\ Write(rec) /\ rec.kind = "Graph" /\ rec.gid = g.gid
                   /\ rec.step = f.at /\ rec.call = f.call
    BY <1>5 DEF Graph
  <2>2. /\ About("Graph", f.call) = {} /\ About("Done", f.call) = {}
        /\ g.gid = <<f.trig, f.at>>
    BY <1>5, GraphMade
  <2>3. g.gid[1] \in 0 .. Len(log)
    BY <1>0, <2>2 DEF Typed, Future
  <2>4. f.call \in All("Decision") /\ f.at = log[f.call].step
    BY <1>1, <1>2 DEF InHand
  <2>5. CallLedger'
    BY <1>0, <2>1, <2>2, <2>3, <2>4, CallRecord
  <2>6. /\ All("Decision")' = All("Decision") /\ All("Done")' = All("Done")
        /\ log'[f.call] = log[f.call] /\ \A i \in All("Pending") : log'[i] = log[i]
    BY <1>0, <2>1, <2>4, Grown, AboutGrows
  <2>7. /\ \A kind \in Kinds \ {"Graph"} : About(kind, f.call)' = About(kind, f.call)
        /\ About("Graph", f.call)' = {Here} /\ log'[Here] = rec
    <3>1. log'[Here] = rec
      BY <1>0, <2>1, Grown
    <3>2. \A kind, c : /\ rec.kind # kind \/ rec.call # c => About(kind, c)' = About(kind, c)
                       /\ rec.kind = kind /\ rec.call = c =>
                            About(kind, c)' = About(kind, c) \cup {Here}
      <4>1. log \in Seq(Entry) /\ Write(rec)
        BY <1>0, <2>1
      <4>2. \A kind, c :
              /\ About(kind, c) \subseteq 1 .. Len(log)
              /\ rec.kind # kind \/ rec.call # c => About(kind, c)' = About(kind, c)
              /\ rec.kind = kind /\ rec.call = c => About(kind, c)' = About(kind, c) \cup {Here}
        BY <4>1, AboutGrows, Zenon
      <4> QED BY <4>2
    <3>3. ASSUME NEW kind \in Kinds \ {"Graph"}
          PROVE  About(kind, f.call)' = About(kind, f.call)
      <4>1. rec.kind # kind
        BY <2>1
      <4> QED BY <3>2, <4>1
    <3>4. About("Graph", f.call)' = About("Graph", f.call) \cup {Here}
      BY <2>1, <3>2
    <3>5. About("Graph", f.call)' = {Here}
      BY <2>2, <3>4
    <3> QED BY <3>1, <3>3, <3>5
  <2>8. InHand(g)' /\ JustDecided(g)'
    <3>1. InHand(g)'
      BY <1>1, <2>4, <2>6 DEF InHand
    <3>2. JustDecided(g)'
      BY <1>1, <1>3, <2>6, <2>7 DEF JustDecided
    <3> QED BY <3>1, <3>2
  <2>9. UpToDate(g)'
    <3>1. f.origin # "decision" => \A i \in All("Done")' : i <= f.upto
      BY <1>1, <1>2, <2>6 DEF UpToDate
    <3>2. f.origin = "approval" => f.token # 0 /\ log'[f.token].call = f.call
      BY <1>1, <1>2, <2>6 DEF UpToDate, Typed
    <3>3. /\ \A i \in About("Graph", f.call)' : log'[i].gid = g.gid
          /\ About("Graph", f.call)' # {}
      BY <2>1, <2>7
    <3> QED BY <1>1, <3>1, <3>2, <3>3 DEF UpToDate
  <2> QED BY <2>5, <2>8, <2>9 DEF CallFits
<1> QED BY <1>4, <1>5 DEF Graphed

\* Every step of an advance keeps the calls in order.
LEMMA CallStep ==
  ASSUME KernelInv, CallLedger, NEW f, NEW g, f \in Future, Typed(f), Gated(f), CallFits(f),
         Move(f, g)
  PROVE  CallLedger' /\ CallFits(g)'
<1>1. CASE \/ Delivered(f, g) \/ Loaded(f, g) \/ LookedUp(f, g) \/ Continued(f, g)
           \/ Stopped(f, g) \/ Reused(f, g) \/ Dropped(f, g)
  BY <1>1, SilentStepCalls
<1>2. CASE Triggered(f, g) \/ Resolves(f, g) \/ Deliberated(f, g) \/ Finished(f, g)
  BY <1>2, PlainStepCalls
<1>3. CASE \E act \in Acts : DecidedOn(f, g, act)
  BY <1>3, DecisionCalls
<1>4. CASE Suspended(f, g) \/ Graphed(f, g) \/ Executed(f, g)
  BY <1>4, SuspendCalls, GraphCalls, ExecuteCalls
<1>5. CASE Reported(f, g) \/ Refused(f, g)
  BY <1>5, ResultCalls
<1> QED BY <1>1, <1>2, <1>3, <1>4, <1>5 DEF Move

CallInv == CallLedger /\ \A d \in Drivers : CallFits(run[d])

LEMMA CallsKept ==
  ASSUME Serial, Serial', KernelInv, CallInv, [Next]_vars
  PROVE  CallInv'
<1>1. ASSUME NEW e \in Drivers, run'[e] = run[e], Silent
      PROVE  CallLedger' /\ CallFits(run[e])'
  <2>1. PICK h : h = run[e] /\ h = run'[e] /\ CallFits(h)
    BY <1>1 DEF CallInv
  <2>2. CallLedger' /\ CallFits(h)'
    BY <1>1, <2>1, SilentCalls DEF CallInv
  <2> QED BY <2>1, <2>2 DEF CallFits, InHand, JustDecided, UpToDate
<1>2. ASSUME NEW e \in Drivers, run'[e] = run[e], run[e].pc = "idle"
      PROVE  CallFits(run[e])'
  BY <1>2 DEF CallFits, InHand, JustDecided, UpToDate
<1>3. CASE UNCHANGED vars
  <2>1. Silent /\ run' = run
    BY <1>3 DEF vars, Silent
  <2>2. CallLedger'
    <3>1. CallFits(Idle)
      BY FreeFits DEF Idle
    <3> QED BY <2>1, <3>1, SilentCalls DEF CallInv
  <2> QED BY <1>1, <2>1, <2>2 DEF CallInv
<1>4. CASE Next
  <2>1. PICK d \in Drivers : /\ Move(run[d], run'[d])
                             /\ \A e \in Drivers : e # d => run'[e] = run[e]
    BY <1>4, StepMoves
  <2>2. PICK f, g : f = run[d] /\ g = run'[d] /\ Move(f, g)
    BY <2>1
  <2>3. f \in Future /\ Typed(f) /\ Gated(f)
    BY <2>2, Held
  <2>9. CallLedger' /\ CallFits(g)'
    BY <2>2, <2>3, CallStep DEF CallInv
  <2>10. ASSUME NEW e \in Drivers PROVE CallFits(run[e])'
    <3>1. CASE e = d
      BY <2>2, <2>9, <3>1 DEF CallFits, InHand, JustDecided, UpToDate
    <3>2. CASE e # d
      <4>1. run'[e] = run[e] /\ (run[e].pc = "idle" \/ Silent)
        BY <2>1, <3>2, Bystanders
      <4> QED BY <1>1, <1>2, <4>1
    <3> QED BY <3>1, <3>2
  <2> QED BY <2>9, <2>10 DEF CallInv
<1> QED BY <1>3, <1>4

LEMMA CallsInvariant == Spec /\ []Serial => [](KernelInv /\ CallInv)
<1>1. Init => CallInv
  <2> SUFFICES ASSUME Init PROVE CallInv
    OBVIOUS
  <2>1. log = <<>> /\ Len(log) = 0
    BY DEF Init
  <2>2. \A kind : All(kind) = {} /\ \A c : About(kind, c) = {}
    BY <2>1 DEF All, Records, About
  <2>3. \A d \in Drivers : run[d].pc = "idle"
    BY DEF Init, Idle
  <2>4. CallLedger
    BY <2>2 DEF CallLedger, OfDecisions, Stepwise, OneAbout, CallRunsOnce, PendingAsked,
                GraphsOlder, DoneInGraph, AskedInGraph
  <2> QED BY <2>3, <2>4, FreeFits DEF CallInv
<1>2. Serial /\ Serial' /\ KernelInv /\ CallInv /\ [Next]_vars => CallInv'
  BY CallsKept
<1> QED BY <1>1, <1>2, Invariance, PTL DEF Spec

\* A call reaches its terminal checkpoint once, across interruptions, continuations
\* and repeated deliveries of its approval, if advances come one at a time.
THEOREM CallsRunOnce == Spec /\ []Serial => []CallRunsOnce
<1>1. CallInv => CallRunsOnce
  BY DEF CallInv, CallLedger
<1> QED BY <1>1, CallsInvariant, PTL

-----------------------------------------------------------------------------
(* Results. *)

\* The approval that call c needed was denied.
Rejected(c) ==
  \E p \in About("Pending", c), s \in All("Resolution") :
     log[s].token = p /\ log[s].verdict = "Rejected"

ResolvedOnce == \A s, t \in All("Resolution") : log[s].token = log[t].token => s = t

\* A call has a result before it has run only if it was denied.
FailedOrRejected ==
  \A r \in All("Result") : About("Done", log[r].call) = {} => Rejected(log[r].call)

\* Verdicts are about approvals that were asked for.
TokensPending == \A s \in All("Resolution") : log[s].token \in All("Pending")

ResultLedger == ResultsTruthful /\ ResolvedOnce /\ FailedOrRejected /\ TokensPending

\* A verdict is recorded for a token without one, a refusal for a denied call, and a
\* result for the call's checkpoint.
Reporting(f) ==
  /\ f.pc = "resolve" => ResolutionsOf(f.token, Len(log)) = {}
  /\ f.pc = "reject" => Rejected(f.call)
  /\ f.pc = "result" => /\ \E i \in About("Done", f.call) : log[i].ok = f.ok
                        /\ About("Result", f.call) = {}

LEMMA NothingToReport ==
  ASSUME NEW g, g.pc \notin {"resolve", "reject", "result"}
  PROVE  Reporting(g) /\ Reporting(g)'
BY DEF Reporting

\* No call is both permitted and denied.
LEMMA NotBoth ==
  ASSUME CallLedger, ResolvedOnce, NEW c, Permitted(c), Rejected(c)
  PROVE  FALSE
<1>1. PICK p \in All("Pending"), s \in All("Resolution") :
        log[p].call = c /\ log[s].token = p /\ log[s].verdict = "Rejected"
  BY DEF Rejected, About
<1>2. log[c].act = "Ask"
  BY <1>1 DEF CallLedger, PendingAsked
<1>3. PICK q \in All("Pending"), r \in All("Resolution") :
        log[q].call = c /\ log[r].token = q /\ log[r].verdict = "Approved"
  BY <1>2 DEF Permitted
<1>4. p = q
  BY <1>1, <1>3 DEF CallLedger, OneAbout
<1>5. r = s
  BY <1>1, <1>3, <1>4 DEF ResolvedOnce
<1> QED BY <1>1, <1>3, <1>5

\* A call that ran was permitted.
LEMMA RanPermitted ==
  ASSUME KernelInv, CallLedger, NEW c, About("Done", c) # {}
  PROVE  Permitted(c)
<1>1. PICK i \in All("Done") : log[i].call = c
  BY DEF About
<1>2. c \in 1 .. Len(log)
  BY <1>1 DEF KernelInv, LedgerOK
<1>3. CASE log[c].act = "Ask"
  <2>1. PICK p \in All("Pending") :
          log[p].call = c /\ \E r \in ResolutionsOf(p, i) : log[r].verdict = "Approved"
    BY <1>1, <1>3 DEF KernelInv, ApprovalGate
  <2>2. PICK r \in ResolutionsOf(p, i) : log[r].verdict = "Approved"
    BY <2>1
  <2>3. i \in 1 .. Len(log)
    BY <1>1 DEF All, Records
  <2>4. r \in All("Resolution") /\ log[r].token = p
    BY <2>2, <2>3 DEF ResolutionsOf, All, Records
  <2> QED BY <1>2, <2>1, <2>2, <2>4 DEF Permitted
<1> QED BY <1>2, <1>3 DEF Permitted

LEMMA RejectedStays ==
  ASSUME log \in Seq(Entry), NEW rec, Write(rec), NEW c, Rejected(c)
  PROVE  Rejected(c)'
<1>1. PICK p \in All("Pending"), s \in All("Resolution") :
        log[p].call = c /\ log[s].token = p /\ log[s].verdict = "Rejected"
  BY DEF Rejected, About
<1>2. p \in All("Pending")' /\ s \in All("Resolution")'
  BY Grown
<1>3. log'[p] = log[p] /\ log'[s] = log[s]
  BY AboutGrows
<1> QED BY <1>1, <1>2, <1>3 DEF Rejected, About

LEMMA SilentResults ==
  ASSUME Silent, ResultLedger, NEW g, Reporting(g)
  PROVE  ResultLedger' /\ Reporting(g)'
<1>1. /\ log' = log /\ \A kind : All(kind)' = All(kind)
      /\ \A kind, c : About(kind, c)' = About(kind, c)
      /\ \A c : Rejected(c)' <=> Rejected(c)
      /\ \A token, n : ResolutionsOf(token, n)' = ResolutionsOf(token, n)
  BY DEF Silent, All, Records, About, Rejected, ResolutionsOf
<1>2. ResultLedger'
  BY <1>1 DEF ResultLedger, ResultsTruthful, ResolvedOnce, FailedOrRejected, TokensPending
<1>3. Reporting(g)'
  BY <1>1 DEF Reporting
<1> QED BY <1>2, <1>3

\* ResultsTruthful, result by result.
Truthful(r) ==
  /\ log[r].ok => About("Done", log[r].call) # {}
  /\ \A i \in About("Done", log[r].call) :
       /\ log[i].ok = log[r].ok /\ i < r
       /\ \A s \in About("Result", log[r].call) : s = r

LEMMA EachTruthful == ResultsTruthful <=> \A r \in All("Result") : Truthful(r)
BY DEF ResultsTruthful, Truthful, About

LEMMA TokensStay ==
  ASSUME log \in Seq(Entry), TokensPending, NEW rec, Write(rec),
         rec.kind = "Resolution" => rec.token \in All("Pending")
  PROVE  TokensPending'
<1>1. All("Pending") \subseteq All("Pending")'
  BY Grown
<1>2. ASSUME NEW s \in All("Resolution")' PROVE log'[s].token \in All("Pending")
  <2>1. \/ s \in All("Resolution") /\ log'[s] = log[s]
        \/ s = Here /\ log'[s] = rec /\ rec.kind = "Resolution"
    BY AboutGrows
  <2> QED BY <2>1 DEF TokensPending
<1> QED BY <1>1, <1>2 DEF TokensPending

\* A record about no result, checkpoint or resolution.
LEMMA OtherRecord ==
  ASSUME log \in Seq(Entry), ResultLedger, NEW rec, Write(rec),
         rec.kind \notin {"Result", "Done", "Resolution"}
  PROVE  ResultLedger'
<1>1. /\ \A kind \in {"Result", "Done", "Resolution"} :
           All(kind)' = All(kind) /\ \A c : About(kind, c)' = About(kind, c)
      /\ \A kind : \A i \in All(kind) : log'[i] = log[i]
  <2>1. ASSUME NEW kind \in {"Result", "Done", "Resolution"}
        PROVE  All(kind)' = All(kind) /\ \A c : About(kind, c)' = About(kind, c)
    BY Grown, AboutGrows
  <2> QED BY <2>1, AboutGrows
<1>2. ASSUME NEW r \in All("Result")' PROVE Truthful(r)'
  <2>1. r \in All("Result") /\ log'[r] = log[r] /\ Truthful(r)
    BY <1>1, EachTruthful DEF ResultLedger
  <2>2. \A i \in About("Done", log[r].call) : log'[i] = log[i]
    BY <1>1 DEF About
  <2> QED BY <1>1, <2>1, <2>2 DEF Truthful
<1>3. ResultsTruthful'
  <2>1. \A r \in All("Result")' : Truthful(r)'
    BY <1>2
  <2> QED BY <2>1, EachTruthful DEF ResultsTruthful, Truthful, About
<1>4. ResolvedOnce'
  BY <1>1 DEF ResultLedger, ResolvedOnce
<1>5. FailedOrRejected'
  BY <1>1, RejectedStays DEF ResultLedger, FailedOrRejected
<1>6. TokensPending'
  BY TokensStay DEF ResultLedger
<1> QED BY <1>3, <1>4, <1>5, <1>6 DEF ResultLedger

LEMMA ResolutionRecord ==
  ASSUME log \in Seq(Entry), ResultLedger, NEW rec, Write(rec), rec.kind = "Resolution",
         rec.token \in All("Pending"),
         \A s \in All("Resolution") : log[s].token # rec.token
  PROVE  ResultLedger'
<1>1. /\ \A kind \in {"Result", "Done"} :
           All(kind)' = All(kind) /\ \A c : About(kind, c)' = About(kind, c)
      /\ \A kind : \A i \in All(kind) : log'[i] = log[i]
      /\ \A s \in All("Resolution")' :
           (s \in All("Resolution") /\ log'[s] = log[s]) \/ (s = Here /\ log'[s] = rec)
  <2>1. ASSUME NEW kind \in {"Result", "Done"}
        PROVE  All(kind)' = All(kind) /\ \A c : About(kind, c)' = About(kind, c)
    BY Grown, AboutGrows
  <2>2. \A kind : \A i \in All(kind) : log'[i] = log[i]
    BY AboutGrows
  <2>3. ASSUME NEW s \in All("Resolution")'
        PROVE  (s \in All("Resolution") /\ log'[s] = log[s]) \/ (s = Here /\ log'[s] = rec)
    BY AboutGrows
  <2> QED BY <2>1, <2>2, <2>3
<1>2. ASSUME NEW r \in All("Result")' PROVE Truthful(r)'
  <2>1. r \in All("Result") /\ log'[r] = log[r] /\ Truthful(r)
    BY <1>1, EachTruthful DEF ResultLedger
  <2>2. \A i \in About("Done", log[r].call) : log'[i] = log[i]
    BY <1>1 DEF About
  <2> QED BY <1>1, <2>1, <2>2 DEF Truthful
<1>3. ResultsTruthful'
  <2>1. \A r \in All("Result")' : Truthful(r)'
    BY <1>2
  <2> QED BY <2>1 DEF ResultsTruthful, Truthful, About
<1>4. ResolvedOnce'
  <2>1. ASSUME NEW s \in All("Resolution")', NEW t \in All("Resolution")',
               log'[s].token = log'[t].token
        PROVE  s = t
    BY <1>1, <2>1 DEF ResultLedger, ResolvedOnce
  <2> QED BY <2>1 DEF ResolvedOnce
<1>5. FailedOrRejected'
  BY <1>1, RejectedStays DEF ResultLedger, FailedOrRejected
<1>6. TokensPending'
  BY TokensStay DEF ResultLedger
<1> QED BY <1>3, <1>4, <1>5, <1>6 DEF ResultLedger

\* The checkpoint of a call without a result.
LEMMA DoneRecord ==
  ASSUME log \in Seq(Entry), ResultLedger, NEW rec, Write(rec), rec.kind = "Done",
         About("Result", rec.call) = {}
  PROVE  ResultLedger'
<1>1. /\ \A kind \in {"Result", "Resolution"} :
           All(kind)' = All(kind) /\ \A c : About(kind, c)' = About(kind, c)
      /\ \A kind : \A i \in All(kind) : log'[i] = log[i]
  <2>1. ASSUME NEW kind \in {"Result", "Resolution"}
        PROVE  All(kind)' = All(kind) /\ \A c : About(kind, c)' = About(kind, c)
    BY Grown, AboutGrows
  <2> QED BY <2>1, AboutGrows
<1>2. ASSUME NEW r \in All("Result")'
      PROVE  /\ r \in All("Result") /\ log'[r] = log[r] /\ log[r].call # rec.call
             /\ About("Done", log[r].call)' = About("Done", log[r].call)
  <2>1. r \in All("Result") /\ log'[r] = log[r]
    BY <1>1
  <2>2. log[r].call # rec.call
    BY <2>1 DEF About
  <2> QED BY <2>1, <2>2, AboutGrows
<1>3. ASSUME NEW r \in All("Result")' PROVE Truthful(r)'
  <2>1. r \in All("Result") /\ log'[r] = log[r] /\ Truthful(r)
    BY <1>2, EachTruthful DEF ResultLedger
  <2>2. \A i \in About("Done", log[r].call) : log'[i] = log[i]
    BY <1>1 DEF About
  <2> QED BY <1>1, <1>2, <2>1, <2>2 DEF Truthful
<1>4. ResultsTruthful'
  <2>1. \A r \in All("Result")' : Truthful(r)'
    BY <1>3
  <2> QED BY <2>1 DEF ResultsTruthful, Truthful, About
<1>5. ResolvedOnce'
  BY <1>1 DEF ResultLedger, ResolvedOnce
<1>6. FailedOrRejected'
  <2>1. ASSUME NEW r \in All("Result")', About("Done", log[r].call)' = {}
        PROVE  Rejected(log[r].call)'
    <3>1. PICK c : c = log[r].call /\ log'[r].call = c
      BY <1>2
    <3>2. Rejected(c)
      BY <1>2, <2>1, <3>1 DEF ResultLedger, FailedOrRejected
    <3>3. Rejected(c)'
      BY <3>2, RejectedStays
    <3> QED BY <3>1, <3>3
  <2> QED BY <2>1 DEF FailedOrRejected
<1>7. TokensPending'
  BY TokensStay DEF ResultLedger
<1> QED BY <1>4, <1>5, <1>6, <1>7 DEF ResultLedger

\* The only result of a call tells how it ended, or that it was denied.
LEMMA ResultRecord ==
  ASSUME log \in Seq(Entry), CallRunsOnce, ResultLedger, NEW rec, Write(rec),
         rec.kind = "Result",
         \/ /\ About("Result", rec.call) = {}
            /\ \E i \in About("Done", rec.call) : log[i].ok = rec.ok
         \/ ~rec.ok /\ About("Done", rec.call) = {} /\ Rejected(rec.call)
  PROVE  ResultLedger'
<1>0. Len(log) \in Nat /\ Here = Len(log) + 1
  BY Grown
<1>1. /\ \A kind \in {"Done", "Resolution"} :
           All(kind)' = All(kind) /\ \A c : About(kind, c)' = About(kind, c)
      /\ \A kind : \A i \in All(kind) : log'[i] = log[i]
      /\ \A r \in All("Result")' :
           (r \in All("Result") /\ log'[r] = log[r]) \/ (r = Here /\ log'[r] = rec)
  <2>1. ASSUME NEW kind \in {"Done", "Resolution"}
        PROVE  All(kind)' = All(kind) /\ \A c : About(kind, c)' = About(kind, c)
    BY Grown, AboutGrows
  <2>2. \A kind : \A i \in All(kind) : log'[i] = log[i]
    BY AboutGrows
  <2>3. ASSUME NEW r \in All("Result")'
        PROVE  (r \in All("Result") /\ log'[r] = log[r]) \/ (r = Here /\ log'[r] = rec)
    BY AboutGrows
  <2> QED BY <2>1, <2>2, <2>3
<1>2. /\ \A c : c # rec.call => About("Result", c)' = About("Result", c)
      /\ About("Result", rec.call)' = About("Result", rec.call) \cup {Here}
  BY AboutGrows
<1>3. \A c : About("Done", c) \subseteq 1 .. Len(log)
  BY AboutGrows
<1>4. ASSUME NEW r \in All("Result")' PROVE Truthful(r)'
  <2>1. CASE r \in All("Result") /\ log'[r] = log[r]
    <3>1. Truthful(r)
      BY <2>1, EachTruthful DEF ResultLedger
    <3>2. \A i \in About("Done", log[r].call) : log'[i] = log[i]
      BY <1>1 DEF About
    <3>3. log[r].call = rec.call => About("Done", rec.call) = {}
      BY <2>1 DEF About
    <3> QED BY <1>1, <1>2, <2>1, <3>1, <3>2, <3>3 DEF Truthful
  <2>2. CASE r = Here /\ log'[r] = rec
    <3>1. About("Done", rec.call)' = About("Done", rec.call)
      BY <1>1
    <3>2. \A i \in About("Done", rec.call) : i < r
      BY <1>0, <1>3, <2>2
    <3>3. \A i, j \in About("Done", rec.call) : i = j
      BY DEF CallRunsOnce, About
    <3>4. \A i \in About("Done", rec.call) : log'[i] = log[i]
      BY <1>1 DEF About
    <3>5. CASE /\ About("Result", rec.call) = {}
               /\ \E i \in About("Done", rec.call) : log[i].ok = rec.ok
      <4>1. About("Result", rec.call)' = {Here}
        BY <1>2, <3>5
      <4>2. \A i \in About("Done", rec.call) : log[i].ok = rec.ok
        BY <3>3, <3>5
      <4> QED BY <2>2, <3>1, <3>2, <3>4, <3>5, <4>1, <4>2 DEF Truthful
    <3>6. CASE ~rec.ok /\ About("Done", rec.call) = {}
      BY <2>2, <3>1, <3>6 DEF Truthful
    <3> QED BY <3>5, <3>6
  <2> QED BY <1>1, <2>1, <2>2
<1>5. ResultsTruthful'
  <2>1. \A r \in All("Result")' : Truthful(r)'
    BY <1>4
  <2> QED BY <2>1 DEF ResultsTruthful, Truthful, About
<1>6. ResolvedOnce'
  BY <1>1 DEF ResultLedger, ResolvedOnce
<1>7. FailedOrRejected'
  <2>1. ASSUME NEW r \in All("Result")', About("Done", log[r].call)' = {}
        PROVE  Rejected(log[r].call)'
    <3>1. PICK c : c = log'[r].call
      OBVIOUS
    <3>2. About("Done", c) = {}
      BY <1>1, <2>1, <3>1
    <3>3. Rejected(c)
      BY <1>1, <3>1, <3>2 DEF ResultLedger, FailedOrRejected
    <3>4. Rejected(c)'
      BY <3>3, RejectedStays
    <3> QED BY <3>1, <3>4
  <2> QED BY <2>1 DEF FailedOrRejected
<1>8. TokensPending'
  BY TokensStay DEF ResultLedger
<1> QED BY <1>5, <1>6, <1>7, <1>8 DEF ResultLedger

\* The call of a denied approval, as it is handed back.
LEMMA BackReports ==
  ASSUME log \in Seq(Entry), CallLedger, NEW f, NEW g, NEW verdict, NEW s,
         f.token \in All("Pending"), HandedBack(f, g, verdict),
         s \in All("Resolution"), log[s].token = f.token, log[s].verdict = verdict
  PROVE  Reporting(g)
<1>1. g.pc \in {"graph", "reject"} /\ g.call = log[f.token].call
  BY DEF HandedBack
<1>2. s \in 1 .. Len(log) /\ log[s].kind = "Resolution"
  BY DEF All, Records
<1>3. verdict \in {"Approved", "Rejected"}
  BY <1>2, EntryFacts DEF Verdicts
<1>4. CASE g.pc = "reject"
  <2>1. log[s].verdict = "Rejected"
    BY <1>3, <1>4 DEF HandedBack
  <2>2. f.token \in About("Pending", g.call)
    BY <1>1 DEF About
  <2> QED BY <1>4, <2>1, <2>2 DEF Reporting, Rejected
<1> QED BY <1>1, <1>4, NothingToReport

LEMMA SilentStepResults ==
  ASSUME KernelInv, CallLedger, ResultLedger, NEW f, NEW g, f \in Future, Typed(f), Gated(f),
         Reporting(f),
         \/ Delivered(f, g) \/ Loaded(f, g) \/ LookedUp(f, g) \/ Continued(f, g)
         \/ Stopped(f, g) \/ Reused(f, g) \/ Dropped(f, g)
  PROVE  ResultLedger' /\ Reporting(g)'
<1>0. log \in Seq(Entry) /\ Len(log) \in Nat
  BY DEF KernelInv, TypeOK
<1>1. Idle.pc = "idle"
  BY DEF Idle
<1>2. Silent
  BY DEF Delivered, Loaded, LookedUp, Continued, Stopped, Reused, Dropped
<1>3. SUFFICES Reporting(g)
  BY <1>2, SilentResults
<1>4. CASE \/ Delivered(f, g) \/ Loaded(f, g) \/ Continued(f, g) \/ Stopped(f, g)
           \/ Dropped(f, g)
  <2>1. g.pc \in {"idle", "accept", "step", "lookup", "graph", "finish"}
    BY <1>1, <1>4 DEF Delivered, Loaded, Continued, Stopped, Dropped
  <2> QED BY <2>1, NothingToReport
<1>5. CASE Reused(f, g)
  <2>1. g.pc \in {"idle", "step"}
    BY <1>1, <1>5 DEF Reused, GoesOn
  <2> QED BY <2>1, NothingToReport
<1>6. CASE LookedUp(f, g)
  <2>0. f.pc = "lookup" /\ f.token \in All("Pending") /\ f.upto \in 0 .. Len(log)
    BY <1>0, <1>6 DEF LookedUp, Gated, Typed, Future
  <2>1. CASE g.pc = "finish"
    BY <2>1, NothingToReport
  <2>2. CASE IsPending(f.token) /\ g.pc = "resolve" /\ Moved(f, g, {"pc"})
    <3>1. g.token = f.token
      BY <2>2 DEF Moved, FieldNames
    <3> QED BY <2>2, <3>1 DEF IsPending, Reporting
  <2>3. CASE \E r \in ResolutionsOf(f.token, f.upto) : HandedBack(f, g, log[r].verdict)
    <3>1. PICK r \in ResolutionsOf(f.token, f.upto) : HandedBack(f, g, log[r].verdict)
      BY <2>3
    <3>2. r \in All("Resolution") /\ log[r].token = f.token
      BY <1>0, <2>0, <3>1 DEF ResolutionsOf, All, Records
    <3>3. PICK verdict : verdict = log[r].verdict
      OBVIOUS
    <3> QED BY <1>0, <2>0, <3>1, <3>2, <3>3, BackReports
  <2> QED BY <1>6, <2>1, <2>2, <2>3 DEF LookedUp
<1> QED BY <1>4, <1>5, <1>6

LEMMA OtherStepResults ==
  ASSUME KernelInv, ResultLedger, NEW f, NEW g, Reporting(f),
         \/ Triggered(f, g) \/ \E act \in Acts : DecidedOn(f, g, act)
         \/ Deliberated(f, g) \/ Suspended(f, g) \/ Finished(f, g) \/ Graphed(f, g)
  PROVE  ResultLedger' /\ Reporting(g)'
<1>0. log \in Seq(Entry)
  BY DEF KernelInv, TypeOK
<1>1. \/ Silent
      \/ \E rec : Write(rec) /\ rec.kind \notin {"Result", "Done", "Resolution"}
  <2>1. CASE Triggered(f, g)
    BY <2>1 DEF Triggered, Trigger
  <2>4. CASE \E act \in Acts : DecidedOn(f, g, act)
    <3>1. PICK act : Write(Decision(f.trig, f.step, act))
      BY <2>4 DEF DecidedOn
    <3> QED BY <3>1 DEF Decision
  <2>2. CASE Deliberated(f, g) \/ Suspended(f, g)
    BY <2>2 DEF Deliberated, Suspended, Deliberation, Pending
  <2>3. CASE Finished(f, g) \/ Graphed(f, g)
    BY <2>3 DEF Finished, Graphed, Outcome, Graph
  <2> QED BY <2>1, <2>2, <2>3, <2>4
<1>2. g.pc \in {"load", "idle", "finish", "deliberate", "graph", "suspend", "execute"}
  BY DEF Triggered, DecidedOn, Deliberated, Suspended, Finished, Graphed, Idle
<1>3. CASE Silent
  BY <1>2, <1>3, SilentResults, NothingToReport
<1>4. CASE \E rec : Write(rec) /\ rec.kind \notin {"Result", "Done", "Resolution"}
  BY <1>0, <1>2, <1>4, OtherRecord, NothingToReport
<1> QED BY <1>1, <1>3, <1>4

LEMMA ResolveResults ==
  ASSUME KernelInv, CallLedger, CallLedger', ResultLedger, NEW f, NEW g, f \in Future,
         Typed(f), Gated(f), Reporting(f), Resolves(f, g)
  PROVE  ResultLedger' /\ Reporting(g)'
<1>0. log \in Seq(Entry) /\ Len(log) \in Nat
  BY DEF KernelInv, TypeOK
<1>1. PICK rec : /\ Write(rec) /\ rec.kind = "Resolution" /\ rec.token = f.token
                 /\ rec.verdict = f.verdict
  BY DEF Resolves, Resolution
<1>2. /\ f.pc = "resolve" /\ HandedBack(f, g, f.verdict) /\ f.token \in All("Pending")
      /\ f.verdict \in {"Approved", "Rejected"}
  BY DEF Resolves, Typed, Gated, Future, Verdicts
<1>3. \A s \in All("Resolution") : log[s].token # f.token
  BY <1>0, <1>2 DEF Reporting, ResolutionsOf, All
<1>4. ResultLedger'
  BY <1>0, <1>1, <1>2, <1>3, ResolutionRecord
<1>5. g.pc \in {"graph", "reject"} /\ g.call = log[f.token].call
  BY <1>2 DEF HandedBack
<1>6. CASE g.pc = "reject"
  <2>1. f.verdict = "Rejected"
    BY <1>2, <1>6 DEF HandedBack
  <2>2. Here \in All("Resolution")' /\ log'[Here] = rec
    BY <1>0, <1>1, Grown
  <2>3. f.token \in All("Pending")' /\ log'[f.token] = log[f.token]
    BY <1>0, <1>1, <1>2, Grown, AboutGrows
  <2>4. f.token \in About("Pending", g.call)'
    BY <1>5, <2>3 DEF About
  <2>5. log'[Here].token = f.token /\ log'[Here].verdict = "Rejected"
    BY <1>1, <2>1, <2>2
  <2>6. Rejected(g.call)'
    BY <2>2, <2>4, <2>5 DEF Rejected
  <2>7. g.pc # "resolve" /\ g.pc # "result"
    BY <1>6
  <2> QED BY <1>4, <2>6, <2>7 DEF Reporting
<1> QED BY <1>4, <1>5, <1>6, NothingToReport

LEMMA ExecuteResults ==
  ASSUME KernelInv, CallLedger, ResultLedger, NEW f, NEW g, f \in Future, Gated(f),
         CallFits(f), Executed(f, g)
  PROVE  ResultLedger' /\ Reporting(g)'
<1>0. log \in Seq(Entry)
  BY DEF KernelInv, TypeOK
<1>1. PICK rec : Write(rec) /\ rec.kind = "Done" /\ rec.call = f.call /\ rec.ok = g.ok
  BY DEF Executed, Done
<1>2. f.pc = "execute" /\ g.pc = "result" /\ g.call = f.call
  BY DEF Executed, Moved, FieldNames
<1>3. About("Done", f.call) = {}
  BY <1>2, NotYetRun DEF Executed
<1>4. Permitted(f.call)
  BY <1>2 DEF Gated
<1>5. ASSUME NEW r \in About("Result", f.call) PROVE FALSE
  <2>1. r \in All("Result") /\ log[r].call = f.call
    BY DEF About
  <2>2. Rejected(f.call)
    BY <1>3, <2>1 DEF ResultLedger, FailedOrRejected
  <2> QED BY <1>4, <2>2, NotBoth DEF ResultLedger
<1>6. About("Result", f.call) = {}
  BY <1>5
<1>7. ResultLedger'
  BY <1>0, <1>1, <1>6, DoneRecord
<1>8. Here \in About("Done", f.call)' /\ log'[Here] = rec
  <2>1. log'[Here] = rec
    BY <1>0, <1>1, Grown
  <2>2. About("Done", f.call)' = About("Done", f.call) \cup {Here}
    BY <1>0, <1>1, AboutGrows
  <2> QED BY <2>1, <2>2
<1>9. About("Result", f.call)' = {}
  BY <1>0, <1>1, <1>6, AboutGrows
<1> QED BY <1>1, <1>2, <1>7, <1>8, <1>9 DEF Reporting

LEMMA ResultResults ==
  ASSUME KernelInv, CallLedger, ResultLedger, NEW f, NEW g, Reporting(f),
         Reported(f, g) \/ Refused(f, g)
  PROVE  ResultLedger' /\ Reporting(g)'
<1>0. log \in Seq(Entry)
  BY DEF KernelInv, TypeOK
<1>1. g.pc \in {"idle", "step"}
  <2>1. GoesOn(f, g) /\ Idle.pc = "idle"
    BY DEF Reported, Refused, Idle
  <2> QED BY <2>1 DEF GoesOn
<1>2. CASE Reported(f, g)
  <2>1. PICK rec : Write(rec) /\ rec.kind = "Result" /\ rec.call = f.call /\ rec.ok = f.ok
    BY <1>2 DEF Reported, Result
  <2>2. /\ \E i \in About("Done", f.call) : log[i].ok = f.ok
        /\ About("Result", f.call) = {}
    BY <1>2 DEF Reported, Reporting
  <2>3. ResultLedger'
    BY <1>0, <2>1, <2>2, ResultRecord DEF CallLedger
  <2> QED BY <1>1, <2>3, NothingToReport
<1>3. CASE Refused(f, g)
  <2>1. PICK rec : Write(rec) /\ rec.kind = "Result" /\ rec.call = f.call /\ rec.ok = FALSE
    BY <1>3 DEF Refused, Result
  <2>2. Rejected(f.call)
    BY <1>3 DEF Refused, Reporting
  <2>3. About("Done", f.call) = {}
    BY <2>2, RanPermitted, NotBoth DEF ResultLedger
  <2>4. ResultLedger'
    BY <1>0, <2>1, <2>2, <2>3, ResultRecord DEF CallLedger
  <2> QED BY <1>1, <2>4, NothingToReport
<1> QED BY <1>2, <1>3

\* Every step of an advance keeps the results true.
LEMMA ResultStep ==
  ASSUME KernelInv, CallLedger, CallLedger', ResultLedger, NEW f, NEW g, f \in Future,
         Typed(f), Gated(f), CallFits(f), Reporting(f), Move(f, g)
  PROVE  ResultLedger' /\ Reporting(g)'
<1>1. CASE \/ Delivered(f, g) \/ Loaded(f, g) \/ LookedUp(f, g) \/ Continued(f, g)
           \/ Stopped(f, g) \/ Reused(f, g) \/ Dropped(f, g)
  BY <1>1, SilentStepResults
<1>2. CASE \/ Triggered(f, g) \/ \E act \in Acts : DecidedOn(f, g, act)
           \/ Deliberated(f, g) \/ Suspended(f, g) \/ Finished(f, g) \/ Graphed(f, g)
  BY <1>2, OtherStepResults
<1>3. CASE Resolves(f, g) \/ Executed(f, g)
  BY <1>3, ResolveResults, ExecuteResults
<1>4. CASE Reported(f, g) \/ Refused(f, g)
  BY <1>4, ResultResults
<1> QED BY <1>1, <1>2, <1>3, <1>4 DEF Move

ResultInv == ResultLedger /\ \A d \in Drivers : Reporting(run[d])

LEMMA ResultsKept ==
  ASSUME Serial, Serial', KernelInv, CallInv, ResultInv, [Next]_vars
  PROVE  ResultInv'
<1>1. ASSUME NEW e \in Drivers, run'[e] = run[e], Silent
      PROVE  ResultLedger' /\ Reporting(run[e])'
  <2>1. PICK h : h = run[e] /\ h = run'[e] /\ Reporting(h)
    BY <1>1 DEF ResultInv
  <2>2. ResultLedger' /\ Reporting(h)'
    BY <1>1, <2>1, SilentResults DEF ResultInv
  <2> QED BY <2>1, <2>2 DEF Reporting
<1>2. ASSUME NEW e \in Drivers, run'[e] = run[e], run[e].pc = "idle"
      PROVE  Reporting(run[e])'
  BY <1>2 DEF Reporting
<1>3. CASE UNCHANGED vars
  <2>1. Silent /\ run' = run
    BY <1>3 DEF vars, Silent
  <2>2. ResultLedger'
    <3>1. Reporting(Idle)
      BY NothingToReport DEF Idle
    <3> QED BY <2>1, <3>1, SilentResults DEF ResultInv
  <2> QED BY <1>1, <2>1, <2>2 DEF ResultInv
<1>4. CASE Next
  <2>1. PICK d \in Drivers : /\ Move(run[d], run'[d])
                             /\ \A e \in Drivers : e # d => run'[e] = run[e]
    BY <1>4, StepMoves
  <2>2. PICK f, g : f = run[d] /\ g = run'[d] /\ Move(f, g)
    BY <2>1
  <2>3. f \in Future /\ Typed(f) /\ Gated(f)
    BY <2>2, Held
  <2>4. CallLedger'
    BY CallsKept DEF CallInv
  <2>9. ResultLedger' /\ Reporting(g)'
    BY <2>2, <2>3, <2>4, ResultStep DEF CallInv, ResultInv
  <2>10. ASSUME NEW e \in Drivers PROVE Reporting(run[e])'
    <3>1. CASE e = d
      BY <2>2, <2>9, <3>1 DEF Reporting
    <3>2. CASE e # d
      <4>1. run'[e] = run[e] /\ (run[e].pc = "idle" \/ Silent)
        BY <2>1, <3>2, Bystanders
      <4> QED BY <1>1, <1>2, <4>1
    <3> QED BY <3>1, <3>2
  <2> QED BY <2>9, <2>10 DEF ResultInv
<1> QED BY <1>3, <1>4

LEMMA ResultsInvariant == Spec /\ []Serial => [](KernelInv /\ CallInv /\ ResultInv)
<1>1. Init => ResultInv
  <2> SUFFICES ASSUME Init PROVE ResultInv
    OBVIOUS
  <2>1. log = <<>> /\ Len(log) = 0
    BY DEF Init
  <2>2. \A kind : All(kind) = {}
    BY <2>1 DEF All, Records
  <2>3. \A d \in Drivers : run[d].pc = "idle"
    BY DEF Init, Idle
  <2>4. ResultLedger
    BY <2>2 DEF ResultLedger, ResultsTruthful, ResolvedOnce, FailedOrRejected, TokensPending
  <2> QED BY <2>3, <2>4, NothingToReport DEF ResultInv
<1>2. Serial /\ Serial' /\ KernelInv /\ CallInv /\ ResultInv /\ [Next]_vars => ResultInv'
  BY ResultsKept
<1>3. Spec /\ []Serial => [](KernelInv /\ CallInv)
  BY CallsInvariant
<1> QED BY <1>1, <1>2, <1>3, PTL DEF Spec

\* A success in the ledger is the call's checkpoint, a failure of a call that ran as
\* well, and a call that ran has one result, if advances come one at a time.
THEOREM ResultsTrue == Spec /\ []Serial => []ResultsTruthful
<1>1. ResultInv => ResultsTruthful
  BY DEF ResultInv, ResultLedger
<1> QED BY <1>1, ResultsInvariant, PTL

-----------------------------------------------------------------------------
(* The promise to the hosts. *)

\* What a record adds to what the hosts see.
LEMMA PromiseGrows ==
  ASSUME log \in Seq(Entry), TokensPending, NEW rec, Write(rec)
  PROVE  /\ rec.kind # "Pending" => AskedCalls' = AskedCalls
         /\ rec.kind = "Pending" => AskedCalls' = AskedCalls \cup {rec.call}
         /\ rec.kind # "Done" => RanCalls' = RanCalls
         /\ rec.kind = "Done" => RanCalls' = RanCalls \cup {rec.call}
         /\ rec.kind # "Outcome" => AnsweredKeys' = AnsweredKeys
         /\ rec.kind = "Outcome" => AnsweredKeys' = (AnsweredKeys \cup {rec.key}) \ {NoKey}
         /\ \A verdict :
              /\ rec.kind # "Resolution" \/ rec.verdict # verdict =>
                   Answers(verdict)' = Answers(verdict)
              /\ /\ rec.kind = "Resolution" /\ rec.verdict = verdict
                 /\ rec.token \in All("Pending")
                 => Answers(verdict)' = Answers(verdict) \cup {log[rec.token].call}
<1>1. /\ log'[Here] = rec
      /\ \A kind : /\ rec.kind = kind => All(kind)' = All(kind) \cup {Here}
                   /\ rec.kind # kind => All(kind)' = All(kind)
  BY Grown
<1>2. \A kind : \A i \in All(kind) : log'[i] = log[i]
  BY AboutGrows
<1>3. /\ rec.kind # "Pending" => AskedCalls' = AskedCalls
      /\ rec.kind = "Pending" => AskedCalls' = AskedCalls \cup {rec.call}
  <2>1. AskedCalls = {log[i].call : i \in All("Pending")}
    BY DEF AskedCalls
  <2>2. AskedCalls' = {log'[i].call : i \in All("Pending")'}
    BY DEF AskedCalls
  <2>3. CASE rec.kind # "Pending"
    BY <1>1, <1>2, <2>1, <2>2, <2>3
  <2>4. CASE rec.kind = "Pending"
    <3>1. All("Pending")' = All("Pending") \cup {Here}
      BY <1>1, <2>4
    <3> QED BY <1>1, <1>2, <2>1, <2>2, <2>4, <3>1
  <2> QED BY <2>3, <2>4
<1>4. /\ rec.kind # "Done" => RanCalls' = RanCalls
      /\ rec.kind = "Done" => RanCalls' = RanCalls \cup {rec.call}
  <2>1. RanCalls = {log[i].call : i \in All("Done")}
    BY DEF RanCalls
  <2>2. RanCalls' = {log'[i].call : i \in All("Done")'}
    BY DEF RanCalls
  <2>3. CASE rec.kind # "Done"
    BY <1>1, <1>2, <2>1, <2>2, <2>3
  <2>4. CASE rec.kind = "Done"
    <3>1. All("Done")' = All("Done") \cup {Here}
      BY <1>1, <2>4
    <3> QED BY <1>1, <1>2, <2>1, <2>2, <2>4, <3>1
  <2> QED BY <2>3, <2>4
<1>5. /\ rec.kind # "Outcome" => AnsweredKeys' = AnsweredKeys
      /\ rec.kind = "Outcome" => AnsweredKeys' = (AnsweredKeys \cup {rec.key}) \ {NoKey}
  BY <1>1, <1>2, SMTT(30) DEF AnsweredKeys
<1>6. ASSUME NEW verdict, rec.kind # "Resolution" \/ rec.verdict # verdict
      PROVE  Answers(verdict)' = Answers(verdict)
  <2> DEFINE S == {s \in All("Resolution") : log[s].verdict = verdict}
  <2>1. {s \in All("Resolution")' : log'[s].verdict = verdict} = S
    BY <1>1, <1>2, <1>6, SMTT(30)
  <2>2. \A s \in S : log'[s] = log[s] /\ log'[log[s].token] = log[log[s].token]
    BY <1>2 DEF TokensPending
  <2>3. Answers(verdict) = {log[log[s].token].call : s \in S}
    BY DEF Answers
  <2>4. Answers(verdict)' = {log'[log'[s].token].call : s \in S}
    BY <2>1 DEF Answers
  <2> HIDE DEF S
  <2> QED BY <2>2, <2>3, <2>4
<1>7. ASSUME NEW verdict, rec.kind = "Resolution", rec.verdict = verdict,
             rec.token \in All("Pending")
      PROVE  Answers(verdict)' = Answers(verdict) \cup {log[rec.token].call}
  <2> DEFINE S == {s \in All("Resolution") : log[s].verdict = verdict}
  <2>1. {s \in All("Resolution")' : log'[s].verdict = verdict} = S \cup {Here}
    BY <1>1, <1>2, <1>7
  <2>2. /\ \A s \in S : log'[s] = log[s] /\ log'[log[s].token] = log[log[s].token]
        /\ log'[rec.token] = log[rec.token]
    BY <1>2, <1>7 DEF TokensPending
  <2>3. Answers(verdict) = {log[log[s].token].call : s \in S}
    BY DEF Answers
  <2>4. Answers(verdict)' = {log'[log'[s].token].call : s \in S \cup {Here}}
    BY <2>1 DEF Answers
  <2> HIDE DEF S
  <2> QED BY <1>1, <2>2, <2>3, <2>4
<1> QED BY <1>3, <1>4, <1>5, <1>6, <1>7

Seen == <<AskedCalls, Answers("Approved"), Answers("Rejected"), RanCalls, AnsweredKeys>>

LEMMA SilentPromise == Silent => UNCHANGED Seen
BY DEF Silent, Seen, AskedCalls, Answers, RanCalls, AnsweredKeys, All, Records

LEMMA AskStep ==
  ASSUME KernelInv, CallLedger, ResultLedger, NEW f, NEW g, CallFits(f), Suspended(f, g)
  PROVE  Promise!Ask
<1>1. PICK rec : Write(rec) /\ rec.kind = "Pending" /\ rec.call = f.call
  BY DEF Suspended, Pending
<1>2. About("Pending", f.call) = {} /\ About("Done", f.call) = {}
  BY DEF Suspended, CallFits, InHand, JustDecided, Kinds
<1>3. f.call \notin AskedCalls /\ f.call \notin RanCalls
  BY <1>2 DEF About, AskedCalls, RanCalls
<1>4. /\ AskedCalls' = AskedCalls \cup {f.call} /\ RanCalls' = RanCalls
      /\ AnsweredKeys' = AnsweredKeys /\ \A verdict : Answers(verdict)' = Answers(verdict)
  BY <1>1, PromiseGrows DEF KernelInv, TypeOK, ResultLedger
<1> QED BY <1>3, <1>4 DEF Promise!Ask

LEMMA AnswerStep ==
  ASSUME KernelInv, CallLedger, ResultLedger, NEW f, NEW g, f \in Future, Typed(f), Gated(f),
         Reporting(f), Resolves(f, g)
  PROVE  Promise!Approve \/ Promise!Reject
<1>0. log \in Seq(Entry) /\ TokensPending
  BY DEF KernelInv, TypeOK, ResultLedger
<1>1. PICK rec : /\ Write(rec) /\ rec.kind = "Resolution" /\ rec.token = f.token
                 /\ rec.verdict = f.verdict
  BY DEF Resolves, Resolution
<1>2. /\ f.token \in All("Pending") /\ f.verdict \in {"Approved", "Rejected"}
      /\ \A s \in All("Resolution") : log[s].token # f.token
  BY DEF Resolves, Typed, Gated, Future, Verdicts, Reporting, ResolutionsOf, All
<1>3. PICK c : c = log[f.token].call
  OBVIOUS
<1>4. c \in AskedCalls
  BY <1>2, <1>3 DEF AskedCalls
<1>5. ASSUME NEW verdict PROVE c \notin Answers(verdict)
  <2> SUFFICES ASSUME NEW s \in All("Resolution"), log[log[s].token].call = c PROVE FALSE
    BY DEF Answers
  <2>1. log[s].token = f.token
    BY <1>0, <1>2, <1>3 DEF TokensPending, CallLedger, OneAbout
  <2> QED BY <1>2, <2>1
<1>6. /\ AskedCalls' = AskedCalls /\ RanCalls' = RanCalls /\ AnsweredKeys' = AnsweredKeys
      /\ Answers(f.verdict)' = Answers(f.verdict) \cup {c}
      /\ \A verdict : verdict # f.verdict => Answers(verdict)' = Answers(verdict)
  BY <1>0, <1>1, <1>2, <1>3, PromiseGrows
<1>7. CASE f.verdict = "Approved"
  BY <1>4, <1>5, <1>6, <1>7 DEF Promise!Approve, Promise!Waiting
<1>8. CASE f.verdict = "Rejected"
  BY <1>4, <1>5, <1>6, <1>8 DEF Promise!Reject, Promise!Waiting
<1> QED BY <1>2, <1>7, <1>8

LEMMA RunStep ==
  ASSUME KernelInv, CallLedger, ResultLedger, NEW f, NEW g, f \in Future, Gated(f),
         CallFits(f), Executed(f, g)
  PROVE  Promise!Run
<1>0. log \in Seq(Entry) /\ TokensPending
  BY DEF KernelInv, TypeOK, ResultLedger
<1>1. PICK rec : Write(rec) /\ rec.kind = "Done" /\ rec.call = f.call
  BY DEF Executed, Done
<1>2. About("Done", f.call) = {} /\ Permitted(f.call)
  BY NotYetRun DEF Executed, Gated
<1>3. f.call \notin RanCalls
  BY <1>2 DEF About, RanCalls
<1>4. f.call \in AskedCalls => f.call \in Answers("Approved")
  <2> SUFFICES ASSUME NEW p \in All("Pending"), log[p].call = f.call
               PROVE  f.call \in Answers("Approved")
    BY DEF AskedCalls
  <2>1. log[f.call].act = "Ask"
    BY DEF CallLedger, PendingAsked
  <2>2. PICK q \in All("Pending"), r \in All("Resolution") :
          log[q].call = f.call /\ log[r].token = q /\ log[r].verdict = "Approved"
    BY <1>2, <2>1 DEF Permitted
  <2> QED BY <2>2 DEF Answers
<1>5. /\ AskedCalls' = AskedCalls /\ RanCalls' = RanCalls \cup {f.call}
      /\ AnsweredKeys' = AnsweredKeys /\ \A verdict : Answers(verdict)' = Answers(verdict)
  BY <1>0, <1>1, PromiseGrows
<1> QED BY <1>3, <1>4, <1>5 DEF Promise!Run

LEMMA OutcomePromise ==
  ASSUME KernelInv, ResultLedger, NEW f, NEW g, f \in Future, Addressed(f), Finished(f, g)
  PROVE  Promise!Answer \/ UNCHANGED Seen
<1>0. log \in Seq(Entry) /\ TokensPending
  BY DEF KernelInv, TypeOK, ResultLedger
<1>1. PICK rec : Write(rec) /\ rec.kind = "Outcome" /\ rec.key = f.key
  BY DEF Finished, Outcome
<1>2. /\ AskedCalls' = AskedCalls /\ RanCalls' = RanCalls
      /\ AnsweredKeys' = (AnsweredKeys \cup {f.key}) \ {NoKey}
      /\ \A verdict : Answers(verdict)' = Answers(verdict)
  BY <1>0, <1>1, PromiseGrows
<1>3. CASE f.key = NoKey
  <2>1. NoKey \notin AnsweredKeys
    BY DEF AnsweredKeys
  <2>2. AnsweredKeys' = AnsweredKeys
    BY <1>2, <1>3, <2>1
  <2> QED BY <1>2, <2>2 DEF Seen
<1>4. CASE f.key # NoKey
  <2>1. ~Answered(f.key)
    BY <1>4 DEF Finished, Addressed
  <2>2. f.key \in Keys \ AnsweredKeys
    BY <1>4, <2>1 DEF Future, AnsweredKeys, Answered, All
  <2>3. AnsweredKeys' = AnsweredKeys \cup {f.key}
    BY <1>2, <1>4 DEF AnsweredKeys
  <2> QED BY <1>2, <2>2, <2>3 DEF Promise!Answer
<1> QED BY <1>3, <1>4

\* Every step of an advance is a step of the promise, or invisible to the hosts.
LEMMA PromiseStep ==
  ASSUME KernelInv, CallLedger, ResultLedger, NEW f, NEW g, f \in Future, Typed(f), Gated(f),
         Addressed(f), CallFits(f), Reporting(f), Move(f, g)
  PROVE  Promise!Next \/ UNCHANGED Seen
<1>0. log \in Seq(Entry) /\ TokensPending
  BY DEF KernelInv, TypeOK, ResultLedger
<1>1. CASE Suspended(f, g) \/ Resolves(f, g)
  BY <1>1, AskStep, AnswerStep DEF Promise!Next
<1>2. CASE Executed(f, g) \/ Finished(f, g)
  BY <1>2, RunStep, OutcomePromise DEF Promise!Next
<1>3. CASE \/ Delivered(f, g) \/ Loaded(f, g) \/ LookedUp(f, g) \/ Continued(f, g)
           \/ Stopped(f, g) \/ Reused(f, g) \/ Dropped(f, g)
  <2>1. Silent
    BY <1>3 DEF Delivered, Loaded, LookedUp, Continued, Stopped, Reused, Dropped
  <2> QED BY <2>1, SilentPromise
<1>4. ASSUME NEW rec, Write(rec),
             rec.kind \in {"Trigger", "Decision", "Deliberation", "Graph", "Result"}
      PROVE  UNCHANGED Seen
  <2>1. /\ AskedCalls' = AskedCalls /\ RanCalls' = RanCalls /\ AnsweredKeys' = AnsweredKeys
        /\ \A verdict : Answers(verdict)' = Answers(verdict)
    BY <1>0, <1>4, PromiseGrows
  <2> QED BY <2>1 DEF Seen
<1>5. CASE Triggered(f, g) \/ Deliberated(f, g)
  BY <1>4, <1>5 DEF Triggered, Deliberated, Trigger, Deliberation
<1>6. CASE \E act \in Acts : DecidedOn(f, g, act)
  <2>1. PICK act : Write(Decision(f.trig, f.step, act))
    BY <1>6 DEF DecidedOn
  <2> QED BY <1>4, <2>1 DEF Decision
<1>7. CASE Graphed(f, g)
  BY <1>4, <1>7, SilentPromise DEF Graphed, Graph
<1>8. CASE Reported(f, g) \/ Refused(f, g)
  BY <1>4, <1>8 DEF Reported, Refused, Result
<1> QED BY <1>1, <1>2, <1>3, <1>5, <1>6, <1>7, <1>8 DEF Move

LEMMA InitPromise == Init => Promise!Init
<1> SUFFICES ASSUME Init PROVE Promise!Init
  OBVIOUS
<1>1. log = <<>> /\ Len(log) = 0
  BY DEF Init
<1>2. \A kind : All(kind) = {}
  BY <1>1 DEF All, Records
<1> QED BY <1>2 DEF Promise!Init, AskedCalls, Answers, RanCalls, AnsweredKeys

LEMMA PromiseKept ==
  ASSUME KernelInv, OutcomeInv, CallInv, ResultInv, [Next]_vars
  PROVE  Promise!Next \/ UNCHANGED Seen
<1>1. CASE UNCHANGED vars
  BY <1>1, SilentPromise DEF vars, Silent
<1>2. CASE Next
  <2>0. PICK d \in Drivers : Move(run[d], run'[d])
    BY <1>2, StepMoves
  <2>1. PICK f, g : f = run[d] /\ g = run'[d] /\ Move(f, g)
    BY <2>0
  <2>2. f \in Future /\ Typed(f) /\ Gated(f)
    BY <2>1, Held
  <2>3. Addressed(f) /\ CallFits(f) /\ Reporting(f)
    BY <2>1 DEF OutcomeInv, CallInv, ResultInv
  <2> QED BY <2>1, <2>2, <2>3, PromiseStep DEF CallInv, ResultInv
<1> QED BY <1>1, <1>2

\* What the ledger appends means to the hosts is what Session promises them: calls
\* are asked about before they run, answered once, run once and only if approved,
\* and keys are answered once, if advances come one at a time.
THEOREM SessionRefined == Spec /\ []Serial => KeepsPromise
<1>1. KernelInv /\ OutcomeInv /\ CallInv /\ ResultInv /\ [Next]_vars
        => [Promise!Next]_Seen
  BY PromiseKept
<1>2. Spec /\ []Serial =>
        [](KernelInv /\ OutcomeInv) /\ [](KernelInv /\ CallInv /\ ResultInv)
  BY OutcomesInvariant, ResultsInvariant
<1>3. Spec /\ []Serial => Promise!Init /\ [][Promise!Next]_Seen
  BY <1>1, <1>2, InitPromise, PTL DEF Spec
<1> QED BY <1>3 DEF KeepsPromise, Promise!Spec, Seen

-----------------------------------------------------------------------------
(* The budget of steps. *)

NumberOf(kind) == Cardinality(Segment(Len(log), kind))

LEMMA NumberFacts ==
  ASSUME log \in Seq(Entry), NEW kind
  PROVE  /\ IsFiniteSet(Segment(Len(log), kind)) /\ NumberOf(kind) \in Nat
         /\ Segment(Len(log), kind) # {} => NumberOf(kind) >= 1
<1>1. Segment(Len(log), kind) \in SUBSET (1 .. Len(log)) /\ Len(log) \in Nat
  BY DEF Segment, Records
<1>2. IsFiniteSet(1 .. Len(log))
  BY <1>1, FS_Interval
<1>3. IsFiniteSet(Segment(Len(log), kind))
  BY <1>1, <1>2, FS_Subset
<1>4. NumberOf(kind) \in Nat
  BY <1>3, FS_CardinalityType DEF NumberOf
<1>5. Segment(Len(log), kind) # {} => NumberOf(kind) # 0
  BY <1>3, FS_EmptySet DEF NumberOf
<1> QED BY <1>3, <1>4, <1>5

\* An outcome starts the counts anew, and another record is counted once.
LEMMA NumberGrows ==
  ASSUME log \in Seq(Entry), NEW rec, Write(rec), NEW kind
  PROVE  /\ rec.kind = "Outcome" => NumberOf(kind)' = 0
         /\ rec.kind # "Outcome" /\ rec.kind # kind => NumberOf(kind)' = NumberOf(kind)
         /\ rec.kind # "Outcome" /\ rec.kind = kind => NumberOf(kind)' = NumberOf(kind) + 1
<1> DEFINE S == Segment(Len(log), kind)
<1>1. /\ rec.kind = "Outcome" => S' = {}
      /\ rec.kind # "Outcome" /\ rec.kind # kind => S' = S
      /\ rec.kind # "Outcome" /\ rec.kind = kind => S' = S \cup {Here}
  BY SegmentGrows
<1>2. IsFiniteSet(S) /\ Cardinality(S) \in Nat
  BY NumberFacts, FS_CardinalityType
<1>3. Here \notin S
  <2>1. Len(log) \in Nat /\ Here = Len(log) + 1
    BY Grown
  <2> QED BY <2>1 DEF Segment, Records
<1>4. NumberOf(kind) = Cardinality(S) /\ NumberOf(kind)' = Cardinality(S')
  BY DEF NumberOf
<1> HIDE DEF S
<1>5. Cardinality(S \cup {Here}) = Cardinality(S) + 1
  BY <1>2, <1>3, FS_AddElement
<1>6. Cardinality({}) = 0
  BY FS_EmptySet
<1> QED BY <1>1, <1>4, <1>5, <1>6

\* The steps of the counter are at least the decisions.
LEMMA DecisionsCounted ==
  ASSUME log \in Seq(Entry)
  PROVE  StepCount(Len(log)) \in Nat /\ NumberOf("Decision") <= StepCount(Len(log))
<1> DEFINE n == Len(log)
<1>1. /\ IsFiniteSet(Segment(n, "Decision")) /\ IsFiniteSet(Segment(n, "Deliberation"))
  BY NumberFacts
<1>2. IsFiniteSet(Steps(n))
  BY <1>1, FS_Union DEF Steps
<1>3. Segment(n, "Decision") \in SUBSET Steps(n)
  BY DEF Steps
<1> QED BY <1>2, <1>3, FS_Subset, FS_CardinalityType DEF NumberOf, StepCount

\* An advance that may still take a decision.
Undecided(f) == \/ f.pc \in {"load", "lookup", "resolve", "reject", "step"}
                \/ f.pc \in {"graph", "execute", "result"} /\ f.origin # "decision"

\* There is room for it, or it is made at a step that counts the earlier ones.
Room == \/ NumberOf("Decision") = 0
        \/ NumberOf("Decision") <= MaxSteps + NumberOf("Trigger") - 2
Budgeted(f) ==
  /\ f.pc = "idle" => f.token = 0
  /\ Undecided(f) => Room \/ (f.token = 0 /\ NumberOf("Decision") <= f.step)

LEMMA StepBudgetFacts ==
  StepBudget <=> (NumberOf("Decision") # 0 =>
                    NumberOf("Decision") <= MaxSteps + NumberOf("Trigger") - 1)
BY DEF StepBudget, NumberOf

\* A step that counts nothing.
LEMMA UncountedStep ==
  ASSUME KernelInv, StepBudget, NEW f, NEW g, Budgeted(f),
         Silent \/ \E rec : /\ Write(rec)
                            /\ rec.kind \notin {"Trigger", "Decision", "Outcome"},
         g.pc = "idle" => g.token = 0,
         Undecided(g) => Undecided(f) /\ g.token = f.token,
         Undecided(g) /\ g.token = 0 => g.step = f.step
  PROVE  StepBudget' /\ Budgeted(g)'
<1>1. NumberOf("Decision")' = NumberOf("Decision") /\ NumberOf("Trigger")' = NumberOf("Trigger")
  <2>1. CASE Silent
    BY <2>1 DEF Silent, NumberOf, Segment, Records, LastOutcome
  <2>2. CASE \E rec : Write(rec) /\ rec.kind \notin {"Trigger", "Decision", "Outcome"}
    BY <2>2, NumberGrows DEF KernelInv, TypeOK
  <2> QED BY <2>1, <2>2
<1>2. StepBudget'
  BY <1>1, StepBudgetFacts DEF StepBudget, NumberOf
<1>3. Budgeted(g)'
  BY <1>1 DEF Budgeted, Undecided, Room
<1> QED BY <1>2, <1>3

LEMMA TriggerBudget ==
  ASSUME KernelInv, StepBudget, NEW f, NEW g, Triggered(f, g)
  PROVE  StepBudget' /\ Budgeted(g)'
<1>1. PICK rec : Write(rec) /\ rec.kind = "Trigger"
  BY DEF Triggered, Trigger
<1>2. /\ NumberOf("Decision")' = NumberOf("Decision")
      /\ NumberOf("Trigger")' = NumberOf("Trigger") + 1
      /\ NumberOf("Decision") \in Nat /\ NumberOf("Trigger") \in Nat /\ MaxSteps \in Nat
  BY <1>1, NumberGrows, NumberFacts, KernelAssumption DEF KernelInv, TypeOK
<1>3. NumberOf("Decision") # 0 => NumberOf("Decision") <= MaxSteps + NumberOf("Trigger") - 1
  BY StepBudgetFacts
<1>4. StepBudget'
  BY <1>2, <1>3 DEF StepBudget, NumberOf
<1>5. Room'
  BY <1>2, <1>3 DEF Room
<1>6. g.pc = "load"
  BY DEF Triggered
<1> QED BY <1>4, <1>5, <1>6 DEF Budgeted

LEMMA FinishBudget ==
  ASSUME KernelInv, NEW f, NEW g, Finished(f, g)
  PROVE  StepBudget' /\ Budgeted(g)'
<1>1. PICK rec : Write(rec) /\ rec.kind = "Outcome"
  BY DEF Finished, Outcome
<1>2. NumberOf("Decision")' = 0
  BY <1>1, NumberGrows DEF KernelInv, TypeOK
<1>3. g.pc = "idle" /\ g.token = 0
  BY DEF Finished, Idle
<1> QED BY <1>2, <1>3 DEF StepBudget, NumberOf, Budgeted, Undecided

LEMMA DecisionBudget ==
  ASSUME KernelInv, NEW f, NEW g, f \in Future, NEW act, Addressed(f), Budgeted(f),
         DecidedOn(f, g, act)
  PROVE  StepBudget' /\ Budgeted(g)'
<1>1. PICK rec : Write(rec) /\ rec.kind = "Decision"
  BY DEF DecidedOn, Decision
<1>2. /\ NumberOf("Decision")' = NumberOf("Decision") + 1
      /\ NumberOf("Trigger")' = NumberOf("Trigger")
      /\ NumberOf("Decision") \in Nat /\ NumberOf("Trigger") \in Nat /\ MaxSteps \in Nat
      /\ f.step \in Nat
  BY <1>1, NumberGrows, NumberFacts, KernelAssumption DEF KernelInv, TypeOK, Future
<1>3. f.pc = "step" /\ f.step < MaxSteps
  BY DEF DecidedOn
<1>4. Segment(Len(log), "Trigger") # {}
  BY <1>3 DEF Addressed
<1>5. NumberOf("Trigger") >= 1
  BY <1>4, NumberFacts DEF KernelInv, TypeOK
<1>6. Room \/ NumberOf("Decision") <= f.step
  BY <1>3 DEF Budgeted, Undecided
<1>7. NumberOf("Decision") + 1 <= MaxSteps + NumberOf("Trigger") - 1
  BY <1>2, <1>3, <1>5, <1>6 DEF Room
<1>8. StepBudget'
  BY <1>2, <1>7 DEF StepBudget, NumberOf
<1>9. CASE g = Idle
  BY <1>8, <1>9 DEF Idle, Budgeted, Undecided
<1>10. CASE g.pc \in {"finish", "deliberate", "graph", "suspend"} /\ g.origin = "decision"
  BY <1>8, <1>10 DEF Budgeted, Undecided
<1> QED BY <1>9, <1>10 DEF DecidedOn

LEMMA SettledBudget ==
  ASSUME KernelInv, StepBudget, NEW f, NEW g, f \in Future, CallFits(f), Budgeted(f),
         Reused(f, g) \/ Reported(f, g) \/ Refused(f, g)
  PROVE  StepBudget' /\ Budgeted(g)'
<1>1. /\ GoesOn(f, g) /\ f.pc \in {"execute", "result", "reject"}
      /\ Silent \/ \E rec : Write(rec) /\ rec.kind \notin {"Trigger", "Decision", "Outcome"}
  BY DEF Reused, Reported, Refused, Result
<1>2. CASE g = Idle
  BY <1>1, <1>2, UncountedStep DEF Idle, Undecided
<1>3. CASE f.origin = "continue" /\ g.pc = "step" /\ Moved(f, g, {"pc"})
  <2>1. g.token = f.token /\ g.step = f.step
    BY <1>3 DEF Moved, FieldNames
  <2> QED BY <1>1, <1>3, <2>1, UncountedStep DEF Undecided
<1>4. CASE f.origin = "approval" /\ g.pc = "step" /\ Moved(f, g, {"pc", "step", "fails"})
  <2>1. g.token = f.token /\ f.token # 0
    BY <1>1, <1>4 DEF Moved, FieldNames, CallFits, UpToDate
  <2> QED BY <1>1, <1>4, <2>1, UncountedStep DEF Undecided
<1> QED BY <1>1, <1>2, <1>3, <1>4 DEF GoesOn

LEMMA SilentBudget ==
  ASSUME KernelInv, StepBudget, NEW f, NEW g, f \in Future, Gated(f), Budgeted(f),
         \/ Delivered(f, g) \/ Loaded(f, g) \/ LookedUp(f, g) \/ Continued(f, g)
         \/ Stopped(f, g) \/ Dropped(f, g)
  PROVE  StepBudget' /\ Budgeted(g)'
<1>0. Silent
  BY DEF Delivered, Loaded, LookedUp, Continued, Stopped, Dropped
<1>1. CASE Delivered(f, g)
  <2>1. CASE g = f
    BY <1>0, <1>1, <2>1, UncountedStep DEF Delivered, Budgeted, Undecided
  <2>2. CASE g.pc = "accept"
    BY <1>0, <2>2, UncountedStep DEF Undecided
  <2> QED BY <1>1, <2>1, <2>2 DEF Delivered
<1>2. CASE Stopped(f, g) \/ Dropped(f, g)
  <2>1. \/ g.pc = "finish"
        \/ g.pc = "idle" /\ g.token = 0
    BY <1>2 DEF Stopped, Dropped, Idle
  <2> QED BY <1>0, <2>1, UncountedStep DEF Undecided
<1>3. CASE LookedUp(f, g)
  <2>1. f.pc = "lookup" /\ f.token # 0
    BY <1>3 DEF LookedUp, Gated
  <2>2. g.token = f.token /\ g.pc \in {"resolve", "graph", "reject", "finish"}
    BY <1>3 DEF LookedUp, HandedBack, Moved, FieldNames
  <2> QED BY <1>0, <2>1, <2>2, UncountedStep DEF Undecided
<1>4. CASE Loaded(f, g) \/ Continued(f, g)
  <2>1. /\ NumberOf("Decision") <= StepCount(Len(log))
        /\ StepBudget' /\ NumberOf("Decision")' = NumberOf("Decision")
        /\ NumberOf("Trigger")' = NumberOf("Trigger")
    BY <1>0, DecisionsCounted
       DEF Silent, KernelInv, TypeOK, StepBudget, NumberOf, Segment, Records, LastOutcome
  <2>2. g.step = StepCount(Len(log)) /\ g.pc # "idle" /\ g.token = f.token
    BY <1>4 DEF Loaded, Continued, Moved, FieldNames
  <2>3. f.token = 0 \/ Room
    BY <1>4 DEF Loaded, Continued, Budgeted, Undecided
  <2> QED BY <2>1, <2>2, <2>3 DEF Budgeted, Room
<1> QED BY <1>1, <1>2, <1>3, <1>4

\* Every step of an advance keeps to the budget.
LEMMA BudgetStep ==
  ASSUME KernelInv, StepBudget, NEW f, NEW g, f \in Future, Gated(f), Addressed(f),
         CallFits(f), Budgeted(f), Move(f, g)
  PROVE  StepBudget' /\ Budgeted(g)'
<1>1. CASE \/ Delivered(f, g) \/ Loaded(f, g) \/ LookedUp(f, g) \/ Continued(f, g)
           \/ Stopped(f, g) \/ Dropped(f, g)
  BY <1>1, SilentBudget
<1>2. CASE Triggered(f, g) \/ Finished(f, g) \/ \E act \in Acts : DecidedOn(f, g, act)
  BY <1>2, TriggerBudget, FinishBudget, DecisionBudget
<1>3. CASE Reused(f, g) \/ Reported(f, g) \/ Refused(f, g)
  BY <1>3, SettledBudget
<1>4. CASE Resolves(f, g)
  <2>1. \E rec : Write(rec) /\ rec.kind \notin {"Trigger", "Decision", "Outcome"}
    BY <1>4 DEF Resolves, Resolution
  <2>2. f.pc = "resolve" /\ g.token = f.token /\ g.step = f.step /\ g.pc \in {"graph", "reject"}
    BY <1>4 DEF Resolves, HandedBack, Moved, FieldNames
  <2> QED BY <2>1, <2>2, UncountedStep DEF Undecided
<1>5. CASE Deliberated(f, g) \/ Suspended(f, g)
  <2>1. \E rec : Write(rec) /\ rec.kind \notin {"Trigger", "Decision", "Outcome"}
    BY <1>5 DEF Deliberated, Suspended, Deliberation, Pending
  <2>2. \/ g.pc = "finish"
        \/ g.pc = "idle" /\ g.token = 0
    BY <1>5 DEF Deliberated, Suspended, Idle
  <2> QED BY <2>1, <2>2, UncountedStep DEF Undecided
<1>6. CASE Graphed(f, g) \/ Executed(f, g)
  <2>1. Silent \/ \E rec : Write(rec) /\ rec.kind \notin {"Trigger", "Decision", "Outcome"}
    BY <1>6 DEF Graphed, Executed, Graph, Done
  <2>2. /\ f.pc \in {"graph", "execute"} /\ g.pc \in {"execute", "result"}
        /\ g.token = f.token /\ g.step = f.step /\ g.origin = f.origin
    BY <1>6 DEF Graphed, Executed, Moved, FieldNames
  <2> QED BY <2>1, <2>2, UncountedStep DEF Undecided
<1> QED BY <1>1, <1>2, <1>3, <1>4, <1>5, <1>6 DEF Move

BudgetInv == StepBudget /\ \A d \in Drivers : Budgeted(run[d])

LEMMA BudgetKept ==
  ASSUME Serial, Serial', KernelInv, OutcomeInv, CallInv, BudgetInv, [Next]_vars
  PROVE  BudgetInv'
<1>1. ASSUME NEW e \in Drivers, run'[e] = run[e], Silent
      PROVE  StepBudget' /\ Budgeted(run[e])'
  <2>1. PICK h : h = run[e] /\ h = run'[e] /\ Budgeted(h)
    BY <1>1 DEF BudgetInv
  <2>2. StepBudget' /\ Budgeted(h)'
    BY <1>1, <2>1, UncountedStep DEF BudgetInv, Budgeted
  <2> QED BY <2>1, <2>2 DEF Budgeted, Undecided
<1>2. ASSUME NEW e \in Drivers, run'[e] = run[e], run[e].pc = "idle"
      PROVE  Budgeted(run[e])'
  BY <1>2 DEF BudgetInv, Budgeted, Undecided
<1>3. CASE UNCHANGED vars
  <2>1. Silent /\ run' = run
    BY <1>3 DEF vars, Silent
  <2>2. StepBudget'
    BY <2>1 DEF Silent, BudgetInv, StepBudget, Segment, Records, LastOutcome
  <2> QED BY <1>1, <2>1, <2>2 DEF BudgetInv
<1>4. CASE Next
  <2>1. PICK d \in Drivers : /\ Move(run[d], run'[d])
                             /\ \A e \in Drivers : e # d => run'[e] = run[e]
    BY <1>4, StepMoves
  <2>2. PICK f, g : f = run[d] /\ g = run'[d] /\ Move(f, g)
    BY <2>1
  <2>3. f \in Future /\ Gated(f) /\ Addressed(f) /\ CallFits(f) /\ Budgeted(f)
    BY <2>2, Held DEF OutcomeInv, CallInv, BudgetInv
  <2>9. StepBudget' /\ Budgeted(g)'
    BY <2>2, <2>3, BudgetStep DEF BudgetInv
  <2>10. ASSUME NEW e \in Drivers PROVE Budgeted(run[e])'
    <3>1. CASE e = d
      BY <2>2, <2>9, <3>1 DEF Budgeted, Undecided
    <3>2. CASE e # d
      <4>1. run'[e] = run[e] /\ (run[e].pc = "idle" \/ Silent)
        BY <2>1, <3>2, Bystanders
      <4> QED BY <1>1, <1>2, <4>1
    <3> QED BY <3>1, <3>2
  <2> QED BY <2>9, <2>10 DEF BudgetInv
<1> QED BY <1>3, <1>4

\* Between two outcomes the provider is asked max_steps times and once more for each
\* further trigger, if advances come one at a time.
THEOREM StepsBudgeted == Spec /\ []Serial => []StepBudget
<1>1. Init => BudgetInv
  <2> SUFFICES ASSUME Init PROVE BudgetInv
    OBVIOUS
  <2>1. log = <<>> /\ Len(log) = 0
    BY DEF Init
  <2>2. Segment(Len(log), "Decision") = {}
    BY <2>1 DEF Records, Segment
  <2>3. \A d \in Drivers : run[d].pc = "idle" /\ run[d].token = 0
    BY DEF Init, Idle
  <2> QED BY <2>2, <2>3, FS_EmptySet DEF BudgetInv, StepBudget, Budgeted, Undecided
<1>2. Serial /\ Serial' /\ KernelInv /\ OutcomeInv /\ CallInv /\ BudgetInv /\ [Next]_vars
        => BudgetInv'
  BY BudgetKept
<1>3. BudgetInv => StepBudget
  BY DEF BudgetInv
<1>4. Spec /\ []Serial => [](KernelInv /\ OutcomeInv) /\ [](KernelInv /\ CallInv)
  BY OutcomesInvariant, CallsInvariant
<1> QED BY <1>1, <1>2, <1>3, <1>4, PTL DEF Spec

-----------------------------------------------------------------------------
(* The budget of failing steps. *)

Decisions == Segment(Len(log), "Decision")
StepRecords == Steps(Len(log))

\* The results in the window of decision i lie behind the step that closed the
\* decision before it, and before the one that closes i.
Before(i) == {e \in Decisions : e < i}
Behind(r, i) == Before(i) = {} \/ \E j \in StepRecords : j < r /\ \A e \in Before(i) : e < j
Between(i) ==
  {r \in Segment(Len(log), "Result") : (\A j \in StepRecords : j > i => r < j) /\ Behind(r, i)}

LEMMA SegmentFacts ==
  ASSUME log \in Seq(Entry)
  PROVE  /\ Len(log) \in Nat
         /\ \A kind : /\ Segment(Len(log), kind) \subseteq 1 .. Len(log)
                      /\ \A i \in Segment(Len(log), kind) :
                           log[i].kind = kind /\ i > LastOutcome(Len(log))
         /\ StepRecords \subseteq 1 .. Len(log) /\ Decisions \subseteq StepRecords
BY DEF Segment, Records, StepRecords, Decisions, Steps

LEMMA ClosingFacts ==
  ASSUME log \in Seq(Entry), NEW k \in Nat
  PROVE  /\ Closing(k, Len(log)) \in Nat /\ Closing(k, Len(log)) <= Len(log) + 1
         /\ Closing(k, Len(log)) = Len(log) + 1
              \/ (Closing(k, Len(log)) \in StepRecords /\ Closing(k, Len(log)) > k)
         /\ \A j \in StepRecords : j > k => Closing(k, Len(log)) <= j
<1> DEFINE S == {Len(log) + 1} \cup {j \in StepRecords : j > k}
<1>1. S \in SUBSET Nat /\ S # {}
  BY SegmentFacts
<1>2. Min(S) \in S /\ \A y \in S : Min(S) <= y
  BY <1>1, LeastExists DEF Min
<1>3. Closing(k, Len(log)) = Min(S)
  BY DEF Closing, StepRecords
<1> QED BY <1>1, <1>2, <1>3

LEMMA WindowMeaning ==
  ASSUME log \in Seq(Entry), NEW i \in Decisions
  PROVE  Window(i, Len(log)) = Between(i)
<1> DEFINE n == Len(log)
<1>1. /\ n \in Nat /\ i \in 1 .. n
      /\ StepRecords \subseteq 1 .. n /\ Decisions \subseteq StepRecords
      /\ Segment(n, "Result") \subseteq 1 .. n
      /\ \A r \in Segment(n, "Result") : r > LastOutcome(n)
  BY SegmentFacts
<1>2. ASSUME NEW r \in Segment(n, "Result")
      PROVE  r < Closing(i, n) <=> \A j \in StepRecords : j > i => r < j
  <2>1. /\ Closing(i, n) \in Nat /\ Closing(i, n) <= n + 1
        /\ Closing(i, n) = n + 1 \/ (Closing(i, n) \in StepRecords /\ Closing(i, n) > i)
        /\ \A j \in StepRecords : j > i => Closing(i, n) <= j
    BY <1>1, ClosingFacts
  <2> QED BY <1>1, <2>1
<1>3. ASSUME NEW r \in Segment(n, "Result")
      PROVE  Opening(i, n) < r <=> Behind(r, i)
  <2>1. CASE Before(i) = {}
    <3>1. Opening(i, n) = LastOutcome(n)
      BY <2>1 DEF Opening, Before, Decisions
    <3> QED BY <1>1, <2>1, <3>1 DEF Behind
  <2>2. CASE Before(i) # {}
    <3>1. PICK m : m = Max(Before(i))
      OBVIOUS
    <3>2. Before(i) \in SUBSET (0 .. n)
      <4>1. \A e \in Before(i) : e \in 1 .. n
        BY <1>1 DEF Before
      <4> QED BY <1>1, <4>1
    <3>3. m \in Before(i) /\ \A e \in Before(i) : e <= m
      BY <1>1, <2>2, <3>1, <3>2, MaxIn
    <3>4. Opening(i, n) = Closing(m, n)
      BY <2>2, <3>1 DEF Opening, Before, Decisions
    <3>5. m \in Nat
      BY <3>2, <3>3
    <3>6. /\ Closing(m, n) \in Nat
          /\ Closing(m, n) = n + 1 \/ (Closing(m, n) \in StepRecords /\ Closing(m, n) > m)
          /\ \A j \in StepRecords : j > m => Closing(m, n) <= j
      BY <3>5, ClosingFacts
    <3>7. ASSUME Closing(m, n) < r PROVE Behind(r, i)
      <4>1. Closing(m, n) \in StepRecords /\ Closing(m, n) > m
        BY <1>1, <3>6, <3>7
      <4>2. \A e \in Before(i) : e < Closing(m, n)
        BY <3>2, <3>3, <3>5, <3>6, <4>1
      <4> QED BY <3>7, <4>1, <4>2 DEF Behind
    <3>8. ASSUME Behind(r, i) PROVE Closing(m, n) < r
      <4>1. PICK j \in StepRecords : j < r /\ \A e \in Before(i) : e < j
        BY <2>2, <3>8 DEF Behind
      <4>2. j > m
        BY <1>1, <3>3, <3>5, <4>1
      <4> QED BY <1>1, <3>6, <4>1, <4>2
    <3> QED BY <3>4, <3>7, <3>8
  <2> QED BY <2>1, <2>2
<1> QED BY <1>2, <1>3 DEF Window, Between

LedgerTyped == log \in Seq(Entry)
WindowsMeant == \A i \in Decisions : Window(i, Len(log)) = Between(i)

LEMMA WindowsNow == LedgerTyped => WindowsMeant
BY WindowMeaning DEF LedgerTyped, WindowsMeant

LEMMA WindowsThen == LedgerTyped' => WindowsMeant'
BY WindowsNow, PTL

\* The window of a decision takes in a result as long as no step closes it.
LEMMA WindowGrows ==
  ASSUME log \in Seq(Entry), log' \in Seq(Entry), NEW rec, Write(rec), rec.kind # "Outcome",
         NEW i \in Decisions
  PROVE  /\ i \in Decisions' /\ log'[i] = log[i] /\ i < Here
         /\ Window(i, Len(log)) \subseteq 1 .. Len(log)
         /\ rec.kind # "Result" \/ (\E j \in StepRecords : j > i) =>
              Window(i, Len(log))' = Window(i, Len(log))
         /\ rec.kind = "Result" /\ (\A j \in StepRecords : j <= i) =>
              Window(i, Len(log))' = Window(i, Len(log)) \cup {Here}
<1> DEFINE R == Segment(Len(log), "Result")
           L == Segment(Len(log), "Deliberation")
<1>1. /\ Len(log) \in Nat /\ Here = Len(log) + 1 /\ log'[Here] = rec
      /\ \A k \in 1 .. Len(log) : log'[k] = log[k]
  BY Grown
<1>2. /\ StepRecords \subseteq 1 .. Len(log) /\ Decisions \subseteq StepRecords
      /\ R \subseteq 1 .. Len(log) /\ \A r \in R : r \notin StepRecords
  BY SegmentFacts DEF StepRecords, Steps
<1>3. /\ rec.kind = "Decision" => Decisions' = Decisions \cup {Here}
      /\ rec.kind # "Decision" => Decisions' = Decisions
      /\ rec.kind = "Result" => R' = R \cup {Here}
      /\ rec.kind # "Result" => R' = R
      /\ rec.kind = "Deliberation" => L' = L \cup {Here}
      /\ rec.kind # "Deliberation" => L' = L
  BY SegmentGrows DEF Decisions
<1>4. StepRecords = Decisions \cup L /\ StepRecords' = Decisions' \cup L'
  BY DEF StepRecords, Steps, Decisions
<1>5. /\ StepRecords \subseteq StepRecords' /\ StepRecords' \subseteq StepRecords \cup {Here}
      /\ rec.kind = "Result" => StepRecords' = StepRecords
  BY <1>3, <1>4
<1>6. i \in Decisions' /\ i \in 1 .. Len(log) /\ log'[i] = log[i] /\ i < Here
  BY <1>1, <1>2, <1>3
<1>7. Before(i)' = Before(i)
  <2>1. Decisions' = Decisions \/ Decisions' = Decisions \cup {Here}
    BY <1>3
  <2> QED BY <1>6, <2>1, <1>1 DEF Before
<1>8. Window(i, Len(log)) = Between(i) /\ Window(i, Len(log))' = Between(i)'
  BY <1>6, WindowMeaning, WindowsThen DEF LedgerTyped, WindowsMeant
<1>9. ASSUME NEW r \in R
      PROVE  r \in Between(i)' <=> r \in Between(i)
  <2>1. r \in R' /\ r < Here /\ r # Here
    BY <1>1, <1>2, <1>3
  <2>2. Behind(r, i)' <=> Behind(r, i)
    <3>1. \A j \in StepRecords' : j < r => j \in StepRecords
      <4>1. r \in 1 .. Len(log) /\ StepRecords' \subseteq StepRecords \cup {Here}
        BY <1>2, <1>5
      <4> QED BY <1>1, <4>1
    <3>2. Behind(r, i)' <=> \/ Before(i) = {}
                           \/ \E j \in StepRecords' : j < r /\ \A e \in Before(i) : e < j
      BY <1>7 DEF Behind
    <3> QED BY <1>5, <3>1, <3>2 DEF Behind
  <2>3. (\A j \in StepRecords' : j > i => r < j) <=> (\A j \in StepRecords : j > i => r < j)
    BY <1>5, <2>1
  <2> QED BY <2>1, <2>2, <2>3 DEF Between
<1>10. Between(i) \subseteq R /\ Between(i)' \subseteq R'
  BY DEF Between
<1>11. ASSUME rec.kind = "Result"
       PROVE  Here \in Between(i)' <=> \A j \in StepRecords : j <= i
  <2>1. PICK h : h = Here
    OBVIOUS
  <2>2. h \in R' /\ StepRecords' = StepRecords /\ \A j \in StepRecords : j < h
    BY <1>1, <1>2, <1>3, <1>5, <1>11, <2>1
  <2>3. Behind(h, i)'
    <3>1. i \in StepRecords' /\ i < h /\ \A e \in Before(i)' : e < i
      BY <1>2, <1>5, <1>6, <2>1 DEF Before
    <3> QED BY <3>1 DEF Behind
  <2>4. h \in Between(i)' <=> \A j \in StepRecords : j > i => h < j
    BY <2>2, <2>3 DEF Between
  <2> QED BY <1>1, <1>2, <1>6, <2>1, <2>2, <2>4
<1>12. Here \notin Between(i)
  BY <1>1, <1>2, <1>10
<1>13. CASE rec.kind # "Result"
  <2>1. Between(i)' = Between(i)
    BY <1>3, <1>9, <1>10, <1>13
  <2> QED BY <1>2, <1>6, <1>8, <1>10, <1>13, <2>1
<1>14. CASE rec.kind = "Result" /\ \E j \in StepRecords : j > i
  <2>1. Here \notin Between(i)'
    BY <1>2, <1>6, <1>11, <1>14
  <2>2. Between(i)' = Between(i)
    BY <1>3, <1>9, <1>10, <1>14, <2>1
  <2> QED BY <1>2, <1>6, <1>8, <1>10, <1>14, <2>2
<1>15. CASE rec.kind = "Result" /\ \A j \in StepRecords : j <= i
  <2>1. Here \in Between(i)'
    BY <1>11, <1>15
  <2>2. Between(i)' = Between(i) \cup {Here}
    BY <1>3, <1>9, <1>10, <1>15, <2>1
  <2>3. ~\E j \in StepRecords : j > i
    BY <1>2, <1>6, <1>15
  <2> QED BY <1>2, <1>6, <1>8, <1>10, <1>15, <2>2, <2>3
<1>16. (\E j \in StepRecords : j > i) \/ (\A j \in StepRecords : j <= i)
  BY <1>2, <1>6
<1> QED BY <1>13, <1>14, <1>15, <1>16

\* The decisions that count as failing, and those that will if the last one's
\* result is still to come and is a failure.
MayFail(i) == /\ log[i].act \in {"Call", "Ask"}
              /\ Window(i, Len(log)) = {} \/ Failing(i, Len(log))
Latest(i) == \A k \in Decisions : k <= i
Trailing == {i \in Decisions : \A j \in Decisions : j >= i => Failing(j, Len(log))}
Expected == {i \in Decisions : \A j \in Decisions : j >= i =>
               Failing(j, Len(log)) \/ (MayFail(j) /\ Latest(j))}

\* The window of the last decision is closed.
Closed == \E k \in Segment(Len(log), "Deliberation") : \A i \in Decisions : i < k

LEMMA ExpectedFacts ==
  ASSUME log \in Seq(Entry)
  PROVE  /\ Trailing \subseteq Expected /\ Expected \subseteq Decisions
         /\ IsFiniteSet(Expected) /\ Cardinality(Expected) \in Nat
         /\ FailureSteps(Len(log)) \in Nat
         /\ FailureSteps(Len(log)) = Cardinality(Trailing)
         /\ FailureSteps(Len(log)) <= Cardinality(Expected)
<1>1. Trailing \subseteq Expected /\ Expected \subseteq Decisions
  BY DEF Trailing, Expected
<1>2. IsFiniteSet(Decisions)
  BY NumberFacts DEF Decisions
<1>3. FailureSteps(Len(log)) = Cardinality(Trailing)
  BY DEF FailureSteps, Trailing, Decisions
<1> QED BY <1>1, <1>2, <1>3, FS_Subset, FS_CardinalityType

LEMMA FailingStays ==
  ASSUME log \in Seq(Entry), log' \in Seq(Entry), NEW rec, Write(rec), rec.kind # "Outcome",
         NEW i \in Decisions, rec.kind # "Result" \/ \E j \in StepRecords : j > i
  PROVE  /\ Failing(i, Len(log))' <=> Failing(i, Len(log))
         /\ MayFail(i)' <=> MayFail(i)
<1>1. /\ log'[i] = log[i] /\ Window(i, Len(log)) \subseteq 1 .. Len(log)
      /\ Window(i, Len(log))' = Window(i, Len(log))
  BY WindowGrows
<1>2. \A r \in Window(i, Len(log)) : log'[r] = log[r]
  BY <1>1, Grown
<1>3. Failing(i, Len(log))' <=> Failing(i, Len(log))
  BY <1>1, <1>2 DEF Failing
<1> QED BY <1>1, <1>3 DEF MayFail

LEMMA ExpectedStays ==
  ASSUME log \in Seq(Entry), log' \in Seq(Entry), NEW rec, Write(rec),
         rec.kind \notin {"Outcome", "Decision"},
         rec.kind # "Result" \/ \A i \in Decisions : \E j \in StepRecords : j > i
  PROVE  Decisions' = Decisions /\ Trailing' = Trailing /\ Expected' = Expected
<1>1. Decisions' = Decisions
  BY SegmentGrows DEF Decisions
<1>2. \A i \in Decisions : /\ Failing(i, Len(log))' <=> Failing(i, Len(log))
                           /\ MayFail(i)' <=> MayFail(i)
                           /\ Latest(i)' <=> Latest(i)
  BY <1>1, FailingStays DEF Latest
<1>3. Trailing' = Trailing
  BY <1>1, <1>2 DEF Trailing
<1>4. Expected' = Expected
  BY <1>1, <1>2 DEF Expected
<1> QED BY <1>1, <1>3, <1>4

LEMMA ExpectedEnds ==
  ASSUME log \in Seq(Entry), NEW rec, Write(rec), rec.kind = "Outcome"
  PROVE  Trailing' = {} /\ Expected' = {}
BY SegmentGrows DEF Trailing, Expected, Decisions

\* A decision adds itself, and makes the one before it count as it is.
LEMMA ExpectedAdds ==
  ASSUME log \in Seq(Entry), log' \in Seq(Entry), NEW rec, Write(rec), rec.kind = "Decision"
  PROVE  /\ Expected' \subseteq Trailing \cup {Here}
         /\ rec.act \notin {"Call", "Ask"} => Expected' = {}
<1>1. Decisions' = Decisions \cup {Here}
  BY SegmentGrows DEF Decisions
<1>2. log'[Here] = rec /\ Here \in Nat /\ \A j \in Decisions : j < Here /\ j \in Nat
  BY Grown, SegmentFacts
<1>3. PICK h : h = Here
  OBVIOUS
<1>4. ASSUME NEW i \in Expected', i # h
      PROVE  i \in Trailing
  <2>1. i \in Decisions
    BY <1>1, <1>3, <1>4 DEF Expected
  <2>2. ASSUME NEW j \in Decisions, j >= i
        PROVE  Failing(j, Len(log))
    <3>1. j \in Decisions' /\ h \in Decisions' /\ ~(h <= j)
      BY <1>1, <1>2, <1>3
    <3>2. ~Latest(j)'
      BY <3>1 DEF Latest
    <3>3. Failing(j, Len(log))'
      BY <1>4, <2>2, <3>1, <3>2 DEF Expected
    <3> QED BY <3>3, FailingStays
  <2> QED BY <2>1, <2>2 DEF Trailing
<1>5. ASSUME NEW i \in Expected'
      PROVE  rec.act \in {"Call", "Ask"}
  <2>1. h \in Decisions' /\ h >= i
    BY <1>1, <1>2, <1>3, <1>5 DEF Expected
  <2>2. Failing(h, Len(log))' \/ MayFail(h)'
    BY <1>5, <2>1 DEF Expected
  <2> QED BY <1>2, <1>3, <2>2 DEF Failing, MayFail
<1> QED BY <1>3, <1>4, <1>5

\* A result settles what was expected of the last decision.
LEMMA ExpectedSettles ==
  ASSUME log \in Seq(Entry), log' \in Seq(Entry), NEW rec, Write(rec), rec.kind = "Result",
         Closed => Expected = {}
  PROVE  Expected' \subseteq Expected /\ Trailing' = Expected' /\ Decisions' = Decisions
<1>1. /\ Decisions' = Decisions
      /\ StepRecords = Decisions \cup Segment(Len(log), "Deliberation")
  BY SegmentGrows DEF Decisions, StepRecords, Steps
<1>2. /\ Len(log) \in Nat /\ Decisions \subseteq 1 .. Len(log)
      /\ Segment(Len(log), "Deliberation") \subseteq 1 .. Len(log)
  BY SegmentFacts
<1>3. CASE Closed
  <2>1. \A i \in Decisions : \E j \in StepRecords : j > i
    BY <1>1, <1>2, <1>3 DEF Closed
  <2>2. Trailing' = Trailing /\ Expected' = Expected
    BY <2>1, ExpectedStays
  <2> QED BY <1>1, <1>3, <2>2, ExpectedFacts
<1>4. CASE Decisions = {}
  BY <1>1, <1>4 DEF Trailing, Expected
<1>5. CASE ~Closed /\ Decisions # {}
  <2>1. PICK m : m \in Decisions /\ \A k \in Decisions : k <= m
    <3>1. Decisions \in SUBSET (0 .. Len(log))
      BY <1>2
    <3> QED BY <1>2, <1>5, <3>1, MaxIn
  <2>2. \A j \in StepRecords : j <= m
    <3>1. ASSUME NEW k \in Segment(Len(log), "Deliberation") PROVE k <= m
      <4>1. PICK i \in Decisions : ~(i < k)
        BY <1>5 DEF Closed
      <4> QED BY <1>2, <2>1, <4>1
    <3> QED BY <1>1, <2>1, <3>1
  <2>3. /\ Window(m, Len(log))' = Window(m, Len(log)) \cup {Here} /\ log'[m] = log[m]
        /\ Window(m, Len(log)) \subseteq 1 .. Len(log)
    BY <2>1, <2>2, WindowGrows
  <2>4. MayFail(m)' => Failing(m, Len(log))'
    BY <2>3 DEF MayFail
  <2>5. Failing(m, Len(log))' => MayFail(m)
    <3>1. SUFFICES ASSUME Failing(m, Len(log))' PROVE Window(m, Len(log)) = {}
      BY <2>3 DEF MayFail, Failing
    <3>2. Cardinality(Window(m, Len(log)) \cup {Here}) = 1
      BY <2>3, <3>1 DEF Failing
    <3>3. IsFiniteSet(Window(m, Len(log))) /\ Here \notin Window(m, Len(log))
      <4>1. IsFiniteSet(1 .. Len(log)) /\ Here \notin 1 .. Len(log)
        BY <1>2, FS_Interval, Grown
      <4> QED BY <2>3, <4>1, FS_Subset
    <3>4. Cardinality(Window(m, Len(log))) = 0
      <4>1. Cardinality(Window(m, Len(log)) \cup {Here}) = Cardinality(Window(m, Len(log))) + 1
        BY <3>3, FS_AddElement
      <4>2. Cardinality(Window(m, Len(log))) \in Nat
        BY <3>3, FS_CardinalityType
      <4> QED BY <3>2, <4>1, <4>2
    <3> QED BY <3>3, <3>4, FS_EmptySet
  <2>6. \A i \in Decisions : i # m => (Failing(i, Len(log))' <=> Failing(i, Len(log)))
    <3>1. ASSUME NEW i \in Decisions, i # m PROVE Failing(i, Len(log))' <=> Failing(i, Len(log))
      <4>1. m > i /\ m \in StepRecords
        BY <1>1, <1>2, <2>1, <3>1
      <4> QED BY <4>1, FailingStays
    <3> QED BY <3>1
  <2>7. \A i \in Decisions : (Latest(i)' <=> i = m) /\ (Latest(i) <=> i = m)
    BY <1>1, <1>2, <2>1 DEF Latest
  <2>8. Trailing' = Expected'
    BY <1>1, <2>4, <2>7 DEF Trailing, Expected
  <2>9. Expected' \subseteq Expected
    <3>1. ASSUME NEW i \in Expected', NEW j \in Decisions, j >= i
          PROVE  Failing(j, Len(log)) \/ (MayFail(j) /\ Latest(j))
      <4>1. Failing(j, Len(log))'
        BY <1>1, <2>4, <2>7, <3>1 DEF Expected
      <4> QED BY <2>5, <2>6, <2>7, <4>1
    <3>2. \A i \in Expected' : i \in Decisions
      BY <1>1 DEF Expected
    <3> QED BY <3>1, <3>2 DEF Expected
  <2> QED BY <1>1, <2>8, <2>9
<1> QED BY <1>3, <1>4, <1>5

FailureLedger == /\ Cardinality(Expected) <= MaxFailures + interruptions
                 /\ Closed => Expected = {}

\* There is room for one more failing step.
Spare == Cardinality(Expected) < MaxFailures + interruptions

\* What an advance counted, or is about to, is all that is expected, unless there is
\* room for a step that is not counted: one whose result an interruption delayed.
Attentive(f) ==
  /\ f.pc \in {"idle", "accept", "load"} => Expected = Trailing \/ Spare
  /\ Undecided(f) /\ f.pc # "load" => Cardinality(Expected) <= f.fails \/ Spare
  /\ f.pc = "deliberate" => Expected = {}

\* A step that decides and reports nothing.
LEMMA UncountedFailures ==
  ASSUME KernelInv, KernelInv', FailureLedger, NEW f \in Future, NEW g \in Future,
         interruptions' >= interruptions,
         Silent \/ \E rec : /\ Write(rec)
                            /\ rec.kind \notin {"Outcome", "Decision", "Deliberation", "Result"},
         Attentive(f),
         g.pc \in {"idle", "accept", "load"} =>
           f.pc \in {"idle", "accept", "load"} \/ interruptions' > interruptions,
         Undecided(g) /\ g.pc # "load" =>
           \/ Undecided(f) /\ f.pc # "load" /\ g.fails >= f.fails
           \/ f.pc \in {"idle", "load"} /\ g.fails = FailureSteps(Len(log)),
         g.pc # "deliberate"
  PROVE  FailureLedger' /\ Attentive(g)'
<1>1. /\ log \in Seq(Entry) /\ log' \in Seq(Entry) /\ interruptions \in Nat
      /\ interruptions' \in Nat /\ MaxFailures \in Nat /\ f.fails \in Nat /\ g.fails \in Nat
  BY KernelAssumption DEF KernelInv, TypeOK, Future
<1>2. Expected' = Expected /\ Trailing' = Trailing /\ (Closed' <=> Closed)
  <2>1. CASE Silent
    BY <2>1, SMTT(30) DEF Silent, Expected, Trailing, Closed, Decisions, MayFail, Latest, Failing,
                Window, Opening, Closing, Steps, Segment, Records, LastOutcome
  <2>2. CASE \E rec : /\ Write(rec)
                      /\ rec.kind \notin {"Outcome", "Decision", "Deliberation", "Result"}
    <3>1. PICK rec : /\ Write(rec)
                     /\ rec.kind \notin {"Outcome", "Decision", "Deliberation", "Result"}
      BY <2>2
    <3>2. Segment(Len(log), "Deliberation")' = Segment(Len(log), "Deliberation")
      BY <1>1, <3>1, SegmentGrows
    <3>3. Decisions' = Decisions /\ Expected' = Expected /\ Trailing' = Trailing
      BY <1>1, <3>1, ExpectedStays
    <3> QED BY <3>2, <3>3 DEF Closed
  <2> QED BY <2>1, <2>2
<1>3. /\ Cardinality(Expected) \in Nat /\ FailureSteps(Len(log)) = Cardinality(Trailing)
  BY <1>1, ExpectedFacts
<1>4. FailureLedger'
  BY <1>1, <1>2, <1>3 DEF FailureLedger
<1>5. Spare => Spare'
  BY <1>1, <1>2, <1>3 DEF Spare
<1>6. interruptions' > interruptions => Spare'
  BY <1>1, <1>2, <1>3 DEF Spare, FailureLedger
<1>7. g.pc \in {"idle", "accept", "load"} => Expected' = Trailing' \/ Spare'
  BY <1>2, <1>5, <1>6 DEF Attentive
<1>8. Undecided(g) /\ g.pc # "load" => Cardinality(Expected') <= g.fails \/ Spare'
  <2>1. CASE Undecided(f) /\ f.pc # "load" /\ g.fails >= f.fails
    BY <1>1, <1>2, <1>3, <1>5, <2>1 DEF Attentive
  <2>2. CASE f.pc \in {"idle", "load"} /\ g.fails = FailureSteps(Len(log))
    BY <1>1, <1>2, <1>3, <1>5, <2>2 DEF Attentive
  <2> QED BY <2>1, <2>2
<1> QED BY <1>4, <1>7, <1>8 DEF Attentive, Undecided

LEMMA DecisionFailures ==
  ASSUME KernelInv, KernelInv', FailureLedger, NEW f \in Future, NEW g \in Future,
         interruptions' >= interruptions, Attentive(f), NEW act, DecidedOn(f, g, act)
  PROVE  FailureLedger' /\ Attentive(g)'
<1>1. /\ log \in Seq(Entry) /\ log' \in Seq(Entry) /\ interruptions \in Nat
      /\ interruptions' \in Nat /\ MaxFailures \in Nat /\ f.fails \in Nat
  BY KernelAssumption DEF KernelInv, TypeOK, Future
<1>2. PICK rec : Write(rec) /\ rec.kind = "Decision" /\ rec.act = act
  BY DEF DecidedOn, Decision
<1>3. /\ Expected' \subseteq Trailing \cup {Here}
      /\ act \notin {"Call", "Ask"} => Expected' = {}
  BY <1>1, <1>2, ExpectedAdds
<1>4. /\ Trailing \subseteq Expected /\ IsFiniteSet(Expected)
      /\ Cardinality(Trailing) <= Cardinality(Expected) /\ Cardinality(Expected) \in Nat
      /\ Cardinality(Trailing) \in Nat
  BY <1>1, ExpectedFacts
<1>5. Cardinality(Expected') \in Nat /\ Cardinality(Expected') <= Cardinality(Trailing) + 1
  <2>1. IsFiniteSet(Trailing)
    BY <1>4, FS_Subset
  <2>2. /\ IsFiniteSet(Trailing \cup {Here})
        /\ Cardinality(Trailing \cup {Here}) = Cardinality(Trailing)
             \/ Cardinality(Trailing \cup {Here}) = Cardinality(Trailing) + 1
    BY <2>1, FS_AddElement
  <2>3. /\ Cardinality(Expected') \in Nat
        /\ Cardinality(Expected') <= Cardinality(Trailing \cup {Here})
    BY <1>3, <2>2, FS_Subset, FS_CardinalityType
  <2> QED BY <1>4, <2>2, <2>3
<1>6. Cardinality(Expected) < MaxFailures \/ Cardinality(Expected) < MaxFailures + interruptions
  <2>1. f.fails < MaxFailures /\ f.pc = "step"
    BY DEF DecidedOn
  <2>2. Cardinality(Expected) <= f.fails \/ Spare
    BY <2>1 DEF Attentive, Undecided
  <2> QED BY <1>1, <1>4, <2>1, <2>2 DEF Spare
<1>7. Cardinality(Expected') <= MaxFailures + interruptions'
  BY <1>1, <1>4, <1>5, <1>6
<1>8. ~Closed'
  <2>1. Here \in Decisions'
    BY <1>1, <1>2, SegmentGrows DEF Decisions
  <2>2. Segment(Len(log), "Deliberation")' = Segment(Len(log), "Deliberation")
    BY <1>1, <1>2, SegmentGrows
  <2>3. \A k \in Segment(Len(log), "Deliberation") : ~(Here < k)
    BY <1>1, <1>2, SegmentFacts, Grown
  <2> QED BY <2>1, <2>2, <2>3 DEF Closed
<1>9. FailureLedger'
  BY <1>7, <1>8 DEF FailureLedger
<1>10. CASE g = Idle /\ act = "Continue"
  <2>1. g.pc = "idle" /\ Expected' = {} /\ Trailing' = {}
    BY <1>1, <1>3, <1>10 DEF Idle, Trailing, Expected
  <2> QED BY <1>9, <2>1 DEF Attentive, Undecided
<1>11. CASE /\ g.pc \in {"finish", "deliberate", "graph", "suspend"} /\ g.origin = "decision"
            /\ g.pc = "deliberate" => act = "Plan"
  BY <1>3, <1>9, <1>11 DEF Attentive, Undecided
<1> QED BY <1>10, <1>11 DEF DecidedOn

LEMMA ResultFailures ==
  ASSUME KernelInv, KernelInv', FailureLedger, NEW f \in Future, NEW g \in Future,
         interruptions' >= interruptions, Attentive(f), Reported(f, g) \/ Refused(f, g)
  PROVE  FailureLedger' /\ Attentive(g)'
<1>1. /\ log \in Seq(Entry) /\ log' \in Seq(Entry) /\ interruptions \in Nat
      /\ interruptions' \in Nat /\ MaxFailures \in Nat /\ f.fails \in Nat /\ g.fails \in Nat
  BY KernelAssumption DEF KernelInv, TypeOK, Future
<1>2. PICK rec : Write(rec) /\ rec.kind = "Result"
  BY DEF Reported, Refused, Result
<1>3. Expected' \subseteq Expected /\ Trailing' = Expected' /\ Decisions' = Decisions
  BY <1>1, <1>2, ExpectedSettles DEF FailureLedger
<1>4. /\ IsFiniteSet(Expected) /\ Cardinality(Expected) \in Nat
      /\ Cardinality(Expected') \in Nat /\ Cardinality(Expected') <= Cardinality(Expected)
  BY <1>1, <1>3, ExpectedFacts, FS_Subset, FS_CardinalityType
<1>5. Closed' <=> Closed
  <2>1. Segment(Len(log), "Deliberation")' = Segment(Len(log), "Deliberation")
    BY <1>1, <1>2, SegmentGrows
  <2> QED BY <1>3, <2>1 DEF Closed
<1>6. FailureLedger'
  BY <1>1, <1>3, <1>4, <1>5 DEF FailureLedger
<1>7. CASE g = Idle
  BY <1>3, <1>6, <1>7 DEF Idle, Attentive, Undecided
<1>8. CASE g.pc = "step" /\ f.origin # "decision" /\ g.fails >= f.fails
  <2>1. f.pc \in {"result", "reject"}
    BY DEF Reported, Refused
  <2>2. Cardinality(Expected) <= f.fails \/ Spare
    BY <1>8, <2>1 DEF Attentive, Undecided
  <2>3. Cardinality(Expected') <= g.fails \/ Spare'
    BY <1>1, <1>4, <1>8, <2>2 DEF Spare
  <2> QED BY <1>6, <1>8, <2>3 DEF Attentive
<1>9. GoesOn(f, g)
  BY DEF Reported, Refused
<1>10. ASSUME f.origin = "continue", Moved(f, g, {"pc"})
       PROVE  g.fails >= f.fails
  BY <1>1, <1>10 DEF Moved, FieldNames
<1> QED BY <1>7, <1>8, <1>9, <1>10 DEF GoesOn

LEMMA ClosingFailures ==
  ASSUME KernelInv, KernelInv', FailureLedger, NEW f \in Future, NEW g \in Future,
         interruptions' >= interruptions, Attentive(f), Deliberated(f, g) \/ Finished(f, g)
  PROVE  FailureLedger' /\ Attentive(g)'
<1>1. /\ log \in Seq(Entry) /\ log' \in Seq(Entry) /\ interruptions' \in Nat
      /\ MaxFailures \in Nat
  BY KernelAssumption DEF KernelInv, TypeOK
<1>2. Expected' = {}
  <2>1. CASE Deliberated(f, g)
    <3>1. \E rec : Write(rec) /\ rec.kind = "Deliberation"
      BY <2>1 DEF Deliberated, Deliberation
    <3>2. Expected' = Expected
      BY <1>1, <3>1, ExpectedStays
    <3> QED BY <2>1, <3>2 DEF Deliberated, Attentive
  <2>2. CASE Finished(f, g)
    <3>1. \E rec : Write(rec) /\ rec.kind = "Outcome"
      BY <2>2 DEF Finished, Outcome
    <3> QED BY <1>1, <3>1, ExpectedEnds
  <2> QED BY <2>1, <2>2
<1>3. Trailing' \subseteq Expected'
  BY DEF Trailing, Expected
<1>4. g.pc = "idle"
  BY DEF Deliberated, Finished, Idle
<1>5. Cardinality(Expected') = 0
  BY <1>2, FS_EmptySet
<1> QED BY <1>1, <1>2, <1>3, <1>4, <1>5 DEF FailureLedger, Attentive, Undecided

\* A call that has just been decided has not run.
LEMMA ReusedLater ==
  ASSUME KernelInv, NEW f \in Future, NEW g, Typed(f), CallFits(f), Reused(f, g)
  PROVE  f.origin # "decision"
<1>0. f.upto \in Nat /\ f.upto <= Len(log) /\ Len(log) \in Nat
  BY DEF Typed, Future, KernelInv, TypeOK
<1>1. /\ f.pc = "execute"
      /\ \E i \in Records(f.upto, "Done") : log[i].call = f.call
  BY DEF Reused, CallSettled
<1>2. About("Done", f.call) # {}
  BY <1>0, <1>1 DEF About, All, Records
<1> QED BY <1>1, <1>2 DEF CallFits, JustDecided, Kinds

LEMMA FailureStep ==
  ASSUME KernelInv, KernelInv', FailureLedger, NEW f \in Future, NEW g \in Future,
         interruptions' >= interruptions, Typed(f), CallFits(f), Attentive(f), Move(f, g)
  PROVE  FailureLedger' /\ Attentive(g)'
<1>1. CASE Delivered(f, g)
  BY <1>1, UncountedFailures DEF Delivered, Undecided
<1>2. CASE Loaded(f, g) \/ Continued(f, g)
  <2>1. /\ Silent /\ f.pc \in {"idle", "load"} /\ g.pc \in {"step", "lookup", "graph"}
        /\ g.fails = FailureSteps(Len(log))
    BY <1>2 DEF Loaded, Continued
  <2> QED BY <2>1, UncountedFailures
<1>3. CASE LookedUp(f, g)
  <2>1. /\ Silent /\ f.pc = "lookup" /\ g.pc \in {"resolve", "graph", "reject", "finish"}
        /\ g.fails = f.fails /\ f.fails \in Nat
    BY <1>3 DEF LookedUp, HandedBack, Moved, FieldNames, Future
  <2> QED BY <2>1, UncountedFailures DEF Undecided
<1>4. CASE Resolves(f, g)
  <2>1. /\ f.pc = "resolve" /\ g.pc \in {"graph", "reject"} /\ g.fails = f.fails
        /\ f.fails \in Nat
        /\ \E rec : /\ Write(rec)
                    /\ rec.kind \notin {"Outcome", "Decision", "Deliberation", "Result"}
    BY <1>4 DEF Resolves, Resolution, HandedBack, Moved, FieldNames, Future
  <2> QED BY <2>1, UncountedFailures DEF Undecided
<1>5. CASE Stopped(f, g) \/ Suspended(f, g)
  <2>1. /\ g.pc = "finish"
        /\ Silent \/ \E rec : /\ Write(rec)
                              /\ rec.kind \notin {"Outcome", "Decision", "Deliberation", "Result"}
    BY <1>5 DEF Stopped, Suspended, Pending
  <2> QED BY <2>1, UncountedFailures DEF Undecided
<1>6. CASE Triggered(f, g)
  <2>1. /\ f.pc = "accept" /\ g.pc = "load"
        /\ \E rec : /\ Write(rec)
                    /\ rec.kind \notin {"Outcome", "Decision", "Deliberation", "Result"}
    BY <1>6 DEF Triggered, Trigger
  <2> QED BY <2>1, UncountedFailures DEF Undecided
<1>7. CASE Graphed(f, g) \/ Executed(f, g)
  <2>1. /\ f.pc \in {"graph", "execute"} /\ g.pc \in {"execute", "result"}
        /\ g.fails = f.fails /\ g.origin = f.origin /\ f.fails \in Nat
    BY <1>7 DEF Graphed, Executed, Moved, FieldNames, Future
  <2>2. Silent \/ \E rec : /\ Write(rec)
                           /\ rec.kind \notin {"Outcome", "Decision", "Deliberation", "Result"}
    BY <1>7 DEF Graphed, Executed, Graph, Done
  <2> QED BY <2>1, <2>2, UncountedFailures DEF Undecided
<1>8. CASE Reused(f, g)
  <2>1. f.origin # "decision"
    BY <1>8, ReusedLater
  <2>2. /\ Silent /\ f.pc = "execute" /\ g.pc = "step" /\ g.fails >= f.fails
    BY <1>8, <2>1 DEF Reused, GoesOn, Moved, FieldNames, Future
  <2> QED BY <2>1, <2>2, UncountedFailures DEF Undecided
<1>9. CASE Dropped(f, g)
  <2>1. Silent /\ g.pc = "idle" /\ interruptions' > interruptions
    BY <1>9 DEF Dropped, Idle, KernelInv, TypeOK
  <2> QED BY <2>1, UncountedFailures DEF Undecided
<1>10. CASE Reported(f, g) \/ Refused(f, g)
  BY <1>10, ResultFailures
<1>11. CASE \E act \in Acts : DecidedOn(f, g, act)
  BY <1>11, DecisionFailures
<1>12. CASE Deliberated(f, g) \/ Finished(f, g)
  BY <1>12, ClosingFailures
<1> QED BY <1>1, <1>2, <1>3, <1>4, <1>5, <1>6, <1>7, <1>8, <1>9, <1>10, <1>11, <1>12 DEF Move

\* With no advance under way, what the next one will count is known; else the one
\* advance under way knows.
FailureInv ==
  /\ FailureLedger
  /\ \A d \in Drivers : (At(d, "idle") => \A e \in Drivers : At(e, "idle")) => Attentive(run[d])

LEMMA InterruptionsGrow ==
  ASSUME KernelInv, [Next]_vars
  PROVE  interruptions' >= interruptions
<1>1. interruptions \in Nat
  BY DEF KernelInv, TypeOK
<1>2. CASE UNCHANGED vars
  BY <1>1, <1>2 DEF vars
<1>3. CASE Next
  <2>1. PICK d \in Drivers : Arrive(d) \/ Continue(d) \/ DriverStep(d) \/ Interrupt(d)
    BY <1>3 DEF Next
  <2>2. CASE Arrive(d) \/ Interrupt(d)
    <3>1. ASSUME Arrive(d) PROVE interruptions' = interruptions
      BY <3>1 DEF Arrive, Deliver
    <3>2. ASSUME Interrupt(d) PROVE interruptions' = interruptions + 1
      BY <3>2 DEF Interrupt
    <3> QED BY <1>1, <2>2, <3>1, <3>2
  <2>4. CASE Continue(d)
    <3>1. UNCHANGED Bounds
      BY <2>4 DEF Continue
    <3> QED BY <1>1, <3>1 DEF Bounds
  <2>3. CASE DriverStep(d)
    <3>1. UNCHANGED Bounds
      BY <2>3 DEF DriverStep, AppendTrigger, Load, LookUp, Resolve, Stop, Decide, Deliberate,
                  Suspend, Finish, RecordGraph, Execute, Reuse, AppendResult, Reject, Bounds
    <3> QED BY <1>1, <3>1 DEF Bounds
  <2> QED BY <2>1, <2>2, <2>3, <2>4
<1> QED BY <1>2, <1>3

LEMMA FailuresKept ==
  ASSUME Serial, Serial', KernelInv, KernelInv', CallInv, FailureInv, [Next]_vars
  PROVE  FailureInv'
<1>1. interruptions' >= interruptions
  BY InterruptionsGrow
<1>2. ASSUME Silent, run' = run
      PROVE  FailureInv'
  <2>1. /\ Expected' = Expected /\ Trailing' = Trailing /\ Closed' = Closed
    BY <1>2 DEF Silent, Expected, Trailing, Closed, Decisions, MayFail, Latest, Failing,
                Window, Opening, Closing, Steps, Segment, Records, LastOutcome
  <2>2. /\ interruptions \in Nat /\ interruptions' \in Nat /\ MaxFailures \in Nat
        /\ Cardinality(Expected) \in Nat
    BY KernelAssumption, ExpectedFacts DEF KernelInv, TypeOK
  <2>3. FailureLedger' /\ (Spare => Spare')
    BY <1>1, <2>1, <2>2 DEF FailureInv, FailureLedger, Spare
  <2>4. \A f : Attentive(f) => Attentive(f)'
    BY <2>1, <2>3 DEF Attentive, Undecided
  <2> QED BY <1>2, <2>3, <2>4 DEF FailureInv, At
<1>3. CASE UNCHANGED vars
  BY <1>2, <1>3 DEF vars, Silent
<1>4. CASE Next
  <2>1. PICK d \in Drivers : /\ Move(run[d], run'[d])
                             /\ \A e \in Drivers : e # d => run'[e] = run[e]
    BY <1>4, StepMoves
  <2>2. PICK f, g : f = run[d] /\ g = run'[d] /\ Move(f, g)
    BY <2>1
  <2>3. f \in Future /\ Typed(f) /\ CallFits(f) /\ g \in Future
    BY <2>2, Held DEF CallInv, KernelInv, TypeOK
  <2>4. CASE f.pc = "idle" /\ g.pc = "idle"
    <3>1. Silent /\ g = f
      <4>1. Delivered(f, g) \/ Continued(f, g)
        BY <2>2, <2>4
           DEF Move, Triggered, Loaded, LookedUp, Resolves, Stopped, DecidedOn, Deliberated,
               Suspended, Finished, Graphed, Executed, Reused, Reported, Refused, Dropped
      <4>2. ~Continued(f, g)
        BY <2>4 DEF Continued
      <4> QED BY <2>4, <4>1, <4>2 DEF Delivered
    <3>2. run' = run
      <4>1. /\ run \in [Drivers -> Future] /\ run' \in [Drivers -> Future]
            /\ \A e \in Drivers : run'[e] = run[e]
        BY <2>1, <2>2, <3>1 DEF KernelInv, TypeOK
      <4> QED BY <4>1
    <3> QED BY <1>2, <3>1, <3>2
  <2>5. CASE ~(f.pc = "idle" /\ g.pc = "idle")
    <3>1. \A e \in Drivers : e # d => run'[e].pc = "idle" /\ run[e].pc = "idle"
      BY <2>1, <2>2, <2>5 DEF Serial, At
    <3>2. Attentive(f)
      BY <2>2, <3>1 DEF FailureInv, At
    <3>3. FailureLedger' /\ Attentive(g)'
      BY <1>1, <2>2, <2>3, <3>2, FailureStep DEF FailureInv
    <3>4. ASSUME NEW e \in Drivers, run'[e].pc = "idle" => \A h \in Drivers : run'[h].pc = "idle"
          PROVE  Attentive(run[e])'
      <4>1. CASE e = d
        <5>1. g = run'[e]
          BY <2>2, <4>1
        <5> QED BY <3>3, <5>1 DEF Attentive, Undecided
      <4>2. CASE e # d
        <5>1. run'[e].pc = "idle" /\ g.pc = "idle"
          BY <2>2, <3>1, <3>4, <4>2
        <5> QED BY <3>3, <5>1 DEF Attentive, Undecided
      <4> QED BY <4>1, <4>2
    <3> QED BY <3>3, <3>4 DEF FailureInv, At
  <2> QED BY <2>4, <2>5
<1> QED BY <1>3, <1>4

\* The steps that failed last are no more than the limit, and one more for each
\* interruption, which may have kept a result from the count, if advances come one
\* at a time.
THEOREM FailuresBudgeted == Spec /\ []Serial => []FailureBudget
<1>1. Init => FailureInv
  <2> SUFFICES ASSUME Init PROVE FailureInv
    OBVIOUS
  <2>1. log = <<>> /\ Len(log) = 0 /\ interruptions = 0 /\ MaxFailures \in Nat
    BY KernelAssumption DEF Init
  <2>2. Decisions = {}
    BY <2>1 DEF Records, Segment, Decisions
  <2>3. Expected = {} /\ Trailing = {} /\ Cardinality({}) = 0
    BY <2>2, FS_EmptySet DEF Expected, Trailing
  <2>4. \A d \in Drivers : run[d].pc = "idle"
    BY DEF Init, Idle
  <2> QED BY <2>1, <2>3, <2>4 DEF FailureInv, FailureLedger, Attentive, Undecided
<1>2. Serial /\ Serial' /\ KernelInv /\ KernelInv' /\ CallInv /\ FailureInv /\ [Next]_vars
        => FailureInv'
  BY FailuresKept
<1>3. KernelInv /\ FailureInv => FailureBudget
  <2> SUFFICES ASSUME KernelInv, FailureInv PROVE FailureBudget
    OBVIOUS
  <2>1. /\ FailureSteps(Len(log)) <= Cardinality(Expected) /\ Cardinality(Expected) \in Nat
        /\ FailureSteps(Len(log)) \in Nat /\ interruptions \in Nat /\ MaxFailures \in Nat
    BY ExpectedFacts, KernelAssumption DEF KernelInv, TypeOK
  <2> QED BY <2>1 DEF FailureInv, FailureLedger, FailureBudget
<1>4. Spec /\ []Serial => [](KernelInv /\ CallInv)
  BY CallsInvariant
<1> QED BY <1>1, <1>2, <1>3, <1>4, PTL DEF Spec
=============================================================================
