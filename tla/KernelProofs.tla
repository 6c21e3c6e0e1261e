---------------------------- MODULE KernelProofs ----------------------------
(***************************************************************************)
(* Theorems about the advances of a session, for any number of advances in *)
(* flight, keys, limits and interruptions.                                 *)
(***************************************************************************)
EXTENDS Kernel, FiniteSetTheorems, WellFoundedInduction, TLAPS

-----------------------------------------------------------------------------
(* Least and greatest positions. *)

Less == {p \in Nat \X Nat : p[1] < p[2]}

LEMMA LeastExists ==
  ASSUME NEW S \in SUBSET Nat, S # {}
  PROVE  \E x \in S : \A y \in S : x <= y
<1>1. IsWellFoundedOn(Less, Nat)
  <2>1. Less = OpToRel(<, Nat)
    BY DEF Less, OpToRel
  <2> QED BY <2>1, NatLessThanWellFounded
<1>2. PICK x \in S : \A y \in S : <<y, x>> \notin Less
  BY <1>1, WFMin
<1>3. \A y \in S : ~(y < x)
  BY <1>2 DEF Less
<1> QED BY <1>3

LEMMA MinIn ==
  ASSUME NEW S \in SUBSET Nat, S # {}
  PROVE  Min(S) \in S
BY LeastExists DEF Min

LEMMA MaxIn ==
  ASSUME NEW n \in Nat, NEW S \in SUBSET (0 .. n), S # {}
  PROVE  Max(S) \in S /\ \A y \in S : y <= Max(S)
<1> DEFINE T == {n - x : x \in S}
<1>1. \A x \in S : n - x \in Nat
  OBVIOUS
<1>2. T \in SUBSET Nat /\ T # {}
  BY <1>1
<1>3. PICK t \in T : \A y \in T : t <= y
  BY <1>2, LeastExists
<1>4. PICK x \in S : t = n - x
  OBVIOUS
<1>5. \A y \in S : n - y \in T /\ n - x <= n - y
  BY <1>3, <1>4
<1>6. \A y \in S : x >= y
  BY <1>5
<1>7. Max(S) \in S /\ \A y \in S : Max(S) >= y
  BY <1>6 DEF Max
<1> QED BY <1>7

-----------------------------------------------------------------------------
(* What the projections return. *)

LEMMA EntryFacts ==
  ASSUME log \in Seq(Entry), NEW i \in 1 .. Len(log)
  PROVE  /\ log[i].kind = "Trigger" => log[i].key \in Keys \cup {NoKey}
         /\ log[i].kind = "Pending" => log[i].step \in Nat /\ log[i].call \in Nat
         /\ log[i].kind = "Resolution" => log[i].token \in Nat /\ log[i].verdict \in Verdicts
         /\ log[i].kind = "Graph" =>
              log[i].gid \in Nat \X Nat /\ log[i].step \in Nat /\ log[i].call \in Nat
<1>1. log[i] \in Entry
  OBVIOUS
<1> QED BY <1>1 DEF Entry, Position

LEMMA CountFacts ==
  ASSUME NEW n \in Nat
  PROVE  StepCount(n) \in Nat /\ FailureSteps(n) \in Nat
<1>1. \A kind : Segment(n, kind) \in SUBSET (1 .. n)
  BY DEF Segment, Records
<1>2. IsFiniteSet(1 .. n)
  BY FS_Interval
<1>3. \A S \in SUBSET (1 .. n) : Cardinality(S) \in Nat
  BY <1>2, FS_Subset, FS_CardinalityType
<1>4. Steps(n) \in SUBSET (1 .. n)
  BY <1>1 DEF Steps
<1>5. {i \in Segment(n, "Decision") :
          \A j \in Segment(n, "Decision") : j >= i => Failing(j, n)} \in SUBSET (1 .. n)
  BY <1>1
<1> QED BY <1>3, <1>4, <1>5 DEF StepCount, FailureSteps

LEMMA ActiveTriggerFacts ==
  ASSUME log \in Seq(Entry), NEW n \in 0 .. Len(log), Open(n)
  PROVE  ActiveTrigger(n) \in 1 .. n /\ log[ActiveTrigger(n)].key \in Keys \cup {NoKey}
<1>1. Segment(n, "Trigger") \in SUBSET Nat /\ Segment(n, "Trigger") \subseteq 1 .. n
  BY DEF Segment, Records
<1>2. ActiveTrigger(n) \in Segment(n, "Trigger")
  BY <1>1, MinIn DEF Open, ActiveTrigger
<1>3. ActiveTrigger(n) \in 1 .. n /\ log[ActiveTrigger(n)].kind = "Trigger"
  BY <1>2 DEF Segment, Records
<1> QED BY <1>3, EntryFacts

LEMMA LastGraphFacts ==
  ASSUME log \in Seq(Entry), NEW n \in 0 .. Len(log), Segment(n, "Graph") # {}
  PROVE  /\ LastGraph(n) \in Records(n, "Graph")
         /\ log[LastGraph(n)].call \in Nat /\ log[LastGraph(n)].step \in Nat
<1>1. Segment(n, "Graph") \in SUBSET (0 .. n) /\ n \in Nat
  BY DEF Segment, Records
<1>2. LastGraph(n) \in Records(n, "Graph")
  BY <1>1, MaxIn DEF LastGraph, Segment
<1> QED BY <1>2, EntryFacts DEF Records

LEMMA GraphIdFacts ==
  ASSUME log \in Seq(Entry), NEW n \in 0 .. Len(log), NEW trig \in Nat, NEW step \in Nat,
         NEW call \in Nat
  PROVE  GraphId(n, trig, step, call) \in Nat \X Nat
<1> DEFINE same == {i \in Records(n, "Graph") : log[i].step = step /\ log[i].call = call}
<1>1. CASE same = {}
  BY <1>1 DEF GraphId
<1>2. CASE same # {}
  <2>1. same \in SUBSET (0 .. n) /\ n \in Nat
    BY DEF Records
  <2>2. Max(same) \in same
    BY <1>2, <2>1, MaxIn
  <2>3. log[Max(same)].gid \in Nat \X Nat
    BY <2>2, EntryFacts DEF Records
  <2> QED BY <1>2, <2>3 DEF GraphId
<1> QED BY <1>1, <1>2

-----------------------------------------------------------------------------
(* The inductive invariant. *)

\* Call c needs no approval, or the ledger holds an approval of it.
Permitted(c) ==
  /\ c \in 1 .. Len(log)
  /\ \/ log[c].act # "Ask"
     \/ \E p \in All("Pending") : /\ log[p].call = c
                                 /\ \E r \in All("Resolution") :
                                      log[r].token = p /\ log[r].verdict = "Approved"

\* What the type invariant says of one future.
Typed(f) == /\ f \in Future
            /\ f.upto <= Len(log) /\ f.trig <= Len(log)
            /\ f.token # 0 => f.token \in All("Pending")

\* A future about to run a call is permitted to; one that looks an approval up has
\* its token; one that asks for approval has decided on the call.
Gated(f) == /\ f.pc \in {"graph", "execute"} => Permitted(f.call)
            /\ f.pc \in {"lookup", "resolve"} => f.token # 0
            /\ f.pc = "suspend" => f.call \in 1 .. Len(log)

\* Only permitted calls have graphs, and approvals are asked for decided calls.
LedgerOK == /\ \A i \in All("Graph") : Permitted(log[i].call)
            /\ \A i \in All("Pending") : log[i].call \in 1 .. Len(log)
            /\ \A i \in All("Done") : log[i].call \in 1 .. Len(log)

KernelInv == /\ TypeOK
             /\ \A d \in Drivers : Gated(run[d])
             /\ LedgerOK
             /\ ApprovalGate

\* The ledger is left alone, or gets one record.
Appends == log' = log \/ \E rec \in Entry : Write(rec)

LEMMA LedgerGrows ==
  ASSUME log \in Seq(Entry), Appends
  PROVE  /\ log' \in Seq(Entry) /\ Len(log) <= Len(log')
         /\ Len(log) \in Nat /\ Len(log') \in Nat
         /\ \A i \in 1 .. Len(log) : log'[i] = log[i]
         /\ \A kind : All(kind) \subseteq All(kind)'
<1>1. CASE log' = log
  BY <1>1 DEF All, Records
<1>2. CASE \E rec \in Entry : Write(rec)
  <2>1. PICK rec \in Entry : log' = Append(log, rec)
    BY <1>2 DEF Write
  <2>2. /\ log' \in Seq(Entry) /\ Len(log') = Len(log) + 1 /\ Len(log) \in Nat
        /\ \A i \in 1 .. Len(log) : log'[i] = log[i]
    BY <2>1
  <2>3. \A kind : All(kind) \subseteq All(kind)'
    BY <2>2 DEF All, Records
  <2> QED BY <2>2, <2>3
<1> QED BY <1>1, <1>2 DEF Appends

LEMMA NewRecord ==
  ASSUME log \in Seq(Entry), NEW rec \in Entry, Write(rec)
  PROVE  Appends /\ Len(log') = Here /\ Here \in Nat /\ Here > Len(log) /\ log'[Here] = rec
BY DEF Appends, Write, Here

\* What is permitted stays permitted.
LEMMA PermittedStays ==
  ASSUME log \in Seq(Entry), Appends, NEW c, Permitted(c)
  PROVE  Permitted(c)'
<1>1. /\ log' \in Seq(Entry) /\ Len(log) <= Len(log')
      /\ Len(log) \in Nat /\ Len(log') \in Nat
      /\ \A i \in 1 .. Len(log) : log'[i] = log[i]
      /\ \A kind : All(kind) \subseteq All(kind)'
  BY LedgerGrows
<1>2. c \in 1 .. Len(log') /\ log'[c] = log[c]
  BY <1>1 DEF Permitted
<1>3. CASE log[c].act # "Ask"
  BY <1>2, <1>3 DEF Permitted
<1>4. CASE log[c].act = "Ask"
  <2>1. PICK p \in All("Pending"), r \in All("Resolution") :
          log[p].call = c /\ log[r].token = p /\ log[r].verdict = "Approved"
    BY <1>4 DEF Permitted
  <2>2. p \in All("Pending")' /\ r \in All("Resolution")'
    BY <1>1
  <2>3. p \in 1 .. Len(log) /\ r \in 1 .. Len(log)
    BY <2>1 DEF All, Records
  <2>4. log'[p] = log[p] /\ log'[r] = log[r]
    BY <1>1, <2>3
  <2> QED BY <1>2, <2>1, <2>2, <2>4 DEF Permitted
<1> QED BY <1>3, <1>4

\* Gated and Typed futures stay so while others append.
LEMMA FutureStays ==
  ASSUME log \in Seq(Entry), Appends, NEW f, Typed(f), Gated(f)
  PROVE  Typed(f)' /\ Gated(f)'
<1>1. /\ Len(log) <= Len(log') /\ Len(log) \in Nat /\ Len(log') \in Nat
      /\ All("Pending") \subseteq All("Pending")'
  BY LedgerGrows
<1>2. f.upto \in Nat /\ f.trig \in Nat
  BY DEF Typed, Future
<1>3. Typed(f)'
  BY <1>1, <1>2 DEF Typed
<1>4. f.pc \in {"graph", "execute"} => Permitted(f.call)'
  BY PermittedStays DEF Gated
<1> QED BY <1>1, <1>3, <1>4 DEF Gated

\* A record keeps the ledger's part of the invariant if the call it runs, or makes
\* a graph of, is permitted, and the call it asks for is a decided one.
LEMMA LedgerStep ==
  ASSUME KernelInv, NEW rec \in Entry, Write(rec),
         rec.kind \in {"Graph", "Done"} => Permitted(rec.call),
         rec.kind = "Pending" => rec.call \in 1 .. Len(log)
  PROVE  LedgerOK' /\ ApprovalGate'
<1>1. log \in Seq(Entry) /\ Appends /\ Len(log') = Here /\ Here = Len(log) + 1
  BY NewRecord DEF KernelInv, TypeOK, Here
<1>2. /\ log' \in Seq(Entry) /\ Len(log) \in Nat /\ log'[Here] = rec
      /\ \A i \in 1 .. Len(log) : log'[i] = log[i]
      /\ \A kind : All(kind) \subseteq All(kind)'
  BY <1>1, NewRecord, LedgerGrows
<1>3. ASSUME NEW kind, NEW i \in All(kind)'
      PROVE  \/ i \in All(kind) /\ i \in 1 .. Len(log) /\ log'[i] = log[i]
             \/ i = Here /\ rec.kind = kind /\ log'[i] = rec
  BY <1>1, <1>2 DEF All, Records
<1>4. ASSUME NEW i \in All("Graph")' PROVE Permitted(log[i].call)'
  <2>1. Permitted(log'[i].call)
    BY <1>3 DEF KernelInv, LedgerOK
  <2> QED BY <1>1, <2>1, PermittedStays
<1>5. \A i \in All("Pending")' : log'[i].call \in 1 .. Len(log')
  BY <1>1, <1>2, <1>3 DEF KernelInv, LedgerOK
<1>6. \A i \in All("Done")' : log'[i].call \in 1 .. Len(log)
  BY <1>3 DEF KernelInv, LedgerOK, Permitted
<1>7. \A i \in All("Done")' : log'[i].call \in 1 .. Len(log')
  BY <1>1, <1>2, <1>6
<1>8. ASSUME NEW i \in All("Done")', log'[log'[i].call].act = "Ask"
      PROVE  \E p \in All("Pending")' :
               /\ log'[p].call = log'[i].call
               /\ \E r \in ResolutionsOf(p, i)' : log'[r].verdict = "Approved"
  <2>1. log[log'[i].call].act = "Ask"
    BY <1>2, <1>6, <1>8
  <2>2. PICK p \in All("Pending") :
          /\ log[p].call = log'[i].call
          /\ \E r \in All("Resolution") :
               r \in 1 .. i /\ log[r].token = p /\ log[r].verdict = "Approved"
    <3>1. CASE i \in All("Done") /\ log'[i] = log[i] /\ i \in 1 .. Len(log)
      <4>1. PICK p \in All("Pending") :
              /\ log[p].call = log[i].call
              /\ \E r \in ResolutionsOf(p, i) : log[r].verdict = "Approved"
        BY <2>1, <3>1 DEF KernelInv, ApprovalGate
      <4>2. ResolutionsOf(p, i) = {r \in All("Resolution") : r \in 1 .. i /\ log[r].token = p}
        BY <1>2, <3>1 DEF ResolutionsOf, All, Records
      <4> QED BY <3>1, <4>1, <4>2
    <3>2. CASE i = Here /\ rec.kind = "Done" /\ log'[i] = rec
      <4>1. Permitted(rec.call) /\ log[rec.call].act = "Ask"
        BY <2>1, <3>2
      <4>2. \A r \in All("Resolution") : r \in 1 .. i
        BY <1>1, <1>2, <3>2 DEF All, Records
      <4> QED BY <3>2, <4>1, <4>2 DEF Permitted
    <3> QED BY <1>3, <3>1, <3>2
  <2>3. PICK r \in All("Resolution") :
          r \in 1 .. i /\ log[r].token = p /\ log[r].verdict = "Approved"
    BY <2>2
  <2>4. p \in All("Pending")' /\ r \in All("Resolution")'
    BY <1>2
  <2>5. log'[p] = log[p] /\ log'[r] = log[r]
    BY <1>2, <2>3 DEF All, Records
  <2>6. r \in ResolutionsOf(p, i)'
    BY <2>3, <2>4, <2>5 DEF ResolutionsOf, All, Records
  <2> QED BY <2>2, <2>3, <2>4, <2>5, <2>6
<1> QED BY <1>4, <1>5, <1>7, <1>8 DEF LedgerOK, ApprovalGate

LEMMA LedgerSame ==
  ASSUME KernelInv, log' = log
  PROVE  LedgerOK' /\ ApprovalGate' /\ Appends
BY DEF KernelInv, LedgerOK, ApprovalGate, All, Records, Permitted, ResolutionsOf, Appends

\* A step that gives one future another state keeps the invariant.
LEMMA FutureMoves ==
  ASSUME KernelInv, NEW d \in Drivers, NEW f, Typed(f)', Gated(f)',
         Appends, LedgerOK', ApprovalGate',
         run' = [run EXCEPT ![d] = f],
         requests' \in 0 .. MaxRequests, interruptions' \in 0 .. MaxInterruptions
  PROVE  KernelInv'
<1>1. log \in Seq(Entry) /\ run \in [Drivers -> Future]
  BY DEF KernelInv, TypeOK
<1>2. log' \in Seq(Entry) /\ f \in Future
  BY <1>1, LedgerGrows DEF Typed
<1>3. run' \in [Drivers -> Future] /\ \A e \in Drivers : run'[e] = IF e = d THEN f ELSE run[e]
  BY <1>1, <1>2
<1>4. ASSUME NEW e \in Drivers PROVE Typed(run[e])' /\ Gated(run[e])'
  <2>1. CASE e = d
    BY <1>3, <2>1 DEF Typed, Gated
  <2>2. CASE e # d
    <3>1. Typed(run[e]) /\ Gated(run[e])
      BY <1>1 DEF KernelInv, TypeOK, Typed
    <3> DEFINE g == run[e]
    <3>2. \E h : h = g /\ Typed(h) /\ Gated(h)
      BY <3>1
    <3>3. PICK h : h = g /\ Typed(h) /\ Gated(h)
      BY <3>2
    <3>4. Typed(h)' /\ Gated(h)'
      BY <1>1, <3>3, FutureStays
    <3>5. run'[e] = h
      BY <1>3, <2>2, <3>3
    <3> QED BY <3>4, <3>5 DEF Typed, Gated
  <2> QED BY <2>1, <2>2
<1> QED BY <1>2, <1>3, <1>4 DEF KernelInv, TypeOK, Typed

-----------------------------------------------------------------------------
(* What the handlers make of a future. *)

\* Two futures that refer to the same records.
Same(g, f) == g.token = f.token /\ g.upto = f.upto /\ g.trig = f.trig

LEMMA FieldChanges ==
  ASSUME NEW f \in Future
  PROVE  /\ \A v \in Pcs : LET g == [f EXCEPT !.pc = v]
              IN /\ g \in Future /\ g.pc = v
                 /\ g.call = f.call /\ Same(g, f)
         /\ \A v \in Keys \cup {NoKey} : LET g == [f EXCEPT !.key = v]
              IN /\ g \in Future /\ g.key = v
                 /\ g.pc = f.pc /\ g.call = f.call /\ Same(g, f)
         /\ \A v \in Nat : LET g == [f EXCEPT !.token = v]
              IN /\ g \in Future /\ g.token = v
                 /\ g.pc = f.pc /\ g.call = f.call /\ g.upto = f.upto /\ g.trig = f.trig
         /\ \A v \in Nat : LET g == [f EXCEPT !.trig = v]
              IN /\ g \in Future /\ g.trig = v
                 /\ g.pc = f.pc /\ g.call = f.call /\ g.token = f.token /\ g.upto = f.upto
         /\ \A v \in Nat : LET g == [f EXCEPT !.upto = v]
              IN /\ g \in Future /\ g.upto = v
                 /\ g.pc = f.pc /\ g.call = f.call /\ g.token = f.token /\ g.trig = f.trig
         /\ \A v \in Nat : LET g == [f EXCEPT !.call = v]
              IN /\ g \in Future /\ g.call = v
                 /\ g.pc = f.pc /\ Same(g, f)
BY DEF Future, Same

LEMMA OtherFieldChanges ==
  ASSUME NEW f \in Future
  PROVE  /\ \A v \in Verdicts : LET g == [f EXCEPT !.verdict = v]
              IN /\ g \in Future /\ g.verdict = v
                 /\ g.pc = f.pc /\ g.call = f.call /\ Same(g, f)
         /\ \A v \in {"decision", "continue", "approval"} : LET g == [f EXCEPT !.origin = v]
              IN /\ g \in Future /\ g.origin = v
                 /\ g.pc = f.pc /\ g.call = f.call /\ Same(g, f)
         /\ \A v \in Nat \X Nat : LET g == [f EXCEPT !.gid = v]
              IN /\ g \in Future /\ g.gid = v
                 /\ g.pc = f.pc /\ g.call = f.call /\ Same(g, f)
         /\ \A v \in BOOLEAN : LET g == [f EXCEPT !.ok = v]
              IN /\ g \in Future /\ g.ok = v
                 /\ g.pc = f.pc /\ g.call = f.call /\ Same(g, f)
BY DEF Future, Same

\* One of these fields, set.
LEMMA OriginSet ==
  ASSUME NEW f \in Future, NEW v \in {"decision", "continue", "approval"},
         NEW g, g = [f EXCEPT !.origin = v]
  PROVE  g \in Future /\ g.pc = f.pc /\ g.call = f.call /\ Same(g, f)
BY OtherFieldChanges

LEMMA VerdictSet ==
  ASSUME NEW f \in Future, NEW v \in Verdicts, NEW g, g = [f EXCEPT !.verdict = v]
  PROVE  g \in Future /\ g.pc = f.pc /\ g.call = f.call /\ Same(g, f)
BY OtherFieldChanges

LEMMA OkSet ==
  ASSUME NEW f \in Future, NEW v \in BOOLEAN, NEW g, g = [f EXCEPT !.ok = v]
  PROVE  g \in Future /\ g.pc = f.pc /\ g.call = f.call /\ Same(g, f)
BY OtherFieldChanges

LEMMA GidSet ==
  ASSUME NEW f \in Future, NEW v \in Nat \X Nat, NEW g, g = [f EXCEPT !.gid = v]
  PROVE  g \in Future /\ g.pc = f.pc /\ g.call = f.call /\ Same(g, f)
BY OtherFieldChanges

LEMMA CounterChanges ==
  ASSUME NEW f \in Future
  PROVE  /\ \A v \in Nat : LET g == [f EXCEPT !.step = v]
              IN /\ g \in Future /\ g.step = v
                 /\ g.pc = f.pc /\ g.call = f.call /\ Same(g, f)
         /\ \A v \in Nat : LET g == [f EXCEPT !.fails = v]
              IN /\ g \in Future /\ g.fails = v
                 /\ g.pc = f.pc /\ g.call = f.call /\ Same(g, f)
         /\ \A v \in Nat : LET g == [f EXCEPT !.at = v]
              IN /\ g \in Future /\ g.at = v
                 /\ g.pc = f.pc /\ g.call = f.call /\ Same(g, f)
BY DEF Future, Same

\* A call handed on to the code that runs it, refuses it or asks about it.
HandOn(f, pc, call, at, origin) ==
  [f EXCEPT !.pc = pc, !.call = call, !.at = at, !.origin = origin]

Origins == {"decision", "continue", "approval"}

LEMMA HandedOn ==
  ASSUME NEW f \in Future, NEW pc \in Pcs, NEW call \in Nat, NEW at \in Nat,
         NEW origin \in Origins
  PROVE  \E g \in Future : /\ g = HandOn(f, pc, call, at, origin)
                           /\ g.pc = pc /\ g.call = call /\ Same(g, f)
<1>1. PICK f1 : f1 = [f EXCEPT !.pc = pc]
  OBVIOUS
<1>2. PICK f2 : f2 = [f1 EXCEPT !.call = call]
  OBVIOUS
<1>3. PICK f3 : f3 = [f2 EXCEPT !.at = at]
  OBVIOUS
<1>4. PICK g : g = [f3 EXCEPT !.origin = origin]
  OBVIOUS
<1>5. f1 \in Future /\ f1.pc = pc /\ Same(f1, f)
  BY <1>1, FieldChanges DEF Same
<1>6. f2 \in Future /\ f2.pc = pc /\ f2.call = call /\ Same(f2, f)
  BY <1>2, <1>5, FieldChanges DEF Same
<1>7. f3 \in Future /\ f3.pc = pc /\ f3.call = call /\ Same(f3, f)
  BY <1>3, <1>6, CounterChanges DEF Same
<1>8. g \in Future /\ g.pc = pc /\ g.call = call /\ Same(g, f)
  BY <1>4, <1>7, OriginSet DEF Same, Origins
<1> QED BY <1>1, <1>2, <1>3, <1>4, <1>8, Zenon DEF HandOn

\* The step and failure counts of the first upto records.
Count(f, pc, upto, step, fails) ==
  [f EXCEPT !.pc = pc, !.upto = upto, !.step = step, !.fails = fails]

LEMMA Counted ==
  ASSUME NEW f \in Future, NEW pc \in Pcs, NEW upto \in Nat, NEW step \in Nat,
         NEW fails \in Nat
  PROVE  \E g \in Future :
           /\ g = Count(f, pc, upto, step, fails)
           /\ g.pc = pc /\ g.upto = upto /\ g.token = f.token /\ g.trig = f.trig
<1>1. PICK f1 : f1 = [f EXCEPT !.pc = pc]
  OBVIOUS
<1>2. PICK f2 : f2 = [f1 EXCEPT !.upto = upto]
  OBVIOUS
<1>3. PICK f3 : f3 = [f2 EXCEPT !.step = step]
  OBVIOUS
<1>4. PICK g : g = [f3 EXCEPT !.fails = fails]
  OBVIOUS
<1>5. f1 \in Future /\ f1.pc = pc /\ f1.token = f.token /\ f1.trig = f.trig
  BY <1>1, FieldChanges
<1>6. /\ f2 \in Future /\ f2.pc = pc /\ f2.upto = upto
      /\ f2.token = f.token /\ f2.trig = f.trig
  BY <1>2, <1>5, FieldChanges
<1>7. /\ f3 \in Future /\ f3.pc = pc /\ f3.upto = upto
      /\ f3.token = f.token /\ f3.trig = f.trig
  BY <1>3, <1>6, CounterChanges DEF Same
<1>8. /\ g \in Future /\ g.pc = pc /\ g.upto = upto
      /\ g.token = f.token /\ g.trig = f.trig
  BY <1>4, <1>7, CounterChanges DEF Same
<1> QED BY <1>1, <1>2, <1>3, <1>4, <1>8, Zenon DEF Count

\* The future after its graph has settled.
LEMMA ResumedFacts ==
  ASSUME NEW f \in Future, NEW b \in BOOLEAN
  PROVE  LET g == Resumed(f, b)
         IN /\ g \in Future /\ g.pc \in {"idle", "step"}
            /\ Same(g, f) \/ g = Idle
<1>1. /\ f.step \in Nat /\ f.at + 1 \in Nat /\ f.fails \in Nat
      /\ f.fails + (IF b THEN 1 ELSE 0) \in Nat
  BY DEF Future
<1>2. CASE f.origin = "decision"
  BY <1>2 DEF Resumed, Future, Idle, Verdicts, Pcs
<1>3. CASE f.origin = "continue"
  <2>1. PICK f1 : f1 = [f EXCEPT !.pc = "step"]
    OBVIOUS
  <2>2. "step" \in Pcs
    BY DEF Pcs
  <2>3. f1 \in Future /\ f1.pc = "step" /\ Same(f1, f)
    BY <2>1, <2>2, FieldChanges DEF Same
  <2>4. Resumed(f, b) = f1
    BY <1>3, <2>1, Zenon DEF Resumed
  <2> QED BY <2>3, <2>4
<1>4. CASE f.origin = "approval"
  <2>1. PICK step \in Nat, fails \in Nat :
          step = f.at + 1 /\ fails = f.fails + (IF b THEN 1 ELSE 0)
    BY <1>1
  <2>2. PICK f1 : f1 = [f EXCEPT !.pc = "step"]
    OBVIOUS
  <2>3. PICK f2 : f2 = [f1 EXCEPT !.step = step]
    OBVIOUS
  <2>4. PICK f3 : f3 = [f2 EXCEPT !.fails = fails]
    OBVIOUS
  <2>5. f3 = [f EXCEPT !.pc = "step", !.step = step, !.fails = fails]
    BY <2>2, <2>3, <2>4, Zenon
  <2>6. Resumed(f, b) = [f EXCEPT !.pc = "step", !.step = step, !.fails = fails]
    BY <1>4, <2>1, Zenon DEF Resumed
  <2>7. "step" \in Pcs
    BY DEF Pcs
  <2>8. f1 \in Future /\ f1.pc = "step" /\ Same(f1, f)
    BY <2>2, <2>7, FieldChanges DEF Same
  <2>9. f2 \in Future /\ f2.pc = "step" /\ Same(f2, f)
    BY <2>3, <2>8, CounterChanges DEF Same
  <2>10. f3 \in Future /\ f3.pc = "step" /\ Same(f3, f)
    BY <2>4, <2>9, CounterChanges DEF Same
  <2>11. Resumed(f, b) = f3
    BY <2>5, <2>6, Zenon
  <2> QED BY <2>10, <2>11
<1> QED BY <1>2, <1>3, <1>4 DEF Future

-----------------------------------------------------------------------------
(* Each step keeps the invariant. *)

LEMMA Known ==
  ASSUME KernelInv, NEW d \in Drivers
  PROVE  \E f \in Future :
           /\ f = run[d] /\ Typed(f) /\ Gated(f)
           /\ f.key \in Keys \cup {NoKey} /\ f.trig \in Nat /\ f.token \in Nat
           /\ f.upto \in 0 .. Len(log) /\ f.at \in Nat /\ f.call \in Nat /\ f.step \in Nat
           /\ f.verdict \in Verdicts
<1>1. PICK f : f = run[d]
  OBVIOUS
<1>2. f \in Future /\ log \in Seq(Entry) /\ Len(log) \in Nat
  BY <1>1 DEF KernelInv, TypeOK
<1>3. Typed(f) /\ Gated(f)
  BY <1>1, <1>2 DEF KernelInv, TypeOK, Typed
<1>4. /\ f.key \in Keys \cup {NoKey} /\ f.trig \in Nat /\ f.token \in Nat /\ f.upto \in Nat
      /\ f.at \in Nat /\ f.call \in Nat /\ f.step \in Nat /\ f.verdict \in Verdicts
  BY <1>2 DEF Future
<1>5. f.upto \in 0 .. Len(log)
  BY <1>2, <1>3, <1>4 DEF Typed
<1> QED BY <1>1, <1>2, <1>3, <1>4, <1>5

LEMMA IdleFits ==
  ASSUME log \in Seq(Entry), Appends
  PROVE  Idle \in Future /\ Typed(Idle)' /\ Gated(Idle)'
<1>1. Idle \in Future
  BY DEF Idle, Future, Verdicts, Pcs
<1>2. Len(log') \in Nat
  BY LedgerGrows
<1>3. /\ Idle.pc = "idle" /\ Idle.token = 0 /\ Idle.upto = 0 /\ Idle.trig = 0
  BY DEF Idle
<1> QED BY <1>1, <1>2, <1>3 DEF Typed, Gated

LEMMA StillTyped ==
  ASSUME NEW f, NEW g \in Future, Typed(f)', Same(g, f)
  PROVE  Typed(g)'
BY DEF Typed, Same

LEMMA Reads ==
  ASSUME KernelInv, NEW d \in Drivers, NEW g, Typed(g)', Gated(g)', log' = log,
         run' = [run EXCEPT ![d] = g], UNCHANGED Bounds
  PROVE  KernelInv'
<1>1. requests' \in 0 .. MaxRequests /\ interruptions' \in 0 .. MaxInterruptions
  BY DEF KernelInv, TypeOK, Bounds
<1> QED BY <1>1, LedgerSame, FutureMoves

LEMMA Writes ==
  ASSUME KernelInv, NEW d \in Drivers, NEW g, Typed(g)', Gated(g)',
         NEW rec \in Entry, Write(rec),
         rec.kind \in {"Graph", "Done"} => Permitted(rec.call),
         rec.kind = "Pending" => rec.call \in 1 .. Len(log),
         run' = [run EXCEPT ![d] = g], UNCHANGED Bounds
  PROVE  KernelInv'
<1>1. requests' \in 0 .. MaxRequests /\ interruptions' \in 0 .. MaxInterruptions
  BY DEF KernelInv, TypeOK, Bounds
<1>2. LedgerOK' /\ ApprovalGate' /\ Appends
  BY LedgerStep DEF Appends
<1> QED BY <1>1, <1>2, FutureMoves

LEMMA DeliverKeeps ==
  ASSUME KernelInv, NEW d \in Drivers, NEW key \in Keys \cup {NoKey},
         NEW token \in Nat, NEW verdict \in Verdicts,
         token # 0 => token \in All("Pending"), Deliver(d, key, token, verdict)
  PROVE  KernelInv'
<1>1. log' = log /\ requests' \in 0 .. MaxRequests /\ interruptions' \in 0 .. MaxInterruptions
  BY KernelAssumption DEF Deliver, KernelInv, TypeOK
<1>2. LedgerOK' /\ ApprovalGate' /\ Appends /\ log \in Seq(Entry)
  BY <1>1, LedgerSame DEF KernelInv, TypeOK
<1>3. PICK f \in Future : f = run[d] /\ Typed(f) /\ Gated(f)
  BY Known
<1>4. Typed(f)' /\ Gated(f)'
  BY <1>2, <1>3, FutureStays
<1>5. CASE UNCHANGED run
  <2>1. run' = [run EXCEPT ![d] = f]
    BY <1>3, <1>5 DEF KernelInv, TypeOK
  <2> QED BY <1>1, <1>2, <1>4, <2>1, FutureMoves
<1>6. CASE run' = [run EXCEPT ![d].pc = "accept", ![d].key = key,
                              ![d].token = token, ![d].verdict = verdict]
  <2>1. PICK f1 : f1 = [f EXCEPT !.pc = "accept"]
    OBVIOUS
  <2>2. PICK f2 : f2 = [f1 EXCEPT !.key = key]
    OBVIOUS
  <2>3. PICK f3 : f3 = [f2 EXCEPT !.token = token]
    OBVIOUS
  <2>4. PICK g : g = [f3 EXCEPT !.verdict = verdict]
    OBVIOUS
  <2>5. run' = [run EXCEPT ![d] = g]
    BY <1>3, <1>6, <2>1, <2>2, <2>3, <2>4, Zenon
  <2>6. "accept" \in Pcs
    BY DEF Pcs
  <2>7. f1 \in Future /\ f1.pc = "accept" /\ Same(f1, f)
    BY <2>1, <2>6, FieldChanges DEF Same
  <2>8. f2 \in Future /\ f2.pc = "accept" /\ Same(f2, f)
    BY <2>2, <2>7, FieldChanges DEF Same
  <2>9. /\ f3 \in Future /\ f3.pc = "accept" /\ f3.token = token
        /\ f3.upto = f.upto /\ f3.trig = f.trig
    BY <2>3, <2>8, FieldChanges DEF Same
  <2>10. /\ g \in Future /\ g.pc = "accept" /\ g.token = token
         /\ g.upto = f.upto /\ g.trig = f.trig
    BY <2>4, <2>9, VerdictSet DEF Same
  <2>11. token # 0 => token \in All("Pending")'
    BY <1>2, LedgerGrows
  <2>12. Typed(g)' /\ Gated(g)'
    BY <1>4, <2>10, <2>11 DEF Typed, Gated
  <2> QED BY <1>1, <1>2, <2>5, <2>12, FutureMoves
<1> QED BY <1>5, <1>6 DEF Deliver

LEMMA AppendTriggerKeeps ==
  ASSUME KernelInv, NEW d \in Drivers, AppendTrigger(d)
  PROVE  KernelInv'
<1>1. log \in Seq(Entry) /\ run \in [Drivers -> Future]
  BY DEF KernelInv, TypeOK
<1>2. PICK f \in Future : f = run[d] /\ Typed(f) /\ Gated(f) /\ f.key \in Keys \cup {NoKey}
  BY Known
<1>3. Trigger(f.key) \in Entry /\ Write(Trigger(f.key)) /\ Trigger(f.key).kind = "Trigger"
  BY <1>2 DEF AppendTrigger, Trigger, Entry
<1>4. Appends /\ Len(log') = Here /\ Here \in Nat
  BY <1>1, <1>3, NewRecord
<1>5. Typed(f)'
  BY <1>1, <1>2, <1>4, FutureStays
<1>6. PICK h : h = Here
  OBVIOUS
<1>7. PICK f1 : f1 = [f EXCEPT !.pc = "load"]
  OBVIOUS
<1>8. PICK g : g = [f1 EXCEPT !.trig = h]
  OBVIOUS
<1>9. run' = [run EXCEPT ![d] = g]
  BY <1>2, <1>6, <1>7, <1>8, Zenon DEF AppendTrigger
<1>10. "load" \in Pcs /\ h \in Nat
  BY <1>4, <1>6 DEF Pcs
<1>11. f1 \in Future /\ f1.pc = "load" /\ Same(f1, f)
  BY <1>7, <1>10, FieldChanges DEF Same
<1>12. /\ g \in Future /\ g.pc = "load" /\ g.trig = h
       /\ g.token = f.token /\ g.upto = f.upto
  BY <1>8, <1>10, <1>11, FieldChanges DEF Same
<1>13. Typed(g)' /\ Gated(g)'
  BY <1>4, <1>5, <1>6, <1>12 DEF Typed, Gated
<1>14. UNCHANGED Bounds
  BY DEF AppendTrigger
<1> QED BY <1>3, <1>9, <1>13, <1>14, Writes

LEMMA LoadKeeps ==
  ASSUME KernelInv, NEW d \in Drivers, Load(d)
  PROVE  KernelInv'
<1>1. /\ log \in Seq(Entry) /\ Len(log) \in Nat /\ log' = log /\ UNCHANGED Bounds
      /\ run \in [Drivers -> Future]
  BY DEF KernelInv, TypeOK, Load, Bounds
<1>2. PICK f \in Future : f = run[d] /\ Typed(f) /\ Gated(f)
  BY Known
<1>3. PICK upto \in Nat, step \in Nat, fails \in Nat :
        /\ upto = Len(log) /\ step = StepCount(Len(log)) /\ fails = FailureSteps(Len(log))
  BY <1>1, CountFacts
<1>4. PICK pc \in Pcs : pc = IF f.token = 0 THEN "step" ELSE "lookup"
  BY DEF Pcs
<1>5. PICK g \in Future :
        /\ g = Count(f, pc, upto, step, fails)
        /\ g.pc = pc /\ g.upto = upto /\ g.token = f.token /\ g.trig = f.trig
  BY Counted
<1>6. run' = [run EXCEPT ![d] = g]
  BY <1>2, <1>3, <1>4, <1>5, Zenon DEF Load, Count
<1>7. Typed(f)'
  BY <1>1, <1>2, FutureStays DEF Appends
<1>8. Typed(g)' /\ Gated(g)'
  BY <1>1, <1>3, <1>4, <1>5, <1>7 DEF Typed, Gated
<1> QED BY <1>1, <1>6, <1>8, Reads

\* Where an approval hands its call, and that it may be run there.
LEMMA ResumeFacts ==
  ASSUME KernelInv, Appends, NEW d \in Drivers, NEW verdict \in Verdicts, Resume(d, verdict),
         run[d].token # 0,
         verdict = "Approved" =>
           \E r \in All("Resolution")' : log'[r].token = run[d].token
                                         /\ log'[r].verdict = "Approved"
  PROVE  \E g \in Future : run' = [run EXCEPT ![d] = g] /\ Typed(g)' /\ Gated(g)'
<1>1. log \in Seq(Entry) /\ run \in [Drivers -> Future]
  BY DEF KernelInv, TypeOK
<1>2. PICK f \in Future : f = run[d] /\ Typed(f) /\ Gated(f)
  BY Known
<1>3. /\ f.token \in All("Pending") /\ f.token \in 1 .. Len(log)
      /\ log[f.token].kind = "Pending" /\ f.token # 0
  BY <1>2 DEF Typed, All, Records
<1>4. PICK call \in Nat, at \in Nat :
        /\ call = log[f.token].call /\ at = log[f.token].step
        /\ call \in 1 .. Len(log)
  BY <1>1, <1>3, EntryFacts DEF KernelInv, LedgerOK
<1>5. PICK pc \in Pcs : pc = IF verdict = "Approved" THEN "graph" ELSE "reject"
  BY DEF Pcs
<1>6. PICK g \in Future :
        /\ g = HandOn(f, pc, call, at, "approval")
        /\ g.pc = pc /\ g.call = call /\ Same(g, f)
  <2>1. "approval" \in Origins
    BY DEF Origins
  <2> QED BY <2>1, HandedOn
<1>7. run' = [run EXCEPT ![d] = g]
  BY <1>2, <1>4, <1>5, <1>6, Zenon DEF Resume, HandOn
<1>8. Typed(f)' /\ Typed(g)'
  BY <1>1, <1>2, <1>6, FutureStays, StillTyped
<1>9. /\ call \in 1 .. Len(log') /\ f.token \in All("Pending")'
      /\ log'[f.token] = log[f.token]
  BY <1>1, <1>3, <1>4, LedgerGrows
<1>10. pc = "graph" => Permitted(call)'
  <2> SUFFICES ASSUME pc = "graph" PROVE Permitted(call)'
    OBVIOUS
  <2>1. PICK r \in All("Resolution")' :
          log'[r].token = f.token /\ log'[r].verdict = "Approved"
    BY <1>2, <1>5
  <2> QED BY <1>4, <1>9, <2>1 DEF Permitted
<1>11. Gated(g)'
  BY <1>5, <1>6, <1>10 DEF Gated
<1> QED BY <1>7, <1>8, <1>11

LEMMA LookUpKeeps ==
  ASSUME KernelInv, NEW d \in Drivers, LookUp(d)
  PROVE  KernelInv'
<1>1. /\ log \in Seq(Entry) /\ Len(log) \in Nat /\ log' = log /\ UNCHANGED Bounds
      /\ run \in [Drivers -> Future] /\ Appends
  BY DEF KernelInv, TypeOK, LookUp, Bounds, Appends
<1>2. PICK f \in Future :
        f = run[d] /\ Typed(f) /\ Gated(f) /\ f.token # 0 /\ f.upto \in 0 .. Len(log)
  BY Known DEF LookUp, At, Gated
<1>3. Typed(f)'
  BY <1>1, <1>2, FutureStays
<1>4. ASSUME NEW pc \in {"resolve", "finish"}, run' = [run EXCEPT ![d].pc = pc]
      PROVE  KernelInv'
  <2>1. PICK g : g = [f EXCEPT !.pc = pc]
    OBVIOUS
  <2>2. g \in Future /\ g.pc = pc /\ Same(g, f)
    <3>1. pc \in Pcs
      BY <1>4 DEF Pcs
    <3> QED BY <2>1, <3>1, FieldChanges DEF Same
  <2>3. run' = [run EXCEPT ![d] = g]
    BY <1>2, <1>4, <2>1, Zenon
  <2>4. Typed(g)' /\ Gated(g)'
    BY <1>2, <1>3, <2>2, StillTyped DEF Gated, Same
  <2> QED BY <1>1, <2>3, <2>4, Reads
<1>5. ASSUME ResolutionsOf(f.token, f.upto) # {},
             Resume(d, log[Min(ResolutionsOf(f.token, f.upto))].verdict)
      PROVE  KernelInv'
  <2> DEFINE r == Min(ResolutionsOf(f.token, f.upto))
  <2>1. r \in ResolutionsOf(f.token, f.upto)
    <3>1. ResolutionsOf(f.token, f.upto) \in SUBSET Nat
      BY DEF ResolutionsOf, Records
    <3> QED BY <1>5, <3>1, MinIn
  <2>2. r \in All("Resolution") /\ log[r].token = f.token /\ r \in 1 .. Len(log)
    <3>1. r \in Records(f.upto, "Resolution") /\ log[r].token = f.token
      BY <2>1 DEF ResolutionsOf
    <3>2. r \in 1 .. f.upto /\ log[r].kind = "Resolution"
      BY <3>1 DEF Records
    <3>3. r \in 1 .. Len(log)
      BY <1>1, <1>2, <3>2
    <3> QED BY <3>1, <3>2, <3>3 DEF All, Records
  <2>3. log[r].verdict \in Verdicts
    BY <1>1, <2>2, EntryFacts DEF All, Records
  <2>4. r \in All("Resolution")' /\ log'[r] = log[r]
    BY <1>1, <2>2 DEF All, Records
  <2>5. PICK g \in Future : run' = [run EXCEPT ![d] = g] /\ Typed(g)' /\ Gated(g)'
    BY <1>1, <1>2, <1>5, <2>2, <2>3, <2>4, ResumeFacts
  <2> QED BY <1>1, <2>5, Reads
<1> QED BY <1>2, <1>4, <1>5 DEF LookUp

LEMMA ResolveKeeps ==
  ASSUME KernelInv, NEW d \in Drivers, Resolve(d)
  PROVE  KernelInv'
<1>1. log \in Seq(Entry) /\ UNCHANGED Bounds
  BY DEF KernelInv, TypeOK, Resolve
<1>2. PICK f \in Future :
        /\ f = run[d] /\ f.token # 0 /\ f.token \in Nat /\ f.verdict \in Verdicts
  BY Known DEF Resolve, At, Gated
<1>3. PICK rec \in Entry :
        /\ rec = Resolution(f.token, f.verdict) /\ rec.kind = "Resolution"
        /\ rec.token = f.token /\ rec.verdict = f.verdict
  <2>1. Resolution(f.token, f.verdict) \in Entry
    BY <1>2 DEF Resolution, Entry, Position
  <2> QED BY <2>1 DEF Resolution
<1>4. Write(rec)
  BY <1>2, <1>3 DEF Resolve
<1>5. Appends /\ Len(log') = Here /\ Here \in Nat /\ Here > Len(log) /\ log'[Here] = rec
  BY <1>1, <1>4, NewRecord
<1>6. Here \in All("Resolution")'
  BY <1>1, <1>3, <1>5 DEF All, Records
<1>7. PICK g \in Future : run' = [run EXCEPT ![d] = g] /\ Typed(g)' /\ Gated(g)'
  BY <1>2, <1>3, <1>5, <1>6, ResumeFacts DEF Resolve
<1> QED BY <1>1, <1>3, <1>4, <1>7, Writes

LEMMA ContinueKeeps ==
  ASSUME KernelInv, NEW d \in Drivers, Continue(d)
  PROVE  KernelInv'
<1>1. /\ log \in Seq(Entry) /\ Len(log) \in Nat /\ log' = log /\ UNCHANGED Bounds
      /\ run \in [Drivers -> Future] /\ Appends /\ Open(Len(log))
  BY DEF KernelInv, TypeOK, Continue, Bounds, Appends
<1>2. PICK f \in Future : f = run[d] /\ Typed(f) /\ Gated(f)
  BY Known
<1>3. Typed(f)'
  BY <1>1, <1>2, FutureStays
<1>4. PICK n \in Nat : n = Len(log)
  BY <1>1
<1>5. PICK trig \in Nat, key \in Keys \cup {NoKey} :
        /\ trig = ActiveTrigger(n) /\ key = log[ActiveTrigger(n)].key /\ trig <= n
  BY <1>1, <1>4, ActiveTriggerFacts
<1>6. PICK step \in Nat, fails \in Nat : step = StepCount(n) /\ fails = FailureSteps(n)
  BY CountFacts
<1>7. PICK f1 : f1 = [f EXCEPT !.trig = trig]
  OBVIOUS
<1>8. PICK f2 : f2 = [f1 EXCEPT !.key = key]
  OBVIOUS
<1>9. PICK f3 : f3 = [f2 EXCEPT !.upto = n]
  OBVIOUS
<1>10. PICK f4 : f4 = [f3 EXCEPT !.step = step]
  OBVIOUS
<1>11. PICK base : base = [f4 EXCEPT !.fails = fails]
  OBVIOUS
<1>12. f1 \in Future /\ f1.trig = trig /\ f1.token = f.token
  BY <1>7, FieldChanges
<1>13. f2 \in Future /\ f2.trig = trig /\ f2.token = f.token
  BY <1>8, <1>12, FieldChanges DEF Same
<1>14. f3 \in Future /\ f3.trig = trig /\ f3.token = f.token /\ f3.upto = n
  BY <1>9, <1>13, FieldChanges
<1>15. f4 \in Future /\ f4.trig = trig /\ f4.token = f.token /\ f4.upto = n
  BY <1>10, <1>14, CounterChanges DEF Same
<1>16. base \in Future /\ base.trig = trig /\ base.token = f.token /\ base.upto = n
  BY <1>11, <1>15, CounterChanges DEF Same
<1>17. Typed(base)'
  BY <1>1, <1>3, <1>4, <1>5, <1>16 DEF Typed
<1>18. base = [run[d] EXCEPT !.trig = ActiveTrigger(n), !.key = log[ActiveTrigger(n)].key,
                             !.upto = n, !.step = StepCount(n), !.fails = FailureSteps(n)]
  BY <1>2, <1>5, <1>6, <1>7, <1>8, <1>9, <1>10, <1>11, Zenon
<1>19. CASE GraphActive(n)
  <2>1. LastGraph(n) \in All("Graph") /\ log[LastGraph(n)].call \in Nat
        /\ log[LastGraph(n)].step \in Nat
    BY <1>1, <1>4, <1>19, LastGraphFacts DEF GraphActive, All
  <2>2. PICK call \in Nat, at \in Nat :
          /\ call = log[LastGraph(n)].call /\ at = log[LastGraph(n)].step
          /\ Permitted(call)
    BY <2>1 DEF KernelInv, LedgerOK
  <2>3. "continue" \in Origins /\ "graph" \in Pcs
    BY DEF Origins, Pcs
  <2>4. PICK g \in Future : /\ g = HandOn(base, "graph", call, at, "continue")
                            /\ g.pc = "graph" /\ g.call = call /\ Same(g, base)
    BY <1>16, <2>3, HandedOn
  <2>5. run' = [run EXCEPT ![d] = g]
    BY <1>4, <1>18, <1>19, <2>2, <2>4, Zenon DEF Continue, HandOn
  <2>6. Permitted(call)'
    BY <1>1, <2>2, PermittedStays
  <2>7. Typed(g)' /\ Gated(g)'
    BY <1>17, <2>4, <2>6, StillTyped DEF Gated
  <2> QED BY <1>1, <2>5, <2>7, Reads
<1>20. CASE ~GraphActive(n)
  <2>1. PICK g : g = [base EXCEPT !.pc = "step"]
    OBVIOUS
  <2>2. "step" \in Pcs
    BY DEF Pcs
  <2>3. g \in Future /\ g.pc = "step" /\ Same(g, base)
    BY <1>16, <2>1, <2>2, FieldChanges DEF Same
  <2>4. run' = [run EXCEPT ![d] = g]
    BY <1>4, <1>18, <1>20, <2>1, Zenon DEF Continue
  <2>5. Typed(g)' /\ Gated(g)'
    BY <1>17, <2>3, StillTyped DEF Gated
  <2> QED BY <1>1, <2>4, <2>5, Reads
<1> QED BY <1>19, <1>20

LEMMA StopKeeps ==
  ASSUME KernelInv, NEW d \in Drivers, Stop(d)
  PROVE  KernelInv'
<1>1. /\ log \in Seq(Entry) /\ log' = log /\ UNCHANGED Bounds /\ Appends
      /\ run \in [Drivers -> Future]
  BY DEF KernelInv, TypeOK, Stop, Bounds, Appends
<1>2. PICK f \in Future : f = run[d] /\ Typed(f) /\ Gated(f)
  BY Known
<1>3. PICK g : g = [f EXCEPT !.pc = "finish"]
  OBVIOUS
<1>4. "finish" \in Pcs
  BY DEF Pcs
<1>5. g \in Future /\ g.pc = "finish" /\ Same(g, f)
  BY <1>3, <1>4, FieldChanges DEF Same
<1>6. run' = [run EXCEPT ![d] = g]
  BY <1>2, <1>3, Zenon DEF Stop
<1>7. Typed(g)' /\ Gated(g)'
  BY <1>1, <1>2, <1>5, FutureStays, StillTyped DEF Gated
<1> QED BY <1>1, <1>6, <1>7, Reads

LEMMA DecideKeeps ==
  ASSUME KernelInv, NEW d \in Drivers, NEW act \in Acts, Decide(d, act)
  PROVE  KernelInv'
<1>1. log \in Seq(Entry) /\ run \in [Drivers -> Future] /\ UNCHANGED Bounds
  BY DEF KernelInv, TypeOK, Decide
<1>2. PICK f \in Future :
        /\ f = run[d] /\ Typed(f) /\ Gated(f) /\ f.trig \in Nat /\ f.step \in Nat
  BY Known
<1>3. PICK rec \in Entry : /\ rec = Decision(f.trig, f.step, act)
                           /\ rec.kind = "Decision" /\ rec.act = act
  <2>1. Decision(f.trig, f.step, act) \in Entry
    BY <1>2 DEF Decision, Entry, Position
  <2> QED BY <2>1 DEF Decision
<1>4. Write(rec)
  BY <1>2, <1>3 DEF Decide
<1>5. Appends /\ Len(log') = Here /\ Here \in Nat /\ Here > Len(log) /\ log'[Here] = rec
  BY <1>1, <1>4, NewRecord
<1>6. CASE act = "Continue"
  <2>1. run' = [run EXCEPT ![d] = Idle]
    BY <1>6 DEF Decide, Return
  <2> QED BY <1>1, <1>3, <1>4, <1>5, <2>1, IdleFits, Writes
<1>7. CASE act # "Continue"
  <2>1. /\ Handler[act] \in {"finish", "deliberate", "graph", "suspend"}
        /\ act = "Ask" => Handler[act] = "suspend"
    BY <1>7, KernelAssumption DEF AllActs, Handler
  <2>2. PICK pc \in Pcs : /\ pc = Handler[act]
                          /\ act = "Ask" => pc = "suspend"
                          /\ pc \in {"finish", "deliberate", "graph", "suspend"}
    BY <2>1 DEF Pcs
  <2>3. PICK call \in Nat : call = Here
    BY <1>5
  <2>4. "decision" \in Origins
    BY DEF Origins
  <2>5. PICK g \in Future : /\ g = HandOn(f, pc, call, f.step, "decision")
                            /\ g.pc = pc /\ g.call = call /\ Same(g, f)
    BY <1>2, <2>4, HandedOn
  <2>6. run' = [run EXCEPT ![d] = g]
    <3>1. run' = [run EXCEPT ![d].pc = Handler[act], ![d].call = Here, ![d].at = run[d].step,
                             ![d].origin = "decision"]
      BY <1>7, Zenon DEF Decide
    <3> QED BY <1>2, <2>2, <2>3, <2>5, <3>1, Zenon DEF HandOn
  <2>7. call \in 1 .. Len(log') /\ log'[call] = rec
    BY <1>1, <1>5, <2>3 DEF Here
  <2>8. pc = "graph" => Permitted(call)'
    <3>1. pc = "graph" => act # "Ask"
      BY <2>2
    <3>2. log'[call].act = act
      BY <1>3, <2>7
    <3> QED BY <2>7, <3>1, <3>2 DEF Permitted
  <2>9. Typed(g)' /\ Gated(g)'
    BY <1>1, <1>2, <1>5, <2>2, <2>5, <2>7, <2>8, FutureStays, StillTyped DEF Gated
  <2> QED BY <1>1, <1>3, <1>4, <2>6, <2>9, Writes
<1> QED BY <1>6, <1>7

\* A record about no call, and an advance that returns.
LEMMA DeliberateFinishKeep ==
  ASSUME KernelInv, NEW d \in Drivers, Deliberate(d) \/ Finish(d)
  PROVE  KernelInv'
<1>1. log \in Seq(Entry) /\ UNCHANGED Bounds /\ run' = [run EXCEPT ![d] = Idle]
  BY DEF KernelInv, TypeOK, Deliberate, Finish, Return
<1>2. PICK f \in Future : f = run[d] /\ f.trig \in Nat /\ f.key \in Keys \cup {NoKey}
  BY Known
<1>3. Deliberation \in Entry /\ Deliberation.kind = "Deliberation"
  BY DEF Deliberation, Entry
<1>4. Outcome(f.trig, f.key) \in Entry /\ Outcome(f.trig, f.key).kind = "Outcome"
  BY <1>2 DEF Outcome, Entry, Position
<1>5. PICK rec \in Entry : rec.kind \in {"Deliberation", "Outcome"} /\ Write(rec)
  BY <1>2, <1>3, <1>4 DEF Deliberate, Finish
<1>6. Appends
  BY <1>5 DEF Appends
<1> QED BY <1>1, <1>5, <1>6, IdleFits, Writes

LEMMA SuspendKeeps ==
  ASSUME KernelInv, NEW d \in Drivers, Suspend(d)
  PROVE  KernelInv'
<1>1. log \in Seq(Entry) /\ UNCHANGED Bounds /\ run \in [Drivers -> Future]
  BY DEF KernelInv, TypeOK, Suspend
<1>2. PICK f \in Future :
        /\ f = run[d] /\ Typed(f) /\ Gated(f) /\ f.at \in Nat /\ f.call \in Nat
        /\ f.call \in 1 .. Len(log)
  BY Known DEF Suspend, At, Gated
<1>3. PICK rec \in Entry :
        rec = Pending(f.at, f.call) /\ rec.kind = "Pending" /\ rec.call = f.call
  <2>1. Pending(f.at, f.call) \in Entry
    BY <1>2 DEF Pending, Entry, Position
  <2> QED BY <2>1 DEF Pending
<1>4. Write(rec) /\ Appends
  BY <1>2, <1>3 DEF Suspend, Appends
<1>5. PICK g : g = [f EXCEPT !.pc = "finish"]
  OBVIOUS
<1>6. "finish" \in Pcs
  BY DEF Pcs
<1>7. g \in Future /\ g.pc = "finish" /\ Same(g, f)
  BY <1>5, <1>6, FieldChanges DEF Same
<1>8. run' = [run EXCEPT ![d] = g]
  BY <1>2, <1>5, Zenon DEF Suspend
<1>9. Typed(g)' /\ Gated(g)'
  BY <1>1, <1>2, <1>4, <1>7, FutureStays, StillTyped DEF Gated
<1> QED BY <1>1, <1>2, <1>3, <1>4, <1>8, <1>9, Writes

LEMMA RecordGraphKeeps ==
  ASSUME KernelInv, NEW d \in Drivers, RecordGraph(d)
  PROVE  KernelInv'
<1>1. /\ log \in Seq(Entry) /\ Len(log) \in Nat /\ UNCHANGED Bounds
      /\ run \in [Drivers -> Future]
  BY DEF KernelInv, TypeOK, RecordGraph
<1>2. PICK f \in Future :
        /\ f = run[d] /\ Typed(f) /\ Gated(f) /\ f.at \in Nat /\ f.call \in Nat
        /\ f.trig \in Nat /\ f.upto \in 0 .. Len(log) /\ Permitted(f.call)
  BY Known DEF RecordGraph, At, Gated
<1>3. PICK gid \in Nat \X Nat : gid = GraphId(f.upto, f.trig, f.at, f.call)
  BY <1>1, <1>2, GraphIdFacts
<1>4. PICK f1 : f1 = [f EXCEPT !.pc = "execute"]
  OBVIOUS
<1>5. PICK g : g = [f1 EXCEPT !.gid = gid]
  OBVIOUS
<1>6. "execute" \in Pcs
  BY DEF Pcs
<1>7. f1 \in Future /\ f1.pc = "execute" /\ f1.call = f.call /\ Same(f1, f)
  BY <1>4, <1>6, FieldChanges DEF Same
<1>8. g \in Future /\ g.pc = "execute" /\ g.call = f.call /\ Same(g, f)
  BY <1>5, <1>7, GidSet DEF Same
<1>9. run' = [run EXCEPT ![d] = g]
  BY <1>2, <1>3, <1>4, <1>5, Zenon DEF RecordGraph
<1>10. ASSUME Appends PROVE Typed(g)' /\ Gated(g)'
  <2>1. Typed(f)' /\ Permitted(f.call)'
    BY <1>1, <1>2, <1>10, FutureStays, PermittedStays
  <2> QED BY <1>8, <2>1, StillTyped DEF Gated
<1>11. CASE log' = log
  BY <1>1, <1>9, <1>10, <1>11, Reads DEF Appends
<1>12. CASE Write(Graph(gid, f.at, f.call))
  <2>1. PICK rec \in Entry : /\ rec = Graph(gid, f.at, f.call)
                             /\ rec.kind = "Graph" /\ rec.call = f.call
    <3>1. Graph(gid, f.at, f.call) \in Entry
      BY <1>2 DEF Graph, Entry, Position
    <3> QED BY <3>1 DEF Graph
  <2>2. Write(rec) /\ Appends
    BY <1>12, <2>1 DEF Appends
  <2> QED BY <1>1, <1>2, <1>9, <1>10, <2>1, <2>2, Writes
<1> QED BY <1>2, <1>3, <1>11, <1>12 DEF RecordGraph

LEMMA ExecuteKeeps ==
  ASSUME KernelInv, NEW d \in Drivers, NEW ok \in BOOLEAN, Execute(d, ok)
  PROVE  KernelInv'
<1>1. log \in Seq(Entry) /\ UNCHANGED Bounds /\ run \in [Drivers -> Future]
  BY DEF KernelInv, TypeOK, Execute
<1>2. PICK f \in Future :
        /\ f = run[d] /\ Typed(f) /\ Gated(f) /\ f.call \in Nat /\ Permitted(f.call)
  BY Known DEF Execute, At, Gated
<1>3. PICK rec \in Entry :
        rec = Done(f.gid, f.call, ok) /\ rec.kind = "Done" /\ rec.call = f.call
  <2>1. f.gid \in Nat \X Nat
    BY DEF Future
  <2>2. Done(f.gid, f.call, ok) \in Entry
    BY <1>2, <2>1 DEF Done, Entry, Position
  <2> QED BY <2>2 DEF Done
<1>4. Write(rec) /\ Appends
  BY <1>2, <1>3 DEF Execute, Appends
<1>5. PICK f1 : f1 = [f EXCEPT !.pc = "result"]
  OBVIOUS
<1>6. PICK g : g = [f1 EXCEPT !.ok = ok]
  OBVIOUS
<1>7. "result" \in Pcs
  BY DEF Pcs
<1>8. f1 \in Future /\ f1.pc = "result" /\ Same(f1, f)
  BY <1>5, <1>7, FieldChanges DEF Same
<1>9. g \in Future /\ g.pc = "result" /\ Same(g, f)
  BY <1>6, <1>8, OkSet DEF Same
<1>10. run' = [run EXCEPT ![d] = g]
  BY <1>2, <1>5, <1>6, Zenon DEF Execute
<1>11. Typed(g)' /\ Gated(g)'
  BY <1>1, <1>2, <1>4, <1>9, FutureStays, StillTyped DEF Gated
<1> QED BY <1>1, <1>2, <1>3, <1>4, <1>10, <1>11, Writes

\* The graph has settled, or the call was refused, and the advance goes on.
LEMMA ResumedFits ==
  ASSUME log \in Seq(Entry), Appends, NEW f \in Future, Typed(f), Gated(f), NEW b \in BOOLEAN
  PROVE  Typed(Resumed(f, b))' /\ Gated(Resumed(f, b))'
<1>1. PICK g \in Future :
        /\ g = Resumed(f, b) /\ g.pc \in {"idle", "step"}
        /\ Same(g, f) \/ g = Idle
  BY ResumedFacts
<1>2. Typed(g)'
  BY <1>1, IdleFits, FutureStays, StillTyped
<1>3. Gated(g)'
  BY <1>1 DEF Gated
<1> QED BY <1>1, <1>2, <1>3

LEMMA ReuseKeeps ==
  ASSUME KernelInv, NEW d \in Drivers, Reuse(d)
  PROVE  KernelInv'
<1>1. log \in Seq(Entry) /\ log' = log /\ UNCHANGED Bounds /\ Appends
  BY DEF KernelInv, TypeOK, Reuse, Bounds, Appends
<1>2. PICK f \in Future : f = run[d] /\ Typed(f) /\ Gated(f)
  BY Known
<1>3. PICK g : g = Resumed(f, TRUE)
  OBVIOUS
<1>4. run' = [run EXCEPT ![d] = g]
  BY <1>2, <1>3, Zenon DEF Reuse
<1>5. Typed(g)' /\ Gated(g)'
  BY <1>1, <1>2, <1>3, ResumedFits
<1> QED BY <1>1, <1>4, <1>5, Reads

LEMMA ResultKeeps ==
  ASSUME KernelInv, NEW d \in Drivers, AppendResult(d) \/ Reject(d)
  PROVE  KernelInv'
<1>1. log \in Seq(Entry) /\ UNCHANGED Bounds
  BY DEF KernelInv, TypeOK, AppendResult, Reject
<1>2. PICK f \in Future :
        f = run[d] /\ Typed(f) /\ Gated(f) /\ f.call \in Nat /\ f.ok \in BOOLEAN
  BY Known DEF Future
<1>3. PICK ok \in BOOLEAN, b \in BOOLEAN :
        Write(Result(f.call, ok)) /\ run' = [run EXCEPT ![d] = Resumed(f, b)]
  <2>1. CASE AppendResult(d)
    <3>1. /\ Write(Result(f.call, f.ok))
          /\ run' = [run EXCEPT ![d] = Resumed(f, ~f.ok)]
      BY <1>2, <2>1, Zenon DEF AppendResult
    <3>2. (~f.ok) \in BOOLEAN
      OBVIOUS
    <3> QED BY <1>2, <3>1, <3>2, Zenon
  <2>2. CASE Reject(d)
    <3>1. /\ Write(Result(f.call, FALSE))
          /\ run' = [run EXCEPT ![d] = Resumed(f, TRUE)]
      BY <1>2, <2>2, Zenon DEF Reject
    <3> QED BY <3>1, Zenon
  <2> QED BY <2>1, <2>2
<1>4. PICK rec \in Entry : rec = Result(f.call, ok) /\ rec.kind = "Result"
  <2>1. Result(f.call, ok) \in Entry
    BY <1>2 DEF Result, Entry, Position
  <2> QED BY <2>1 DEF Result
<1>5. Write(rec) /\ Appends
  BY <1>3, <1>4 DEF Appends
<1>6. PICK g : g = Resumed(f, b)
  OBVIOUS
<1>7. Typed(g)' /\ Gated(g)'
  BY <1>1, <1>2, <1>5, <1>6, ResumedFits
<1> QED BY <1>1, <1>3, <1>4, <1>5, <1>6, <1>7, Writes

LEMMA InterruptKeeps ==
  ASSUME KernelInv, NEW d \in Drivers, Interrupt(d)
  PROVE  KernelInv'
<1>1. /\ log' = log /\ log \in Seq(Entry) /\ run' = [run EXCEPT ![d] = Idle]
      /\ requests' \in 0 .. MaxRequests /\ interruptions' \in 0 .. MaxInterruptions
  BY KernelAssumption DEF KernelInv, TypeOK, Interrupt, Return
<1>2. Appends /\ LedgerOK' /\ ApprovalGate'
  BY <1>1, LedgerSame
<1> QED BY <1>1, <1>2, IdleFits, FutureMoves

-----------------------------------------------------------------------------
(* The theorems. *)

LEMMA InitHolds ==
  ASSUME Init
  PROVE  KernelInv
<1>1. log = <<>> /\ log \in Seq(Entry) /\ Len(log) = 0
  BY DEF Init
<1>2. \A kind : All(kind) = {}
  BY <1>1 DEF All, Records
<1>3. /\ Idle \in Future /\ Idle.pc = "idle" /\ Idle.token = 0
      /\ Idle.upto = 0 /\ Idle.trig = 0
  BY DEF Idle, Future, Verdicts, Pcs
<1>4. run \in [Drivers -> Future] /\ \A d \in Drivers : run[d] = Idle
  BY <1>3 DEF Init
<1>5. TypeOK
  BY <1>1, <1>3, <1>4, KernelAssumption DEF Init, TypeOK
<1>6. \A d \in Drivers : Gated(run[d])
  BY <1>3, <1>4 DEF Gated
<1> QED BY <1>2, <1>5, <1>6 DEF KernelInv, LedgerOK, ApprovalGate

LEMMA StepKeeps ==
  ASSUME KernelInv, [Next]_vars
  PROVE  KernelInv'
<1>1. CASE UNCHANGED vars
  BY <1>1 DEF vars, KernelInv, TypeOK, Gated, LedgerOK, ApprovalGate, All, Records, Permitted,
              ResolutionsOf
<1>2. ASSUME NEW d \in Drivers, Arrive(d) PROVE KernelInv'
  <2>1. PICK key \in Keys \cup {NoKey} :
          \/ Deliver(d, key, 0, "Approved")
          \/ \E token \in All("Pending"), verdict \in Verdicts :
               Deliver(d, key, token, verdict)
    BY <1>2 DEF Arrive, All
  <2>2. "Approved" \in Verdicts /\ \A token \in All("Pending") : token \in Nat
    BY DEF Verdicts, All, Records
  <2> QED BY <2>1, <2>2, DeliverKeeps
<1>3. ASSUME NEW d \in Drivers, DriverStep(d) PROVE KernelInv'
  BY <1>3, AppendTriggerKeeps, LoadKeeps, LookUpKeeps, ResolveKeeps, StopKeeps, DecideKeeps,
     DeliberateFinishKeep, SuspendKeeps, RecordGraphKeeps, ExecuteKeeps, ReuseKeeps, ResultKeeps
     DEF DriverStep
<1> QED BY <1>1, <1>2, <1>3, ContinueKeeps, InterruptKeeps DEF Next

LEMMA Invariance == Spec => []KernelInv
BY InitHolds, StepKeeps, PTL DEF Spec

\* The variables keep their types, and what an advance holds refers to the ledger:
\* its snapshot, its trigger and the approval it resumes are records that exist.
THEOREM TypeCorrect == Spec => []TypeOK
<1>1. KernelInv => TypeOK
  BY DEF KernelInv
<1> QED BY <1>1, Invariance, PTL

\* However many advances of the session run at once, and wherever each of them is
\* interrupted, a call that asked for approval (execute_action, advance_trigger,
\* advance_continue) runs only after an approval of it.
THEOREM ApprovalRespected == Spec => []ApprovalGate
<1>1. KernelInv => ApprovalGate
  BY DEF KernelInv
<1> QED BY <1>1, Invariance, PTL
=============================================================================
