--------------------------- MODULE IngressProofs ---------------------------
(***************************************************************************)
(* Theorems about the ingress workers, for any number of workers, entries, *)
(* faults and lapsed claims.                                               *)
(***************************************************************************)
EXTENDS Ingress, FiniteSetTheorems, TLAPS

\* A key is used by one session, as the worker's claims take for granted.
OneSessionPerKey == \A e, f \in Entries : Key[e] = Key[f] => Session[e] = Session[f]

Busy(w) == pc[w] # "idle"

\* An entry that was claimed is on its way, or its request has had an outcome.
OnItsWay(e) == stream[e] = "pending" \/ Request(e) \in served

\* A worker works on an entry that was handed to it alone.
OwnEntries ==
  /\ \A w \in Workers : Busy(w) => entry[w] \in Entries /\ stream[entry[w]] # "new"
  /\ \A v, w \in Workers : Busy(v) /\ Busy(w) /\ entry[v] = entry[w] => v = w

\* A claim is for an entry with its key; a worker that has still to claim has none;
\* and what is about to be acknowledged had an outcome.
ClaimsHold ==
  /\ \A k \in Keys : claims[k] # NoClaim =>
       /\ Key[claims[k]] = k /\ stream[claims[k]] # "new" /\ OnItsWay(claims[k])
  /\ \A w \in Workers : pc[w] = "claim" =>
       stream[entry[w]] = "pending" /\ claims[Key[entry[w]]] # entry[w]
  /\ \A w \in Workers : pc[w] = "ack" => Request(entry[w]) \in served

\* A run is about a request of the ledger.
Turns == \A w \in Workers : pc[w] = "run" => turn[w] \in Requests

IInv == TypeOK /\ OwnEntries /\ ClaimsHold /\ Turns

\* What a worker's step starts from: it has an entry, whose key and request are known.
LEMMA AtWork ==
  ASSUME IInv, NEW w \in Workers, Busy(w)
  PROVE  /\ entry[w] \in Entries /\ Key[entry[w]] \in Keys /\ Request(entry[w]) \in Requests
         /\ Session[entry[w]] \in Sessions /\ Request(entry[w])[1] = Session[entry[w]]
         /\ \A v \in Workers \ {w} : Busy(v) => entry[v] # entry[w]
BY DEF IInv, OwnEntries, Keys, Requests, Request, Sessions

-----------------------------------------------------------------------------
(* The steps of the stream: an entry is handed out, refused, acknowledged. *)

LEMMA ReadKeeps == ASSUME IInv, NEW w \in Workers, NEW e \in Entries, Read(w, e) PROVE IInv'
<1> USE DEF Read, Goto, ledger, run, history, bounds
<1>1. TypeOK'
  BY DEF IInv, TypeOK, StreamTypes, LedgerTypes
<1>2. OwnEntries'
  BY DEF IInv, TypeOK, StreamTypes, OwnEntries, Busy
<1>3. ClaimsHold'
  <2>1. claims[Key[e]] # e
    BY NoNames DEF IInv, TypeOK, StreamTypes, ClaimsHold, Keys
  <2>2. \A k \in Keys : claims[k] # NoClaim => claims[k] # e /\ claims[k] \in Entries
    BY DEF IInv, TypeOK, StreamTypes, ClaimsHold
  <2> QED
    BY <2>1, <2>2 DEF IInv, TypeOK, StreamTypes, OwnEntries, ClaimsHold, OnItsWay, Request, Busy
<1>4. Turns'
  BY DEF IInv, TypeOK, StreamTypes, Turns
<1> QED BY <1>1, <1>2, <1>3, <1>4 DEF IInv

LEMMA RefusedKeeps == ASSUME IInv, NEW w \in Workers, Refused(w) PROVE IInv'
<1> USE DEF Refused, Goto, Leave, ledger, run, history, bounds
<1>0. entry[w] \in Entries /\ \A v \in Workers \ {w} : Busy(v) => entry[v] # entry[w]
  BY AtWork DEF Busy
<1>1. TypeOK'
  BY <1>0 DEF IInv, TypeOK, StreamTypes, LedgerTypes
<1>2. OwnEntries'
  BY <1>0 DEF IInv, TypeOK, StreamTypes, OwnEntries, Busy
<1>3. ClaimsHold'
  <2>1. \A k \in Keys : claims[k] # NoClaim => claims[k] # entry[w]
    BY DEF IInv, TypeOK, StreamTypes, ClaimsHold
  <2> QED
    BY <1>0, <2>1 DEF IInv, TypeOK, StreamTypes, OwnEntries, ClaimsHold, OnItsWay, Request, Busy
<1>4. Turns'
  BY DEF IInv, TypeOK, StreamTypes, Turns
<1> QED BY <1>1, <1>2, <1>3, <1>4 DEF IInv

LEMMA AckKeeps == ASSUME IInv, NEW w \in Workers, Ack(w) PROVE IInv'
<1> USE DEF Ack, Goto, ledger, run, history, bounds
<1>0. /\ entry[w] \in Entries /\ Request(entry[w]) \in served
      /\ \A v \in Workers \ {w} : Busy(v) => entry[v] # entry[w]
  BY AtWork DEF IInv, ClaimsHold, Busy
<1>1. TypeOK'
  BY <1>0 DEF IInv, TypeOK, StreamTypes, LedgerTypes
<1>2. OwnEntries'
  BY <1>0 DEF IInv, TypeOK, StreamTypes, OwnEntries, Busy
<1>3. ClaimsHold'
  BY <1>0 DEF IInv, TypeOK, StreamTypes, OwnEntries, ClaimsHold, OnItsWay, Request, Busy
<1>4. Turns'
  BY DEF IInv, TypeOK, StreamTypes, Turns
<1> QED BY <1>1, <1>2, <1>3, <1>4 DEF IInv

-----------------------------------------------------------------------------
(* The steps of the claims: taken, released, run out. *)

LEMMA ClaimKeeps == ASSUME IInv, NEW w \in Workers, Claim(w) PROVE IInv'
<1> USE DEF Claim, Goto, ledger, run, history, bounds
<1>0. /\ entry[w] \in Entries /\ Key[entry[w]] \in Keys /\ stream[entry[w]] = "pending"
      /\ \A v \in Workers \ {w} : Busy(v) => entry[v] # entry[w]
  BY AtWork DEF IInv, ClaimsHold, Busy
<1>1. TypeOK'
  BY <1>0 DEF IInv, TypeOK, StreamTypes, LedgerTypes
<1>2. OwnEntries'
  BY <1>0 DEF IInv, TypeOK, StreamTypes, OwnEntries, Busy
<1>3. ClaimsHold'
  BY <1>0 DEF IInv, TypeOK, StreamTypes, OwnEntries, ClaimsHold, OnItsWay, Request, Busy, Keys
<1>4. Turns'
  BY DEF IInv, TypeOK, StreamTypes, Turns
<1> QED BY <1>1, <1>2, <1>3, <1>4 DEF IInv

LEMMA ReleaseKeeps ==
  ASSUME IInv, NEW w \in Workers, Compare(w) \/ Delete(w)
  PROVE  IInv'
<1> USE DEF Compare, Delete, Mine, Goto, Leave, ledger, run, history, bounds
<1>0. entry[w] \in Entries /\ Key[entry[w]] \in Keys
  BY AtWork DEF Busy
<1>1. TypeOK'
  BY <1>0 DEF IInv, TypeOK, StreamTypes, LedgerTypes
<1>2. OwnEntries'
  BY <1>0 DEF IInv, TypeOK, StreamTypes, OwnEntries, Busy
<1>3. ClaimsHold'
  BY <1>0, NoNames, SMTT(30)
       DEF IInv, TypeOK, StreamTypes, OwnEntries, ClaimsHold, OnItsWay, Request, Busy, Keys
<1>4. Turns'
  BY DEF IInv, TypeOK, StreamTypes, Turns
<1> QED BY <1>1, <1>2, <1>3, <1>4 DEF IInv

LEMMA ExpireKeeps == ASSUME IInv, NEW k \in Keys, Expire(k) PROVE IInv'
<1> USE DEF Expire, ledger, run, history
<1>1. TypeOK'
  BY IngressAssumption DEF IInv, TypeOK, StreamTypes, LedgerTypes
<1>2. OwnEntries'
  BY DEF IInv, TypeOK, StreamTypes, OwnEntries, Busy
<1>3. ClaimsHold'
  BY NoNames DEF IInv, TypeOK, StreamTypes, OwnEntries, ClaimsHold, OnItsWay, Request, Busy, Keys
<1>4. Turns'
  BY DEF IInv, TypeOK, StreamTypes, Turns
<1> QED BY <1>1, <1>2, <1>3, <1>4 DEF IInv

-----------------------------------------------------------------------------
(* The steps in the engine, and the failures. *)

EngineStep(w) == \/ Replay(w) \/ Ask(w) \/ Begin(w) \/ Continue(w) \/ Finish(w)
                 \/ NoneActive(w) \/ Unrecorded(w) \/ Error(w) \/ Crash(w)

Inside == {"ask", "append", "run", "delete"}

\* What they have in common: the stream and the claims stay, and one worker moves.
LEMMA EngineMoves ==
  ASSUME IInv, NEW w \in Workers, EngineStep(w)
  PROVE  /\ UNCHANGED <<stream, claims, lapsed, expiries>> /\ served \subseteq served'
         /\ pc[w] # "idle" /\ pc'[w] # "claim"
         /\ \A v \in Workers \ {w} : pc'[v] = pc[v] /\ entry'[v] = entry[v]
         /\ entry'[w] = entry[w] \/ pc'[w] = "idle"
         /\ pc'[w] \in Inside => pc[w] \in Inside
         /\ pc'[w] = "ack" => Request(entry[w]) \in served'
<1> USE DEF Goto, Leave, ledger, run, history, bounds, IInv, TypeOK, StreamTypes, Inside
<1>1. CASE Replay(w) \/ Ask(w)
  BY <1>1 DEF Replay, Ask, Serve, Fault
<1>2. CASE Begin(w) \/ Continue(w)
  BY <1>2 DEF Begin, Continue
<1>3. CASE Finish(w) \/ NoneActive(w)
  BY <1>3 DEF Finish, NoneActive, Return, Serve
<1>4. CASE Unrecorded(w) \/ Error(w) \/ Crash(w)
  BY <1>4 DEF Unrecorded, Error, Crash, Serve, Fault
<1> QED BY <1>1, <1>2, <1>3, <1>4 DEF EngineStep

LEMMA EngineKeeps ==
  ASSUME IInv, NEW w \in Workers, EngineStep(w)
  PROVE  IInv'
<1> DEFINE r == Request(entry[w])
<1>0. /\ pc[w] # "idle" /\ entry[w] \in Entries /\ r \in Requests
      /\ Session[entry[w]] \in Sessions /\ r[1] = Session[entry[w]]
  BY AtWork, EngineMoves DEF Busy
<1>1. TypeOK' /\ Turns'
  <2> USE DEF Goto, Leave, ledger, run, history, bounds
  <2>1. CASE Replay(w) \/ Ask(w)
    <3>1. runs' \in [Requests -> Nat]
      <4>1. runs \in [Requests -> Nat]
        BY DEF IInv, TypeOK, LedgerTypes
      <4>2. runs' = runs \/ runs' = [runs EXCEPT ![r] = @ + 1]
        BY <2>1 DEF Replay, Ask
      <4>3. runs[r] + 1 \in Nat
        BY <1>0, <4>1
      <4> QED BY <1>0, <4>1, <4>2, <4>3
    <3>2. faults' \in 0..MaxFaults /\ expiries' \in 0..MaxExpiries
      BY <2>1, IngressAssumption DEF Replay, Ask, Fault, IInv, TypeOK, StreamTypes
    <3> QED
      BY <1>0, <2>1, <3>1, <3>2
         DEF Replay, Ask, Serve, IInv, TypeOK, StreamTypes, LedgerTypes, Turns
  <2>2. CASE Begin(w)
    <3>1. Append(open[r[1]], r) \in Seq(Requests)
      BY <1>0 DEF IInv, TypeOK, StreamTypes, LedgerTypes
    <3>2. open' \in [Sessions -> Seq(Requests)] /\ turn' \in [Workers -> Requests \cup {NoRequest}]
      BY <1>0, <2>2, <3>1 DEF Begin, IInv, TypeOK, StreamTypes, LedgerTypes
    <3>3. beside' \subseteq Workers
      BY <2>2 DEF Begin, InRun, IInv, TypeOK, StreamTypes, LedgerTypes
    <3>4. \A v \in Workers : pc'[v] = "run" => turn'[v] \in Requests
      BY <1>0, <2>2 DEF Begin, IInv, TypeOK, StreamTypes, LedgerTypes, Turns
    <3> QED BY <1>0, <2>2, <3>2, <3>3, <3>4 DEF Begin, IInv, TypeOK, StreamTypes, LedgerTypes, Turns
  <2>3. CASE Continue(w)
    <3>1. Head(open[Session[entry[w]]]) \in Requests
      BY <1>0, <2>3 DEF Continue, IInv, TypeOK, StreamTypes, LedgerTypes
    <3> QED BY <1>0, <2>3, <3>1 DEF Continue, IInv, TypeOK, StreamTypes, LedgerTypes, Turns
  <2>4. CASE Finish(w)
    <3>1. turn[w] \in Requests
      BY <2>4 DEF Finish, IInv, Turns
    <3>2. open' \in [Sessions -> Seq(Requests)] /\ answered' \subseteq Requests
      BY <1>0, <2>4, <3>1 DEF Finish, IInv, TypeOK, StreamTypes, LedgerTypes
    <3>3. crossed' \in [Requests -> Nat]
      BY <1>0, <2>4 DEF Finish, Return, IInv, TypeOK, StreamTypes, LedgerTypes
    <3> QED
      BY <1>0, <2>4, <3>2, <3>3
           DEF Finish, Return, Serve, EndRun, IInv, TypeOK, StreamTypes, LedgerTypes, Turns
  <2>5. CASE NoneActive(w)
    <3>1. crossed' \in [Requests -> Nat]
      BY <1>0, <2>5 DEF NoneActive, Return, IInv, TypeOK, StreamTypes, LedgerTypes
    <3> QED
      BY <1>0, <2>5, <3>1
           DEF NoneActive, Return, Serve, EndRun, IInv, TypeOK, StreamTypes, LedgerTypes, Turns
  <2>6. CASE Unrecorded(w) \/ Error(w) \/ Crash(w)
    <3>1. faults' \in 0..MaxFaults /\ expiries' \in 0..MaxExpiries
      BY <2>6, IngressAssumption DEF Unrecorded, Error, Crash, Fault, IInv, TypeOK, StreamTypes
    <3> QED
      BY <1>0, <2>6, <3>1
         DEF Unrecorded, Error, Crash, Serve, EndRun, IInv, TypeOK, StreamTypes, LedgerTypes,
             Turns
  <2> QED BY <2>1, <2>2, <2>3, <2>4, <2>5, <2>6 DEF EngineStep
<1>2. OwnEntries'
  BY <1>0, EngineMoves DEF IInv, OwnEntries, Busy
<1>3. ClaimsHold'
  <2>1. \A v \in Workers : pc'[v] = "claim" => pc[v] = "claim" /\ entry'[v] = entry[v]
    BY EngineMoves
  <2>2. \A v \in Workers : pc'[v] = "ack" => Request(entry'[v]) \in served'
    BY EngineMoves DEF IInv, ClaimsHold, Request
  <2>3. \A e \in Entries : OnItsWay(e) => OnItsWay(e)'
    BY EngineMoves DEF OnItsWay, Request
  <2>4. \A k \in Keys : claims[k] # NoClaim => claims[k] \in Entries
    BY DEF IInv, TypeOK, StreamTypes
  <2>5. stream' = stream /\ claims' = claims
    BY EngineMoves
  <2> QED
    BY <2>1, <2>2, <2>3, <2>4, <2>5 DEF IInv, ClaimsHold
<1> QED BY <1>1, <1>2, <1>3 DEF IInv

LEMMA Inductive == IInv /\ [Next]_vars => IInv'
<1> SUFFICES ASSUME IInv, [Next]_vars PROVE IInv'
  OBVIOUS
<1>1. CASE UNCHANGED vars
  BY <1>1
       DEF vars, IInv, TypeOK, StreamTypes, OwnEntries, ClaimsHold, Turns, OnItsWay, Request,
           Busy,
              LedgerTypes
<1>2. CASE \E w \in Workers : WorkerStep(w) \/ Unrecorded(w) \/ Error(w) \/ Crash(w)
  BY <1>2, ReadKeeps, RefusedKeeps, AckKeeps, ClaimKeeps, ReleaseKeeps, EngineKeeps
     DEF WorkerStep, EngineStep
<1>3. CASE \E k \in Keys : Expire(k)
  BY <1>3, ExpireKeeps
<1> QED BY <1>1, <1>2, <1>3 DEF Next

LEMMA Initially == Init => IInv /\ NotForgotten
BY IngressAssumption

        DEF Init, IInv, TypeOK, StreamTypes, OwnEntries, ClaimsHold, Turns, NotForgotten, Busy,
            Keys, Requests,
       Sessions, LedgerTypes

-----------------------------------------------------------------------------
\* Every variable of the workers, the stream, the claims and the ledger keeps its
\* type: no step of run_once works on an entry it does not have.
THEOREM TypeCorrect == Spec => []TypeOK
<1>1. IInv => TypeOK
  BY DEF IInv
<1> QED BY <1>1, Initially, Inductive, PTL DEF Spec

\* An entry acknowledged as a duplicate or after its run is never forgotten, for any
\* number of workers, deliveries, faults and lapses, where a key is used by one
\* session: the ingress may drop it because its claim's holder has the same request.
THEOREM AcknowledgedNotForgotten ==
  ASSUME OneSessionPerKey
  PROVE  Spec => []NotForgotten
<1>1. ASSUME IInv, NotForgotten, [Next]_vars PROVE NotForgotten'
  <2>1. CASE \E w \in Workers : Refused(w)
    <3> PICK w \in Workers : Refused(w)
      BY <2>1
    <3> DEFINE f == claims[Key[entry[w]]]
    <3>1. entry[w] \in Entries /\ Key[entry[w]] \in Keys
      BY <1>1, AtWork DEF Refused, Busy
    <3>2. f \in Entries /\ Key[f] = Key[entry[w]] /\ f # entry[w] /\ OnItsWay(f)
      BY <1>1, <3>1, NoNames DEF IInv, TypeOK, StreamTypes, ClaimsHold, Refused
    <3>3. Request(f) = Request(entry[w])
      BY <3>1, <3>2, OneSessionPerKey DEF OneSessionPerKey, Request
    <3>4. /\ \A e \in Entries \ {entry[w]} : stream'[e] = stream[e]
          /\ stream'[entry[w]] = "acked" /\ served' = served
      BY <1>1, <3>1 DEF Refused, history, IInv, TypeOK, StreamTypes
    <3>5. \/ Request(entry[w]) \in served'
          \/ \E g \in Entries : Request(g) = Request(entry[w]) /\ stream'[g] = "pending"
      BY <3>2, <3>3, <3>4 DEF OnItsWay
    <3> QED BY <1>1, <3>1, <3>4, <3>5 DEF NotForgotten, Request
  <2>2. CASE \E w \in Workers : Ack(w)
    <3> PICK w \in Workers : Ack(w)
      BY <2>2
    <3>1. entry[w] \in Entries /\ Request(entry[w]) \in served
      BY <1>1, AtWork DEF IInv, ClaimsHold, Ack, Busy
    <3>2. /\ \A e \in Entries \ {entry[w]} : stream'[e] = stream[e]
          /\ served' = served
      BY <1>1, <3>1 DEF Ack, history, IInv, TypeOK, StreamTypes
    <3> QED BY <1>1, <3>1, <3>2 DEF NotForgotten, Request
  <2>3. CASE \E w \in Workers, e \in Entries : Read(w, e)
    <3> PICK w \in Workers, e \in Entries : Read(w, e)
      BY <2>3
    <3>1. /\ stream[e] = "new" /\ stream'[e] = "pending" /\ served' = served
          /\ \A g \in Entries \ {e} : stream'[g] = stream[g]
      BY <1>1 DEF Read, history, IInv, TypeOK, StreamTypes
    <3> QED BY <1>1, <3>1 DEF NotForgotten, Request
  <2>4. CASE stream' = stream /\ served \subseteq served'
    BY <1>1, <2>4 DEF NotForgotten, Request
  <2> QED
    BY <1>1, <2>1, <2>2, <2>3, <2>4, EngineMoves
       DEF Next, WorkerStep, EngineStep, vars, history, Claim, Compare, Delete, Expire
<1> QED BY <1>1, Initially, Inductive, PTL DEF Spec

-----------------------------------------------------------------------------
(* Overlaps.  A worker that holds no claim any more is paid for by a claim of  *)
(* its key that ran out: its own, or that of the worker that deleted its own.  *)

Unclaimed(k) == {w \in Workers : /\ pc[w] \in {"ask", "append", "run", "delete"}
                                 /\ Key[entry[w]] = k /\ claims[k] # entry[w]}
Lapses(k) == {e \in lapsed : Key[e] = k}

\* An entry is claimed once, so a claim that ran out is of no later use.
ClaimedOnce ==
  /\ \A k \in Keys : claims[k] \notin lapsed
  /\ \A w \in Workers : pc[w] = "claim" => entry[w] \notin lapsed
  /\ \A e \in Entries : stream[e] = "new" => e \notin lapsed

PaidFor == \A k \in Keys : Cardinality(Unclaimed(k)) <= Cardinality(Lapses(k))

LEMMA OneMore ==
  ASSUME NEW S, IsFiniteSet(S), NEW x
  PROVE  /\ IsFiniteSet(S \cup {x}) /\ Cardinality(S \cup {x}) \in Nat
         /\ Cardinality(S \cup {x}) <= Cardinality(S) + 1
<1>1. Cardinality(S) \in Nat
  BY FS_CardinalityType
<1>2. /\ IsFiniteSet(S \cup {x})
      /\ Cardinality(S \cup {x}) = IF x \in S THEN Cardinality(S) ELSE Cardinality(S) + 1
  BY FS_AddElement
<1> QED BY <1>1, <1>2

LEMMA Finite ==
  ASSUME IInv, NEW k
  PROVE  /\ IsFiniteSet(Unclaimed(k)) /\ IsFiniteSet(Lapses(k))
         /\ Cardinality(Unclaimed(k)) \in Nat /\ Cardinality(Lapses(k)) \in Nat
<1>1. Unclaimed(k) \in SUBSET Workers /\ Lapses(k) \in SUBSET Entries
  BY DEF Unclaimed, Lapses, IInv, TypeOK, StreamTypes
<1>2. IsFiniteSet(Unclaimed(k)) /\ IsFiniteSet(Lapses(k))
  BY <1>1, IngressAssumption, FS_Subset
<1> QED BY <1>2, FS_CardinalityType

LEMMA ClaimedOnceKept == ASSUME IInv, ClaimedOnce, [Next]_vars PROVE ClaimedOnce'
<1>1. CASE \E w \in Workers, e \in Entries : Read(w, e)
  BY <1>1 DEF Read, Goto, ledger, run, history, bounds,
              IInv, TypeOK, StreamTypes, ClaimedOnce
<1>2. CASE \E w \in Workers : Claim(w)
  BY <1>2, AtWork DEF Claim, Goto, ledger, run, history, bounds,
              IInv, TypeOK, StreamTypes, ClaimedOnce, Busy
<1>3. CASE \E k \in Keys : Expire(k)
  <2> PICK k \in Keys : Expire(k)
    BY <1>3
  <2>1. claims[k] \in Entries /\ Key[claims[k]] = k /\ stream[claims[k]] # "new"
    BY DEF Expire, IInv, TypeOK, StreamTypes, ClaimsHold
  <2>2. lapsed' = lapsed \cup {claims[k]} /\ stream' = stream /\ pc' = pc /\ entry' = entry
    BY DEF Expire
  <2>3. \A j \in Keys : claims'[j] \notin lapsed'
    <3> TAKE j \in Keys
    <3>1. CASE j = k
      BY <2>1, <2>2, <3>1, NoNames DEF Expire, IInv, TypeOK, StreamTypes
    <3>2. CASE j # k
      BY <2>1, <2>2, <3>2, NoNames DEF Expire, IInv, TypeOK, StreamTypes, ClaimsHold, ClaimedOnce
    <3> QED BY <3>1, <3>2
  <2>4. \A w \in Workers : pc[w] = "claim" => entry[w] # claims[k]
    BY <2>1, AtWork DEF IInv, ClaimsHold, Busy
  <2> QED BY <2>1, <2>2, <2>3, <2>4 DEF ClaimedOnce
<1>4. CASE \E w \in Workers : Delete(w)
  BY <1>4, AtWork, NoNames DEF Delete, Leave, Goto, ledger, run, history, bounds,
              IInv, TypeOK, StreamTypes, ClaimedOnce, Busy
<1>5. CASE \E w \in Workers : Refused(w) \/ Ack(w)
  BY <1>5, AtWork DEF Refused, Ack, Leave, Goto, ledger, run, history, bounds,
              IInv, TypeOK, StreamTypes, ClaimedOnce, Busy
<1>6. CASE \E w \in Workers : Compare(w) \/ EngineStep(w)
  BY <1>6, EngineMoves DEF Compare, Leave, Goto, bounds, IInv, TypeOK, StreamTypes, ClaimedOnce
<1>7. CASE UNCHANGED vars
  BY <1>7 DEF vars, ClaimedOnce
<1> QED BY <1>1, <1>2, <1>3, <1>4, <1>5, <1>6, <1>7 DEF Next, WorkerStep, EngineStep

\* Nobody loses a claim: the debts of a key do not grow.
LEMMA NoNewDebt ==
  ASSUME IInv, IInv', NEW k \in Keys, Unclaimed(k)' \subseteq Unclaimed(k), lapsed' = lapsed,
         Cardinality(Unclaimed(k)) <= Cardinality(Lapses(k))
  PROVE  Cardinality(Unclaimed(k)') <= Cardinality(Lapses(k)')
<1>1. Lapses(k)' = Lapses(k)
  BY DEF Lapses
<1>2. Cardinality(Unclaimed(k)') <= Cardinality(Unclaimed(k)) /\ Cardinality(Unclaimed(k)') \in Nat
  BY Finite, FS_Subset, FS_CardinalityType
<1> QED BY <1>1, <1>2, Finite

LEMMA DeletePaid ==
  ASSUME IInv, IInv', NEW w \in Workers, Delete(w), NEW k \in Keys,
         Cardinality(Unclaimed(k)) <= Cardinality(Lapses(k))
  PROVE  Cardinality(Unclaimed(k)') <= Cardinality(Lapses(k)')
<1>0. entry[w] \in Entries
  BY AtWork DEF Delete, Busy
<1>1. lapsed' = lapsed
  BY DEF Delete
<1>2. \A v \in Workers : v \in Unclaimed(k)' =>
        v # w /\ (v \in Unclaimed(k) \/ (Key[entry[w]] = k /\ entry[v] = claims[k]))
  BY DEF Delete, Leave, Goto, Unclaimed, IInv, TypeOK, StreamTypes
<1>3. CASE Key[entry[w]] = k /\ claims[k] # entry[w]
  <2>1. w \in Unclaimed(k)
    BY <1>3 DEF Unclaimed, Delete
  <2>2. PICK x : Unclaimed(k)' \subseteq (Unclaimed(k) \ {w}) \cup {x}
    BY <1>2 DEF Unclaimed, IInv, OwnEntries, Busy, Delete, Leave, Goto
  <2>3. /\ IsFiniteSet(Unclaimed(k) \ {w})
        /\ Cardinality(Unclaimed(k) \ {w}) = Cardinality(Unclaimed(k)) - 1
    BY <2>1, Finite, FS_RemoveElement
  <2>4. /\ IsFiniteSet((Unclaimed(k) \ {w}) \cup {x})
        /\ Cardinality((Unclaimed(k) \ {w}) \cup {x}) <= Cardinality(Unclaimed(k))
    <3>1. /\ IsFiniteSet((Unclaimed(k) \ {w}) \cup {x})
          /\ Cardinality((Unclaimed(k) \ {w}) \cup {x}) <= Cardinality(Unclaimed(k) \ {w}) + 1
      BY <2>3, OneMore
    <3> QED BY <2>3, <3>1, Finite
  <2>5. Cardinality(Unclaimed(k)') <= Cardinality((Unclaimed(k) \ {w}) \cup {x})
    BY <2>2, <2>4, FS_Subset
  <2>6. Cardinality(Unclaimed(k)') \in Nat /\ Lapses(k)' = Lapses(k)
    BY <1>1, <2>2, <2>4, FS_Subset, FS_CardinalityType DEF Lapses
  <2>7. Cardinality((Unclaimed(k) \ {w}) \cup {x}) \in Nat
    BY <2>4, FS_CardinalityType
  <2> QED BY <2>4, <2>5, <2>6, <2>7, Finite
<1>4. CASE ~(Key[entry[w]] = k /\ claims[k] # entry[w])
  <2>1. \A v \in Workers : v \in Unclaimed(k)' => v \in Unclaimed(k)
    <3> SUFFICES ASSUME NEW v \in Workers, v \in Unclaimed(k)', v \notin Unclaimed(k) PROVE FALSE
      OBVIOUS
    <3>1. v # w /\ entry[v] = entry[w] /\ Busy(v)
      BY <1>2, <1>4 DEF Unclaimed, Busy, Delete, Leave, Goto, IInv, TypeOK, StreamTypes
    <3> QED BY <3>1, AtWork DEF Delete, Busy
  <2>2. Unclaimed(k)' \subseteq Unclaimed(k)
    BY <2>1 DEF Unclaimed
  <2> QED BY <1>1, <2>2, NoNewDebt
<1> QED BY <1>3, <1>4

LEMMA ExpirePaid ==
  ASSUME IInv, IInv', ClaimedOnce, NEW j \in Keys, Expire(j), NEW k \in Keys,
         Cardinality(Unclaimed(k)) <= Cardinality(Lapses(k))
  PROVE  Cardinality(Unclaimed(k)') <= Cardinality(Lapses(k)')
<1>1. claims[j] \in Entries /\ Key[claims[j]] = j /\ claims[j] \notin lapsed
  BY DEF Expire, IInv, TypeOK, StreamTypes, ClaimsHold, ClaimedOnce
<1>2. lapsed' = lapsed \cup {claims[j]} /\ pc' = pc /\ entry' = entry
  BY DEF Expire
<1>3. CASE j # k
  <2>1. Unclaimed(k)' = Unclaimed(k) /\ Lapses(k)' = Lapses(k)
    BY <1>1, <1>2, <1>3 DEF Expire, Unclaimed, Lapses, IInv, TypeOK, StreamTypes
  <2> QED BY <2>1
<1>4. CASE j = k
  <2>1. Lapses(k)' = Lapses(k) \cup {claims[k]} /\ claims[k] \notin Lapses(k)
    BY <1>1, <1>2, <1>4 DEF Lapses
  <2>2. Cardinality(Lapses(k)') = Cardinality(Lapses(k)) + 1
    BY <2>1, Finite, FS_AddElement
  <2>3. PICK x : Unclaimed(k)' \subseteq Unclaimed(k) \cup {x}
    BY <1>2 DEF Unclaimed, IInv, OwnEntries, Busy
  <2>4. /\ IsFiniteSet(Unclaimed(k) \cup {x})
        /\ Cardinality(Unclaimed(k) \cup {x}) <= Cardinality(Unclaimed(k)) + 1
    BY OneMore, Finite
  <2>5. Cardinality(Unclaimed(k)') <= Cardinality(Unclaimed(k) \cup {x})
    BY <2>3, <2>4, FS_Subset
  <2>6. /\ Cardinality(Unclaimed(k)') \in Nat
        /\ Cardinality(Unclaimed(k) \cup {x}) \in Nat
    BY <2>3, <2>4, FS_Subset, FS_CardinalityType
  <2> QED BY <2>2, <2>4, <2>5, <2>6, Finite
<1> QED BY <1>3, <1>4

LEMMA PaidForKept == ASSUME IInv, IInv', ClaimedOnce, PaidFor, [Next]_vars PROVE PaidFor'
<1> SUFFICES ASSUME NEW k \in Keys
             PROVE  Cardinality(Unclaimed(k)') <= Cardinality(Lapses(k)')
  BY DEF PaidFor
<1>0. Cardinality(Unclaimed(k)) <= Cardinality(Lapses(k))
  BY DEF PaidFor
<1>1. CASE \E w \in Workers : Delete(w)
  BY <1>0, <1>1, DeletePaid
<1>2. CASE \E j \in Keys : Expire(j)
  BY <1>0, <1>2, ExpirePaid
<1>3. ASSUME NEW w \in Workers,
             \/ \E e \in Entries : Read(w, e)
             \/ Claim(w) \/ Refused(w) \/ Ack(w) \/ Compare(w) \/ EngineStep(w)
      PROVE  Unclaimed(k)' \subseteq Unclaimed(k) /\ lapsed' = lapsed
  <2>1. CASE \E e \in Entries : Read(w, e)
    BY <2>1 DEF Read, Goto, Unclaimed, IInv, TypeOK, StreamTypes
  <2>2. CASE Claim(w)
    BY <2>2, AtWork, NoNames
       DEF Claim, Goto, Unclaimed, IInv, TypeOK, StreamTypes, OwnEntries, Busy
  <2>3. CASE Refused(w) \/ Ack(w)
    BY <2>3 DEF Refused, Ack, Leave, Goto, Unclaimed, IInv, TypeOK, StreamTypes
  <2>4. CASE Compare(w)
    BY <2>4 DEF Compare, Mine, Leave, Goto, Unclaimed, IInv, TypeOK, StreamTypes
  <2>5. CASE EngineStep(w)
    BY <2>5, EngineMoves DEF Unclaimed, Inside
  <2> QED BY <1>3, <2>1, <2>2, <2>3, <2>4, <2>5
<1>4. CASE UNCHANGED vars
  BY <1>0, <1>4, NoNewDebt DEF vars, Unclaimed
<1> QED BY <1>0, <1>1, <1>2, <1>3, <1>4, NoNewDebt DEF Next, WorkerStep, EngineStep

\* Two workers are in the engine with one key only where claims of the key ran out, one
\* more for each, for any number of workers: a release that outlives its claim deletes
\* its successor's, but lets no more of them in than lapses have paid for.
THEOREM OverlapsPaidFor == Spec => []OverlapNeedsLapse
<1>1. Init => ClaimedOnce /\ PaidFor
  <2> SUFFICES ASSUME Init PROVE ClaimedOnce /\ PaidFor
    OBVIOUS
  <2>0. lapsed = {} /\ \A w \in Workers : pc[w] = "idle"
    BY DEF Init
  <2>1. \A k \in Keys : Unclaimed(k) = {} /\ Lapses(k) = {}
    BY <2>0 DEF Unclaimed, Lapses
  <2>2. PaidFor
    BY <2>1, FS_EmptySet DEF PaidFor
  <2> QED BY <2>0, <2>2 DEF ClaimedOnce
<1>2. IInv /\ PaidFor => OverlapNeedsLapse
  <2> SUFFICES ASSUME IInv, PaidFor, NEW k \in Keys
               PROVE  Cardinality({w \in Workers : InEngine(w) /\ Key[entry[w]] = k}) <=
                        1 + Cardinality(Lapses(k))
    BY DEF OverlapNeedsLapse, Lapses
  <2> DEFINE inside == {w \in Workers : InEngine(w) /\ Key[entry[w]] = k}
  <2>1. PICK x : inside \subseteq Unclaimed(k) \cup {x}
    BY DEF Unclaimed, InEngine, IInv, OwnEntries, Busy
  <2>2. /\ IsFiniteSet(Unclaimed(k) \cup {x})
        /\ Cardinality(Unclaimed(k) \cup {x}) <= Cardinality(Unclaimed(k)) + 1
    BY OneMore, Finite
  <2>3. Cardinality(inside) <= Cardinality(Unclaimed(k) \cup {x})
    BY <2>1, <2>2, FS_Subset
  <2>4. Cardinality(inside) \in Nat /\ Cardinality(Unclaimed(k) \cup {x}) \in Nat
    BY <2>1, <2>2, FS_Subset, FS_CardinalityType
  <2> QED BY <2>2, <2>3, <2>4, Finite DEF PaidFor
<1> QED
  BY <1>1, <1>2, Initially, Inductive, ClaimedOnceKept, PaidForKept, PTL DEF Spec

-----------------------------------------------------------------------------
(* A run that has its session to itself.  Every trigger open there is its     *)
(* request's and every advance is about it, so whichever run closes the       *)
(* trigger leaves the request answered.                                       *)

Alone(w) ==
  LET r == Request(entry[w])
      s == Session[entry[w]] IN
  /\ \A i \in DOMAIN open[s] : open[s][i] = r
  /\ open[s] = <<>> => r \in answered
  /\ \A v \in InRun(s) : Request(entry[v]) = r /\ turn[v] = r

AloneUnlessBeside == \A w \in Workers : pc[w] = "run" /\ w \notin beside => Alone(w)

\* A run that is left unanswered when it returns was not alone.
LEMMA ReturnsAnswered ==
  ASSUME IInv, AloneUnlessBeside, NEW w \in Workers, Finish(w) \/ NoneActive(w), w \notin beside
  PROVE  Request(entry[w]) \in answered'
<1>1. pc[w] = "run" /\ Alone(w)
  BY DEF AloneUnlessBeside, Finish, NoneActive
<1>2. turn[w] = Request(entry[w])
  BY <1>1 DEF Alone, InRun
<1> QED BY <1>1, <1>2 DEF Alone, Finish, NoneActive, ledger

\* Who stays in a run and sees no other ledger is as alone as before.
LEMMA StillAlone ==
  ASSUME AloneUnlessBeside, open' = open, answered \subseteq answered',
         \A v \in Workers : pc'[v] = "run" =>
           /\ pc[v] = "run" /\ entry'[v] = entry[v] /\ turn'[v] = turn[v]
           /\ v \notin beside' => v \notin beside
  PROVE  AloneUnlessBeside'
<1> SUFFICES ASSUME NEW w \in Workers, pc'[w] = "run", w \notin beside' PROVE Alone(w)'
  BY DEF AloneUnlessBeside
<1>1. Alone(w) /\ entry'[w] = entry[w]
  BY DEF AloneUnlessBeside
<1>2. \A v \in InRun(Session[entry[w]])' :
        v \in InRun(Session[entry[w]]) /\ entry'[v] = entry[v] /\ turn'[v] = turn[v]
  BY <1>1 DEF InRun
<1> QED BY <1>1, <1>2 DEF Alone, Request

LEMMA BeginAlone ==
  ASSUME IInv, AloneUnlessBeside, NEW w \in Workers, Begin(w)
  PROVE  AloneUnlessBeside'
<1> DEFINE r == Request(entry[w])
           s == Session[entry[w]]
<1>0. /\ entry[w] \in Entries /\ r \in Requests /\ s \in Sessions /\ r[1] = s
  BY AtWork DEF Begin, Busy
<1>1. /\ open'[s] = Append(open[s], r) /\ open[s] \in Seq(Requests)
      /\ \A t \in Sessions \ {s} : open'[t] = open[t]
  BY <1>0 DEF Begin, IInv, TypeOK, LedgerTypes
<1>2. /\ pc'[w] = "run" /\ turn'[w] = r /\ entry' = entry /\ answered' = answered
      /\ \A v \in Workers \ {w} : pc'[v] = pc[v] /\ turn'[v] = turn[v]
  BY DEF Begin, Goto, IInv, TypeOK, StreamTypes, LedgerTypes
<1>3. /\ \A v \in Workers :
           v \in beside \/ (v \in InRun(s) /\ Request(entry[v]) # r) => v \in beside'
      /\ Meets(w, r) => w \in beside'
  BY <1>0 DEF Begin
<1>4. open'[s] # <<>> /\ \A i \in DOMAIN open'[s] :
        open'[s][i] = r \/ (i \in DOMAIN open[s] /\ open'[s][i] = open[s][i])
  BY <1>0, <1>1
<1> SUFFICES ASSUME NEW u \in Workers, pc'[u] = "run", u \notin beside' PROVE Alone(u)'
  BY DEF AloneUnlessBeside
<1>5. CASE u = w
  <2>1. ~Meets(w, r)
    BY <1>3, <1>5
  <2>2. \A i \in DOMAIN open'[s] : open'[s][i] = r
    BY <1>0, <1>4, <2>1 DEF Meets
  <2>3. \A v \in InRun(s)' : Request(entry[v]) = r /\ turn'[v] = r
    BY <1>0, <1>2, <2>1 DEF Meets, InRun
  <2> QED BY <1>2, <1>4, <1>5, <2>2, <2>3 DEF Alone, Request
<1>6. CASE u # w
  <2>1. pc[u] = "run" /\ u \notin beside /\ Alone(u) /\ entry[u] \in Entries
    BY <1>2, <1>3, <1>6, AtWork DEF AloneUnlessBeside, Busy
  <2>2. CASE Session[entry[u]] = s
    <3>1. Request(entry[u]) = r
      BY <1>3, <2>1, <2>2 DEF InRun
    <3>2. \A i \in DOMAIN open'[s] : open'[s][i] = r
      BY <1>4, <2>1, <2>2, <3>1 DEF Alone
    <3>3. \A v \in InRun(s)' : Request(entry[v]) = r /\ turn'[v] = r
      BY <1>2, <2>1, <2>2, <3>1 DEF Alone, InRun
    <3> QED BY <1>2, <1>4, <2>2, <3>1, <3>2, <3>3 DEF Alone, Request
  <2>3. CASE Session[entry[u]] # s
    <3>1. open'[Session[entry[u]]] = open[Session[entry[u]]]
      BY <1>1, <2>1, <2>3 DEF Sessions
    <3>2. \A v \in InRun(Session[entry[u]])' :
            v \in InRun(Session[entry[u]]) /\ turn'[v] = turn[v]
      BY <1>2, <2>3 DEF InRun
    <3> QED BY <1>2, <2>1, <3>1, <3>2 DEF Alone, Request
  <2> QED BY <2>2, <2>3
<1> QED BY <1>5, <1>6

LEMMA ContinueAlone ==
  ASSUME IInv, AloneUnlessBeside, NEW w \in Workers, Continue(w)
  PROVE  AloneUnlessBeside'
<1> DEFINE s == Session[entry[w]]
<1>1. /\ UNCHANGED <<pc, entry, open, answered, beside>> /\ w \in InRun(s)
      /\ turn'[w] = Head(open[s]) /\ \A v \in Workers \ {w} : turn'[v] = turn[v]
  BY DEF Continue, InRun, ledger, IInv, TypeOK, LedgerTypes
<1>2. 1 \in DOMAIN open[s] /\ Head(open[s]) = open[s][1]
  BY AtWork DEF Continue, Busy, IInv, TypeOK, LedgerTypes
<1> SUFFICES ASSUME NEW u \in Workers, pc[u] = "run", u \notin beside PROVE Alone(u)'
  BY <1>1 DEF AloneUnlessBeside
<1>3. Alone(u)
  BY DEF AloneUnlessBeside
<1>4. \A v \in InRun(Session[entry[u]]) : turn'[v] = Request(entry[u])
  BY <1>1, <1>2, <1>3 DEF Alone, InRun
<1>5. InRun(Session[entry[u]])' = InRun(Session[entry[u]])
  BY <1>1 DEF InRun
<1> QED BY <1>1, <1>3, <1>4, <1>5 DEF Alone, Request

LEMMA FinishAlone ==
  ASSUME IInv, AloneUnlessBeside, NEW w \in Workers, Finish(w)
  PROVE  AloneUnlessBeside'
<1> DEFINE s == Session[entry[w]]
<1>0. s \in Sessions /\ w \in InRun(s)
  BY AtWork DEF Finish, InRun, Busy
<1>1. /\ open'[s] = <<>> /\ \A t \in Sessions \ {s} : open'[t] = open[t]
      /\ answered' = answered \cup {turn[w]} /\ entry' = entry /\ beside' = beside \ {w}
      /\ pc'[w] = "ack" /\ \A v \in Workers \ {w} : pc'[v] = pc[v] /\ turn'[v] = turn[v]
  BY <1>0 DEF Finish, Return, EndRun, Goto, IInv, TypeOK, StreamTypes, LedgerTypes
<1> SUFFICES ASSUME NEW u \in Workers, pc'[u] = "run", u \notin beside' PROVE Alone(u)'
  BY DEF AloneUnlessBeside
<1>2. u # w /\ pc[u] = "run" /\ Alone(u) /\ Session[entry[u]] \in Sessions
  BY <1>1, AtWork DEF AloneUnlessBeside, Busy
<1>3. \A v \in InRun(Session[entry[u]])' :
        v \in InRun(Session[entry[u]]) /\ turn'[v] = turn[v]
  BY <1>1 DEF InRun
<1>4. Session[entry[u]] = s => turn[w] = Request(entry[u])
  BY <1>0, <1>2 DEF Alone
<1>5. \A i \in DOMAIN open'[Session[entry[u]]] :
        open'[Session[entry[u]]][i] = Request(entry[u])
  BY <1>1, <1>2 DEF Alone
<1>6. open'[Session[entry[u]]] = <<>> => Request(entry[u]) \in answered'
  BY <1>1, <1>2, <1>4 DEF Alone
<1> QED BY <1>1, <1>2, <1>3, <1>5, <1>6 DEF Alone, Request

LEMMA AloneKept == ASSUME IInv, AloneUnlessBeside, [Next]_vars PROVE AloneUnlessBeside'
<1> USE DEF Goto, Leave, EndRun, ledger, run, IInv, TypeOK, StreamTypes
<1>1. CASE \E w \in Workers : \/ \E e \in Entries : Read(w, e)
                              \/ Claim(w) \/ Refused(w) \/ Ack(w) \/ Compare(w) \/ Delete(w)
  BY <1>1, StillAlone DEF Read, Claim, Refused, Ack, Compare, Delete
<1>2. CASE \E w \in Workers : Replay(w) \/ Ask(w)
  BY <1>2, StillAlone DEF Replay, Ask
<1>3. CASE \E w \in Workers : NoneActive(w) \/ Unrecorded(w) \/ Error(w) \/ Crash(w)
  <2> PICK w \in Workers : NoneActive(w) \/ Unrecorded(w) \/ Error(w) \/ Crash(w)
    BY <1>3
  <2>1. open' = open /\ answered' = answered /\ beside' = beside \ {w} /\ pc'[w] # "run"
    BY DEF NoneActive, Return, Unrecorded, Error, Crash
  <2>2. \A v \in Workers \ {w} :
          pc'[v] = pc[v] /\ entry'[v] = entry[v] /\ turn'[v] = turn[v]
    BY DEF NoneActive, Return, Unrecorded, Error, Crash, LedgerTypes
  <2> QED BY <2>1, <2>2, StillAlone
<1>4. CASE (\E k \in Keys : Expire(k)) \/ UNCHANGED vars
  BY <1>4, StillAlone DEF Expire, vars
<1> QED
  BY <1>1, <1>2, <1>3, <1>4, BeginAlone, ContinueAlone, FinishAlone DEF Next, WorkerStep

-----------------------------------------------------------------------------
(* Repeated runs.  While a request has no outcome, each of its runs is still  *)
(* going on, was cut short by a fault or met others; and a claim runs out     *)
(* once.                                                                      *)

Running(r) == {w \in Workers : pc[w] \in {"append", "run"} /\ Request(entry[w]) = r}

RunsCounted ==
  \A r \in Requests : r \notin answered =>
    runs[r] <= Cardinality(Running(r)) + faults + crossed[r]

LapsesCounted == Cardinality(lapsed) <= expiries

RunInv == RunsCounted /\ LapsesCounted /\ RunAgainOnlyForCause

\* What is counted is a number.
LEMMA Counts ==
  ASSUME IInv
  PROVE  /\ faults \in Nat /\ expiries \in Nat
         /\ \A r \in Requests : runs[r] \in Nat /\ crossed[r] \in Nat
BY IngressAssumption DEF IInv, TypeOK, StreamTypes, LedgerTypes

LEMMA RunningFinite ==
  ASSUME NEW r
  PROVE  IsFiniteSet(Running(r)) /\ Cardinality(Running(r)) \in Nat
<1>1. Running(r) \in SUBSET Workers
  BY DEF Running
<1> QED BY <1>1, IngressAssumption, FS_Subset, FS_CardinalityType

\* When one more run of a request begins, the others are paid for by claims that ran out.
LEMMA OthersLapsed ==
  ASSUME IInv, OverlapNeedsLapse, LapsesCounted, NEW w \in Workers, pc[w] = "ask",
         NEW r, r = Request(entry[w])
  PROVE  Cardinality(Running(r)) <= expiries
<1> DEFINE k == Key[entry[w]]
           inside == {v \in Workers : InEngine(v) /\ Key[entry[v]] = k}
<1>1. entry[w] \in Entries /\ k \in Keys
  BY AtWork DEF Busy
<1>2. \A v \in Running(r) : v \in inside /\ v # w
  BY DEF Running, InEngine, Request
<1>3. w \in inside
  BY DEF InEngine
<1>4. Cardinality(inside) <= 1 + Cardinality(Lapses(k))
  BY <1>1 DEF OverlapNeedsLapse, Lapses
<1>5. inside \in SUBSET Workers
  OBVIOUS
<1> HIDE DEF inside, k
<1>6. IsFiniteSet(inside) /\ Cardinality(inside) \in Nat
  BY <1>5, IngressAssumption, FS_Subset, FS_CardinalityType
<1>7. IsFiniteSet(inside \ {w}) /\ Cardinality(inside \ {w}) = Cardinality(inside) - 1
  BY <1>3, <1>6, FS_RemoveElement
<1>8. Running(r) \in SUBSET (inside \ {w})
  BY <1>2
<1>9. Cardinality(Running(r)) <= Cardinality(inside \ {w})
  BY <1>7, <1>8, FS_Subset
<1>10. Cardinality(Lapses(k)) <= Cardinality(lapsed) /\ Cardinality(lapsed) \in Nat
  <2>1. lapsed \in SUBSET Entries /\ Lapses(k) \in SUBSET lapsed
    BY DEF IInv, TypeOK, StreamTypes, Lapses
  <2>2. IsFiniteSet(lapsed)
    BY <2>1, IngressAssumption, FS_Subset
  <2> QED BY <2>1, <2>2, FS_Subset, FS_CardinalityType
<1>11. expiries \in Nat /\ Cardinality(Lapses(k)) \in Nat
  BY Finite DEF IInv, TypeOK, StreamTypes
<1> QED BY <1>4, <1>6, <1>7, <1>9, <1>10, <1>11, RunningFinite DEF LapsesCounted

LEMMA AskCounted ==
  ASSUME IInv, OverlapNeedsLapse, RunInv, NEW w \in Workers, Ask(w)
  PROVE  RunInv'
<1> DEFINE q == Request(entry[w])
<1>1. q \in Requests
  BY AtWork DEF Ask, Busy
<1>2. /\ runs'[q] = runs[q] + 1 /\ \A r \in Requests \ {q} : runs'[r] = runs[r]
      /\ UNCHANGED <<entry, answered, crossed, lapsed, expiries>>
      /\ faults' = faults + 1 \/ (faults' = faults /\ q \notin answered)
  BY <1>1 DEF Ask, Fault, IInv, TypeOK, LedgerTypes, bounds, ledger
<1>3. /\ Running(q)' = Running(q) \cup {w} /\ w \notin Running(q)
      /\ \A r \in Requests \ {q} : Running(r)' = Running(r)
  <2>1. pc'[w] = "append" /\ pc[w] = "ask" /\ \A v \in Workers \ {w} : pc'[v] = pc[v]
    BY DEF Ask, Goto, IInv, TypeOK, StreamTypes
  <2> QED BY <1>2, <2>1 DEF Running, Request
<1>4. Cardinality(Running(q)') = Cardinality(Running(q)) + 1
  BY <1>3, RunningFinite, FS_AddElement
<1>5. Cardinality(Running(q)) <= expiries
  BY <1>1, OthersLapsed DEF Ask, RunInv
<1>6. /\ \A r \in Requests : Cardinality(Running(r)) \in Nat
      /\ faults \in Nat /\ expiries \in Nat
      /\ \A r \in Requests : runs[r] \in Nat /\ crossed[r] \in Nat
  BY RunningFinite, Counts
<1>7. /\ q \notin answered => runs[q] <= Cardinality(Running(q)) + faults + crossed[q]
      /\ runs[q] <= 1 + faults + expiries + crossed[q]
  BY <1>1 DEF RunInv, RunsCounted, RunAgainOnlyForCause
<1>8. runs'[q] <= 1 + faults' + expiries' + crossed'[q]
  BY <1>1, <1>2, <1>5, <1>6, <1>7
<1>9. RunsCounted'
  <2> SUFFICES ASSUME NEW r \in Requests, r \notin answered
               PROVE  runs'[r] <= Cardinality(Running(r)') + faults' + crossed'[r]
    BY <1>2 DEF RunsCounted
  <2>1. CASE r = q
    BY <1>1, <1>2, <1>4, <1>6, <1>7, <2>1
  <2>2. CASE r # q
    <3>1. runs[r] <= Cardinality(Running(r)) + faults + crossed[r]
      BY DEF RunInv, RunsCounted
    <3> QED BY <1>2, <1>3, <1>6, <2>2, <3>1
  <2> QED BY <2>1, <2>2
<1>10. RunAgainOnlyForCause'
  <2> SUFFICES ASSUME NEW r \in Requests
               PROVE  runs'[r] <= 1 + faults' + expiries' + crossed'[r]
    BY DEF RunAgainOnlyForCause
  <2>1. CASE r # q
    <3>1. runs[r] <= 1 + faults + expiries + crossed[r]
      BY DEF RunInv, RunAgainOnlyForCause
    <3> QED BY <1>2, <1>6, <2>1, <3>1
  <2> QED BY <1>8, <2>1
<1> QED BY <1>2, <1>9, <1>10 DEF RunInv, LapsesCounted

\* A run that returns has its request answered, or is counted as crossed.
LEMMA ReturnCounted ==
  ASSUME IInv, AloneUnlessBeside, RunInv, NEW w \in Workers, Finish(w) \/ NoneActive(w)
  PROVE  RunInv'
<1> DEFINE q == Request(entry[w])
<1>0. q \in Requests /\ pc[w] = "run"
  BY AtWork DEF Finish, NoneActive, Busy
<1>1. /\ UNCHANGED <<runs, lapsed, faults, expiries, entry>> /\ answered \subseteq answered'
      /\ pc'[w] = "ack" /\ \A v \in Workers \ {w} : pc'[v] = pc[v]
  BY DEF Finish, NoneActive, Return, Goto, bounds, ledger, IInv, TypeOK, StreamTypes
<1>2. /\ q \notin answered' => crossed'[q] = crossed[q] + 1
      /\ crossed'[q] \in {crossed[q], crossed[q] + 1}
      /\ \A r \in Requests \ {q} : crossed'[r] = crossed[r]
  BY <1>0, ReturnsAnswered DEF Finish, NoneActive, Return, ledger, IInv, TypeOK, LedgerTypes
<1>3. /\ Running(q)' = Running(q) \ {w} /\ w \in Running(q)
      /\ \A r \in Requests \ {q} : Running(r)' = Running(r)
  BY <1>0, <1>1 DEF Running, Request
<1>4. Cardinality(Running(q)') = Cardinality(Running(q)) - 1
  BY <1>3, RunningFinite, FS_RemoveElement
<1>5. /\ \A r \in Requests : Cardinality(Running(r)) \in Nat
      /\ faults \in Nat /\ expiries \in Nat
      /\ \A r \in Requests : runs[r] \in Nat /\ crossed[r] \in Nat
  BY RunningFinite, Counts
<1>6. RunsCounted'
  <2> SUFFICES ASSUME NEW r \in Requests, r \notin answered'
               PROVE  runs'[r] <= Cardinality(Running(r)') + faults' + crossed'[r]
    BY DEF RunsCounted
  <2>1. runs[r] <= Cardinality(Running(r)) + faults + crossed[r]
    BY <1>1 DEF RunInv, RunsCounted
  <2>2. CASE r = q
    BY <1>0, <1>1, <1>2, <1>4, <1>5, <2>1, <2>2
  <2>3. CASE r # q
    BY <1>1, <1>2, <1>3, <2>1, <2>3
  <2> QED BY <2>2, <2>3
<1>7. RunAgainOnlyForCause'
  <2> SUFFICES ASSUME NEW r \in Requests
               PROVE  runs'[r] <= 1 + faults' + expiries' + crossed'[r]
    BY DEF RunAgainOnlyForCause
  <2>1. runs[r] <= 1 + faults + expiries + crossed[r]
    BY DEF RunInv, RunAgainOnlyForCause
  <2>2. crossed'[r] \in {crossed[r], crossed[r] + 1}
    BY <1>2
  <2> QED BY <1>1, <1>5, <2>1, <2>2
<1> QED BY <1>1, <1>6, <1>7 DEF RunInv, LapsesCounted

LEMMA FaultCounted ==
  ASSUME IInv, RunInv, NEW w \in Workers, Unrecorded(w) \/ Error(w) \/ Crash(w)
  PROVE  RunInv'
<1>1. UNCHANGED <<answered, runs, crossed, lapsed, expiries>> /\ faults' = faults + 1
  BY DEF Unrecorded, Error, Crash, Fault, ledger, history
<1>2. \A r \in Requests : Running(r) \subseteq Running(r)' \cup {w}
  BY EngineMoves DEF EngineStep, Running, Request
<1>3. ASSUME NEW r \in Requests
      PROVE  Cardinality(Running(r)) <= Cardinality(Running(r)') + 1
  <2>1. /\ IsFiniteSet(Running(r)) /\ Cardinality(Running(r)) \in Nat
        /\ IsFiniteSet(Running(r)') /\ Cardinality(Running(r)') \in Nat
    <3>1. Running(r)' \in SUBSET Workers
      BY DEF Running
    <3> QED BY <3>1, RunningFinite, IngressAssumption, FS_Subset, FS_CardinalityType
  <2>2. /\ IsFiniteSet(Running(r)' \cup {w}) /\ Cardinality(Running(r)' \cup {w}) \in Nat
        /\ Cardinality(Running(r)' \cup {w}) <= Cardinality(Running(r)') + 1
    BY <2>1, OneMore
  <2>3. Cardinality(Running(r)) <= Cardinality(Running(r)' \cup {w})
    BY <1>2, <2>2, FS_Subset
  <2> QED BY <2>1, <2>2, <2>3
<1>4. \A r \in Requests : Cardinality(Running(r)') \in Nat /\ Cardinality(Running(r)) \in Nat
  <2>1. \A r \in Requests : Running(r)' \in SUBSET Workers
    BY DEF Running
  <2> QED BY <2>1, RunningFinite, IngressAssumption, FS_Subset, FS_CardinalityType
<1>5. RunsCounted'
  BY <1>1, <1>3, <1>4, Counts DEF RunInv, RunsCounted
<1>6. RunAgainOnlyForCause'
  BY <1>1, Counts DEF RunInv, RunAgainOnlyForCause
<1> QED BY <1>1, <1>5, <1>6 DEF RunInv, LapsesCounted

LEMMA ExpireCounted ==
  ASSUME IInv, RunInv, NEW k \in Keys, Expire(k)
  PROVE  RunInv'
<1>1. /\ UNCHANGED <<answered, runs, crossed, pc, entry, faults>> /\ expiries' = expiries + 1
      /\ lapsed' = lapsed \cup {claims[k]} /\ faults \in Nat /\ expiries \in Nat
  BY Counts DEF Expire, ledger, history
<1>2. lapsed \in SUBSET Entries /\ IsFiniteSet(lapsed) /\ Cardinality(lapsed) \in Nat
  BY IngressAssumption, FS_Subset, FS_CardinalityType DEF IInv, TypeOK, StreamTypes
<1>3. Cardinality(lapsed') <= Cardinality(lapsed) + 1 /\ Cardinality(lapsed') \in Nat
  BY <1>1, <1>2, OneMore
<1>4. LapsesCounted'
  BY <1>1, <1>2, <1>3 DEF RunInv, LapsesCounted
<1>5. \A r \in Requests : Running(r)' = Running(r)
  BY <1>1 DEF Running, Request
<1>6. RunsCounted'
  BY <1>1, <1>5 DEF RunInv, RunsCounted
<1>7. RunAgainOnlyForCause'
  BY <1>1, Counts DEF RunInv, RunAgainOnlyForCause
<1> QED BY <1>4, <1>6, <1>7 DEF RunInv

LEMMA RunInvKept ==
  ASSUME IInv, OverlapNeedsLapse, AloneUnlessBeside, RunInv, [Next]_vars
  PROVE  RunInv'
<1>1. ASSUME UNCHANGED <<runs, answered, crossed, lapsed, faults, expiries>>,
             \A r \in Requests : Running(r)' = Running(r)
      PROVE  RunInv'
  BY <1>1 DEF RunInv, RunsCounted, LapsesCounted, RunAgainOnlyForCause
<1>2. ASSUME NEW w \in Workers,
             \/ \E e \in Entries : Read(w, e)
             \/ Claim(w) \/ Refused(w) \/ Replay(w) \/ Ack(w) \/ Compare(w) \/ Delete(w)
             \/ Begin(w) \/ Continue(w)
      PROVE  RunInv'
  <2> USE DEF Goto, Leave, ledger, run, history, bounds, IInv, TypeOK, StreamTypes
  <2>1. /\ UNCHANGED <<runs, answered, crossed, lapsed, faults, expiries>>
        /\ \A v \in Workers \ {w} : pc'[v] = pc[v] /\ entry'[v] = entry[v]
    BY <1>2 DEF Read, Claim, Refused, Replay, Ack, Compare, Delete, Begin, Continue
  <2>2. \/ pc[w] \notin {"append", "run"} /\ pc'[w] \notin {"append", "run"}
        \/ pc[w] \in {"append", "run"} /\ pc'[w] = "run" /\ entry'[w] = entry[w]
    BY <1>2 DEF Read, Claim, Refused, Replay, Ack, Compare, Delete, Begin, Continue
  <2>3. \A r \in Requests : Running(r)' = Running(r)
    BY <2>1, <2>2 DEF Running, Request
  <2> QED BY <1>1, <2>1, <2>3
<1>3. CASE UNCHANGED vars
  BY <1>1, <1>3 DEF vars, Running, Request
<1> QED
  BY <1>2, <1>3, AskCounted, ReturnCounted, FaultCounted, ExpireCounted DEF Next, WorkerStep

\* A request runs again only for a run that a fault cut short, a claim that ran out or a
\* run that met another request of its session, for any number of workers, of requests of
\* a session and of deliveries of each: who has the session to itself leaves an outcome.
THEOREM RepeatsPaidFor == Spec => []RunAgainOnlyForCause
<1>1. Init => RunInv /\ AloneUnlessBeside
  <2> SUFFICES ASSUME Init PROVE RunInv /\ AloneUnlessBeside
    OBVIOUS
  <2>1. /\ \A w \in Workers : pc[w] = "idle"
        /\ lapsed = {} /\ faults = 0 /\ expiries = 0
        /\ \A r \in Requests : runs[r] = 0 /\ crossed[r] = 0
    BY DEF Init
  <2>2. \A r \in Requests : Running(r) = {}
    BY <2>1 DEF Running
  <2>3. RunInv
    BY <2>1, <2>2, FS_EmptySet
       DEF RunInv, RunsCounted, LapsesCounted, RunAgainOnlyForCause
  <2>4. AloneUnlessBeside
    BY <2>1 DEF AloneUnlessBeside
  <2> QED BY <2>3, <2>4
<1>2. Spec => [](RunInv /\ AloneUnlessBeside)
  BY <1>1, Initially, Inductive, OverlapsPaidFor, AloneKept, RunInvKept, PTL DEF Spec
<1>3. RunInv => RunAgainOnlyForCause
  BY DEF RunInv
<1> QED BY <1>2, <1>3, PTL
=============================================================================
