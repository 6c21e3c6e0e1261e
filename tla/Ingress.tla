------------------------------ MODULE Ingress ------------------------------
(***************************************************************************)
(* Ingress workers (rain-engine-ingress/src/lib.rs) that take entries from *)
(* a Valkey stream, claim their trigger key in the coordination store      *)
(* (rain-engine-core/src/coordination.rs, rain-engine-store-valkey) and    *)
(* run the engine until there is an outcome.                               *)
(* An entry is handed out once, in order: XREADGROUP is called with ">".   *)
(* Time is not modelled: the 300 s of a claim may be over at any moment.   *)
(***************************************************************************)
EXTENDS Naturals, FiniteSets, Sequences

CONSTANTS
  Workers,      \* consumers, each calling run_once in a loop
  Entries,      \* the entries published
  Key,          \* [Entries -> trigger key]: the idempotency key, or the entry id
  Session,      \* [Entries -> session]
  Earlier,      \* [Entries -> the entries published before it]
  MaxFaults,    \* bound of the model on crashes and engine errors
  MaxExpiries   \* bound of the model on claims that run out

NoClaim == "none"
NoEntry == "none"
NoRequest == <<>>

ASSUME IngressAssumption ==
  /\ DOMAIN Key = Entries /\ DOMAIN Session = Entries
  /\ Earlier \in [Entries -> SUBSET Entries]
  /\ MaxFaults \in Nat /\ MaxExpiries \in Nat
  /\ IsFiniteSet(Workers) /\ IsFiniteSet(Entries)
ASSUME NoNames == NoClaim \notin Entries /\ NoEntry \notin Entries

Keys == {Key[e] : e \in Entries}
\* What the ledger knows a request by.
Requests == {<<Session[e], Key[e]>> : e \in Entries}
Request(e) == <<Session[e], Key[e]>>
Sessions == {Session[e] : e \in Entries}

VARIABLES
  stream,    \* [Entries -> "new", "pending" or "acked"]
  claims,    \* [Keys -> the claim in the store, by the entry it is for, or NoClaim]
  lapsed,    \* entries whose claim ran out
  pc,        \* [Workers -> where run_once awaits]
  entry,     \* [Workers -> the entry of this run_once, or NoEntry]
  open,      \* [Sessions -> requests of the triggers behind the last outcome]
  answered,  \* requests with an outcome in the ledger
  turn,      \* [Workers -> the request its advance is for, or NoRequest]
  served,    \* requests for which run_until_terminal returned an outcome
  runs,      \* [Requests -> runs that were not answered from the ledger]
  beside,    \* workers whose run met a trigger or a run of another request
  crossed,   \* [Requests -> those runs that returned and left it unanswered]
  faults, expiries

vars == <<stream, claims, lapsed, pc, entry, open, answered, turn, served, runs,
          beside, crossed, faults, expiries>>
ledger == <<open, answered>>
run == <<turn, beside>>
history == <<served, runs, crossed>>
bounds == <<faults, expiries>>

Init == /\ stream = [e \in Entries |-> "new"]
        /\ claims = [k \in Keys |-> NoClaim] /\ lapsed = {}
        /\ pc = [w \in Workers |-> "idle"] /\ entry = [w \in Workers |-> NoEntry]
        /\ open = [s \in Sessions |-> <<>>] /\ answered = {}
        /\ turn = [w \in Workers |-> NoRequest] /\ beside = {}
        /\ served = {} /\ runs = [r \in Requests |-> 0]
        /\ crossed = [r \in Requests |-> 0]
        /\ faults = 0 /\ expiries = 0

Goto(w, there) == pc' = [pc EXCEPT ![w] = there]
Leave(w) == Goto(w, "idle") /\ entry' = [entry EXCEPT ![w] = NoEntry]

-----------------------------------------------------------------------------
\* XREADGROUP: the first entry that no consumer has been given.
Read(w, e) == /\ pc[w] = "idle" /\ stream[e] = "new"
              /\ \A f \in Earlier[e] : stream[f] # "new"
              /\ stream' = [stream EXCEPT ![e] = "pending"]
              /\ entry' = [entry EXCEPT ![w] = e]
              /\ Goto(w, "claim")
              /\ UNCHANGED <<claims, lapsed, ledger, run, history, bounds>>

\* Mutant of Claim: SET without NX.
ClaimOver(w) == LET e == entry[w] IN
                /\ pc[w] = "claim"
                /\ claims' = [claims EXCEPT ![Key[e]] = e]
                /\ Goto(w, "ask")
                /\ UNCHANGED <<stream, lapsed, entry, ledger, run, history, bounds>>

Claim(w) == LET e == entry[w] IN
            /\ pc[w] = "claim" /\ claims[Key[e]] = NoClaim
            /\ claims' = [claims EXCEPT ![Key[e]] = e]
            /\ Goto(w, "ask")
            /\ UNCHANGED <<stream, lapsed, entry, ledger, run, history, bounds>>

\* Mutant of Refused: the worker waits until the claim it met is gone.
RefusedIfLapsed(w) == LET e == entry[w] IN
                      /\ pc[w] = "claim" /\ claims[Key[e]] \in lapsed
                      /\ stream' = [stream EXCEPT ![e] = "acked"]
                      /\ Leave(w)
                      /\ UNCHANGED <<claims, lapsed, ledger, run, history, bounds>>

\* Someone else has the key: the entry is dropped as a duplicate.
Refused(w) == LET e == entry[w] IN
              /\ pc[w] = "claim" /\ claims[Key[e]] # NoClaim
              /\ stream' = [stream EXCEPT ![e] = "acked"]
              /\ Leave(w)
              /\ UNCHANGED <<claims, lapsed, ledger, run, history, bounds>>

-----------------------------------------------------------------------------
(* run_until_terminal: one advance with the entry's trigger, then advances *)
(* that continue whatever trigger of the session is open first.            *)

Serve(w) == served' = served \cup {Request(entry[w])}
EndRun(w) == turn' = [turn EXCEPT ![w] = NoRequest] /\ beside' = beside \ {w}
Fault == faults < MaxFaults /\ faults' = faults + 1 /\ UNCHANGED expiries

\* advance_trigger answers from the ledger, or goes on.
Replay(w) == /\ pc[w] = "ask" /\ Request(entry[w]) \in answered
             /\ Serve(w) /\ Goto(w, "ack")
             /\ UNCHANGED <<stream, claims, lapsed, entry, ledger, run, runs, crossed,
                            bounds>>

\* No earlier outcome is found: there is none, or the question failed.
Ask(w) == /\ pc[w] = "ask"
          /\ \/ Request(entry[w]) \notin answered /\ UNCHANGED bounds
             \/ Fault
          /\ runs' = [runs EXCEPT ![Request(entry[w])] = @ + 1]
          /\ Goto(w, "append")
          /\ UNCHANGED <<stream, claims, lapsed, entry, ledger, run, served, crossed>>

InRun(s) == {w \in Workers : pc[w] = "run" /\ Session[entry[w]] = s}

\* Something of the session is not about this request: an open trigger, a run, or the
\* advance of a run.
Meets(w, r) == \/ \E i \in DOMAIN open[r[1]] : open[r[1]][i] # r
               \/ \E v \in InRun(r[1]) : Request(entry[v]) # r \/ turn[v] # r

\* append_trigger; the first advance is about this trigger.
Begin(w) ==
  LET r == Request(entry[w])
      met == {v \in InRun(r[1]) : Request(entry[v]) # r} IN
  /\ pc[w] = "append"
  /\ open' = [open EXCEPT ![r[1]] = Append(@, r)]
  /\ turn' = [turn EXCEPT ![w] = r]
  /\ beside' = beside \cup met \cup (IF Meets(w, r) THEN {w} ELSE {})
  /\ Goto(w, "run")
  /\ UNCHANGED <<stream, claims, lapsed, entry, answered, history, bounds>>

\* The advance had no outcome; advance_continue takes the session's first open trigger,
\* with the idempotency key of that trigger.
Continue(w) == LET s == Session[entry[w]] IN
               /\ pc[w] = "run" /\ open[s] # <<>>
               /\ turn' = [turn EXCEPT ![w] = Head(open[s])]
               /\ UNCHANGED <<stream, claims, lapsed, pc, entry, ledger, beside, history,
                              bounds>>

\* A run returns an outcome; one that met others may leave its request unanswered.
Return(w, known) == LET r == Request(entry[w]) IN
                    /\ crossed' = IF w \in beside /\ r \notin known
                                  THEN [crossed EXCEPT ![r] = @ + 1] ELSE crossed
                    /\ Serve(w) /\ EndRun(w) /\ Goto(w, "ack")
                    /\ UNCHANGED <<stream, claims, lapsed, entry, runs, bounds>>

\* Mutant of Finish: the outcome is recorded without an idempotency key.
FinishNameless(w) == /\ pc[w] = "run"
                     /\ open' = [open EXCEPT ![Session[entry[w]]] = <<>>]
                     /\ UNCHANGED answered
                     /\ Return(w, answered)

\* The advance has an outcome, recorded under its key: every trigger before it is closed.
Finish(w) == /\ pc[w] = "run"
             /\ open' = [open EXCEPT ![Session[entry[w]]] = <<>>]
             /\ answered' = answered \cup {turn[w]}
             /\ Return(w, answered')

\* No trigger is active: Continue answers Yielded and records nothing.
NoneActive(w) == /\ pc[w] = "run" /\ open[Session[entry[w]]] = <<>>
                 /\ UNCHANGED ledger
                 /\ Return(w, answered)

\* The loop ends with an outcome that is not in the ledger: a storage failure, or
\* an outcome whose append failed.
Unrecorded(w) == /\ pc[w] \in {"append", "run"} /\ Fault
                 /\ Serve(w) /\ EndRun(w) /\ Goto(w, "ack")
                 /\ UNCHANGED <<stream, claims, lapsed, entry, ledger, runs, crossed>>

\* Mutant of Error: the entry is acknowledged all the same.
ErrorAcked(w) == /\ pc[w] = "run" /\ Fault
                 /\ EndRun(w) /\ Goto(w, "ack")
                 /\ UNCHANGED <<stream, claims, lapsed, entry, ledger, history>>

\* An EngineError: the claim is released, the entry stays pending.
Error(w) == /\ pc[w] = "run" /\ Fault
            /\ EndRun(w) /\ Goto(w, "release")
            /\ UNCHANGED <<stream, claims, lapsed, entry, ledger, history>>

Ack(w) == /\ pc[w] = "ack"
          /\ stream' = [stream EXCEPT ![entry[w]] = "acked"]
          /\ Goto(w, "release")
          /\ UNCHANGED <<claims, lapsed, entry, ledger, run, history, bounds>>

-----------------------------------------------------------------------------
(* release_claim: only the claim's own id is deleted from the store, which on *)
(* Valkey is a GET that compares it and a DEL that follows.                    *)

Mine(w) == claims[Key[entry[w]]] = entry[w]

Compare(w) == /\ pc[w] = "release"
              /\ IF Mine(w) THEN Goto(w, "delete") /\ UNCHANGED entry ELSE Leave(w)
              /\ UNCHANGED <<stream, claims, lapsed, ledger, run, history, bounds>>

Delete(w) == /\ pc[w] = "delete"
             /\ claims' = [claims EXCEPT ![Key[entry[w]]] = NoClaim]
             /\ Leave(w)
             /\ UNCHANGED <<stream, lapsed, ledger, run, history, bounds>>

-----------------------------------------------------------------------------
\* A claim is never renewed: it runs out in the store, whatever its holder does.
Expire(k) == /\ claims[k] # NoClaim /\ expiries < MaxExpiries
             /\ expiries' = expiries + 1
             /\ lapsed' = lapsed \cup {claims[k]}
             /\ claims' = [claims EXCEPT ![k] = NoClaim]
             /\ UNCHANGED <<stream, pc, entry, ledger, run, history, faults>>

\* A worker stops, or a call to the stream or the store fails: run_once is gone,
\* its claim stays until it runs out.
Crash(w) == /\ pc[w] # "idle" /\ Fault
            /\ EndRun(w) /\ Leave(w)
            /\ UNCHANGED <<stream, claims, lapsed, ledger, history>>

WorkerStep(w) == \/ \E e \in Entries : Read(w, e)
                 \/ Claim(w) \/ Refused(w) \/ Replay(w) \/ Ask(w) \/ Begin(w)
                 \/ Continue(w) \/ Finish(w) \/ NoneActive(w)
                 \/ Ack(w) \/ Compare(w) \/ Delete(w)

Next == \/ \E w \in Workers : WorkerStep(w) \/ Unrecorded(w) \/ Error(w) \/ Crash(w)
        \/ \E k \in Keys : Expire(k)

Spec == Init /\ [][Next]_vars

\* The workers call run_once again and again, and some call returns as long as any can:
\* no more is asked of them, as a worker never waits for another.
FairSpec == Spec /\ WF_vars(\E w \in Workers : WorkerStep(w))

-----------------------------------------------------------------------------
(* Properties. *)

StreamTypes ==
  /\ stream \in [Entries -> {"new", "pending", "acked"}]
  /\ claims \in [Keys -> Entries \cup {NoClaim}] /\ lapsed \subseteq Entries
  /\ pc \in [Workers -> {"idle", "claim", "ask", "append", "run", "ack", "release", "delete"}]
  /\ entry \in [Workers -> Entries \cup {NoEntry}]
  /\ served \subseteq Requests
  /\ faults \in 0..MaxFaults /\ expiries \in 0..MaxExpiries

LedgerTypes ==
  /\ open \in [Sessions -> Seq(Requests)] /\ answered \subseteq Requests
  /\ turn \in [Workers -> Requests \cup {NoRequest}] /\ beside \subseteq Workers
  /\ runs \in [Requests -> Nat] /\ crossed \in [Requests -> Nat]

\* Every variable keeps its type.
TypeOK == StreamTypes /\ LedgerTypes

InEngine(w) == pc[w] \in {"ask", "append", "run"}

\* Workers are in the engine for one key at once only where claims of the key ran
\* out, one more worker for each, although a release that outlives its claim
\* deletes the claim of a successor.
OverlapNeedsLapse ==
  \A k \in Keys : Cardinality({w \in Workers : InEngine(w) /\ Key[entry[w]] = k}) <=
                    1 + Cardinality({e \in lapsed : Key[e] = k})

\* An acknowledged request is not forgotten: the engine gave it an outcome, or an
\* entry for it is still unacknowledged, also when duplicates are dropped while
\* the claim's holder fails.
NotForgotten ==
  \A e \in Entries : stream[e] = "acked" =>
     \/ Request(e) \in served
     \/ \E f \in Entries : Request(f) = Request(e) /\ stream[f] = "pending"

\* A request is run again, with all it did to the outside, only for a fault, for a run
\* that outlived its claim, or for a run that met another request of its session and came
\* back with the outcome of that one, or with none.  A run that has the session to itself
\* and is not cut short leaves its request answered.
RunAgainOnlyForCause ==
  \A r \in Requests : runs[r] <= 1 + faults + expiries + crossed[r]

\* Every entry is handed out and then acknowledged or left behind by a worker that
\* failed; a worker never waits for another.
EveryEntryTaken ==
  <>(\A e \in Entries : \/ stream[e] = "acked"
                        \/ stream[e] = "pending" /\ \A w \in Workers : entry[w] # e)
=============================================================================
