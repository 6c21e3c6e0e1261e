--------------------------- MODULE ToolGraphProofs ---------------------------
(***************************************************************************)
(* Theorems about ToolGraph, for every graph and every policy.             *)
(***************************************************************************)
EXTENDS ToolGraph, FiniteSetTheorems, WellFoundedInduction, TLAPS

\* Some start record carries the largest attempt number.
HasLargest(s) ==
  Starts(s) # {} =>
    \E i \in Starts(s) : \A j \in Starts(s) : s[j].attempt <= s[i].attempt

-----------------------------------------------------------------------------
(* What appending one checkpoint does to the projections. *)

\* The elements of a sequence of checkpoints after one is appended.
LEMMA AppendElements ==
  ASSUME NEW s \in Seq(Record), NEW r \in Record
  PROVE  /\ Append(s, r) \in Seq(Record)
         /\ Append(s, r) # <<>>
         /\ Len(s) \in Nat
         /\ Len(Append(s, r)) = Len(s) + 1
         /\ \A i \in 1..Len(s) : Append(s, r)[i] = s[i] /\ s[i] \in Record
         /\ Append(s, r)[Len(s) + 1] = r
  OBVIOUS

\* The elements of a sequence of checkpoints are checkpoints.
LEMMA Elements ==
  ASSUME NEW s \in Seq(Record)
  PROVE  \A i \in 1..Len(s) : s[i] \in Record /\ s[i].attempt \in Nat
  <1>1. \A i \in 1..Len(s) : s[i] \in Record
    OBVIOUS
  <1> QED
    BY <1>1 DEF Record

\* The appended checkpoint is the latest one; the node is settled if it was or
\* if the checkpoint is terminal.
LEMMA AppendLatest ==
  ASSUME NEW s \in Seq(Record), NEW r \in Record
  PROVE  /\ Latest(Append(s, r)) = r.status
         /\ Settled(Append(s, r)) <=> Settled(s) \/ r.status \in Terminal
         /\ ~Settled(s) => TerminalLast(Append(s, r))
  <1>1. Latest(Append(s, r)) = r.status
    BY AppendElements DEF Latest
  <1>2. 1..Len(Append(s, r)) = 1..Len(s) \cup {Len(s) + 1}
    BY AppendElements
  <1>3. Settled(Append(s, r)) <=> Settled(s) \/ r.status \in Terminal
    BY AppendElements, <1>2 DEF Settled
  <1>4. ~Settled(s) => TerminalLast(Append(s, r))
    BY AppendElements, <1>2 DEF Settled, TerminalLast
  <1> QED
    BY <1>1, <1>3, <1>4

\* A node is settled exactly when its latest checkpoint is terminal.
LEMMA SettledLatest ==
  ASSUME NEW s \in Seq(Record), TerminalLast(s)
  PROVE  /\ Settled(s) <=> Latest(s) \in Terminal
         /\ Latest(s) \in Statuses \cup {"none"}
  <1>1. CASE s = <<>>
    BY <1>1 DEF Settled, Latest, Terminal
  <1>2. CASE s # <<>>
    <2>1. Len(s) \in 1..Len(s) /\ s[Len(s)] \in Record
      BY <1>2
    <2> QED
      BY <1>2, <2>1 DEF Settled, Latest, TerminalLast, Record
  <1> QED
    BY <1>1, <1>2

\* The largest attempt number is a natural number that bounds every start.
LEMMA LargestBounds ==
  ASSUME NEW s \in Seq(Record), HasLargest(s)
  PROVE  /\ LargestAttempt(s) \in Nat
         /\ \A i \in Starts(s) : s[i].attempt <= LargestAttempt(s)
  <1> DEFINE A == {s[i].attempt : i \in Starts(s)}
  <1>1. \A i \in Starts(s) : s[i].attempt \in Nat
    BY Elements DEF Starts
  <1>2. CASE A = {}
    BY <1>2 DEF LargestAttempt
  <1>3. CASE A # {}
    <2>1. \E m \in A : \A k \in A : m >= k
      BY <1>1, <1>3 DEF HasLargest
    <2>2. Max(A) \in A /\ \A k \in A : Max(A) >= k
      BY <2>1 DEF Max
    <2>3. LargestAttempt(s) = Max(A)
      BY <1>3 DEF LargestAttempt
    <2> QED
      BY <1>1, <2>2, <2>3
  <1> QED
    BY <1>2, <1>3

\* A checkpoint that starts nothing leaves the attempts as they were.
LEMMA AppendOther ==
  ASSUME NEW s \in Seq(Record), NEW r \in Record, r.status # "Started"
  PROVE  /\ Starts(Append(s, r)) = Starts(s)
         /\ LargestAttempt(Append(s, r)) = LargestAttempt(s)
         /\ HasLargest(s) => HasLargest(Append(s, r))
  <1>1. 1..Len(Append(s, r)) = 1..Len(s) \cup {Len(s) + 1}
    BY AppendElements
  <1>2. Starts(Append(s, r)) = Starts(s)
    BY AppendElements, <1>1 DEF Starts
  <1>3. \A i \in Starts(s) : Append(s, r)[i] = s[i]
    BY AppendElements DEF Starts
  <1>4. {Append(s, r)[i].attempt : i \in Starts(s)} = {s[i].attempt : i \in Starts(s)}
    BY <1>3
  <1>5. LargestAttempt(Append(s, r)) = LargestAttempt(s)
    BY <1>2, <1>4 DEF LargestAttempt
  <1>6. HasLargest(s) => HasLargest(Append(s, r))
    BY <1>2, <1>3 DEF HasLargest
  <1> QED
    BY <1>2, <1>5, <1>6

\* A start numbered one more than the largest attempt is the new largest.
LEMMA AppendStart ==
  ASSUME NEW s \in Seq(Record), NEW r \in Record, HasLargest(s),
         r.status = "Started", r.attempt = LargestAttempt(s) + 1
  PROVE  /\ Starts(Append(s, r)) = Starts(s) \cup {Len(s) + 1}
         /\ LargestAttempt(Append(s, r)) = r.attempt
         /\ HasLargest(Append(s, r))
  <1> DEFINE t == Append(s, r)
  <1>1. 1..Len(t) = 1..Len(s) \cup {Len(s) + 1}
    BY AppendElements
  <1>2. Starts(t) = Starts(s) \cup {Len(s) + 1}
    BY AppendElements, <1>1 DEF Starts
  <1>3. \A i \in Starts(t) : t[i].attempt \in Nat /\ t[i].attempt <= r.attempt
    <2>1. \A i \in Starts(s) : t[i] = s[i] /\ s[i].attempt \in Nat
      BY AppendElements, Elements DEF Starts
    <2>2. t[Len(s) + 1] = r /\ r.attempt \in Nat
      BY AppendElements DEF Record
    <2>3. LargestAttempt(s) \in Nat
      BY LargestBounds
    <2>4. \A i \in Starts(s) : s[i].attempt <= LargestAttempt(s)
      BY LargestBounds
    <2> HIDE DEF t
    <2> QED
      BY <1>2, <2>1, <2>2, <2>3, <2>4
  <1>4. Len(s) + 1 \in Starts(t) /\ t[Len(s) + 1].attempt = r.attempt
    BY <1>2, AppendElements
  <1> HIDE DEF t
  <1>5. HasLargest(t)
    BY <1>3, <1>4 DEF HasLargest
  <1>6. LargestAttempt(t) = r.attempt
    <2> DEFINE A == {t[i].attempt : i \in Starts(t)}
    <2>1. r.attempt \in A /\ \A k \in A : r.attempt >= k
      BY <1>3, <1>4
    <2>2. Max(A) \in A /\ \A k \in A : Max(A) >= k
      BY <2>1 DEF Max
    <2>3. LargestAttempt(t) = Max(A)
      BY <2>1 DEF LargestAttempt
    <2>4. \A k \in A : k \in Nat
      BY <1>3
    <2> HIDE DEF A
    <2>5. Max(A) >= r.attempt /\ r.attempt >= Max(A)
      BY <2>1, <2>2
    <2>6. Max(A) \in Nat /\ r.attempt \in Nat
      BY <2>1, <2>2, <2>4
    <2> QED
      BY <2>3, <2>5, <2>6
  <1> QED
    BY <1>2, <1>5, <1>6 DEF t

-----------------------------------------------------------------------------
(* The inductive invariant. *)

\* The ledger of every node: terminal last, and attempts with a largest one.
LogOK == \A c \in Calls : TerminalLast(log[c]) /\ HasLargest(log[c])

\* The graph record comes before every checkpoint, and every terminal
\* checkpoint after the last "Queued" one.
QueuedFirst ==
  /\ ~graphRecorded => \A c \in Calls : log[c] = <<>>
  /\ pc = "record" => ~graphRecorded
  /\ pc \notin {"idle", "record"} => graphRecorded
  /\ pc = "queue" => \A c \in Calls : ~Settled(log[c])

\* While an advance runs, its maps agree with the ledger.
Agree ==
  pc # "idle" =>
    \A c \in Calls :
       /\ status[c] \in Terminal \/ Settled(log[c]) => status[c] = Latest(log[c])
       /\ attempts[c] = LargestAttempt(log[c])

\* The nodes of the batch and of the tasks are unsettled and their dependencies
\* have succeeded; a task's node has been started.
InHand ==
  /\ \A c \in Calls : c \in batch \/ tasks[c] # "none" =>
        ~Settled(log[c]) /\ DependenciesMet(c)
  /\ \A c \in Calls : tasks[c] # "none" => c \notin batch /\ LargestAttempt(log[c]) > 0
  /\ pc \notin {"prepare", "start", "spawn"} => batch = {} /\ tasks = None
  /\ pc = "spawn" => \A c \in Calls : AtNode(c) => LargestAttempt(log[c]) > 0

\* The results in hand are those of settled nodes.
ResultsOK == /\ \A c \in newResults : status[c] \in Terminal
             /\ pc = "idle" => newResults = {}

IInv == /\ TypeOK /\ LogOK /\ QueuedFirst /\ Agree /\ InHand /\ ResultsOK
        /\ DependenciesFirst /\ SkippedForCause

\* What a checkpoint may be appended for: an unsettled node, with the next
\* number and met dependencies for a start, and a cause for a skip.
MayAppend(c, st, n) ==
  /\ st \in Statuses /\ n \in Nat
  /\ ~Settled(log[c])
  /\ st = "Started" => n = LargestAttempt(log[c]) + 1 /\ DependenciesMet(c)
  /\ st = "Skipped" => DependencyFailed(c)

\* Such a checkpoint preserves everything the invariant says of the ledger, and
\* leaves the settled nodes alone.
LEMMA CheckpointStep ==
  ASSUME IInv, NEW c \in Calls, NEW st, NEW n, MayAppend(c, st, n), Checkpoint(c, st, n)
  PROVE  /\ log' \in [Calls -> Seq(Record)]
         /\ LogOK' /\ DependenciesFirst' /\ SkippedForCause'
         /\ \A d \in Calls \ {c} : log'[d] = log[d]
         /\ Latest(log'[c]) = st
         /\ Settled(log'[c]) <=> st \in Terminal
         /\ LargestAttempt(log'[c]) = IF st = "Started" THEN n ELSE LargestAttempt(log[c])
         /\ \A d \in Calls : DependenciesMet(d) => DependenciesMet(d)'
  <1> DEFINE r == [status |-> st, attempt |-> n]
  <1>1. r \in Record /\ r.status = st /\ r.attempt = n
    BY DEF MayAppend, Record
  <1>2. log[c] \in Seq(Record) /\ TerminalLast(log[c]) /\ HasLargest(log[c])
    BY DEF IInv, TypeOK, LogOK
  <1>3. log'[c] = Append(log[c], r) /\ \A d \in Calls \ {c} : log'[d] = log[d]
    BY DEF IInv, TypeOK, Checkpoint
  <1>4. log' \in [Calls -> Seq(Record)]
    <2>1. Append(log[c], r) \in Seq(Record)
      BY <1>1, <1>2, AppendElements
    <2> QED
      BY <2>1 DEF IInv, TypeOK, Checkpoint
  <1> HIDE DEF r
  <1>5. /\ Latest(log'[c]) = st
        /\ Settled(log'[c]) <=> st \in Terminal
        /\ TerminalLast(log'[c])
    BY <1>1, <1>2, <1>3, AppendLatest DEF MayAppend
  <1>6. /\ HasLargest(log'[c])
        /\ LargestAttempt(log'[c]) = IF st = "Started" THEN n ELSE LargestAttempt(log[c])
        /\ st # "Started" => Starts(log'[c]) = Starts(log[c])
    <2>1. CASE st = "Started"
      BY <2>1, <1>1, <1>2, <1>3, AppendStart DEF MayAppend
    <2>2. CASE st # "Started"
      BY <2>2, <1>1, <1>2, <1>3, AppendOther
    <2> QED
      BY <2>1, <2>2
  <1>7. LogOK'
    BY <1>3, <1>5, <1>6 DEF IInv, LogOK
  <1>8. Latest(log[c]) \notin Terminal
    BY <1>2, SettledLatest DEF MayAppend
  <1>9. \A d \in Calls : DependenciesMet(d) => DependenciesMet(d)'
    BY <1>3, <1>8 DEF DependenciesMet, Terminal
  <1>10. \A d \in Calls : DependencyFailed(d) => DependencyFailed(d)'
    BY <1>3, <1>8 DEF DependencyFailed, Unsuccessful
  <1>11. DependenciesFirst'
    <2> SUFFICES ASSUME NEW d \in Calls, Starts(log'[d]) # {}
                 PROVE  DependenciesMet(d)'
      BY DEF DependenciesFirst
    <2>1. DependenciesMet(d)
      BY <1>3, <1>6 DEF IInv, DependenciesFirst, MayAppend
    <2> QED
      BY <2>1, <1>9
  <1>12. SkippedForCause'
    <2> SUFFICES ASSUME NEW d \in Calls, Latest(log'[d]) = "Skipped"
                 PROVE  DependencyFailed(d)'
      BY DEF SkippedForCause
    <2>1. DependencyFailed(d)
      BY <1>3, <1>5 DEF IInv, SkippedForCause, MayAppend
    <2> QED
      BY <2>1, <1>10
  <1> QED
    BY <1>3, <1>4, <1>5, <1>6, <1>7, <1>9, <1>11, <1>12

\* A step that leaves the checkpoints alone preserves what is said of them.
LEMMA SameLedger ==
  ASSUME IInv, UNCHANGED log
  PROVE  /\ LogOK' /\ DependenciesFirst' /\ SkippedForCause'
         /\ \A c \in Calls : DependenciesMet(c) => DependenciesMet(c)'
  BY DEF IInv, LogOK, DependenciesFirst, DependenciesMet, SkippedForCause, DependencyFailed

\* The node order of the preparation loop picks one node at most.
LEMMA OneNode ==
  ASSUME TypeOK, NEW c \in Calls, NEW d \in Calls, AtNode(c), AtNode(d)
  PROVE  c = d
  <1>1. Priority[c] \in Int /\ Priority[d] \in Int /\ Order[c] \in Int /\ Order[d] \in Int
    <2>1. N \in Nat
      BY GraphAssumption, FS_CardinalityType DEF N
    <2> QED
      BY <2>1, GraphAssumption
  <1> QED
    BY <1>1 DEF AtNode, Before

\* Entering an advance loads maps that agree with the ledger.
LEMMA EnterStep ==
  ASSUME IInv, Enter, UNCHANGED taken \/ taken' = TRUE
  PROVE  IInv'
  <1>1. \A c \in Calls : /\ log[c] \in Seq(Record)
                         /\ TerminalLast(log[c]) /\ HasLargest(log[c])
    BY DEF IInv, TypeOK, LogOK
  <1>2. \A c \in Calls : /\ Settled(log[c]) <=> Latest(log[c]) \in Terminal
                         /\ Latest(log[c]) \in Statuses \cup {"none"}
                         /\ LargestAttempt(log[c]) \in Nat
    BY <1>1, SettledLatest, LargestBounds
  <1>3. TypeOK'
    BY <1>2 DEF IInv, TypeOK, Enter, ledger
  <1>4. LogOK' /\ DependenciesFirst' /\ SkippedForCause'
    BY SameLedger DEF Enter, ledger
  <1>5. QueuedFirst' /\ Agree' /\ InHand' /\ ResultsOK'
    <2>1. batch = {} /\ tasks = None
      BY DEF Enter, IInv, InHand
    <2>2. newResults = {}
      BY DEF Enter, IInv, ResultsOK
    <2> QED
      BY <1>2, <2>1, <2>2
      DEF IInv, QueuedFirst, Agree, InHand, ResultsOK, Enter, ledger, None, AtNode
  <1> QED
    BY <1>3, <1>4, <1>5 DEF IInv

\* Recording the graph and queueing its nodes.
LEMMA RecordSteps ==
  ASSUME IInv, RecordGraph \/ \E c \in Calls : QueueNode(c)
  PROVE  IInv'
  <1>0. N \in Nat /\ \A c \in Calls : Order[c] \in 1..N
    BY GraphAssumption, FS_CardinalityType DEF N
  <1>1. CASE RecordGraph
    <2>1. LogOK' /\ DependenciesFirst' /\ SkippedForCause'
      BY <1>1, SameLedger DEF RecordGraph
    <2>2. QueuedFirst'
      BY <1>1 DEF RecordGraph, IInv, QueuedFirst, Settled
    <2>3. TypeOK' /\ Agree' /\ InHand' /\ ResultsOK'
      BY <1>1 DEF RecordGraph, future, env, IInv, TypeOK, Agree, InHand, ResultsOK,
                  DependenciesMet, AtNode
    <2> QED
      BY <2>1, <2>2, <2>3 DEF IInv
  <1>2. ASSUME NEW c \in Calls, QueueNode(c) PROVE IInv'
    <2>1. MayAppend(c, "Queued", 0) /\ Checkpoint(c, "Queued", 0)
      BY <1>2 DEF QueueNode, MayAppend, Statuses, IInv, QueuedFirst
    <2>2. /\ log' \in [Calls -> Seq(Record)]
          /\ LogOK' /\ DependenciesFirst' /\ SkippedForCause'
          /\ \A d \in Calls \ {c} : log'[d] = log[d]
          /\ Latest(log'[c]) = "Queued" /\ ~Settled(log'[c])
          /\ LargestAttempt(log'[c]) = LargestAttempt(log[c])
      BY <2>1, CheckpointStep DEF Terminal
    <2>3. TypeOK'
      BY <1>0, <1>2, <2>2 DEF QueueNode, env, IInv, TypeOK
    <2>4. QueuedFirst'
      BY <1>2, <2>2 DEF QueueNode, IInv, QueuedFirst
    <2>5. Agree'
      <3>1. \A d \in Calls : status[d] \in Terminal \/ Settled(log[d]) => status[d] = Latest(log[d])
        BY <1>2 DEF QueueNode, IInv, Agree
      <3>2. Latest(log[c]) \notin Terminal /\ ~Settled(log[c])
        BY <2>1, SettledLatest DEF MayAppend, IInv, LogOK, TypeOK
      <3>3. status[c] \notin Terminal
        BY <3>1, <3>2
      <3> QED
        BY <1>2, <2>2, <3>1, <3>3 DEF QueueNode, IInv, Agree
    <2>6. InHand' /\ ResultsOK'
      BY <1>2, <2>2 DEF QueueNode, IInv, InHand, ResultsOK, None, env
    <2> QED
      BY <2>2, <2>3, <2>4, <2>5, <2>6 DEF IInv
  <1> QED
    BY <1>1, <1>2

\* A terminal checkpoint of a node in hand, noted in the driver's maps.
LEMMA NoteStep ==
  ASSUME IInv, NEW c \in Calls, NEW st \in Terminal, NEW n,
         MayAppend(c, st, n), Checkpoint(c, st, n), Note(c, st),
         pc \notin {"idle", "record", "queue"}, pc' \notin {"idle", "record", "queue"},
         UNCHANGED <<attempts, graphRecorded>>
  PROVE  /\ log' \in [Calls -> Seq(Record)]
         /\ status' \in [Calls -> Statuses \cup {"none"}] /\ newResults' \in SUBSET Calls
         /\ LogOK' /\ DependenciesFirst' /\ SkippedForCause'
         /\ QueuedFirst' /\ Agree' /\ ResultsOK'
         /\ \A d \in Calls \ {c} : log'[d] = log[d]
         /\ \A d \in Calls : DependenciesMet(d) => DependenciesMet(d)'
  <1>1. /\ log' \in [Calls -> Seq(Record)]
        /\ LogOK' /\ DependenciesFirst' /\ SkippedForCause'
        /\ \A d \in Calls \ {c} : log'[d] = log[d]
        /\ Latest(log'[c]) = st /\ Settled(log'[c])
        /\ LargestAttempt(log'[c]) = LargestAttempt(log[c])
        /\ \A d \in Calls : DependenciesMet(d) => DependenciesMet(d)'
    BY CheckpointStep DEF Terminal
  <1>2. /\ status' \in [Calls -> Statuses \cup {"none"}] /\ newResults' \in SUBSET Calls
        /\ status'[c] = st /\ \A d \in Calls \ {c} : status'[d] = status[d]
    BY DEF Note, IInv, TypeOK, Statuses
  <1>3. graphRecorded
    BY DEF IInv, QueuedFirst
  <1>4. QueuedFirst'
    BY <1>3 DEF QueuedFirst
  <1>5. Agree'
    BY <1>1, <1>2 DEF IInv, Agree
  <1>6. ResultsOK'
    BY <1>2 DEF IInv, ResultsOK, Note
  <1> QED
    BY <1>1, <1>2, <1>4, <1>5, <1>6

\* A blocked node is unsettled and has a dependency that durably failed.
LEMMA SkipCause ==
  ASSUME IInv, NEW c \in Calls, Blocked(c), pc = "skip"
  PROVE  MayAppend(c, "Skipped", 0)
  <1>1. \A d \in Calls : status[d] \in Terminal \/ Settled(log[d]) => status[d] = Latest(log[d])
    BY DEF IInv, Agree
  <1>2. PICK d \in Deps[c] : StatusOf(d) \in Unsuccessful
    BY DEF Blocked
  <1>3. d \in Calls /\ Latest(log[d]) \in Unsuccessful
    BY <1>1, <1>2 DEF StatusOf, Unsuccessful, Terminal
  <1>4. Settled(log[c]) => Latest(log[c]) \in Terminal
    BY SettledLatest DEF IInv, TypeOK, LogOK
  <1>5. ~Settled(log[c])
    BY <1>1, <1>4 DEF Blocked
  <1> QED
    BY <1>2, <1>3, <1>5 DEF MayAppend, DependencyFailed, Statuses, Terminal

\* The skip pass, and what follows it.
LEMMA SkipSteps ==
  ASSUME IInv, StartBatch \/ SkipAgain \/ FinishGraph \/ \E c \in Calls : SkipNode(c)
  PROVE  IInv'
  <1>1. ASSUME NEW c \in Calls, SkipNode(c) PROVE IInv'
    <2>1. Blocked(c) /\ pc = "skip"
      BY <1>1 DEF SkipNode, ToSkip
    <2>3. MayAppend(c, "Skipped", 0)
      BY <2>1, SkipCause
    <2>4. /\ log' \in [Calls -> Seq(Record)]
          /\ status' \in [Calls -> Statuses \cup {"none"}] /\ newResults' \in SUBSET Calls
          /\ LogOK' /\ DependenciesFirst' /\ SkippedForCause'
          /\ QueuedFirst' /\ Agree' /\ ResultsOK'
      BY <1>1, <2>1, <2>3, NoteStep DEF SkipNode, Terminal
    <2>5. TypeOK'
      <3>1. Order[c] \in 0..N
        BY GraphAssumption, FS_CardinalityType DEF N
      <3> QED
        BY <1>1, <2>4, <3>1 DEF SkipNode, IInv, TypeOK, env
    <2>6. InHand'
      BY <1>1, <2>1 DEF SkipNode, IInv, InHand, None
    <2> QED
      BY <2>4, <2>5, <2>6 DEF IInv
  <1>2. CASE StartBatch
    <2>1. UNCHANGED <<log, status, attempts, tasks, newResults>> /\ pc = "skip" /\ pc' = "prepare"
      BY <1>2 DEF StartBatch, EndPass, ledger
    <2>2. LogOK' /\ DependenciesFirst' /\ SkippedForCause'
      BY <2>1, SameLedger
    <2>3. \A c \in FirstReady : c \in Calls /\ ~Settled(log[c]) /\ DependenciesMet(c)
      <3> SUFFICES ASSUME NEW c \in FirstReady
                   PROVE  c \in Calls /\ ~Settled(log[c]) /\ DependenciesMet(c)
        OBVIOUS
      <3>1. c \in Calls /\ Ready(c)
        BY DEF FirstReady
      <3>2. \A d \in Calls : status[d] \in Terminal \/ Settled(log[d]) => status[d] = Latest(log[d])
        BY <2>1 DEF IInv, Agree
      <3>3. Settled(log[c]) => Latest(log[c]) \in Terminal
        BY <3>1, SettledLatest DEF IInv, TypeOK, LogOK
      <3>4. DependenciesMet(c)
        BY <3>1, <3>2 DEF Ready, StatusOf, DependenciesMet, Terminal
      <3> QED
        BY <3>1, <3>2, <3>3, <3>4 DEF Ready
    <2>4. TypeOK'
      <3>1. 0 \in 0..N
        BY GraphAssumption, FS_CardinalityType DEF N
      <3> QED
        BY <1>2, <2>3, <3>1 DEF StartBatch, EndPass, IInv, TypeOK, ledger, env
    <2>5. InHand'
      <3>1. \A c \in Calls : tasks[c] = "none"
        BY <2>1 DEF IInv, InHand, None
      <3>2. \A c \in Calls : DependenciesMet(c) => DependenciesMet(c)'
        BY <2>1, SameLedger
      <3>3. batch' = FirstReady
        BY <1>2 DEF StartBatch
      <3> QED
        BY <2>1, <2>3, <3>1, <3>2, <3>3 DEF InHand
    <2>6. QueuedFirst' /\ Agree' /\ ResultsOK'
      BY <1>2, <2>1 DEF StartBatch, EndPass, ledger, IInv, QueuedFirst, Agree, ResultsOK
    <2> QED
      BY <2>2, <2>4, <2>5, <2>6 DEF IInv
  <1>3. CASE SkipAgain \/ FinishGraph
    <2>1. /\ UNCHANGED <<graphRecorded, log, toolResults, status, attempts, tasks, batch,
                         newResults, retries, env>>
          /\ pc = "skip" /\ pc' \in {"skip", "results"} /\ cursor' = 0 /\ skipped' = FALSE
      BY <1>3 DEF SkipAgain, FinishGraph, EndPass, ledger
    <2>2. LogOK' /\ DependenciesFirst' /\ SkippedForCause'
      BY <2>1, SameLedger
    <2>3. TypeOK'
      <3>1. 0 \in 0..N
        BY GraphAssumption, FS_CardinalityType DEF N
      <3> QED
        BY <2>1, <3>1 DEF IInv, TypeOK, env
    <2>4. InHand'
      BY <2>1 DEF IInv, InHand, None
    <2>5. QueuedFirst' /\ Agree' /\ ResultsOK'
      BY <2>1 DEF IInv, QueuedFirst, Agree, ResultsOK
    <2> QED
      BY <2>2, <2>3, <2>4, <2>5 DEF IInv
  <1> QED
    BY <1>1, <1>2, <1>3

\* Preparing a node of the batch.
LEMMA PrepareSteps ==
  ASSUME IInv, NEW c \in Calls, Validate(c) \/ Refuse(c) \/ Start(c) \/ Spawn(c)
  PROVE  IInv'
  <1>0. c \in batch /\ ~Settled(log[c]) /\ DependenciesMet(c)
    BY DEF Validate, Refuse, Start, Spawn, AtNode, IInv, InHand
  <1>1. CASE Validate(c)
    <2>1. MayAppend(c, "Validated", 0) /\ Checkpoint(c, "Validated", 0)
      BY <1>0, <1>1 DEF MayAppend, Statuses, Validate
    <2>2. /\ log' \in [Calls -> Seq(Record)]
          /\ LogOK' /\ DependenciesFirst' /\ SkippedForCause'
          /\ \A d \in Calls \ {c} : log'[d] = log[d]
          /\ ~Settled(log'[c])
          /\ LargestAttempt(log'[c]) = LargestAttempt(log[c])
          /\ \A d \in Calls : DependenciesMet(d) => DependenciesMet(d)'
      <3>1. \A d \in Calls : DependenciesMet(d) => DependenciesMet(d)'
        BY <2>1, CheckpointStep
      <3> QED
        BY <2>1, <3>1, CheckpointStep DEF Terminal
    <2>3. TypeOK'
      BY <1>1, <2>2 DEF Validate, IInv, TypeOK, future, env
    <2>4. QueuedFirst' /\ ResultsOK'
      BY <1>1 DEF Validate, IInv, QueuedFirst, ResultsOK, future
    <2>5. Agree'
      <3>1. status[c] \notin Terminal
        <4>1. status[c] \in Terminal => status[c] = Latest(log[c])
          BY <1>1 DEF IInv, Agree, Validate
        <4>2. Latest(log[c]) \notin Terminal
          BY <1>0, SettledLatest DEF IInv, LogOK, TypeOK
        <4> QED
          BY <4>1, <4>2
      <3> QED
        BY <1>1, <2>2, <3>1 DEF Validate, IInv, Agree, future
    <2>6. InHand'
      BY <1>1, <2>2 DEF Validate, IInv, InHand, future
    <2> QED
      BY <2>2, <2>3, <2>4, <2>5, <2>6 DEF IInv
  <1>2. CASE Refuse(c)
    <2>1. MayAppend(c, "Failed", 0)
      BY <1>0 DEF MayAppend, Statuses, Terminal
    <2>2. /\ log' \in [Calls -> Seq(Record)]
          /\ status' \in [Calls -> Statuses \cup {"none"}] /\ newResults' \in SUBSET Calls
          /\ LogOK' /\ DependenciesFirst' /\ SkippedForCause'
          /\ QueuedFirst' /\ Agree' /\ ResultsOK'
          /\ \A d \in Calls \ {c} : log'[d] = log[d]
          /\ \A d \in Calls : DependenciesMet(d) => DependenciesMet(d)'
      BY <1>2, <2>1, NoteStep DEF Refuse, Terminal
    <2>3. TypeOK'
      BY <1>2, <2>2 DEF Refuse, IInv, TypeOK, env
    <2>4. InHand'
      BY <1>0, <1>2, <2>2 DEF Refuse, IInv, InHand
    <2> QED
      BY <2>2, <2>3, <2>4 DEF IInv
  <1>3. CASE Start(c)
    <2>1. attempts[c] = LargestAttempt(log[c]) /\ attempts[c] + 1 \in Nat /\ attempts[c] + 1 > 0
      BY <1>3 DEF Start, IInv, Agree, TypeOK
    <2>2. MayAppend(c, "Started", attempts[c] + 1)
      BY <1>0, <2>1 DEF MayAppend, Statuses
    <2>3. /\ log' \in [Calls -> Seq(Record)]
          /\ LogOK' /\ DependenciesFirst' /\ SkippedForCause'
          /\ \A d \in Calls \ {c} : log'[d] = log[d]
          /\ ~Settled(log'[c])
          /\ LargestAttempt(log'[c]) = attempts[c] + 1 /\ attempts[c] + 1 > 0
          /\ \A d \in Calls : DependenciesMet(d) => DependenciesMet(d)'
      BY <1>3, <2>1, <2>2, CheckpointStep DEF Start, Terminal
    <2>4. attempts' = [attempts EXCEPT ![c] = @ + 1] /\ attempts' \in [Calls -> Nat]
      BY <1>3, <2>1 DEF Start, IInv, TypeOK
    <2>5. TypeOK'
      BY <1>3, <2>3, <2>4 DEF Start, IInv, TypeOK, env
    <2>6. QueuedFirst' /\ ResultsOK'
      BY <1>3 DEF Start, IInv, QueuedFirst, ResultsOK
    <2>7. Agree'
      <3>1. status[c] \notin Terminal
        <4>1. status[c] \in Terminal => status[c] = Latest(log[c])
          BY <1>3 DEF IInv, Agree, Start
        <4>2. Latest(log[c]) \notin Terminal
          BY <1>0, SettledLatest DEF IInv, LogOK, TypeOK
        <4> QED
          BY <4>1, <4>2
      <3>2. attempts'[c] = LargestAttempt(log'[c])
        BY <2>3, <2>4 DEF IInv, TypeOK
      <3>3. \A d \in Calls \ {c} : attempts'[d] = attempts[d]
        BY <2>4 DEF IInv, TypeOK
      <3> QED
        BY <1>3, <2>3, <3>1, <3>2, <3>3 DEF Start, IInv, Agree
    <2>8. InHand'
      <3>1. \A d \in Calls : AtNode(d) => d = c
        BY <1>3, OneNode DEF Start, IInv
      <3>2. \A d \in Calls : AtNode(d)' => AtNode(d)
        BY <1>3 DEF Start, AtNode
      <3> QED
        BY <1>3, <2>3, <3>1, <3>2 DEF Start, IInv, InHand
    <2> QED
      BY <2>3, <2>5, <2>6, <2>7, <2>8 DEF IInv
  <1>4. CASE Spawn(c)
    <2>1. LargestAttempt(log[c]) > 0
      BY <1>4 DEF Spawn, IInv, InHand
    <2>2. LogOK' /\ DependenciesFirst' /\ SkippedForCause'
          /\ \A d \in Calls : DependenciesMet(d) => DependenciesMet(d)'
      BY <1>4, SameLedger DEF Spawn, ledger
    <2>3. TypeOK'
      <3>1. tasks' \in [Calls -> {"none", "running"} \cup Outputs]
        BY <1>4 DEF Spawn, IInv, TypeOK, Outputs, Terminal
      <3>2. retries' \in [Calls -> Nat] /\ invocations' \in [Calls -> Nat]
        BY <1>4 DEF Spawn, IInv, TypeOK
      <3> QED
        BY <1>4, <3>1, <3>2 DEF Spawn, IInv, TypeOK, ledger
    <2>4. QueuedFirst' /\ Agree' /\ ResultsOK'
      BY <1>4 DEF Spawn, ledger, IInv, QueuedFirst, Agree, ResultsOK
    <2>5. InHand'
      BY <1>0, <1>4, <2>1, <2>2 DEF Spawn, ledger, IInv, InHand, TypeOK
    <2> QED
      BY <2>2, <2>3, <2>4, <2>5 DEF IInv
  <1> QED
    BY <1>1, <1>2, <1>3, <1>4

\* The tasks, and joining them.
LEMMA TaskSteps ==
  ASSUME IInv, EndBatch \/ \E c \in Calls : Join(c) \/ TaskStep(c)
  PROVE  IInv'
  <1>1. ASSUME NEW c \in Calls, Join(c) PROVE IInv'
    <2>1. tasks[c] \in Terminal /\ ~Settled(log[c]) /\ pc = "prepare" /\ batch = {}
          /\ tasks[c] # "Skipped"
      BY <1>1 DEF Join, IInv, InHand, Outputs, Terminal
    <2>2. MayAppend(c, tasks[c], attempts[c])
      BY <2>1 DEF MayAppend, Statuses, Terminal, IInv, TypeOK
    <2>3. /\ log' \in [Calls -> Seq(Record)]
          /\ status' \in [Calls -> Statuses \cup {"none"}] /\ newResults' \in SUBSET Calls
          /\ LogOK' /\ DependenciesFirst' /\ SkippedForCause'
          /\ QueuedFirst' /\ Agree' /\ ResultsOK'
          /\ \A d \in Calls \ {c} : log'[d] = log[d]
          /\ \A d \in Calls : DependenciesMet(d) => DependenciesMet(d)'
      BY <1>1, <2>1, <2>2, NoteStep DEF Join
    <2>4. TypeOK'
      BY <1>1, <2>3 DEF Join, IInv, TypeOK, env
    <2>5. InHand'
      BY <1>1, <2>1, <2>3 DEF Join, IInv, InHand, TypeOK
    <2> QED
      BY <2>3, <2>4, <2>5 DEF IInv
  <1>2. ASSUME NEW c \in Calls, TaskStep(c) PROVE IInv'
    <2> DEFINE OnlyTasks ==
           /\ UNCHANGED <<graphRecorded, log, toolResults, pc, status, attempts, cursor,
                          skipped, batch, newResults, taken, interruptions>>
           /\ tasks[c] = "running"
           /\ \A d \in Calls : tasks'[d] # "none" <=> tasks[d] # "none"
           /\ tasks' \in [Calls -> {"none", "running"} \cup Outputs]
           /\ retries' \in [Calls -> Nat] /\ invocations' \in [Calls -> Nat]
    <2>1. OnlyTasks
      <3>1. CASE Retry(c)
        BY <1>2, <3>1 DEF Retry, ledger, IInv, TypeOK
      <3>2. ASSUME NEW o \in Outputs, Return(c, o) PROVE OnlyTasks
        BY <1>2, <3>2 DEF Return, ledger, env, IInv, TypeOK, Outputs, Terminal
      <3> QED
        BY <1>2, <3>1, <3>2 DEF TaskStep
    <2>2. LogOK' /\ DependenciesFirst' /\ SkippedForCause'
          /\ \A d \in Calls : DependenciesMet(d) => DependenciesMet(d)'
      BY <2>1, SameLedger
    <2>3. TypeOK' /\ QueuedFirst' /\ Agree' /\ ResultsOK'
      BY <2>1 DEF IInv, TypeOK, QueuedFirst, Agree, ResultsOK
    <2>4. InHand'
      <3>1. pc \in {"prepare", "start", "spawn"}
        BY <2>1 DEF IInv, InHand, None
      <3>2. \A d \in Calls : AtNode(d)' <=> AtNode(d)
        BY <2>1 DEF AtNode
      <3> QED
        BY <2>1, <2>2, <3>1, <3>2 DEF IInv, InHand
    <2> QED
      BY <2>2, <2>3, <2>4 DEF IInv
  <1>3. CASE EndBatch
    <2>1. LogOK' /\ DependenciesFirst' /\ SkippedForCause'
      BY <1>3, SameLedger DEF EndBatch, ledger
    <2>2. TypeOK' /\ QueuedFirst' /\ Agree' /\ ResultsOK'
      BY <1>3 DEF EndBatch, ledger, future, env, IInv, TypeOK, QueuedFirst, Agree, ResultsOK
    <2>3. tasks = None
      BY <1>3 DEF EndBatch, None, IInv, TypeOK
    <2>4. InHand'
      BY <1>3, <2>3 DEF EndBatch, future, InHand, None
    <2> QED
      BY <2>1, <2>2, <2>4 DEF IInv
  <1> QED
    BY <1>1, <1>2, <1>3

\* Recording the results, returning, and being interrupted.
LEMMA LeaveSteps ==
  ASSUME IInv, Leave \/ Interrupt \/ \E c \in Calls : AppendResult(c)
  PROVE  IInv'
  <1>1. ASSUME NEW c \in Calls, AppendResult(c) PROVE IInv'
    <2>1. LogOK' /\ DependenciesFirst' /\ SkippedForCause'
      BY <1>1, SameLedger DEF AppendResult
    <2>2. TypeOK'
      <3>1. Append(toolResults[c], status[c]) \in Seq(Terminal)
        <4>1. toolResults[c] \in Seq(Terminal) /\ status[c] \in Terminal
          BY <1>1 DEF AppendResult, IInv, TypeOK, ResultsOK
        <4> QED
          BY <4>1
      <3> QED
        BY <1>1, <3>1 DEF AppendResult, IInv, TypeOK, env
    <2>3. QueuedFirst' /\ Agree' /\ ResultsOK'
      BY <1>1 DEF AppendResult, IInv, QueuedFirst, Agree, ResultsOK
    <2>4. InHand'
      BY <1>1 DEF AppendResult, IInv, InHand, None
    <2> QED
      BY <2>1, <2>2, <2>3, <2>4 DEF IInv
  <1>2. CASE Leave \/ Interrupt
    <2>1. /\ UNCHANGED <<graphRecorded, log, toolResults, taken, invocations>> /\ DropFuture
          /\ interruptions' \in Nat
      BY <1>2 DEF Leave, Interrupt, ledger, env, IInv, TypeOK
    <2>2. LogOK' /\ DependenciesFirst' /\ SkippedForCause'
      BY <2>1, SameLedger
    <2>3. TypeOK'
      <3>1. 0 \in 0..N
        BY GraphAssumption, FS_CardinalityType DEF N
      <3> QED
        BY <2>1, <3>1 DEF DropFuture, IInv, TypeOK, None, Zero
    <2>4. QueuedFirst' /\ Agree' /\ InHand' /\ ResultsOK'
      BY <2>1 DEF DropFuture, IInv, QueuedFirst, Agree, InHand, ResultsOK, None
    <2> QED
      BY <2>2, <2>3, <2>4 DEF IInv
  <1> QED
    BY <1>1, <1>2

-----------------------------------------------------------------------------
(* The theorems. *)

\* IInv holds of the initial states and is preserved by every step.
THEOREM Inductive == Spec => []IInv
  <1>1. Init => IInv
    <2> SUFFICES ASSUME Init PROVE IInv
      OBVIOUS
    <2>1. TypeOK
      <3>1. 0 \in 0..N
        BY GraphAssumption, FS_CardinalityType DEF N
      <3>2. /\ log \in [Calls -> Seq(Record)] /\ toolResults \in [Calls -> Seq(Terminal)]
            /\ batch \in SUBSET Calls /\ newResults \in SUBSET Calls
        BY DEF Init
      <3>3. /\ status \in [Calls -> Statuses \cup {"none"}]
            /\ tasks \in [Calls -> {"none", "running"} \cup Outputs]
            /\ attempts \in [Calls -> Nat] /\ retries \in [Calls -> Nat]
            /\ invocations \in [Calls -> Nat]
        BY DEF Init, None, Zero
      <3> QED
        BY <3>1, <3>2, <3>3 DEF Init, TypeOK
    <2>2. \A c \in Calls : log[c] = <<>> /\ Starts(log[c]) = {} /\ Latest(log[c]) = "none"
      BY DEF Init, Starts, Latest
    <2>3. LogOK /\ DependenciesFirst /\ SkippedForCause
      <3>1. \A c \in Calls : TerminalLast(log[c])
        BY <2>2 DEF TerminalLast
      <3>2. \A c \in Calls : HasLargest(log[c])
        BY <2>2 DEF HasLargest
      <3> QED
        BY <2>2, <3>1, <3>2 DEF LogOK, DependenciesFirst, SkippedForCause
    <2>4. QueuedFirst /\ Agree /\ InHand /\ ResultsOK
      BY <2>2 DEF Init, QueuedFirst, Agree, InHand, ResultsOK, None
    <2> QED
      BY <2>1, <2>3, <2>4 DEF IInv
  <1>2. IInv /\ [Next]_vars => IInv'
    <2> SUFFICES ASSUME IInv, [Next]_vars PROVE IInv'
      OBVIOUS
    <2>1. CASE Take \/ Continue \/ Reapprove
      BY <2>1, EnterStep DEF Take, Continue, Reapprove
    <2>2. CASE Interrupt
      BY <2>2, LeaveSteps
    <2>3. CASE \E c \in Calls : TaskStep(c)
      BY <2>3, TaskSteps
    <2>4. CASE RecordGraph \/ StartBatch \/ SkipAgain \/ FinishGraph \/ EndBatch \/ Leave
      BY <2>4, RecordSteps, SkipSteps, TaskSteps, LeaveSteps
    <2>5. ASSUME NEW c \in Calls, NodeStep(c) PROVE IInv'
      BY <2>5, RecordSteps, SkipSteps, PrepareSteps, TaskSteps, LeaveSteps DEF NodeStep
    <2>6. CASE UNCHANGED vars
      BY <2>6 DEF vars, ledger, future, env, IInv, TypeOK, LogOK, QueuedFirst, Agree, InHand,
                  ResultsOK, DependenciesFirst, SkippedForCause, DependenciesMet,
                  DependencyFailed, AtNode
    <2> QED
      BY <2>1, <2>2, <2>3, <2>4, <2>5, <2>6 DEF Next, DriverStep
  <1> QED
    BY <1>1, <1>2, PTL DEF Spec

\* Every variable keeps its type.
THEOREM TypeCorrect == Spec => []TypeOK
  <1>1. IInv => TypeOK
    BY DEF IInv
  <1> QED
    BY <1>1, Inductive, PTL

\* Nothing is ever checkpointed for a node after its terminal checkpoint.
THEOREM CompletedWorkNotRepeated == Spec => []SettledOnce
  <1>1. IInv => SettledOnce
    BY DEF IInv, LogOK, SettledOnce
  <1> QED
    BY <1>1, Inductive, PTL

\* A node is started only after its dependencies have durably succeeded, and
\* skipped only because of one that has not.
THEOREM DependenciesRespected == Spec => [](DependenciesFirst /\ SkippedForCause)
  <1>1. IInv => DependenciesFirst /\ SkippedForCause
    BY DEF IInv
  <1> QED
    BY <1>1, Inductive, PTL

-----------------------------------------------------------------------------
(* Refinement: the ledger implements TaskGraph. *)

\* A checkpoint that neither starts nor settles its node is a stutter; one that
\* does changes the image at that node only.
LEMMA CheckpointImage ==
  ASSUME IInv, NEW c \in Calls, NEW st, NEW n, MayAppend(c, st, n), Checkpoint(c, st, n)
  PROVE  /\ Outcome(c) = "Open"
         /\ Outcome(c)' = IF st \in Terminal THEN st ELSE "Open"
         /\ Tries(c)' = IF st = "Started" THEN n ELSE Tries(c)
         /\ \A d \in Calls \ {c} : Outcome(d)' = Outcome(d) /\ Tries(d)' = Tries(d)
  <1>1. Outcome(c) = "Open"
    BY DEF MayAppend, Outcome
  <1>2. Outcome(c)' = IF st \in Terminal THEN st ELSE "Open"
    BY CheckpointStep DEF Outcome
  <1>3. Tries(c)' = IF st = "Started" THEN n ELSE Tries(c)
    BY CheckpointStep DEF Tries
  <1>4. \A d \in Calls \ {c} : Outcome(d)' = Outcome(d) /\ Tries(d)' = Tries(d)
    BY CheckpointStep DEF Outcome, Tries
  <1> QED
    BY <1>1, <1>2, <1>3, <1>4

\* The image as a whole, for the abstract actions.
image == <<[c \in Calls |-> Outcome(c)], [c \in Calls |-> Tries(c)]>>

\* A node whose dependencies are met is enabled in the image.
LEMMA EnabledImage ==
  ASSUME IInv, NEW c \in Calls, ~Settled(log[c]), DependenciesMet(c)
  PROVE  Promise!Enabled(c)
  <1>1. \A d \in Calls : Latest(log[d]) = "Succeeded" => Outcome(d) = "Succeeded"
    BY SettledLatest DEF IInv, TypeOK, LogOK, Outcome, Terminal
  <1> QED
    BY <1>1 DEF Promise!Enabled, DependenciesMet, Outcome

\* A checkpoint maps to a step of TaskGraph or to a stutter.
LEMMA CheckpointRefines ==
  ASSUME IInv, NEW c \in Calls, NEW st, NEW n, MayAppend(c, st, n), Checkpoint(c, st, n),
         st \in Outputs => DependenciesMet(c),
         st \in {"Succeeded", "TimedOut"} => Tries(c) > 0
  PROVE  Promise!Next \/ UNCHANGED image
  <1> DEFINE s == [d \in Calls |-> Outcome(d)]
             t == [d \in Calls |-> Tries(d)]
  <1>1. /\ Outcome(c) = "Open"
        /\ Outcome(c)' = IF st \in Terminal THEN st ELSE "Open"
        /\ Tries(c)' = IF st = "Started" THEN n ELSE Tries(c)
        /\ \A d \in Calls \ {c} : Outcome(d)' = Outcome(d) /\ Tries(d)' = Tries(d)
    BY CheckpointImage
  <1>2. s' = [s EXCEPT ![c] = IF st \in Terminal THEN st ELSE "Open"]
    BY <1>1
  <1>3. t' = [t EXCEPT ![c] = IF st = "Started" THEN n ELSE Tries(c)]
    BY <1>1
  <1>4. s[c] = "Open" /\ t[c] = Tries(c)
    BY <1>1
  <1>5. CASE st = "Started"
    <2>1. Promise!Enabled(c)
      BY <1>5, EnabledImage DEF MayAppend
    <2>2. t' = [t EXCEPT ![c] = t[c] + 1]
      BY <1>3, <1>4, <1>5 DEF MayAppend, Tries
    <2>3. s' = s
      BY <1>2, <1>4, <1>5 DEF Terminal
    <2>4. Promise!Attempt(c)
      BY <2>1, <2>2, <2>3 DEF Promise!Attempt
    <2> QED
      BY <2>4 DEF Promise!Next
  <1>6. CASE st = "Skipped"
    <2>1. t' = t /\ s' = [s EXCEPT ![c] = "Skipped"]
      BY <1>2, <1>3, <1>4, <1>6 DEF Terminal
    <2>2. PICK d \in Deps[c] : d \in Calls /\ Latest(log[d]) \in Unsuccessful
      BY <1>6 DEF MayAppend, DependencyFailed
    <2>3. s[d] \in Promise!Outcomes \ {"Succeeded"}
      BY <2>2, SettledLatest
      DEF IInv, TypeOK, LogOK, Outcome, Unsuccessful, Terminal, Promise!Outcomes
    <2>4. Promise!Skip(c)
      BY <1>4, <2>1, <2>2, <2>3 DEF Promise!Skip
    <2> QED
      BY <2>4 DEF Promise!Next
  <1>7. CASE st \in Outputs
    <2>1. t' = t /\ s' = [s EXCEPT ![c] = st] /\ st # "Skipped" /\ st \in Promise!Outcomes
      BY <1>2, <1>3, <1>4, <1>7 DEF Outputs, Terminal, Promise!Outcomes
    <2>2. Promise!Enabled(c)
      BY <1>7, EnabledImage DEF MayAppend
    <2>3. st \in {"Succeeded", "TimedOut"} => t[c] > 0
      BY <1>4
    <2>4. Promise!Settle(c, st)
      BY <2>1, <2>2, <2>3 DEF Promise!Settle
    <2> QED
      BY <2>1, <2>4 DEF Promise!Next
  <1>8. CASE st \in {"Queued", "Validated"}
    <2>1. s' = s /\ t' = t
      BY <1>2, <1>3, <1>4, <1>8 DEF Terminal
    <2> QED
      BY <2>1 DEF image
  <1> QED
    BY <1>5, <1>6, <1>7, <1>8 DEF MayAppend, Statuses, Outputs, Terminal

\* Every step maps to a step of TaskGraph or to a stutter.
LEMMA StepRefines ==
  ASSUME IInv, [Next]_vars
  PROVE  Promise!Next \/ UNCHANGED image
  <1>1. CASE UNCHANGED log
    BY <1>1 DEF image, Outcome, Tries
  <1>2. ASSUME NEW c \in Calls, QueueNode(c) PROVE Promise!Next \/ UNCHANGED image
    <2>1. MayAppend(c, "Queued", 0) /\ Checkpoint(c, "Queued", 0)
      BY <1>2 DEF QueueNode, MayAppend, Statuses, IInv, QueuedFirst
    <2> QED
      BY <2>1, CheckpointRefines DEF Outputs, Terminal
  <1>3. ASSUME NEW c \in Calls, SkipNode(c) PROVE Promise!Next \/ UNCHANGED image
    <2>1. MayAppend(c, "Skipped", 0) /\ Checkpoint(c, "Skipped", 0)
      BY <1>3, SkipCause DEF SkipNode, ToSkip
    <2> QED
      BY <2>1, CheckpointRefines DEF Outputs
  <1>4. ASSUME NEW c \in Calls, Validate(c) \/ Refuse(c) \/ Start(c)
        PROVE  Promise!Next \/ UNCHANGED image
    <2>1. ~Settled(log[c]) /\ DependenciesMet(c)
      BY <1>4 DEF Validate, Refuse, Start, AtNode, IInv, InHand
    <2>2. CASE Validate(c)
      <3>1. MayAppend(c, "Validated", 0) /\ Checkpoint(c, "Validated", 0)
        BY <2>1, <2>2 DEF Validate, MayAppend, Statuses
      <3> QED
        BY <3>1, CheckpointRefines DEF Outputs, Terminal
    <2>3. CASE Refuse(c)
      <3>1. MayAppend(c, "Failed", 0) /\ Checkpoint(c, "Failed", 0)
        BY <2>1, <2>3 DEF Refuse, MayAppend, Statuses, Terminal
      <3> QED
        BY <2>1, <3>1, CheckpointRefines
    <2>4. CASE Start(c)
      <3>1. attempts[c] = LargestAttempt(log[c]) /\ attempts[c] + 1 \in Nat
        BY <2>4 DEF Start, IInv, Agree, TypeOK
      <3>2. MayAppend(c, "Started", attempts[c] + 1) /\ Checkpoint(c, "Started", attempts[c] + 1)
        BY <2>1, <2>4, <3>1 DEF Start, MayAppend, Statuses
      <3> QED
        BY <3>2, CheckpointRefines DEF Outputs, Terminal
    <2> QED
      BY <1>4, <2>2, <2>3, <2>4
  <1>5. ASSUME NEW c \in Calls, Join(c) PROVE Promise!Next \/ UNCHANGED image
    <2>1. tasks[c] \in Outputs /\ ~Settled(log[c]) /\ DependenciesMet(c) /\ Tries(c) > 0
      BY <1>5 DEF Join, IInv, InHand, Outputs, Terminal, Tries
    <2>2. MayAppend(c, tasks[c], attempts[c]) /\ Checkpoint(c, tasks[c], attempts[c])
      BY <1>5, <2>1 DEF Join, MayAppend, Statuses, Outputs, Terminal, IInv, TypeOK
    <2> QED
      BY <2>1, <2>2, CheckpointRefines
  <1>6. CASE Take \/ Continue \/ Reapprove \/ Interrupt \/ \E c \in Calls : TaskStep(c)
    BY <1>1, <1>6 DEF Take, Continue, Reapprove, Enter, Interrupt, TaskStep, Retry, Return, ledger
  <1>7. CASE RecordGraph \/ StartBatch \/ SkipAgain \/ FinishGraph \/ EndBatch \/ Leave
    BY <1>1, <1>7 DEF RecordGraph, StartBatch, SkipAgain, FinishGraph, EndPass, EndBatch,
                      Leave, ledger
  <1>8. ASSUME NEW c \in Calls, Spawn(c) \/ AppendResult(c)
        PROVE  Promise!Next \/ UNCHANGED image
    BY <1>1, <1>8 DEF Spawn, AppendResult, ledger
  <1>9. CASE UNCHANGED vars
    BY <1>1, <1>9 DEF vars, ledger
  <1> QED
    BY <1>2, <1>3, <1>4, <1>5, <1>6, <1>7, <1>8, <1>9 DEF Next, DriverStep, NodeStep

\* The checkpointed, interruptible execution settles each node once, after its
\* dependencies: ToolGraph implements TaskGraph.
THEOREM ImplementsTaskGraph == Spec => KeepsPromise
  <1>1. Init => Promise!Init
    <2> SUFFICES ASSUME Init PROVE Promise!Init
      OBVIOUS
    <2>1. \A c \in Calls : Outcome(c) = "Open" /\ Tries(c) = 0
      <3>1. \A c \in Calls : log[c] = <<>>
        BY DEF Init
      <3>2. \A c \in Calls : ~Settled(log[c]) /\ Starts(log[c]) = {}
        BY <3>1 DEF Settled, Starts
      <3> QED
        BY <3>2 DEF Outcome, Tries, LargestAttempt
    <2> QED
      BY <2>1 DEF Promise!Init
  <1>2. IInv /\ [Next]_vars => [Promise!Next]_image
    BY StepRefines
  <1>3. Spec => [][Promise!Next]_image
    BY <1>2, Inductive, PTL DEF Spec
  <1> QED
    BY <1>1, <1>3, PTL DEF KeepsPromise, Promise!Spec, Spec, image

-----------------------------------------------------------------------------
(* The results a graph leaves behind, what interruptions repeat, and the order and
   the end of the execution loop. *)

\* An action that checkpoints node c without starting or settling it.
Passes(c, st) == /\ MayAppend(c, st, 0) /\ Checkpoint(c, st, 0)
                 /\ st \in {"Queued", "Validated"}
                 /\ UNCHANGED <<status, newResults>>

\* An action that checkpoints the start of node c.
Begins(c) == /\ MayAppend(c, "Started", attempts[c] + 1)
             /\ Checkpoint(c, "Started", attempts[c] + 1)
             /\ UNCHANGED <<status, newResults>>

\* An action that settles node c and notes its outcome.
Settles(c, st, n) == MayAppend(c, st, n) /\ Checkpoint(c, st, n) /\ Note(c, st) /\ st \in Terminal

\* The checkpoint each action of the driver appends, if any.
LEMMA Checkpoints ==
  ASSUME IInv, NEW c \in Calls
  PROVE  /\ QueueNode(c) => Passes(c, "Queued")
         /\ Validate(c) => Passes(c, "Validated")
         /\ Start(c) => Begins(c)
         /\ SkipNode(c) => Settles(c, "Skipped", 0)
         /\ Refuse(c) => Settles(c, "Failed", 0)
         /\ Join(c) => Settles(c, tasks[c], attempts[c])
  <1>1. QueueNode(c) => Passes(c, "Queued")
    BY DEF QueueNode, Passes, MayAppend, Statuses, IInv, QueuedFirst
  <1>2. AtNode(c) \/ tasks[c] # "none" => ~Settled(log[c]) /\ DependenciesMet(c)
    BY DEF AtNode, IInv, InHand
  <1>3. Validate(c) => Passes(c, "Validated")
    BY <1>2 DEF Validate, Passes, MayAppend, Statuses, future
  <1>4. Start(c) => Begins(c)
    <2>1. Start(c) => attempts[c] = LargestAttempt(log[c]) /\ attempts[c] + 1 \in Nat
      BY DEF Start, IInv, Agree, TypeOK
    <2> QED
      BY <1>2, <2>1 DEF Start, Begins, MayAppend, Statuses
  <1>5. SkipNode(c) => Settles(c, "Skipped", 0)
    BY SkipCause DEF SkipNode, ToSkip, Settles, Terminal
  <1>6. Refuse(c) => Settles(c, "Failed", 0)
    BY <1>2 DEF Refuse, Settles, MayAppend, Statuses, Terminal
  <1>7. Join(c) => Settles(c, tasks[c], attempts[c])
    <2>1. Join(c) => /\ tasks[c] \in Terminal \ {"Skipped"} /\ attempts[c] \in Nat
                     /\ tasks[c] # "none" /\ tasks[c] # "Started"
      BY DEF Join, Outputs, Terminal, IInv, TypeOK
    <2> QED
      BY <1>2, <2>1 DEF Join, Settles, MayAppend, Statuses
  <1> QED
    BY <1>1, <1>3, <1>4, <1>5, <1>6, <1>7

\* What such a checkpoint does to the projections.
LEMMA Projected ==
  ASSUME IInv, NEW c \in Calls, NEW st, NEW n, MayAppend(c, st, n), Checkpoint(c, st, n)
  PROVE  /\ ~Settled(log[c])
         /\ \A d \in Calls \ {c} : log'[d] = log[d]
         /\ Latest(log'[c]) = st
         /\ Settled(log'[c]) <=> st \in Terminal
  BY CheckpointStep DEF MayAppend

-----------------------------------------------------------------------------
(* Results. *)

\* The results still in hand have no record yet, and without an interruption
\* every settled node has its record or its result in hand.
ResultInv ==
  /\ OneResultPerCall
  /\ \A c \in newResults : toolResults[c] = <<>>
  /\ interruptions = 0 =>
       \A c \in Calls : Settled(log[c]) => toolResults[c] # <<>> \/ c \in newResults

\* A node with a result record is settled.
LEMMA RecordedSettled ==
  ASSUME IInv, OneResultPerCall, NEW c \in Calls, toolResults[c] # <<>>
  PROVE  Settled(log[c])
  <1>1. toolResults[c] \in Seq(Terminal)
    BY DEF IInv, TypeOK
  <1>2. 1 \in 1..Len(toolResults[c]) /\ toolResults[c][1] \in Terminal
    BY <1>1
  <1>3. Latest(log[c]) \in Terminal
    BY <1>2 DEF OneResultPerCall
  <1> QED
    BY <1>3, SettledLatest DEF IInv, TypeOK, LogOK

\* Checkpoints keep it: only unsettled nodes get one, and those have no record.
LEMMA CheckpointKeepsResults ==
  ASSUME IInv, ResultInv, NEW c \in Calls, NEW st, NEW n,
         MayAppend(c, st, n), Checkpoint(c, st, n), UNCHANGED <<toolResults, interruptions>>,
         \/ st \in Terminal /\ newResults' = newResults \cup {c}
         \/ st \notin Terminal /\ UNCHANGED newResults
  PROVE  ResultInv'
  <1>1. /\ ~Settled(log[c]) /\ \A d \in Calls \ {c} : log'[d] = log[d]
        /\ Settled(log'[c]) <=> st \in Terminal
    BY Projected
  <1>2. toolResults[c] = <<>>
    BY <1>1, RecordedSettled DEF ResultInv
  <1>3. OneResultPerCall'
    BY <1>1, <1>2 DEF ResultInv, OneResultPerCall
  <1> QED
    BY <1>1, <1>2, <1>3 DEF ResultInv

LEMMA AppendKeepsResults ==
  ASSUME IInv, ResultInv, NEW c \in Calls, AppendResult(c)
  PROVE  ResultInv'
  <1>1. status[c] \in Terminal /\ status[c] = Latest(log[c])
    BY DEF AppendResult, IInv, ResultsOK, Agree
  <1>2. toolResults[c] = <<>>
    BY DEF AppendResult, ResultInv
  <1>3. toolResults' = [toolResults EXCEPT ![c] = <<status[c]>>]
    BY <1>2 DEF AppendResult
  <1>4. /\ toolResults'[c] = <<status[c]>>
        /\ \A d \in Calls \ {c} : toolResults'[d] = toolResults[d]
    BY <1>3 DEF IInv, TypeOK
  <1>5. /\ Len(toolResults'[c]) = 1 /\ toolResults'[c][1] = status[c]
        /\ toolResults'[c] # <<>>
    BY <1>4
  <1>6. OneResultPerCall'
    <2>1. log' = log
      BY DEF AppendResult
    <2>2. \A i \in 1..Len(toolResults'[c]) : toolResults'[c][i] = Latest(log'[c])
      BY <1>1, <1>5, <2>1
    <2>3. \A d \in Calls \ {c} : /\ Len(toolResults'[d]) <= 1
                                 /\ \A i \in 1..Len(toolResults'[d]) :
                                      toolResults'[d][i] = Latest(log'[d])
      BY <1>4, <2>1 DEF ResultInv, OneResultPerCall
    <2>4. Len(toolResults'[c]) <= 1
      BY <1>5
    <2> QED
      BY <2>2, <2>3, <2>4 DEF OneResultPerCall
  <1> QED
    BY <1>4, <1>5, <1>6 DEF AppendResult, ResultInv, env

LEMMA StepKeepsResults ==
  ASSUME IInv, ResultInv, [Next]_vars
  PROVE  ResultInv'
  <1>1. ASSUME UNCHANGED <<log, toolResults, newResults, interruptions>> PROVE ResultInv'
    BY <1>1 DEF ResultInv, OneResultPerCall
  <1>2. ASSUME NEW c \in Calls, NodeStep(c) PROVE ResultInv'
    <2>1. CASE QueueNode(c) \/ Validate(c) \/ Start(c)
      BY <2>1, Checkpoints, CheckpointKeepsResults
      DEF QueueNode, Validate, Start, Passes, Begins, Terminal, env, future
    <2>2. CASE SkipNode(c) \/ Refuse(c) \/ Join(c)
      BY <2>2, Checkpoints, CheckpointKeepsResults
      DEF SkipNode, Refuse, Join, Settles, Note, env
    <2>3. CASE Spawn(c)
      BY <1>1, <2>3 DEF Spawn, ledger
    <2> QED
      BY <1>2, <2>1, <2>2, <2>3, AppendKeepsResults DEF NodeStep
  <1>3. CASE Interrupt
    <2>1. interruptions' # 0
      BY <1>3 DEF Interrupt, IInv, TypeOK
    <2> QED
      BY <1>3, <2>1 DEF Interrupt, DropFuture, ledger, ResultInv, OneResultPerCall
  <1>4. CASE Take \/ Continue \/ Reapprove
    BY <1>1, <1>4 DEF Take, Continue, Reapprove, Enter, ledger
  <1>5. CASE RecordGraph \/ StartBatch \/ SkipAgain \/ FinishGraph \/ EndBatch \/ Leave
    BY <1>1, <1>5 DEF RecordGraph, StartBatch, SkipAgain, FinishGraph, EndPass, EndBatch,
                      Leave, DropFuture, ledger, env, future
  <1>6. CASE \E c \in Calls : TaskStep(c)
    BY <1>1, <1>6 DEF TaskStep, Retry, Return, ledger, env
  <1>7. CASE UNCHANGED vars
    BY <1>1, <1>7 DEF vars, ledger, future, env
  <1> QED
    BY <1>2, <1>3, <1>4, <1>5, <1>6, <1>7 DEF Next, DriverStep

THEOREM ResultsInductive == Spec => []ResultInv
  <1>1. Init => ResultInv
    BY DEF Init, ResultInv, OneResultPerCall, Settled
  <1> QED
    BY <1>1, StepKeepsResults, Inductive, PTL DEF Spec

\* A call has at most one result record, the one of its terminal checkpoint.
THEOREM ResultsRecordedOnce == Spec => []OneResultPerCall
  <1>1. ResultInv => OneResultPerCall
    BY DEF ResultInv
  <1> QED
    BY <1>1, ResultsInductive, PTL

\* An advance that was not interrupted leaves no settled node without a result.
THEOREM ResultsKept == Spec => []ResultsLostOnlyByInterruption
  <1>1. IInv /\ ResultInv => ResultsLostOnlyByInterruption
    BY DEF IInv, ResultsOK, ResultInv, ResultsLostOnlyByInterruption
  <1> QED
    BY <1>1, Inductive, ResultsInductive, PTL

-----------------------------------------------------------------------------
(* What an interruption repeats. *)

Tried(c) == Cardinality(Starts(log[c]))
AtStart(c) == pc = "spawn" /\ AtNode(c)

\* The starts of a node are numbered without gaps; the last one of an unsettled
\* node that nobody holds was interrupted; and the invocations that a started or
\* running node may still make are left of those its starts allow.
Counted(c) ==
  /\ LargestAttempt(log[c]) = Tried(c)
  /\ Tried(c) <= 1 + interruptions
  /\ ~Settled(log[c]) /\ tasks[c] = "none" /\ ~AtStart(c) => Tried(c) <= interruptions
  /\ invocations[c] <= Attempts * Tried(c)
  /\ AtStart(c) => invocations[c] + Attempts <= Attempts * Tried(c)
  /\ tasks[c] = "running" =>
       /\ retries[c] <= Attempts
       /\ invocations[c] + (Attempts - retries[c]) <= Attempts * Tried(c)

CountInv == \A c \in Calls : Counted(c)

\* The start records of a sequence of checkpoints can be counted.
LEMMA StartsFinite ==
  ASSUME NEW s \in Seq(Record)
  PROVE  /\ IsFiniteSet(Starts(s)) /\ Cardinality(Starts(s)) \in Nat
         /\ Len(s) + 1 \notin Starts(s)
  <1>1. Starts(s) \subseteq 1..Len(s) /\ Len(s) \in Nat
    BY DEF Starts
  <1>2. IsFiniteSet(1..Len(s))
    BY <1>1, FS_Interval
  <1>3. IsFiniteSet(Starts(s))
    BY <1>1, <1>2, FS_Subset
  <1> QED
    BY <1>1, <1>3, FS_CardinalityType

LEMMA TriedNat ==
  ASSUME IInv, NEW c \in Calls
  PROVE  Tried(c) \in Nat /\ Attempts * Tried(c) \in Nat
  <1>1. Tried(c) \in Nat
    BY StartsFinite DEF IInv, TypeOK, Tried
  <1> QED
    BY <1>1, PolicyAssumption

\* A checkpoint counts as a try exactly when it starts its node.
LEMMA CheckpointTried ==
  ASSUME IInv, NEW c \in Calls, NEW st, NEW n, MayAppend(c, st, n), Checkpoint(c, st, n)
  PROVE  /\ Tried(c)' = IF st = "Started" THEN Tried(c) + 1 ELSE Tried(c)
         /\ LargestAttempt(log'[c]) = IF st = "Started" THEN n ELSE LargestAttempt(log[c])
         /\ \A d \in Calls \ {c} : log'[d] = log[d] /\ Tried(d)' = Tried(d)
  <1> DEFINE r == [status |-> st, attempt |-> n]
  <1>1. r \in Record /\ r.status = st /\ r.attempt = n
    BY DEF MayAppend, Record
  <1>2. log[c] \in Seq(Record) /\ HasLargest(log[c])
    BY DEF IInv, TypeOK, LogOK
  <1>3. log'[c] = Append(log[c], r)
    BY DEF IInv, TypeOK, Checkpoint
  <1> HIDE DEF r
  <1>4. Tried(c)' = IF st = "Started" THEN Tried(c) + 1 ELSE Tried(c)
    <2>1. CASE st = "Started"
      <3>1. Starts(log'[c]) = Starts(log[c]) \cup {Len(log[c]) + 1}
        BY <2>1, <1>1, <1>2, <1>3, AppendStart DEF MayAppend
      <3> QED
        BY <2>1, <3>1, <1>2, StartsFinite, FS_AddElement DEF Tried
    <2>2. CASE st # "Started"
      BY <2>2, <1>1, <1>2, <1>3, AppendOther DEF Tried
    <2> QED
      BY <2>1, <2>2
  <1>5. \A d \in Calls \ {c} : log'[d] = log[d] /\ Tried(d)' = Tried(d)
    BY CheckpointStep DEF Tried
  <1> QED
    BY <1>4, <1>5, CheckpointStep

\* A node whose counts, task and place a step leaves alone stays counted.
LEMMA StaysCounted ==
  ASSUME IInv, NEW c \in Calls, Counted(c),
         Tried(c)' = Tried(c), LargestAttempt(log'[c]) = LargestAttempt(log[c]),
         Settled(log[c]) => Settled(log'[c]),
         tasks'[c] = tasks[c], retries'[c] = retries[c], invocations'[c] = invocations[c],
         interruptions' = interruptions, AtStart(c)' => AtStart(c),
         AtStart(c) => AtStart(c)' \/ Settled(log'[c]) \/ tasks'[c] # "none"
  PROVE  Counted(c)'
  BY DEF Counted

\* The checkpoints that start nothing, and the return of a task.
LEMMA OtherKeepsCount ==
  ASSUME IInv, CountInv, NEW c \in Calls,
         QueueNode(c) \/ SkipNode(c) \/ Validate(c) \/ Refuse(c) \/ Join(c)
  PROVE  CountInv'
  <1>1. PICK st, n :
          st \in Statuses \ {"Started"} /\ MayAppend(c, st, n) /\ Checkpoint(c, st, n)
    BY Checkpoints DEF Passes, Settles, Statuses, Terminal
  <1>2. /\ \A d \in Calls : Tried(d)' = Tried(d)
        /\ \A d \in Calls : LargestAttempt(log'[d]) = LargestAttempt(log[d])
        /\ \A d \in Calls : Settled(log[d]) => Settled(log'[d])
    BY <1>1, CheckpointTried, Projected
  <1>3. /\ pc # "spawn" /\ pc' # "spawn"
        /\ UNCHANGED <<invocations, interruptions>>
    BY DEF QueueNode, SkipNode, Validate, Refuse, Join, env, future
  <1>4. \A d \in Calls : ~AtStart(d) /\ ~AtStart(d)'
    BY <1>3 DEF AtStart
  <1>5. ASSUME NEW d \in Calls, tasks'[d] = tasks[d], retries'[d] = retries[d]
        PROVE  Counted(d)'
    BY <1>2, <1>3, <1>4, <1>5, StaysCounted DEF CountInv
  <1>6. CASE QueueNode(c) \/ SkipNode(c) \/ Validate(c) \/ Refuse(c)
    BY <1>5, <1>6 DEF QueueNode, SkipNode, Validate, Refuse, future, CountInv
  <1>7. CASE Join(c)
    <2>1. /\ tasks'[c] = "none" /\ Settled(log'[c])
          /\ \A d \in Calls \ {c} : tasks'[d] = tasks[d] /\ retries'[d] = retries[d]
      BY <1>7, Checkpoints, Projected DEF Join, Settles, IInv, TypeOK
    <2>2. Counted(c)'
      BY <1>2, <1>3, <1>4, <2>1 DEF CountInv, Counted
    <2> QED
      BY <1>5, <2>1, <2>2 DEF CountInv
  <1> QED
    BY <1>6, <1>7

\* A start is one more try, with all its invocations still to come.
LEMMA StartKeepsCount ==
  ASSUME IInv, CountInv, NEW c \in Calls, Start(c)
  PROVE  CountInv'
  <1>1. /\ MayAppend(c, "Started", attempts[c] + 1)
        /\ Checkpoint(c, "Started", attempts[c] + 1)
        /\ ~Settled(log[c]) /\ attempts[c] = LargestAttempt(log[c])
    BY Checkpoints DEF Begins, MayAppend, Start, IInv, Agree
  <1>2. /\ Tried(c)' = Tried(c) + 1 /\ LargestAttempt(log'[c]) = LargestAttempt(log[c]) + 1
        /\ \A d \in Calls \ {c} : log'[d] = log[d] /\ Tried(d)' = Tried(d)
    BY <1>1, CheckpointTried
  <1>3. /\ pc = "start" /\ pc' = "spawn" /\ AtNode(c) /\ c \in batch /\ tasks[c] = "none"
        /\ UNCHANGED <<tasks, retries, invocations, interruptions, batch>>
    BY DEF Start, AtNode, env, IInv, InHand
  <1>4. \A d \in Calls \ {c} : ~AtStart(d) /\ ~AtStart(d)'
    <2>1. \A d \in Calls \ {c} : ~AtNode(d)
      BY <1>3, OneNode DEF IInv
    <2> QED
      BY <1>3, <2>1 DEF AtStart, AtNode
  <1>5. ASSUME NEW d \in Calls \ {c} PROVE Counted(d)'
    BY <1>2, <1>3, <1>4, StaysCounted DEF CountInv
  <1>6. Counted(c)'
    <2>1. /\ Tried(c) \in Nat /\ Attempts \in Nat /\ interruptions \in Nat
          /\ invocations[c] \in Nat
      BY TriedNat, PolicyAssumption DEF IInv, TypeOK
    <2>2. /\ Tried(c) <= interruptions /\ LargestAttempt(log[c]) = Tried(c)
          /\ invocations[c] <= Attempts * Tried(c)
      BY <1>1, <1>3 DEF CountInv, Counted, AtStart
    <2>3. Attempts * (Tried(c) + 1) = Attempts * Tried(c) + Attempts
      BY <2>1
    <2>4. invocations[c] + Attempts <= Attempts * (Tried(c) + 1)
      <3> DEFINE p == Attempts * Tried(c)
      <3>1. p \in Nat /\ invocations[c] <= p /\ Attempts * (Tried(c) + 1) = p + Attempts
        BY <2>2, <2>3, TriedNat
      <3> HIDE DEF p
      <3> QED
        BY <2>1, <3>1
    <2>5. invocations[c] <= Attempts * (Tried(c) + 1)
      <3> DEFINE p == Attempts * (Tried(c) + 1)
      <3>1. p \in Nat /\ invocations[c] + Attempts <= p
        BY <2>1, <2>3, <2>4, TriedNat
      <3> HIDE DEF p
      <3>2. invocations[c] <= p
        BY <2>1, <3>1
      <3> QED
        BY <3>2 DEF p
    <2>6. AtStart(c)'
      BY <1>3 DEF AtStart, AtNode
    <2>7. /\ LargestAttempt(log'[c]) = Tried(c)' /\ Tried(c)' <= 1 + interruptions'
          /\ invocations'[c] <= Attempts * Tried(c)'
          /\ invocations'[c] + Attempts <= Attempts * Tried(c)'
          /\ tasks'[c] = "none"
      BY <1>2, <1>3, <2>1, <2>2, <2>4, <2>5
    <2> QED
      BY <2>6, <2>7 DEF Counted
  <1> QED
    BY <1>5, <1>6 DEF CountInv

\* Spawning uses up the first of them.
LEMMA SpawnKeepsCount ==
  ASSUME IInv, CountInv, NEW c \in Calls, Spawn(c)
  PROVE  CountInv'
  <1>1. /\ pc = "spawn" /\ pc' = "prepare" /\ AtNode(c) /\ log' = log
        /\ interruptions' = interruptions /\ AtStart(c)
    BY DEF Spawn, ledger, AtStart
  <1>2. /\ tasks'[c] = (IF Attempts = 0 THEN "Failed" ELSE "running")
        /\ retries'[c] = (IF Attempts = 0 THEN 0 ELSE 1)
        /\ invocations'[c] = invocations[c] + (IF Attempts = 0 THEN 0 ELSE 1)
        /\ \A d \in Calls \ {c} : /\ tasks'[d] = tasks[d] /\ retries'[d] = retries[d]
                                  /\ invocations'[d] = invocations[d]
    BY DEF Spawn, IInv, TypeOK
  <1>3. \A d \in Calls : ~AtStart(d)' /\ (d # c => ~AtStart(d))
    BY <1>1, OneNode DEF AtStart, IInv
  <1>4. \A d \in Calls : Tried(d)' = Tried(d)
    BY <1>1 DEF Tried
  <1>5. ASSUME NEW d \in Calls \ {c} PROVE Counted(d)'
    BY <1>1, <1>2, <1>3, <1>4, StaysCounted DEF CountInv
  <1>6. Counted(c)'
    <2> DEFINE p == Attempts * Tried(c)
    <2>1. p \in Nat /\ Attempts \in Nat /\ invocations[c] \in Nat /\ p' = p
      BY <1>4, TriedNat, PolicyAssumption DEF IInv, TypeOK
    <2>2. invocations[c] + Attempts <= p
      BY <1>1 DEF CountInv, Counted
    <2>3. LargestAttempt(log'[c]) = Tried(c)' /\ Tried(c)' <= 1 + interruptions'
      BY <1>1, <1>4 DEF CountInv, Counted
    <2> HIDE DEF p
    <2>4. /\ invocations'[c] <= p
          /\ tasks'[c] = "running" => /\ retries'[c] <= Attempts
                                      /\ invocations'[c] + (Attempts - retries'[c]) <= p
      BY <1>2, <2>1, <2>2
    <2>5. tasks'[c] # "none"
      BY <1>2
    <2> QED
      BY <1>3, <2>1, <2>3, <2>4, <2>5 DEF Counted, p
  <1> QED
    BY <1>5, <1>6 DEF CountInv

\* A retry uses up one more.
LEMMA TaskKeepsCount ==
  ASSUME IInv, CountInv, NEW c \in Calls, TaskStep(c)
  PROVE  CountInv'
  <1>1. /\ log' = log /\ pc' = pc /\ batch' = batch /\ interruptions' = interruptions
        /\ tasks[c] = "running" /\ tasks'[c] # "none"
        /\ \A d \in Calls \ {c} : /\ tasks'[d] = tasks[d] /\ retries'[d] = retries[d]
                                  /\ invocations'[d] = invocations[d]
    BY DEF TaskStep, Retry, Return, ledger, env, IInv, TypeOK, Outputs, Terminal
  <1>2. \A d \in Calls : Tried(d)' = Tried(d) /\ (AtStart(d)' <=> AtStart(d))
    BY <1>1 DEF Tried, AtStart, AtNode
  <1>3. ASSUME NEW d \in Calls \ {c} PROVE Counted(d)'
    BY <1>1, <1>2, <1>3, StaysCounted DEF CountInv
  <1>4. ~AtStart(c)
    BY <1>1 DEF AtStart, AtNode, IInv, InHand
  <1>5. Counted(c)'
    <2> DEFINE p == Attempts * Tried(c)
    <2>1. /\ p \in Nat /\ Attempts \in Nat /\ invocations[c] \in Nat /\ retries[c] \in Nat
          /\ p' = p
      BY <1>2, TriedNat, PolicyAssumption DEF IInv, TypeOK
    <2>2. retries[c] <= Attempts /\ invocations[c] + (Attempts - retries[c]) <= p
      BY <1>1 DEF CountInv, Counted
    <2>3. LargestAttempt(log'[c]) = Tried(c)' /\ Tried(c)' <= 1 + interruptions'
      BY <1>1, <1>2 DEF CountInv, Counted
    <2> HIDE DEF p
    <2>4. \/ /\ retries[c] < Attempts /\ retries'[c] = retries[c] + 1
             /\ invocations'[c] = invocations[c] + 1
          \/ retries'[c] = retries[c] /\ invocations'[c] = invocations[c]
      BY DEF TaskStep, Retry, Return, env, IInv, TypeOK
    <2>5. /\ invocations'[c] <= p /\ retries'[c] <= Attempts
          /\ invocations'[c] + (Attempts - retries'[c]) <= p
      BY <2>1, <2>2, <2>4
    <2> QED
      BY <1>1, <1>2, <1>4, <2>1, <2>3, <2>5 DEF Counted, p
  <1> QED
    BY <1>3, <1>5 DEF CountInv

LEMMA InterruptKeepsCount ==
  ASSUME IInv, CountInv, Interrupt
  PROVE  CountInv'
  <1>1. /\ log' = log /\ pc' = "idle" /\ invocations' = invocations
        /\ interruptions' = interruptions + 1
        /\ \A d \in Calls : tasks'[d] = "none"
    BY DEF Interrupt, DropFuture, ledger, None
  <1> SUFFICES ASSUME NEW c \in Calls PROVE Counted(c)'
    BY DEF CountInv
  <1>2. Tried(c)' = Tried(c) /\ Tried(c) \in Nat /\ interruptions \in Nat
    BY <1>1, TriedNat DEF Tried, IInv, TypeOK
  <1>3. /\ LargestAttempt(log[c]) = Tried(c) /\ Tried(c) <= 1 + interruptions
        /\ invocations[c] <= Attempts * Tried(c)
    BY DEF CountInv, Counted
  <1> QED
    BY <1>1, <1>2, <1>3 DEF Counted, AtStart

LEMMA StepKeepsCount ==
  ASSUME IInv, CountInv, [Next]_vars
  PROVE  CountInv'
  <1>1. ASSUME UNCHANGED <<log, tasks, invocations, interruptions>>,
               \/ (pc # "spawn" /\ pc' # "spawn") \/ UNCHANGED <<pc, batch>>,
               \/ UNCHANGED retries \/ tasks = None
        PROVE  CountInv'
    <2> SUFFICES ASSUME NEW c \in Calls PROVE Counted(c)'
      BY DEF CountInv
    <2>1. (AtStart(c)' <=> AtStart(c)) /\ Tried(c)' = Tried(c)
      BY <1>1 DEF AtStart, AtNode, Tried
    <2>2. tasks[c] = "running" => retries'[c] = retries[c]
      BY <1>1 DEF None
    <2> QED
      BY <1>1, <2>1, <2>2 DEF CountInv, Counted
  <1>2. ASSUME NEW c \in Calls, NodeStep(c) PROVE CountInv'
    <2>1. CASE AppendResult(c)
      BY <1>1, <2>1 DEF AppendResult, env
    <2> QED
      BY <1>2, <2>1, OtherKeepsCount, StartKeepsCount, SpawnKeepsCount DEF NodeStep
  <1>3. CASE Take \/ Continue \/ Reapprove
    BY <1>1, <1>3 DEF Take, Continue, Reapprove, Enter, ledger
  <1>4. CASE RecordGraph \/ StartBatch \/ SkipAgain \/ FinishGraph \/ EndBatch
    BY <1>1, <1>4 DEF RecordGraph, StartBatch, SkipAgain, FinishGraph, EndPass, EndBatch,
                      ledger, env, future
  <1>5. CASE Leave
    <2>1. tasks = None
      BY <1>5 DEF Leave, IInv, InHand
    <2> QED
      BY <1>1, <1>5, <2>1 DEF Leave, DropFuture, ledger, env
  <1>6. CASE UNCHANGED vars
    BY <1>1, <1>6 DEF vars, ledger, future, env
  <1> QED
    BY <1>2, <1>3, <1>4, <1>5, <1>6, TaskKeepsCount, InterruptKeepsCount DEF Next, DriverStep

THEOREM CountsInductive == Spec => []CountInv
  <1>1. Init => CountInv
    <2> SUFFICES ASSUME Init, NEW c \in Calls PROVE Counted(c)
      BY DEF CountInv
    <2>1. Starts(log[c]) = {} /\ LargestAttempt(log[c]) = 0 /\ Tried(c) = 0
      BY FS_EmptySet DEF Init, Starts, LargestAttempt, Tried
    <2>2. Attempts * Tried(c) = 0
      BY <2>1, PolicyAssumption
    <2>3. ~AtStart(c) /\ tasks[c] # "running" /\ invocations[c] = 0 /\ interruptions = 0
      BY DEF Init, AtStart, None, Zero
    <2> QED
      BY <2>1, <2>2, <2>3 DEF Counted
  <1> QED
    BY <1>1, StepKeepsCount, Inductive, PTL DEF Spec

\* A node is started at most once more than the driver was interrupted, its
\* starts are numbered 1, 2, ..., and its skill is invoked at most the retry
\* limit per start.
THEOREM RepetitionsBounded == Spec => []RepeatsOnlyInterrupted
  <1>1. CountInv => RepeatsOnlyInterrupted
    BY DEF CountInv, Counted, Tried, RepeatsOnlyInterrupted
  <1> QED
    BY <1>1, CountsInductive, PTL

-----------------------------------------------------------------------------
(* The end of the execution loop. *)

\* Between the passes over the nodes the cursor is at the start; a pass that has
\* skipped nothing yet is there too; and the loop ends with no node to start or
\* to skip.
PassInv ==
  /\ pc \notin {"queue", "skip"} => cursor = 0
  /\ pc # "skip" => ~skipped
  /\ pc = "skip" /\ ~skipped => cursor = 0
  /\ pc = "results" => \A c \in Calls : ~Ready(c) /\ ~Blocked(c)

\* Before is a strict order.
LEMMA BeforeOrder ==
  /\ \A c \in Calls : ~Before(c, c)
  /\ \A c, d, e \in Calls : Before(c, d) /\ Before(d, e) => Before(c, e)
  <1>1. \A c \in Calls : Priority[c] \in Int /\ Order[c] \in Int
    <2>1. N \in Nat
      BY GraphAssumption, FS_CardinalityType DEF N
    <2> QED
      BY <2>1, GraphAssumption
  <1> QED
    BY <1>1 DEF Before

Less == {p \in Nat \X Nat : p[1] < p[2]}

LEMMA LeastNat ==
  ASSUME NEW S \in SUBSET Nat, S # {}
  PROVE  \E x \in S : \A y \in S : x <= y
  <1>1. Less = OpToRel(<, Nat)
    BY DEF Less, OpToRel
  <1>2. IsWellFoundedOn(Less, Nat)
    BY <1>1, NatLessThanWellFounded
  <1>3. PICK x \in S : \A y \in S : <<y, x>> \notin Less
    BY <1>2, WFMin
  <1>4. \A y \in S : ~(y < x)
    BY <1>3 DEF Less
  <1> QED
    BY <1>4

\* The ready nodes the sort puts before c.
Rivals(c) == {d \in Calls : Ready(d) /\ Before(d, c)}

LEMMA RivalsShrink ==
  ASSUME NEW c \in Calls, NEW d \in Rivals(c)
  PROVE  /\ Rivals(d) \subseteq Rivals(c)
         /\ Cardinality(Rivals(d)) \in Nat /\ Cardinality(Rivals(c)) \in Nat
         /\ Cardinality(Rivals(d)) < Cardinality(Rivals(c))
  <1>1. d \in Calls /\ Before(d, c)
    BY DEF Rivals
  <1>2. Rivals(d) \subseteq Rivals(c) /\ d \notin Rivals(d)
    BY <1>1, BeforeOrder DEF Rivals
  <1>3. IsFiniteSet(Rivals(c))
    <2>1. Rivals(c) \subseteq Calls
      BY DEF Rivals
    <2> QED
      BY <2>1, GraphAssumption, FS_Subset
  <1>4. Rivals(d) # Rivals(c) /\ IsFiniteSet(Rivals(d))
    BY <1>2, <1>3, FS_Subset
  <1>5. Cardinality(Rivals(d)) \in Nat /\ Cardinality(Rivals(c)) \in Nat
    BY <1>3, <1>4, FS_CardinalityType
  <1>6. Cardinality(Rivals(d)) <= Cardinality(Rivals(c))
    BY <1>2, <1>3, FS_Subset
  <1>7. Cardinality(Rivals(d)) # Cardinality(Rivals(c))
    BY <1>2, <1>3, <1>4, FS_Subset
  <1> QED
    BY <1>2, <1>5, <1>6, <1>7

\* While some node is ready, the execution loop finds one.
LEMMA SomeFirstReady ==
  ASSUME FirstReady = {}
  PROVE  \A c \in Calls : ~Ready(c)
  <1> SUFFICES ASSUME NEW c \in Calls, Ready(c) PROVE FALSE
    OBVIOUS
  <1> DEFINE sizes == {Cardinality(Rivals(d)) : d \in {e \in Calls : Ready(e)}}
  <1>1. \A d \in Calls : Cardinality(Rivals(d)) \in Nat
    <2>1. \A d \in Calls : Rivals(d) \subseteq Calls
      BY DEF Rivals
    <2> QED
      BY <2>1, GraphAssumption, FS_Subset, FS_CardinalityType
  <1>2. sizes \in SUBSET Nat /\ sizes # {}
    BY <1>1
  <1>3. PICK m \in sizes : \A k \in sizes : m <= k
    BY <1>2, LeastNat
  <1>4. PICK d \in Calls : Ready(d) /\ m = Cardinality(Rivals(d))
    OBVIOUS
  <1>5. Rivals(d) = {}
    <2> SUFFICES ASSUME NEW e \in Rivals(d) PROVE FALSE
      OBVIOUS
    <2>1. e \in Calls /\ Ready(e)
      BY DEF Rivals
    <2>2. Cardinality(Rivals(e)) \in sizes
      BY <2>1
    <2>3. m <= Cardinality(Rivals(e))
      BY <1>3, <2>2
    <2> HIDE DEF sizes
    <2> QED
      BY <1>4, <2>3, RivalsShrink
  <1>6. Cardinality(Rivals(d)) = 0
    BY <1>5, FS_EmptySet
  <1>7. Width \in Nat /\ Width > 0
    BY PolicyAssumption DEF Width, AtLeast1
  <1>8. d \in FirstReady
    BY <1>4, <1>6, <1>7 DEF FirstReady, Rivals
  <1> QED
    BY <1>8

LEMMA StepKeepsPass ==
  ASSUME IInv, PassInv, [Next]_vars
  PROVE  PassInv'
  <1>0. \A c \in Calls : Order[c] > 0
    <2>1. N \in Nat
      BY GraphAssumption, FS_CardinalityType DEF N
    <2> QED
      BY <2>1, GraphAssumption
  <1>1. ASSUME UNCHANGED <<status, cursor, skipped>>, pc' # "results" \/ pc = "results",
               UNCHANGED pc \/ pc \notin {"queue", "skip"}
        PROVE  PassInv'
    BY <1>1 DEF PassInv, Ready, Blocked, StatusOf
  <1>2. ASSUME NEW c \in Calls, NodeStep(c) PROVE PassInv'
    <2>1. CASE QueueNode(c)
      BY <1>0, <2>1 DEF QueueNode, PassInv
    <2>2. CASE SkipNode(c)
      BY <2>2 DEF SkipNode, PassInv
    <2>3. CASE Refuse(c)
      BY <2>3 DEF Refuse, PassInv
    <2>4. CASE Join(c)
      BY <2>4 DEF Join, PassInv
    <2>5. CASE Validate(c) \/ Start(c) \/ Spawn(c) \/ AppendResult(c)
      BY <1>1, <2>5 DEF Validate, Start, Spawn, AppendResult, future
    <2> QED
      BY <1>2, <2>1, <2>2, <2>3, <2>4, <2>5 DEF NodeStep
  <1>3. CASE Take \/ Continue \/ Reapprove
    BY <1>3 DEF Take, Continue, Reapprove, Enter, PassInv
  <1>4. CASE RecordGraph \/ EndBatch
    BY <1>1, <1>4 DEF RecordGraph, EndBatch, future
  <1>5. CASE StartBatch \/ SkipAgain
    BY <1>5 DEF StartBatch, SkipAgain, EndPass, PassInv
  <1>6. CASE FinishGraph
    <2>1. /\ cursor = 0 /\ ToSkip = {} /\ FirstReady = {} /\ status' = status
          /\ cursor' = 0 /\ skipped' = FALSE
      BY <1>6 DEF FinishGraph, EndPass, PassInv
    <2>2. \A c \in Calls : ~Ready(c) /\ ~Blocked(c)
      BY <1>0, <2>1, SomeFirstReady DEF ToSkip
    <2>3. \A c \in Calls : ~Ready(c)' /\ ~Blocked(c)'
      BY <2>1, <2>2 DEF Ready, Blocked, StatusOf
    <2> QED
      BY <2>1, <2>3 DEF PassInv
  <1>7. CASE Leave \/ Interrupt
    BY <1>7 DEF Leave, Interrupt, DropFuture, PassInv
  <1>8. CASE \E c \in Calls : TaskStep(c)
    BY <1>1, <1>8 DEF TaskStep, Retry, Return
  <1>9. CASE UNCHANGED vars
    BY <1>1, <1>9 DEF vars, future
  <1> QED
    BY <1>2, <1>3, <1>4, <1>5, <1>6, <1>7, <1>8, <1>9 DEF Next, DriverStep

\* When the execution loop ends, an unsettled node waits for an unknown id or for
\* an unsettled node, and nothing it depends on has failed.
THEOREM LoopEndsDry == Spec => []NothingLeftReady
  <1>1. Init => PassInv
    BY DEF Init, PassInv
  <1>2. Spec => []PassInv
    BY <1>1, StepKeepsPass, Inductive, PTL DEF Spec
  <1>3. IInv /\ PassInv => NothingLeftReady
    <2> SUFFICES ASSUME IInv, PassInv, pc = "results", NEW c \in Calls, ~Settled(log[c])
                 PROVE  /\ \E d \in Deps[c] : d \notin Calls \/ ~Settled(log[d])
                        /\ ~DependencyFailed(c)
      BY DEF NothingLeftReady
    <2>1. \A d \in Calls : /\ Settled(log[d]) <=> Latest(log[d]) \in Terminal
                           /\ status[d] \in Terminal \/ Settled(log[d]) =>
                                status[d] = Latest(log[d])
      BY SettledLatest DEF IInv, TypeOK, LogOK, Agree
    <2>2. status[c] \notin Terminal
      BY <2>1
    <2>3. /\ \A d \in Deps[c] : StatusOf(d) \notin Unsuccessful
          /\ \E d \in Deps[c] : StatusOf(d) # "Succeeded"
      BY <2>2 DEF PassInv, Ready, Blocked
    <2>4. \E d \in Deps[c] : d \notin Calls \/ ~Settled(log[d])
      BY <2>1, <2>3 DEF StatusOf, Unsuccessful
    <2>5. ~DependencyFailed(c)
      BY <2>1, <2>3 DEF DependencyFailed, StatusOf, Unsuccessful
    <2> QED
      BY <2>4, <2>5
  <1> QED
    BY <1>2, <1>3, Inductive, PTL

-----------------------------------------------------------------------------
(* The order of the starts. *)

\* A ready node the sort puts before one of the batch is in the batch or running.
BatchInv == \A c \in batch : \A d \in Rivals(c) : d \in batch \/ tasks[d] # "none"

\* The batch the execution loop takes holds every ready node before its own.
LEMMA FirstReadyClosed ==
  ASSUME NEW c \in FirstReady, NEW d \in Rivals(c)
  PROVE  d \in FirstReady
  <1>1. c \in Calls /\ Cardinality(Rivals(c)) < Width
    BY DEF FirstReady, Rivals
  <1>2. d \in Calls /\ Ready(d)
    BY DEF Rivals
  <1>3. Width \in Nat
    BY PolicyAssumption DEF Width, AtLeast1
  <1>4. Cardinality(Rivals(d)) < Width
    BY <1>1, <1>3, RivalsShrink
  <1> QED
    BY <1>2, <1>4 DEF FirstReady, Rivals

LEMMA StepKeepsBatch ==
  ASSUME IInv, BatchInv, [Next]_vars
  PROVE  BatchInv'
  <1>1. ASSUME batch' = {} PROVE BatchInv'
    BY <1>1 DEF BatchInv
  <1>2. ASSUME UNCHANGED <<batch, status>>,
               \A d \in Calls : tasks'[d] # "none" <=> tasks[d] # "none"
        PROVE  BatchInv'
    BY <1>2 DEF BatchInv, Rivals, Ready, StatusOf
  <1>3. ASSUME NEW c \in Calls, NodeStep(c) PROVE BatchInv'
    <2>1. CASE QueueNode(c) \/ SkipNode(c) \/ Join(c) \/ AppendResult(c)
      <3>1. batch = {} /\ batch' = batch
        BY <2>1 DEF QueueNode, SkipNode, Join, AppendResult, IInv, InHand
      <3> QED
        BY <1>1, <3>1
    <2>2. CASE Validate(c) \/ Start(c)
      BY <1>2, <2>2 DEF Validate, Start, future
    <2>3. CASE Refuse(c)
      <3>1. /\ batch' = batch \ {c} /\ tasks' = tasks
            /\ status'[c] = "Failed" /\ \A d \in Calls \ {c} : status'[d] = status[d]
        BY <2>3 DEF Refuse, Note, IInv, TypeOK
      <3>2. \A d \in Calls : Ready(d)' => d # c /\ Ready(d)
        BY <3>1 DEF Ready, StatusOf, Terminal
      <3> QED
        BY <3>1, <3>2 DEF BatchInv, Rivals, Before
    <2>4. CASE Spawn(c)
      <3>1. /\ batch' = batch \ {c} /\ status' = status
            /\ tasks'[c] # "none" /\ \A d \in Calls \ {c} : tasks'[d] = tasks[d]
        BY <2>4 DEF Spawn, IInv, TypeOK
      <3>2. \A d \in Calls : Ready(d)' <=> Ready(d)
        BY <3>1 DEF Ready, StatusOf
      <3> QED
        BY <3>1, <3>2 DEF BatchInv, Rivals, Before
    <2> QED
      BY <1>3, <2>1, <2>2, <2>3, <2>4 DEF NodeStep
  <1>4. CASE Take \/ Continue \/ Reapprove
    <2>1. batch' = {}
      BY <1>4 DEF Take, Continue, Reapprove, Enter, IInv, InHand
    <2> QED
      BY <1>1, <2>1
  <1>5. CASE StartBatch
    <2>1. batch' = FirstReady /\ status' = status
      BY <1>5 DEF StartBatch, EndPass
    <2>2. \A d \in Calls : Ready(d)' <=> Ready(d)
      BY <2>1 DEF Ready, StatusOf
    <2>3. \A c \in Calls : Rivals(c)' = Rivals(c)
      BY <2>2 DEF Rivals, Before
    <2>4. FirstReady \subseteq Calls
      BY DEF FirstReady
    <2> QED
      BY <2>1, <2>3, <2>4, FirstReadyClosed DEF BatchInv
  <1>6. CASE RecordGraph \/ SkipAgain \/ FinishGraph \/ EndBatch
    BY <1>2, <1>6 DEF RecordGraph, SkipAgain, FinishGraph, EndPass, EndBatch, future
  <1>7. CASE Leave \/ Interrupt
    BY <1>1, <1>7 DEF Leave, Interrupt, DropFuture
  <1>8. CASE \E c \in Calls : TaskStep(c)
    <2>1. PICK c \in Calls : TaskStep(c)
      BY <1>8
    <2>2. /\ UNCHANGED <<batch, status>>
          /\ \A d \in Calls : tasks'[d] # "none" <=> tasks[d] # "none"
      BY <2>1 DEF TaskStep, Retry, Return, IInv, TypeOK, Outputs, Terminal
    <2> QED
      BY <1>2, <2>2
  <1>9. CASE UNCHANGED vars
    BY <1>2, <1>9 DEF vars, future
  <1> QED
    BY <1>3, <1>4, <1>5, <1>6, <1>7, <1>8, <1>9 DEF Next, DriverStep

\* What the property says of one step.
InOrder ==
  \A c \in Calls :
     Starts(log[c])' # Starts(log[c]) =>
        \A d \in Calls : Ready(d) /\ Before(d, c) => tasks[d] # "none"

\* Only a start step adds a start record.
LEMMA OnlyStartStarts ==
  ASSUME IInv, [Next]_vars, NEW c \in Calls, Starts(log[c])' # Starts(log[c])
  PROVE  Start(c)
  <1>1. ASSUME NEW d \in Calls, Start(d), d # c PROVE FALSE
    BY <1>1, Checkpoints, Projected DEF Begins
  <1>2. ASSUME NEW d \in Calls, NEW st, NEW n, st # "Started",
               MayAppend(d, st, n), Checkpoint(d, st, n)
        PROVE  FALSE
    <2> DEFINE r == [status |-> st, attempt |-> n]
    <2>1. r \in Record /\ r.status = st
      BY <1>2 DEF MayAppend, Record
    <2>2. log'[d] = Append(log[d], r) /\ log[d] \in Seq(Record)
      BY <1>2 DEF IInv, TypeOK, Checkpoint
    <2> HIDE DEF r
    <2>3. Starts(log'[d]) = Starts(log[d])
      BY <1>2, <2>1, <2>2, AppendOther
    <2>4. d # c => log'[c] = log[c]
      BY <1>2, Projected
    <2> QED
      BY <2>3, <2>4
  <1>3. ASSUME NEW d \in Calls,
               QueueNode(d) \/ SkipNode(d) \/ Validate(d) \/ Refuse(d) \/ Join(d)
        PROVE  FALSE
    <2>1. PICK st, n : st # "Started" /\ MayAppend(d, st, n) /\ Checkpoint(d, st, n)
      BY <1>3, Checkpoints DEF Passes, Settles, Terminal
    <2> QED
      BY <1>2, <2>1
  <1>4. log' # log
    OBVIOUS
  <1>5. ~(Take \/ Continue \/ Reapprove \/ Interrupt \/ \E d \in Calls : TaskStep(d))
    BY <1>4 DEF Take, Continue, Reapprove, Enter, Interrupt, TaskStep, Retry, Return, ledger
  <1>6. ~(RecordGraph \/ StartBatch \/ SkipAgain \/ FinishGraph \/ EndBatch \/ Leave)
    BY <1>4 DEF RecordGraph, StartBatch, SkipAgain, FinishGraph, EndPass, EndBatch, Leave,
                ledger
  <1>7. \A d \in Calls : ~Spawn(d) /\ ~AppendResult(d)
    BY <1>4 DEF Spawn, AppendResult, ledger
  <1>8. ~(UNCHANGED vars)
    BY <1>4 DEF vars, ledger
  <1> QED
    BY <1>1, <1>3, <1>5, <1>6, <1>7, <1>8 DEF Next, DriverStep, NodeStep

LEMMA StartInOrder ==
  ASSUME IInv, BatchInv, [Next]_vars
  PROVE  InOrder
  <1> SUFFICES ASSUME NEW c \in Calls, Starts(log[c])' # Starts(log[c]),
                      NEW d \in Calls, Ready(d), Before(d, c)
               PROVE  tasks[d] # "none"
    BY DEF InOrder
  <1>1. AtNode(c)
    BY OnlyStartStarts DEF Start
  <1>2. d \notin batch
    BY <1>1, BeforeOrder DEF AtNode
  <1> QED
    BY <1>1, <1>2 DEF AtNode, BatchInv, Rivals

\* A node is started only when every ready node the sort puts before it runs.
THEOREM StartsInOrder == Spec => PriorityRespected
  <1>1. Init => BatchInv
    BY DEF Init, BatchInv
  <1>2. Spec => []BatchInv
    BY <1>1, StepKeepsBatch, Inductive, PTL DEF Spec
  <1>3. Spec => [][InOrder]_vars
    BY <1>2, StartInOrder, Inductive, PTL DEF Spec
  <1> QED
    BY <1>3, PTL DEF PriorityRespected, InOrder

\* A node is skipped only for a dependency that durably did not succeed.
THEOREM SkipsCaused == Spec => []SkippedForCause
  <1>1. IInv => SkippedForCause
    BY DEF IInv
  <1> QED
    BY <1>1, Inductive, PTL
=============================================================================
