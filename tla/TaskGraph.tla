----------------------------- MODULE TaskGraph -----------------------------
(***************************************************************************)
(* What a durable tool graph promises, whatever runs it and however often  *)
(* it is interrupted: a call is attempted only when every call it depends  *)
(* on has succeeded, its outcome is settled once and for all, and it is    *)
(* never attempted again after that.                                       *)
(***************************************************************************)
EXTENDS Naturals

CONSTANTS Calls,  \* the calls of the graph
          Deps    \* [Calls -> set of call identifiers]

VARIABLES settled,   \* [Calls -> "Open" or one of Outcomes]
          tries      \* [Calls -> number of attempts started]

Outcomes == {"Succeeded", "Failed", "TimedOut", "Skipped"}

Init == /\ settled = [c \in Calls |-> "Open"]
        /\ tries = [c \in Calls |-> 0]

Enabled(c) == /\ settled[c] = "Open"
              /\ \A d \in Deps[c] : d \in Calls /\ settled[d] = "Succeeded"

\* One more attempt: the first one, or a repetition after an interruption.
Attempt(c) == /\ Enabled(c)
              /\ tries' = [tries EXCEPT ![c] = @ + 1]
              /\ UNCHANGED settled

\* An attempted call ends; a refused one fails without an attempt.
Settle(c, o) == /\ Enabled(c)
                /\ o \in {"Succeeded", "TimedOut"} => tries[c] > 0
                /\ o # "Skipped"
                /\ settled' = [settled EXCEPT ![c] = o]
                /\ UNCHANGED tries

\* A dependency that did not succeed settles the call without an attempt.
Skip(c) == /\ settled[c] = "Open"
           /\ \E d \in Deps[c] : d \in Calls /\ settled[d] \in Outcomes \ {"Succeeded"}
           /\ settled' = [settled EXCEPT ![c] = "Skipped"]
           /\ UNCHANGED tries

Next == \E c \in Calls : \/ Attempt(c)
                         \/ Skip(c)
                         \/ \E o \in Outcomes : Settle(c, o)

Spec == Init /\ [][Next]_<<settled, tries>>
=============================================================================
