------------------------------ MODULE Session ------------------------------
(***************************************************************************)
(* What a session promises the hosts that talk to it, whatever records it  *)
(* keeps: a call runs at most once, a call that asked a human runs only if *)
(* the one answer it got approves, and a request's key is answered once.   *)
(***************************************************************************)
CONSTANT Keys

VARIABLES asked,     \* calls that wait, or waited, for a human
          approved,  \* those a human approved
          rejected,  \* those a human rejected
          ran,       \* calls whose skill ran to its end
          answered   \* keys with an outcome

Init == asked = {} /\ approved = {} /\ rejected = {} /\ ran = {} /\ answered = {}

\* The call is the new member of the set.
Ask == /\ \E c \in asked' : c \notin ran \cup asked /\ asked' = asked \cup {c}
       /\ UNCHANGED <<approved, rejected, ran, answered>>

Waiting == asked \ (approved \cup rejected)

Approve == /\ \E c \in Waiting : approved' = approved \cup {c}
           /\ UNCHANGED <<asked, rejected, ran, answered>>

Reject == /\ \E c \in Waiting : rejected' = rejected \cup {c}
          /\ UNCHANGED <<asked, approved, ran, answered>>

Run == /\ \E c \in ran' : /\ c \notin ran
                          /\ c \in asked => c \in approved
                          /\ ran' = ran \cup {c}
       /\ UNCHANGED <<asked, approved, rejected, answered>>

Answer == /\ \E k \in Keys \ answered : answered' = answered \cup {k}
          /\ UNCHANGED <<asked, approved, rejected, ran>>

Next == Ask \/ Approve \/ Reject \/ Run \/ Answer

Spec == Init /\ [][Next]_<<asked, approved, rejected, ran, answered>>
=============================================================================
