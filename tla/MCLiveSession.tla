--------------------------- MODULE MCLiveSession ---------------------------
(***************************************************************************)
(* Instances of LiveSession for TLC.  Deployments with two advances in     *)
(* flight keep to messages and answers; the rest of what a session can do  *)
(* happens in deployments with one.                                        *)
(***************************************************************************)
EXTENDS LiveSession

Quiet == [store |-> "memory", planner |-> "none", observer |-> "none", width |-> 1,
          kinds |-> {"human"}, acts |-> {"Respond"}, faults |-> 0, reports |-> FALSE,
          rows |-> 40]

MCDrivers == {1, 2}
MCDeployments ==
  { [Quiet EXCEPT !.width = 2, !.store = s, !.observer = "stream", !.rows = 5] : s \in Stores }
  \cup { [Quiet EXCEPT !.width = 2, !.store = s, !.observer = "pager", !.rows = 4] : s \in Stores }
  \cup { [Quiet EXCEPT !.width = 2, !.store = "sqlite", !.planner = "minimal", !.rows = 10],
         [Quiet EXCEPT !.planner = "minimal", !.kinds = {"human", "wake"}, !.faults = 1,
                       !.acts = {"Respond", "Continue"}, !.reports = TRUE],
         [Quiet EXCEPT !.planner = "research", !.reports = TRUE],
         [Quiet EXCEPT !.planner = "proposing", !.kinds = {"human", "external"}],
         [Quiet EXCEPT !.kinds = {"human", "approve", "reject"}, !.acts = Acts] }

MCPlanActions == <<"Plan", "Respond">>
MCAnswers == { <<{}, {1}>>, <<{2}, {}>> }
=============================================================================
