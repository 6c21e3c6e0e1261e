---------------------------- MODULE MCSkillHost ----------------------------
(* One built-in skill and one name to install, two installs, and two calls,   *)
(* one of two tries and one of a single one.                                  *)
EXTENDS SkillHost

CONSTANTS v1, v2

\* The first version may use the network, the second may log.
MCGrants(v) == IF v = v1 THEN {"http"} ELSE {"log"}
MCAttempts(c) == IF c = "c1" THEN 2 ELSE 1
MCAsked(c) == IF c = "c1" THEN {"echo"} ELSE {"echo", "web_reader"}
MCNamed(i) == IF i = v1 THEN {"echo"} ELSE {"echo", "web_reader"}
============================================================================
