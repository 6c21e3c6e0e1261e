---------------------------- MODULE MCToolGraph ----------------------------
(***************************************************************************)
(* Small tool graphs for TLC.                                              *)
(***************************************************************************)
EXTENDS ToolGraph, TLC

CONSTANTS a, b, c3, d4, e5, f6, ghost

\* b and c3 depend on a; c3 has the higher priority, b comes first in the call
\* list.
ForkCalls == {a, b, c3}
ForkDeps == (a :> {}) @@ (b :> {a}) @@ (c3 :> {a})
ForkOrder == (a :> 1) @@ (b :> 2) @@ (c3 :> 3)
ForkPriority == (a :> 0) @@ (b :> 0) @@ (c3 :> 1)

\* A chain listed against its dependencies, two calls of their own, of higher and
\* of lower priority, and a call that waits for an id no node has: the limits
\* split the three ready calls over two batches.
LoopCalls == {a, b, c3, d4, e5, f6}
LoopDeps == (a :> {}) @@ (b :> {a}) @@ (c3 :> {b}) @@ (d4 :> {}) @@ (e5 :> {})
            @@ (f6 :> {ghost})
LoopOrder == (a :> 3) @@ (b :> 2) @@ (c3 :> 1) @@ (d4 :> 4) @@ (e5 :> 5) @@ (f6 :> 6)
LoopPriority == (a :> 0) @@ (b :> 0) @@ (c3 :> 1) @@ (d4 :> 1) @@ (e5 :> -1) @@ (f6 :> 2)
=============================================================================
