----------------------------- MODULE MCResearch -----------------------------
(* Small instances of Research.                                             *)
EXTENDS Research

CONSTANTS a, b, c, d

On(fa, fb, fc) == (a :> fa) @@ (b :> fb) @@ (c :> fc) @@ (d :> {})

(* What decomposition may answer: nothing to wait for; one that waits for   *)
(* two; a task that waits for the domain analysis and for one beside it,    *)
(* and one that waits for that task in turn; a cycle.                       *)
MCPlans == {
    [list |-> <<a, b>>,       deps |-> On({}, {}, {})],
    [list |-> <<c, b, a>>,    deps |-> On({}, {}, {a, b})],
    [list |-> <<d, c, a, b>>, deps |-> On({c, d}, {a}, {})],
    [list |-> <<a, b>>,       deps |-> On({b}, {a}, {})]}
=============================================================================
