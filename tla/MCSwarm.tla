------------------------------ MODULE MCSwarm ------------------------------
(* Small instances of Swarm.                                                *)
EXTENDS Swarm

CONSTANTS a1, a2, t1, t2

(* The second task waits for the first.                                     *)
ChainNeeds == [t \in Tasks |-> IF t = t2 THEN {t1} \cap Tasks ELSE {}]
=============================================================================
