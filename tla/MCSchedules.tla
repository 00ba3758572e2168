----------------------------- MODULE MCSchedules -----------------------------
(* Small instances of Schedules.                                            *)
EXTENDS Schedules, TLC

CONSTANTS s1, s2, q1, q2

RequestSymmetry == Permutations(Requests)
=============================================================================
