--------------------------- MODULE MCReviewSession ---------------------------
(* Small instances of ReviewSession.                                        *)
EXTENDS ReviewSession

CONSTANTS f1, f2, a1
=============================================================================
