--------------------------- MODULE MCTaskService ---------------------------
(* Small instances of TaskService.                                          *)
EXTENDS TaskService

CONSTANTS p1, c1
=============================================================================
