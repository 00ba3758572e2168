------------------------ MODULE MCOrchestratorRouter ------------------------
(* Small instances of OrchestratorRouter.                                   *)
EXTENDS OrchestratorRouter
=============================================================================
