---------------------------- MODULE MCEventStream ----------------------------
(* Small instances of EventStream.                                          *)
EXTENDS EventStream

CONSTANTS w, a, g, c1, c2

(* The workflow, an agent it runs and a review request in the gateway.      *)
SmallScript ==
    [p \in Publishers |->
        CASE p = w -> <<"completed", "end">>
          [] p = a -> <<"partial">>
          [] p = g -> <<"update">>]
=============================================================================
