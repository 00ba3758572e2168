------------------------------- MODULE FanOut -------------------------------
(***************************************************************************)
(* What a coordinator of agents promises, whatever strategy it follows:    *)
(* workers are started while no verdict is out, each reports at most once, *)
(* and the one verdict is an answer only if some worker's report can be    *)
(* used.                                                                   *)
(***************************************************************************)
CONSTANTS Workers, None

VARIABLES
    started,   \* workers that were started
    report,    \* what the coordinator holds of each: None, "good", "bad"
    verdict    \* None, "answer", "failed"

vars == <<started, report, verdict>>

Usable == \E w \in Workers : report[w] = "good"

Init ==
    /\ started = {}
    /\ report = [w \in Workers |-> None]
    /\ verdict = None

Start(w) ==
    /\ verdict = None
    /\ w \notin started
    /\ started' = started \cup {w}
    /\ UNCHANGED <<report, verdict>>

(* Several reports may come in together; none is ever replaced.             *)
Collect(new) ==
    /\ verdict = None
    /\ new # {}
    /\ \A w \in new : w \in started /\ report[w] = None
    /\ \E r \in [new -> {"good", "bad"}] :
          report' = [w \in Workers |-> IF w \in new THEN r[w] ELSE report[w]]
    /\ UNCHANGED <<started, verdict>>

Answer ==
    /\ verdict = None
    /\ Usable \/ started = {}     \* a coordinator may answer on its own
    /\ verdict' = "answer"
    /\ UNCHANGED <<started, report>>

Fail ==
    /\ verdict = None
    /\ verdict' = "failed"
    /\ UNCHANGED <<started, report>>

Next ==
    \/ \E w \in Workers : Start(w)
    \/ \E new \in SUBSET Workers : Collect(new)
    \/ Answer
    \/ Fail

Spec == Init /\ [][Next]_vars
=============================================================================
