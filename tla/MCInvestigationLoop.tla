------------------------ MODULE MCInvestigationLoop ------------------------
(* Instance of InvestigationLoop for TLC: e1 and e2 each reach a candidate   *)
(* and seed the resolution, e3 reaches none; the turns are one of each kind. *)
EXTENDS InvestigationLoop

CONSTANTS e1, e2, e3

MCTurn == {<<>>, <<e1>>, <<e2>>, <<e3>>, <<e1, e2>>, <<e1, e1>>,
           <<Bad, e1>>, <<e2, Bad>>, <<Bad, Bad>>, <<e1, e2, e3>>, <<e1, e2, Bad>>}
MCResolving == {E \in SUBSET Evidence : E \cap {e1, e2} # {}}
=============================================================================
