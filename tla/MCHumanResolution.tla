------------------------- MODULE MCHumanResolution -------------------------
(* Instance of HumanResolution for TLC: two requests on two cases. *)
EXTENDS HumanResolution

CONSTANTS a, b

MCCandidateOf == [c \in Case |-> IF c = 1 THEN {a, b} ELSE {a}]
=============================================================================
