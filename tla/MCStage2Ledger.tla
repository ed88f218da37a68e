-------------------------- MODULE MCStage2Ledger --------------------------
(***************************************************************************)
(* Instance of Stage2Ledger for TLC.  Content f has cases 1 and 2, content *)
(* g has cases 1, 2 and 3 and differs from f on case 2; content h inserts  *)
(* case 0 before them, which shifts every place in the audit trail.        *)
(***************************************************************************)
EXTENDS Stage2Ledger

CONSTANTS f, g, h, s1, s2, k1, k2, resolved1, resolved2, open1, open2

MCDecisionLinks == [d \in Decision |->
    IF d = resolved1 THEN {s1} ELSE IF d = resolved2 THEN {s2} ELSE {}]
MCDecisionCandidates == [d \in Decision |->
    IF d = open1 THEN {k1, k2} ELSE IF d = open2 THEN {k2} ELSE {}]
CasesIn(w) == CASE w = f -> {1, 2} [] w = g -> {1, 2, 3} [] w = h -> {0, 1, 2}
Decide(w, c) ==
    IF c = 1 THEN resolved1
    ELSE IF w = f \/ c # 2 THEN open1
    ELSE IF w = g THEN resolved2 ELSE open2
MCDecisionOf == [w \in Content |-> [c \in CasesIn(w) |-> Decide(w, c)]]
MCEventsOf == [w \in Content |-> IF w = f THEN {1} ELSE {2}]
=============================================================================
