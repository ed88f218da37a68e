--------------------------- MODULE ClaimRegistry ---------------------------
(***************************************************************************)
(* What a batch promises about settlements, stated without passes, tables  *)
(* or transactions: a settlement is taken by one owner, all members of a   *)
(* claim are taken at once, and what is taken stays with its owner.        *)
(* "Counterparty already resolved in this run" (DESIGN.md, section 4.3) is *)
(* the guard of Take.                                                      *)
(***************************************************************************)
CONSTANTS
    Settlement,  \* what can be taken
    Owner,       \* who can take it
    Taken        \* <<settlement, owner>> pairs taken before the registry opens

VARIABLE claims  \* <<settlement, owner>> pairs

Init == claims = Taken

\* An owner takes a set of settlements nobody else holds.
Take(c, S) ==
    /\ \A x \in claims : x[1] \in S => x[2] = c
    /\ claims' = claims \cup (S \X {c})

Next == \E c \in Owner, S \in SUBSET Settlement : Take(c, S)

Spec == Init /\ [][Next]_claims
=============================================================================
