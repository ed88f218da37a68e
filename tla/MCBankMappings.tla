--------------------------- MODULE MCBankMappings ---------------------------
(* Two mappings, two labels, and two header rows that one normal form covers, *)
(* one of them a built-in profile's.  A read that cuts a byte-order mark and  *)
(* one that does not, or cannot decode it, see one file differently.          *)
EXTENDS BankMappings, TLC

CONSTANTS m1, m2, n1, n2, date, DATE, d1, d2, e1, e2, b1, u1, cutting, keeping

MCForm == [h \in {date, DATE} |-> date]
MCConfirmable == {<<d1, date>>, <<d2, DATE>>}
MCDialectOf == [x \in {d1, d2, b1} |-> IF x = d2 THEN keeping ELSE cutting]
MCFile == {<<date, date>>, <<DATE, DATE>>, <<date, DATE>>, <<DATE, Unreadable>>}
MCSeen == [x \in MCFile \X {cutting, keeping} |-> x[1][IF x[2] = cutting THEN 1 ELSE 2]]
MCBuiltInHeader == [b \in BuiltIn |-> date]
Symmetric == Permutations({e1, e2}) \cup Permutations({m1, m2}) \cup Permutations({n1, n2})
=============================================================================
