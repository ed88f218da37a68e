--------------------------- MODULE MCStage2Match ---------------------------
(***************************************************************************)
(* Instance of Stage2Match for TLC: three credits and three settlements.   *)
(* Day 1 reaches settlements of days 0 and 2, day 3 those of day 2 only.   *)
(***************************************************************************)
EXTENDS Stage2Match, TLC

CONSTANTS c1, c2, c3, s1, s2, s3

\* Amounts that can be met by one settlement or by two, a shared name and none.
MCCreditFacts ==
    [amount: {1, 2}, date: {1, 3}, names: {{}, {s1}, {s1, s2}}]

\* Two amounts, two days, and one settlement whose break-up does not add up.
MCSettlementFacts ==
    [amount: {1, 2}, date: {2}, sound: {TRUE}]
      \cup {[amount |-> 1, date |-> 0, sound |-> TRUE],
            [amount |-> 1, date |-> 2, sound |-> FALSE]}

Symmetric == Permutations({c1, c2, c3})
=============================================================================
