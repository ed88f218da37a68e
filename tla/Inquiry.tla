------------------------------ MODULE Inquiry ------------------------------
(***************************************************************************)
(* What an investigation promises to the policy gate that reads it: it     *)
(* gathers evidence for a bounded number of turns, stops the moment the    *)
(* evidence resolves the case and not before, and comes to a verdict       *)
(* unless it is lost with everything it gathered.                          *)
(***************************************************************************)
EXTENDS Integers

CONSTANTS
    Fact,       \* facts that may be gathered
    Resolving,  \* the sets of facts the policy resolves on
    Budget      \* turns

VARIABLES
    facts,    \* gathered so far
    spent,    \* turns that gathered something
    verdict   \* "open", "resolved", "escalated" or "lost"

Init == facts = {} /\ spent = 0 /\ verdict = "open"

Gather ==
    /\ verdict = "open" /\ spent < Budget
    /\ spent' = spent + 1
    /\ \E S \in (SUBSET Fact) \ {{}} : facts' = facts \cup S
    /\ verdict' = IF facts' \in Resolving THEN "resolved"
                  ELSE IF spent' = Budget THEN "escalated" ELSE "open"

GiveUp ==
    /\ verdict = "open"
    /\ verdict' \in {"escalated", "lost"}
    /\ UNCHANGED <<facts, spent>>

Next == Gather \/ GiveUp

vars == <<facts, spent, verdict>>

\* What it may do, and that it comes to a verdict.
SafeSpec == Init /\ [][Next]_vars
Spec == SafeSpec /\ WF_vars(Next)
=============================================================================
