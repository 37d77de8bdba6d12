--------------------------- MODULE BudgetSimulation ---------------------------
(***************************************************************************)
(* The candidate budget simulation of the offline smoke (smoke.py): a walk *)
(* through the pool in which every candidate uses up all of its budget and *)
(* fails.  It computes the budgets with a copy of the router's arithmetic, *)
(* and knows of neither suppression nor max_attempts.                      *)
(*                                                                         *)
(* The definition marked "slip" is a plausible mistake in the one after    *)
(* it, for a property to catch.                                            *)
(***************************************************************************)
EXTENDS Handover

AllBudget(p, c, remaining) == BudgetFor(p, c)  \* slip: what remains forgotten

\* The copy of _candidate_budget: the reserve is the next candidate's budget.
SimulatedBudget(p, c, remaining) ==
  LET reserve   == IF p.protect /\ c < p.size THEN BudgetFor(p, c + 1) ELSE 0
      available == IF remaining - reserve < 1 THEN 1 ELSE remaining - reserve
  IN  IF BudgetFor(p, c) <= available THEN BudgetFor(p, c) ELSE available

\* _candidate_budget_simulation_check, as the walks that it accepts: left[c] is
\* what remains of the deadline when candidate c's turn comes, and something
\* always does.  A plan has one such walk or none.  Budgets are positive for
\* well-formed plans, so that the check's other refusal never happens.
AcceptedWalks(p) ==
  { left \in [1 .. p.size -> 1 .. p.deadline] :
      /\ left[1] = p.deadline
      /\ \A c \in 1 .. p.size - 1 :
           left[c + 1] = left[c] - SimulatedBudget(p, c, left[c]) }

SimulationPasses(p) == AcceptedWalks(p) # {}
==============================================================================
