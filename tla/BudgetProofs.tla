----------------------------- MODULE BudgetProofs ------------------------------
(***************************************************************************)
(* The arithmetic of candidate budgets, for every plan: what a budget is   *)
(* bounded by, that it grows no faster than the time it is taken from, and *)
(* why a walk of the offline smoke's simulation is the worst that can      *)
(* happen.  The proofs about the router and about the host rest on it.     *)
(***************************************************************************)
EXTENDS BudgetSimulation, TLAPS

\* A candidate's allowance is positive.
LEMMA BudgetForType ==
  ASSUME NEW p, WellFormedPlan(p), NEW c
  PROVE  BudgetFor(p, c) \in Nat \ {0}
  BY DEF BudgetFor, WellFormedPlan

\* The budget of an attempt is positive, at most the candidate's allowance,
\* and at most what remains of the deadline.
LEMMA SimulatedBudgetBounds ==
  ASSUME NEW p, WellFormedPlan(p), NEW c, NEW r \in Nat \ {0}
  PROVE  /\ SimulatedBudget(p, c, r) \in Nat
         /\ SimulatedBudget(p, c, r) \in 1 .. r
         /\ SimulatedBudget(p, c, r) <= BudgetFor(p, c)
  <1>1. BudgetFor(p, c) \in Nat \ {0} /\ BudgetFor(p, c + 1) \in Nat \ {0}
    BY BudgetForType
  <1> QED
    BY <1>1 DEF SimulatedBudget

\* With more time there is a budget at least as large, and at least as much is
\* left after it.
LEMMA BudgetIsMonotone ==
  ASSUME NEW p, WellFormedPlan(p), NEW c, NEW r \in Nat \ {0}, NEW s \in Nat \ {0},
         r <= s
  PROVE  /\ SimulatedBudget(p, c, r) <= SimulatedBudget(p, c, s)
         /\ r - SimulatedBudget(p, c, r) <= s - SimulatedBudget(p, c, s)
  <1> DEFINE reserve  == IF p.protect /\ c < p.size THEN BudgetFor(p, c + 1) ELSE 0
             floor(n) == IF n - reserve < 1 THEN 1 ELSE n - reserve
  <1>1. BudgetFor(p, c) \in Nat \ {0} /\ BudgetFor(p, c + 1) \in Nat \ {0}
    BY BudgetForType
  <1>2. reserve \in Nat
    BY <1>1
  <1>3. /\ floor(r) \in Nat /\ floor(s) \in Nat
        /\ floor(r) <= floor(s)
        /\ floor(s) - floor(r) <= s - r
    <2> HIDE DEF reserve
    <2> QED
      BY <1>2
  <1>4. \A n : SimulatedBudget(p, c, n) =
                 IF BudgetFor(p, c) <= floor(n) THEN BudgetFor(p, c) ELSE floor(n)
    BY DEF SimulatedBudget
  <1> HIDE DEF reserve, floor
  <1> QED
    BY <1>1, <1>3, <1>4

\* A walk that the simulation accepts has time left at every candidate, and less
\* at each than at the one before.
LEMMA WalkStep ==
  ASSUME NEW p, WellFormedPlan(p), NEW left \in AcceptedWalks(p)
  PROVE  /\ left[1] = p.deadline
         /\ \A c \in 1 .. p.size : left[c] \in Nat \ {0}
         /\ \A c \in 1 .. p.size - 1 :
              /\ left[c + 1] = left[c] - SimulatedBudget(p, c, left[c])
              /\ left[c + 1] < left[c]
  <1>1. p.size \in Nat \ {0} /\ p.deadline \in Nat \ {0}
    BY DEF WellFormedPlan
  <1>2. /\ left \in [1 .. p.size -> 1 .. p.deadline]
        /\ left[1] = p.deadline
        /\ \A c \in 1 .. p.size - 1 :
             left[c + 1] = left[c] - SimulatedBudget(p, c, left[c])
    BY DEF AcceptedWalks
  <1>3. \A c \in 1 .. p.size : left[c] \in Nat \ {0}
    BY <1>1, <1>2
  <1>4. ASSUME NEW c \in 1 .. p.size - 1
        PROVE  left[c + 1] < left[c]
    <2>1. left[c] \in Nat \ {0}
      BY <1>1, <1>3
    <2>2. SimulatedBudget(p, c, left[c]) \in 1 .. left[c]
      BY <2>1, SimulatedBudgetBounds
    <2> QED
      BY <1>2, <2>1, <2>2
  <1> QED
    BY <1>2, <1>3, <1>4

\* Who is ahead of a walk at one candidate and keeps the budget computed from the
\* time left, is ahead of it at the next.
LEMMA StaysAhead ==
  ASSUME NEW p, WellFormedPlan(p), NEW left \in AcceptedWalks(p),
         NEW c \in 1 .. p.size - 1, NEW r \in Int, r >= left[c],
         NEW spent \in Nat, spent <= SimulatedBudget(p, c, r)
  PROVE  r - spent >= left[c + 1]
  <1>1. c \in 1 .. p.size
    BY DEF WellFormedPlan
  <1>2. /\ left[c] \in Nat \ {0}
        /\ left[c + 1] = left[c] - SimulatedBudget(p, c, left[c])
    BY <1>1, WalkStep
  <1>3. r \in Nat \ {0}
    BY <1>2
  <1>4. /\ SimulatedBudget(p, c, r) \in Nat /\ SimulatedBudget(p, c, left[c]) \in Nat
        /\ left[c] - SimulatedBudget(p, c, left[c]) <= r - SimulatedBudget(p, c, r)
    BY <1>2, <1>3, BudgetIsMonotone, SimulatedBudgetBounds
  <1> QED
    BY <1>2, <1>3, <1>4

\* The simulation looks at the pool's size, its budgets and the deadline alone.
LEMMA SameBudgetsSameWalks ==
  ASSUME NEW p, NEW q,
         p.size = q.size, p.deadline = q.deadline, p.base = q.base,
         p.overrides = q.overrides, p.protect = q.protect
  PROVE  AcceptedWalks(p) = AcceptedWalks(q)
  <1>1. \A c : BudgetFor(p, c) = BudgetFor(q, c)
    BY DEF BudgetFor
  <1>2. \A c, r : SimulatedBudget(p, c, r) = SimulatedBudget(q, c, r)
    BY <1>1 DEF SimulatedBudget
  <1> QED
    BY <1>2 DEF AcceptedWalks
==============================================================================
