-------------------------- MODULE MCLifecycleLocks --------------------------
(* Three tasks on two names; three cells are enough for the tasks' clones, *)
(* and one more for an entry nobody uses.                                  *)
EXTENDS LifecycleLocks, TLC

CONSTANTS t1, t2, t3, n1, n2, a1, a2, a3, a4

MCTasks == {t1, t2, t3}
MCNames == {n1, n2}
MCArcs == {a1, a2, a3, a4}

Symmetric == Permutations(MCTasks) \cup Permutations(MCNames) \cup Permutations(MCArcs)

=============================================================================
