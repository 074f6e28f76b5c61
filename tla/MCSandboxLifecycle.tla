------------------------- MODULE MCSandboxLifecycle -------------------------
EXTENDS SandboxLifecycle, TLC

CONSTANTS t1, t2, t3

TwoTasks == {t1, t2}
ThreeTasks == {t1, t2, t3}

Symmetric == Permutations(Tasks)

=============================================================================
