----------------------------- MODULE MCWatcher -----------------------------
EXTENDS Watcher, TLC

CONSTANTS n1, n2, i1, i2

OneName == {n1}
TwoNames == {n1, n2}
OneId == {i1}
TwoIds == {i1, i2}

Symmetric == Permutations(Names) \cup Permutations(Ids)

============================================================================
