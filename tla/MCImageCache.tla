--------------------------- MODULE MCImageCache ---------------------------
EXTENDS ImageCache

CONSTANTS t1, t2, p1, p2, d1

TwoTasks == {t1, t2}
TwoProcesses == {p1, p2}
OneDigest == {d1}
TwoRevisions == {1, 2}

============================================================================
