---------------------------- MODULE MCVolumeUse ----------------------------
EXTENDS VolumeUse, TLC

CONSTANTS t1, t2, d1, d2

TwoTasks == {t1, t2}
TwoDigests == {d1, d2}

============================================================================
