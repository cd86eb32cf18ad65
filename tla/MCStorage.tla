----------------------------- MODULE MCStorage -----------------------------
EXTENDS Storage

CONSTANTS t1, t2, t3

ThreeTasks == {t1, t2, t3}
=============================================================================
