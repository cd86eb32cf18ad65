----------------------------- MODULE MCExecutor -----------------------------
EXTENDS Executor, TLC

CONSTANTS s1, s2, w1, w2, k1, k2

OneSlot == {s1}

TwoWorkers == {w1, w2}
OneWorker == {w1}
OneWaker == {k1}
TwoWakers == {k1, k2}
Interchangeable == Permutations(Worker) \cup Permutations(Waker)
=============================================================================
