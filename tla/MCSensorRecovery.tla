--------------------------- MODULE MCSensorRecovery ---------------------------
EXTENDS SensorRecovery, TLC

Interchangeable == Permutations(Objs) \cup Permutations(Addrs)
=============================================================================
