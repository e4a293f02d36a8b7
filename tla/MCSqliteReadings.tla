-------------------------- MODULE MCSqliteReadings --------------------------
EXTENDS SqliteReadings, TLC

Symmetry == Permutations(Databases) \cup Permutations(Images)
=============================================================================
