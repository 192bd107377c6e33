------------------------------ MODULE MCCrmSync ------------------------------
EXTENDS CrmSync, TLC
CONSTANTS o1, o2, v1, v2
Symmetry == Permutations(Operator) \cup Permutations(Version)
\* No process dies: what goes wrong is due to a lost answer alone.
UndisturbedSpec == SyncInit /\ [][SyncNext /\ holder' # Orphan]_syncVars
=============================================================================
