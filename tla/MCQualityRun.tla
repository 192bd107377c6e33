---------------------------- MODULE MCQualityRun ----------------------------
EXTENDS QualityRun, TLC
CONSTANTS r1, r2
\* A conversation whose model calls are not graded, a single call, and a
\* conversation of two turns that could hide a refused request were it not
\* graded.
MCSuite ==
  <<[kind |-> "api", turns |-> 1, checkpoints |-> {"result", "persisted"}, graded |-> FALSE],
    [kind |-> "direct", turns |-> 1, checkpoints |-> {"result"}, graded |-> FALSE],
    [kind |-> "api", turns |-> 2, checkpoints |-> {"result"}, graded |-> TRUE]>>
MCBroken == {{}, {<<1, "persisted", "business">>}}
RunnerSymmetry == Permutations(Runner)
=============================================================================
