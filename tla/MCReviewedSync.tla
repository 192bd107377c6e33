---------------------------- MODULE MCReviewedSync ----------------------------
EXTENDS ReviewedSync, TLC
CONSTANTS w1, r1, o1, m1, m2, ask
\* What a person makes of a generated text: a version to hand over or not.
MCDecisions ==
  {[action |-> "approve", edit |-> TRUE, receipt |-> FALSE],
   [action |-> "save", edit |-> TRUE, receipt |-> FALSE]}
MessageSymmetry == Permutations(MessageId)
=============================================================================
