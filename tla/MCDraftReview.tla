--------------------------- MODULE MCDraftReview ---------------------------
EXTENDS DraftReview, ConversationProperties, TLC
CONSTANTS w1, w2, r1, r2, m1, m2, ask, stop
\* One request per kind of decision, and two ill-formed ways to record a
\* sending: with another text, without a receipt.
MCReview ==
  {[action |-> "save", edit |-> TRUE, receipt |-> FALSE],
   [action |-> "approve", edit |-> FALSE, receipt |-> FALSE],
   [action |-> "approve", edit |-> TRUE, receipt |-> FALSE],
   [action |-> "reject", edit |-> FALSE, receipt |-> FALSE],
   [action |-> "record_sent", edit |-> FALSE, receipt |-> TRUE],
   [action |-> "record_sent", edit |-> TRUE, receipt |-> TRUE],
   [action |-> "record_sent", edit |-> FALSE, receipt |-> FALSE]}
\* What the property about opt-outs is about: approving and sending.
MCDecisive ==
  {[action |-> "approve", edit |-> FALSE, receipt |-> FALSE],
   [action |-> "record_sent", edit |-> FALSE, receipt |-> TRUE]}
ReviewerSymmetry == Permutations(Reviewer)
=============================================================================
