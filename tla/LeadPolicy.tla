------------------------------ MODULE LeadPolicy ------------------------------
(***************************************************************************)
(* policy-v1: what the rules read from a message, and how the accumulated  *)
(* features of a lead become a score and a disposition                     *)
(* (services/policy_v1.py, rule_feature_extractor.py, lead_analyzer.py).   *)
(* Keyword tables and patterns are data: a message record says which of    *)
(* them its text matches.  Reason codes that no decision reads are left    *)
(* out.                                                                    *)
(***************************************************************************)
EXTENDS Integers, Sequences, FiniteSets

CONSTANT None

B2B == {"agency", "operator", "school", "corporate", "influencer"}
Kind == B2B \cup {"individual", "unknown"}

\* What a customer can ask for, as the features name it.
Request == {"price", "availability", "private", "partnership"}

MaxLength == 5000
MaxGroup == 10000

Feature ==
  [kind : Kind, group : 1..MaxGroup \cup {None}, dates : BOOLEAN,
   asks : SUBSET Request, spam : BOOLEAN, places : BOOLEAN,
   company : BOOLEAN, length : 0..MaxLength, conflicts : BOOLEAN]

------------------------------------------------------------------------------
\* Reading one message.

\* An exact number of people; two different ones are a conflict.
GroupSizes(m) == IF m.approximate THEN {} ELSE m.numbers \cap 1..MaxGroup
GroupSize(m) ==
  IF Cardinality(GroupSizes(m)) = 1 THEN CHOOSE n \in GroupSizes(m) : TRUE ELSE None
\* B2B_CUSTOMER_KINDS in the order in which the rules try them.
KindOrder == <<"agency", "operator", "school", "corporate", "influencer">>
CustomerKind(m) ==
  IF m.kinds # {}
  THEN KindOrder[CHOOSE i \in 1..Len(KindOrder) :
         /\ KindOrder[i] \in m.kinds
         /\ \A j \in 1..(i - 1) : KindOrder[j] \notin m.kinds]
  ELSE IF m.individual \/ GroupSize(m) # None \/ "private" \in m.asks \/ m.places # <<>>
       THEN "individual" ELSE "unknown"
RuleFeatures(m) ==
  [kind |-> CustomerKind(m), group |-> GroupSize(m), dates |-> m.date # None \/ m.soon,
   asks |-> m.asks, spam |-> m.spam, places |-> m.places # <<>>,
   company |-> m.company, length |-> m.length,
   conflicts |-> Cardinality(GroupSizes(m)) > 1 \/ Cardinality(m.kinds) > 1]

------------------------------------------------------------------------------
\* The four components of the score.
CustomerFit(f) ==
  CASE f.kind \in {"agency", "operator"} -> 30
    [] f.kind \in {"school", "corporate"} -> 25
    [] f.kind = "influencer" -> 20
    [] f.kind = "individual" -> 10
    [] f.kind = "unknown" -> 0

Signals(f) == Cardinality(f.asks) + (IF f.dates THEN 1 ELSE 0)
IntentStrength(f) ==
  IF "partnership" \in f.asks \/ Signals(f) >= 3 THEN 30
  ELSE IF Signals(f) = 2 THEN 22
  ELSE IF Signals(f) = 1 THEN 12 ELSE 5

GroupWithin(f, low, high) == f.group # None /\ low <= f.group /\ f.group <= high
\* What a change of one bound would do: four people fall through to unknown.
OrderValueFromFive(f) ==
  IF "partnership" \in f.asks \/ GroupWithin(f, 10, MaxGroup) THEN 25
  ELSE IF "private" \in f.asks \/ GroupWithin(f, 5, 9) THEN 18
  ELSE IF GroupWithin(f, 1, 3) \/ f.places THEN 10 ELSE 5
OrderValue(f) ==
  IF "partnership" \in f.asks \/ GroupWithin(f, 10, MaxGroup) THEN 25
  ELSE IF "private" \in f.asks \/ GroupWithin(f, 4, 9) THEN 18
  ELSE IF GroupWithin(f, 1, 3) \/ f.places THEN 10 ELSE 5

Completeness(f) ==
    (IF f.company THEN 3 ELSE 0) + (IF f.length >= 30 THEN 4 ELSE 0)
  + (IF f.group # None THEN 3 ELSE 0) + (IF f.dates THEN 3 ELSE 0)
  + (IF f.places THEN 2 ELSE 0)

Score(f) ==
  IF f.spam THEN 0
  ELSE CustomerFit(f) + IntentStrength(f) + OrderValue(f) + Completeness(f)

Intent(score) ==
  IF score >= 75 THEN "High" ELSE IF score >= 45 THEN "Medium" ELSE "Low"

LeadType(f) ==
  IF f.kind \in B2B THEN "B2B" ELSE IF f.kind = "individual" THEN "B2C" ELSE "Unknown"
LeadSubtype(f) ==
  IF f.kind # "individual" THEN f.kind
  ELSE IF GroupWithin(f, 10, MaxGroup) THEN "LargeGroup"
  ELSE IF "private" \in f.asks THEN "PrivateCustom" ELSE "FIT"

------------------------------------------------------------------------------
\* The decision.  flagged: the message matched one of the review patterns.
SeverelyInsufficient(f) ==
  /\ ~f.company /\ f.length < 30
  /\ f.asks = {} /\ ~f.dates
  /\ f.group = None /\ ~f.places

Disposition(f, flagged) ==
  IF f.spam THEN "spam"
  ELSE IF flagged \/ f.kind = "unknown" \/ f.conflicts \/ SeverelyInsufficient(f)
       THEN "manual_review"
       ELSE IF Score(f) >= 65 THEN "qualified" ELSE "nurture"
NeedsReview(f, flagged) ==
  Disposition(f, flagged) = "manual_review" \/ (f.spam /\ flagged)

Evaluate(f, flagged) ==
  [disposition |-> Disposition(f, flagged), review |-> NeedsReview(f, flagged),
   score |-> Score(f), intent |-> IF f.spam THEN "Low" ELSE Intent(Score(f)),
   type |-> LeadType(f), subtype |-> LeadSubtype(f)]
\* Both kinds of review pattern flag a message.
Flagged(m) == m.flagged \/ m.sourceFlagged
=============================================================================
