------------------------ MODULE BaselineChainProofs ------------------------
(***************************************************************************)
(* The accepted standard of a mode only rises, and a release is judged by  *)
(* people where it has to be, for any reports, reviews, issues, modes and  *)
(* maintainers preparing acceptances at their own pace.                    *)
(***************************************************************************)
EXTENDS BaselineChain, FiniteSetTheorems, WellFoundedInduction, TLAPS

-----------------------------------------------------------------------------
\* What the gate reads of a sealed run.
LEMMA ReportIs ==
  ASSUME NEW run \in Run
  PROVE  /\ report[run] \in Report
         /\ report[run].mode \in Mode
         /\ report[run].metric \in [Query -> Nat]
         /\ \A k \in Key : report[run].rows[k] \in Row
<1>1. report[run] \in Report
  BY GateAssumption DEF report, Run
<1> QED BY <1>1 DEF Report

\* The reviews in force are of the run and the assertion they are asked for.
LEMMA ActiveIs ==
  ASSUME NEW run \in Run, NEW reviews \in ReviewSet, NEW k \in Key
  PROVE  \A review \in Active(run, reviews, k) :
           /\ review \in reviews /\ review \in ReviewRecord
           /\ review.run = run /\ review.key = k
           /\ review.verdict \in Behavior /\ review.failure \in Failure
<1>1. reviews \subseteq ReviewRecord
  BY GateAssumption
<1> QED BY <1>1 DEF Active, ReviewRecord

LEMMA EffectiveIs ==
  ASSUME NEW run \in Run, NEW reviews \in ReviewSet, NEW k \in Key
  PROVE  Effective(run, reviews)[k] = Judged(report[run].rows[k], Active(run, reviews, k))
BY DEF Effective, effective

\* An assertion that fails, by itself or as judged, has a failure type.
LEMMA FailureIs ==
  ASSUME NEW run \in Run, NEW reviews \in ReviewSet, NEW k \in Key,
         Effective(run, reviews)[k].behavior = "fail"
  PROVE  Effective(run, reviews)[k].failure \in Failure
<1> DEFINE x == report[run].rows[k]
           judgments == Active(run, reviews, k)
<1>1. x \in Row
  BY ReportIs
<1>2. /\ x.behavior = "fail" => x.failure \in Failure
      /\ x = [execution |-> x.execution, behavior |-> x.behavior, manual |-> x.manual,
              mandatory |-> x.mandatory, failure |-> x.failure]
  BY <1>1 DEF Row
<1>3. \A review \in judgments : review.failure \in Failure
  BY ActiveIs
<1>4. Effective(run, reviews)[k] = Judged(x, judgments)
  BY EffectiveIs
<1> HIDE DEF x, judgments
<1>5. CASE judgments = {}
  BY <1>2, <1>4, <1>5 DEF Judged
<1>6. CASE judgments # {} /\ (Cardinality(Verdicts(judgments)) # 1 \/ Assignments(judgments) = {})
  <2>1. Judged(x, judgments).behavior = "needs_review"
    BY <1>2, <1>6 DEF Judged
  <2> QED BY <1>4, <2>1
<1>7. CASE judgments # {} /\ ~(Cardinality(Verdicts(judgments)) # 1 \/ Assignments(judgments) = {})
  <2> DEFINE verdict == CHOOSE v \in Verdicts(judgments) : TRUE
             chosen == CHOOSE review \in judgments : TRUE
  <2>1. Judged(x, judgments) = [x EXCEPT !.behavior = verdict,
                                  !.failure = IF verdict = "fail" THEN chosen.failure ELSE @]
    BY <1>7 DEF Judged
  <2>2. chosen \in judgments
    BY <1>7
  <2> HIDE DEF verdict, chosen
  <2>3. Judged(x, judgments).behavior = verdict
    BY <1>2, <2>1
  <2>4. verdict = "fail" => Judged(x, judgments).failure = chosen.failure
    BY <1>2, <2>1
  <2> QED BY <1>3, <1>4, <2>2, <2>3, <2>4
<1> QED BY <1>5, <1>6, <1>7

LEMMA StandardIs ==
  ASSUME NEW b \in Baseline
  PROVE  StandardOf(b) \in Standards
<1>1. b.run \in Run /\ b.reviews \in ReviewSet
  BY DEF Baseline
<1>2. {<<k, Effective(b.run, b.reviews)[k].failure>> : k \in Failing(Effective(b.run, b.reviews))}
        \in SUBSET (Key \X Failure)
  BY <1>1, FailureIs DEF Failing
<1>3. report[b.run].metric \in [Query -> Nat]
  BY <1>1, ReportIs
<1> QED BY <1>2, <1>3 DEF StandardOf, Standards

\* The gate as a list of conditions that must all be empty.
LEMMA WhenEmpty == \A code, condition : When(code, condition) = {} => ~condition
BY DEF When

\* A passed regression gate compares with the latest baseline, and nothing that
\* passed there fails, fails differently or measures less.
LEMMA RegressionRaises ==
  ASSUME NEW run \in Run, NEW reviews \in ReviewSet, NEW known, NEW id,
         Latest(report[run].mode) # None,
         Latest(report[run].mode) \in Baseline,
         Passes(GateCodes("regression", {run}, report[run].commit, {}, Pointer, Baselines,
                          known, reviews))
  PROVE  AtLeast(report[run].mode, StandardOf([id |-> id, run |-> run, reviews |-> reviews]),
                 StandardOf(Latest(report[run].mode)))
<1> DEFINE mode == report[run].mode
           base == Latest(mode)
           rows == Effective(run, reviews)
           old == Effective(base.run, base.reviews)
<1>1. mode \in Mode /\ Baselines[mode] = base /\ Pointer[mode] = Len(accepted[mode])
  BY ReportIs DEF Baselines, Pointer
<1>2. ModeCodes("regression", run, report[run].commit, {}, Pointer[mode], Baselines[mode],
                known, reviews) = {}
  BY DEF Passes, GateCodes
<1>3. BaselineCodes("regression", run, rows, Pointer[mode], base, known) = {}
  <2>1. Reviewable(run, reviews)
    BY <1>2 DEF ModeCodes
  <2> QED BY <1>1, <1>2, <2>1 DEF ModeCodes
<1>4. /\ When(1, Regressed(known, mode, old, rows)) = {}
      /\ mode = "rule_only" => SubreportCodes(base.run, run) = {}
  BY <1>3 DEF BaselineCodes, When
<1>5. \A k \in Key : rows[k].behavior = "fail" =>
        old[k].behavior = "fail" /\ old[k].failure = rows[k].failure
  BY <1>4, WhenEmpty DEF Regressed, KnownFailure
<1>6. mode = "rule_only" => \A q \in Query : report[run].metric[q] >= report[base.run].metric[q]
  <2> SUFFICES ASSUME mode = "rule_only", NEW q \in Query
               PROVE  report[run].metric[q] >= report[base.run].metric[q]
    OBVIOUS
  <2>1. ~Worse(base.run, run)
    BY <1>4 DEF SubreportCodes, When
  <2>2. base.run \in Run
    BY DEF Baseline
  <2>3. report[run].metric[q] \in Nat /\ report[base.run].metric[q] \in Nat
    BY <2>2, ReportIs
  <2> QED BY <2>1, <2>3 DEF Worse
<1>7. {<<k, rows[k].failure>> : k \in Failing(rows)} \subseteq {<<k, old[k].failure>> : k \in Failing(old)}
  BY <1>5 DEF Failing
<1> QED BY <1>6, <1>7 DEF AtLeast, StandardOf

-----------------------------------------------------------------------------
ModeOf(b) == report[b.run].mode

\* The baselines of a mode are numbered in their order.
ChainOf(mode) ==
  \A i \in DOMAIN accepted[mode] :
    accepted[mode][i].id = i /\ ModeOf(accepted[mode][i]) = mode

\* What a maintainer prepared was compared with the baseline it will follow,
\* unless the mode has moved on, and then it can no longer be merged.
ProposalOf(p) ==
  LET mode == ModeOf(p.baseline) IN
  /\ p.baseline.id <= Len(accepted[mode]) + 1
  /\ p.baseline.id = Len(accepted[mode]) + 1 /\ accepted[mode] # <<>> =>
       AtLeast(mode, StandardOf(p.baseline), StandardOf(Latest(mode)))

ChainInv ==
  /\ accepted \in [Mode -> Seq(Baseline)]
  /\ issues \subseteq Issue
  /\ proposal \in [Maintainer -> Proposal \cup {None}]
  /\ \A mode \in Mode : ChainOf(mode)
  /\ \A m \in Maintainer : proposal[m] # None => ProposalOf(proposal[m])

LEMMA LatestIs ==
  ASSUME ChainInv, NEW mode \in Mode
  PROVE  /\ accepted[mode] = <<>> <=> Latest(mode) = None
         /\ accepted[mode] # <<>> =>
              /\ Latest(mode) \in Baseline
              /\ Latest(mode) = accepted[mode][Len(accepted[mode])]
<1>1. accepted[mode] \in Seq(Baseline)
  BY DEF ChainInv
<1>2. CASE accepted[mode] # <<>>
  <2>1. Len(accepted[mode]) \in 1..Len(accepted[mode])
    BY <1>1, <1>2
  <2>2. accepted[mode][Len(accepted[mode])] \in Baseline
    BY <1>1, <2>1
  <2> QED BY <1>2, <2>2, NoBaselineAssumption DEF Latest
<1> QED BY <1>2 DEF Latest

LEMMA ChainInitInv == ChainInit => ChainInv
BY DEF ChainInit, ChainInv, ChainOf

\* An acceptance is prepared against the branch as it is.
LEMMA ProposeStep ==
  ASSUME ChainInv, NEW m \in Maintainer, NEW run \in Run, NEW known \in {issues, {}},
         NEW reviews \in ReviewSet, Propose(m, run, known, reviews)
  PROVE  ChainInv'
<1> DEFINE mode == report[run].mode
           b == [id |-> Len(accepted[mode]) + 1, run |-> run, reviews |-> reviews]
           p == [baseline |-> b, issues |-> known \ Resolved(known, run, Effective(run, reviews))]
<1>1. mode \in Mode /\ accepted[mode] \in Seq(Baseline)
  BY ReportIs DEF ChainInv
<1>2. b \in Baseline
  BY <1>1 DEF Baseline
<1>3. p \in Proposal
  BY <1>2 DEF Proposal, ChainInv
<1>4. /\ proposal' = [proposal EXCEPT ![m] = p]
      /\ UNCHANGED <<accepted, issues>>
      /\ AgainstPredecessor(run, known, reviews)
  BY DEF Propose
<1>5. ASSUME accepted[mode] # <<>>
      PROVE  AtLeast(mode, StandardOf(b), StandardOf(Latest(mode)))
  <2>1. Latest(mode) # None /\ Latest(mode) \in Baseline
    BY <1>1, <1>5, LatestIs
  <2>2. Passes(GateCodes("regression", {run}, report[run].commit, {}, Pointer, Baselines,
                         known, reviews))
    BY <1>4, <2>1 DEF AgainstPredecessor
  <2> QED BY <2>1, <2>2, RegressionRaises
<1>6. b.id = Len(accepted[mode]) + 1 /\ ModeOf(b) = mode /\ p.baseline = b
  BY DEF ModeOf
<1> HIDE DEF b, p, mode
<1>7. ProposalOf(p)
  BY <1>1, <1>5, <1>6 DEF ProposalOf
<1>8. \A n \in Maintainer : proposal'[n] # None => ProposalOf(proposal'[n])
  BY <1>4, <1>7 DEF ChainInv
<1>9. \A q : ProposalOf(q) => ProposalOf(q)'
  BY <1>4 DEF ProposalOf, Latest
<1> QED BY <1>3, <1>4, <1>8, <1>9 DEF ChainInv, ChainOf

\* What Git merges follows the baseline it was compared with.
LEMMA MergeIs ==
  ASSUME ChainInv, NEW m \in Maintainer, Merge(m),
         NEW b, b = proposal[m].baseline, NEW mode, mode = ModeOf(b)
  PROVE  /\ proposal[m] \in Proposal /\ b \in Baseline /\ mode \in Mode
         /\ b.id = Len(accepted[mode]) + 1
         /\ accepted'[mode] = Append(accepted[mode], b)
         /\ accepted'[mode] # <<>> /\ Latest(mode)' = b
         /\ \A other \in Mode \ {mode} : accepted'[other] = accepted[other]
         /\ DOMAIN accepted' = Mode
         /\ accepted[mode] # <<>> => AtLeast(mode, StandardOf(b), StandardOf(Latest(mode)))
<1>1. proposal[m] \in Proposal /\ proposal[m] # None /\ ProposalOf(proposal[m])
  BY DEF Merge, ChainInv
<1>2. b \in Baseline /\ b.run \in Run
  BY <1>1 DEF Proposal, Baseline
<1>3. mode \in Mode /\ accepted[mode] \in Seq(Baseline) /\ DOMAIN accepted = Mode
  BY <1>2, ReportIs DEF ModeOf, ChainInv
<1>4. /\ b.id = Len(accepted[mode]) + 1
      /\ accepted' = [accepted EXCEPT ![mode] = Append(accepted[mode], b)]
  BY DEF Merge, Include, ModeOf
<1>5. accepted'[mode] = Append(accepted[mode], b)
  BY <1>3, <1>4
<1>6. /\ Append(accepted[mode], b) # <<>>
      /\ Append(accepted[mode], b)[Len(Append(accepted[mode], b))] = b
  <2>1. Len(Append(accepted[mode], b)) = Len(accepted[mode]) + 1
    BY <1>2, <1>3
  <2>2. Append(accepted[mode], b)[Len(accepted[mode]) + 1] = b
    BY <1>2, <1>3
  <2>3. Append(accepted[mode], b) # <<>>
    <3>1. Len(accepted[mode]) + 1 # 0
      BY <1>3
    <3> QED BY <2>1, <3>1
  <2> QED BY <2>1, <2>2, <2>3
<1>7. Latest(mode)' = b
  BY <1>5, <1>6 DEF Latest
<1>8. accepted[mode] # <<>> => AtLeast(mode, StandardOf(b), StandardOf(Latest(mode)))
  BY <1>1, <1>4 DEF ProposalOf
<1> QED BY <1>1, <1>2, <1>3, <1>4, <1>5, <1>6, <1>7, <1>8

LEMMA MergeStep ==
  ASSUME ChainInv, NEW m \in Maintainer, Merge(m)
  PROVE  ChainInv'
<1>1. PICK b : b = proposal[m].baseline
  OBVIOUS
<1>2. PICK mode : mode = ModeOf(b)
  OBVIOUS
<1>3. /\ proposal[m] \in Proposal /\ b \in Baseline /\ mode \in Mode
      /\ b.id = Len(accepted[mode]) + 1
      /\ accepted'[mode] = Append(accepted[mode], b)
      /\ \A other \in Mode \ {mode} : accepted'[other] = accepted[other]
      /\ DOMAIN accepted' = Mode
  BY <1>1, <1>2, MergeIs
<1>4. accepted[mode] \in Seq(Baseline) /\ Len(accepted[mode]) \in Nat
  BY <1>3 DEF ChainInv
<1>5. Append(accepted[mode], b) \in Seq(Baseline)
  BY <1>3, <1>4
<1>6. \A other \in Mode : accepted'[other] \in Seq(Baseline)
  BY <1>3, <1>5 DEF ChainInv
<1>7. accepted' \in [Mode -> Seq(Baseline)]
  <2>1. accepted' = [accepted EXCEPT ![mode] = Append(accepted[mode], b)]
    BY <1>1, <1>2 DEF Merge, Include, ModeOf
  <2> QED BY <1>5, <2>1 DEF ChainInv
<1>8. issues' \subseteq Issue
  BY <1>3 DEF Merge, Include, Proposal
<1>9. proposal' \in [Maintainer -> Proposal \cup {None}]
  BY DEF Merge, ChainInv
<1>10. ChainOf(mode)'
  <2>1. \A i \in DOMAIN accepted[mode] :
          accepted[mode][i].id = i /\ ModeOf(accepted[mode][i]) = mode
    BY <1>3 DEF ChainInv, ChainOf
  <2>2. \A i \in DOMAIN Append(accepted[mode], b) :
          \/ i \in DOMAIN accepted[mode] /\ Append(accepted[mode], b)[i] = accepted[mode][i]
          \/ i = Len(accepted[mode]) + 1 /\ Append(accepted[mode], b)[i] = b
    BY <1>3, <1>4
  <2>3. \A x : ModeOf(x)' = ModeOf(x)
    BY DEF ModeOf
  <2> QED BY <1>2, <1>3, <2>1, <2>2, <2>3 DEF ChainOf
<1>11. \A other \in Mode : ChainOf(other)'
  <2>1. \A other \in Mode \ {mode} : ChainOf(other)'
    BY <1>3 DEF ChainInv, ChainOf, ModeOf
  <2> QED BY <1>10, <2>1
<1>12. ASSUME NEW n \in Maintainer, NEW p, p = proposal'[n], p # None PROVE ProposalOf(p)'
  <2>2. p = proposal[n] /\ p \in Proposal /\ ProposalOf(p)
    BY <1>12 DEF Merge, ChainInv
  <2>3. p.baseline \in Baseline /\ p.baseline.run \in Run /\ p.baseline.id \in Nat
    BY <2>2 DEF Proposal, Baseline
  <2>4. ModeOf(p.baseline) \in Mode /\ ModeOf(p.baseline)' = ModeOf(p.baseline)
    BY <2>3, ReportIs DEF ModeOf
  <2>5. CASE ModeOf(p.baseline) = mode
    <3>1. p.baseline.id <= Len(accepted[mode]) + 1
      BY <2>2, <2>5 DEF ProposalOf
    <3>2. Len(accepted'[mode]) = Len(accepted[mode]) + 1
      BY <1>3, <1>4
    <3>3. p.baseline.id <= Len(accepted'[mode]) + 1 /\ p.baseline.id # Len(accepted'[mode]) + 1
      BY <1>4, <2>3, <3>1, <3>2
    <3> QED BY <2>2, <2>4, <2>5, <3>3 DEF ProposalOf
  <2>6. CASE ModeOf(p.baseline) # mode
    <3>1. accepted'[ModeOf(p.baseline)] = accepted[ModeOf(p.baseline)]
      BY <1>3, <2>4, <2>6
    <3> QED BY <2>2, <2>4, <3>1 DEF ProposalOf, Latest
  <2> QED BY <2>5, <2>6
<1> QED BY <1>7, <1>8, <1>9, <1>11, <1>12 DEF ChainInv

LEMMA ChainStep == ChainInv /\ [ChainNext]_chainVars => ChainInv'
<1> SUFFICES ASSUME ChainInv, [ChainNext]_chainVars PROVE ChainInv'
  OBVIOUS
<1>1. ASSUME UNCHANGED <<accepted, proposal>>, issues' \subseteq Issue PROVE ChainInv'
  BY <1>1 DEF ChainInv, ChainOf, ProposalOf, Latest
<1>2. CASE UNCHANGED chainVars
  BY <1>1, <1>2 DEF chainVars, ChainInv
<1>3. ASSUME NEW i \in Issue, Register(i) PROVE ChainInv'
  BY <1>1, <1>3 DEF Register, ChainInv
<1>4. ASSUME NEW m \in Maintainer, Withdraw(m) PROVE ChainInv'
  <2>1. /\ UNCHANGED <<accepted, issues>>
        /\ proposal' = [proposal EXCEPT ![m] = None]
    BY <1>4 DEF Withdraw
  <2>2. proposal' \in [Maintainer -> Proposal \cup {None}]
    BY <2>1 DEF ChainInv
  <2>3. ASSUME NEW n \in Maintainer, NEW p, p = proposal'[n], p # None PROVE ProposalOf(p)'
    <3>1. ProposalOf(p)
      BY <2>1, <2>3 DEF ChainInv
    <3> QED BY <2>1, <3>1 DEF ProposalOf, Latest
  <2> QED BY <2>1, <2>2, <2>3 DEF ChainInv, ChainOf
<1>5. ASSUME NEW runs, NEW sha, NEW reviews, Release(runs, sha, reviews) PROVE ChainInv'
  BY <1>1, <1>5 DEF Release, ChainInv
<1>6. \A run \in Run : About({run}) \subseteq ReviewSet
  BY DEF About
<1> QED BY <1>2, <1>3, <1>4, <1>5, <1>6, ProposeStep, MergeStep DEF ChainNext

\* The chain keeps its order, and what waits for a merge was compared with the
\* baseline it will follow.
THEOREM ChainInvariant == ChainSpec => []ChainInv
<1> QED BY ChainInitInv, ChainStep, PTL DEF ChainSpec

-----------------------------------------------------------------------------
\* The standard of every mode moves only by a merge, and then it rises.
LEMMA StandardStep ==
  ChainInv /\ [ChainNext]_chainVars => [Ratchet!Raise]_Standard
<1> SUFFICES ASSUME ChainInv, [ChainNext]_chainVars PROVE [Ratchet!Raise]_Standard
  OBVIOUS
<1>1. CASE accepted' = accepted
  <2>1. \A mode \in Mode : Latest(mode)' = Latest(mode)
    BY <1>1 DEF Latest
  <2> QED BY <2>1 DEF Standard
<1>2. ASSUME NEW m \in Maintainer, Merge(m) PROVE Ratchet!Raise
  <2>1. PICK b : b = proposal[m].baseline
    OBVIOUS
  <2>2. PICK mode : mode = ModeOf(b)
    OBVIOUS
  <2>3. /\ b \in Baseline /\ mode \in Mode
        /\ Latest(mode)' = b
        /\ \A other \in Mode \ {mode} : accepted'[other] = accepted[other]
        /\ accepted[mode] # <<>> => AtLeast(mode, StandardOf(b), StandardOf(Latest(mode)))
    BY <1>2, <2>1, <2>2, MergeIs
  <2>4. Standard'[mode] = StandardOf(b)
    BY <2>3, NoBaselineAssumption DEF Standard
  <2>5. accepted[mode] = <<>> => Standard[mode] = None
    BY <2>3, LatestIs DEF Standard
  <2>6. accepted[mode] # <<>> => Standard[mode] = StandardOf(Latest(mode))
    BY <2>3, LatestIs DEF Standard
  <2>7. \A other \in Mode \ {mode} : Standard'[other] = Standard[other]
    BY <2>3 DEF Standard, Latest
  <2>8. \A any \in Mode : Standard[any] \in Standards \cup {None}
    BY LatestIs, StandardIs DEF Standard
  <2>9. \A any \in Mode : Standard'[any] \in Standards \cup {None}
    BY <2>3, <2>4, <2>7, <2>8, StandardIs
  <2>10. Standard' \in [Mode -> Standards \cup {None}]
    BY <2>9 DEF Standard
  <2>11. \A any \in Mode :
           \/ Standard'[any] = Standard[any]
           \/ Standard[any] = None
           \/ AtLeast(any, Standard'[any], Standard[any])
    BY <2>3, <2>4, <2>5, <2>6, <2>7
  <2> QED BY <2>10, <2>11 DEF Ratchet!Raise
<1>3. accepted' = accepted \/ \E m \in Maintainer : Merge(m)
  BY DEF ChainNext, Propose, Withdraw, Register, Release, chainVars
<1> QED BY <1>1, <1>2, <1>3

\* Whatever people register, approve and merge in whatever order, the accepted
\* standard of a mode only rises (accept_baseline, evaluate_gate lines 329-350).
THEOREM StandardOnlyRises == ChainSpec => ImplementsRatchet
<1>1. ChainInit => Ratchet!RatchetInit
  BY DEF ChainInit, Ratchet!RatchetInit, Standard, Latest
<1> QED BY <1>1, StandardStep, ChainInvariant, PTL
    DEF ChainSpec, ImplementsRatchet, Ratchet!RatchetSpec

-----------------------------------------------------------------------------
\* Every set of natural numbers has a least one; what holds of 0 and of every
\* successor holds of all of them.
LEMMA LeastNumber ==
  ASSUME NEW T \in SUBSET Nat, T # {}
  PROVE  \E n \in T : \A m \in T : n <= m
<1>1. PICK n \in T : \A m \in T : ~(<<m, n>> \in OpToRel(<, Nat))
  <2>1. IsWellFoundedOn(OpToRel(<, Nat), Nat)
    BY NatLessThanWellFounded
  <2> HIDE DEF OpToRel
  <2> QED BY <2>1, WFMin
<1>2. \A m \in T : ~(m < n)
  BY <1>1 DEF OpToRel
<1> QED BY <1>2

LEMMA Counting ==
  ASSUME NEW T \in SUBSET Nat, 0 \in T, \A n \in T : n + 1 \in T
  PROVE  T = Nat
<1> SUFFICES ASSUME Nat \ T # {} PROVE FALSE
  OBVIOUS
<1>1. PICK n \in Nat \ T : \A m \in Nat \ T : n <= m
  BY LeastNumber
<1>2. n - 1 \in Nat /\ n - 1 \in T
  BY <1>1
<1> QED BY <1>1, <1>2

\* The element a fold over a set takes first.
First(s) == CHOOSE x \in s : TRUE
LEMMA SmallerIs ==
  ASSUME NEW S, IsFiniteSet(S), NEW s \in SUBSET S
  PROVE  /\ IsFiniteSet(s) /\ Cardinality(s) \in Nat /\ Cardinality(s) <= Cardinality(S)
         /\ Cardinality(s) = 0 <=> s = {}
         /\ s # {} => /\ First(s) \in s
                      /\ Cardinality(s \ {First(s)}) = Cardinality(s) - 1
<1>1. IsFiniteSet(s) /\ Cardinality(s) \in Nat /\ Cardinality(s) <= Cardinality(S)
  BY FS_Subset, FS_CardinalityType
<1> QED BY <1>1, FS_EmptySet, FS_RemoveElement DEF First

\* The function a fold is defined by exists: it gives the value of every subset.
Taking(S, V) == [S \X V -> V]
Unfolds(g, S, V, base, G) ==
  /\ g \in [SUBSET S -> V]
  /\ \A s \in SUBSET S :
       g[s] = IF s = {} THEN base ELSE G[<<First(s), g[s \ {First(s)}]>>]
LEMMA FoldOf ==
  ASSUME NEW S, IsFiniteSet(S), NEW V, NEW base, base \in V, NEW G, G \in Taking(S, V)
  PROVE  \E g : Unfolds(g, S, V, base, G)
<1> DEFINE Up(g, s) == g[s] = IF s = {} THEN base ELSE G[<<First(s), g[s \ {First(s)}]>>]
           T == {n \in Nat : \E g \in [SUBSET S -> V] :
                   \A s \in SUBSET S : Cardinality(s) <= n => Up(g, s)}
<1>1. 0 \in T
  <2>1. [s \in SUBSET S |-> base] \in [SUBSET S -> V]
    OBVIOUS
  <2>2. ASSUME NEW s \in SUBSET S, Cardinality(s) <= 0 PROVE s = {}
    <3>1. Cardinality(s) \in Nat /\ (Cardinality(s) = 0 => s = {})
      BY SmallerIs
    <3> QED BY <2>2, <3>1
  <2> QED BY <2>1, <2>2
<1>2. ASSUME NEW n \in T PROVE n + 1 \in T
  <2>1. PICK g \in [SUBSET S -> V] : \A s \in SUBSET S : Cardinality(s) <= n => Up(g, s)
    OBVIOUS
  <2> DEFINE h == [s \in SUBSET S |-> IF s = {} THEN base ELSE G[<<First(s), g[s \ {First(s)}]>>]]
  <2>2. h \in [SUBSET S -> V]
    BY SmallerIs DEF Taking
  <2>3. ASSUME NEW s \in SUBSET S, Cardinality(s) <= n + 1 PROVE Up(h, s)
    <3>1. CASE s = {}
      BY <3>1
    <3>2. CASE s # {}
      <4>1. s \ {First(s)} \in SUBSET S /\ Cardinality(s \ {First(s)}) <= n
        BY <2>3, <3>2, SmallerIs
      <4>2. h[s \ {First(s)}] = g[s \ {First(s)}]
        BY <2>1, <4>1
      <4> QED BY <3>2, <4>2
    <3> QED BY <3>1, <3>2
  <2> HIDE DEF h, Up
  <2> QED BY <2>2, <2>3
<1>3. T = Nat
  <2> HIDE DEF T
  <2>1. T \subseteq Nat
    BY DEF T
  <2> QED BY <1>1, <1>2, <2>1, Counting
<1>4. Cardinality(S) \in T
  BY <1>3, FS_CardinalityType
<1> QED BY <1>4, SmallerIs DEF Unfolds

\* What holds of the empty set, and of a set when it holds of the set without
\* the element taken first, holds of a finite set.
LEMMA SubsetInduction ==
  ASSUME NEW S, IsFiniteSet(S), NEW P \in SUBSET (SUBSET S), {} \in P,
         \A s \in SUBSET S : s # {} /\ s \ {First(s)} \in P => s \in P
  PROVE  S \in P
<1> DEFINE T == {n \in Nat : \A s \in SUBSET S : Cardinality(s) = n => s \in P}
<1>1. 0 \in T
  BY SmallerIs
<1>2. ASSUME NEW n \in T PROVE n + 1 \in T
  <2>1. ASSUME NEW s \in SUBSET S, Cardinality(s) = n + 1 PROVE s \in P
    <3>1. s # {} /\ s \ {First(s)} \in SUBSET S /\ Cardinality(s \ {First(s)}) = n
      BY <2>1, SmallerIs
    <3> QED BY <3>1
  <2> QED BY <2>1
<1>3. T = Nat
  <2> HIDE DEF T
  <2>1. T \subseteq Nat
    BY DEF T
  <2> QED BY <1>1, <1>2, <2>1, Counting
<1> QED BY <1>3, FS_CardinalityType

-----------------------------------------------------------------------------
\* A person of its own for every role of a set, out of those who judged.
JointlyFor(roles, judgments, used) ==
  \E who \in [roles -> Reviewer] :
    /\ \A a, b \in roles : who[a] = who[b] => a = b
    /\ \A role \in roles :
         /\ who[role] \in used
         /\ \E review \in judgments : review.role = role /\ review.reviewer = who[role]

\* The assignments of effective_assertions are what their name says: when one is
\* left after the last role, different people fill all of them.
LEMMA AssignmentsAreJoint ==
  ASSUME NEW judgments \in SUBSET ReviewRecord, Assignments(judgments) # {}
  PROVE  Jointly(judgments)
<1> DEFINE V == SUBSET SUBSET Reviewer
           Filled(role, sets) == UNION {Assign(judgments, role, used) : used \in sets}
           G == [x \in RequiredRole \X V |-> Filled(x[1], x[2])]
           Fold(g) == [s \in SUBSET RequiredRole |->
                         IF s = {} THEN {{}} ELSE Filled(First(s), g[s \ {First(s)}])]
<1>1. \A role, used : Assign(judgments, role, used) =
        {used \cup {person} : person \in
           {x.reviewer : x \in {y \in judgments : y.role = role}} \ used}
  BY DEF Assign
<1>2. \A role : \A used \in SUBSET Reviewer : Assign(judgments, role, used) \in V
  BY <1>1 DEF ReviewRecord
<1>3. \A role : \A sets \in V : Filled(role, sets) \in V
  BY <1>2
<1>4. IsFiniteSet(RequiredRole)
  BY GateAssumption
<1>5. PICK g \in [SUBSET RequiredRole -> V] : \A s \in SUBSET RequiredRole :
        g[s] = IF s = {} THEN {{}} ELSE G[<<First(s), g[s \ {First(s)}]>>]
  <2>1. {{}} \in V
    OBVIOUS
  <2>2. G \in Taking(RequiredRole, V)
    <3>1. \A x \in RequiredRole \X V : x[2] \in V
      OBVIOUS
    <3> HIDE DEF V, Filled
    <3> QED BY <1>3, <3>1 DEF Taking
  <2> HIDE DEF V, G
  <2>3. \E g : Unfolds(g, RequiredRole, V, {{}}, G)
    BY <1>4, <2>1, <2>2, FoldOf
  <2> QED BY <2>3 DEF Unfolds
<1>6. g = Fold(g)
  <2>1. \A s \in SUBSET RequiredRole : s # {} =>
          First(s) \in RequiredRole /\ g[s \ {First(s)}] \in V
    BY <1>4, SmallerIs
  <2> HIDE DEF Filled, V
  <2> QED BY <1>5, <2>1
<1>7. PICK sets : sets = Fold(sets) /\ Assignments(judgments) = sets[RequiredRole]
  <2>1. Assignments(judgments) = (CHOOSE sets : sets = Fold(sets))[RequiredRole]
    BY DEF Assignments, FoldSet, MapThenFoldSet, First
  <2> HIDE DEF Fold
  <2> QED BY <1>6, <2>1
<1> DEFINE P == {s \in SUBSET RequiredRole : \A used \in sets[s] : JointlyFor(s, judgments, used)}
<1>8. {} \in P
  <2>1. [role \in {} |-> role] \in [{} -> Reviewer]
    OBVIOUS
  <2> QED BY <2>1 DEF JointlyFor
<1>9. ASSUME NEW s \in SUBSET RequiredRole, s # {}, s \ {First(s)} \in P
      PROVE  s \in P
  <2>1. First(s) \in s
    BY <1>4, <1>9, SmallerIs
  <2>2. PICK role \in s : role = First(s)
    BY <2>1
  <2>3. ASSUME NEW used \in sets[s] PROVE JointlyFor(s, judgments, used)
    <3>0. sets[s] = Filled(role, sets[s \ {role}])
      <4> HIDE DEF Filled
      <4> QED BY <1>7, <1>9, <2>2
    <3>1. PICK before \in sets[s \ {role}] : used \in Assign(judgments, role, before)
      BY <2>3, <3>0
    <3>2. PICK review \in judgments : /\ review.role = role /\ review.reviewer \notin before
                                      /\ used = before \cup {review.reviewer}
      BY <1>1, <3>1
    <3>3. PICK who \in [s \ {role} -> Reviewer] :
            /\ \A a, b \in s \ {role} : who[a] = who[b] => a = b
            /\ \A other \in s \ {role} :
                 /\ who[other] \in before
                 /\ \E r \in judgments : r.role = other /\ r.reviewer = who[other]
      <4>1. JointlyFor(s \ {role}, judgments, before)
        BY <1>9, <2>2, <3>1
      <4> QED BY <4>1 DEF JointlyFor
    <3>4. review.reviewer \in Reviewer
      BY DEF ReviewRecord
    <3> DEFINE all == [a \in s |-> IF a = role THEN review.reviewer ELSE who[a]]
    <3>5. all \in [s -> Reviewer]
      BY <3>3, <3>4
    <3>6. \A a, b \in s : all[a] = all[b] => a = b
      BY <3>2, <3>3
    <3>7. \A a \in s : /\ all[a] \in used
                       /\ \E r \in judgments : r.role = a /\ r.reviewer = all[a]
      BY <3>2, <3>3
    <3> HIDE DEF all
    <3> QED BY <3>5, <3>6, <3>7 DEF JointlyFor
  <2> QED BY <2>3
<1>10. RequiredRole \in P
  <2>1. P \in SUBSET SUBSET RequiredRole
    OBVIOUS
  <2> HIDE DEF P
  <2> QED BY <1>4, <1>8, <1>9, <2>1, SubsetInduction
<1>11. PICK used : used \in sets[RequiredRole]
  BY <1>7
<1>12. JointlyFor(RequiredRole, judgments, used)
  BY <1>10, <1>11
<1> QED BY <1>12 DEF JointlyFor, Jointly

\* A mandatory assertion of a run that a release gate lets through passed by
\* itself, or different people for all required roles judged that it does.
LEMMA JudgedPass ==
  ASSUME NEW run \in Run, NEW reviews \in ReviewSet, NEW k \in Key,
         Reviewable(run, reviews),
         report[run].rows[k].mandatory,
         Effective(run, reviews)[k].execution = "completed",
         Effective(run, reviews)[k].behavior # "needs_review",
         ~(/\ Effective(run, reviews)[k].mandatory
           /\ Effective(run, reviews)[k].behavior = "fail")
  PROVE  \/ report[run].rows[k].behavior = "pass"
         \/ /\ report[run].rows[k].behavior = "needs_review"
            /\ {review.verdict : review \in Active(run, reviews, k)} = {"pass"}
            /\ Jointly(Active(run, reviews, k))
<1>1. PICK x : x = report[run].rows[k]
  OBVIOUS
<1>2. PICK judgments : judgments = Active(run, reviews, k)
  OBVIOUS
<1>3. PICK y : y = Judged(x, judgments) /\ y = Effective(run, reviews)[k]
  BY <1>1, <1>2, EffectiveIs
<1>4. x \in Row /\ x.mandatory
  BY <1>1, ReportIs
<1>5. x = [execution |-> x.execution, behavior |-> x.behavior, manual |-> x.manual,
           mandatory |-> x.mandatory, failure |-> x.failure]
  BY <1>4 DEF Row
<1>6. /\ y.execution = "completed" /\ y.behavior # "needs_review"
      /\ ~(y.mandatory /\ y.behavior = "fail")
  BY <1>3
<1>7. CASE judgments = {}
  <2>1. y = x
    BY <1>3, <1>7 DEF Judged
  <2>2. x.behavior \in Behavior
    BY <1>4, <1>6, <2>1 DEF Row
  <2> QED BY <1>1, <1>4, <1>6, <2>1, <2>2 DEF Behavior
<1>8. CASE judgments # {}
  <2>1. Cardinality(Verdicts(judgments)) = 1 /\ Assignments(judgments) # {}
    <3> SUFFICES ASSUME Cardinality(Verdicts(judgments)) # 1 \/ Assignments(judgments) = {}
                 PROVE  y.behavior = "needs_review"
      BY <1>6
    <3> QED BY <1>3, <1>5, <1>8 DEF Judged
  <2> DEFINE chosen == CHOOSE v \in Verdicts(judgments) : TRUE
             type == IF chosen = "fail" THEN (CHOOSE review \in judgments : TRUE).failure
                     ELSE x.failure
  <2> HIDE DEF chosen, type
  <2>2. PICK verdict, failure : verdict = chosen /\ failure = type
    OBVIOUS
  <2> USE DEF chosen, type
  <2>3. y = [x EXCEPT !.behavior = verdict, !.failure = failure]
    BY <1>3, <1>8, <2>1, <2>2 DEF Judged
  <2>4. y.behavior = verdict /\ y.mandatory = x.mandatory
    BY <1>5, <2>3
  <2>5. verdict \in Verdicts(judgments)
    BY <1>8, <2>2 DEF Verdicts
  <2>6. Verdicts(judgments) \subseteq Behavior
    BY <1>2, ActiveIs DEF Verdicts
  <2>7. verdict = "pass"
    BY <1>4, <1>6, <2>4, <2>5, <2>6 DEF Behavior
  <2>8. Verdicts(judgments) = {"pass"}
    <3>1. IsFiniteSet(Verdicts(judgments))
      <4>1. IsFiniteSet({"pass"}) /\ IsFiniteSet({"fail"}) /\ IsFiniteSet({"needs_review"})
        BY FS_Singleton
      <4>2. Behavior = ({"pass"} \cup {"fail"}) \cup {"needs_review"}
        BY DEF Behavior
      <4>3. IsFiniteSet({"pass"} \cup {"fail"})
        BY <4>1, FS_Union
      <4>4. IsFiniteSet(Behavior)
        BY <4>1, <4>2, <4>3, FS_Union
      <4> QED BY <2>6, <4>4, FS_Subset
    <3>2. \E v : Verdicts(judgments) = {v}
      BY <2>1, <3>1, FS_Singleton
    <3> QED BY <2>5, <2>7, <3>2
  <2>9. Judgeable(x)
    <3>1. PICK review : review \in judgments
      BY <1>8
    <3>2. review \in reviews /\ review.run = run /\ review.key = k
      BY <1>2, <3>1, ActiveIs
    <3>3. ReviewsApply(run, reviews)
      BY DEF Reviewable, reviewable
    <3> QED BY <1>1, <3>2, <3>3 DEF ReviewsApply, MayJudge
  <2>10. judgments \in SUBSET ReviewRecord
    BY <1>2, ActiveIs
  <2>11. Jointly(judgments)
    BY <2>1, <2>10, AssignmentsAreJoint
  <2> QED BY <1>1, <1>2, <2>8, <2>9, <2>11 DEF Judgeable, Verdicts
<1> QED BY <1>7, <1>8

\* The release gate lets nothing else through.
LEMMA ReleaseStep == [ChainNext]_chainVars => (ReleaseIsBacked => ReleaseIsBacked')
<1>1. ASSUME NEW runs \in ReportSets, NEW reviews \in About(runs), NEW sha,
             Release(runs, sha, reviews)
      PROVE  ReleaseIsBacked'
  <2>1. runs \subseteq Run /\ reviews \in ReviewSet
    BY <1>1 DEF ReportSets, About
  <2>2. released' = [runs |-> runs, reviews |-> reviews]
    BY <1>1 DEF Release
  <2>3. GateCodes("release", runs, sha, Run, Pointer, Baselines, issues, reviews) = {}
    BY <1>1 DEF Release, Passes
  <2>4. {report[run].mode : run \in runs} = Mode
    BY <2>3 DEF GateCodes, When
  <2>5. ASSUME NEW run \in runs
        PROVE  /\ report[run].clean
               /\ Reviewable(run, reviews)
               /\ ~Incomplete(Effective(run, reviews))
               /\ ~Undecided(Effective(run, reviews))
               /\ ~\E k \in Key : /\ Effective(run, reviews)[k].mandatory
                                  /\ Effective(run, reviews)[k].behavior = "fail"
    <3>1. ModeCodes("release", run, sha, Run, Pointer[report[run].mode],
                    Baselines[report[run].mode], issues, reviews) = {}
      BY <2>3 DEF GateCodes
    <3>2. Reviewable(run, reviews)
      BY <3>1 DEF ModeCodes
    <3>3. PICK rest : UNION {
            When(3, "release" = "release" /\ (~report[run].clean \/ run \notin Run)),
            When(2, Incomplete(Effective(run, reviews))),
            UNION {
              When(1, Undecided(Effective(run, reviews))),
              When(1, "release" = "release" /\ \E k \in Key :
                        /\ Effective(run, reviews)[k].mandatory
                        /\ Effective(run, reviews)[k].behavior = "fail"),
              rest}} = {}
      BY <3>1, <3>2, Zenon DEF ModeCodes
    <3> QED BY <3>2, <3>3, WhenEmpty
  <2>6. ASSUME NEW run \in runs, NEW k \in Key, report[run].rows[k].mandatory
        PROVE  \/ report[run].rows[k].behavior = "pass"
               \/ /\ report[run].rows[k].behavior = "needs_review"
                  /\ {review.verdict : review \in Active(run, reviews, k)} = {"pass"}
                  /\ Jointly(Active(run, reviews, k))
    <3>1. run \in Run
      BY <2>1
    <3> QED BY <2>1, <2>5, <2>6, <3>1, JudgedPass DEF Incomplete, Undecided
  <2>7. ASSUME NEW mode \in Mode PROVE \E run \in runs : report[run].mode = mode
    BY <2>4
  <2> QED BY <2>2, <2>5, <2>6, <2>7 DEF ReleaseIsBacked
<1>2. ASSUME released' \in {released, None}, ReleaseIsBacked PROVE ReleaseIsBacked'
  BY <1>2 DEF ReleaseIsBacked
<1>3. ASSUME [ChainNext]_chainVars
      PROVE  \/ released' \in {released, None}
             \/ \E runs \in ReportSets : \E reviews \in About(runs) : \E sha :
                  Release(runs, sha, reviews)
  BY <1>3 DEF ChainNext, Propose, Merge, Withdraw, Register, chainVars
<1> QED BY <1>1, <1>2, <1>3

\* Nothing is released without a report of every mode in which every mandatory
\* assertion passed, by itself or as different people for all required roles
\* judged (evaluate_gate, effective_assertions).
THEOREM ReleasesAreBacked == ChainSpec => []ReleaseIsBacked
<1>1. ChainInit => ReleaseIsBacked
  BY DEF ChainInit, ReleaseIsBacked
<1> QED BY <1>1, ReleaseStep, PTL DEF ChainSpec
=============================================================================
