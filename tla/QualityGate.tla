----------------------------- MODULE QualityGate -----------------------------
(***************************************************************************)
(* What counts as accepted quality: human reviews of a run, the gates, and *)
(* the chain of accepted baselines that every candidate is compared with.  *)
(* Sealed runs never change (EvidenceStore), so that a run is its content  *)
(* and a hash of it is the run itself.  A review set is the set of its     *)
(* reviews.  The accepted target branch is kept by people through Git.     *)
(***************************************************************************)
EXTENDS Integers, Sequences, FiniteSets, FiniteSetsExt

CONSTANTS
  Mode,        \* execution modes; "rule_only" also has subreports
  Key,         \* assertions of a mode, over cases, probes and trials
  Failure,     \* failure types
  Query,       \* evaluated queries and metrics of the retrieval subreport
  Reviewer, Role,
  RequiredRole,  \* review_required_roles
  Sealed,      \* the sealed runs: what the files of each say
  Review,      \* reviews that may be written
  ReviewSet,   \* the review sets that were approved
  None

Execution == {"completed", "error", "not_run"}
Behavior == {"pass", "fail", "needs_review"}
\* The combinations _validate_rows admits.
Row == {x \in [execution : Execution, behavior : Behavior \cup {None}, manual : BOOLEAN,
               mandatory : BOOLEAN, failure : Failure \cup {None}] :
          /\ (x.execution = "completed") = (x.behavior # None)
          /\ x.behavior = "needs_review" => x.manual
          /\ (x.behavior = "fail") = (x.failure # None)}
Report == [mode : Mode, commit : Nat, prints : Nat, clean : BOOLEAN,
           rows : [Key -> Row], metric : [Query -> Nat],
           contract : {"pass", "fail", "invalid", "missing"}]
report == Sealed
Run == DOMAIN Sealed
ReviewRecord == [id : Nat, run : Run, key : Key, reviewer : Reviewer, role : Role,
                 verdict : Behavior, failure : Failure, supersedes : Nat]

ASSUME GateAssumption ==
  /\ Sealed \in [Run -> Report]
  /\ Review \subseteq ReviewRecord
  /\ ReviewSet \subseteq SUBSET Review
  /\ {} \in ReviewSet
  /\ RequiredRole \subseteq Role /\ IsFiniteSet(RequiredRole)
  /\ None \notin Mode \cup Behavior \cup Failure

-----------------------------------------------------------------------------
\* effective_assertions.

\* A review set may be applied to a run: unique ids; a review of this run is of
\* an assertion a person has to judge; a correction names an earlier review of
\* the same assertion and run, and corrections do not go round in a circle.
Judgeable(x) == x.manual /\ x.execution = "completed" /\ x.behavior = "needs_review"
MayJudge(run, review) == Judgeable(report[run].rows[review.key])
Corrects(review, earlier) ==
  /\ review.supersedes = earlier.id
  /\ review # earlier
  /\ earlier.run = review.run
  /\ earlier.key = review.key
Circular(set) == \A review \in set : \E other \in set : other.supersedes = review.id
ReviewsApply(run, reviews) ==
  /\ \A a, b \in reviews : a.id = b.id => a = b
  /\ \A review \in reviews : review.run = run => MayJudge(run, review)
  /\ \A review \in reviews : review.supersedes # 0 =>
       \E earlier \in reviews : Corrects(review, earlier)
  /\ \A set \in SUBSET reviews : set # {} => ~Circular(set)

Active(run, reviews, k) ==
  {review \in reviews :
     /\ review.run = run
     /\ review.key = k
     /\ \A later \in reviews : later.supersedes # review.id}

\* Every required role is matched to a person of its own, role by role: the
\* sets of people that may have been used so far.
\* (Mutant: a person may fill two roles.)
AssignTwice(judgments, role, used) ==
  {used \cup {person} : person \in {x.reviewer : x \in {y \in judgments : y.role = role}}}
Assign(judgments, role, used) ==
  {used \cup {person} : person \in {x.reviewer : x \in {y \in judgments : y.role = role}} \ used}
Assignments(judgments) ==
  FoldSet(LAMBDA role, sets : UNION {Assign(judgments, role, used) : used \in sets},
          {{}}, RequiredRole)

Verdicts(judgments) == {review.verdict : review \in judgments}
Unambiguous(judgments) ==
  Verdicts(judgments) = {"fail"} /\ Assignments(judgments) # {} =>
    Cardinality({review.failure : review \in judgments}) = 1
Judged(x, judgments) ==
  IF judgments = {} THEN x
  ELSE IF Cardinality(Verdicts(judgments)) # 1 \/ Assignments(judgments) = {}
  THEN [x EXCEPT !.behavior = "needs_review"]
  ELSE LET verdict == CHOOSE v \in Verdicts(judgments) : TRUE IN
       [x EXCEPT !.behavior = verdict,
                 !.failure = IF verdict = "fail"
                             THEN (CHOOSE review \in judgments : TRUE).failure ELSE @]
effective ==
  [run \in Run |-> [reviews \in ReviewSet |->
     [k \in Key |-> Judged(report[run].rows[k], Active(run, reviews, k))]]]
Effective(run, reviews) == effective[run][reviews]
reviewable ==
  [run \in Run |-> {reviews \in ReviewSet :
     /\ ReviewsApply(run, reviews)
     /\ \A k \in Key : Unambiguous(Active(run, reviews, k))}]
Reviewable(run, reviews) == reviews \in reviewable[run]

-----------------------------------------------------------------------------
\* evaluate_gate: the exit codes of the reasons it records.  An accepted
\* baseline is [id, run, reviews, previous].
When(code, condition) == IF condition THEN {code} ELSE {}
Incomplete(rows) == \E k \in Key : rows[k].execution # "completed"
Undecided(rows) == \E k \in Key : rows[k].behavior = "needs_review"
OpenIssue(issues, mode, k, x) == [mode |-> mode, key |-> k, failure |-> x.failure] \in issues

\* A candidate's failure is known only if the baseline fails the same way and
\* an open issue says so.
\* (Mutant: an open issue is enough.)
KnownFailureByIssue(issues, mode, k, old, new) == OpenIssue(issues, mode, k, new)
KnownFailure(issues, mode, k, old, new) ==
  /\ old.behavior = "fail"
  /\ old.failure = new.failure
  /\ OpenIssue(issues, mode, k, new)
Regressed(issues, mode, old, new) ==
  \E k \in Key : new[k].behavior = "fail" /\ ~KnownFailure(issues, mode, k, old[k], new[k])

\* _check_subreports: the data contract, and each retrieval metric (higher is
\* better) against the baseline's.
Worse(old, new) == \E q \in Query : report[new].metric[q] < report[old].metric[q]
SubreportCodes(old, new) ==
  IF report[new].contract \in {"missing", "invalid"}
  THEN {IF report[new].contract = "missing" THEN 2 ELSE 3}
  ELSE When(1, report[new].contract = "fail") \cup When(1, Worse(old, new))

\* The comparison with the latest accepted baseline.
BaselineCodes(kind, run, rows, latest, baseline, issues) ==
  IF \/ baseline = None \/ latest # baseline.id
     \/ report[baseline.run].prints # report[run].prints
  THEN {3}
  ELSE LET old == Effective(baseline.run, baseline.reviews) IN
    IF ~Reviewable(baseline.run, baseline.reviews) \/ Incomplete(old) \/ Undecided(old)
    THEN {3}
    ELSE When(1, kind = "regression" /\ Regressed(issues, report[run].mode, old, rows))
         \cup (IF report[run].mode = "rule_only" THEN SubreportCodes(baseline.run, run) ELSE {})

\* One report against the candidate's commit, the reviews and the baseline.
ModeCodes(kind, run, sha, verified, latest, baseline, issues, reviews) ==
  IF report[run].commit # sha \/ ~Reviewable(run, reviews) THEN {3}
  ELSE LET rows == Effective(run, reviews) IN
    UNION {
      When(3, kind = "release" /\ (~report[run].clean \/ run \notin verified)),
      When(2, Incomplete(rows)),
      IF kind = "inventory"
      THEN IF report[run].mode = "rule_only" THEN SubreportCodes(run, run) \ {1} ELSE {}
      ELSE UNION {
        When(1, Undecided(rows)),
        When(1, kind = "release" /\ \E k \in Key :
                  rows[k].mandatory /\ rows[k].behavior = "fail"),
        IF kind = "regression" \/ report[run].mode = "rule_only"
        THEN BaselineCodes(kind, run, rows, latest, baseline, issues) ELSE {}}}

\* All reports of a candidate; a release needs every mode, on the same protocol,
\* samples, knowledge and environment.  latest and baseline are by mode.
GateCodes(kind, runs, sha, verified, latest, baseline, issues, reviews) ==
  UNION {
    When(2, runs = {}),
    When(3, \E a, b \in runs : a # b /\ report[a].mode = report[b].mode),
    When(3, kind = "release" /\ \E a, b \in runs : report[a].prints # report[b].prints),
    When(2, kind = "release" /\ {report[run].mode : run \in runs} # Mode),
    UNION {ModeCodes(kind, run, sha, verified, latest[report[run].mode], baseline[report[run].mode],
                     issues, reviews) : run \in runs}}
Passes(codes) == codes = {}
=============================================================================
