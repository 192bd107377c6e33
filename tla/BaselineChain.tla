---------------------------- MODULE BaselineChain ----------------------------
(***************************************************************************)
(* accept_baseline and the accepted target branch: maintainers prepare     *)
(* acceptances from what they fetched, at their own pace, and Git changes  *)
(* merge them.  Issue lists on the branch are edited by people, and an     *)
(* acceptance brings its own snapshot of them.                             *)
(***************************************************************************)
EXTENDS QualityGate

CONSTANTS
  Maintainer,   \* people preparing an acceptance
  Issue,        \* defects that may be registered as open
  MaxAccepted   \* bound: accepted baselines of a mode

ASSUME ChainAssumption ==
  /\ Issue \subseteq [mode : Mode, key : Key, failure : Failure]
  /\ MaxAccepted \in Nat

Baseline == [id : Nat, run : Run, reviews : ReviewSet]
Proposal == [baseline : Baseline, issues : SUBSET Issue]
Decision == [runs : SUBSET Run, reviews : ReviewSet]

ASSUME NoBaselineAssumption == None \notin Baseline \cup Proposal \cup Decision

VARIABLES
  accepted,  \* the accepted baselines of each mode, the latest last
  issues,    \* the open issues on the branch
  proposal,  \* what accept_baseline returned to each maintainer
  released   \* the evidence of the release gate that passed just now, if one did

chainVars == <<accepted, issues, proposal, released>>

Latest(mode) ==
  IF accepted[mode] = <<>> THEN None ELSE accepted[mode][Len(accepted[mode])]
Pointer == [mode \in Mode |-> Len(accepted[mode])]
Baselines == [mode \in Mode |-> Latest(mode)]

ChainInit ==
  /\ accepted = [mode \in Mode |-> <<>>]
  /\ issues = {}
  /\ proposal = [m \in Maintainer |-> None]
  /\ released = None

-----------------------------------------------------------------------------
\* accept_baseline.  The issues handed over are the branch's, unless it is the
\* first acceptance or none are; whatever passes now is resolved.
Resolved(known, run, rows) ==
  {i \in known : i.mode = report[run].mode /\ rows[i.key].behavior = "pass"}
Failing(rows) == {k \in Key : rows[k].behavior = "fail"}

AgainstPredecessor(run, known, reviews) ==
  Latest(report[run].mode) # None =>
    /\ known # {} => known = issues
    /\ Passes(GateCodes("regression", {run}, report[run].commit, {}, Pointer, Baselines,
                        known, reviews))

Propose(m, run, known, reviews) ==
  LET rows == Effective(run, reviews) IN
  /\ proposal[m] = None
  /\ Len(accepted[report[run].mode]) < MaxAccepted
  /\ report[run].clean
  /\ Passes(GateCodes("inventory", {run}, report[run].commit, {}, Pointer, Baselines, {}, reviews))
  /\ ~Undecided(rows)
  /\ \A k \in Failing(rows) : OpenIssue(known, report[run].mode, k, rows[k])
  /\ AgainstPredecessor(run, known, reviews)
  /\ proposal' = [proposal EXCEPT ![m] =
       [baseline |-> [id |-> Len(accepted[report[run].mode]) + 1, run |-> run, reviews |-> reviews],
        issues |-> known \ Resolved(known, run, rows)]]
  /\ UNCHANGED <<accepted, issues>>
  /\ released' = None

\* The reviewed Git change: the index entry of the mode, the pointer and the
\* issue snapshot.  Git refuses it when the entry was changed meanwhile.
\* (Mutant: it is merged whatever the branch holds.)
Include(p) ==
  LET b == p.baseline IN
  /\ accepted' = [accepted EXCEPT ![report[b.run].mode] = Append(@, b)]
  /\ issues' = p.issues
MergeUnread(m) ==
  /\ proposal[m] # None
  /\ Include(proposal[m])
  /\ proposal' = [proposal EXCEPT ![m] = None]
  /\ released' = None
Merge(m) ==
  /\ proposal[m] # None
  /\ LET b == proposal[m].baseline IN b.id = Len(accepted[report[b.run].mode]) + 1
  /\ Include(proposal[m])
  /\ proposal' = [proposal EXCEPT ![m] = None]
  /\ released' = None

Withdraw(m) ==
  /\ proposal[m] # None
  /\ proposal' = [proposal EXCEPT ![m] = None]
  /\ UNCHANGED <<accepted, issues>>
  /\ released' = None

\* People register an issue, or open a resolved one again.
Register(i) ==
  /\ i \notin issues
  /\ issues' = issues \cup {i}
  /\ UNCHANGED <<accepted, proposal>>
  /\ released' = None

\* The release gate on a candidate's reports, all downloaded from a verified CI
\* run.
Release(runs, sha, reviews) ==
  /\ Passes(GateCodes("release", runs, sha, Run, Pointer, Baselines, issues, reviews))
  /\ released' = [runs |-> runs, reviews |-> reviews]
  /\ UNCHANGED <<accepted, issues, proposal>>

\* The review sets handed over are about the runs at hand.
About(runs) == {reviews \in ReviewSet : \A review \in reviews : review.run \in runs}
\* A second report of a mode is refused before anything else.
ReportSets ==
  {runs \in {{a, b} : a, b \in Run} :
     \A a, b \in runs : report[a].mode = report[b].mode => a = b}

ChainNext ==
  \/ \E m \in Maintainer :
       \/ \E run \in Run, known \in {issues, {}} :
            \E reviews \in About({run}) : Propose(m, run, known, reviews)
       \/ Merge(m)
       \/ Withdraw(m)
  \/ \E i \in Issue : Register(i)
  \/ \E runs \in ReportSets :
       \E reviews \in About(runs), sha \in {report[run].commit : run \in runs} :
         Release(runs, sha, reviews)

ChainSpec == ChainInit /\ [][ChainNext]_chainVars

-----------------------------------------------------------------------------
\* The standard an accepted baseline sets: what fails and how, and the metrics.
StandardOf(b) ==
  LET rows == Effective(b.run, b.reviews) IN
  [failing |-> {<<k, rows[k].failure>> : k \in Failing(rows)}, metric |-> report[b.run].metric]
AtLeast(mode, new, old) ==
  /\ new.failing \subseteq old.failing
  /\ mode = "rule_only" => \A q \in Query : new.metric[q] >= old.metric[q]
Standards == [failing : SUBSET (Key \X Failure), metric : [Query -> Nat]]
Standard ==
  [mode \in Mode |-> IF Latest(mode) = None THEN None ELSE StandardOf(Latest(mode))]

\* Whatever people register, approve and merge in whatever order, the accepted
\* standard of a mode only rises: an assertion that passed in the latest accepted
\* version blocks when it fails again, though the first version failed it and
\* its issue is open again (evaluate_gate lines 329-350; p0-01-quality-
\* operations.md section 4.2).
Ratchet == INSTANCE QualityRatchet WITH NoStandard <- None, standard <- Standard
ImplementsRatchet == Ratchet!RatchetSpec

\* A person for each required role, all different.
Jointly(judgments) ==
  \E who \in [RequiredRole -> Reviewer] :
    /\ \A a, b \in RequiredRole : who[a] = who[b] => a = b
    /\ \A role \in RequiredRole :
         \E review \in judgments : review.role = role /\ review.reviewer = who[role]

\* A release that passes has a report of every mode in which every mandatory
\* assertion passed: by itself, or judged so unanimously by different people
\* for all required roles (evaluate_gate, effective_assertions).
ReleaseIsBacked ==
  released # None =>
    \A mode \in Mode : \E run \in released.runs :
      /\ report[run].mode = mode /\ report[run].clean
      /\ \A k \in Key : report[run].rows[k].mandatory =>
           LET judgments == Active(run, released.reviews, k) IN
           \/ report[run].rows[k].behavior = "pass"
           \/ /\ report[run].rows[k].behavior = "needs_review"
              /\ {review.verdict : review \in judgments} = {"pass"}
              /\ Jointly(judgments)
=============================================================================
