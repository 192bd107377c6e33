----------------------------- MODULE QualityRun -----------------------------
(***************************************************************************)
(* One `quality_cli run`: the probes of the suite in their order, the      *)
(* budget of model requests they share, the observations, their grading    *)
(* and the sealing of the output directory.  Several processes may be      *)
(* started with the same --out; each may be killed at any step.            *)
(*                                                                         *)
(* Abstracted: what a probe observes, beyond what became of its model      *)
(* requests; verdicts on behaviour; the texts in the files.  A file holds  *)
(* the result it was written from, and a hash is compared as that result.  *)
(***************************************************************************)
EXTENDS Integers, Sequences, FiniteSets

CONSTANTS
  Runner,       \* processes started with the same --out
  Suite,        \* the probes of all cases and trials, in order
  MaxRequests,  \* --max-requests
  MaxEdits,     \* bound: edits of the evaluated files
  Broken,       \* the sets of assertions whose checks may raise
  None

Kind == {"plain", "direct", "api"}  \* without a model client; one model call;
                                    \* a conversation over the HTTP API
Probe == [kind : Kind, turns : Nat, checkpoints : SUBSET {"result", "persisted"},
          graded : BOOLEAN]         \* graded: has a model_stage assertion

\* load_cases and the adapters: every probe checks something; every model_stage
\* assertion is of the checkpoint "result", and a probe has the checkpoints of its
\* assertions; a run ends with a probe that cannot hide a refused request.  The shipped suites end with G06
\* (mocked_model) and G05 (live), which are of kind direct.
ASSUME SuiteAssumption ==
  /\ Suite \in Seq(Probe)
  /\ Suite # <<>>
  /\ \A i \in DOMAIN Suite :
       /\ Suite[i].checkpoints # {} /\ Suite[i].turns > 0
       /\ Suite[i].graded => "result" \in Suite[i].checkpoints
  /\ Suite[Len(Suite)].kind = "api" => Suite[Len(Suite)].graded

ASSUME NoResultAssumption == None \notin Runner \cup {0}

ASSUME LimitAssumption ==
  /\ MaxRequests \in Nat \ {0}
  /\ MaxEdits \in Nat

VARIABLES
  pc,            \* where each process is
  at,            \* the probe it runs, and in it the turn of the conversation
  budget,        \* RequestBudget: used, exhausted
  stages,        \* what became of the model requests of the probe
  observations,  \* the list the runner collects
  rows,          \* the assertion results
  diagnostics,   \* who created the directory <out>.diagnostics
  journal,       \* what was appended to events.jsonl, and by whom
  out,           \* the files of the output directory
  outExists,     \* whether that directory exists
  files,         \* the version of the evaluated files
  prints,        \* the fingerprints a process took first
  seen,          \* the versions its probes ran on
  exit           \* exit codes

probeVars == <<at, budget, stages>>
resultVars == <<observations, rows>>
diskVars == <<diagnostics, journal, out, outExists>>
sourceVars == <<files, prints, seen>>
vars == <<pc, probeVars, resultVars, diskVars, sourceVars, exit>>

Stage == {"accepted", "rejected", "error", "refused", "not_called"}
Status == {"completed", "error", "not_run"}
Observation == [probe : DOMAIN Suite, checkpoint : {"result", "persisted"},
                status : Status, stages : SUBSET Stage]
Check == {"business", "model"}
Key == {k \in (DOMAIN Suite) \X {"result", "persisted"} \X Check :
          /\ k[2] \in Suite[k[1]].checkpoints
          /\ k[3] = "model" => Suite[k[1]].graded /\ k[2] = "result"}
Result == [observations : Seq(Observation), rows : [Key -> Status]]
\* The order of seal_run's writes; subreports are further payload files.
PayloadFile == {"observations.jsonl", "assertions.jsonl", "summary.md"}
FileName == PayloadFile \cup {"manifest.json.tmp", "manifest.json", "COMPLETED"}
File == [of : Result, whole : BOOLEAN]

Init ==
  /\ pc = [r \in Runner |-> "idle"]
  /\ at = [r \in Runner |-> <<1, 1>>]
  /\ budget = [r \in Runner |-> [used |-> 0, exhausted |-> FALSE]]
  /\ stages = [r \in Runner |-> {}]
  /\ observations = [r \in Runner |-> <<>>]
  /\ rows = [r \in Runner |-> None]
  /\ diagnostics = None
  /\ journal = {}
  /\ out = [f \in FileName |-> None]
  /\ outExists = FALSE
  /\ files = 0
  /\ prints = [r \in Runner |-> None]
  /\ seen = [r \in Runner |-> {}]
  /\ exit = [r \in Runner |-> None]

-----------------------------------------------------------------------------
Goto(r, place) == pc' = [pc EXCEPT ![r] = place]
Record(r, event) == journal' = journal \cup {<<r, event>>}
End(r, code) == Goto(r, "ended") /\ exit' = [exit EXCEPT ![r] = code]

\* _run: the directory exists, or somebody created the diagnostics first.
CheckOut(r) ==
  /\ pc[r] = "idle"
  /\ ~outExists
  /\ Goto(r, "claim")
  /\ UNCHANGED <<probeVars, resultVars, diskVars, sourceVars, exit>>

RefuseExisting(r) ==
  /\ \/ pc[r] = "idle" /\ outExists
     \/ pc[r] = "claim" /\ diagnostics # None
  /\ End(r, 2)
  /\ UNCHANGED <<probeVars, resultVars, diskVars, sourceVars>>

\* mkdir(exist_ok=False), then the first event.
FreshDiagnostics == diagnostics = None
ClaimDiagnostics(r) ==
  /\ pc[r] = "claim"
  /\ FreshDiagnostics
  /\ diagnostics' = r
  /\ Record(r, "started")
  /\ Goto(r, "prepare")
  /\ UNCHANGED <<probeVars, resultVars, out, outExists, sourceVars, exit>>

\* _execute_run up to the runner: the cases are loaded, the files hashed.
Prepare(r) ==
  /\ pc[r] = "prepare"
  /\ ~outExists
  /\ prints' = [prints EXCEPT ![r] = files]
  /\ Goto(r, "next")
  /\ UNCHANGED <<probeVars, resultVars, diskVars, files, seen, exit>>

-----------------------------------------------------------------------------
\* run_quality_suite.
Current(r) == Suite[at[r][1]]
Observed(r, checkpoints, status, outcome) ==
  LET i == at[r][1]
      one(c) == [probe |-> i, checkpoint |-> c, status |-> status, stages |-> outcome]
  IN IF checkpoints = {"result", "persisted"} THEN <<one("result"), one("persisted")>>
     ELSE <<one(CHOOSE c \in checkpoints : TRUE)>>
Observe(r, checkpoints, status, outcome) ==
  observations' = [observations EXCEPT
                     ![r] = @ \o Observed(r, checkpoints, status, outcome)]
NextProbe(r) ==
  /\ at' = [at EXCEPT ![r] = <<@[1] + 1, 1>>]
  /\ stages' = [stages EXCEPT ![r] = {}]
  /\ Goto(r, "next")

\* The budget refused a request before: the remaining probes do not run.
SkipProbe(r) ==
  /\ pc[r] = "next"
  /\ at[r][1] <= Len(Suite)
  /\ budget[r].exhausted
  /\ Observe(r, Current(r).checkpoints, "not_run", {})
  /\ NextProbe(r)
  /\ UNCHANGED <<budget, rows, diskVars, sourceVars, exit>>

\* A fresh client, directory and database; then the adapter.
\* (Mutant: every probe starts.)
StartsProbeAlways(r) == TRUE
StartsProbe(r) == ~budget[r].exhausted
StartProbe(r) ==
  /\ pc[r] = "next"
  /\ at[r][1] <= Len(Suite)
  /\ StartsProbe(r)
  /\ seen' = [seen EXCEPT ![r] = @ \cup {files}]
  /\ Goto(r, IF Current(r).kind = "plain" THEN "observe" ELSE "understanding")
  /\ UNCHANGED <<probeVars, resultVars, diskVars, files, prints, exit>>

\* RecordedClient.create: the budget, then the provider, whose answer the
\* validators of the model's output accept or reject.
Request(r, outcome) ==
  /\ budget[r].used < MaxRequests
  /\ outcome \in {"accepted", "rejected", "error"}
  /\ budget' = [budget EXCEPT ![r].used = @ + 1]
Refuse(r, outcome) ==
  /\ budget[r].used >= MaxRequests
  /\ outcome = "refused"
  /\ budget' = [budget EXCEPT ![r].exhausted = TRUE]

\* The product asks for the understanding of a message; whatever goes wrong, the
\* rules answer.  Only an understood message may lead to a generated reply.
\* An adapter of kind direct makes the one call it tests.
Understand(r, outcome) ==
  /\ pc[r] = "understanding"
  /\ Request(r, outcome) \/ Refuse(r, outcome)
  /\ stages' = [stages EXCEPT ![r] = @ \cup {outcome}]
  /\ Goto(r, IF Current(r).kind = "direct" THEN "observe"
             ELSE IF outcome = "accepted" THEN "generation" ELSE "turn")
  /\ UNCHANGED <<at, resultVars, diskVars, sourceVars, exit>>

Generate(r, outcome) ==
  /\ pc[r] = "generation"
  /\ \/ Request(r, outcome)
     \/ Refuse(r, outcome)
     \/ outcome = "not_called" /\ UNCHANGED budget
  /\ stages' = [stages EXCEPT ![r] = @ \cup {outcome}]
  /\ Goto(r, "turn")
  /\ UNCHANGED <<at, resultVars, diskVars, sourceVars, exit>>

\* _finish_api_stages records a stage that was not called; an exhausted budget
\* ends the conversation, whose status stays completed.
\* (Mutant: a turn without an accepted answer is repeated.)
EndTurnSpins(r) ==
  /\ pc[r] = "turn"
  /\ Goto(r, IF "accepted" \in stages[r] THEN "observe" ELSE "understanding")
  /\ UNCHANGED <<probeVars, resultVars, diskVars, sourceVars, exit>>
EndTurn(r) ==
  /\ pc[r] = "turn"
  /\ stages' = [stages EXCEPT ![r] =
                  IF @ \cap {"rejected", "error", "refused"} = {} THEN @
                  ELSE @ \cup {"not_called"}]
  /\ IF at[r][2] < Current(r).turns /\ ~budget[r].exhausted
     THEN at' = [at EXCEPT ![r][2] = @ + 1] /\ Goto(r, "understanding")
     ELSE UNCHANGED at /\ Goto(r, "observe")
  /\ UNCHANGED <<budget, resultVars, diskVars, sourceVars, exit>>

\* INFRASTRUCTURE_CODES: what the direct adapters report as an error; a refused
\* request reaches them as unexpected_client_error.
ProbeStatus(r) ==
  IF Current(r).kind = "direct" /\ stages[r] \cap {"error", "refused"} # {}
  THEN "error" ELSE "completed"

\* The values are added to the list first and journaled then.
CollectValues(r) ==
  /\ pc[r] = "observe"
  /\ Observe(r, Current(r).checkpoints, ProbeStatus(r), stages[r])
  /\ Goto(r, "journal")
  /\ UNCHANGED <<probeVars, rows, diskVars, sourceVars, exit>>

JournalValues(r) ==
  /\ pc[r] = "journal"
  /\ NextProbe(r)
  /\ UNCHANGED <<budget, resultVars, diskVars, sourceVars, exit>>

\* The probe raised, a turn got no HTTP 200 answer, or the journal could not be
\* written: every checkpoint is recorded as an error, also one already recorded.
ProbeFails(r) ==
  /\ pc[r] \in {"understanding", "generation", "turn", "observe", "journal"}
  /\ Observe(r, Current(r).checkpoints, "error", stages[r])
  /\ NextProbe(r)
  /\ UNCHANGED <<budget, rows, diskVars, sourceVars, exit>>

-----------------------------------------------------------------------------
\* evaluate_assertions.  A missing observation is not_run; what was not
\* completed keeps its status; a check may fail to be evaluated.
Slot(o) == <<o.probe, o.checkpoint>>
\* (Mutant: a second observation of a checkpoint replaces the first.)
DuplicatesIgnored(list) == TRUE
NoDuplicates(list) ==
  \A i, j \in DOMAIN list : Slot(list[i]) = Slot(list[j]) => i = j
\* _model_stage: a provider error before a stage that was not called.
\* (Mutant: only the provider's errors count, not the budget's.)
ModelStageProvider(o) ==
  IF "error" \in o.stages THEN "error" ELSE "completed"
ModelStage(o) ==
  IF o.stages \cap {"error", "refused"} # {} THEN "error"
  ELSE IF "not_called" \in o.stages \/ o.stages = {} THEN "not_run"
  ELSE "completed"
Graded(o, check) ==
  IF o.status = "completed" /\ check = "model" THEN ModelStage(o) ELSE o.status
GradeOf(list, k) ==
  IF \E i \in DOMAIN list : Slot(list[i]) = <<k[1], k[2]>>
  THEN Graded(list[CHOOSE i \in DOMAIN list : Slot(list[i]) = <<k[1], k[2]>>], k[3])
  ELSE "not_run"

Grade(r) ==
  /\ pc[r] = "next"
  /\ at[r][1] > Len(Suite)
  /\ NoDuplicates(observations[r])
  /\ \E broken \in Broken :
       rows' = [rows EXCEPT ![r] =
                 [k \in Key |-> IF k \in broken THEN "error"
                                ELSE GradeOf(observations[r], k)]]
  /\ Goto(r, "compare")
  /\ UNCHANGED <<probeVars, observations, diskVars, sourceVars, exit>>

\* The fingerprints again: nothing evaluated may have changed meanwhile.
\* (Mutant: they are not compared.)
SameFilesAssumed(r) == TRUE
SameFiles(r) == prints[r] = files
Compare(r) ==
  /\ pc[r] = "compare"
  /\ SameFiles(r)
  /\ Goto(r, "mkdir")
  /\ UNCHANGED <<probeVars, resultVars, diskVars, sourceVars, exit>>

-----------------------------------------------------------------------------
\* seal_run.
MakeOut(r) ==
  /\ pc[r] = "mkdir"
  /\ ~outExists
  /\ outExists' = TRUE
  /\ Goto(r, "observations.jsonl")
  /\ UNCHANGED <<probeVars, resultVars, diagnostics, journal, out, sourceVars, exit>>

After(f) ==
  CASE f = "observations.jsonl" -> "assertions.jsonl"
    [] f = "assertions.jsonl" -> "summary.md"
    [] f = "summary.md" -> "manifest.json.tmp"
    [] f = "manifest.json.tmp" -> "rename"
    [] f = "COMPLETED" -> "verify"

\* (Mutant: the rows are written before they are graded.)
WrittenUngraded(r) == [observations |-> observations[r], rows |-> None]
Written(r) == [observations |-> observations[r], rows |-> rows[r]]

\* _write_new: the file is created, and complete once it is synchronised.
CreateFile(r, f) ==
  /\ pc[r] = f
  /\ out[f] = None
  /\ out' = [out EXCEPT ![f] = [of |-> Written(r), whole |-> FALSE]]
  /\ UNCHANGED <<pc, probeVars, resultVars, diagnostics, journal, outExists,
                 sourceVars, exit>>

SyncFile(r, f) ==
  /\ pc[r] = f
  /\ out[f] # None
  /\ out' = [out EXCEPT ![f].whole = TRUE]
  /\ Goto(r, After(f))
  /\ UNCHANGED <<probeVars, resultVars, diagnostics, journal, outExists,
                 sourceVars, exit>>

RenameManifest(r) ==
  /\ pc[r] = "rename"
  /\ out' = [out EXCEPT !["manifest.json"] = out["manifest.json.tmp"],
                        !["manifest.json.tmp"] = None]
  /\ Goto(r, "COMPLETED")
  /\ UNCHANGED <<probeVars, resultVars, diagnostics, journal, outExists,
                 sourceVars, exit>>

\* load_run: the marker matches the manifest, the directory holds exactly the
\* manifest's files with their hashes, and the rows are valid.
WholeFile(f) == out[f] # None /\ out[f].whole
Loadable ==
  /\ out["manifest.json.tmp"] = None
  /\ \A f \in FileName \ {"manifest.json.tmp"} : WholeFile(f)
  /\ \A f \in FileName \ {"manifest.json.tmp"} : out[f].of = out["manifest.json"].of
Loaded == IF Loadable THEN out["manifest.json"].of ELSE None

\* seal_run ends by loading what it wrote; the last event follows, and the exit
\* code says whether every assertion was executed.
Executed(grade) == \A k \in Key : grade[k] = "completed"
Verify(r) ==
  /\ pc[r] = "verify"
  /\ Loadable
  /\ Record(r, "sealed")
  /\ End(r, IF Executed(rows[r]) THEN 0 ELSE 2)
  /\ UNCHANGED <<probeVars, resultVars, diagnostics, out, outExists, sourceVars>>

-----------------------------------------------------------------------------
Working == {"prepare", "next", "understanding", "generation", "turn", "observe",
            "journal", "compare", "mkdir", "rename", "verify"} \cup FileName

\* Any exception out of _execute_run, a refusal above among them: a last event,
\* exit code 2, and the files stay as they are.
RunRaises(r) ==
  /\ pc[r] \in Working
  /\ Record(r, "error")
  /\ End(r, 2)
  /\ UNCHANGED <<probeVars, resultVars, diagnostics, out, outExists, sourceVars>>

\* The process is killed.
Crash(r) ==
  /\ pc[r] \in Working
  /\ Goto(r, "dead")
  /\ UNCHANGED <<probeVars, resultVars, diskVars, sourceVars, exit>>

\* Somebody edits an evaluated file.  Contents do not return: an edit that is
\* taken back between two fingerprints is not seen by the code.
Edit ==
  /\ files < MaxEdits
  /\ files' = files + 1
  /\ UNCHANGED <<pc, probeVars, resultVars, diskVars, prints, seen, exit>>

Probes(r) ==
  \/ SkipProbe(r) \/ StartProbe(r)
  \/ \E outcome \in Stage : Understand(r, outcome) \/ Generate(r, outcome)
  \/ EndTurn(r) \/ CollectValues(r) \/ JournalValues(r) \/ ProbeFails(r)
Seals(r) ==
  \/ MakeOut(r)
  \/ \E f \in FileName \ {"manifest.json"} : CreateFile(r, f) \/ SyncFile(r, f)
  \/ RenameManifest(r) \/ Verify(r)
Step(r) ==
  \/ CheckOut(r) \/ RefuseExisting(r) \/ ClaimDiagnostics(r) \/ Prepare(r)
  \/ Probes(r) \/ Grade(r) \/ Compare(r) \/ Seals(r) \/ RunRaises(r)

Next == Edit \/ \E r \in Runner : Step(r) \/ Crash(r)
Spec == Init /\ [][Next]_vars
FairSpec == Spec /\ \A r \in Runner : WF_vars(Step(r))

-----------------------------------------------------------------------------
QualityTypeOK ==
  /\ pc \in [Runner -> Working \cup {"idle", "claim", "ended", "dead"}]
  /\ at \in [Runner -> (1..Len(Suite) + 1) \X Nat]
  /\ budget \in [Runner -> [used : 0..MaxRequests, exhausted : BOOLEAN]]
  /\ stages \in [Runner -> SUBSET Stage]
  /\ observations \in [Runner -> Seq(Observation)]
  /\ rows \in [Runner -> [Key -> Status] \cup {None}]
  /\ diagnostics \in Runner \cup {None}
  /\ journal \subseteq Runner \X {"started", "sealed", "error"}
  /\ \A f \in FileName : out[f] # None =>
       /\ DOMAIN out[f] = {"of", "whole"}
       /\ out[f].of.observations \in Seq(Observation)
       /\ out[f].of.rows \in [Key -> Status]
       /\ out[f].whole \in BOOLEAN
  /\ outExists \in BOOLEAN
  /\ files \in 0..MaxEdits
  /\ prints \in [Runner -> 0..MaxEdits \cup {None}]
  /\ seen \in [Runner -> SUBSET (0..MaxEdits)]
  /\ exit \in [Runner -> {0, 2, None}]

\* A run that exits with 0 left a directory that loads as what this run saw,
\* and none of its model requests was refused for lack of budget: not even one
\* the product silently answered with its rules, which leaves the probe
\* completed (run_api, _execute_run line 214).
ExitZeroIsComplete ==
  \A r \in Runner : exit[r] = 0 =>
    /\ Loaded = Written(r)
    /\ \A i \in DOMAIN observations[r] :
         /\ observations[r][i].status = "completed"
         /\ "refused" \notin observations[r][i].stages

\* Once a request was refused, what has not started is reported as not run,
\* whatever fails in between (run_quality_suite line 278).
RefusedThenNotRun ==
  \A r \in Runner : \A i, j \in DOMAIN observations[r] :
    /\ "refused" \in observations[r][i].stages
    /\ observations[r][i].probe < observations[r][j].probe
    => observations[r][j].status = "not_run"

\* A directory that loads was made by one process, whose probes all ran on the
\* files it fingerprinted, and its journal is of that process alone
\* (_run lines 110-118, _execute_run lines 185-195).
LoadedIsOneRun ==
  Loadable =>
    /\ Loaded = Written(diagnostics)
    /\ seen[diagnostics] \subseteq {prints[diagnostics]}
    /\ \A e \in journal : e[1] = diagnostics

\* What may be published: each checkpoint has at most one observation, and an
\* assertion counts as executed only where its observation was completed.
SoundResult ==
  {x \in Result :
     /\ \A i, j \in DOMAIN x.observations :
          Slot(x.observations[i]) = Slot(x.observations[j]) => i = j
     /\ \A k \in Key : x.rows[k] = "completed" =>
          \E i \in DOMAIN x.observations :
            /\ Slot(x.observations[i]) = <<k[1], k[2]>>
            /\ x.observations[i].status = "completed"}

\* The output directory is an evidence store: killed or failing at any step, a
\* run publishes all of a sound result or nothing, and nobody changes it later
\* (seal_run and load_run).
Evidence == INSTANCE EvidenceStore
              WITH Sound <- SoundResult, NoResult <- None, evidence <- Loaded
ImplementsEvidence == Evidence!EvidenceSpec

\* Every process that was started ends or is killed: refused requests, errors
\* and failing files lead on (WF of the process's steps).
RunEnds == \A r \in Runner : <>(pc[r] \in {"ended", "dead"})
=============================================================================
