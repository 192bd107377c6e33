-------------------------- MODULE QualityRunProofs --------------------------
(***************************************************************************)
(* A quality run is sealed whole by one process or not at all, and exit    *)
(* code 0 hides no refused request, for any suite, budget, number of       *)
(* processes and edits, under any crash or exception.                      *)
(***************************************************************************)
EXTENDS QualityRun, SequenceTheorems, TLAPS

Unstarted == {"idle", "claim", "prepare"}
Probing == {"understanding", "generation", "turn", "observe", "journal"}
Sealing == {"compare", "mkdir", "rename", "verify"} \cup FileName
Over == {"verify", "ended", "dead"}

\* The type invariant in parts, and what each place of a process adds to it.
ProbeType ==
  /\ at \in [Runner -> (1..Len(Suite) + 1) \X Nat]
  /\ budget \in [Runner -> [used : 0..MaxRequests, exhausted : BOOLEAN]]
  /\ stages \in [Runner -> SUBSET Stage]
ResultType ==
  /\ observations \in [Runner -> Seq(Observation)]
  /\ rows \in [Runner -> [Key -> Status] \cup {None}]
DiskType ==
  /\ diagnostics \in Runner \cup {None}
  /\ journal \subseteq Runner \X {"started", "sealed", "error"}
  /\ DOMAIN out = FileName
  /\ \A f \in FileName : out[f] # None =>
       /\ DOMAIN out[f] = {"of", "whole"}
       /\ out[f].of.observations \in Seq(Observation)
       /\ out[f].of.rows \in [Key -> Status]
       /\ out[f].whole \in BOOLEAN
  /\ outExists \in BOOLEAN
SourceType ==
  /\ files \in 0..MaxEdits
  /\ prints \in [Runner -> 0..MaxEdits \cup {None}]
  /\ seen \in [Runner -> SUBSET (0..MaxEdits)]
PlaceType ==
  /\ pc \in [Runner -> Working \cup {"idle", "claim", "ended", "dead"}]
  /\ exit \in [Runner -> {0, 2, None}]
  /\ \A r \in Runner :
       /\ pc[r] # "manifest.json"
       /\ pc[r] \in Probing => at[r][1] \in DOMAIN Suite
       /\ pc[r] \in Sealing => rows[r] \in [Key -> Status]
       /\ pc[r] \in Unstarted => at[r] = <<1, 1>>
TypeInv == ProbeType /\ ResultType /\ DiskType /\ SourceType /\ PlaceType

LEMMA TypeParts == TypeInv => QualityTypeOK
BY DEF TypeInv, ProbeType, ResultType, DiskType, SourceType, PlaceType, QualityTypeOK

\* Only the process that created the diagnostics works, or was killed working.
ClaimInv ==
  /\ \A r \in Runner : pc[r] \in Working \cup {"dead"} => diagnostics = r
  /\ \A r \in Runner : exit[r] = 0 => diagnostics = r /\ pc[r] = "ended"
  /\ \A e \in journal : e[1] = diagnostics

\* What a process has run on is no older than its fingerprints and no newer than
\* the files; once they were compared, it is what was fingerprinted.
PrintOf(r) ==
  /\ pc[r] \in Unstarted => seen[r] = {}
  /\ pc[r] \in Probing \cup {"next"} \cup Sealing => prints[r] \in 0..files
  /\ \A v \in seen[r] : prints[r] \in Nat /\ prints[r] <= v /\ v <= files
  /\ pc[r] \in Sealing \ {"compare"} => seen[r] \subseteq {prints[r]}
PrintInv == \A r \in Runner : PrintOf(r)

\* The model requests of the probe a process is at: a refused one is on record.
StagesOf(r) ==
  /\ pc[r] \in Unstarted => observations[r] = <<>> /\ stages[r] = {}
  /\ pc[r] = "next" => stages[r] = {}
  /\ pc[r] \in Probing /\ Current(r).kind = "plain" =>
       stages[r] = {} /\ pc[r] \in {"observe", "journal"}
  /\ "refused" \in stages[r] => budget[r].exhausted = TRUE

\* An observation in the list: in the order of the probes, of a checkpoint of its
\* probe, and nothing silent about a refused request.
ItemOf(r, o) ==
  /\ o.probe <= at[r][1]
  /\ pc[r] \in {"next"} \cup (Probing \ {"journal"}) => o.probe < at[r][1]
  /\ pc[r] = "journal" /\ o.probe = at[r][1] => o.stages = stages[r]
  /\ o.checkpoint \in Suite[o.probe].checkpoints
  /\ "refused" \in o.stages =>
       /\ budget[r].exhausted = TRUE
       /\ Suite[o.probe].kind # "plain"
       /\ Suite[o.probe].kind = "direct" => o.status # "completed"
       /\ pc[r] \in Probing => o.probe = at[r][1]

\* Two observations: one outcome per probe, and after a refused request only
\* probes that did not run.
PairOf(o, later) ==
  /\ o.probe = later.probe => o.stages = later.stages
  /\ "refused" \in o.stages /\ o.probe < later.probe => later.status = "not_run"

ListInv(r) ==
  /\ StagesOf(r)
  /\ \A i \in DOMAIN observations[r] : ItemOf(r, observations[r][i])
  /\ \A i, j \in DOMAIN observations[r] : PairOf(observations[r][i], observations[r][j])
  /\ \A p \in DOMAIN Suite :
       p < at[r][1] \/ (p = at[r][1] /\ pc[r] = "journal") =>
         \E i \in DOMAIN observations[r] : observations[r][i].probe = p

\* Nothing that was observed failed, was skipped or was refused.
AllObserved(r) ==
  \A i \in DOMAIN observations[r] :
    /\ observations[r][i].status = "completed"
    /\ "refused" \notin observations[r][i].stages

\* What a process seals is sound, and complete if every assertion was executed.
GradedInv ==
  \A r \in Runner : pc[r] \in Sealing =>
    /\ Written(r) \in SoundResult
    /\ Executed(rows[r]) => AllObserved(r)

\* What the directory holds is what its one process wrote after grading, on the
\* files it fingerprinted; the marker is whole only when nothing more is written.
StoreInv ==
  /\ \A f \in FileName : out[f] # None =>
       /\ diagnostics \in Runner
       /\ pc[diagnostics] \in FileName \cup {"rename"} \cup Over
       /\ out[f].of = Written(diagnostics)
       /\ seen[diagnostics] \subseteq {prints[diagnostics]}
  /\ WholeFile("COMPLETED") => pc[diagnostics] \in Over

\* A process that exited with 0 left the directory loadable and complete.
ExitInv ==
  \A r \in Runner : exit[r] = 0 => Loadable /\ AllObserved(r)

IInv ==
  /\ TypeInv
  /\ ClaimInv
  /\ PrintInv
  /\ \A r \in Runner : ListInv(r)
  /\ GradedInv
  /\ StoreInv
  /\ ExitInv

-----------------------------------------------------------------------------
\* A probe of the suite.
LEMMA ProbeIs ==
  ASSUME NEW i \in DOMAIN Suite
  PROVE  /\ Suite[i] \in Probe
         /\ Suite[i].checkpoints \in (SUBSET {"result", "persisted"}) \ {{}}
         /\ i \in Nat /\ i <= Len(Suite)
<1>1. Suite \in Seq(Probe)
  BY SuiteAssumption
<1>2. Suite[i] \in Probe /\ i \in 1..Len(Suite) /\ Len(Suite) \in Nat
  BY <1>1
<1>3. Suite[i].checkpoints # {}
  BY SuiteAssumption
<1> QED BY <1>2, <1>3 DEF Probe

\* The observations of a probe: one for each checkpoint, all of one outcome.
LEMMA ObservedIs ==
  ASSUME NEW r \in Runner, at[r][1] \in DOMAIN Suite,
         NEW status \in Status, NEW outcome \in SUBSET Stage
  PROVE  LET s == Observed(r, Current(r).checkpoints, status, outcome) IN
         /\ s \in Seq(Observation)
         /\ Len(s) > 0
         /\ \A i \in 1..Len(s) :
              /\ s[i].probe = at[r][1]
              /\ s[i].status = status
              /\ s[i].stages = outcome
              /\ s[i].checkpoint \in Current(r).checkpoints
<1> DEFINE k == at[r][1]
           cs == Current(r).checkpoints
           one(c) == [probe |-> k, checkpoint |-> c, status |-> status, stages |-> outcome]
<1>1. cs \in (SUBSET {"result", "persisted"}) \ {{}}
  BY ProbeIs DEF Current
<1>2. \A c \in {"result", "persisted"} : one(c) \in Observation
  BY DEF Observation
<1>3. CASE cs = {"result", "persisted"}
  <2>1. Observed(r, cs, status, outcome) = <<one("result"), one("persisted")>>
    BY <1>3 DEF Observed
  <2>2. one("result") \in Observation /\ one("persisted") \in Observation
    BY <1>2
  <2> DEFINE a == one("result")
             b == one("persisted")
  <2>3. /\ a.probe = k /\ a.status = status /\ a.stages = outcome /\ a.checkpoint = "result"
        /\ b.probe = k /\ b.status = status /\ b.stages = outcome /\ b.checkpoint = "persisted"
    OBVIOUS
  <2> HIDE DEF a, b
  <2>4. /\ <<a, b>> \in Seq(Observation)
        /\ Len(<<a, b>>) = 2
        /\ \A i \in 1..2 : <<a, b>>[i] = a \/ <<a, b>>[i] = b
    BY <2>2 DEF a, b
  <2>5. Observed(r, cs, status, outcome) = <<a, b>>
    BY <2>1 DEF a, b
  <2> DEFINE s == <<a, b>>
  <2>6. \A i \in 1..Len(s) :
          /\ s[i].probe = k /\ s[i].status = status /\ s[i].stages = outcome
          /\ s[i].checkpoint \in cs
    BY <1>3, <2>3, <2>4
  <2> HIDE DEF s
  <2> QED BY <2>4, <2>5, <2>6 DEF s
<1>4. CASE cs # {"result", "persisted"}
  <2> DEFINE c == CHOOSE c \in cs : TRUE
  <2>1. c \in cs /\ c \in {"result", "persisted"}
    BY <1>1
  <2>2. Observed(r, cs, status, outcome) = <<one(c)>>
    BY <1>4 DEF Observed
  <2>3. one(c) \in Observation
    BY <1>2, <2>1
  <2> HIDE DEF c
  <2>4. <<one(c)>> \in Seq(Observation) /\ Len(<<one(c)>>) = 1 /\ <<one(c)>>[1] = one(c)
    BY <2>3
  <2>5. /\ one(c).probe = k /\ one(c).status = status
        /\ one(c).stages = outcome /\ one(c).checkpoint = c
    OBVIOUS
  <2> DEFINE a == one(c)
  <2> HIDE DEF a
  <2>6. \A i \in 1..1 : <<a>>[i] = a
    OBVIOUS
  <2> QED BY <2>1, <2>2, <2>4, <2>5, <2>6 DEF a
<1> QED BY <1>3, <1>4

\* Observing a probe adds to the list of its process, and to nothing else.
LEMMA ObserveAdds ==
  ASSUME QualityTypeOK, NEW r \in Runner, at[r][1] \in DOMAIN Suite,
         NEW status \in Status, NEW outcome \in SUBSET Stage,
         Observe(r, Current(r).checkpoints, status, outcome)
  PROVE  /\ observations' \in [Runner -> Seq(Observation)]
         /\ \A q \in Runner \ {r} : observations'[q] = observations[q]
         /\ Len(observations[r]) \in Nat
         /\ Len(observations'[r]) \in Nat
         /\ Len(observations[r]) < Len(observations'[r])
         /\ \A i \in 1..Len(observations[r]) : observations'[r][i] = observations[r][i]
         /\ \A i \in Len(observations[r]) + 1 .. Len(observations'[r]) :
              /\ observations'[r][i].probe = at[r][1]
              /\ observations'[r][i].status = status
              /\ observations'[r][i].stages = outcome
              /\ observations'[r][i].checkpoint \in Current(r).checkpoints
<1> DEFINE s == Observed(r, Current(r).checkpoints, status, outcome)
           old == observations[r]
<1>1. /\ s \in Seq(Observation)
      /\ Len(s) > 0
      /\ \A i \in 1..Len(s) :
              /\ s[i].probe = at[r][1]
              /\ s[i].status = status
              /\ s[i].stages = outcome
              /\ s[i].checkpoint \in Current(r).checkpoints
  BY ObservedIs
<1>2. observations \in [Runner -> Seq(Observation)]
  BY DEF QualityTypeOK
<1>3. observations' = [observations EXCEPT ![r] = old \o s]
  BY <1>2 DEF Observe
<1> HIDE DEF s
<1>4. old \in Seq(Observation)
  BY <1>2
<1>5. /\ old \o s \in Seq(Observation)
      /\ Len(old \o s) = Len(old) + Len(s)
      /\ \A i \in 1 .. Len(old) + Len(s) :
           (old \o s)[i] = IF i <= Len(old) THEN old[i] ELSE s[i - Len(old)]
  BY <1>1, <1>4, ConcatProperties
<1>6. observations'[r] = old \o s
  BY <1>2, <1>3
<1>7. Len(s) \in Nat /\ Len(old) \in Nat
  BY <1>1, <1>4
<1>8. ASSUME NEW i \in Len(old) + 1 .. Len(old) + Len(s)
      PROVE  (old \o s)[i] = s[i - Len(old)] /\ i - Len(old) \in 1..Len(s)
  BY <1>5, <1>7
<1>9. \A i \in 1..Len(old) : (old \o s)[i] = old[i]
  BY <1>5, <1>7
<1>10. Len(old \o s) \in Nat /\ Len(old) < Len(old \o s)
  BY <1>1, <1>5, <1>7
<1>11. \A i \in Len(old) + 1 .. Len(old \o s) :
              /\ (old \o s)[i].probe = at[r][1]
              /\ (old \o s)[i].status = status
              /\ (old \o s)[i].stages = outcome
              /\ (old \o s)[i].checkpoint \in Current(r).checkpoints
  BY <1>1, <1>5, <1>8
<1>12. /\ observations' \in [Runner -> Seq(Observation)]
       /\ \A q \in Runner \ {r} : observations'[q] = observations[q]
  BY <1>2, <1>3, <1>5
<1> HIDE DEF old
<1> QED BY <1>6, <1>7, <1>9, <1>10, <1>11, <1>12 DEF old

\* A grade is a status, and "completed" only of a completed observation.
LEMMA GradeIs ==
  ASSUME NEW list \in Seq(Observation), NEW k \in Key
  PROVE  /\ GradeOf(list, k) \in Status
         /\ GradeOf(list, k) = "completed" =>
              \E i \in DOMAIN list :
                /\ Slot(list[i]) = <<k[1], k[2]>>
                /\ list[i].status = "completed"
                /\ k[3] = "model" => ModelStage(list[i]) = "completed"
<1>1. CASE \E i \in DOMAIN list : Slot(list[i]) = <<k[1], k[2]>>
  <2> DEFINE i == CHOOSE i \in DOMAIN list : Slot(list[i]) = <<k[1], k[2]>>
  <2>1. i \in DOMAIN list /\ Slot(list[i]) = <<k[1], k[2]>>
    BY <1>1
  <2>2. GradeOf(list, k) = Graded(list[i], k[3])
    BY <1>1 DEF GradeOf
  <2>3. list[i] \in Observation
    BY <2>1
  <2> HIDE DEF i
  <2>4. list[i].status \in Status
    BY <2>3 DEF Observation
  <2>5. ModelStage(list[i]) \in Status
    BY DEF ModelStage, Status
  <2>6. Graded(list[i], k[3]) \in Status
    BY <2>4, <2>5 DEF Graded
  <2>7. Graded(list[i], k[3]) = "completed" =>
          /\ list[i].status = "completed"
          /\ k[3] = "model" => ModelStage(list[i]) = "completed"
    BY DEF Graded
  <2> QED BY <2>1, <2>2, <2>6, <2>7
<1>2. CASE ~\E i \in DOMAIN list : Slot(list[i]) = <<k[1], k[2]>>
  BY <1>2 DEF GradeOf, Status
<1> QED BY <1>1, <1>2

\* What the three steps that add observations have in common.
Observing(r, status, outcome) ==
  /\ pc[r] \in Probing \cup {"next"}
  /\ at[r][1] \in DOMAIN Suite
  /\ Observe(r, Current(r).checkpoints, status, outcome)
  /\ \/ NextProbe(r)
     \/ pc[r] = "observe" /\ Goto(r, "journal") /\ UNCHANGED <<at, stages>>
  /\ UNCHANGED <<budget, rows, diskVars, sourceVars, exit>>

LEMMA ObservingSteps ==
  ASSUME TypeInv, NEW r \in Runner, SkipProbe(r) \/ CollectValues(r) \/ ProbeFails(r)
  PROVE  \E status \in Status, outcome \in SUBSET Stage :
           /\ Observing(r, status, outcome)
           /\ pc[r] = "next" => status = "not_run" /\ outcome = {}
           /\ pc[r] # "next" =>
                /\ outcome = stages[r]
                /\ Current(r).kind = "direct" /\ "refused" \in outcome =>
                     status # "completed"
<1>1. stages[r] \in SUBSET Stage
  BY DEF TypeInv, ProbeType
<1>5. pc[r] \in Probing => at[r][1] \in DOMAIN Suite
  BY DEF TypeInv, PlaceType
<1>2. CASE SkipProbe(r)
  <2>1. at[r][1] \in DOMAIN Suite
    BY <1>2, SuiteAssumption DEF SkipProbe, TypeInv, ProbeType
  <2>2. Observing(r, "not_run", {})
    BY <1>2, <2>1 DEF SkipProbe, Observing
  <2>3. pc[r] = "next" /\ "not_run" \in Status /\ {} \in SUBSET Stage
    BY <1>2 DEF SkipProbe, Status
  <2> QED BY <2>2, <2>3
<1>3. CASE CollectValues(r)
  <2>1. ProbeStatus(r) \in Status
    BY DEF ProbeStatus, Status
  <2>2. Observing(r, ProbeStatus(r), stages[r])
    BY <1>5, <1>3 DEF CollectValues, Observing, probeVars, Probing
  <2>3. Current(r).kind = "direct" /\ "refused" \in stages[r] => ProbeStatus(r) # "completed"
    BY DEF ProbeStatus
  <2> QED BY <1>1, <1>3, <2>1, <2>2, <2>3 DEF CollectValues
<1>4. CASE ProbeFails(r)
  <2>1. Observing(r, "error", stages[r]) /\ pc[r] # "next"
    BY <1>5, <1>4 DEF ProbeFails, Observing, Probing
  <2> QED BY <1>1, <2>1 DEF Status
<1> QED BY <1>2, <1>3, <1>4

-----------------------------------------------------------------------------
\* The types, and what the place of a process says of its probe and its rows.
LEMMA BudgetType ==
  ASSUME ProbeType, NEW r \in Runner, NEW outcome \in Stage,
         Request(r, outcome) \/ Refuse(r, outcome)
  PROVE  budget' \in [Runner -> [used : 0..MaxRequests, exhausted : BOOLEAN]]
<1>1. /\ budget \in [Runner -> [used : 0..MaxRequests, exhausted : BOOLEAN]]
      /\ budget[r] \in [used : 0..MaxRequests, exhausted : BOOLEAN]
  BY DEF ProbeType
<1>2. MaxRequests \in Nat
  BY LimitAssumption
<1>3. CASE Request(r, outcome)
  <2>1. budget[r].used + 1 \in 0..MaxRequests
    BY <1>1, <1>2, <1>3 DEF Request
  <2>2. [budget[r] EXCEPT !.used = budget[r].used + 1]
          \in [used : 0..MaxRequests, exhausted : BOOLEAN]
    BY <1>1, <2>1
  <2> QED BY <1>1, <1>3, <2>2 DEF Request
<1>4. CASE Refuse(r, outcome)
  <2>1. [budget[r] EXCEPT !.exhausted = TRUE]
          \in [used : 0..MaxRequests, exhausted : BOOLEAN]
    BY <1>1
  <2> QED BY <1>1, <1>4, <2>1 DEF Refuse
<1> QED BY <1>3, <1>4

LEMMA TypeInit == Init => TypeInv
<1> SUFFICES ASSUME Init PROVE TypeInv
  OBVIOUS
<1>1. Suite \in Seq(Probe) /\ Suite # <<>>
  BY SuiteAssumption
<1>2. <<1, 1>> \in (1..Len(Suite) + 1) \X Nat
  BY <1>1
<1>3. ProbeType
  BY <1>2, LimitAssumption DEF Init, ProbeType
<1>4. ResultType
  BY DEF Init, ResultType
<1>5. DiskType
  BY DEF Init, DiskType
<1>6. SourceType
  BY LimitAssumption DEF Init, SourceType
<1>7. PlaceType
  BY DEF Init, PlaceType, Working, Probing, Sealing, Unstarted, FileName, PayloadFile
<1> QED BY <1>3, <1>4, <1>5, <1>6, <1>7 DEF TypeInv

LEMMA TypeStep == TypeInv /\ [Next]_vars => TypeInv'
<1> SUFFICES ASSUME TypeInv, [Next]_vars PROVE TypeInv'
  OBVIOUS
<1>1. UNCHANGED probeVars => ProbeType'
  BY DEF TypeInv, ProbeType, probeVars
<1>2. UNCHANGED resultVars => ResultType'
  BY DEF TypeInv, ResultType, resultVars
<1>3. UNCHANGED diskVars => DiskType'
  BY DEF TypeInv, DiskType, diskVars
<1>4. UNCHANGED sourceVars => SourceType'
  BY DEF TypeInv, SourceType, sourceVars
<1>5. CASE UNCHANGED vars
  <2>1. PlaceType'
    BY <1>5 DEF TypeInv, PlaceType, vars, probeVars, resultVars
  <2> QED BY <1>1, <1>2, <1>3, <1>4, <1>5, <2>1 DEF vars, TypeInv
<1>6. CASE Edit
  <2>1. SourceType'
    BY <1>6, LimitAssumption DEF Edit, TypeInv, SourceType
  <2>2. PlaceType'
    BY <1>6 DEF Edit, TypeInv, PlaceType, probeVars, resultVars
  <2> QED BY <1>1, <1>2, <1>3, <1>6, <2>1, <2>2 DEF Edit, TypeInv
<1>7. ASSUME NEW r \in Runner, CheckOut(r)
      PROVE  TypeInv'
  <2>1. ProbeType'
    BY <1>7, <1>1 DEF CheckOut, probeVars
  <2>2. ResultType'
    BY <1>7, <1>2 DEF CheckOut, resultVars
  <2>3. DiskType'
    BY <1>7, <1>3 DEF CheckOut, diskVars
  <2>4. SourceType'
    BY <1>7, <1>4 DEF CheckOut, sourceVars
  <2>5. PlaceType'
    BY <1>7 DEF CheckOut, TypeInv, PlaceType, Working, Probing, Sealing, Unstarted, FileName, PayloadFile, Goto, probeVars, resultVars
  <2> QED BY <2>1, <2>2, <2>3, <2>4, <2>5 DEF TypeInv
<1>8. ASSUME NEW r \in Runner, RefuseExisting(r)
      PROVE  TypeInv'
  <2>1. ProbeType'
    BY <1>8, <1>1 DEF RefuseExisting, probeVars
  <2>2. ResultType'
    BY <1>8, <1>2 DEF RefuseExisting, resultVars
  <2>3. DiskType'
    BY <1>8, <1>3 DEF RefuseExisting, diskVars
  <2>4. SourceType'
    BY <1>8, <1>4 DEF RefuseExisting, sourceVars
  <2>5. PlaceType'
    BY <1>8 DEF RefuseExisting, TypeInv, PlaceType, Working, Probing, Sealing, Unstarted, FileName, PayloadFile, Goto, End, probeVars, resultVars
  <2> QED BY <2>1, <2>2, <2>3, <2>4, <2>5 DEF TypeInv
<1>9. ASSUME NEW r \in Runner, ClaimDiagnostics(r)
      PROVE  TypeInv'
  <2>1. ProbeType'
    BY <1>9, <1>1 DEF ClaimDiagnostics, probeVars
  <2>2. ResultType'
    BY <1>9, <1>2 DEF ClaimDiagnostics, resultVars
  <2>3. DiskType'
    BY <1>9 DEF ClaimDiagnostics, TypeInv, DiskType, Record
  <2>4. SourceType'
    BY <1>9, <1>4 DEF ClaimDiagnostics, sourceVars
  <2>5. PlaceType'
    BY <1>9 DEF ClaimDiagnostics, TypeInv, PlaceType, Working, Probing, Sealing, Unstarted, FileName, PayloadFile, Goto, probeVars, resultVars
  <2> QED BY <2>1, <2>2, <2>3, <2>4, <2>5 DEF TypeInv
<1>10. ASSUME NEW r \in Runner, Prepare(r)
      PROVE  TypeInv'
  <2>1. ProbeType'
    BY <1>10, <1>1 DEF Prepare, probeVars
  <2>2. ResultType'
    BY <1>10, <1>2 DEF Prepare, resultVars
  <2>3. DiskType'
    BY <1>10, <1>3 DEF Prepare, diskVars
  <2>4. SourceType'
    BY <1>10 DEF Prepare, TypeInv, SourceType
  <2>5. PlaceType'
    BY <1>10 DEF Prepare, TypeInv, PlaceType, Working, Probing, Sealing, Unstarted, FileName, PayloadFile, Goto, probeVars, resultVars
  <2> QED BY <2>1, <2>2, <2>3, <2>4, <2>5 DEF TypeInv
<1>11. ASSUME NEW r \in Runner, StartProbe(r)
      PROVE  TypeInv'
  <2>1. ProbeType'
    BY <1>11, <1>1 DEF StartProbe, probeVars
  <2>2. ResultType'
    BY <1>11, <1>2 DEF StartProbe, resultVars
  <2>3. DiskType'
    BY <1>11, <1>3 DEF StartProbe, diskVars
  <2>4. SourceType'
    BY <1>11 DEF StartProbe, TypeInv, SourceType
  <2>5. PlaceType'
    BY <1>11, SuiteAssumption DEF StartProbe, TypeInv, PlaceType, Working, Probing, Sealing, Unstarted, FileName, PayloadFile, Goto, ProbeType, probeVars, resultVars
  <2> QED BY <2>1, <2>2, <2>3, <2>4, <2>5 DEF TypeInv
<1>12. ASSUME NEW r \in Runner, NEW outcome \in Stage, Understand(r, outcome)
      PROVE  TypeInv'
  <2>1. ProbeType'
    BY <1>12, BudgetType DEF Understand, TypeInv, ProbeType
  <2>2. ResultType'
    BY <1>12, <1>2 DEF Understand, resultVars
  <2>3. DiskType'
    BY <1>12, <1>3 DEF Understand, diskVars
  <2>4. SourceType'
    BY <1>12, <1>4 DEF Understand, sourceVars
  <2>5. PlaceType'
    BY <1>12 DEF Understand, TypeInv, PlaceType, Working, Probing, Sealing, Unstarted, FileName, PayloadFile, Goto, resultVars
  <2> QED BY <2>1, <2>2, <2>3, <2>4, <2>5 DEF TypeInv
<1>13. ASSUME NEW r \in Runner, NEW outcome \in Stage, Generate(r, outcome)
      PROVE  TypeInv'
  <2>1. ProbeType'
    BY <1>13, BudgetType DEF Generate, TypeInv, ProbeType
  <2>2. ResultType'
    BY <1>13, <1>2 DEF Generate, resultVars
  <2>3. DiskType'
    BY <1>13, <1>3 DEF Generate, diskVars
  <2>4. SourceType'
    BY <1>13, <1>4 DEF Generate, sourceVars
  <2>5. PlaceType'
    BY <1>13 DEF Generate, TypeInv, PlaceType, Working, Probing, Sealing, Unstarted, FileName, PayloadFile, Goto, resultVars
  <2> QED BY <2>1, <2>2, <2>3, <2>4, <2>5 DEF TypeInv
<1>14. ASSUME NEW r \in Runner, EndTurn(r)
      PROVE  TypeInv'
  <2>1. at[r] \in (1..Len(Suite) + 1) \X Nat /\ at \in [Runner -> (1..Len(Suite) + 1) \X Nat]
    BY DEF TypeInv, ProbeType
  <2>2. at' = at \/ at' = [at EXCEPT ![r] = [at[r] EXCEPT ![2] = at[r][2] + 1]]
    BY <1>14 DEF EndTurn
  <2>3. /\ [at[r] EXCEPT ![2] = at[r][2] + 1] \in (1..Len(Suite) + 1) \X Nat
        /\ [at[r] EXCEPT ![2] = at[r][2] + 1][1] = at[r][1]
    BY <2>1
  <2>4. at' \in [Runner -> (1..Len(Suite) + 1) \X Nat]
    BY <2>1, <2>2, <2>3
  <2>5. \A q \in Runner : at'[q][1] = at[q][1] /\ (q # r => at'[q] = at[q])
    BY <2>1, <2>2, <2>3
  <2>6. stages' \in [Runner -> SUBSET Stage]
    BY <1>14 DEF EndTurn, TypeInv, ProbeType, Stage
  <2>7. ProbeType'
    BY <1>14, <2>4, <2>6 DEF EndTurn, TypeInv, ProbeType
  <2>8. pc[r] = "turn" /\ \E place \in {"understanding", "observe"} : Goto(r, place)
    BY <1>14 DEF EndTurn
  <2>9. PlaceType'
    BY <1>14, <2>5, <2>8 DEF EndTurn, TypeInv, PlaceType, Working, Probing, Sealing, Unstarted,
       FileName, PayloadFile, Goto, resultVars
  <2>10. ResultType' /\ DiskType' /\ SourceType'
    BY <1>2, <1>3, <1>4, <1>14 DEF EndTurn
  <2> QED BY <2>7, <2>9, <2>10 DEF TypeInv
<1>15. ASSUME NEW r \in Runner, SkipProbe(r) \/ CollectValues(r) \/ ProbeFails(r)
       PROVE  TypeInv'
  <2>1. PICK status \in Status, outcome \in SUBSET Stage : Observing(r, status, outcome)
    BY <1>15, ObservingSteps
  <2>2. ProbeType'
    <3>1. at[r][1] + 1 \in 1..Len(Suite) + 1
      BY <2>1, ProbeIs, SuiteAssumption DEF Observing, TypeInv, ProbeType
    <3>2. <<at[r][1] + 1, 1>> \in (1..Len(Suite) + 1) \X Nat
      BY <3>1
    <3> QED BY <2>1, <3>2 DEF Observing, NextProbe, TypeInv, ProbeType
  <2>3. ResultType'
    BY <2>1, ObserveAdds, TypeParts DEF Observing, TypeInv, ResultType
  <2>4. DiskType' /\ SourceType'
    BY <2>1, <1>3, <1>4 DEF Observing
  <2>5. PlaceType'
    BY <2>1 DEF Observing, NextProbe, TypeInv, ProbeType, PlaceType, Working, Probing, Sealing,
       Unstarted, FileName, PayloadFile, Goto
  <2> QED BY <2>2, <2>3, <2>4, <2>5 DEF TypeInv
<1>16. ASSUME NEW r \in Runner, JournalValues(r)
      PROVE  TypeInv'
  <2>1. ProbeType'
    BY <1>16, ProbeIs DEF JournalValues, TypeInv, ProbeType, NextProbe, PlaceType, Probing
  <2>2. ResultType'
    BY <1>16, <1>2 DEF JournalValues, resultVars
  <2>3. DiskType'
    BY <1>16, <1>3 DEF JournalValues, diskVars
  <2>4. SourceType'
    BY <1>16, <1>4 DEF JournalValues, sourceVars
  <2>5. PlaceType'
    BY <1>16 DEF JournalValues, TypeInv, PlaceType, Working, Probing, Sealing, Unstarted, FileName, PayloadFile, Goto, NextProbe, ProbeType, resultVars
  <2> QED BY <2>1, <2>2, <2>3, <2>4, <2>5 DEF TypeInv
<1>17. ASSUME NEW r \in Runner, Grade(r)
      PROVE  TypeInv'
  <2>1. ProbeType'
    BY <1>17, <1>1 DEF Grade, probeVars
  <2>2. ResultType'
    BY <1>17, GradeIs DEF Grade, TypeInv, ResultType, Status
  <2>3. DiskType'
    BY <1>17, <1>3 DEF Grade, diskVars
  <2>4. SourceType'
    BY <1>17, <1>4 DEF Grade, sourceVars
  <2>5. PlaceType'
    BY <1>17, GradeIs DEF Grade, TypeInv, PlaceType, Working, Probing, Sealing, Unstarted, FileName, PayloadFile, Goto, ResultType, Status, probeVars
  <2> QED BY <2>1, <2>2, <2>3, <2>4, <2>5 DEF TypeInv
<1>18. ASSUME NEW r \in Runner, Compare(r)
      PROVE  TypeInv'
  <2>1. ProbeType'
    BY <1>18, <1>1 DEF Compare, probeVars
  <2>2. ResultType'
    BY <1>18, <1>2 DEF Compare, resultVars
  <2>3. DiskType'
    BY <1>18, <1>3 DEF Compare, diskVars
  <2>4. SourceType'
    BY <1>18, <1>4 DEF Compare, sourceVars
  <2>5. PlaceType'
    BY <1>18 DEF Compare, TypeInv, PlaceType, Working, Probing, Sealing, Unstarted, FileName, PayloadFile, Goto, probeVars, resultVars
  <2> QED BY <2>1, <2>2, <2>3, <2>4, <2>5 DEF TypeInv
<1>19. ASSUME NEW r \in Runner, MakeOut(r)
      PROVE  TypeInv'
  <2>1. ProbeType'
    BY <1>19, <1>1 DEF MakeOut, probeVars
  <2>2. ResultType'
    BY <1>19, <1>2 DEF MakeOut, resultVars
  <2>3. DiskType'
    BY <1>19 DEF MakeOut, TypeInv, DiskType
  <2>4. SourceType'
    BY <1>19, <1>4 DEF MakeOut, sourceVars
  <2>5. PlaceType'
    BY <1>19 DEF MakeOut, TypeInv, PlaceType, Working, Probing, Sealing, Unstarted, FileName, PayloadFile, Goto, probeVars, resultVars
  <2> QED BY <2>1, <2>2, <2>3, <2>4, <2>5 DEF TypeInv
<1>20. ASSUME NEW r \in Runner, NEW f \in FileName \ {"manifest.json"}, CreateFile(r, f)
      PROVE  TypeInv'
  <2>1. ProbeType'
    BY <1>20, <1>1 DEF CreateFile, probeVars
  <2>2. ResultType'
    BY <1>20, <1>2 DEF CreateFile, resultVars
  <2>3. DiskType'
    BY <1>20 DEF CreateFile, TypeInv, DiskType, ResultType, PlaceType, Sealing, Written
  <2>4. SourceType'
    BY <1>20, <1>4 DEF CreateFile, sourceVars
  <2>5. PlaceType'
    BY <1>20 DEF CreateFile, TypeInv, PlaceType, Working, Probing, Sealing, Unstarted, FileName, PayloadFile, Goto, probeVars, resultVars
  <2> QED BY <2>1, <2>2, <2>3, <2>4, <2>5 DEF TypeInv
<1>21. ASSUME NEW r \in Runner, NEW f \in FileName \ {"manifest.json"}, SyncFile(r, f)
      PROVE  TypeInv'
  <2>1. ProbeType'
    BY <1>21, <1>1 DEF SyncFile, probeVars
  <2>2. ResultType'
    BY <1>21, <1>2 DEF SyncFile, resultVars
  <2>3. DiskType'
    BY <1>21 DEF SyncFile, TypeInv, DiskType
  <2>4. SourceType'
    BY <1>21, <1>4 DEF SyncFile, sourceVars
  <2>5. PlaceType'
    BY <1>21 DEF SyncFile, TypeInv, PlaceType, Working, Probing, Sealing, Unstarted, FileName, PayloadFile, Goto, After, probeVars, resultVars
  <2> QED BY <2>1, <2>2, <2>3, <2>4, <2>5 DEF TypeInv
<1>22. ASSUME NEW r \in Runner, RenameManifest(r)
      PROVE  TypeInv'
  <2>1. ProbeType'
    BY <1>22, <1>1 DEF RenameManifest, probeVars
  <2>2. ResultType'
    BY <1>22, <1>2 DEF RenameManifest, resultVars
  <2>3. DiskType'
    BY <1>22 DEF RenameManifest, TypeInv, DiskType, FileName
  <2>4. SourceType'
    BY <1>22, <1>4 DEF RenameManifest, sourceVars
  <2>5. PlaceType'
    BY <1>22 DEF RenameManifest, TypeInv, PlaceType, Working, Probing, Sealing, Unstarted, FileName, PayloadFile, Goto, probeVars, resultVars
  <2> QED BY <2>1, <2>2, <2>3, <2>4, <2>5 DEF TypeInv
<1>23. ASSUME NEW r \in Runner, Verify(r)
      PROVE  TypeInv'
  <2>1. ProbeType'
    BY <1>23, <1>1 DEF Verify, probeVars
  <2>2. ResultType'
    BY <1>23, <1>2 DEF Verify, resultVars
  <2>3. DiskType'
    BY <1>23 DEF Verify, TypeInv, DiskType, Record
  <2>4. SourceType'
    BY <1>23, <1>4 DEF Verify, sourceVars
  <2>5. PlaceType'
    BY <1>23 DEF Verify, TypeInv, PlaceType, Working, Probing, Sealing, Unstarted, FileName, PayloadFile, Goto, End, probeVars, resultVars
  <2> QED BY <2>1, <2>2, <2>3, <2>4, <2>5 DEF TypeInv
<1>24. ASSUME NEW r \in Runner, RunRaises(r)
      PROVE  TypeInv'
  <2>1. ProbeType'
    BY <1>24, <1>1 DEF RunRaises, probeVars
  <2>2. ResultType'
    BY <1>24, <1>2 DEF RunRaises, resultVars
  <2>3. DiskType'
    BY <1>24 DEF RunRaises, TypeInv, DiskType, Record
  <2>4. SourceType'
    BY <1>24, <1>4 DEF RunRaises, sourceVars
  <2>5. PlaceType'
    BY <1>24 DEF RunRaises, TypeInv, PlaceType, Working, Probing, Sealing, Unstarted, FileName, PayloadFile, Goto, End, probeVars, resultVars
  <2> QED BY <2>1, <2>2, <2>3, <2>4, <2>5 DEF TypeInv
<1>25. ASSUME NEW r \in Runner, Crash(r)
      PROVE  TypeInv'
  <2>1. ProbeType'
    BY <1>25, <1>1 DEF Crash, probeVars
  <2>2. ResultType'
    BY <1>25, <1>2 DEF Crash, resultVars
  <2>3. DiskType'
    BY <1>25, <1>3 DEF Crash, diskVars
  <2>4. SourceType'
    BY <1>25, <1>4 DEF Crash, sourceVars
  <2>5. PlaceType'
    BY <1>25 DEF Crash, TypeInv, PlaceType, Working, Probing, Sealing, Unstarted, FileName, PayloadFile, Goto, probeVars, resultVars
  <2> QED BY <2>1, <2>2, <2>3, <2>4, <2>5 DEF TypeInv
<1> QED
  BY <1>5, <1>6, <1>7, <1>8, <1>9, <1>10, <1>11, <1>12, <1>13, <1>14, <1>15, <1>16, <1>17, <1>18, <1>19, <1>20, <1>21, <1>22, <1>23, <1>24, <1>25 DEF Next, Step, Probes, Seals

-----------------------------------------------------------------------------
SameOf(q) ==
  /\ pc'[q] = pc[q] /\ exit'[q] = exit[q]
  /\ at'[q] = at[q] /\ budget'[q] = budget[q] /\ stages'[q] = stages[q]
  /\ observations'[q] = observations[q] /\ rows'[q] = rows[q]
  /\ prints'[q] = prints[q] /\ seen'[q] = seen[q]

\* A process changes what is its own, apart from the disk.
LEMMA OthersStay ==
  ASSUME TypeInv, NEW r \in Runner, Step(r) \/ Crash(r), NEW q \in Runner \ {r}
  PROVE  SameOf(q)
<1> USE DEF TypeInv, ProbeType, ResultType, SourceType, PlaceType
<1>1. ASSUME CheckOut(r)
      PROVE  SameOf(q)
  BY <1>1 DEF SameOf, CheckOut, Goto, probeVars, resultVars, diskVars, sourceVars
<1>2. ASSUME RefuseExisting(r)
      PROVE  SameOf(q)
  BY <1>2 DEF SameOf, RefuseExisting, Goto, probeVars, resultVars, diskVars, sourceVars, End
<1>3. ASSUME ClaimDiagnostics(r)
      PROVE  SameOf(q)
  BY <1>3 DEF SameOf, ClaimDiagnostics, Goto, probeVars, resultVars, diskVars, sourceVars, Record
<1>4. ASSUME Prepare(r)
      PROVE  SameOf(q)
  BY <1>4 DEF SameOf, Prepare, Goto, probeVars, resultVars, diskVars, sourceVars
<1>5. ASSUME StartProbe(r)
      PROVE  SameOf(q)
  BY <1>5 DEF SameOf, StartProbe, Goto, probeVars, resultVars, diskVars, sourceVars
<1>6. ASSUME NEW outcome \in Stage, Understand(r, outcome)
      PROVE  SameOf(q)
  BY <1>6 DEF SameOf, Understand, Goto, probeVars, resultVars, diskVars, sourceVars, Request, Refuse
<1>7. ASSUME NEW outcome \in Stage, Generate(r, outcome)
      PROVE  SameOf(q)
  BY <1>7 DEF SameOf, Generate, Goto, probeVars, resultVars, diskVars, sourceVars, Request, Refuse
<1>8. ASSUME EndTurn(r)
      PROVE  SameOf(q)
  BY <1>8 DEF SameOf, EndTurn, Goto, probeVars, resultVars, diskVars, sourceVars
<1>9. ASSUME SkipProbe(r) \/ CollectValues(r) \/ ProbeFails(r)
      PROVE  SameOf(q)
  BY <1>9 DEF SameOf, SkipProbe, CollectValues, ProbeFails, Goto, probeVars, resultVars, diskVars, sourceVars, Observe, NextProbe
<1>10. ASSUME JournalValues(r)
      PROVE  SameOf(q)
  BY <1>10 DEF SameOf, JournalValues, Goto, probeVars, resultVars, diskVars, sourceVars, NextProbe
<1>11. ASSUME Grade(r)
      PROVE  SameOf(q)
  BY <1>11 DEF SameOf, Grade, Goto, probeVars, resultVars, diskVars, sourceVars
<1>12. ASSUME Compare(r)
      PROVE  SameOf(q)
  BY <1>12 DEF SameOf, Compare, Goto, probeVars, resultVars, diskVars, sourceVars
<1>13. ASSUME MakeOut(r)
      PROVE  SameOf(q)
  BY <1>13 DEF SameOf, MakeOut, Goto, probeVars, resultVars, diskVars, sourceVars
<1>14. ASSUME NEW f \in FileName \ {"manifest.json"}, CreateFile(r, f)
      PROVE  SameOf(q)
  BY <1>14 DEF SameOf, CreateFile, Goto, probeVars, resultVars, diskVars, sourceVars
<1>15. ASSUME NEW f \in FileName \ {"manifest.json"}, SyncFile(r, f)
      PROVE  SameOf(q)
  BY <1>15 DEF SameOf, SyncFile, Goto, probeVars, resultVars, diskVars, sourceVars
<1>16. ASSUME RenameManifest(r)
      PROVE  SameOf(q)
  BY <1>16 DEF SameOf, RenameManifest, Goto, probeVars, resultVars, diskVars, sourceVars
<1>17. ASSUME Verify(r)
      PROVE  SameOf(q)
  BY <1>17 DEF SameOf, Verify, Goto, probeVars, resultVars, diskVars, sourceVars, Record, End
<1>18. ASSUME RunRaises(r)
      PROVE  SameOf(q)
  BY <1>18 DEF SameOf, RunRaises, Goto, probeVars, resultVars, diskVars, sourceVars, Record, End
<1>19. ASSUME Crash(r)
      PROVE  SameOf(q)
  BY <1>19 DEF SameOf, Crash, Goto, probeVars, resultVars, diskVars, sourceVars
<1> QED
  BY <1>1, <1>2, <1>3, <1>4, <1>5, <1>6, <1>7, <1>8, <1>9, <1>10, <1>11, <1>12, <1>13, <1>14, <1>15, <1>16, <1>17, <1>18, <1>19 DEF Step, Probes, Seals

\* A process waits for its turn, claims the directory, or works in it.
LEMMA OwnSteps ==
  ASSUME TypeInv, NEW r \in Runner, Step(r) \/ Crash(r)
  PROVE  \/ /\ pc[r] \in {"idle", "claim"} /\ pc'[r] \in {"claim", "ended"}
            /\ UNCHANGED diskVars /\ (exit'[r] = 0 => exit[r] = 0)
         \/ ClaimDiagnostics(r)
         \/ /\ pc[r] \in Working /\ pc'[r] \in (Working \ {"prepare"}) \cup {"ended", "dead"}
            /\ diagnostics' = diagnostics
            /\ \A e \in journal' : e \in journal \/ e[1] = r
            /\ exit'[r] = 0 => Verify(r) \/ exit[r] = 0
<1> USE DEF TypeInv, PlaceType, Working, FileName, PayloadFile
<1> DEFINE Works ==
      /\ pc[r] \in Working /\ pc'[r] \in (Working \ {"prepare"}) \cup {"ended", "dead"}
      /\ diagnostics' = diagnostics
      /\ \A e \in journal' : e \in journal \/ e[1] = r
      /\ exit'[r] = 0 => Verify(r) \/ exit[r] = 0
<1>1. ASSUME CheckOut(r)
      PROVE  /\ pc[r] \in {"idle", "claim"} /\ pc'[r] \in {"claim", "ended"}
             /\ UNCHANGED diskVars /\ (exit'[r] = 0 => exit[r] = 0)
  BY <1>1 DEF CheckOut, Goto, diskVars
<1>2. ASSUME RefuseExisting(r)
      PROVE  /\ pc[r] \in {"idle", "claim"} /\ pc'[r] \in {"claim", "ended"}
             /\ UNCHANGED diskVars /\ (exit'[r] = 0 => exit[r] = 0)
  BY <1>2 DEF RefuseExisting, Goto, diskVars, End
<1>3. ASSUME Prepare(r)
      PROVE  Works
  BY <1>3 DEF Prepare, Goto, diskVars
<1>4. ASSUME StartProbe(r)
      PROVE  Works
  BY <1>4 DEF StartProbe, Goto, diskVars
<1>5. ASSUME NEW outcome \in Stage, Understand(r, outcome)
      PROVE  Works
  BY <1>5 DEF Understand, Goto, diskVars
<1>6. ASSUME NEW outcome \in Stage, Generate(r, outcome)
      PROVE  Works
  BY <1>6 DEF Generate, Goto, diskVars
<1>7. ASSUME EndTurn(r)
      PROVE  Works
  BY <1>7 DEF EndTurn, Goto, diskVars
<1>8. ASSUME SkipProbe(r) \/ CollectValues(r) \/ ProbeFails(r)
      PROVE  Works
  BY <1>8 DEF SkipProbe, CollectValues, ProbeFails, Goto, diskVars, NextProbe
<1>9. ASSUME JournalValues(r)
      PROVE  Works
  BY <1>9 DEF JournalValues, Goto, diskVars, NextProbe
<1>10. ASSUME Grade(r)
      PROVE  Works
  BY <1>10 DEF Grade, Goto, diskVars
<1>11. ASSUME Compare(r)
      PROVE  Works
  BY <1>11 DEF Compare, Goto, diskVars
<1>12. ASSUME MakeOut(r)
      PROVE  Works
  BY <1>12 DEF MakeOut, Goto, diskVars
<1>13. ASSUME NEW f \in FileName \ {"manifest.json"}, CreateFile(r, f)
      PROVE  Works
  BY <1>13 DEF CreateFile, Goto, diskVars
<1>14. ASSUME NEW f \in FileName \ {"manifest.json"}, SyncFile(r, f)
      PROVE  Works
  BY <1>14 DEF SyncFile, Goto, diskVars, After
<1>15. ASSUME RenameManifest(r)
      PROVE  Works
  BY <1>15 DEF RenameManifest, Goto, diskVars
<1>16. ASSUME Verify(r)
      PROVE  Works
  BY <1>16 DEF Verify, Goto, diskVars, Record, End
<1>17. ASSUME RunRaises(r)
      PROVE  Works
  BY <1>17 DEF RunRaises, Goto, diskVars, Record, End
<1>18. ASSUME Crash(r)
      PROVE  Works
  BY <1>18 DEF Crash, Goto, diskVars
<1> HIDE DEF Works
<1> QED
  BY <1>1, <1>2, <1>3, <1>4, <1>5, <1>6, <1>7, <1>8, <1>9, <1>10, <1>11, <1>12, <1>13, <1>14, <1>15, <1>16, <1>17, <1>18 DEF Step, Probes, Seals, Works

-----------------------------------------------------------------------------
\* At most one process ever works in the directory.
LEMMA ClaimStep == TypeInv /\ ClaimInv /\ [Next]_vars => ClaimInv'
<1> SUFFICES ASSUME TypeInv, ClaimInv, [Next]_vars PROVE ClaimInv'
  OBVIOUS
<1>1. CASE UNCHANGED vars \/ Edit
  BY <1>1 DEF Edit, ClaimInv, vars, diskVars
<1>2. ASSUME NEW r \in Runner, Step(r) \/ Crash(r) PROVE ClaimInv'
  <2>1. \A q \in Runner \ {r} : pc'[q] = pc[q] /\ exit'[q] = exit[q]
    BY <1>2, OthersStay DEF SameOf
  <2>2. CASE /\ pc[r] \in {"idle", "claim"} /\ pc'[r] \in {"claim", "ended"}
             /\ UNCHANGED diskVars /\ (exit'[r] = 0 => exit[r] = 0)
    BY <2>1, <2>2 DEF ClaimInv, diskVars, Working, FileName, PayloadFile
  <2>3. CASE ClaimDiagnostics(r)
    <3>1. \A q \in Runner \ {r} : pc[q] \notin Working \cup {"dead"} /\ exit[q] # 0
      BY <2>3, NoResultAssumption DEF ClaimInv, ClaimDiagnostics, FreshDiagnostics
    <3>2. journal = {}
      <4> SUFFICES ASSUME NEW e \in journal PROVE FALSE
        OBVIOUS
      <4>1. e[1] \in Runner /\ e[1] = None
        BY <2>3 DEF ClaimInv, ClaimDiagnostics, FreshDiagnostics, TypeInv, DiskType
      <4> QED BY <4>1, NoResultAssumption
    <3>3. journal' = {<<r, "started">>} /\ diagnostics' = r /\ exit' = exit /\ pc[r] = "claim"
      BY <2>3, <3>2 DEF ClaimDiagnostics, Record
    <3> QED BY <2>1, <3>1, <3>3 DEF ClaimInv
  <2>4. CASE /\ pc[r] \in Working /\ pc'[r] \in (Working \ {"prepare"}) \cup {"ended", "dead"}
             /\ diagnostics' = diagnostics
             /\ \A e \in journal' : e \in journal \/ e[1] = r
             /\ exit'[r] = 0 => Verify(r) \/ exit[r] = 0
    <3>1. diagnostics = r
      BY <2>4 DEF ClaimInv
    <3>2. exit'[r] = 0 => pc'[r] = "ended"
      BY <2>4 DEF ClaimInv, Verify, End, Goto, TypeInv, PlaceType, Working, FileName, PayloadFile
    <3> QED BY <2>1, <2>4, <3>1, <3>2 DEF ClaimInv
  <2> QED BY <1>2, <2>2, <2>3, <2>4, OwnSteps
<1> QED BY <1>1, <1>2 DEF Next

-----------------------------------------------------------------------------
\* Where a process may go from where it is, with the versions it has seen.
SameVersions(r) == seen'[r] = seen[r] /\ prints'[r] = prints[r]
LEMMA Moves ==
  ASSUME TypeInv, NEW r \in Runner, Step(r) \/ Crash(r)
  PROVE  /\ files' = files
         /\ \/ Prepare(r) \/ StartProbe(r) \/ Compare(r)
            \/ /\ SameVersions(r)
               /\ \/ pc'[r] \in {"ended", "dead"}
                  \/ pc[r] \in Unstarted /\ pc'[r] \in Unstarted
                  \/ /\ pc[r] \in Probing \cup {"next"}
                     /\ pc'[r] \in Probing \cup {"next"} \/ Grade(r)
                  \/ pc[r] \in Sealing \ {"compare"} /\ pc'[r] \in Sealing \ {"compare"}
<1> DEFINE Moved ==
      /\ files' = files
      /\ SameVersions(r)
      /\ \/ pc'[r] \in {"ended", "dead"}
         \/ pc[r] \in Unstarted /\ pc'[r] \in Unstarted
         \/ /\ pc[r] \in Probing \cup {"next"}
            /\ pc'[r] \in Probing \cup {"next"} \/ Grade(r)
         \/ pc[r] \in Sealing \ {"compare"} /\ pc'[r] \in Sealing \ {"compare"}
<1> USE DEF TypeInv, PlaceType, FileName, PayloadFile, Unstarted, Probing, Sealing,
        SameVersions, sourceVars
<1>1. ASSUME CheckOut(r)
      PROVE  Moved
  BY <1>1 DEF CheckOut, Goto
<1>2. ASSUME RefuseExisting(r)
      PROVE  Moved
  BY <1>2 DEF RefuseExisting, Goto, End
<1>3. ASSUME ClaimDiagnostics(r)
      PROVE  Moved
  BY <1>3 DEF ClaimDiagnostics, Goto
<1>4. ASSUME NEW outcome \in Stage, Understand(r, outcome)
      PROVE  Moved
  BY <1>4 DEF Understand, Goto
<1>5. ASSUME NEW outcome \in Stage, Generate(r, outcome)
      PROVE  Moved
  BY <1>5 DEF Generate, Goto
<1>6. ASSUME EndTurn(r)
      PROVE  Moved
  BY <1>6 DEF EndTurn, Goto
<1>7. ASSUME SkipProbe(r) \/ CollectValues(r) \/ ProbeFails(r)
      PROVE  Moved
  BY <1>7 DEF SkipProbe, CollectValues, ProbeFails, Goto, NextProbe
<1>8. ASSUME JournalValues(r)
      PROVE  Moved
  BY <1>8 DEF JournalValues, Goto, NextProbe
<1>9. ASSUME Grade(r)
      PROVE  Moved
  BY <1>9 DEF Grade, Goto
<1>10. ASSUME MakeOut(r)
      PROVE  Moved
  BY <1>10 DEF MakeOut, Goto
<1>11. ASSUME NEW f \in FileName \ {"manifest.json"}, CreateFile(r, f)
      PROVE  Moved
  BY <1>11 DEF CreateFile, Goto
<1>12. ASSUME NEW f \in FileName \ {"manifest.json"}, SyncFile(r, f)
      PROVE  Moved
  BY <1>12 DEF SyncFile, Goto, After
<1>13. ASSUME RenameManifest(r)
      PROVE  Moved
  BY <1>13 DEF RenameManifest, Goto
<1>14. ASSUME Verify(r)
      PROVE  Moved
  BY <1>14 DEF Verify, Goto, End
<1>15. ASSUME RunRaises(r)
      PROVE  Moved
  BY <1>15 DEF RunRaises, Goto, End
<1>16. ASSUME Crash(r)
      PROVE  Moved
  BY <1>16 DEF Crash, Goto
<1>17. Prepare(r) \/ StartProbe(r) \/ Compare(r) => files' = files
  BY DEF Prepare, StartProbe, Compare
<1> HIDE DEF Moved
<1> QED
  BY <1>1, <1>2, <1>3, <1>4, <1>5, <1>6, <1>7, <1>8, <1>9, <1>10, <1>11, <1>12, <1>13, <1>14, <1>15, <1>16, <1>17 DEF Step, Probes, Seals, Moved

\* The versions a process ran on lie between its fingerprints and the files.
LEMMA PrintStep == TypeInv /\ PrintInv /\ [Next]_vars => PrintInv'
<1> SUFFICES ASSUME TypeInv, PrintInv, [Next]_vars PROVE PrintInv'
  OBVIOUS
<1>1. files \in Nat /\ \A r \in Runner : PrintOf(r)
  BY LimitAssumption DEF TypeInv, SourceType, PrintInv
<1>2. CASE UNCHANGED vars
  BY <1>1, <1>2 DEF PrintInv, PrintOf, vars, sourceVars
<1>3. CASE Edit
  <2>1. ASSUME NEW r \in Runner PROVE PrintOf(r)'
    <3>1. seen[r] \subseteq Nat
      BY LimitAssumption DEF TypeInv, SourceType
    <3>2. /\ pc'[r] = pc[r] /\ seen'[r] = seen[r] /\ prints'[r] = prints[r]
          /\ files' = files + 1
      BY <1>3 DEF Edit
    <3>3. 0..files \subseteq 0..files'
      BY <1>1, <3>2
    <3> QED BY <1>1, <3>1, <3>2, <3>3 DEF PrintOf
  <2> QED BY <2>1 DEF PrintInv
<1>4. ASSUME NEW r \in Runner, Step(r) \/ Crash(r) PROVE PrintInv'
  <2>1. files' = files
    BY <1>4, Moves
  <2>2. ASSUME NEW q \in Runner \ {r} PROVE PrintOf(q)'
    <3>1. SameOf(q)
      BY <1>4, OthersStay
    <3> QED BY <1>1, <2>1, <3>1 DEF SameOf, PrintOf
  <2>3. PrintOf(r)'
    <3> USE DEF TypeInv, PlaceType, SourceType, Unstarted, Probing, Sealing, FileName, PayloadFile
    <3>1. CASE Prepare(r)
      BY <1>1, <2>1, <3>1 DEF Prepare, Goto, PrintOf
    <3>2. CASE StartProbe(r)
      BY <1>1, <2>1, <3>2 DEF StartProbe, Goto, PrintOf
    <3>3. CASE Compare(r)
      BY <1>1, <2>1, <3>3 DEF Compare, SameFiles, Goto, PrintOf, sourceVars
    <3>4. CASE /\ SameVersions(r)
               /\ \/ pc'[r] \in {"ended", "dead"}
                  \/ pc[r] \in Unstarted /\ pc'[r] \in Unstarted
                  \/ /\ pc[r] \in Probing \cup {"next"}
                     /\ pc'[r] \in Probing \cup {"next"} \/ Grade(r)
                  \/ pc[r] \in Sealing \ {"compare"} /\ pc'[r] \in Sealing \ {"compare"}
      <4>1. Grade(r) => pc'[r] = "compare"
        BY DEF Grade, Goto
      <4> QED BY <1>1, <2>1, <3>4, <4>1 DEF PrintOf, SameVersions
    <3> QED BY <1>4, <3>1, <3>2, <3>3, <3>4, Moves
  <2> QED BY <2>2, <2>3 DEF PrintInv
<1> QED BY <1>2, <1>3, <1>4 DEF Next

-----------------------------------------------------------------------------
\* The list of a process that leaves it alone, by where the process goes.
LEMMA ListKept ==
  ASSUME TypeInv, NEW r \in Runner, ListInv(r),
         observations'[r] = observations[r], at'[r][1] = at[r][1],
         budget[r].exhausted = TRUE => budget'[r].exhausted = TRUE,
         \/ pc'[r] \in {"ended", "dead"} \cup Sealing
         \/ pc[r] \in Probing \ {"journal"} /\ pc'[r] \in Probing \ {"journal"}
         \/ pc'[r] = pc[r] /\ stages'[r] = stages[r],
         StagesOf(r)'
  PROVE  ListInv(r)'
<1>1. \A o : ItemOf(r, o) => ItemOf(r, o)'
  BY DEF ItemOf, Probing, Sealing, FileName, PayloadFile
<1>2. pc'[r] = "journal" => pc[r] = "journal"
  BY DEF Probing, Sealing, FileName, PayloadFile
<1> QED BY <1>1, <1>2 DEF ListInv, PairOf

\* The list of a process that adds observations of the probe it is at.
LEMMA ListGrows ==
  ASSUME TypeInv, NEW r \in Runner, ListInv(r),
         SkipProbe(r) \/ CollectValues(r) \/ ProbeFails(r)
  PROVE  ListInv(r)'
<1> DEFINE k == at[r][1]
<1>20. PICK old : old = observations[r]
  OBVIOUS
<1>21. PICK new : new = observations'[r]
  OBVIOUS
<1>1. PICK status \in Status, outcome \in SUBSET Stage :
        /\ Observing(r, status, outcome)
        /\ pc[r] = "next" => status = "not_run" /\ outcome = {}
        /\ pc[r] # "next" =>
             /\ outcome = stages[r]
             /\ Current(r).kind = "direct" /\ "refused" \in outcome =>
                  status # "completed"
  BY ObservingSteps
<1>2. k \in DOMAIN Suite /\ k \in Nat /\ pc[r] \in Probing \cup {"next"}
  BY <1>1, ProbeIs DEF Observing
<1>3. /\ old \in Seq(Observation)
      /\ new \in Seq(Observation)
      /\ Len(old) \in Nat
      /\ Len(new) \in Nat
      /\ Len(old) < Len(new)
      /\ \A i \in 1..Len(old) : new[i] = old[i]
      /\ \A i \in Len(old) + 1 .. Len(new) :
           /\ new[i].probe = k
           /\ new[i].status = status
           /\ new[i].stages = outcome
           /\ new[i].checkpoint \in Suite[k].checkpoints
  <2>1. /\ observations \in [Runner -> Seq(Observation)]
        /\ observations' \in [Runner -> Seq(Observation)]
        /\ Len(observations[r]) \in Nat
        /\ Len(observations'[r]) \in Nat
        /\ Len(observations[r]) < Len(observations'[r])
        /\ \A i \in 1..Len(observations[r]) : observations'[r][i] = observations[r][i]
        /\ \A i \in Len(observations[r]) + 1 .. Len(observations'[r]) :
             /\ observations'[r][i].probe = at[r][1]
             /\ observations'[r][i].status = status
             /\ observations'[r][i].stages = outcome
             /\ observations'[r][i].checkpoint \in Current(r).checkpoints
    BY <1>1, ObserveAdds, TypeParts DEF Observing, TypeInv, ResultType
  <2> QED BY <2>1, <1>20, <1>21 DEF Current
<1>4. budget' = budget
  BY <1>1 DEF Observing
<1>5. \/ at'[r][1] = k + 1 /\ stages'[r] = {} /\ pc'[r] = "next"
      \/ /\ at'[r] = at[r] /\ stages'[r] = stages[r]
         /\ pc[r] = "observe" /\ pc'[r] = "journal"
  BY <1>1 DEF Observing, NextProbe, Goto, TypeInv, ProbeType, PlaceType
<1>6. StagesOf(r)'
  BY <1>2, <1>4, <1>5 DEF StagesOf, ListInv, Unstarted, Probing, Current
<1>7. \A i \in 1..Len(old) : ItemOf(r, old[i]) /\ old[i].probe \in Nat
  <2>1. ASSUME NEW i \in 1..Len(old) PROVE old[i].probe \in Nat
    <3>1. old[i] \in Observation
      BY <1>3
    <3> QED BY <3>1, ProbeIs DEF Observation
  <2> QED BY <1>3, <1>20, <2>1 DEF ListInv
<1>8. "refused" \in outcome =>
        /\ budget[r].exhausted = TRUE
        /\ Suite[k].kind # "plain"
        /\ Suite[k].kind = "direct" => status # "completed"
  BY <1>1, <1>2 DEF ListInv, StagesOf, Current
<1>9. ASSUME NEW i \in 1..Len(old) PROVE ItemOf(r, old[i])'
  BY <1>2, <1>4, <1>5, <1>7 DEF ItemOf, Probing
<1>10. ASSUME NEW i \in Len(old) + 1 .. Len(new) PROVE ItemOf(r, new[i])'
  BY <1>1, <1>2, <1>3, <1>4, <1>5, <1>8 DEF ItemOf, Probing
<1>11. \A i \in 1..Len(new) : i \in 1..Len(old) \/ i \in Len(old) + 1 .. Len(new)
  BY <1>3
<1>12. \A i \in 1..Len(new) : ItemOf(r, new[i])'
  BY <1>3, <1>9, <1>10, <1>11
<1>13. ASSUME NEW i \in 1..Len(old), NEW j \in Len(old) + 1 .. Len(new)
       PROVE  PairOf(new[i], new[j]) /\ PairOf(new[j], new[i])
  <2>1. new[i] = old[i] /\ old[i].probe \in Nat /\ old[i].probe <= k
    BY <1>2, <1>3, <1>7 DEF ItemOf
  <2>2. /\ new[j].probe = k /\ new[j].stages = outcome /\ new[j].status = status
    BY <1>3
  <2>3. ~(k < old[i].probe)
    BY <1>2, <2>1
  <2>4. old[i].probe = k => pc[r] = "journal" /\ old[i].stages = outcome
    BY <1>1, <1>2, <1>7, <2>1 DEF ItemOf, Probing
  <2>5. "refused" \in old[i].stages /\ old[i].probe < k => status = "not_run"
    BY <1>1, <1>2, <1>7, <2>1 DEF ItemOf
  <2> QED BY <2>1, <2>2, <2>3, <2>4, <2>5 DEF PairOf
<1>14. \A i, j \in 1..Len(old) : PairOf(old[i], old[j])
  BY <1>3, <1>20 DEF ListInv
<1>15. \A i, j \in Len(old) + 1 .. Len(new) : PairOf(new[i], new[j])
  BY <1>2, <1>3 DEF PairOf
<1>16. \A i, j \in 1..Len(new) : PairOf(new[i], new[j])
  BY <1>3, <1>11, <1>13, <1>14, <1>15
<1>17. ASSUME NEW p \in DOMAIN Suite,
              p < at'[r][1] \/ (p = at'[r][1] /\ pc'[r] = "journal")
       PROVE  \E i \in 1..Len(new) : new[i].probe = p
  <2>1. p \in Nat /\ (p < k \/ p = k)
    BY <1>2, <1>5, <1>17, ProbeIs
  <2>2. CASE p = k
    <3>1. Len(old) + 1 \in Len(old) + 1 .. Len(new) /\ Len(old) + 1 \in 1..Len(new)
      BY <1>3
    <3> QED BY <1>3, <2>2, <3>1
  <2>3. CASE p < k
    <3>1. PICK i \in 1..Len(old) : old[i].probe = p
      BY <1>3, <1>20, <2>3 DEF ListInv
    <3>2. i \in 1..Len(new) /\ new[i] = old[i]
      BY <1>3
    <3> QED BY <3>1, <3>2
  <2> QED BY <2>1, <2>2, <2>3
<1>18. DOMAIN new = 1..Len(new)
  BY <1>3
<1> HIDE DEF k
<1>19. /\ \A i \in DOMAIN new : ItemOf(r, new[i])'
       /\ \A i, j \in DOMAIN new : PairOf(new[i], new[j])
       /\ \A p \in DOMAIN Suite :
            p < at'[r][1] \/ (p = at'[r][1] /\ pc'[r] = "journal") =>
              \E i \in DOMAIN new : new[i].probe = p
  BY <1>12, <1>16, <1>17, <1>18
<1> QED BY <1>6, <1>19, <1>21 DEF ListInv, PairOf

\* What an untouched list needs of the probe's requests at the new place.
LEMMA StagesKept ==
  ASSUME TypeInv, NEW r \in Runner, StagesOf(r),
         observations'[r] = observations[r], stages'[r] = stages[r], at'[r] = at[r],
         budget'[r] = budget[r],
         \/ pc'[r] \in {"ended", "dead"} \cup Sealing
         \/ pc[r] \in Unstarted /\ pc'[r] \in Unstarted \cup {"next"}
         \/ pc'[r] = pc[r]
  PROVE  StagesOf(r)'
BY DEF StagesOf, Unstarted, Probing, Sealing, FileName, PayloadFile, Current

LEMMA ListStep ==
  ASSUME TypeInv, NEW r \in Runner, ListInv(r), Step(r) \/ Crash(r)
  PROVE  ListInv(r)'
<1> DEFINE Frame == /\ observations' = observations /\ stages' = stages /\ at' = at
                    /\ budget' = budget
<1>1. StagesOf(r)
  BY DEF ListInv
<1>2. ASSUME Frame, \/ pc'[r] \in {"ended", "dead"} \cup Sealing
                    \/ pc'[r] = pc[r]
      PROVE  ListInv(r)'
  BY <1>1, <1>2, StagesKept, ListKept
<1>3. ASSUME Frame, pc[r] \in Unstarted, pc'[r] \in Unstarted \cup {"next"}
      PROVE  ListInv(r)'
  <2>1. StagesOf(r)'
    BY <1>1, <1>3, StagesKept
  <2>2. observations'[r] = <<>> /\ at'[r] = <<1, 1>>
    BY <1>1, <1>3 DEF StagesOf, TypeInv, PlaceType
  <2>3. \A q \in DOMAIN Suite : ~(q < 1)
    BY SuiteAssumption
  <2>4. pc'[r] # "journal"
    BY <1>3 DEF Unstarted
  <2>5. DOMAIN observations'[r] = {}
    BY <2>2
  <2> QED BY <2>1, <2>2, <2>3, <2>4, <2>5 DEF ListInv
<1> USE DEF probeVars, resultVars
<1>4. ASSUME CheckOut(r)
      PROVE  ListInv(r)'
  BY <1>3, <1>4 DEF CheckOut, Goto, TypeInv, PlaceType, Unstarted, Sealing, FileName, PayloadFile
<1>5. ASSUME RefuseExisting(r)
      PROVE  ListInv(r)'
  BY <1>2, <1>5 DEF RefuseExisting, Goto, TypeInv, PlaceType, Unstarted, Sealing, FileName, PayloadFile, End
<1>6. ASSUME ClaimDiagnostics(r)
      PROVE  ListInv(r)'
  BY <1>3, <1>6 DEF ClaimDiagnostics, Goto, TypeInv, PlaceType, Unstarted, Sealing, FileName, PayloadFile
<1>7. ASSUME Prepare(r)
      PROVE  ListInv(r)'
  BY <1>3, <1>7 DEF Prepare, Goto, TypeInv, PlaceType, Unstarted, Sealing, FileName, PayloadFile
<1>8. ASSUME Grade(r)
      PROVE  ListInv(r)'
  BY <1>2, <1>8 DEF Grade, Goto, TypeInv, PlaceType, Unstarted, Sealing, FileName, PayloadFile
<1>9. ASSUME Compare(r)
      PROVE  ListInv(r)'
  BY <1>2, <1>9 DEF Compare, Goto, TypeInv, PlaceType, Unstarted, Sealing, FileName, PayloadFile
<1>10. ASSUME MakeOut(r)
      PROVE  ListInv(r)'
  BY <1>2, <1>10 DEF MakeOut, Goto, TypeInv, PlaceType, Unstarted, Sealing, FileName, PayloadFile
<1>11. ASSUME NEW f \in FileName \ {"manifest.json"}, CreateFile(r, f)
      PROVE  ListInv(r)'
  BY <1>2, <1>11 DEF CreateFile, Goto, TypeInv, PlaceType, Unstarted, Sealing, FileName, PayloadFile
<1>12. ASSUME NEW f \in FileName \ {"manifest.json"}, SyncFile(r, f)
      PROVE  ListInv(r)'
  BY <1>2, <1>12 DEF SyncFile, Goto, TypeInv, PlaceType, Unstarted, Sealing, FileName, PayloadFile, After
<1>13. ASSUME RenameManifest(r)
      PROVE  ListInv(r)'
  BY <1>2, <1>13 DEF RenameManifest, Goto, TypeInv, PlaceType, Unstarted, Sealing, FileName, PayloadFile
<1>14. ASSUME Verify(r)
      PROVE  ListInv(r)'
  BY <1>2, <1>14 DEF Verify, Goto, TypeInv, PlaceType, Unstarted, Sealing, FileName, PayloadFile, End
<1>15. ASSUME RunRaises(r)
      PROVE  ListInv(r)'
  BY <1>2, <1>15 DEF RunRaises, Goto, TypeInv, PlaceType, Unstarted, Sealing, FileName, PayloadFile, End
<1>16. ASSUME Crash(r)
      PROVE  ListInv(r)'
  BY <1>2, <1>16 DEF Crash, Goto, TypeInv, PlaceType, Unstarted, Sealing, FileName, PayloadFile
<1>17. ASSUME StartProbe(r)
      PROVE  ListInv(r)'
  <2>1. /\ Frame /\ pc[r] = "next" /\ budget[r].exhausted # TRUE
        /\ pc'[r] = IF Current(r).kind = "plain" THEN "observe" ELSE "understanding"
    BY <1>17 DEF StartProbe, StartsProbe, Goto, TypeInv, PlaceType
  <2>2. StagesOf(r)'
    BY <1>1, <2>1 DEF StagesOf, Unstarted, Probing, Current
  <2>3. \A o : ItemOf(r, o) => ItemOf(r, o)'
    BY <2>1 DEF ItemOf, Probing
  <2> QED BY <2>1, <2>2, <2>3 DEF ListInv, PairOf
<1>18. ASSUME JournalValues(r)
      PROVE  ListInv(r)'
  <2>1. /\ observations' = observations /\ budget' = budget
        /\ pc[r] = "journal" /\ pc'[r] = "next"
        /\ at'[r] = <<at[r][1] + 1, 1>> /\ stages'[r] = {}
    BY <1>18 DEF JournalValues, NextProbe, Goto, TypeInv, PlaceType, ProbeType
  <2>2. at[r][1] \in Nat
    BY SuiteAssumption DEF TypeInv, ProbeType
  <2>3. StagesOf(r)'
    BY <1>1, <2>1 DEF StagesOf, Unstarted, Probing
  <2>4. ASSUME NEW i \in DOMAIN observations[r] PROVE ItemOf(r, observations[r][i])'
    <3>1. ItemOf(r, observations[r][i]) /\ observations[r][i].probe \in Nat
      <4>1. observations[r] \in Seq(Observation)
        BY DEF TypeInv, ResultType
      <4>2. observations[r][i] \in Observation
        BY <4>1
      <4>3. observations[r][i].probe \in DOMAIN Suite
        BY <4>2 DEF Observation
      <4> QED BY <4>3, ProbeIs DEF ListInv
    <3> QED BY <2>1, <2>2, <3>1 DEF ItemOf, Probing
  <2>5. \A q \in DOMAIN Suite : q < at[r][1] + 1 => q < at[r][1] \/ q = at[r][1]
    BY <2>2, ProbeIs
  <2> QED BY <2>1, <2>3, <2>4, <2>5 DEF ListInv, PairOf
<1>19. ASSUME NEW outcome \in Stage, Understand(r, outcome) \/ Generate(r, outcome)
      PROVE  ListInv(r)'
  <2>1. /\ observations' = observations /\ at' = at
        /\ pc[r] \in {"understanding", "generation"}
        /\ pc'[r] \in Probing \ {"journal"} /\ pc'[r] # "understanding"
        /\ stages'[r] = stages[r] \cup {outcome}
        /\ \/ Request(r, outcome) \/ Refuse(r, outcome)
           \/ outcome = "not_called" /\ UNCHANGED budget
    BY <1>19 DEF Understand, Generate, Goto, Probing, TypeInv, ProbeType, PlaceType
  <2>2. /\ budget[r].exhausted = TRUE => budget'[r].exhausted = TRUE
        /\ outcome = "refused" => budget'[r].exhausted = TRUE
    BY <2>1 DEF Request, Refuse, TypeInv, ProbeType
  <2>3. Current(r).kind # "plain" /\ Current(r)' = Current(r)
    BY <1>1, <2>1 DEF StagesOf, Probing, Current
  <2>4. StagesOf(r)'
    BY <1>1, <2>1, <2>2, <2>3 DEF StagesOf, Unstarted, Probing
  <2> QED BY <2>1, <2>2, <2>4, ListKept DEF Probing
<1>20. ASSUME EndTurn(r)
      PROVE  ListInv(r)'
  <2>1. /\ observations' = observations /\ budget' = budget /\ pc[r] = "turn"
        /\ pc'[r] \in {"understanding", "observe"}
        /\ "refused" \in stages'[r] => "refused" \in stages[r]
        /\ at'[r][1] = at[r][1]
    BY <1>20 DEF EndTurn, Goto, TypeInv, ProbeType, PlaceType
  <2>2. Current(r).kind # "plain" /\ Current(r)' = Current(r)
    BY <1>1, <2>1 DEF StagesOf, Probing, Current
  <2>3. StagesOf(r)'
    BY <1>1, <2>1, <2>2 DEF StagesOf, Unstarted, Probing
  <2> QED BY <2>1, <2>3, ListKept DEF Probing
<1> QED
  BY <1>4, <1>5, <1>6, <1>7, <1>8, <1>9, <1>10, <1>11, <1>12, <1>13, <1>14, <1>15, <1>16, <1>17, <1>18, <1>19, <1>20, ListGrows DEF Step, Probes, Seals

-----------------------------------------------------------------------------
\* Grading leads to the sealing, during which nothing is observed or graded.
LEMMA SealingSteps ==
  ASSUME TypeInv, NEW r \in Runner, Step(r) \/ Crash(r)
  PROVE  \/ Grade(r)
         \/ /\ pc[r] \in Sealing =>
                 observations'[r] = observations[r] /\ rows'[r] = rows[r]
            /\ pc'[r] \in Sealing => pc[r] \in Sealing
<1> DEFINE Kept == /\ pc[r] \in Sealing =>
                        observations'[r] = observations[r] /\ rows'[r] = rows[r]
                   /\ pc'[r] \in Sealing => pc[r] \in Sealing
<1> USE DEF TypeInv, PlaceType, Sealing, FileName, PayloadFile, Goto, resultVars
<1>1. ASSUME SkipProbe(r) \/ StartProbe(r) \/ EndTurn(r)
      PROVE  Kept
  BY <1>1 DEF SkipProbe, StartProbe, EndTurn, NextProbe
<1>2. ASSUME NEW outcome \in Stage, Understand(r, outcome) \/ Generate(r, outcome)
      PROVE  Kept
  BY <1>2 DEF Understand, Generate
<1>3. ASSUME CollectValues(r) \/ JournalValues(r) \/ ProbeFails(r)
      PROVE  Kept
  BY <1>3 DEF CollectValues, JournalValues, ProbeFails, NextProbe
<1>4. ASSUME CheckOut(r) \/ RefuseExisting(r) \/ ClaimDiagnostics(r) \/ Prepare(r)
      PROVE  Kept
  BY <1>4 DEF CheckOut, RefuseExisting, ClaimDiagnostics, Prepare, End
<1>5. ASSUME Compare(r) \/ MakeOut(r) \/ RenameManifest(r)
      PROVE  Kept
  BY <1>5 DEF Compare, MakeOut, RenameManifest
<1>6. ASSUME NEW f \in FileName \ {"manifest.json"}, CreateFile(r, f) \/ SyncFile(r, f)
      PROVE  Kept
  BY <1>6 DEF CreateFile, SyncFile, After
<1>7. ASSUME Verify(r) \/ RunRaises(r) \/ Crash(r)
      PROVE  Kept
  BY <1>7 DEF Verify, RunRaises, Crash, End
<1> HIDE DEF Kept
<1> QED
  BY <1>1, <1>2, <1>3, <1>4, <1>5, <1>6, <1>7 DEF Kept, Step, Probes, Seals

\* The last probe cannot hide a refused request from its assertions: every
\* observation is graded, and the last probe by its model stage if need be.
LEMMA GradeIsSound ==
  ASSUME TypeInv, NEW r \in Runner, ListInv(r), Grade(r)
  PROVE  /\ Written(r)' \in SoundResult
         /\ Executed(rows'[r]) => AllObserved(r)'
<1>1. PICK list : list = observations[r]
  OBVIOUS
<1>2. PICK broken \in Broken :
        rows' = [rows EXCEPT ![r] = [k \in Key |-> IF k \in broken THEN "error"
                                                   ELSE GradeOf(list, k)]]
  BY <1>1 DEF Grade
<1>3. PICK grade : grade = rows'[r]
  OBVIOUS
<1>4. /\ list \in Seq(Observation)
      /\ grade = [k \in Key |-> IF k \in broken THEN "error" ELSE GradeOf(list, k)]
  BY <1>1, <1>2, <1>3 DEF TypeInv, ResultType
<1>5. \A k \in Key : grade[k] = "completed" => GradeOf(list, k) = "completed"
  BY <1>4
<1>6. grade \in [Key -> Status]
  BY <1>4, GradeIs DEF Status
<1>7. NoDuplicates(list) /\ at[r][1] > Len(Suite)
  BY <1>1 DEF Grade
<1>8. Written(r)' = [observations |-> list, rows |-> grade]
  BY <1>1, <1>3 DEF Grade, Written
<1>9. \A i, j \in DOMAIN list : Slot(list[i]) = Slot(list[j]) => i = j
  BY <1>7 DEF NoDuplicates
<1>10. \A k \in Key : grade[k] = "completed" =>
         \E i \in DOMAIN list :
           /\ Slot(list[i]) = <<k[1], k[2]>>
           /\ list[i].status = "completed"
  BY <1>4, <1>5, GradeIs
<1>11. [observations |-> list, rows |-> grade] \in SoundResult
  BY <1>4, <1>6, <1>9, <1>10 DEF SoundResult, Result
<1>12. ASSUME Executed(grade), NEW i \in DOMAIN list
       PROVE  list[i].status = "completed" /\ "refused" \notin list[i].stages
  <2>1. \A j \in DOMAIN list :
          /\ list[j] \in Observation
          /\ list[j].probe \in DOMAIN Suite
          /\ list[j].checkpoint \in Suite[list[j].probe].checkpoints
    <3>1. \A j \in DOMAIN list : list[j] \in Observation
      BY <1>4
    <3> QED BY <1>1, <3>1 DEF ListInv, ItemOf, Observation
  <2>2. \A k \in Key : grade[k] = "completed"
    BY <1>12 DEF Executed
  <2>3. ASSUME NEW j \in DOMAIN list PROVE list[j].status = "completed"
    <3> DEFINE k == <<list[j].probe, list[j].checkpoint, "business">>
    <3>1. k \in Key
      BY <2>1 DEF Key, Check, Observation
    <3>2. PICK h \in DOMAIN list : Slot(list[h]) = <<k[1], k[2]>> /\ list[h].status = "completed"
      BY <1>10, <2>2, <3>1
    <3>3. Slot(list[h]) = Slot(list[j])
      BY <3>2 DEF Slot
    <3> QED BY <1>9, <3>2, <3>3
  <2>4. ASSUME "refused" \in list[i].stages PROVE FALSE
    <3> DEFINE p == list[i].probe
               last == Len(Suite)
    <3>1. last \in DOMAIN Suite /\ p \in DOMAIN Suite /\ p \in 1..last /\ last \in Nat
      BY <2>1, SuiteAssumption
    <3>2. ItemOf(r, list[i])
      BY <1>1 DEF ListInv
    <3>3. CASE p < last
      <4>1. last < at[r][1]
        BY <1>7, <3>1 DEF TypeInv, ProbeType
      <4>2. PICK j \in DOMAIN list : list[j].probe = last
        BY <1>1, <3>1, <4>1 DEF ListInv
      <4>3. list[j].status = "not_run"
        BY <1>1, <2>4, <3>3, <4>2 DEF ListInv, PairOf
      <4> QED BY <2>3, <4>3
    <3>4. CASE p = last
      <4>1. Suite[p] \in Probe
        BY <3>1, ProbeIs
      <4>2. Suite[p].kind = "api"
        BY <2>3, <2>4, <3>2, <4>1 DEF ItemOf, Probe, Kind
      <4>3. Suite[p].graded = TRUE /\ "result" \in Suite[p].checkpoints
        BY <3>1, <3>4, <4>1, <4>2, SuiteAssumption DEF Probe
      <4> DEFINE k == <<p, "result", "model">>
      <4>4. k \in Key
        BY <3>1, <4>3 DEF Key, Check
      <4>5. PICK h \in DOMAIN list :
              Slot(list[h]) = <<k[1], k[2]>> /\ ModelStage(list[h]) = "completed"
        BY <1>4, <1>5, <2>2, <4>4, GradeIs
      <4>6. list[h].probe = p
        BY <4>5 DEF Slot
      <4>7. list[h].stages = list[i].stages
        BY <1>1, <4>6 DEF ListInv, PairOf
      <4> QED BY <2>4, <4>5, <4>7 DEF ModelStage
    <3> QED BY <3>1, <3>3, <3>4
  <2> QED BY <2>3, <2>4
<1>13. observations'[r] = list
  BY <1>1 DEF Grade
<1> QED BY <1>3, <1>8, <1>11, <1>12, <1>13 DEF AllObserved

\* What a process seals was graded, whatever else happens.
LEMMA GradedStep ==
  TypeInv /\ (\A r \in Runner : ListInv(r)) /\ GradedInv /\ [Next]_vars => GradedInv'
<1> SUFFICES ASSUME TypeInv, \A r \in Runner : ListInv(r), GradedInv, [Next]_vars
             PROVE  GradedInv'
  OBVIOUS
<1>1. CASE UNCHANGED vars \/ Edit
  <2>1. UNCHANGED <<pc, observations, rows>>
    BY <1>1 DEF Edit, vars, resultVars
  <2> QED BY <2>1 DEF GradedInv, Written, Executed, AllObserved
<1>2. ASSUME NEW r \in Runner, Step(r) \/ Crash(r), NEW q \in Runner, pc'[q] \in Sealing
      PROVE  Written(q)' \in SoundResult /\ (Executed(rows'[q]) => AllObserved(q)')
  <2>1. CASE q = r /\ Grade(r)
    BY <2>1, GradeIsSound
  <2>2. CASE ~(q = r /\ Grade(r))
    <3>1. pc[q] \in Sealing /\ observations'[q] = observations[q] /\ rows'[q] = rows[q]
      BY <1>2, <2>2, SealingSteps, OthersStay DEF SameOf
    <3>2. Written(q)' = Written(q)
      BY <3>1 DEF Written
    <3> QED BY <3>1, <3>2 DEF GradedInv, AllObserved
  <2> QED BY <2>1, <2>2
<1>3. (\E r \in Runner : Step(r) \/ Crash(r)) => GradedInv'
  BY <1>2 DEF GradedInv
<1> QED BY <1>1, <1>3 DEF Next

-----------------------------------------------------------------------------
\* The steps that touch the output directory.
Writes(r) ==
  \/ \E f \in FileName \ {"manifest.json"} : CreateFile(r, f) \/ SyncFile(r, f)
  \/ RenameManifest(r)

LEMMA DiskSteps ==
  ASSUME TypeInv, NEW r \in Runner, Step(r) \/ Crash(r)
  PROVE  /\ Writes(r) \/ out' = out
         /\ pc[r] \in FileName \cup {"rename"} \cup Over =>
              /\ pc'[r] \in FileName \cup {"rename"} \cup Over
              /\ observations'[r] = observations[r] /\ rows'[r] = rows[r]
              /\ seen'[r] = seen[r] /\ prints'[r] = prints[r]
         /\ pc[r] \in Over => pc'[r] \in Over
<1> DEFINE Later == FileName \cup {"rename"} \cup Over
           Kept == /\ pc[r] \in Later =>
                        /\ pc'[r] \in Later
                        /\ observations'[r] = observations[r] /\ rows'[r] = rows[r]
                        /\ seen'[r] = seen[r] /\ prints'[r] = prints[r]
                   /\ pc[r] \in Over => pc'[r] \in Over
<1> USE DEF TypeInv, PlaceType, FileName, PayloadFile, Over, Goto, diskVars, resultVars,
        sourceVars
<1>1. ASSUME SkipProbe(r) \/ StartProbe(r) \/ EndTurn(r)
      PROVE  out' = out /\ Kept
  BY <1>1 DEF SkipProbe, StartProbe, EndTurn, NextProbe
<1>2. ASSUME NEW outcome \in Stage, Understand(r, outcome) \/ Generate(r, outcome)
      PROVE  out' = out /\ Kept
  BY <1>2 DEF Understand, Generate
<1>3. ASSUME CollectValues(r) \/ JournalValues(r) \/ ProbeFails(r)
      PROVE  out' = out /\ Kept
  BY <1>3 DEF CollectValues, JournalValues, ProbeFails, NextProbe
<1>4. ASSUME CheckOut(r) \/ RefuseExisting(r) \/ ClaimDiagnostics(r) \/ Prepare(r)
      PROVE  out' = out /\ Kept
  BY <1>4 DEF CheckOut, RefuseExisting, ClaimDiagnostics, Prepare, End
<1>5. ASSUME Grade(r) \/ Compare(r) \/ MakeOut(r)
      PROVE  out' = out /\ Kept
  BY <1>5 DEF Grade, Compare, MakeOut
<1>6. ASSUME RenameManifest(r)
      PROVE  Kept
  BY <1>6 DEF RenameManifest
<1>7. ASSUME NEW f \in FileName \ {"manifest.json"}, CreateFile(r, f) \/ SyncFile(r, f)
      PROVE  Kept
  BY <1>7 DEF CreateFile, SyncFile, After
<1>8. ASSUME Verify(r) \/ RunRaises(r) \/ Crash(r)
      PROVE  out' = out /\ Kept
  BY <1>8 DEF Verify, RunRaises, Crash, End
<1> HIDE DEF Kept
<1>9. Kept /\ (Writes(r) \/ out' = out)
  BY <1>1, <1>2, <1>3, <1>4, <1>5, <1>6, <1>7, <1>8 DEF Step, Probes, Seals, Writes
<1> QED BY <1>9 DEF Kept

\* Writing is the work of the one process, which writes what it graded.
LEMMA WritesAre ==
  ASSUME TypeInv, ClaimInv, PrintInv, NEW r \in Runner, Writes(r)
  PROVE  /\ diagnostics = r /\ diagnostics' = r
         /\ pc[r] \in FileName \cup {"rename"} /\ pc[r] \in Sealing \ {"compare"}
         /\ Written(r)' = Written(r)
         /\ seen'[r] = seen[r] /\ prints'[r] = prints[r] /\ seen[r] \subseteq {prints[r]}
         /\ pc'[r] \in FileName \cup {"rename"} \cup Over
<1>1. /\ pc[r] \in FileName \cup {"rename"}
      /\ pc'[r] \in FileName \cup {"rename"} \cup Over
      /\ UNCHANGED <<observations, rows, seen, prints, diagnostics>>
  BY DEF Writes, CreateFile, SyncFile, RenameManifest, resultVars, sourceVars, Goto, After,
     TypeInv, PlaceType, FileName, PayloadFile, Over
<1>2. diagnostics = r
  BY <1>1 DEF ClaimInv, Working
<1>3. pc[r] \in Sealing \ {"compare"}
  BY <1>1 DEF Sealing, FileName, PayloadFile
<1>4. seen[r] \subseteq {prints[r]}
  BY <1>3 DEF PrintInv, PrintOf
<1> QED BY <1>1, <1>2, <1>3, <1>4 DEF Written

\* What each of the three does to the files.
LEMMA WritesFiles ==
  ASSUME TypeInv, ClaimInv, PrintInv, StoreInv, NEW r \in Runner, Writes(r)
  PROVE  /\ \A f \in FileName : out'[f] # None => out'[f].of = Written(r)
         /\ ~WholeFile("COMPLETED")
         /\ WholeFile("COMPLETED")' => SyncFile(r, "COMPLETED") /\ pc'[r] \in Over
<1>1. /\ diagnostics = r /\ pc[r] \in FileName \cup {"rename"}
      /\ \A f \in FileName : out[f] # None => out[f].of = Written(r)
      /\ DOMAIN out = FileName
  BY WritesAre DEF StoreInv, TypeInv, DiskType
<1>2. ~WholeFile("COMPLETED")
  BY <1>1 DEF StoreInv, Over, FileName, PayloadFile
<1>3. ASSUME NEW f \in FileName \ {"manifest.json"}, CreateFile(r, f)
      PROVE  /\ \A g \in FileName : out'[g] # None => out'[g].of = Written(r)
             /\ ~WholeFile("COMPLETED")'
  BY <1>1, <1>2, <1>3 DEF CreateFile, WholeFile
<1>4. ASSUME NEW f \in FileName \ {"manifest.json"}, SyncFile(r, f)
      PROVE  /\ \A g \in FileName : out'[g] # None => out'[g].of = Written(r)
             /\ WholeFile("COMPLETED")' => f = "COMPLETED" /\ pc'[r] \in Over
  <2>1. /\ out[f] # None
        /\ out' = [out EXCEPT ![f] = [out[f] EXCEPT !.whole = TRUE]]
        /\ pc[r] = f /\ pc'[r] = After(f)
    BY <1>4 DEF SyncFile, Goto, TypeInv, PlaceType
  <2>2. DOMAIN out[f] = {"of", "whole"}
    BY <2>1 DEF TypeInv, DiskType
  <2>3. out'[f].of = out[f].of
    BY <1>1, <2>1, <2>2
  <2>4. \A g \in FileName \ {f} : out'[g] = out[g]
    BY <1>1, <2>1
  <2>5. f # "COMPLETED" => ~WholeFile("COMPLETED")'
    BY <1>2, <2>4 DEF WholeFile, FileName
  <2>6. f = "COMPLETED" => pc'[r] \in Over
    BY <2>1 DEF After, Over
  <2> QED BY <1>1, <2>1, <2>3, <2>4, <2>5, <2>6
<1>5. ASSUME RenameManifest(r)
      PROVE  /\ \A g \in FileName : out'[g] # None => out'[g].of = Written(r)
             /\ ~WholeFile("COMPLETED")'
  <2>1. "manifest.json.tmp" \in FileName /\ "manifest.json" \in FileName
    BY DEF FileName
  <2>2. \A g \in FileName : \/ out'[g] = None
                            \/ out'[g] = out["manifest.json.tmp"] /\ g = "manifest.json"
                            \/ out'[g] = out[g]
    BY <1>1, <1>5 DEF RenameManifest
  <2>3. out'["COMPLETED"] = out["COMPLETED"]
    BY <1>1, <1>5 DEF RenameManifest, FileName
  <2> QED BY <1>1, <1>2, <2>1, <2>2, <2>3 DEF WholeFile
<1> QED BY <1>2, <1>3, <1>4, <1>5 DEF Writes

LEMMA StoreStep ==
  TypeInv /\ ClaimInv /\ PrintInv /\ StoreInv /\ [Next]_vars => StoreInv'
<1> SUFFICES ASSUME TypeInv, ClaimInv, PrintInv, StoreInv, [Next]_vars PROVE StoreInv'
  OBVIOUS
<1>1. CASE UNCHANGED vars \/ Edit
  <2>1. UNCHANGED <<pc, out, diagnostics, observations, rows, seen, prints>>
    BY <1>1 DEF Edit, vars, resultVars, diskVars, sourceVars
  <2> QED BY <2>1 DEF StoreInv, WholeFile, Written
<1>2. ASSUME NEW r \in Runner, Writes(r), Step(r) \/ Crash(r) PROVE StoreInv'
  BY <1>2, WritesAre, WritesFiles DEF StoreInv
<1>3. ASSUME NEW r \in Runner, Step(r) \/ Crash(r), out' = out PROVE StoreInv'
  <2>1. CASE \A f \in FileName : out[f] = None
    BY <1>3, <2>1 DEF StoreInv, WholeFile, FileName
  <2>2. CASE \E f \in FileName : out[f] # None
    <3>1. /\ diagnostics \in Runner
          /\ pc[diagnostics] \in FileName \cup {"rename"} \cup Over
          /\ seen[diagnostics] \subseteq {prints[diagnostics]}
          /\ \A f \in FileName : out[f] # None => out[f].of = Written(diagnostics)
      BY <2>2 DEF StoreInv
    <3>2. diagnostics' = diagnostics
      BY <1>3, <3>1, OwnSteps, NoResultAssumption DEF ClaimDiagnostics, FreshDiagnostics, diskVars
    <3> DEFINE d == diagnostics
    <3>3. /\ pc'[d] \in FileName \cup {"rename"} \cup Over
          /\ observations'[d] = observations[d] /\ rows'[d] = rows[d]
          /\ seen'[d] = seen[d] /\ prints'[d] = prints[d]
          /\ pc[d] \in Over => pc'[d] \in Over
      <4>1. CASE d = r
        BY <1>3, <3>1, <4>1, DiskSteps
      <4>2. CASE d # r
        BY <1>3, <3>1, <4>2, OthersStay DEF SameOf
      <4> QED BY <4>1, <4>2
    <3>4. Written(d)' = Written(diagnostics)
      BY <3>2, <3>3 DEF Written
    <3>5. WholeFile("COMPLETED")' => pc'[d] \in Over
      BY <1>3, <3>3 DEF StoreInv, WholeFile
    <3> QED BY <1>3, <3>1, <3>2, <3>3, <3>4, <3>5 DEF StoreInv
  <2> QED BY <2>1, <2>2
<1> QED BY <1>1, <1>2, <1>3, DiskSteps DEF Next

\* Exit code 0 is given by the verification, and nothing moves afterwards.
LEMMA ExitStep ==
  TypeInv /\ ClaimInv /\ PrintInv /\ GradedInv /\ ExitInv /\ [Next]_vars => ExitInv'
<1> SUFFICES ASSUME TypeInv, ClaimInv, PrintInv, GradedInv, ExitInv, [Next]_vars
             PROVE  ExitInv'
  OBVIOUS
<1>1. CASE UNCHANGED vars \/ Edit
  <2>1. UNCHANGED <<out, exit, observations>>
    BY <1>1 DEF Edit, vars, resultVars, diskVars
  <2> QED BY <2>1 DEF ExitInv, Loadable, WholeFile, AllObserved
<1>2. ASSUME NEW r \in Runner, Step(r) \/ Crash(r), NEW q \in Runner, exit'[q] = 0
      PROVE  Loadable' /\ AllObserved(q)'
  <2>1. CASE exit[q] = 0
    <3>1. diagnostics = q /\ pc[q] = "ended" /\ Loadable /\ AllObserved(q)
      BY <2>1 DEF ClaimInv, ExitInv
    <3>2. ~Writes(r)
      BY <3>1, WritesAre DEF FileName, PayloadFile
    <3>3. out' = out
      BY <1>2, <3>2, DiskSteps
    <3>4. observations'[q] = observations[q]
      BY <1>2, <3>1, DiskSteps, OthersStay DEF SameOf, Over
    <3> QED BY <3>1, <3>3, <3>4 DEF Loadable, WholeFile, AllObserved
  <2>2. CASE exit[q] # 0
    <3>1. q = r /\ Verify(r)
      BY <1>2, <2>2, OthersStay, OwnSteps DEF SameOf, ClaimDiagnostics
    <3>2. Loadable /\ pc[r] \in Sealing /\ UNCHANGED <<out, observations>>
      BY <3>1 DEF Verify, resultVars, Sealing
    <3>3. Executed(rows[r])
      BY <1>2, <3>1 DEF Verify, End, TypeInv, PlaceType
    <3>4. AllObserved(r)
      BY <3>2, <3>3 DEF GradedInv
    <3> QED BY <3>1, <3>2, <3>4 DEF Loadable, WholeFile, AllObserved
  <2> QED BY <2>1, <2>2
<1>3. (\E r \in Runner : Step(r) \/ Crash(r)) => ExitInv'
  BY <1>2 DEF ExitInv
<1> QED BY <1>1, <1>3 DEF Next

-----------------------------------------------------------------------------
LEMMA InvInit == Init => IInv
<1> SUFFICES ASSUME Init PROVE IInv
  OBVIOUS
<1>1. TypeInv
  BY TypeInit
<1>2. ClaimInv /\ ExitInv
  BY NoResultAssumption DEF Init, ClaimInv, ExitInv, Working, FileName, PayloadFile
<1>3. PrintInv
  BY DEF Init, PrintInv, PrintOf, Probing, Sealing, FileName, PayloadFile
<1>4. GradedInv
  BY DEF Init, GradedInv, Sealing, FileName, PayloadFile
<1>5. StoreInv
  BY DEF Init, StoreInv, WholeFile, FileName
<1>6. ASSUME NEW r \in Runner PROVE ListInv(r)
  <2>1. /\ pc[r] = "idle" /\ observations[r] = <<>> /\ stages[r] = {} /\ at[r] = <<1, 1>>
    BY DEF Init
  <2>2. \A q \in DOMAIN Suite : ~(q < 1)
    BY SuiteAssumption
  <2>3. DOMAIN observations[r] = {}
    BY <2>1
  <2> QED BY <2>1, <2>2, <2>3 DEF ListInv, StagesOf, Unstarted, Probing
<1> QED BY <1>1, <1>2, <1>3, <1>4, <1>5, <1>6 DEF IInv

LEMMA InvStep == IInv /\ [Next]_vars => IInv'
<1> SUFFICES ASSUME IInv, [Next]_vars PROVE IInv'
  OBVIOUS
<1>1. ASSUME NEW q \in Runner PROVE ListInv(q)'
  <2>1. CASE UNCHANGED vars \/ Edit
    <3>1. UNCHANGED <<pc, at, budget, stages, observations>>
      BY <2>1 DEF Edit, vars, probeVars, resultVars
    <3> QED BY <3>1 DEF IInv, ListInv, StagesOf, ItemOf, PairOf, Current
  <2>2. ASSUME NEW r \in Runner, Step(r) \/ Crash(r) PROVE ListInv(q)'
    <3>1. CASE q = r
      BY <2>2, <3>1, ListStep DEF IInv
    <3>2. CASE q # r
      <4>1. SameOf(q)
        BY <2>2, <3>2, OthersStay DEF IInv
      <4> QED BY <4>1 DEF SameOf, IInv, ListInv, StagesOf, ItemOf, PairOf, Current
    <3> QED BY <3>1, <3>2
  <2> QED BY <2>1, <2>2 DEF Next
<1> QED
  BY <1>1, TypeStep, ClaimStep, PrintStep, GradedStep, StoreStep, ExitStep DEF IInv

\* The strengthened invariant holds of every run.
THEOREM Invariant == Spec => []IInv
<1> QED BY InvInit, InvStep, PTL DEF Spec

\* Types, of every run.
THEOREM QualityTypes == Spec => []QualityTypeOK
<1>1. IInv => QualityTypeOK
  BY TypeParts DEF IInv
<1> QED BY <1>1, Invariant, PTL

\* Once a request was refused, what has not started is reported as not run
\* (run_quality_suite line 278), whatever is skipped, fails or is edited.
THEOREM RefusedStops == Spec => []RefusedThenNotRun
<1>1. IInv => RefusedThenNotRun
  BY DEF IInv, ListInv, PairOf, RefusedThenNotRun
<1> QED BY <1>1, Invariant, PTL

\* A directory that loads is the work of one process, on one version of the
\* files (_run lines 110-118, _execute_run lines 185-195).
THEOREM OneRunLoads == Spec => []LoadedIsOneRun
<1>1. IInv => LoadedIsOneRun
  <2> SUFFICES ASSUME IInv, Loadable PROVE
        /\ Loaded = Written(diagnostics)
        /\ seen[diagnostics] \subseteq {prints[diagnostics]}
        /\ \A e \in journal : e[1] = diagnostics
    BY DEF LoadedIsOneRun
  <2>1. "manifest.json" \in FileName /\ out["manifest.json"] # None
    BY DEF Loadable, WholeFile, FileName
  <2> QED BY <2>1 DEF IInv, StoreInv, ClaimInv, Loaded
<1> QED BY <1>1, Invariant, PTL

\* Exit code 0: the directory loads as what this process saw, every observation
\* was completed and no model request was refused (run_api, _execute_run line 214).
THEOREM ZeroIsComplete == Spec => []ExitZeroIsComplete
<1>1. IInv => ExitZeroIsComplete
  <2> SUFFICES ASSUME IInv, NEW r \in Runner, exit[r] = 0
               PROVE  Loaded = Written(r) /\ AllObserved(r)
    BY DEF ExitZeroIsComplete, AllObserved
  <2>1. Loadable /\ AllObserved(r) /\ diagnostics = r
    BY DEF IInv, ExitInv, ClaimInv
  <2>2. "manifest.json" \in FileName /\ out["manifest.json"] # None
    BY <2>1 DEF Loadable, WholeFile, FileName
  <2> QED BY <2>1, <2>2 DEF IInv, StoreInv, Loaded
<1> QED BY <1>1, Invariant, PTL

-----------------------------------------------------------------------------
\* What can be loaded changes once, when the marker is synchronised, from
\* nothing to what the one process graded.
LEMMA LoadedStep ==
  IInv /\ [Next]_vars =>
    Loaded' = Loaded \/ (Loaded = None /\ Loaded' \in SoundResult)
<1> SUFFICES ASSUME IInv, [Next]_vars
             PROVE  Loaded' = Loaded \/ (Loaded = None /\ Loaded' \in SoundResult)
  OBVIOUS
<1>1. CASE out' = out
  BY <1>1 DEF Loaded, Loadable, WholeFile
<1>2. ASSUME NEW r \in Runner, Writes(r)
      PROVE  Loaded' = Loaded \/ (Loaded = None /\ Loaded' \in SoundResult)
  <2>1. Loaded = None
    BY <1>2, WritesFiles DEF IInv, Loaded, Loadable, FileName
  <2>2. CASE ~Loadable'
    BY <2>1, <2>2 DEF Loaded
  <2>3. CASE Loadable'
    <3>1. out'["manifest.json"] # None /\ "manifest.json" \in FileName
      BY <2>3 DEF Loadable, WholeFile, FileName
    <3>2. Loaded' = Written(r)
      BY <1>2, <2>3, <3>1, WritesFiles DEF IInv, Loaded
    <3>3. Written(r) \in SoundResult
      BY <1>2, WritesAre DEF IInv, GradedInv
    <3> QED BY <2>1, <3>2, <3>3
  <2> QED BY <2>2, <2>3
<1>3. out' = out \/ \E r \in Runner : Writes(r)
  BY DiskSteps DEF Next, Edit, vars, diskVars, IInv
<1> QED BY <1>1, <1>2, <1>3

\* The output directory implements the evidence store: killed or failing at any
\* step, a run publishes all of a sound result or nothing, and nobody changes it
\* later (seal_run, load_run).
THEOREM StoreImplements == Spec => ImplementsEvidence
<1>1. Init => Evidence!EvidenceInit
  BY DEF Init, Evidence!EvidenceInit, Loaded, Loadable, WholeFile, FileName
<1>2. IInv /\ [Next]_vars => [Evidence!Publish]_Loaded
  BY LoadedStep DEF Evidence!Publish
<1> QED BY <1>1, <1>2, Invariant, PTL DEF Spec, ImplementsEvidence, Evidence!EvidenceSpec
=============================================================================
