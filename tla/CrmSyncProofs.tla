---------------------------- MODULE CrmSyncProofs ----------------------------
(***************************************************************************)
(* No version is sent twice and what is recorded as synced was written,    *)
(* for any operators, versions, lease expiries, crashes and delays.        *)
(***************************************************************************)
EXTENDS CrmSync, SequenceTheorems, TLAPS

\* Applying a request keeps the pages well-formed, removes neither a page nor
\* a marker, and leaves the request's own marker if it carries one.
LEMMA ApplyKeeps ==
  ASSUME NotionTypeOK, NEW q \in flight, Apply(q),
         q.kind # "create" => q.at \in DOMAIN page
  PROVE  /\ NotionTypeOK'
         /\ DOMAIN page \subseteq DOMAIN page'
         /\ \A v \in Version : Written(v) => Written(v)'
         /\ q.kind # "columns" => Written(q.version)'
<1>1. /\ q.kind \in Kind /\ q.version \in Version
      /\ page \in Seq(PageRecord)
      /\ DOMAIN page = 1..Len(page)
      /\ \A i \in DOMAIN page : page[i] \in PageRecord
  BY DEF NotionTypeOK, WriteRequest
<1>2. flight' \in SUBSET WriteRequest /\ writes' \in [Version -> Nat]
  BY DEF NotionTypeOK, Apply
<1>3. CASE q.kind = "create"
  <2> DEFINE r == [columns |-> q.version, markers |-> {q.version}]
  <2>1. r \in PageRecord
    BY <1>1 DEF PageRecord
  <2>2. page' = Append(page, r)
    BY <1>3 DEF Apply
  <2> HIDE DEF r
  <2>3. /\ page' \in Seq(PageRecord)
        /\ Len(page') = Len(page) + 1
        /\ \A i \in 1..Len(page) : page'[i] = page[i]
        /\ page'[Len(page) + 1] = r
    BY <1>1, <2>1, <2>2, AppendProperties
  <2>4. DOMAIN page' = 1..(Len(page) + 1) /\ Len(page) \in Nat
    BY <1>1, <2>3
  <2>5. q.version \in page'[Len(page) + 1].markers
    BY <2>3 DEF r
  <2>6. DOMAIN page \subseteq DOMAIN page'
    BY <1>1, <2>4
  <2>7. \A v \in Version : Written(v) => Written(v)'
    BY <1>1, <2>3, <2>6 DEF Written, Marked
  <2>8. Written(q.version)'
    BY <2>4, <2>5 DEF Written, Marked
  <2> QED BY <1>2, <2>3, <2>6, <2>7, <2>8 DEF NotionTypeOK
<1>4. CASE q.kind # "create"
  <2> DEFINE r == IF q.kind = "columns"
                  THEN [page[q.at] EXCEPT !.columns = q.version]
                  ELSE [page[q.at] EXCEPT !.markers = @ \cup {q.version}]
  <2>1. page[q.at] \in PageRecord
    BY <1>1, <1>4
  <2>2. /\ r \in PageRecord
        /\ page[q.at].markers \subseteq r.markers
        /\ q.kind # "columns" => q.version \in r.markers
    BY <1>1, <2>1 DEF PageRecord
  <2>3. page' = [page EXCEPT ![q.at] = r]
    BY <1>1, <1>4 DEF Apply, Kind
  <2> HIDE DEF r
  <2>4. /\ page' \in Seq(PageRecord)
        /\ Len(page') = Len(page)
        /\ \A i \in 1..Len(page) : page'[i] = IF i = q.at THEN r ELSE page[i]
    BY <1>1, <1>4, <2>2, <2>3, ExceptSeq
  <2>5. DOMAIN page' = DOMAIN page
    BY <1>1, <2>4
  <2>6. \A i \in DOMAIN page : page[i].markers \subseteq page'[i].markers
    BY <1>1, <2>2, <2>4
  <2>7. q.kind # "columns" => q.version \in page'[q.at].markers
    BY <1>1, <1>4, <2>2, <2>4
  <2> QED BY <1>1, <1>2, <1>4, <2>4, <2>5, <2>6, <2>7
       DEF NotionTypeOK, Written, Marked
<1> QED BY <1>3, <1>4

\* Each operation on the lease row keeps its type.
LEMMA LeaseTypeKept ==
  ASSUME LeaseTypeOK, NEW c \in Client,
         \/ StealLease(c) \/ InsertLease(c) \/ ReleaseLease(c)
         \/ AbandonLease(c) \/ UNCHANGED leaseVars
  PROVE  LeaseTypeOK'
<1> USE LeaseAssumption DEF LeaseAssumption, LeaseTypeOK, leaseVars
<1>1. CASE StealLease(c)
  BY <1>1 DEF StealLease
<1>2. CASE InsertLease(c)
  BY <1>2 DEF InsertLease
<1>3. CASE ReleaseLease(c)
  BY <1>3 DEF ReleaseLease
<1>4. CASE AbandonLease(c)
  BY <1>4 DEF AbandonLease, Holds
<1>5. CASE UNCHANGED leaseVars
  BY <1>5
<1> QED BY <1>1, <1>2, <1>3, <1>4, <1>5

\* Nothing asked, nothing recorded, nothing in Notion is well typed.
LEMMA SyncTypeInit == SyncInit => SyncTypeOK
<1> SUFFICES ASSUME SyncInit PROVE SyncTypeOK
  OBVIOUS
<1>1. LeaseTypeOK
  BY DEF SyncInit, LeaseInit, LeaseTypeOK
<1>2. NotionTypeOK
  BY EmptySeq DEF SyncInit, NotionInit, NotionTypeOK
<1>3. flight = {}
  BY DEF SyncInit, NotionInit
<1> QED BY <1>1, <1>2, <1>3 DEF SyncInit, SyncTypeOK, Place, JobState

\* What a request sends is a request.
LEMMA WriteIsRequest ==
  ASSUME SyncTypeOK, NEW o \in Operator, NEW kind \in Kind, pc[o] # "idle"
  PROVE  /\ WriteOf(o, kind) \in WriteRequest
         /\ WriteOf(o, kind).kind = kind
         /\ WriteOf(o, kind).version = version[o]
         /\ WriteOf(o, kind).at = target[o]
  BY SyncAssumption DEF SyncTypeOK, WriteOf, WriteRequest

\* Every step of a request, of Notion and of the clock keeps the types.
LEMMA SyncTypeNext == SyncTypeOK /\ [SyncNext]_syncVars => SyncTypeOK'
<1> SUFFICES ASSUME SyncTypeOK, [SyncNext]_syncVars PROVE SyncTypeOK'
  OBVIOUS
<1> USE LeaseAssumption, SyncAssumption DEF LeaseAssumption, SyncAssumption
<1>0. SyncTypeOK
  OBVIOUS
<1>1. ASSUME NEW o \in Operator, NEW v \in Version, Ask(o, v)
      PROVE  SyncTypeOK'
  BY <1>0, <1>1 DEF SyncTypeOK, Ask, Goto, leaseVars, notionVars, jobVars, LeaseTypeOK,
     NotionTypeOK, Place
<1>2. ASSUME NEW o \in Operator, Claim(o) \/ Crash(o) \/ Release(o)
      PROVE  SyncTypeOK'
  <2>1. LeaseTypeOK'
    <3>1. o \in Client /\ o # Nobody /\ LeaseTypeOK
      BY <1>0 DEF SyncTypeOK
    <3>2. \/ StealLease(o) \/ InsertLease(o) \/ ReleaseLease(o)
          \/ AbandonLease(o) \/ UNCHANGED leaseVars
      BY <1>2 DEF Claim, ClaimLapsed, ClaimNothing, ClaimFresh, RefuseBusy,
         Crash, Release
    <3> QED BY <3>1, <3>2, LeaseTypeKept
  <2>2. UNCHANGED <<notionVars, jobVars>>
    BY <1>2 DEF Claim, ClaimLapsed, ClaimNothing, ClaimFresh, RefuseBusy, Crash,
       Release
  <2>3. CASE pc' = [pc EXCEPT ![o] = "idle"] /\ Forget(o)
    BY <1>0, <2>1, <2>2, <2>3 DEF SyncTypeOK, Forget, notionVars, jobVars,
       NotionTypeOK, Place
  <2>4. CASE /\ pc[o] # "idle" /\ UNCHANGED <<version, target>>
             /\ \E to \in {"read_job", "insert_lease"} : Goto(o, to)
    BY <1>0, <2>1, <2>2, <2>4 DEF SyncTypeOK, Goto, notionVars, jobVars,
       NotionTypeOK, Place
  <2> QED BY <1>2, <2>3, <2>4 DEF Claim, ClaimLapsed, ClaimNothing, ClaimFresh,
       RefuseBusy, Crash, Release, Forget, Goto
<1>3. ASSUME NEW o \in Operator, NEW from, NEW to \in Place, Step(o, from, to),
             from # "idle",
             to \in {"send_columns", "await_columns", "send_append",
                     "await_append"} => target[o] \in DOMAIN page
      PROVE  SyncTypeOK'
  BY <1>0, <1>3 DEF SyncTypeOK, Step, Goto, leaseVars, notionVars, jobVars,
     LeaseTypeOK, NotionTypeOK
<1>4. ASSUME NEW o \in Operator, Decide(o)
      PROVE  SyncTypeOK'
  <2>1. CASE RecordJob(o)
    BY <1>0, <2>1 DEF SyncTypeOK, RecordJob, Goto, leaseVars, notionVars,
       LeaseTypeOK, NotionTypeOK, Place, JobState
  <2>2. CASE ~RecordJob(o)
    BY <1>3, <1>4, <2>2 DEF Decide, FindNoJob, AnswerSynced, RefuseEarly,
       FindUncertain, ReconcileFound, ReconcileMissing, RecordCollides, Place
  <2> QED BY <2>1, <2>2
<1>5. ASSUME NEW o \in Operator, Write(o)
      PROVE  SyncTypeOK'
  <2>1. CASE FindPage(o)
    BY <1>0, <2>1 DEF SyncTypeOK, FindPage, Goto, leaseVars, notionVars, jobVars,
       LeaseTypeOK, NotionTypeOK, Place
  <2>2. CASE SendColumns(o)
    <3>1. WriteOf(o, "columns") \in WriteRequest
      BY <1>0, <2>2, WriteIsRequest DEF SendColumns, Kind
    <3>2. WriteOf(o, "columns").at = target[o]
      BY <1>0, <2>2, WriteIsRequest DEF SendColumns, Kind
    <3> QED BY <1>0, <2>2, <3>1, <3>2 DEF SyncTypeOK, SendColumns, SendRepeatable, Goto,
         leaseVars, jobVars, LeaseTypeOK, NotionTypeOK, Place
  <2>3. CASE RepeatColumns(o)
    <3>1. WriteOf(o, "columns") \in WriteRequest
      BY <1>0, <2>3, WriteIsRequest DEF RepeatColumns, Kind
    <3>2. WriteOf(o, "columns").at = target[o]
      BY <1>0, <2>3, WriteIsRequest DEF RepeatColumns, Kind
    <3> QED BY <1>0, <2>3, <3>1, <3>2 DEF SyncTypeOK, RepeatColumns, SendRepeatable,
         leaseVars, jobVars, localVars, LeaseTypeOK, NotionTypeOK
  <2>4. CASE SendAppend(o)
    <3>1. WriteOf(o, "append") \in WriteRequest
      BY <1>0, <2>4, WriteIsRequest DEF SendAppend, Kind
    <3>2. /\ WriteOf(o, "append").at = target[o]
          /\ WriteOf(o, "append").version = version[o]
      BY <1>0, <2>4, WriteIsRequest DEF SendAppend, Kind
    <3> QED BY <1>0, <2>4, <3>1, <3>2 DEF SyncTypeOK, SendAppend, SendOnce, Goto,
         leaseVars, jobVars, LeaseTypeOK, NotionTypeOK, Place
  <2>5. CASE SendCreate(o)
    <3>1. WriteOf(o, "create") \in WriteRequest
      BY <1>0, <2>5, WriteIsRequest DEF SendCreate, Kind
    <3>2. /\ WriteOf(o, "create").kind = "create"
          /\ WriteOf(o, "create").version = version[o]
      BY <1>0, <2>5, WriteIsRequest DEF SendCreate, Kind
    <3> QED BY <1>0, <2>5, <3>1, <3>2 DEF SyncTypeOK, SendCreate, SendOnce, Goto,
         leaseVars, jobVars, LeaseTypeOK, NotionTypeOK, Place
  <2>6. CASE ColumnsAnswered(o)
    <3>1. target[o] \in DOMAIN page
      BY <1>0, <2>6 DEF SyncTypeOK, ColumnsAnswered, Step
    <3> QED BY <1>3, <2>6, <3>1 DEF ColumnsAnswered, Place
  <2>7. CASE FindNoPage(o) \/ AppendAnswered(o) \/ CreateAnswered(o)
             \/ WriteRaises(o)
    BY <1>3, <2>7 DEF FindNoPage, AppendAnswered, CreateAnswered, WriteRaises,
       Place
  <2> QED BY <1>5, <2>1, <2>2, <2>3, <2>4, <2>5, <2>6, <2>7 DEF Write
<1>6. ASSUME NEW o \in Operator, MarkUnknown(o) \/ MarkSynced(o)
      PROVE  SyncTypeOK'
  <2>1. CASE MarkUnknown(o)
    <3>1. PICK later \in BOOLEAN :
            deferred' = [deferred EXCEPT ![version[o]] = later]
      BY <2>1 DEF MarkUnknown
    <3>2. deferred' \in [Version -> BOOLEAN]
      BY <1>0, <3>1 DEF SyncTypeOK
    <3> QED BY <1>0, <2>1, <3>2 DEF SyncTypeOK, MarkUnknown, Goto, leaseVars,
         notionVars, LeaseTypeOK, NotionTypeOK, Place, JobState
  <2>2. CASE MarkSynced(o)
    BY <1>0, <2>2 DEF SyncTypeOK, MarkSynced, Goto, leaseVars, notionVars,
       LeaseTypeOK, NotionTypeOK, Place, JobState
  <2> QED BY <1>6, <2>1, <2>2
<1>7. CASE NotionStep
  <2>1. PICK q \in flight : Apply(q)
    BY <1>7 DEF NotionStep
  <2>2. NotionTypeOK' /\ DOMAIN page \subseteq DOMAIN page'
    BY <1>0, <2>1, ApplyKeeps DEF SyncTypeOK
  <2>3. flight' \subseteq flight
    BY <2>1 DEF Apply
  <2> QED BY <1>0, <1>7, <2>2, <2>3 DEF SyncTypeOK, NotionStep, leaseVars, jobVars,
       localVars, LeaseTypeOK
<1>8. ASSUME NEW v \in Version, DelayEnds(v)
      PROVE  SyncTypeOK'
  BY <1>0, <1>8 DEF SyncTypeOK, DelayEnds, leaseVars, notionVars, localVars,
     LeaseTypeOK, NotionTypeOK
<1>9. CASE LeaseEnds
  BY <1>0, <1>9 DEF SyncTypeOK, LeaseEnds, LeaseRunsOut, notionVars, jobVars,
     localVars, LeaseTypeOK, NotionTypeOK
<1>10. CASE UNCHANGED syncVars
  BY <1>0, <1>10 DEF SyncTypeOK, syncVars, leaseVars, notionVars, jobVars,
     localVars, LeaseTypeOK, NotionTypeOK
<1> QED BY <1>1, <1>2, <1>4, <1>5, <1>6, <1>7, <1>8, <1>9, <1>10
     DEF SyncNext, Conclude

\* Every reachable state has the declared types: in particular a request about
\* to change a page, and one already under way, name a page that exists.
THEOREM SyncTypeCorrect == SyncSpec => []SyncTypeOK
  BY SyncTypeInit, SyncTypeNext, PTL DEF SyncSpec

-----------------------------------------------------------------------------
\* Before anything was asked the strengthened invariant holds.
LEMMA SyncInvInit == SyncInit => SyncInv
<1> SUFFICES ASSUME SyncInit PROVE SyncInv
  OBVIOUS
<1>1. SyncTypeOK
  BY SyncTypeInit
<1> QED BY <1>1 DEF SyncInit, NotionInit, SyncInv, JobFirst, SentOnce, AnswerIsTrue,
     SyncedIsWritten, BeforeSend

\* A request that only moves on keeps the invariant if it does not come to the
\* sending places from elsewhere, and has seen the marker before it confirms.
LEMMA StepKeeps ==
  ASSUME SyncInv, SyncTypeOK', NEW o \in Operator, NEW from, NEW to,
         Step(o, from, to),
         to \in BeforeSend => from \in BeforeSend,
         to = "confirm" => Written(version[o]),
         to \notin {"await_append", "await_create"}
  PROVE  SyncInv'
<1>1. /\ pc \in [Operator -> Place]
      /\ pc' = [pc EXCEPT ![o] = to] /\ pc[o] = from
      /\ UNCHANGED <<job, writes, version, target, page, flight>>
  BY DEF SyncInv, SyncTypeOK, Step, Goto, notionVars, jobVars
<1>2. JobFirst'
  BY <1>1 DEF SyncInv, JobFirst
<1>3. AnswerIsTrue'
  BY <1>1 DEF SyncInv, AnswerIsTrue, Underway, WriteOf, Written, Marked
<1>4. SentOnce' /\ SyncedIsWritten'
  BY <1>1 DEF SyncInv, SentOnce, SyncedIsWritten, Written, Marked
<1> QED BY <1>2, <1>3, <1>4 DEF SyncInv

\* A request that begins, ends or dies leaves no trace but what it sent.
LEMMA ForgetKeeps ==
  ASSUME SyncInv, SyncTypeOK', NEW o \in Operator,
         UNCHANGED <<notionVars, jobVars>>,
         \E to \in {"idle", "claim"} : pc' = [pc EXCEPT ![o] = to],
         \A p \in Operator : p # o =>
           version'[p] = version[p] /\ target'[p] = target[p]
  PROVE  SyncInv'
<1>1. /\ pc \in [Operator -> Place]
      /\ pc'[o] \in {"idle", "claim"}
      /\ \A p \in Operator : p # o => pc'[p] = pc[p]
      /\ UNCHANGED <<job, writes, page, flight>>
  BY DEF SyncInv, SyncTypeOK, notionVars, jobVars
<1>2. JobFirst'
  BY <1>1 DEF SyncInv, JobFirst, BeforeSend
<1>3. AnswerIsTrue'
  BY <1>1 DEF SyncInv, AnswerIsTrue, Underway, WriteOf, Written, Marked
<1>4. SentOnce' /\ SyncedIsWritten'
  BY <1>1 DEF SyncInv, SentOnce, SyncedIsWritten, Written, Marked
<1> QED BY <1>2, <1>3, <1>4 DEF SyncInv

\* The request that counts: its sender is alone and nothing was sent before.
LEMMA SendOnceKeeps ==
  ASSUME SyncInv, SyncTypeOK', NEW o \in Operator,
         NEW kind \in {"append", "create"}, NEW to,
         pc[o] \in BeforeSend, SendOnce(WriteOf(o, kind)),
         pc' = [pc EXCEPT ![o] = to],
         \/ kind = "append" /\ to = "await_append"
         \/ kind = "create" /\ to = "await_create",
         UNCHANGED <<job, version, target>>
  PROVE  SyncInv'
<1> DEFINE v == version[o]
<1>1. /\ v \in Version
      /\ writes \in [Version -> Nat]
      /\ writes[v] = 0 /\ job[v] # "absent"
      /\ pc \in [Operator -> Place]
  BY DEF SyncInv, SyncTypeOK, NotionTypeOK, JobFirst, BeforeSend
<1>2. /\ writes' = [writes EXCEPT ![v] = @ + 1]
      /\ flight' = flight \cup {WriteOf(o, kind)}
      /\ page' = page
  BY DEF SendOnce, WriteOf
<1>3. writes'[v] = 1 /\ \A u \in Version : u # v => writes'[u] = writes[u]
  BY <1>1, <1>2
<1>4. to \notin BeforeSend
  BY DEF BeforeSend
<1>5. JobFirst'
  <2>1. \A u \in Version : job'[u] = "absent" => writes'[u] = 0
    BY <1>1, <1>3 DEF SyncInv, JobFirst
  <2>2. \A p \in Operator : pc'[p] \in BeforeSend =>
          p # o /\ pc[p] \in BeforeSend
    BY <1>1, <1>4
  <2>3. \A p \in Operator : pc[p] \in BeforeSend => version[p] \in Version
    BY DEF SyncInv, SyncTypeOK, BeforeSend
  <2>4. \A p \in Operator : p # o /\ pc[p] \in BeforeSend => version[p] # v
    BY DEF SyncInv, JobFirst
  <2> QED BY <1>3, <2>1, <2>2, <2>3, <2>4 DEF SyncInv, JobFirst
<1>6. SentOnce'
  BY <1>1, <1>3 DEF SyncInv, SentOnce
<1>7. AnswerIsTrue'
  BY <1>1, <1>2 DEF SyncInv, AnswerIsTrue, Underway, WriteOf, Written, Marked
<1>8. SyncedIsWritten'
  BY <1>2 DEF SyncInv, SyncedIsWritten, Written, Marked
<1> QED BY <1>5, <1>6, <1>7, <1>8 DEF SyncInv

\* Every step keeps it: RecordJob makes its operator the only one that will
\* send, and what is awaited or confirmed stays under way or written.
LEMMA SyncInvNext == SyncInv /\ [SyncNext]_syncVars => SyncInv'
<1> SUFFICES ASSUME SyncInv, [SyncNext]_syncVars PROVE SyncInv'
  OBVIOUS
<1>0. SyncInv /\ SyncTypeOK /\ SyncTypeOK'
  BY SyncTypeNext DEF SyncInv
<1>1. ASSUME NEW o \in Operator,
             (\E v \in Version : Ask(o, v)) \/ RefuseBusy(o) \/ Release(o) \/ Crash(o)
      PROVE  SyncInv'
  <2>1. /\ UNCHANGED <<notionVars, jobVars>>
        /\ \E to \in {"idle", "claim"} : pc' = [pc EXCEPT ![o] = to]
        /\ \A p \in Operator : p # o =>
             version'[p] = version[p] /\ target'[p] = target[p]
    BY <1>0, <1>1 DEF Ask, RefuseBusy, Release, Crash, Forget, Goto, SyncTypeOK
  <2> QED BY <1>0, <2>1, ForgetKeeps
<1>2. ASSUME NEW o \in Operator, ClaimLapsed(o) \/ ClaimNothing(o) \/ ClaimFresh(o)
      PROVE  SyncInv'
  <2>1. /\ pc' = [pc EXCEPT ![o] = "read_job"] \/ pc' = [pc EXCEPT ![o] = "insert_lease"]
        /\ UNCHANGED <<notionVars, jobVars, version, target>>
    BY <1>2 DEF ClaimLapsed, ClaimNothing, ClaimFresh, Goto
  <2>2. /\ pc \in [Operator -> Place]
        /\ UNCHANGED <<job, writes, page, flight, version, target>>
    BY <1>0, <2>1 DEF SyncTypeOK, notionVars, jobVars
  <2>3. JobFirst' /\ SentOnce' /\ SyncedIsWritten'
    BY <1>0, <2>1, <2>2 DEF SyncInv, JobFirst, BeforeSend, SentOnce, SyncedIsWritten,
       Written, Marked
  <2>4. AnswerIsTrue'
    BY <1>0, <2>1, <2>2 DEF SyncInv, AnswerIsTrue, Underway, WriteOf, Written, Marked
  <2> QED BY <1>0, <2>3, <2>4 DEF SyncInv
<1>3. ASSUME NEW o \in Operator, Decide(o)
      PROVE  SyncInv'
  <2>1. CASE RecordJob(o)
    <3> DEFINE v == version[o]
    <3>1. /\ v \in Version /\ job[v] = "absent" /\ writes[v] = 0
          /\ job \in [Version -> JobState] /\ pc \in [Operator -> Place]
          /\ \A p \in Operator : pc[p] \in BeforeSend => version[p] # v
      BY <1>0, <2>1 DEF RecordJob, SyncInv, JobFirst, SyncTypeOK
    <3>2. /\ job' = [job EXCEPT ![v] = "processing"]
          /\ pc' = [pc EXCEPT ![o] = "find"]
          /\ UNCHANGED <<writes, page, flight, version, target>>
      BY <2>1 DEF RecordJob, Goto, notionVars
    <3>3. JobFirst'
      BY <1>0, <3>1, <3>2 DEF SyncInv, JobFirst
    <3>4. AnswerIsTrue'
      BY <1>0, <3>1, <3>2 DEF SyncInv, AnswerIsTrue, Underway, WriteOf, Written,
         Marked
    <3>5. SentOnce' /\ SyncedIsWritten'
      BY <1>0, <3>1, <3>2 DEF SyncInv, SentOnce, SyncedIsWritten, Written, Marked
    <3> QED BY <1>0, <3>3, <3>4, <3>5 DEF SyncInv
  <2>2. CASE ~RecordJob(o)
    BY <1>0, <1>3, <2>2, StepKeeps DEF Decide, FindNoJob, AnswerSynced, RefuseEarly,
       FindUncertain, ReconcileFound, ReconcileMissing, RecordCollides, BeforeSend
  <2> QED BY <2>1, <2>2
<1>4. ASSUME NEW o \in Operator, Write(o)
      PROVE  SyncInv'
  <2>1. CASE FindPage(o) \/ SendColumns(o) \/ RepeatColumns(o)
    <3>1. /\ pc[o] \in BeforeSend
          /\ \/ pc' = pc
             \/ \E to \in {"send_columns", "await_columns"} : pc' = [pc EXCEPT ![o] = to]
          /\ flight \subseteq flight'
          /\ UNCHANGED <<job, writes, page, version>>
          /\ pc \in [Operator -> Place]
          /\ target \in [Operator -> Nat]
          /\ \A p \in Operator : p # o => target'[p] = target[p]
      BY <1>0, <2>1 DEF FindPage, SendColumns, RepeatColumns, SendRepeatable, Goto,
         notionVars, jobVars, localVars, BeforeSend, SyncTypeOK
    <3>2. pc'[o] \in BeforeSend /\ \A p \in Operator : p # o => pc'[p] = pc[p]
      BY <3>1 DEF BeforeSend
    <3>3. JobFirst'
      BY <1>0, <3>1, <3>2 DEF SyncInv, JobFirst
    <3>4. AnswerIsTrue'
      BY <1>0, <3>1, <3>2 DEF SyncInv, AnswerIsTrue, Underway, WriteOf, Written, Marked,
         BeforeSend
    <3>5. SentOnce' /\ SyncedIsWritten'
      BY <1>0, <3>1 DEF SyncInv, SentOnce, SyncedIsWritten, Written, Marked
    <3> QED BY <1>0, <3>3, <3>4, <3>5 DEF SyncInv
  <2>2. CASE SendAppend(o)
    <3>1. pc[o] \in BeforeSend
      BY <2>2 DEF SendAppend, BeforeSend
    <3> QED BY <1>0, <2>2, <3>1, SendOnceKeeps DEF SendAppend, Goto, jobVars
  <2>3. CASE SendCreate(o)
    <3>1. pc[o] \in BeforeSend
      BY <2>3 DEF SendCreate, BeforeSend
    <3> QED BY <1>0, <2>3, <3>1, SendOnceKeeps DEF SendCreate, Goto, jobVars
  <2>4. CASE AppendAnswered(o)
    <3>1. Written(version[o])
      BY <1>0, <2>4 DEF AppendAnswered, Answered, Step, SyncInv, AnswerIsTrue, Underway
    <3> QED BY <1>0, <2>4, <3>1, StepKeeps DEF AppendAnswered, BeforeSend
  <2>5. CASE CreateAnswered(o)
    <3>1. Written(version[o])
      BY <1>0, <2>5 DEF CreateAnswered, Answered, Step, SyncInv, AnswerIsTrue, Underway
    <3> QED BY <1>0, <2>5, <3>1, StepKeeps DEF CreateAnswered, BeforeSend
  <2>6. CASE FindNoPage(o) \/ ColumnsAnswered(o) \/ WriteRaises(o)
    BY <1>0, <2>6, StepKeeps DEF FindNoPage, ColumnsAnswered, WriteRaises, BeforeSend
  <2> QED BY <1>4, <2>1, <2>2, <2>3, <2>4, <2>5, <2>6 DEF Write
<1>5. ASSUME NEW o \in Operator, MarkUnknown(o) \/ MarkSynced(o)
      PROVE  SyncInv'
  <2> DEFINE v == version[o]
  <2>1. /\ v \in Version
        /\ pc \in [Operator -> Place] /\ job \in [Version -> JobState]
        /\ pc' = [pc EXCEPT ![o] = "release"]
        /\ UNCHANGED <<writes, page, flight, version, target>>
        /\ \/ job' = [job EXCEPT ![v] = "unknown"]
           \/ job' = [job EXCEPT ![v] = "synced"] /\ pc[o] = "confirm"
    BY <1>0, <1>5 DEF MarkUnknown, MarkSynced, Goto, notionVars, SyncTypeOK
  <2>2. JobFirst'
    <3>1. \A u \in Version : job'[u] = "absent" => job[u] = "absent"
      BY <2>1
    <3>2. \A p \in Operator : pc'[p] \in BeforeSend =>
            pc[p] \in BeforeSend /\ version[p] \in Version
      BY <1>0, <2>1 DEF BeforeSend, SyncTypeOK
    <3> QED BY <1>0, <2>1, <3>1, <3>2 DEF SyncInv, JobFirst
  <2>3. AnswerIsTrue'
    BY <1>0, <2>1 DEF SyncInv, AnswerIsTrue, Underway, WriteOf, Written, Marked
  <2>4. SentOnce'
    BY <1>0, <2>1 DEF SyncInv, SentOnce
  <2>5. SyncedIsWritten'
    BY <1>0, <2>1 DEF SyncInv, SyncedIsWritten, AnswerIsTrue, Written, Marked
  <2> QED BY <1>0, <2>2, <2>3, <2>4, <2>5 DEF SyncInv
<1>6. CASE NotionStep
  <2>1. PICK q \in flight : Apply(q)
    BY <1>6 DEF NotionStep
  <2>2. /\ \A v \in Version : Written(v) => Written(v)'
        /\ q.kind # "columns" => Written(q.version)'
    BY <1>0, <2>1, ApplyKeeps DEF SyncTypeOK
  <2>3. /\ flight' = flight \ {q}
        /\ UNCHANGED <<job, writes, pc, version, target>>
    BY <1>6, <2>1 DEF Apply, NotionStep, jobVars, localVars
  <2>4. JobFirst' /\ SentOnce'
    BY <1>0, <2>3 DEF SyncInv, JobFirst, SentOnce
  <2>5. ASSUME NEW o \in Operator, NEW kind \in {"append", "create"},
               pc[o] # "idle", Underway(o, kind)
        PROVE  Underway(o, kind)'
    <3>1. /\ WriteOf(o, kind).version = version[o] /\ version[o] \in Version
          /\ WriteOf(o, kind).kind = kind
      BY <1>0, <2>5, WriteIsRequest DEF Kind, SyncTypeOK
    <3>2. WriteOf(o, kind)' = WriteOf(o, kind)
      BY <2>3 DEF WriteOf
    <3> QED BY <2>2, <2>3, <2>5, <3>1, <3>2 DEF Underway
  <2>6. \A o \in Operator : pc[o] = "confirm" => version[o] \in Version
    BY <1>0 DEF SyncTypeOK
  <2>7. AnswerIsTrue'
    BY <1>0, <2>2, <2>3, <2>5, <2>6 DEF SyncInv, AnswerIsTrue
  <2>8. SyncedIsWritten'
    BY <1>0, <2>2, <2>3 DEF SyncInv, SyncedIsWritten
  <2> QED BY <1>0, <2>4, <2>7, <2>8 DEF SyncInv
<1>7. CASE LeaseEnds \/ (\E v \in Version : DelayEnds(v)) \/ UNCHANGED syncVars
  <2>1. UNCHANGED <<job, writes, page, flight, pc, version, target>>
    BY <1>7 DEF LeaseEnds, DelayEnds, syncVars, notionVars, jobVars, localVars
  <2> QED BY <1>0, <2>1 DEF SyncInv, JobFirst, SentOnce, SyncedIsWritten, AnswerIsTrue,
       Underway, WriteOf, Written, Marked
<1> QED BY <1>1, <1>2, <1>3, <1>4, <1>5, <1>6, <1>7 DEF SyncNext, Claim, Conclude

\* The strengthened invariant holds throughout.
LEMMA SyncInvariant == SyncSpec => []SyncInv
  BY SyncInvInit, SyncInvNext, PTL DEF SyncSpec

\* No version is ever sent to Notion twice, for any operators and versions,
\* whatever leases expire, processes die and answers get lost: sync_reviewed
\* commits the job row before it sends and only looks for what it sent.
THEOREM VersionsAreSentOnce == SyncSpec => []SentOnce
<1>1. SyncInv => SentOnce
  BY DEF SyncInv
<1> QED BY SyncInvariant, <1>1, PTL

\* A version is recorded as synced only when its marker is in Notion.
THEOREM SyncedVersionsAreWritten == SyncSpec => []SyncedIsWritten
<1>1. SyncInv => SyncedIsWritten
  BY DEF SyncInv
<1> QED BY SyncInvariant, <1>1, PTL
-----------------------------------------------------------------------------
\* A job that was synced stays synced when no lease runs out under a live
\* operator.

\* Initially nobody holds the lead's lease and nobody is inside it.
LEMMA OneWriterInit == SyncInit => OneWriter
  BY DEF SyncInit, LeaseInit, OneWriter, AfterClaim, Writing, BeforeSend, Place

\* With Timely leases every step keeps the second strengthening, and none takes
\* a version out of the state synced.
LEMMA OneWriterNext ==
  Timely /\ SyncTypeOK /\ OneWriter /\ [SyncNext]_syncVars
    => OneWriter' /\ (\A v \in Version : job[v] = "synced" => job'[v] = "synced")
<1> SUFFICES ASSUME Timely, SyncTypeOK, OneWriter, [SyncNext]_syncVars
             PROVE  /\ OneWriter'
                    /\ \A v \in Version : job[v] = "synced" => job'[v] = "synced"
  OBVIOUS
<1> DEFINE Final == \A v \in Version : job[v] = "synced" => job'[v] = "synced"
<1> USE LeaseAssumption, SyncAssumption DEF LeaseAssumption, SyncAssumption
<1>0. /\ Timely /\ OneWriter
      /\ pc \in [Operator -> Place] /\ job \in [Version -> JobState]
      /\ \A o \in Operator : pc[o] # "idle" => version[o] \in Version
  BY DEF SyncTypeOK
<1>a. Writing \subseteq AfterClaim /\ "record" \in AfterClaim
      /\ AfterClaim \subseteq Place \ {"idle", "claim", "insert_lease"}
  BY DEF Writing, AfterClaim, BeforeSend, Place
\* Whoever holds the lease is the only one inside, so a step of it that keeps
\* the lease need only answer for itself.
<1>1. ASSUME NEW o \in Operator, pc[o] \in AfterClaim, NEW to \in Place,
             pc' = [pc EXCEPT ![o] = to], UNCHANGED <<holder, expired>>,
             \A p \in Operator : p # o => version'[p] = version[p],
             to = "record" => job'[version'[o]] = "absent",
             to \in Writing => job'[version'[o]] # "synced"
      PROVE  OneWriter'
  <2>1. \A p \in Operator : p # o => pc'[p] \notin AfterClaim
    BY <1>0, <1>1 DEF OneWriter, Holds
  <2> QED BY <1>0, <1>a, <1>1, <2>1 DEF OneWriter, Holds
\* A step that does not touch the jobs.
<1>2. ASSUME NEW o \in Operator, NEW from, NEW to \in Place, Step(o, from, to),
             from \in AfterClaim,
             to = "record" => job[version[o]] = "absent",
             to \in Writing => from \in Writing
      PROVE  OneWriter' /\ Final
  <2>1. /\ pc[o] = from /\ pc' = [pc EXCEPT ![o] = to]
        /\ UNCHANGED <<holder, expired, job, version>>
    BY <1>2 DEF Step, Goto, leaseVars, jobVars
  <2>2. to \in Writing => job[version[o]] # "synced"
    BY <1>0, <1>2, <2>1 DEF OneWriter
  <2> QED BY <1>1, <1>2, <2>1, <2>2
<1>3. ASSUME NEW o \in Operator,
             (\E v \in Version : Ask(o, v)) \/ ClaimNothing(o) \/ RefuseBusy(o)
      PROVE  OneWriter' /\ Final
  <2>1. /\ pc[o] \notin AfterClaim
        /\ \E to \in {"idle", "claim", "insert_lease"} : pc' = [pc EXCEPT ![o] = to]
        /\ \A p \in Operator : p # o => version'[p] = version[p]
        /\ UNCHANGED <<holder, expired, job>>
    BY <1>3, <1>a DEF Ask, ClaimNothing, RefuseBusy, Forget, Goto, leaseVars, jobVars,
       SyncTypeOK
  <2>2. pc'[o] \notin AfterClaim /\ \A p \in Operator : p # o => pc'[p] = pc[p]
    BY <1>0, <1>a, <2>1
  <2> QED BY <1>0, <1>a, <2>1, <2>2 DEF OneWriter, Holds
<1>4. ASSUME NEW o \in Operator, ClaimLapsed(o) \/ ClaimFresh(o)
      PROVE  OneWriter' /\ Final
  <2>1. /\ pc' = [pc EXCEPT ![o] = "read_job"]
        /\ holder' = o /\ expired' = FALSE
        /\ holder \in {Nobody, Orphan}
        /\ UNCHANGED <<job, version>>
    BY <1>0, <1>4 DEF ClaimLapsed, ClaimFresh, StealLease, InsertLease, LeaseLapsed,
       Goto, jobVars, OneWriter
  <2>2. \A p \in Operator : pc[p] \notin AfterClaim
    BY <1>0, <2>1 DEF OneWriter, Holds
  <2>3. "read_job" \notin Writing \cup {"record"}
    BY DEF Writing, BeforeSend
  <2> QED BY <1>0, <1>a, <2>1, <2>2, <2>3 DEF OneWriter, Holds
<1>5. ASSUME NEW o \in Operator, Release(o) \/ Crash(o)
      PROVE  OneWriter' /\ Final
  <2>1. /\ pc' = [pc EXCEPT ![o] = "idle"]
        /\ \A p \in Operator : p # o => version'[p] = version[p]
        /\ job' = job
    BY <1>5 DEF Release, Crash, Forget, Goto, jobVars, SyncTypeOK
  <2>2. /\ holder # o => holder' = holder
        /\ expired' => holder' = Orphan
    <3>1. CASE Release(o)
      BY <1>0, <3>1 DEF Release, ReleaseLease, Holds, leaseVars, OneWriter
    <3>2. CASE Crash(o)
      BY <1>0, <3>2 DEF Crash, AbandonLease, Holds, OneWriter
    <3> QED BY <1>5, <3>1, <3>2
  <2>3. pc'[o] \notin AfterClaim /\ \A p \in Operator : p # o => pc'[p] = pc[p]
    BY <1>0, <1>a, <2>1
  <2> QED BY <1>0, <1>a, <2>1, <2>2, <2>3 DEF OneWriter, Holds
<1>6. ASSUME NEW o \in Operator, Decide(o)
      PROVE  OneWriter' /\ Final
  <2>1. CASE RecordJob(o)
    <3>1. /\ pc[o] = "record" /\ pc' = [pc EXCEPT ![o] = "find"]
          /\ job[version[o]] = "absent" /\ version[o] \in Version
          /\ job' = [job EXCEPT ![version[o]] = "processing"]
          /\ UNCHANGED <<holder, expired, version>>
      BY <1>0, <2>1 DEF RecordJob, Goto, leaseVars
    <3>2. job'[version[o]] = "processing" /\ Final
      BY <1>0, <3>1
    <3>3. "find" \in Place
      BY DEF Place
    <3> QED BY <1>1, <1>a, <3>1, <3>2, <3>3
  <2>2. CASE ~RecordJob(o)
    BY <1>2, <1>6, <2>2 DEF Decide, FindNoJob, AnswerSynced, RefuseEarly, Step,
       FindUncertain, ReconcileFound, ReconcileMissing, RecordCollides,
       AfterClaim, Writing, BeforeSend, Place
  <2> QED BY <2>1, <2>2
<1>7. ASSUME NEW o \in Operator, Write(o)
      PROVE  OneWriter' /\ Final
  <2>1. CASE FindPage(o) \/ SendColumns(o) \/ RepeatColumns(o) \/ SendAppend(o)
             \/ SendCreate(o)
    <3>1. /\ pc[o] \in Writing
          /\ \/ pc' = pc
             \/ \E to \in Writing : pc' = [pc EXCEPT ![o] = to]
          /\ UNCHANGED <<holder, expired, job, version>>
      BY <2>1 DEF FindPage, SendColumns, RepeatColumns, SendAppend, SendCreate, Goto,
         leaseVars, jobVars, localVars, Writing, BeforeSend
    <3>2. job[version[o]] # "synced"
      BY <1>0, <3>1 DEF OneWriter
    <3>3. CASE pc' = pc
      BY <1>0, <3>1, <3>3 DEF OneWriter, Holds
    <3>4. CASE \E to \in Writing : pc' = [pc EXCEPT ![o] = to]
      <4>1. PICK to \in Writing : pc' = [pc EXCEPT ![o] = to]
        BY <3>4
      <4>2. to # "record" /\ to \in Place
        BY <4>1 DEF Writing, BeforeSend, Place
      <4> QED BY <1>1, <1>a, <3>1, <3>2, <4>1, <4>2
    <3> QED BY <3>1, <3>3, <3>4
  <2>2. CASE FindNoPage(o) \/ ColumnsAnswered(o) \/ AppendAnswered(o)
             \/ CreateAnswered(o) \/ WriteRaises(o)
    BY <1>2, <2>2 DEF FindNoPage, ColumnsAnswered, AppendAnswered, CreateAnswered,
       WriteRaises, AfterClaim, Writing, BeforeSend, Place
  <2> QED BY <1>7, <2>1, <2>2 DEF Write
<1>8. ASSUME NEW o \in Operator, MarkUnknown(o) \/ MarkSynced(o)
      PROVE  OneWriter' /\ Final
  <2>1. /\ pc[o] \in AfterClaim /\ pc' = [pc EXCEPT ![o] = "release"]
        /\ version[o] \in Version
        /\ UNCHANGED <<holder, expired, version>>
        /\ \/ job' = [job EXCEPT ![version[o]] = "unknown"] /\ pc[o] \in Writing
           \/ job' = [job EXCEPT ![version[o]] = "synced"]
    BY <1>0, <1>8 DEF MarkUnknown, MarkSynced, Goto, leaseVars, AfterClaim, Writing,
       Place
  <2>2. Final
    BY <1>0, <2>1 DEF OneWriter
  <2>3. "release" \in Place /\ "release" \notin Writing \cup {"record"}
    BY DEF Place, Writing, BeforeSend
  <2> QED BY <1>1, <2>1, <2>2, <2>3
<1>9. CASE LeaseEnds
  BY <1>0, <1>9 DEF LeaseEnds, LeaseRunsOut, jobVars, localVars, OneWriter, Holds
<1>10. CASE NotionStep \/ (\E v \in Version : DelayEnds(v)) \/ UNCHANGED syncVars
  <2>1. UNCHANGED <<holder, expired, job, pc, version>>
    BY <1>10 DEF NotionStep, DelayEnds, syncVars, leaseVars, jobVars, localVars
  <2> QED BY <1>0, <2>1 DEF OneWriter, Holds
<1> QED BY <1>3, <1>4, <1>5, <1>6, <1>7, <1>8, <1>9, <1>10 DEF SyncNext, Claim, Conclude

\* With Timely leases, what was recorded as synced is never recorded as unknown
\* again: update_event needs no fence as long as the lease outlasts the write.
THEOREM SyncedStaysSynced == Timely /\ SyncSpec => SyncedIsFinal
<1>1. SyncInit => OneWriter
  BY OneWriterInit
<1>2. SyncTypeOK /\ Timely /\ OneWriter /\ [SyncNext]_syncVars
        => OneWriter' /\ [\A v \in Version : job[v] = "synced" => job'[v] = "synced"]_job
  BY OneWriterNext
<1> SUFFICES ASSUME Timely PROVE SyncSpec => SyncedIsFinal
  OBVIOUS
<1>3. SyncTypeOK /\ OneWriter /\ [SyncNext]_syncVars
        => OneWriter' /\ [\A v \in Version : job[v] = "synced" => job'[v] = "synced"]_job
  BY <1>2
<1> QED BY <1>1, <1>3, SyncTypeCorrect, PTL DEF SyncSpec, SyncedIsFinal
-----------------------------------------------------------------------------
\* The lead has one page when no lease runs out under a live operator and Notion
\* executes nothing its sender gave up on.

\* Nothing was sent, there is no page.
LEMMA OneCreationInit == SyncInit => OneCreation
  BY DEF SyncInit, NotionInit, OneCreation, OnePagePerLead

\* A step that sends nothing and comes to no waiting place keeps it.
LEMMA QuietKeepsCreation ==
  ASSUME OneCreation, NEW o \in Operator, NEW to, UNCHANGED notionVars,
         pc \in [Operator -> Place],
         pc' = [pc EXCEPT ![o] = to], to \notin Waiting,
         to = "send_create" => page = <<>>,
         \A p \in Operator : p # o =>
           version'[p] = version[p] /\ target'[p] = target[p],
         \A q \in flight : q.sender \in Operator
  PROVE  OneCreation'
<1>1. UNCHANGED <<page, flight, writes>>
  BY DEF notionVars
<1>2. \A p \in Operator : pc'[p] \in Waiting => p # o /\ pc[p] \in Waiting
  BY DEF Waiting
<1>3. \A q \in flight : Awaited(q)' => Awaited(q)
  BY <1>2 DEF Awaited, WriteOf, Waiting
<1>4. \A p \in Operator : pc'[p] = "send_create" => page' = <<>>
  BY <1>1 DEF OneCreation
<1> QED BY <1>1, <1>3, <1>4 DEF OneCreation, OnePagePerLead

\* A request that is sent keeps it: nothing of its version was under way that
\* counts, and a creation is sent when there is no page.
LEMMA SendKeepsCreation ==
  ASSUME OneCreation, SyncInv, NEW o \in Operator, NEW kind \in Kind, NEW to,
         pc[o] \in BeforeSend,
         pc' = [pc EXCEPT ![o] = to], to # "send_create",
         kind = "create" => page = <<>>,
         flight' = flight \cup {WriteOf(o, kind)},
         page' = page,
         writes' = IF kind = "columns" THEN writes
                   ELSE [writes EXCEPT ![version[o]] = @ + 1],
         UNCHANGED <<version, target>>
  PROVE  OneCreation'
<1>1. /\ pc \in [Operator -> Place] /\ version[o] \in Version
      /\ writes \in [Version -> Nat] /\ writes[version[o]] = 0
      /\ \A q \in flight : q.sender \in Operator /\ q.version \in Version
  BY SyncAssumption DEF SyncInv, SyncTypeOK, NotionTypeOK, WriteRequest, JobFirst, BeforeSend
<1>2. LET w == WriteOf(o, kind) IN w.kind = kind /\ w.version = version[o]
  BY DEF WriteOf
<1>3. \A q \in flight' : q.kind # "columns" => writes'[q.version] >= 1
  BY <1>1, <1>2 DEF OneCreation
<1>4. ASSUME NEW q \in flight', q.kind = "create", Awaited(q)'
      PROVE  page' = <<>>
  <2>1. CASE q = WriteOf(o, kind)
    BY <1>2, <1>4, <2>1
  <2>2. CASE q \in flight /\ q.sender = o
    <3>1. q.version = version[o]
      BY <1>4, <2>2 DEF Awaited, WriteOf
    <3> QED BY <1>1, <1>4, <2>2, <3>1 DEF OneCreation
  <2>3. CASE q \in flight /\ q.sender # o
    BY <1>1, <1>4, <2>3 DEF OneCreation, Awaited, WriteOf
  <2> QED BY <2>1, <2>2, <2>3
<1>5. \A p \in Operator : pc'[p] = "send_create" => page' = <<>>
  BY <1>1 DEF OneCreation
<1> QED BY <1>3, <1>4, <1>5 DEF OneCreation, OnePagePerLead

\* Every step keeps it; what Notion executes is awaited by the one operator inside.
LEMMA OneCreationNext ==
  ASSUME Prompt, SyncInv, OneWriter, OneCreation, [SyncNext]_syncVars
  PROVE  OneCreation'
<1>0. /\ SyncTypeOK
      /\ pc \in [Operator -> Place] /\ page \in Seq(PageRecord)
      /\ \A q \in flight : q.sender \in Operator /\ q.version \in Version
  BY SyncAssumption DEF SyncInv, SyncTypeOK, NotionTypeOK, WriteRequest
<1>1. ASSUME NEW o \in Operator, NEW from, NEW to, Step(o, from, to),
             to \notin Waiting, to = "send_create" => page = <<>>
      PROVE  OneCreation'
  BY <1>0, <1>1, QuietKeepsCreation DEF Step, Goto
<1>2. ASSUME NEW o \in Operator, NEW v \in Version, Ask(o, v)
      PROVE  OneCreation'
  <2>1. /\ pc' = [pc EXCEPT ![o] = "claim"] /\ UNCHANGED notionVars
        /\ \A p \in Operator : p # o =>
             version'[p] = version[p] /\ target'[p] = target[p]
    BY <1>0, <1>2 DEF Ask, Goto, SyncTypeOK
  <2>2. "claim" \notin Waiting \cup {"send_create"}
    BY DEF Waiting
  <2> QED BY <1>0, <2>1, <2>2, QuietKeepsCreation
<1>3. ASSUME NEW o \in Operator, RefuseBusy(o) \/ Release(o) \/ Crash(o)
      PROVE  OneCreation'
  <2>1. /\ pc' = [pc EXCEPT ![o] = "idle"] /\ UNCHANGED notionVars
        /\ \A p \in Operator : p # o =>
             version'[p] = version[p] /\ target'[p] = target[p]
    BY <1>0, <1>3 DEF RefuseBusy, Release, Crash, Forget, Goto, SyncTypeOK
  <2>2. "idle" \notin Waiting \cup {"send_create"}
    BY DEF Waiting
  <2> QED BY <1>0, <2>1, <2>2, QuietKeepsCreation
<1>4. ASSUME NEW o \in Operator,
             ClaimLapsed(o) \/ ClaimNothing(o) \/ ClaimFresh(o) \/ RecordJob(o)
             \/ FindPage(o) \/ MarkUnknown(o) \/ MarkSynced(o)
      PROVE  OneCreation'
  <2>1. /\ UNCHANGED notionVars /\ version' = version
        /\ \E to \in {"read_job", "insert_lease", "find", "send_columns", "release"} :
             pc' = [pc EXCEPT ![o] = to]
        /\ \A p \in Operator : p # o => target'[p] = target[p]
    BY <1>0, <1>4 DEF ClaimLapsed, ClaimNothing, ClaimFresh, RecordJob, FindPage,
       MarkUnknown, MarkSynced, Goto, SyncTypeOK
  <2>2. PICK to \in {"read_job", "insert_lease", "find", "send_columns", "release"} :
          pc' = [pc EXCEPT ![o] = to]
    BY <2>1
  <2>3. to \notin Waiting /\ to # "send_create"
    BY <2>2 DEF Waiting
  <2> QED BY <1>0, <2>1, <2>2, <2>3, QuietKeepsCreation
<1>5. ASSUME NEW o \in Operator, Decide(o), ~RecordJob(o)
      PROVE  OneCreation'
  BY <1>1, <1>5 DEF Decide, FindNoJob, AnswerSynced, RefuseEarly, FindUncertain,
     ReconcileFound, ReconcileMissing, RecordCollides, Waiting
<1>6. ASSUME NEW o \in Operator,
             FindNoPage(o) \/ ColumnsAnswered(o) \/ AppendAnswered(o)
             \/ CreateAnswered(o) \/ WriteRaises(o)
      PROVE  OneCreation'
  BY <1>1, <1>6 DEF FindNoPage, ColumnsAnswered, AppendAnswered, CreateAnswered,
     WriteRaises, Waiting
<1>7. ASSUME NEW o \in Operator, SendColumns(o) \/ RepeatColumns(o)
      PROVE  OneCreation'
  <2>1. /\ pc[o] \in BeforeSend /\ pc' = [pc EXCEPT ![o] = "await_columns"]
        /\ flight' = flight \cup {WriteOf(o, "columns")}
        /\ UNCHANGED <<page, writes, version, target>>
    BY <1>0, <1>7 DEF SendColumns, RepeatColumns, SendRepeatable, Goto, localVars,
       BeforeSend
  <2> QED BY <2>1, <1>0, SendKeepsCreation DEF Kind
<1>8. ASSUME NEW o \in Operator, SendAppend(o)
      PROVE  OneCreation'
  <2>1. /\ pc[o] \in BeforeSend /\ pc' = [pc EXCEPT ![o] = "await_append"]
        /\ flight' = flight \cup {WriteOf(o, "append")}
        /\ writes' = [writes EXCEPT ![version[o]] = @ + 1]
        /\ UNCHANGED <<page, version, target>>
    BY <1>8 DEF SendAppend, SendOnce, Goto, BeforeSend, WriteOf
  <2> QED BY <2>1, SendKeepsCreation DEF Kind
<1>9. ASSUME NEW o \in Operator, SendCreate(o)
      PROVE  OneCreation'
  <2>1. page = <<>>
    BY <1>9 DEF SendCreate, OneCreation
  <2>2. /\ pc[o] \in BeforeSend /\ pc' = [pc EXCEPT ![o] = "await_create"]
        /\ flight' = flight \cup {WriteOf(o, "create")}
        /\ writes' = [writes EXCEPT ![version[o]] = @ + 1]
        /\ UNCHANGED <<page, version, target>>
    BY <1>9 DEF SendCreate, SendOnce, Goto, BeforeSend, WriteOf
  <2> QED BY <2>1, <2>2, SendKeepsCreation DEF Kind
<1>10. CASE NotionStep
  <2>1. PICK q \in flight : Awaited(q) /\ Apply(q)
    BY <1>10 DEF NotionStep
  <2>2. /\ flight' = flight \ {q}
        /\ UNCHANGED <<writes, pc, version, target>>
    BY <1>10, <2>1 DEF NotionStep, Apply, localVars
  <2>3. q.sender \in Operator /\ pc[q.sender] \in Waiting
    BY <1>0, <2>1 DEF Awaited, Waiting
  \* Everybody else is outside.
  <2>4. \A p \in Operator : pc[p] \in Waiting \cup {"send_create"} => p = q.sender
    BY <2>3 DEF OneWriter, Waiting, AfterClaim, Place, Holds
  <2>5. \A p \in Operator : pc'[p] # "send_create"
    BY <2>2, <2>3, <2>4 DEF Waiting
  <2>6. \A r \in flight' : Awaited(r)' => Awaited(r) /\ r.sender = q.sender
    BY <1>0, <2>2, <2>4 DEF Awaited, WriteOf, Waiting
  <2>7. \A r \in flight' : q.kind = "create" => ~(r.kind = "create" /\ Awaited(r)')
    BY <2>1, <2>2, <2>6 DEF Awaited
  <2>8. CASE q.kind = "create"
    <3>1. page = <<>>
      BY <2>1, <2>8 DEF OneCreation
    <3>2. Len(page') = 1
      BY <1>0, <2>1, <2>8, <3>1, AppendProperties DEF Apply
    <3> QED BY <2>2, <2>5, <2>7, <2>8, <3>2 DEF OneCreation, OnePagePerLead
  <2>9. CASE q.kind # "create"
    <3>1. q.at \in DOMAIN page /\ q.kind \in Kind
      BY <1>0, <2>9 DEF SyncTypeOK, NotionTypeOK, WriteRequest
    <3>2. page # <<>>
      BY <3>1
    <3>3. Len(page') = Len(page)
      BY <1>0, <2>1, <2>9, <3>1 DEF Apply, Kind
    <3>4. \A r \in flight' : ~(r.kind = "create" /\ Awaited(r)')
      BY <2>2, <2>6, <3>2 DEF OneCreation
    <3> QED BY <2>2, <2>5, <3>3, <3>4 DEF OneCreation, OnePagePerLead
  <2> QED BY <2>8, <2>9
<1>11. CASE LeaseEnds \/ (\E v \in Version : DelayEnds(v)) \/ UNCHANGED syncVars
  <2>1. UNCHANGED <<page, flight, writes, pc, version, target>>
    BY <1>11 DEF LeaseEnds, DelayEnds, syncVars, notionVars, localVars
  <2> QED BY <2>1 DEF OneCreation, OnePagePerLead, Awaited, WriteOf
<1> QED BY <1>2, <1>3, <1>4, <1>5, <1>6, <1>7, <1>8, <1>9, <1>10, <1>11
     DEF SyncNext, Claim, Write, Conclude

\* With leases that outlast the write and a Notion that drops what its sender
\* gave up on, looking the lead up before creating its page is enough.
THEOREM LeadHasOnePage == Timely /\ Prompt /\ SyncSpec => []OnePagePerLead
<1> SUFFICES ASSUME Timely, Prompt PROVE SyncSpec => []OnePagePerLead
  OBVIOUS
<1>1. SyncTypeOK /\ OneWriter /\ [SyncNext]_syncVars => OneWriter'
  BY OneWriterNext
<1>2. SyncInv /\ OneWriter /\ OneCreation /\ [SyncNext]_syncVars => OneCreation'
  BY OneCreationNext
<1>3. SyncInv => SyncTypeOK
  BY DEF SyncInv
<1>4. OneCreation => OnePagePerLead
  BY DEF OneCreation
<1> QED BY <1>1, <1>2, <1>3, <1>4, OneWriterInit, OneCreationInit, SyncInvariant, PTL
     DEF SyncSpec
=============================================================================
