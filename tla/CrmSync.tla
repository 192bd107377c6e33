------------------------------- MODULE CrmSync -------------------------------
(***************************************************************************)
(* sync_reviewed: the durable hand-over of reviewed versions of one lead   *)
(* to Notion, by any number of concurrent operators.                       *)
(*                                                                         *)
(* The lease is the lead's, under its own key of conversation_leases.  The *)
(* job of a version is a row of workflow_events whose primary key is the   *)
(* version's hash, so it can be inserted once.                             *)
(***************************************************************************)
EXTENDS ProcessingLease, NotionPages

CONSTANTS
  Operator,  \* concurrently served sync requests
  None,      \* no version
  Prompt     \* TRUE: Notion applies no request its sender gave up on

ASSUME SyncAssumption ==
  /\ Operator \subseteq Client
  /\ Sender = Operator
  /\ None \notin Version
  /\ Prompt \in BOOLEAN

VARIABLES
  job,       \* payload.state of the version's event, "absent": no row
  deferred,  \* payload.retry_not_before is in the future
  pc,        \* where each request is in sync_reviewed
  version,   \* the version being synced
  target     \* index of the page write found

jobVars == <<job, deferred>>
localVars == <<pc, version, target>>
syncVars == <<leaseVars, notionVars, jobVars, localVars>>

Place == {"idle", "claim", "insert_lease", "read_job", "reconcile", "record",
          "find", "send_columns", "await_columns", "send_append", "await_append",
          "send_create", "await_create", "confirm", "failed", "release"}
JobState == {"absent", "processing", "unknown", "synced"}

SyncTypeOK ==
  /\ LeaseTypeOK
  /\ NotionTypeOK
  /\ job \in [Version -> JobState]
  /\ deferred \in [Version -> BOOLEAN]
  /\ pc \in [Operator -> Place]
  /\ version \in [Operator -> Version \cup {None}]
  /\ target \in [Operator -> Nat]
  /\ \A o \in Operator : pc[o] # "idle" => version[o] \in Version
  /\ \A o \in Operator :
       pc[o] \in {"send_columns", "await_columns", "send_append", "await_append"}
         => target[o] \in DOMAIN page
  /\ \A q \in flight : q.kind # "create" => q.at \in DOMAIN page

SyncInit ==
  /\ LeaseInit
  /\ NotionInit
  /\ job = [v \in Version |-> "absent"]
  /\ deferred = [v \in Version |-> FALSE]
  /\ pc = [o \in Operator |-> "idle"]
  /\ version = [o \in Operator |-> None]
  /\ target = [o \in Operator |-> 0]

-----------------------------------------------------------------------------
Goto(o, place) == pc' = [pc EXCEPT ![o] = place]

Forget(o) ==
  /\ Goto(o, "idle")
  /\ version' = [version EXCEPT ![o] = None]
  /\ target' = [target EXCEPT ![o] = 0]

\* An operator asks for version v.  Saved analyses and their approved texts
\* may be sent in any order and any number of times (sync_lead_to_notion).
Ask(o, v) ==
  /\ pc[o] = "idle"
  /\ version' = [version EXCEPT ![o] = v]
  /\ Goto(o, "claim")
  /\ UNCHANGED <<leaseVars, notionVars, jobVars, target>>

ClaimLapsed(o) ==
  /\ pc[o] = "claim"
  /\ StealLease(o)
  /\ Goto(o, "read_job")
  /\ UNCHANGED <<notionVars, jobVars, version, target>>

ClaimNothing(o) ==
  /\ pc[o] = "claim"
  /\ ~LeaseLapsed
  /\ Goto(o, "insert_lease")
  /\ UNCHANGED <<leaseVars, notionVars, jobVars, version, target>>

ClaimFresh(o) ==
  /\ pc[o] = "insert_lease"
  /\ InsertLease(o)
  /\ Goto(o, "read_job")
  /\ UNCHANGED <<notionVars, jobVars, version, target>>

RefuseBusy(o) ==
  /\ pc[o] = "insert_lease"
  /\ holder # Nobody
  /\ Forget(o)
  /\ UNCHANGED <<leaseVars, notionVars, jobVars>>

\* Steps that only move the request on.
Step(o, from, to) ==
  /\ pc[o] = from
  /\ Goto(o, to)
  /\ UNCHANGED <<leaseVars, notionVars, jobVars, version, target>>

\* get_event(job_id): what the row says decides.
FindNoJob(o) ==
  /\ Step(o, "read_job", "record")
  /\ job[version[o]] = "absent"

\* (Mutant: a version recorded as synced is written again.)
WriteSynced(o) ==
  /\ Step(o, "read_job", "find")
  /\ job[version[o]] = "synced"
AnswerSynced(o) ==
  /\ Step(o, "read_job", "release")
  /\ job[version[o]] = "synced"

RefuseEarly(o) ==
  /\ Step(o, "read_job", "release")
  /\ job[version[o]] \in {"processing", "unknown"}
  /\ deferred[version[o]]

FindUncertain(o) ==
  /\ Step(o, "read_job", "reconcile")
  /\ job[version[o]] \in {"processing", "unknown"}
  /\ ~deferred[version[o]]

\* writer.reconcile: one page of the lead is looked up and its blocks are
\* searched for the version's marker.
ReconcileFound(o) ==
  /\ Step(o, "reconcile", "confirm")
  /\ Written(version[o])

\* No page, no marker on the page looked at, or a read that raises: "CRM write
\* outcome is unknown."
\* (Mutant: a write that is not found is sent again.)
ReconcileThenReplay(o) == Step(o, "reconcile", "find")
ReconcileMissing(o) == Step(o, "reconcile", "release")

\* put_event: the insert of the job, committed before anything is sent.
RecordJob(o) ==
  /\ pc[o] = "record"
  /\ job[version[o]] = "absent"
  /\ job' = [job EXCEPT ![version[o]] = "processing"]
  /\ Goto(o, "find")
  /\ UNCHANGED <<leaseVars, notionVars, deferred, version, target>>

\* The primary key refuses a second insert.
RecordCollides(o) ==
  /\ Step(o, "record", "release")
  /\ job[version[o]] # "absent"

\* _find_existing_page: any one of the lead's pages.
\* (Mutant: pages are counted from zero.)
FindPageOffByOne(o) ==
  /\ pc[o] = "find"
  /\ \E i \in DOMAIN page : target' = [target EXCEPT ![o] = i - 1]
  /\ Goto(o, "send_columns")
  /\ UNCHANGED <<leaseVars, notionVars, jobVars, version>>
FindPage(o) ==
  /\ pc[o] = "find"
  /\ \E i \in DOMAIN page : target' = [target EXCEPT ![o] = i]
  /\ Goto(o, "send_columns")
  /\ UNCHANGED <<leaseVars, notionVars, jobVars, version>>

\* (Mutant: the lead is not looked up.)
FindNoPageBlindly(o) == Step(o, "find", "send_create")
FindNoPage(o) == Step(o, "find", "send_create") /\ page = <<>>

WriteOf(o, kind) ==
  [sender |-> o, kind |-> kind, version |-> version[o], at |-> target[o]]

SendColumns(o) ==
  /\ pc[o] = "send_columns"
  /\ SendRepeatable(WriteOf(o, "columns"))
  /\ Goto(o, "await_columns")
  /\ UNCHANGED <<leaseVars, jobVars, version, target>>

\* _request tries again after a lost answer.
RepeatColumns(o) ==
  /\ pc[o] = "await_columns"
  /\ SendRepeatable(WriteOf(o, "columns"))
  /\ UNCHANGED <<leaseVars, jobVars, localVars>>

SendAppend(o) ==
  /\ pc[o] = "send_append"
  /\ SendOnce(WriteOf(o, "append"))
  /\ Goto(o, "await_append")
  /\ UNCHANGED <<leaseVars, jobVars, version, target>>

SendCreate(o) ==
  /\ pc[o] = "send_create"
  /\ SendOnce(WriteOf(o, "create"))
  /\ Goto(o, "await_create")
  /\ UNCHANGED <<leaseVars, jobVars, version, target>>

\* A successful answer: Notion has executed the request.
Answered(o, kind) == WriteOf(o, kind) \notin flight
ColumnsAnswered(o) ==
  Step(o, "await_columns", "send_append") /\ Answered(o, "columns")
AppendAnswered(o) ==
  Step(o, "await_append", "confirm") /\ Answered(o, "append")
\* (Mutant: the answer is not waited for.)
CreateUnanswered(o) == Step(o, "await_create", "confirm")
CreateAnswered(o) ==
  Step(o, "await_create", "confirm") /\ Answered(o, "create")

\* writer.write raises: a lookup failed, or the answer to a write is an error
\* or never comes, whether or not Notion executed it.
WriteRaises(o) ==
  \/ Step(o, "find", "failed")
  \/ Step(o, "await_columns", "failed")
  \/ Step(o, "await_append", "failed")
  \/ Step(o, "await_create", "failed")

\* update_event in the except clause; a rate limit defers the next attempt.
\* Like the one below it is not guarded by the lease.
MarkUnknown(o) ==
  /\ pc[o] = "failed"
  /\ job' = [job EXCEPT ![version[o]] = "unknown"]
  /\ \E later \in BOOLEAN :
       deferred' = [deferred EXCEPT ![version[o]] = later]
  /\ Goto(o, "release")
  /\ UNCHANGED <<leaseVars, notionVars, version, target>>

MarkSynced(o) ==
  /\ pc[o] = "confirm"
  /\ job' = [job EXCEPT ![version[o]] = "synced"]
  /\ Goto(o, "release")
  /\ UNCHANGED <<leaseVars, notionVars, deferred, version, target>>

Release(o) ==
  /\ pc[o] = "release"
  /\ ReleaseLease(o)
  /\ Forget(o)
  /\ UNCHANGED <<notionVars, jobVars>>

\* The process that serves o dies; what it sent is on its way.
Crash(o) ==
  /\ pc[o] # "idle"
  /\ AbandonLease(o)
  /\ Forget(o)
  /\ UNCHANGED <<notionVars, jobVars>>

-----------------------------------------------------------------------------
Awaited(q) ==
  /\ pc[q.sender] \in {"await_columns", "await_append", "await_create"}
  /\ q = WriteOf(q.sender, q.kind)

NotionStep ==
  /\ \E q \in flight : (Prompt => Awaited(q)) /\ Apply(q)
  /\ UNCHANGED <<leaseVars, jobVars, localVars>>

\* retry_not_before passes.
DelayEnds(v) ==
  /\ deferred[v]
  /\ deferred' = [deferred EXCEPT ![v] = FALSE]
  /\ UNCHANGED <<leaseVars, notionVars, job, localVars>>

LeaseEnds ==
  /\ LeaseRunsOut
  /\ UNCHANGED <<notionVars, jobVars, localVars>>

Claim(o) ==
  ClaimLapsed(o) \/ ClaimNothing(o) \/ ClaimFresh(o) \/ RefuseBusy(o)

Decide(o) ==
  \/ FindNoJob(o) \/ AnswerSynced(o) \/ RefuseEarly(o) \/ FindUncertain(o)
  \/ ReconcileFound(o) \/ ReconcileMissing(o)
  \/ RecordJob(o) \/ RecordCollides(o)

Write(o) ==
  \/ FindPage(o) \/ FindNoPage(o)
  \/ SendColumns(o) \/ RepeatColumns(o) \/ ColumnsAnswered(o)
  \/ SendAppend(o) \/ AppendAnswered(o)
  \/ SendCreate(o) \/ CreateAnswered(o)
  \/ WriteRaises(o)

Conclude(o) == MarkUnknown(o) \/ MarkSynced(o) \/ Release(o)

SyncNext ==
  \/ \E o \in Operator :
       \/ \E v \in Version : Ask(o, v)
       \/ Claim(o) \/ Decide(o) \/ Write(o) \/ Conclude(o) \/ Crash(o)
  \/ NotionStep
  \/ \E v \in Version : DelayEnds(v)
  \/ LeaseEnds

SyncSpec == SyncInit /\ [][SyncNext]_syncVars

-----------------------------------------------------------------------------
\* No version is ever sent to Notion twice, whoever asks again, crashes or
\* outlives the lease: the job row is inserted before the request is sent and
\* an uncertain job is only looked up ("never blindly replayed").
SentOnce == \A v \in Version : writes[v] <= 1

\* A version recorded as synced is in Notion, with its marker.
SyncedIsWritten == \A v \in Version : job[v] = "synced" => Written(v)

\* A version recorded as synced stays so (Timely leases only: update_event is
\* not fenced).
SyncedIsFinal ==
  [][\A v \in Version : job[v] = "synced" => job'[v] = "synced"]_job

\* The lead has one page in Notion.
OnePagePerLead == Len(page) <= 1
-----------------------------------------------------------------------------
\* Strengthenings that make these inductive.

\* Places between the insert of the job and the request that counts.
BeforeSend == {"find", "send_columns", "await_columns", "send_append",
               "send_create"}

\* Whoever is about to send is alone with its version, and the version's row
\* was there before anything was sent.
JobFirst ==
  /\ \A v \in Version : job[v] = "absent" => writes[v] = 0
  /\ \A o \in Operator : pc[o] \in BeforeSend =>
       /\ job[version[o]] # "absent"
       /\ writes[version[o]] = 0
       /\ \A p \in Operator :
            pc[p] \in BeforeSend /\ version[p] = version[o] => p = o

\* A write without an answer is on its way or done.
Underway(o, kind) == WriteOf(o, kind) \in flight \/ Written(version[o])
AnswerIsTrue ==
  \A o \in Operator :
    /\ pc[o] = "confirm" => Written(version[o])
    /\ pc[o] = "await_append" => Underway(o, "append")
    /\ pc[o] = "await_create" => Underway(o, "create")

SyncInv ==
  /\ SyncTypeOK
  /\ JobFirst
  /\ SentOnce
  /\ AnswerIsTrue
  /\ SyncedIsWritten

\* With Timely leases, whoever is inside holds the lease, and a job that is
\* being written is not synced.
AfterClaim == Place \ {"idle", "claim", "insert_lease"}
Writing == BeforeSend \cup {"await_append", "await_create", "failed"}
OneWriter ==
  /\ expired => holder = Orphan
  /\ \A o \in Operator :
       /\ pc[o] \in AfterClaim => Holds(o)
       /\ pc[o] = "record" => job[version[o]] = "absent"
       /\ pc[o] \in Writing => job[version[o]] # "synced"

\* With Prompt besides, a creation that Notion may still execute meets no page:
\* it is awaited, was sent when there was none, and is the only one.
Waiting == {"await_columns", "await_append", "await_create"}
OneCreation ==
  /\ OnePagePerLead
  /\ \A o \in Operator : pc[o] = "send_create" => page = <<>>
  /\ \A q \in flight : q.kind = "create" /\ Awaited(q) => page = <<>>
  /\ \A q \in flight : q.kind # "columns" => writes[q.version] >= 1
=============================================================================
