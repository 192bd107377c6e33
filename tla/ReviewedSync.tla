----------------------------- MODULE ReviewedSync -----------------------------
(***************************************************************************)
(* sync_conversation_crm: the hand-over of the reviewed draft of a         *)
(* conversation.  It composes the message handler and the reviewers        *)
(* (DraftReview) with sync_reviewed (CrmSync) under two leases: the        *)
(* conversation's around everything, the lead's around the hand-over.      *)
(*                                                                         *)
(* What is handed over is named by its draft and the draft's version.  The *)
(* lead of a conversation has the conversation's id, so that nobody else   *)
(* hands over anything of it.                                              *)
(***************************************************************************)
EXTENDS DraftReview

CONSTANTS
  Operator,  \* concurrently served requests for a hand-over
  Prompt     \* TRUE: Notion applies no request its sender gave up on

ASSUME OperatorAssumption ==
  /\ Operator \subseteq Client
  /\ Operator \cap (Worker \cup Reviewer) = {}
  /\ Prompt \in BOOLEAN

VARIABLES
  page, flight, writes,                   \* Notion
  job, deferred,                          \* the jobs of kind crm_sync
  crmHolder, crmExpired,                  \* the lead's lease
  syncPc, syncVersion, syncTarget,        \* sync_reviewed
  place,   \* where each request is in sync_conversation_crm
  asked,   \* its draft_id and expected_version
  found    \* the message whose result is the latest

crmVars == <<page, flight, writes, job, deferred, crmHolder, crmExpired,
             syncPc, syncVersion, syncTarget>>
handoverVars == <<place, asked, found>>
allVars == <<deskVars, crmVars, handoverVars>>

DraftVersion == MessageId \X (1..MaxVersion)
ASSUME NoVersionAssumption == None \notin DraftVersion
Crm == INSTANCE CrmSync WITH
         Version <- DraftVersion, Sender <- Operator,
         holder <- crmHolder, expired <- crmExpired,
         pc <- syncPc, version <- syncVersion, target <- syncTarget

AllInit ==
  /\ DeskInit
  /\ Crm!SyncInit
  /\ place = [o \in Operator |-> "idle"]
  /\ asked = [o \in Operator |-> None]
  /\ found = [o \in Operator |-> None]

-----------------------------------------------------------------------------
At(o, from, to) == place[o] = from /\ place' = [place EXCEPT ![o] = to]

\* An operator's page posts the version it shows, which may be an old one.
AskHandover(o, v) ==
  /\ draft[v[1]] # None /\ v[2] <= draft[v[1]].version
  /\ At(o, "idle", "claim")
  /\ asked' = [asked EXCEPT ![o] = v]
  /\ UNCHANGED <<deskVars, crmVars, found>>

Answer(o) ==
  /\ asked' = [asked EXCEPT ![o] = None]
  /\ found' = [found EXCEPT ![o] = None]

\* processing_lease(conversation_id).
ClaimLapsedConversation(o) ==
  /\ At(o, "claim", "result")
  /\ ~LeaseRowLocked
  /\ StealLease(o)
  /\ UNCHANGED <<rowVars, resultVars, localVars, draftVars, reviewerVars,
                 crmVars, asked, found>>
ClaimNoConversation(o) ==
  /\ At(o, "claim", "insert_lease")
  /\ ~LeaseLapsed
  /\ UNCHANGED <<deskVars, crmVars, asked, found>>
ClaimFreshConversation(o) ==
  /\ At(o, "insert_lease", "result")
  /\ InsertLease(o)
  /\ UNCHANGED <<rowVars, resultVars, localVars, draftVars, reviewerVars,
                 crmVars, asked, found>>
RefuseBusyConversation(o) ==
  /\ At(o, "insert_lease", "idle")
  /\ holder # Nobody
  /\ Answer(o)
  /\ UNCHANGED <<deskVars, crmVars>>

\* latest_result: the newest result, then in a second query its draft.
ReadResult(o) ==
  /\ At(o, "result", IF latest = None THEN "release" ELSE "draft")
  /\ found' = [found EXCEPT ![o] = latest]
  /\ UNCHANGED <<deskVars, crmVars, asked>>

\* The draft and the version asked for, approved, of a turn that answers.
Presentable(m, v) ==
  /\ v = <<m, draft[m].version>>
  /\ draft[m].status \in {"approved", "sent"}
  /\ result[m].state # Suppressed
ReadDraft(o) ==
  /\ At(o, "draft", IF Presentable(found[o], asked[o]) THEN "summary" ELSE "release")
  /\ UNCHANGED <<deskVars, crmVars, asked, found>>

\* get_summary: no newer message; then sync_reviewed is called.
\* (Mutant: the turns are not compared.)
AnsweredNewestNotCompared(m) == TRUE
AnsweredNewest(m) == turnNumber = result[m].turn
ReadSummary(o) ==
  /\ At(o, "summary", IF AnsweredNewest(found[o]) THEN "sync" ELSE "release")
  /\ IF AnsweredNewest(found[o]) THEN Crm!Ask(o, asked[o]) ELSE UNCHANGED crmVars
  /\ UNCHANGED <<deskVars, asked, found>>

\* A step of sync_reviewed; its response or exception ends the call.
SyncStep(o) ==
  /\ place[o] = "sync"
  /\ Crm!Claim(o) \/ Crm!Decide(o) \/ Crm!Write(o) \/ Crm!Conclude(o)
  /\ place' = [place EXCEPT ![o] = IF syncPc'[o] = "idle" THEN "release" ELSE @]
  /\ UNCHANGED <<deskVars, asked, found>>

ReleaseConversation(o) ==
  /\ At(o, "release", "idle")
  /\ ReleaseLease(o)
  /\ Answer(o)
  /\ UNCHANGED <<rowVars, resultVars, localVars, draftVars, reviewerVars, crmVars>>

\* The process that serves o dies, with both leases.
HandoverCrash(o) ==
  /\ place[o] # "idle"
  /\ place' = [place EXCEPT ![o] = "idle"]
  /\ AbandonLease(o)
  /\ IF place[o] = "sync" THEN Crm!Crash(o) ELSE UNCHANGED crmVars
  /\ Answer(o)
  /\ UNCHANGED <<rowVars, resultVars, localVars, draftVars, reviewerVars>>

HandoverStep(o) ==
  \/ \E v \in DraftVersion : AskHandover(o, v)
  \/ ClaimLapsedConversation(o) \/ ClaimNoConversation(o)
  \/ ClaimFreshConversation(o) \/ RefuseBusyConversation(o)
  \/ ReadResult(o) \/ ReadDraft(o) \/ ReadSummary(o)
  \/ SyncStep(o) \/ ReleaseConversation(o) \/ HandoverCrash(o)

\* Notion and the clock, at work on what was sent and on the lead's lease.
CrmEnvironment ==
  /\ Crm!NotionStep \/ Crm!LeaseEnds \/ \E v \in DraftVersion : Crm!DelayEnds(v)
  /\ UNCHANGED <<deskVars, handoverVars>>

AllNext ==
  \/ DeskNext /\ UNCHANGED <<crmVars, handoverVars>>
  \/ \E o \in Operator : HandoverStep(o)
  \/ CrmEnvironment

AllSpec == AllInit /\ [][AllNext]_allVars

-----------------------------------------------------------------------------
\* The endpoint's own state; whoever is served asked for a version.
HandoverTypeOK ==
  /\ place \in [Operator -> {"idle", "claim", "insert_lease", "result", "draft",
                             "summary", "sync", "release"}]
  /\ asked \in [Operator -> DraftVersion \cup {None}]
  /\ found \in [Operator -> MessageId \cup {None}]
  /\ \A o \in Operator : place[o] # "idle" => asked[o] \in DraftVersion

\* Whatever is sent to Notion is, when it is sent, the current version of the
\* draft, approved, and answers the newest message stored: neither a review nor
\* a message slips in between the checks and the requests, which may be many
\* (Timely leases only: sync_reviewed does not assert the conversation's lease).
SentIsCurrent ==
  [][\A q \in flight' \ flight :
       LET m == q.version[1] IN
       /\ draft[m].version = q.version[2]
       /\ draft[m].status \in {"approved", "sent"}
       /\ \A k \in MessageId : Stored(k) => turn[k] <= turn[m]]_flight

\* A version recorded as synced stays so, as in CrmSync: it is neither sent nor
\* marked again, however often it is asked for (Timely leases only).
SyncedIsFinal == Crm!SyncedIsFinal

\* The lead of the conversation has one page, as in CrmSync: nothing is looked up
\* for a version before what an earlier one created can be found.
OnePagePerLead == Crm!OnePagePerLead
=============================================================================
