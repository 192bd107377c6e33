-------------------------- MODULE ReviewedSyncProofs --------------------------
(***************************************************************************)
(* The hand-over of a conversation's draft is a hand-over: everything      *)
(* proved of CrmSync holds of it.  While leases outlast the work, what is  *)
(* handed over is the newest turn's approved draft.                        *)
(***************************************************************************)
EXTENDS ReviewedSync, DraftReviewProofs

\* The variables sync_conversation_crm shares with sync_reviewed.
LEMMA SharedVariables == UNCHANGED crmVars => UNCHANGED Crm!syncVars
  BY DEF crmVars, Crm!syncVars, Crm!leaseVars, Crm!notionVars, Crm!jobVars, Crm!localVars

\* Nobody asked for anything yet.
LEMMA HandoverTypeInit == AllInit => HandoverTypeOK
  BY DEF AllInit, HandoverTypeOK

\* A request keeps what it asked for until it is answered; latest_result names a
\* message of the conversation.
LEMMA HandoverTypeNext ==
  latest \in MessageId \cup {None} /\ HandoverTypeOK /\ [AllNext]_allVars
    => HandoverTypeOK'
<1> SUFFICES ASSUME latest \in MessageId \cup {None}, HandoverTypeOK, [AllNext]_allVars
             PROVE  HandoverTypeOK'
  OBVIOUS
<1>1. ASSUME NEW o \in Operator, HandoverStep(o) PROVE HandoverTypeOK'
  <2>1. CASE \E v \in DraftVersion : AskHandover(o, v)
    BY <2>1 DEF AskHandover, At, HandoverTypeOK
  <2>2. CASE ClaimLapsedConversation(o) \/ ClaimNoConversation(o)
             \/ ClaimFreshConversation(o)
    BY <2>2 DEF ClaimLapsedConversation, ClaimNoConversation, ClaimFreshConversation,
       At, HandoverTypeOK
  <2>3. CASE RefuseBusyConversation(o) \/ ReleaseConversation(o) \/ HandoverCrash(o)
    BY <2>3 DEF RefuseBusyConversation, ReleaseConversation, HandoverCrash, Answer, At,
       HandoverTypeOK
  <2>4. CASE ReadResult(o)
    BY <2>4 DEF ReadResult, At, HandoverTypeOK
  <2>5. CASE ReadDraft(o)
    BY <2>5 DEF ReadDraft, At, HandoverTypeOK
  <2>6. CASE ReadSummary(o)
    BY <2>6 DEF ReadSummary, At, HandoverTypeOK
  <2>7. CASE SyncStep(o)
    BY <2>7 DEF SyncStep, HandoverTypeOK
  <2> QED BY <1>1, <2>1, <2>2, <2>3, <2>4, <2>5, <2>6, <2>7 DEF HandoverStep
<1>2. CASE UNCHANGED handoverVars
  BY <1>2 DEF handoverVars, HandoverTypeOK
<1> QED BY <1>1, <1>2 DEF AllNext, CrmEnvironment, allVars

\* Every step of the endpoint, of its surroundings and of Notion is a step of
\* sync_reviewed or changes nothing of it.
LEMMA StepIsSyncStep ==
  HandoverTypeOK /\ [AllNext]_allVars => [Crm!SyncNext]_(Crm!syncVars)
<1> SUFFICES ASSUME HandoverTypeOK, [AllNext]_allVars
             PROVE  Crm!SyncNext \/ UNCHANGED Crm!syncVars
  OBVIOUS
<1>1. CASE UNCHANGED crmVars
  BY <1>1, SharedVariables
<1>2. ASSUME NEW o \in Operator, HandoverStep(o), ~UNCHANGED crmVars
      PROVE  Crm!SyncNext
  <2>1. CASE ReadSummary(o)
    <3>1. Crm!Ask(o, asked[o]) \/ UNCHANGED crmVars
      BY <2>1 DEF ReadSummary
    <3>2. asked[o] \in DraftVersion
      BY <2>1 DEF ReadSummary, At, HandoverTypeOK
    <3> QED BY <1>2, <3>1, <3>2 DEF Crm!SyncNext
  <2>2. CASE SyncStep(o)
    <3>1. Crm!Claim(o) \/ Crm!Decide(o) \/ Crm!Write(o) \/ Crm!Conclude(o)
      BY <2>2 DEF SyncStep
    <3> QED BY <3>1 DEF Crm!SyncNext
  <2>3. CASE HandoverCrash(o)
    <3>1. Crm!Crash(o)
      BY <1>2, <2>3 DEF HandoverCrash
    <3> QED BY <3>1 DEF Crm!SyncNext
  <2> QED BY <1>2, <2>1, <2>2, <2>3
       DEF HandoverStep, AskHandover, ClaimLapsedConversation, ClaimNoConversation,
           ClaimFreshConversation, RefuseBusyConversation, ReadResult, ReadDraft,
           ReleaseConversation
<1>3. CASE CrmEnvironment
  BY <1>3 DEF CrmEnvironment, Crm!SyncNext
<1>4. CASE UNCHANGED allVars
  BY <1>1, <1>4 DEF allVars
<1> QED BY <1>1, <1>2, <1>3, <1>4 DEF AllNext

\* The handlers' variables keep their types next to reviewers and operators, who
\* only take, keep and release the lease.
LEMMA HandlersTypeNext == TypeOK /\ [AllNext]_allVars => TypeOK'
<1> SUFFICES ASSUME TypeOK, [AllNext]_allVars PROVE TypeOK'
  OBVIOUS
<1> USE LeaseAssumption, ReviewAssumption, OperatorAssumption
    DEF LeaseAssumption, ReviewAssumption, OperatorAssumption
<1>0. LeaseTypeOK
  BY DEF TypeOK
<1>1. ASSUME UNCHANGED <<rowVars, resultVars, localVars>>, LeaseTypeOK'
      PROVE  TypeOK'
  BY <1>1 DEF TypeOK, rowVars, resultVars, localVars
<1>2. ASSUME UNCHANGED vars PROVE TypeOK'
  <2>1. LeaseTypeOK' /\ UNCHANGED <<rowVars, resultVars, localVars>>
    BY <1>0, <1>2 DEF vars, leaseVars, LeaseTypeOK
  <2> QED BY <1>1, <2>1
<1>3. ASSUME NEW c \in Client,
             StealLease(c) \/ InsertLease(c) \/ ReleaseLease(c) \/ AbandonLease(c)
      PROVE  LeaseTypeOK'
  <2>1. CASE StealLease(c)
    BY <1>0, <2>1 DEF StealLease, LeaseTypeOK
  <2>2. CASE InsertLease(c)
    BY <1>0, <2>2 DEF InsertLease, LeaseTypeOK
  <2>3. CASE ReleaseLease(c)
    BY <1>0, <2>3 DEF ReleaseLease, Holds, LeaseTypeOK, leaseVars
  <2>4. CASE AbandonLease(c)
    BY <1>0, <2>4 DEF AbandonLease, Holds, LeaseTypeOK
  <2> QED BY <1>3, <2>1, <2>2, <2>3, <2>4
<1>4. CASE MessageStep
  BY <1>4, TypeNext DEF MessageStep
<1>5. ASSUME NEW r \in Reviewer, ReviewStep(r) PROVE TypeOK'
  <2>1. CASE UNCHANGED vars
    BY <1>2, <2>1
  <2>2. CASE ReviewClaimLapsed(r) \/ ReviewClaimFresh(r) \/ ReviewRelease(r)
             \/ ReviewCrash(r)
    BY <1>1, <1>3, <2>2 DEF ReviewClaimLapsed, ReviewClaimFresh, ReviewRelease,
       ReviewCrash
  <2> QED BY <1>5, <2>1, <2>2 DEF ReviewStep, LoadDraft, PostReview,
      ReviewClaimNothing, ReviewRefuseBusy, CheckReview, RefuseReview, CommitReview
<1>6. ASSUME NEW o \in Operator, HandoverStep(o) PROVE TypeOK'
  <2>1. CASE UNCHANGED deskVars
    BY <1>2, <2>1 DEF deskVars
  <2>2. CASE ClaimLapsedConversation(o) \/ ClaimFreshConversation(o)
             \/ ReleaseConversation(o) \/ HandoverCrash(o)
    BY <1>1, <1>3, <2>2 DEF ClaimLapsedConversation, ClaimFreshConversation,
       ReleaseConversation, HandoverCrash
  <2> QED BY <1>6, <2>1, <2>2 DEF HandoverStep, AskHandover, ClaimNoConversation,
      RefuseBusyConversation, ReadResult, ReadDraft, ReadSummary, SyncStep
<1>7. CASE UNCHANGED deskVars
  BY <1>2, <1>7 DEF deskVars
<1> QED BY <1>4, <1>5, <1>6, <1>7 DEF AllNext, DeskNext, CrmEnvironment, allVars

\* The endpoint's state keeps its type along every behaviour.
THEOREM HandoverTypeCorrect == AllSpec => [](TypeOK /\ HandoverTypeOK)
<1>1. AllInit => TypeOK /\ HandoverTypeOK
  BY TypeInit, HandoverTypeInit DEF AllInit, DeskInit
<1>2. TypeOK /\ HandoverTypeOK /\ [AllNext]_allVars => (TypeOK /\ HandoverTypeOK)'
  <2>1. TypeOK => latest \in MessageId \cup {None}
    BY DEF TypeOK
  <2> QED BY <2>1, HandlersTypeNext, HandoverTypeNext
<1> QED BY <1>1, <1>2, PTL DEF AllSpec

\* sync_conversation_crm is a caller of sync_reviewed like any other: whatever
\* messages and reviewers do, its hand-overs are behaviours of CrmSync, where no
\* version is sent twice and what is recorded as synced is in Notion.
THEOREM HandoverImplementsSync == AllSpec => Crm!SyncSpec
<1>1. AllInit => Crm!SyncInit
  BY DEF AllInit
<1> QED BY <1>1, HandoverTypeCorrect, StepIsSyncStep, PTL DEF AllSpec, Crm!SyncSpec

-----------------------------------------------------------------------------
\* The theorems about sync_reviewed, for the versions of a conversation's draft.
Sync == INSTANCE CrmSyncProofs WITH
          Version <- DraftVersion, Sender <- Operator,
          holder <- crmHolder, expired <- crmExpired,
          pc <- syncPc, version <- syncVersion, target <- syncTarget

\* The endpoint's constants are such as sync_reviewed assumes.
LEMMA SyncAssumptions == Sync!LeaseAssumption /\ Sync!SyncAssumption
BY LeaseAssumption, OperatorAssumption, NoVersionAssumption
   DEF LeaseAssumption, OperatorAssumption, NoVersionAssumption,
       Sync!LeaseAssumption, Sync!SyncAssumption

\* Crm and Sync instantiate the same module with the same state: what the
\* endpoint does and what the theorems speak of are the same steps.
LEMMA SameInit == Crm!SyncInit <=> Sync!SyncInit
BY DEF Crm!SyncInit, Crm!LeaseInit, Crm!NotionInit,
       Sync!SyncInit, Sync!LeaseInit, Sync!NotionInit

LEMMA SameStep == [Crm!SyncNext]_(Crm!syncVars) <=> [Sync!SyncNext]_(Sync!syncVars)
BY DEF Crm!Goto, Crm!Forget, Crm!Ask, Crm!ClaimLapsed, Crm!ClaimNothing,
       Crm!ClaimFresh, Crm!RefuseBusy, Crm!Step, Crm!FindNoJob,
       Crm!AnswerSynced, Crm!RefuseEarly, Crm!FindUncertain, Crm!ReconcileFound,
       Crm!ReconcileMissing, Crm!RecordJob, Crm!RecordCollides, Crm!FindPage,
       Crm!FindNoPage, Crm!WriteOf, Crm!SendColumns, Crm!RepeatColumns,
       Crm!SendAppend, Crm!SendCreate, Crm!Answered, Crm!ColumnsAnswered,
       Crm!AppendAnswered, Crm!CreateAnswered, Crm!WriteRaises, Crm!MarkUnknown,
       Crm!MarkSynced, Crm!Release, Crm!Crash, Crm!Awaited, Crm!NotionStep,
       Crm!DelayEnds, Crm!LeaseEnds, Crm!Claim, Crm!Decide, Crm!Write,
       Crm!Conclude, Crm!SyncNext, Crm!Marked, Crm!Written, Crm!SendRepeatable,
       Crm!SendOnce, Crm!Apply, Crm!Holds, Crm!LeaseLapsed, Crm!StealLease,
       Crm!InsertLease, Crm!ReleaseLease, Crm!AbandonLease, Crm!LeaseRunsOut,
       Crm!syncVars, Crm!leaseVars, Crm!notionVars, Crm!jobVars, Crm!localVars,
       Sync!Goto, Sync!Forget, Sync!Ask, Sync!ClaimLapsed, Sync!ClaimNothing,
       Sync!ClaimFresh, Sync!RefuseBusy, Sync!Step, Sync!FindNoJob,
       Sync!AnswerSynced, Sync!RefuseEarly, Sync!FindUncertain,
       Sync!ReconcileFound, Sync!ReconcileMissing, Sync!RecordJob,
       Sync!RecordCollides, Sync!FindPage, Sync!FindNoPage, Sync!WriteOf,
       Sync!SendColumns, Sync!RepeatColumns, Sync!SendAppend, Sync!SendCreate,
       Sync!Answered, Sync!ColumnsAnswered, Sync!AppendAnswered,
       Sync!CreateAnswered, Sync!WriteRaises, Sync!MarkUnknown, Sync!MarkSynced,
       Sync!Release, Sync!Crash, Sync!Awaited, Sync!NotionStep, Sync!DelayEnds,
       Sync!LeaseEnds, Sync!Claim, Sync!Decide, Sync!Write, Sync!Conclude,
       Sync!SyncNext, Sync!Marked, Sync!Written, Sync!SendRepeatable,
       Sync!SendOnce, Sync!Apply, Sync!Holds, Sync!LeaseLapsed, Sync!StealLease,
       Sync!InsertLease, Sync!ReleaseLease, Sync!AbandonLease,
       Sync!LeaseRunsOut, Sync!syncVars, Sync!leaseVars, Sync!notionVars,
       Sync!jobVars, Sync!localVars

\* However often operators ask for versions of the draft, and whatever becomes of
\* their requests, each version is sent once, and one recorded as synced is there.
THEOREM VersionsOfDraftSentOnce == AllSpec => [](Crm!SentOnce /\ Crm!SyncedIsWritten)
<1>1. Sync!SentOnce /\ Sync!SyncedIsWritten => Crm!SentOnce /\ Crm!SyncedIsWritten
  BY DEF Sync!SentOnce, Sync!SyncedIsWritten, Sync!Written, Sync!Marked,
         Crm!SentOnce, Crm!SyncedIsWritten, Crm!Written, Crm!Marked
<1> QED BY <1>1, HandoverImplementsSync, SameInit, SameStep, SyncAssumptions,
       Sync!VersionsAreSentOnce, Sync!SyncedVersionsAreWritten, PTL
       DEF Crm!SyncSpec, Sync!SyncSpec

\* While leases outlast the hand-over, a version recorded as synced stays so.
THEOREM SyncedDraftStaysSynced == Timely /\ AllSpec => SyncedIsFinal
BY HandoverImplementsSync, SameInit, SameStep, SyncAssumptions,
   Sync!SyncedStaysSynced, PTL
   DEF Crm!SyncSpec, Sync!SyncSpec, SyncedIsFinal, Crm!SyncedIsFinal, Sync!SyncedIsFinal

\* While leases outlast the hand-over and Notion drops what its sender gave up on,
\* the lead of a conversation never gets a second page.
THEOREM ConversationHasOnePage == Timely /\ Prompt /\ AllSpec => []OnePagePerLead
<1>1. Sync!OnePagePerLead => OnePagePerLead
  BY DEF Sync!OnePagePerLead, OnePagePerLead, Crm!OnePagePerLead
<1> QED BY <1>1, HandoverImplementsSync, SameInit, SameStep, SyncAssumptions,
       Sync!LeadHasOnePage, PTL DEF Crm!SyncSpec, Sync!SyncSpec

-----------------------------------------------------------------------------
\* Neither a message nor a review slips in between the checks of a hand-over
\* and its requests: the argument for SentIsCurrent.

\* A result carries the turn of its message.
ResultsCarryTurns == \A m \in Saved : result[m].turn = turn[m]

\* Whoever is past the claim holds the conversation's lease; what it looked up
\* and checked is so still, and is what sync_reviewed was called with.
ServedPlace == {"result", "draft", "summary", "sync", "release"}
Checked(o) ==
  /\ place[o] \in ServedPlace => Holds(o)
  /\ place[o] \in {"draft", "summary", "sync"} => found[o] \in Saved
  /\ place[o] \in {"summary", "sync"} =>
       /\ asked[o] = <<found[o], draft[found[o]].version>>
       /\ draft[found[o]].status \in {"approved", "sent"}
  /\ place[o] = "sync" => turnNumber = result[found[o]].turn
  /\ syncPc[o] # "idle" => place[o] = "sync" /\ syncVersion[o] = asked[o]

CurrentInv ==
  /\ DeskInv
  /\ TInv
  /\ HandoverTypeOK
  /\ ResultsCarryTurns
  /\ \A o \in Operator : Checked(o)

LEMMA CurrentInit == AllInit => CurrentInv
<1> SUFFICES ASSUME AllInit PROVE CurrentInv
  OBVIOUS
<1>1. DeskInv /\ TInv /\ HandoverTypeOK
  BY DeskInitInv, InitTInv, HandoverTypeInit DEF AllInit, DeskInit
<1>2. ResultsCarryTurns
  BY DEF AllInit, DeskInit, Init, ResultsCarryTurns, Saved
<1>3. \A o \in Operator : Checked(o)
  BY DEF AllInit, Crm!SyncInit, Checked, ServedPlace
<1> QED BY <1>1, <1>2, <1>3 DEF CurrentInv

\* While somebody holds a lease that outlasts its work, what others do to the
\* lease leaves it where it is.
LEMMA LeaseIsLeft ==
  ASSUME TInv, NEW o \in Client, Holds(o), NEW c \in Client, c # o,
         \/ StealLease(c) \/ InsertLease(c) \/ ReleaseLease(c) \/ AbandonLease(c)
         \/ UNCHANGED leaseVars
  PROVE  holder' = o
BY LeaseAssumption
   DEF LeaseAssumption, TInv, LeaseCoversWork, Holds, StealLease, LeaseLapsed, InsertLease,
       ReleaseLease, AbandonLease, leaseVars

\* While an operator's request is served no message is: the handlers neither
\* write the tables nor take the lease.
LEMMA HandlersWait ==
  ASSUME TInv, NEW o \in Operator, Holds(o), [Next]_vars
  PROVE  /\ UNCHANGED <<turnNumber, status, text, turn, result, latest, facts>>
         /\ holder' = o
<1> USE OperatorAssumption, TurnsAssumption DEF OperatorAssumption, TurnsAssumption
<1>1. o \in Client /\ \A w \in Worker : w \in Client /\ w # o
  OBVIOUS
<1>2. \A w \in Worker : pc[w] \notin Inside
  BY <1>1 DEF TInv, LeaseCoversWork, Holds
<1>3. UNCHANGED <<turnNumber, status, text, turn, result, latest, facts>>
  BY <1>2, TablesRest
<1>4. \/ \E w \in Worker : \/ StealLease(w) \/ InsertLease(w) \/ ReleaseLease(w)
                           \/ AbandonLease(w) \/ UNCHANGED leaseVars
      \/ UNCHANGED leaseVars
      \/ LeaseRunsOut
  BY DEF Next, vars, Serve, Claim, Prepare, Append, Finish, Submit, ClaimLapsed,
     ClaimNothing, ClaimFresh, RefuseBusy, AnswerFromStore, FindNoResult, ReadContext,
     RefuseOutOfTurn, SelectRecoverable, SelectNothing, MarkProcessing, InsertMessage,
     InsertCollides, SaveTurn, SaveRefused, TurnRaises, MarkFailed, StoreRaises, Release,
     Crash, Expire
<1>5. CASE UNCHANGED leaseVars \/ LeaseRunsOut
  BY <1>3, <1>5 DEF leaseVars, LeaseRunsOut, Holds
<1>6. ASSUME NEW w \in Worker,
             \/ StealLease(w) \/ InsertLease(w) \/ ReleaseLease(w) \/ AbandonLease(w)
             \/ UNCHANGED leaseVars
      PROVE  holder' = o
  BY <1>1, <1>6, LeaseIsLeft
<1> QED BY <1>3, <1>4, <1>5, <1>6

\* While an operator's request is served the drafts rest and the lease stays.
LEMMA DeskWaits ==
  ASSUME DeskInv, TInv, NEW o \in Operator, Holds(o), [DeskNext]_deskVars
  PROVE  UNCHANGED <<turnNumber, result, draft>> /\ holder' = o
<1> USE OperatorAssumption, ReviewAssumption DEF OperatorAssumption, ReviewAssumption
<1>1. draft = [m \in MessageId |-> draft[m]]
  BY DEF DeskInv, DeskTypeOK
<1>2. CASE MessageStep
  <2>1. result' = result /\ turnNumber' = turnNumber /\ holder' = o
    BY <1>2, HandlersWait DEF MessageStep
  <2>2. Saved' = Saved
    BY <2>1 DEF Saved
  <2>3. draft' = [m \in MessageId |-> draft[m]]
    BY <1>2, <2>2 DEF MessageStep
  <2> QED BY <1>1, <2>1, <2>3
<1>3. ASSUME NEW r \in Reviewer, ReviewStep(r)
      PROVE  UNCHANGED <<turnNumber, result, draft>> /\ holder' = o
  <2>1. r \in Client /\ o \in Client /\ r # o
    OBVIOUS
  <2>2. holder' = o /\ UNCHANGED <<turnNumber, result>>
    BY <1>3, <2>1, ReviewIsOutside, LeaseIsLeft DEF rowVars, resultVars
  <2>3. reviewPc[r] # "commit"
    BY <2>1 DEF DeskInv, CommitIsChecked, Holds
  <2>4. draft' = draft
    BY <1>3, <2>3 DEF ReviewStep, LoadDraft, PostReview, ReviewClaimLapsed,
       ReviewClaimNothing, ReviewClaimFresh, ReviewRefuseBusy, CheckReview, RefuseReview,
       CommitReview, ReviewRelease, ReviewCrash, draftVars
  <2> QED BY <2>2, <2>4
<1>4. CASE UNCHANGED deskVars
  BY <1>4 DEF deskVars, vars, leaseVars, rowVars, resultVars, draftVars, Holds
<1> QED BY <1>2, <1>3, <1>4 DEF DeskNext

\* An operator writes no table of the desk; to the lease it does what anybody may
\* do, and it takes none over while a reviewer's transaction is open.
LEMMA OperatorIsOutside ==
  ASSUME NEW o \in Operator, HandoverStep(o)
  PROVE  /\ UNCHANGED <<rowVars, resultVars, localVars, draftVars, reviewerVars>>
         /\ \/ StealLease(o) /\ ~LeaseRowLocked
            \/ InsertLease(o) \/ ReleaseLease(o) \/ AbandonLease(o)
            \/ UNCHANGED leaseVars
BY DEF HandoverStep, AskHandover, ClaimLapsedConversation, ClaimNoConversation,
   ClaimFreshConversation, RefuseBusyConversation, ReadResult, ReadDraft, ReadSummary,
   SyncStep, ReleaseConversation, HandoverCrash, deskVars, vars

\* What the desk relies on does not depend on who else asks for the lease.
LEMMA LeaseKeepsDesk ==
  ASSUME DeskInv, LeaseTypeOK',
         UNCHANGED <<rowVars, resultVars, localVars, draftVars, reviewerVars>>,
         \A r \in Reviewer : reviewPc[r] = "commit" => holder' = holder
  PROVE  DeskInv'
<1>1. TypeOK'
  BY DEF DeskInv, DeskTypeOK, TypeOK, rowVars, resultVars, localVars
<1>2. DeskTypeOK'
  BY <1>1 DEF DeskInv, DeskTypeOK, draftVars, reviewerVars
<1> QED BY <1>2 DEF DeskInv, DraftsBelong, Trail, PagesArePast, CommitIsChecked,
       SentAsApproved, ApprovedAsShown, Saved, Holds, Unchanged, ReceiptOK, draftVars,
       reviewerVars, resultVars

\* The invariants of the desk and of the turns hold next to operators too.
LEMMA DeskKept ==
  ASSUME Timely, DeskInv, TInv, [AllNext]_allVars
  PROVE  DeskInv' /\ TInv'
<1> USE OperatorAssumption DEF OperatorAssumption
<1>1. ASSUME [DeskNext]_deskVars PROVE DeskInv' /\ TInv'
  <2>1. CASE MessageStep
    BY <1>1, <2>1, DeskNextInv, NextTInv DEF MessageStep
  <2>2. ASSUME NEW r \in Reviewer, ReviewStep(r) PROVE TInv'
    <3>1. r \in Client \ Worker
      BY ReviewAssumption DEF ReviewAssumption
    <3> QED BY <2>2, <3>1, ReviewIsOutside, OthersKeepTurns
  <2>3. CASE UNCHANGED deskVars
    <3>1. [Next]_vars
      BY <2>3 DEF deskVars
    <3> QED BY <1>1, <3>1, DeskNextInv, NextTInv
  <2> QED BY <1>1, <2>1, <2>2, <2>3, DeskNextInv DEF DeskNext
<1>2. ASSUME NEW o \in Operator, HandoverStep(o) PROVE DeskInv' /\ TInv'
  <2>1. /\ UNCHANGED <<rowVars, resultVars, localVars, draftVars, reviewerVars>>
        /\ \/ StealLease(o) /\ ~LeaseRowLocked
           \/ InsertLease(o) \/ ReleaseLease(o) \/ AbandonLease(o)
           \/ UNCHANGED leaseVars
    BY <1>2, OperatorIsOutside
  <2>2. o \in Client \ Worker
    OBVIOUS
  <2>3. TInv'
    BY <2>1, <2>2, OthersKeepTurns
  <2>4. LeaseTypeOK'
    BY <2>3 DEF TInv, IInv, TypeOK
  <2>5. ASSUME NEW r \in Reviewer, reviewPc[r] = "commit" PROVE holder' = holder
    <3>1. holder = r /\ r # o /\ r # Nobody
      BY <2>5, ReviewAssumption, LeaseAssumption
         DEF ReviewAssumption, LeaseAssumption, DeskInv, CommitIsChecked, Holds
    <3> QED BY <2>1, <2>5, <3>1
        DEF StealLease, LeaseRowLocked, InsertLease, ReleaseLease, AbandonLease, Holds,
            leaseVars
  <2> QED BY <2>1, <2>3, <2>4, <2>5, LeaseKeepsDesk
<1>3. CASE UNCHANGED deskVars
  BY <1>1, <1>3
<1> QED BY <1>1, <1>2, <1>3 DEF AllNext, CrmEnvironment, allVars

\* The turn of a stored message is final, and its result names it.
LEMMA ResultsKeepTurns ==
  ASSUME IInv, ResultsCarryTurns, [AllNext]_allVars
  PROVE  ResultsCarryTurns'
<1>1. TypeOK /\ \A m \in Saved : Stored(m)
  BY DEF IInv, RowsConsistent, Saved
<1>2. ASSUME UNCHANGED <<turn, result>> PROVE ResultsCarryTurns'
  BY <1>2 DEF ResultsCarryTurns, Saved
<1>3. CASE MessageStep
  <2>1. ASSUME NEW w \in Worker, InsertMessage(w) PROVE ResultsCarryTurns'
    <3>1. result' = result /\ \A m \in MessageId : Stored(m) => turn'[m] = turn[m]
      BY <1>1, <2>1 DEF InsertMessage, resultVars, TypeOK
    <3> QED BY <1>1, <3>1 DEF ResultsCarryTurns, Saved
  <2>2. ASSUME NEW w \in Worker, SaveTurn(w) PROVE ResultsCarryTurns'
    <3>1. PICK s \in DecidedStates(w) :
            result' = [result EXCEPT ![request[w].id] =
                         [turn |-> turn[request[w].id], state |-> s,
                          previous |-> context[w].previous]]
      BY <2>2 DEF SaveTurn
    <3>2. turn' = turn /\ result \in [MessageId -> Result \cup {None}]
      BY <1>1, <2>2 DEF SaveTurn, TypeOK
    <3>3. \A m \in MessageId : m = request[w].id => result'[m].turn = turn[m]
      BY <3>1, <3>2
    <3>4. \A m \in MessageId : m # request[w].id => result'[m] = result[m]
      BY <3>1, <3>2
    <3> QED BY <3>2, <3>3, <3>4 DEF ResultsCarryTurns, Saved
  <2>3. ASSUME ~\E w \in Worker : InsertMessage(w) \/ SaveTurn(w)
        PROVE  UNCHANGED <<turn, result>>
    BY <1>3, <2>3 DEF MessageStep, Next, rowVars, resultVars, Serve, Claim, Prepare,
       Append, Finish, Submit, ClaimLapsed, ClaimNothing, ClaimFresh, RefuseBusy,
       AnswerFromStore, FindNoResult, ReadContext, RefuseOutOfTurn, SelectRecoverable,
       SelectNothing, MarkProcessing, InsertCollides, SaveRefused, TurnRaises,
       MarkFailed, StoreRaises, Release, Crash, Expire
  <2> QED BY <1>2, <2>1, <2>2, <2>3
<1>4. ASSUME NEW r \in Reviewer, ReviewStep(r) PROVE ResultsCarryTurns'
  BY <1>2, <1>4, ReviewIsOutside DEF rowVars, resultVars
<1>5. ASSUME NEW o \in Operator, HandoverStep(o) PROVE ResultsCarryTurns'
  BY <1>2, <1>5, OperatorIsOutside DEF rowVars, resultVars
<1>6. CASE UNCHANGED deskVars
  BY <1>2, <1>6 DEF deskVars, vars, rowVars, resultVars
<1> QED BY <1>3, <1>4, <1>5, <1>6 DEF AllNext, DeskNext, CrmEnvironment, allVars

\* What was checked for o rests while o's request and what it rests on do.
LEMMA CheckedRests ==
  ASSUME NEW o \in Operator, Checked(o),
         place'[o] = place[o], asked'[o] = asked[o], found'[o] = found[o],
         syncPc'[o] = syncPc[o], syncVersion'[o] = syncVersion[o],
         place[o] \in ServedPlace =>
           UNCHANGED <<turnNumber, result, draft>> /\ holder' = o
  PROVE  Checked(o)'
BY DEF Checked, ServedPlace, Holds, Saved

\* A request of one operator moves no other's on.
LEMMA OtherOperatorRests ==
  ASSUME HandoverTypeOK, Crm!SyncTypeOK,
         NEW c \in Operator, NEW o \in Operator, o # c, HandoverStep(c)
  PROVE  /\ place'[o] = place[o] /\ asked'[o] = asked[o] /\ found'[o] = found[o]
         /\ syncPc'[o] = syncPc[o] /\ syncVersion'[o] = syncVersion[o]
<1>1. /\ place = [p \in Operator |-> place[p]] /\ asked = [p \in Operator |-> asked[p]]
      /\ found = [p \in Operator |-> found[p]]
      /\ syncPc = [p \in Operator |-> syncPc[p]]
      /\ syncVersion = [p \in Operator |-> syncVersion[p]]
  BY DEF HandoverTypeOK, Crm!SyncTypeOK
<1>2. /\ place'[o] = place[o] /\ asked'[o] = asked[o] /\ found'[o] = found[o]
  BY <1>1 DEF HandoverStep, AskHandover, ClaimLapsedConversation, ClaimNoConversation,
     ClaimFreshConversation, RefuseBusyConversation, ReadResult, ReadDraft, ReadSummary,
     SyncStep, ReleaseConversation, HandoverCrash, At, Answer
<1>3. CASE UNCHANGED crmVars
  BY <1>2, <1>3 DEF crmVars
<1>4. CASE \/ Crm!Claim(c) \/ Crm!Decide(c) \/ Crm!Write(c) \/ Crm!Conclude(c)
           \/ Crm!Crash(c) \/ Crm!Ask(c, asked[c])
  BY <1>1, <1>2, <1>4 DEF Crm!Goto, Crm!Forget, Crm!Ask, Crm!ClaimLapsed, Crm!ClaimNothing,
       Crm!ClaimFresh, Crm!RefuseBusy, Crm!Step, Crm!FindNoJob,
       Crm!AnswerSynced, Crm!RefuseEarly, Crm!FindUncertain, Crm!ReconcileFound,
       Crm!ReconcileMissing, Crm!RecordJob, Crm!RecordCollides, Crm!FindPage,
       Crm!FindNoPage, Crm!SendColumns, Crm!RepeatColumns,
       Crm!SendAppend, Crm!SendCreate, Crm!ColumnsAnswered,
       Crm!AppendAnswered, Crm!CreateAnswered, Crm!WriteRaises, Crm!MarkUnknown,
       Crm!MarkSynced, Crm!Release, Crm!Crash, Crm!Claim, Crm!Decide, Crm!Write,
       Crm!Conclude, Crm!localVars
<1> QED BY <1>2, <1>3, <1>4 DEF HandoverStep, AskHandover, ClaimLapsedConversation,
       ClaimNoConversation, ClaimFreshConversation, RefuseBusyConversation, ReadResult,
       ReadDraft, ReadSummary, SyncStep, ReleaseConversation, HandoverCrash

\* Within sync_reviewed the version stays the one it was called with, until the
\* call ends.
LEMMA CallKeepsVersion ==
  ASSUME Crm!SyncTypeOK, NEW o \in Operator,
         Crm!Claim(o) \/ Crm!Decide(o) \/ Crm!Write(o) \/ Crm!Conclude(o)
  PROVE  /\ syncPc[o] # "idle"
         /\ syncPc'[o] # "idle" => syncVersion'[o] = syncVersion[o]
<1>1. syncPc = [p \in Operator |-> syncPc[p]]
  BY DEF Crm!SyncTypeOK
<1> QED BY <1>1 DEF Crm!Goto, Crm!Forget, Crm!ClaimLapsed, Crm!ClaimNothing,
       Crm!ClaimFresh, Crm!RefuseBusy, Crm!Step, Crm!FindNoJob,
       Crm!AnswerSynced, Crm!RefuseEarly, Crm!FindUncertain, Crm!ReconcileFound,
       Crm!ReconcileMissing, Crm!RecordJob, Crm!RecordCollides, Crm!FindPage,
       Crm!FindNoPage, Crm!SendColumns, Crm!RepeatColumns,
       Crm!SendAppend, Crm!SendCreate, Crm!ColumnsAnswered,
       Crm!AppendAnswered, Crm!CreateAnswered, Crm!WriteRaises, Crm!MarkUnknown,
       Crm!MarkSynced, Crm!Release, Crm!Claim, Crm!Decide, Crm!Write,
       Crm!Conclude, Crm!localVars

\* A step of o's request checks what the next one relies on.
LEMMA CheckedOwnStep ==
  ASSUME CurrentInv, Crm!SyncTypeOK, NEW o \in Operator, HandoverStep(o)
  PROVE  Checked(o)'
<1>1. /\ place \in [Operator -> {"idle", "claim", "insert_lease", "result", "draft",
                                 "summary", "sync", "release"}]
      /\ found = [p \in Operator |-> found[p]]
      /\ asked = [p \in Operator |-> asked[p]]
      /\ syncPc = [p \in Operator |-> syncPc[p]]
      /\ syncVersion = [p \in Operator |-> syncVersion[p]]
      /\ Checked(o)
      /\ latest \in Saved \cup {None}
  BY DEF CurrentInv, HandoverTypeOK, Crm!SyncTypeOK, TInv, IInv, HistoryIsOpen
<1>2. UNCHANGED <<turnNumber, result, draft>> /\ Saved' = Saved
  BY OperatorIsOutside DEF rowVars, resultVars, draftVars, Saved
<1>3. CASE \/ \E v \in DraftVersion : AskHandover(o, v)
           \/ ClaimNoConversation(o) \/ RefuseBusyConversation(o)
           \/ ReleaseConversation(o)
  <2>1. place'[o] \notin ServedPlace /\ place[o] # "sync" /\ syncPc' = syncPc
    BY <1>1, <1>3 DEF AskHandover, ClaimNoConversation, RefuseBusyConversation,
       ReleaseConversation, At, crmVars, ServedPlace
  <2> QED BY <1>1, <2>1 DEF Checked, ServedPlace
<1>4. CASE ClaimLapsedConversation(o) \/ ClaimFreshConversation(o)
  <2>1. /\ place'[o] = "result" /\ place[o] # "sync" /\ syncPc' = syncPc
        /\ holder' = o
    BY <1>1, <1>4 DEF ClaimLapsedConversation, ClaimFreshConversation, At, crmVars,
       StealLease, InsertLease
  <2> QED BY <1>1, <2>1 DEF Checked, Holds
<1>5. CASE ReadResult(o)
  <2>1. /\ place[o] = "result" /\ syncPc' = syncPc /\ holder' = holder
        /\ place'[o] = IF latest = None THEN "release" ELSE "draft"
        /\ found'[o] = latest
    BY <1>1, <1>5 DEF ReadResult, At, crmVars, deskVars, vars, leaseVars
  <2> QED BY <1>1, <1>2, <2>1 DEF Checked, Holds, ServedPlace
<1>6. CASE ReadDraft(o)
  <2>1. /\ place[o] = "draft" /\ syncPc' = syncPc /\ holder' = holder
        /\ place'[o] = IF Presentable(found[o], asked[o]) THEN "summary" ELSE "release"
        /\ found' = found /\ asked' = asked
    BY <1>1, <1>6 DEF ReadDraft, At, crmVars, deskVars, vars, leaseVars
  <2> QED BY <1>1, <1>2, <2>1 DEF Checked, Holds, ServedPlace, Presentable
<1>7. CASE ReadSummary(o)
  <2>1. /\ place[o] = "summary" /\ holder' = holder
        /\ place'[o] = IF AnsweredNewest(found[o]) THEN "sync" ELSE "release"
        /\ found' = found /\ asked' = asked
        /\ IF AnsweredNewest(found[o]) THEN Crm!Ask(o, asked[o]) ELSE UNCHANGED crmVars
    BY <1>1, <1>7 DEF ReadSummary, At, deskVars, vars, leaseVars
  <2>2. CASE AnsweredNewest(found[o])
    <3>1. syncVersion'[o] = asked[o]
      BY <1>1, <2>1, <2>2 DEF Crm!Ask
    <3> QED BY <1>1, <1>2, <2>1, <2>2, <3>1 DEF Checked, Holds, ServedPlace, AnsweredNewest
  <2>3. CASE ~AnsweredNewest(found[o])
    <3>1. syncPc' = syncPc
      BY <2>1, <2>3 DEF crmVars
    <3> QED BY <1>1, <1>2, <2>1, <2>3, <3>1 DEF Checked, Holds, ServedPlace
  <2> QED BY <2>2, <2>3
<1>8. CASE SyncStep(o)
  <2>1. /\ place[o] = "sync" /\ holder' = holder /\ found' = found /\ asked' = asked
        /\ place' = [place EXCEPT ![o] = IF syncPc'[o] = "idle" THEN "release" ELSE @]
    BY <1>8 DEF SyncStep, deskVars, vars, leaseVars
  <2>2. place'[o] = IF syncPc'[o] = "idle" THEN "release" ELSE "sync"
    BY <1>1, <2>1
  <2>3. syncPc[o] # "idle" /\ (syncPc'[o] # "idle" => syncVersion'[o] = syncVersion[o])
    BY <1>8, CallKeepsVersion DEF SyncStep
  <2> QED BY <1>1, <1>2, <2>1, <2>2, <2>3 DEF Checked, Holds, ServedPlace
<1>9. CASE HandoverCrash(o)
  <2>1. place'[o] = "idle" /\ syncPc'[o] = "idle"
    BY <1>1, <1>9 DEF HandoverCrash, Crm!Crash, Crm!Forget, Crm!Goto, crmVars, Checked
  <2> QED BY <2>1 DEF Checked, ServedPlace
<1> QED BY <1>3, <1>4, <1>5, <1>6, <1>7, <1>8, <1>9 DEF HandoverStep

LEMMA CurrentNext ==
  ASSUME Timely, CurrentInv, Crm!SyncTypeOK, [AllNext]_allVars
  PROVE  CurrentInv'
<1> USE OperatorAssumption DEF OperatorAssumption
<1>1. DeskInv' /\ TInv' /\ HandoverTypeOK' /\ ResultsCarryTurns'
  <2>1. latest \in MessageId \cup {None}
    BY DEF CurrentInv, TInv, IInv, TypeOK
  <2> QED BY <2>1, DeskKept, HandoverTypeNext, ResultsKeepTurns DEF CurrentInv, TInv
<1>2. ASSUME [DeskNext]_deskVars, UNCHANGED <<handoverVars, syncPc, syncVersion>>,
             NEW o \in Operator
      PROVE  Checked(o)'
  <2>1. place[o] \in ServedPlace => UNCHANGED <<turnNumber, result, draft>> /\ holder' = o
    BY <1>2, DeskWaits DEF CurrentInv, Checked
  <2> QED BY <1>2, <2>1, CheckedRests DEF CurrentInv, handoverVars
<1>3. ASSUME NEW c \in Operator, HandoverStep(c), NEW o \in Operator, o # c
      PROVE  Checked(o)'
  <2>1. UNCHANGED <<turnNumber, result, draft>>
    BY <1>3, OperatorIsOutside DEF rowVars, resultVars, draftVars
  <2>2. place[o] \in ServedPlace => holder' = o
    BY <1>3, OperatorIsOutside, LeaseIsLeft DEF CurrentInv, Checked
  <2> QED BY <1>3, <2>1, <2>2, CheckedRests, OtherOperatorRests DEF CurrentInv
<1>4. CASE CrmEnvironment
  <2>1. UNCHANGED <<deskVars, handoverVars, syncPc, syncVersion>>
    BY <1>4 DEF CrmEnvironment, Crm!NotionStep, Crm!LeaseEnds, Crm!DelayEnds, Crm!localVars
  <2> QED BY <1>1, <1>2, <2>1 DEF CurrentInv
<1>5. CASE DeskNext /\ UNCHANGED <<crmVars, handoverVars>>
  BY <1>1, <1>2, <1>5 DEF CurrentInv, crmVars
<1>6. CASE UNCHANGED allVars
  BY <1>1, <1>2, <1>6 DEF CurrentInv, crmVars, allVars
<1>7. ASSUME NEW c \in Operator, HandoverStep(c) PROVE CurrentInv'
  BY <1>1, <1>3, <1>7, CheckedOwnStep DEF CurrentInv
<1> QED BY <1>4, <1>5, <1>6, <1>7 DEF AllNext

LEMMA CurrentInvariant == Timely => (AllSpec => [](CurrentInv /\ Crm!SyncTypeOK))
<1> SUFFICES ASSUME Timely PROVE AllSpec => [](CurrentInv /\ Crm!SyncTypeOK)
  OBVIOUS
<1>1. Sync!SyncTypeOK => Crm!SyncTypeOK
  BY DEF Sync!SyncTypeOK, Crm!SyncTypeOK, Sync!LeaseTypeOK, Crm!LeaseTypeOK,
     Sync!NotionTypeOK, Crm!NotionTypeOK, Sync!PageRecord, Crm!PageRecord,
     Sync!WriteRequest, Crm!WriteRequest, Sync!Kind, Crm!Kind, Sync!JobState,
     Crm!JobState, Sync!Place, Crm!Place
<1>2. AllSpec => []Crm!SyncTypeOK
  BY <1>1, HandoverImplementsSync, SameInit, SameStep, SyncAssumptions,
     Sync!SyncTypeCorrect, PTL DEF Crm!SyncSpec, Sync!SyncSpec
<1>3. CurrentInv /\ Crm!SyncTypeOK /\ [AllNext]_allVars => CurrentInv'
  BY CurrentNext
<1> QED BY <1>2, <1>3, CurrentInit, PTL DEF AllSpec

\* Whatever is sent to Notion is, when it is sent, the current version of the
\* draft, approved, and answers the newest message stored.
THEOREM HandedOverIsCurrent == Timely => (AllSpec => SentIsCurrent)
<1> SUFFICES ASSUME Timely PROVE AllSpec => SentIsCurrent
  OBVIOUS
<1> DEFINE Current ==
      \A q \in flight' \ flight :
        LET m == q.version[1] IN
        /\ draft[m].version = q.version[2]
        /\ draft[m].status \in {"approved", "sent"}
        /\ \A k \in MessageId : Stored(k) => turn[k] <= turn[m]
<1>1. CurrentInv /\ Crm!SyncTypeOK /\ [AllNext]_allVars => [Current]_flight
  <2> SUFFICES ASSUME CurrentInv, Crm!SyncTypeOK, [AllNext]_allVars,
                      NEW q \in flight' \ flight
               PROVE  LET m == q.version[1] IN
                      /\ draft[m].version = q.version[2]
                      /\ draft[m].status \in {"approved", "sent"}
                      /\ \A k \in MessageId : Stored(k) => turn[k] <= turn[m]
    OBVIOUS
  <2>1. PICK o \in Operator : SyncStep(o) /\ q.version = syncVersion[o]
    <3>1. ~UNCHANGED flight
      OBVIOUS
    <3>2. ~CrmEnvironment
      BY DEF CrmEnvironment, Crm!NotionStep, Crm!Apply, Crm!LeaseEnds, Crm!DelayEnds,
         Crm!notionVars
    <3>3. PICK o \in Operator : HandoverStep(o)
      BY <3>1, <3>2 DEF AllNext, allVars, crmVars
    <3>4. SyncStep(o)
      BY <3>1, <3>3 DEF HandoverStep, AskHandover, ClaimLapsedConversation,
         ClaimNoConversation, ClaimFreshConversation, RefuseBusyConversation, ReadResult,
         ReadDraft, ReadSummary, ReleaseConversation, HandoverCrash, crmVars, Crm!Ask,
         Crm!Crash, Crm!notionVars
    <3>5. \/ Crm!SendColumns(o) \/ Crm!RepeatColumns(o)
          \/ Crm!SendAppend(o) \/ Crm!SendCreate(o)
      BY <3>1, <3>4 DEF SyncStep, Crm!ClaimLapsed, Crm!ClaimNothing,
       Crm!ClaimFresh, Crm!RefuseBusy, Crm!Step, Crm!FindNoJob,
       Crm!AnswerSynced, Crm!RefuseEarly, Crm!FindUncertain, Crm!ReconcileFound,
       Crm!ReconcileMissing, Crm!RecordJob, Crm!RecordCollides, Crm!FindPage,
       Crm!FindNoPage, Crm!ColumnsAnswered,
       Crm!AppendAnswered, Crm!CreateAnswered, Crm!WriteRaises, Crm!MarkUnknown,
       Crm!MarkSynced, Crm!Release, Crm!Claim, Crm!Decide, Crm!Write,
       Crm!Conclude, Crm!notionVars
    <3>6. q.version = syncVersion[o]
      BY <3>5 DEF Crm!SendColumns, Crm!RepeatColumns, Crm!SendAppend, Crm!SendCreate,
         Crm!SendRepeatable, Crm!SendOnce, Crm!WriteOf
    <3> QED BY <3>4, <3>6
  <2>2. syncPc[o] # "idle" /\ Checked(o)
    BY <2>1, CallKeepsVersion DEF SyncStep, CurrentInv
  <2>3. PICK m : m = found[o]
    OBVIOUS
  <2>4. /\ q.version = <<m, draft[m].version>> /\ m \in Saved
        /\ draft[m].status \in {"approved", "sent"}
        /\ turnNumber = turn[m]
    BY <2>1, <2>2, <2>3 DEF Checked, CurrentInv, ResultsCarryTurns
  <2>5. \A k \in MessageId : turn[k] <= turn[m]
    BY <2>4 DEF CurrentInv, TInv, TurnsBounded
  <2> QED BY <2>4, <2>5
<1>2. SentIsCurrent <=> [][Current]_flight
  BY DEF SentIsCurrent
<1> QED BY <1>1, <1>2, CurrentInvariant, PTL DEF AllSpec
==============================================================================
