----------------------------- MODULE DraftReview -----------------------------
(***************************************************************************)
(* ConversationStore.review_draft, composed with the handler of            *)
(* ConversationTurns that writes the drafts.  Reviewers and messages share *)
(* the conversation's lease, the turn number and the draft rows.           *)
(*                                                                         *)
(* A draft is named by the message it answers.  Its body is abstracted to  *)
(* the version that wrote it: version 1 is the generated text.             *)
(***************************************************************************)
EXTENDS ConversationTurns

CONSTANTS
  Reviewer,   \* people reviewing drafts, one review at a time each
  Review,     \* review requests: [action, edit, receipt]
  MaxVersion  \* bound: no review is started on a draft at this version

Action == {"save", "approve", "reject", "record_sent"}

ASSUME ReviewAssumption ==
  /\ Reviewer \subseteq Client
  /\ Reviewer \cap Worker = {}
  /\ Review \subseteq [action : Action, edit : BOOLEAN, receipt : BOOLEAN]
  /\ MaxVersion \in Nat \ {0}

VARIABLES
  draft,      \* reply_drafts.draft_json, by message
  event,      \* workflow_events of kind draft_review, with the draft that
              \* the reviewer's page showed
  reviewPc,   \* where each reviewer's request is
  view,       \* the draft the reviewer's page shows
  review      \* the reviewer's request: a message's draft and what to do

draftVars == <<draft, event>>
reviewerVars == <<reviewPc, view, review>>
deskVars == <<vars, draftVars, reviewerVars>>

DraftStatus == {"needs_human_review", "ready_for_review", "approved",
                "rejected", "suppressed", "sent"}
Draft == [status : DraftStatus, version : 1..MaxVersion, body : 1..MaxVersion]
Event == [message : MessageId, action : Action, version : 2..MaxVersion,
          body : 1..MaxVersion, shown : Draft, edit : BOOLEAN]
ASSUME NoDraftAssumption == None \notin Draft
NoReview == [action |-> "none", edit |-> FALSE, receipt |-> FALSE]

DeskTypeOK ==
  /\ TypeOK
  /\ draft \in [MessageId -> Draft \cup {None}]
  /\ event \subseteq Event
  /\ reviewPc \in [Reviewer -> {"idle", "claim", "insert_lease", "check",
                               "commit", "release"}]
  /\ view \in [Reviewer -> [message : MessageId \cup {None},
                            draft : Draft \cup {None}]]
  /\ review \in [Reviewer -> Review \cup {NoReview}]

NoView == [message |-> None, draft |-> None]

DeskInit ==
  /\ Init
  /\ draft = [m \in MessageId |-> None]
  /\ event = {}
  /\ reviewPc = [r \in Reviewer |-> "idle"]
  /\ view = [r \in Reviewer |-> NoView]
  /\ review = [r \in Reviewer |-> NoReview]

-----------------------------------------------------------------------------
\* The draft _process_turn hands to save_turn, by the state it decided:
\* suppressed replies are blanked, the others wait for a person.
NewDraft(s) ==
  [status |-> IF s = Suppressed THEN "suppressed"
              ELSE IF s = "needs_human_review" THEN s ELSE "ready_for_review",
   version |-> 1, body |-> 1]

\* A reviewer's transaction is open: assert_lease locked the lease row, so that
\* nobody takes the lease over, though it may run out.
LeaseRowLocked == \E r \in Reviewer : reviewPc[r] = "commit"

\* Everything the message handlers and the clock do.  The transaction of
\* save_turn inserts the turn's draft with its result.
MessageStep ==
  /\ Next
  /\ LeaseRowLocked => holder' = holder
  /\ draft' = [m \in MessageId |->
                 IF m \in Saved' \ Saved THEN NewDraft(result'[m].state)
                 ELSE draft[m]]
  /\ UNCHANGED <<event, reviewerVars>>

-----------------------------------------------------------------------------
GotoReview(r, place) == reviewPc' = [reviewPc EXCEPT ![r] = place]

\* A page loads a draft (timeline or latest_result).
LoadDraft(r, m) ==
  /\ reviewPc[r] = "idle"
  /\ draft[m] # None
  /\ view' = [view EXCEPT ![r] = [message |-> m, draft |-> draft[m]]]
  /\ UNCHANGED <<vars, draftVars, reviewPc, review>>

\* The reviewer posts a decision on the draft shown, with its version as
\* expected_version.
PostReview(r, d) ==
  /\ reviewPc[r] = "idle"
  /\ view[r] # NoView
  /\ view[r].draft.version < MaxVersion
  /\ review' = [review EXCEPT ![r] = d]
  /\ GotoReview(r, "claim")
  /\ UNCHANGED <<vars, draftVars, view>>

\* The response arrives; the page still shows what it showed.
EndReview(r) ==
  /\ GotoReview(r, "idle")
  /\ review' = [review EXCEPT ![r] = NoReview]

ReviewClaimLapsed(r) ==
  /\ reviewPc[r] = "claim"
  /\ ~LeaseRowLocked
  /\ StealLease(r)
  /\ GotoReview(r, "check")
  /\ UNCHANGED <<rowVars, resultVars, localVars, draftVars, view, review>>

ReviewClaimNothing(r) ==
  /\ reviewPc[r] = "claim"
  /\ ~LeaseLapsed
  /\ GotoReview(r, "insert_lease")
  /\ UNCHANGED <<vars, draftVars, view, review>>

ReviewClaimFresh(r) ==
  /\ reviewPc[r] = "insert_lease"
  /\ InsertLease(r)
  /\ GotoReview(r, "check")
  /\ UNCHANGED <<rowVars, resultVars, localVars, draftVars, view, review>>

ReviewRefuseBusy(r) ==
  /\ reviewPc[r] = "insert_lease"
  /\ holder # Nobody
  /\ EndReview(r)
  /\ UNCHANGED <<vars, draftVars, view>>

\* The checks of review_draft.  The draft row is locked; the turn number is
\* read in the same transaction, without a lock.
\* (Mutants: expected_version is not compared; the draft's turn is not
\* compared; any draft may be recorded as sent.)
UnchangedIgnored(r) == TRUE
Unchanged(r) == draft[view[r].message].version = view[r].draft.version
Reviewable(m) == draft[m].status \notin {"suppressed", "sent"}
NewestTurnIgnored(m) == TRUE
NewestTurn(m) == turn[m] = turnNumber
ReceiptOnly(r) == review[r].action = "record_sent" => review[r].receipt
ReceiptOK(r) ==
  LET m == view[r].message IN
  review[r].action = "record_sent" =>
    /\ draft[m].status = "approved"
    /\ review[r].receipt
    /\ ~review[r].edit

ReviewAllowed(r) ==
  LET m == view[r].message IN
  /\ LeaseValid(r)
  /\ Unchanged(r)
  /\ Reviewable(m)
  /\ NewestTurn(m)
  /\ ReceiptOK(r)

\* (Mutant: the action is stored as the status.)
StatusAfterVerbatim(action) == action
StatusAfter(action) ==
  CASE action = "save"        -> "ready_for_review"
    [] action = "approve"     -> "approved"
    [] action = "reject"      -> "rejected"
    [] action = "record_sent" -> "sent"

\* assert_lease, the locked draft row and the turn number are as they should
\* be; the transaction stays open.
CheckReview(r) ==
  /\ reviewPc[r] = "check"
  /\ ReviewAllowed(r)
  /\ GotoReview(r, "commit")
  /\ UNCHANGED <<vars, draftVars, view, review>>

\* review_draft raises and rolls back.
RefuseReview(r) ==
  /\ reviewPc[r] = "check"
  /\ ~ReviewAllowed(r)
  /\ GotoReview(r, "release")
  /\ UNCHANGED <<vars, draftVars, view, review>>

\* The new version of the draft and its event are committed together.
CommitReview(r) ==
  LET m == view[r].message
      next == draft[m].version + 1
      body == IF review[r].edit THEN next ELSE draft[m].body
  IN
  /\ reviewPc[r] = "commit"
  /\ draft' = [draft EXCEPT ![m] =
                 [status |-> StatusAfter(review[r].action),
                  version |-> next, body |-> body]]
  /\ event' = event \cup
       {[message |-> m, action |-> review[r].action, version |-> next,
         body |-> body, shown |-> view[r].draft, edit |-> review[r].edit]}
  /\ GotoReview(r, "release")
  /\ UNCHANGED <<vars, view, review>>

ReviewRelease(r) ==
  /\ reviewPc[r] = "release"
  /\ ReleaseLease(r)
  /\ EndReview(r)
  /\ UNCHANGED <<rowVars, resultVars, localVars, draftVars, view>>

\* The process that serves the review dies.
ReviewCrash(r) ==
  /\ reviewPc[r] # "idle"
  /\ AbandonLease(r)
  /\ EndReview(r)
  /\ UNCHANGED <<rowVars, resultVars, localVars, draftVars, view>>

ReviewStep(r) ==
  \/ \E m \in MessageId : LoadDraft(r, m)
  \/ \E d \in Review : PostReview(r, d)
  \/ ReviewClaimLapsed(r) \/ ReviewClaimNothing(r)
  \/ ReviewClaimFresh(r) \/ ReviewRefuseBusy(r)
  \/ CheckReview(r) \/ RefuseReview(r) \/ CommitReview(r)
  \/ ReviewRelease(r) \/ ReviewCrash(r)

DeskNext == MessageStep \/ \E r \in Reviewer : ReviewStep(r)

DeskSpec == DeskInit /\ [][DeskNext]_deskVars

-----------------------------------------------------------------------------
\* A draft is recorded as sent only with the words that were approved just
\* before: no edit slips in between approval and sending.
SentAsApproved ==
  \A s \in event : s.action = "record_sent" =>
    \E a \in event : /\ a.message = s.message
                     /\ a.action = "approve"
                     /\ a.version = s.version - 1
                     /\ a.body = s.body

\* Who approves without editing approves the words shown on the page, however
\* long ago it was loaded and whoever else reviewed since.
ApprovedAsShown ==
  \A a \in event : a.action = "approve" /\ ~a.edit => a.body = a.shown.body

\* No version of a draft is decided upon twice: of two reviewers acting on the
\* same version one is refused.
OneDecisionPerVersion ==
  \A a, b \in event :
    a.message = b.message /\ a.shown.version = b.shown.version => a = b

-----------------------------------------------------------------------------
\* The strengthening that makes the three invariants above inductive.

\* Drafts belong to saved turns, so that a new turn overwrites none; a draft
\* that was never reviewed is not approved.
DraftsBelong ==
  \A m \in MessageId : draft[m] \in Draft => m \in Saved

\* Events belong to drafts, one for each version after the first; an approved
\* draft has the body of the event that approved it.
Trail ==
  /\ \A e \in event : /\ draft[e.message] \in Draft
                      /\ e.version <= draft[e.message].version
                      /\ e.shown.version = e.version - 1
  /\ \A a, b \in event : a.message = b.message /\ a.version = b.version => a = b
  /\ \A m \in MessageId : draft[m] \in Draft /\ draft[m].status = "approved" =>
       \E a \in event : /\ a.message = m
                        /\ a.action = "approve"
                        /\ a.version = draft[m].version
                        /\ a.body = draft[m].body

\* A page shows the draft as it is or an earlier version of it.
PagesArePast ==
  \A r \in Reviewer :
    \/ view[r] = NoView /\ reviewPc[r] = "idle"
    \/ LET m == view[r].message IN
       /\ m \in MessageId
       /\ view[r].draft \in Draft
       /\ draft[m] \in Draft
       /\ view[r].draft.version <= draft[m].version
       /\ view[r].draft.version = draft[m].version => view[r].draft = draft[m]
       /\ reviewPc[r] # "idle" => review[r] \in Review
       /\ reviewPc[r] # "idle" => view[r].draft.version < MaxVersion

\* While a review's transaction is open nobody else holds the lease, and what
\* was checked of the draft still holds.
CommitIsChecked ==
  \A r \in Reviewer : reviewPc[r] = "commit" =>
    Holds(r) /\ Unchanged(r) /\ ReceiptOK(r)

DeskInv ==
  /\ DeskTypeOK
  /\ DraftsBelong
  /\ Trail
  /\ PagesArePast
  /\ CommitIsChecked
  /\ SentAsApproved
  /\ ApprovedAsShown
-----------------------------------------------------------------------------
\* From the moment a message asking to stop is stored, no reply of the same or
\* an earlier turn is approved or recorded as sent, even before that message is
\* processed.
StopIsHeard ==
  [][\A e \in event' \ event : e.action \in {"approve", "record_sent"} =>
       \A k \in MessageId :
         Stored(k) /\ text[k] \in Suppressing => turn[k] < turn[e.message]]_event
=============================================================================
