-------------------------- MODULE DraftReviewProofs --------------------------
(***************************************************************************)
(* Drafts are decided upon once per version, on the words shown, and sent  *)
(* as approved, for any reviewers, messages, versions and lapsing leases.  *)
(* While leases outlast the work, nothing is approved or recorded as sent  *)
(* once a message of its turn or a later one asks to stop.                 *)
(***************************************************************************)
EXTENDS DraftReview, ConversationTurnsProofs

\* Saved turns stay saved.
LEMMA SavedGrows == TypeOK /\ [Next]_vars => Saved \subseteq Saved'
<1> SUFFICES ASSUME TypeOK, [Next]_vars PROVE Saved \subseteq Saved'
  OBVIOUS
<1> USE NoneAssumption DEF NoneAssumption
<1>1. result' = result \/ \E w \in Worker : SaveTurn(w)
  BY DEF Next, vars, resultVars, Serve, Claim, Prepare, Append, Finish, Submit,
     ClaimLapsed, ClaimNothing, ClaimFresh, RefuseBusy, AnswerFromStore,
     FindNoResult, ReadContext, RefuseOutOfTurn, SelectRecoverable,
     SelectNothing, MarkProcessing, InsertMessage, InsertCollides, SaveRefused,
     TurnRaises, MarkFailed, StoreRaises, Release, Crash, Expire
<1>2. CASE result' = result
  BY <1>2 DEF Saved
<1>3. ASSUME NEW w \in Worker, SaveTurn(w)
      PROVE  Saved \subseteq Saved'
  <2>1. result[request[w].id] = None
    BY <1>3 DEF SaveTurn
  <2>2. \A m \in MessageId \ {request[w].id} : result'[m] = result[m]
    BY <1>3 DEF SaveTurn, TypeOK
  <2> QED BY <2>1, <2>2 DEF Saved
<1> QED BY <1>1, <1>2, <1>3

\* A new draft is a draft nobody approved.
LEMMA NewDraftIsNew ==
  ASSUME NEW s
  PROVE  /\ NewDraft(s) \in Draft
         /\ NewDraft(s).status # "approved"
BY ReviewAssumption DEF ReviewAssumption, NewDraft, Draft, DraftStatus

\* The empty desk satisfies the strengthened invariant.
LEMMA DeskInitInv == DeskInit => DeskInv
<1> SUFFICES ASSUME DeskInit PROVE DeskInv
  OBVIOUS
<1>1. TypeOK
  BY TypeInit DEF DeskInit
<1>2. DeskTypeOK
  BY <1>1 DEF DeskInit, DeskTypeOK, NoView
<1>3. \A m \in MessageId : result[m] = None /\ draft[m] = None
  BY DEF DeskInit, Init
<1>4. None \notin Draft
  BY NoDraftAssumption DEF NoDraftAssumption
<1> QED BY <1>2, <1>3, <1>4
    DEF DeskInit, DeskInv, DraftsBelong, Trail, PagesArePast, CommitIsChecked,
        SentAsApproved, ApprovedAsShown

\* Handlers leave the drafts that exist alone; only a newly saved turn gets one.
LEMMA DraftsStay ==
  ASSUME DeskInv, MessageStep
  PROVE  /\ \A m \in MessageId : draft[m] \in Draft => draft'[m] = draft[m]
         /\ \A m \in MessageId : \/ draft'[m] = draft[m]
                                 \/ /\ m \in Saved'
                                    /\ draft'[m] \in Draft
                                    /\ draft'[m].status # "approved"
         /\ DOMAIN draft' = MessageId
<1>1. \A m \in MessageId : draft'[m] = IF m \in Saved' \ Saved
                                       THEN NewDraft(result'[m].state)
                                       ELSE draft[m]
  BY DEF MessageStep
<1>2. DraftsBelong
  BY DEF DeskInv
<1> QED BY <1>1, <1>2, NewDraftIsNew DEF DraftsBelong, MessageStep

\* Messages, crashes and expiry keep the invariant of the desk.
LEMMA MessageKeeps ==
  ASSUME DeskInv, MessageStep
  PROVE  DeskInv'
<1>0. /\ TypeOK
      /\ TypeOK'
      /\ Saved \subseteq Saved'
  BY TypeNext, SavedGrows DEF DeskInv, DeskTypeOK, MessageStep
<1>1. UNCHANGED <<event, reviewPc, view, review>>
  BY DEF MessageStep, reviewerVars
<1>2. DeskTypeOK'
  <2>1. draft' \in [MessageId -> Draft \cup {None}]
    <3>1. draft' = [m \in MessageId |-> draft'[m]]
      BY DEF MessageStep
    <3>2. \A m \in MessageId : draft'[m] \in Draft \cup {None}
      BY DraftsStay DEF DeskInv, DeskTypeOK
    <3> QED BY <3>1, <3>2
  <2> QED BY <1>0, <1>1, <2>1 DEF DeskInv, DeskTypeOK
<1>3. DraftsBelong'
  BY <1>0, DraftsStay DEF DeskInv, DraftsBelong
<1>4. Trail'
  <2>1. \A e \in event : e.message \in MessageId
    BY DEF DeskInv, DeskTypeOK, Event
  <2> QED BY <1>1, <2>1, DraftsStay DEF DeskInv, Trail
<1>5. PagesArePast'
  BY <1>1, DraftsStay DEF DeskInv, PagesArePast
<1>6. CommitIsChecked'
  <2> SUFFICES ASSUME NEW r \in Reviewer, reviewPc[r] = "commit"
               PROVE  (Holds(r) /\ Unchanged(r) /\ ReceiptOK(r))'
    BY <1>1 DEF CommitIsChecked
  <2>1. Holds(r) /\ Unchanged(r) /\ ReceiptOK(r)
    BY DEF DeskInv, CommitIsChecked
  <2>2. holder' = holder
    BY DEF MessageStep, LeaseRowLocked
  <2>3. view[r].message \in MessageId /\ draft[view[r].message] \in Draft
    BY DEF DeskInv, PagesArePast
  <2>4. draft'[view[r].message] = draft[view[r].message]
    BY <2>3, DraftsStay
  <2> QED BY <1>1, <2>1, <2>2, <2>4 DEF Holds, Unchanged, ReceiptOK
<1> QED BY <1>1, <1>2, <1>3, <1>4, <1>5, <1>6
    DEF DeskInv, SentAsApproved, ApprovedAsShown

\* A reviewer's step that touches neither drafts nor messages keeps the
\* invariant if it leaves the lease to whoever's transaction is open.
LEMMA QuietKeeps ==
  ASSUME DeskInv, NEW r \in Reviewer,
         NEW p \in {"idle", "insert_lease", "check", "release"},
         UNCHANGED <<rowVars, resultVars, localVars, draftVars, view>>,
         reviewPc' = [reviewPc EXCEPT ![r] = p],
         p # "idle" => reviewPc[r] # "idle",
         \/ review' = review
         \/ p = "idle" /\ review' = [review EXCEPT ![r] = NoReview],
         LeaseTypeOK',
         \A q \in Reviewer \ {r} : reviewPc[q] = "commit" => holder' = q
  PROVE  DeskInv'
<1>0. UNCHANGED <<draft, event, view, result>>
  BY DEF draftVars, resultVars
<1>1. TypeOK'
  BY DEF DeskInv, DeskTypeOK, TypeOK, rowVars, resultVars, localVars
<1>2. DeskTypeOK'
  BY <1>0, <1>1 DEF DeskInv, DeskTypeOK
<1>3. DraftsBelong'
  BY <1>0 DEF DeskInv, DraftsBelong, Saved
<1>4. Trail'
  BY <1>0 DEF DeskInv, Trail
<1>5. \A q \in Reviewer \ {r} : reviewPc'[q] = reviewPc[q] /\ review'[q] = review[q]
  BY DEF DeskInv, DeskTypeOK
<1>6. reviewPc'[r] = p /\ (p # "idle" => review'[r] = review[r])
  BY DEF DeskInv, DeskTypeOK
<1>7. PagesArePast'
  BY <1>0, <1>5, <1>6 DEF DeskInv, PagesArePast
<1>8. CommitIsChecked'
  BY <1>0, <1>5, <1>6
     DEF DeskInv, CommitIsChecked, Holds, Unchanged, ReceiptOK
<1> QED BY <1>0, <1>2, <1>3, <1>4, <1>7, <1>8
    DEF DeskInv, SentAsApproved, ApprovedAsShown
\* A page that loads a draft shows it as it is.
LEMMA LoadKeeps ==
  ASSUME DeskInv, NEW r \in Reviewer, NEW m \in MessageId, LoadDraft(r, m)
  PROVE  DeskInv'
<1>0. /\ UNCHANGED <<vars, draft, event, reviewPc, review>>
      /\ draft[m] \in Draft
      /\ reviewPc[r] = "idle"
      /\ view' = [view EXCEPT ![r] = [message |-> m, draft |-> draft[m]]]
  BY DEF LoadDraft, draftVars, DeskInv, DeskTypeOK
<1>1. TypeOK' /\ holder' = holder /\ result' = result
  BY <1>0 DEF DeskInv, DeskTypeOK, TypeOK, LeaseTypeOK, vars, leaseVars,
              rowVars, resultVars, localVars
<1>2. DeskTypeOK'
  BY <1>0, <1>1 DEF DeskInv, DeskTypeOK
<1>3. /\ view'[r] = [message |-> m, draft |-> draft[m]]
      /\ \A q \in Reviewer \ {r} : view'[q] = view[q]
  BY <1>0 DEF DeskInv, DeskTypeOK
<1>4. DraftsBelong' /\ Trail'
  BY <1>0, <1>1 DEF DeskInv, DraftsBelong, Trail, Saved
<1>5. PagesArePast'
  <2> SUFFICES ASSUME NEW q \in Reviewer
               PROVE  \/ view'[q] = NoView /\ reviewPc'[q] = "idle"
                      \/ LET k == view'[q].message IN
                         /\ k \in MessageId
                         /\ view'[q].draft \in Draft
                         /\ draft'[k] \in Draft
                         /\ view'[q].draft.version <= draft'[k].version
                         /\ view'[q].draft.version = draft'[k].version =>
                              view'[q].draft = draft'[k]
                         /\ reviewPc'[q] # "idle" => review'[q] \in Review
                         /\ reviewPc'[q] # "idle" =>
                              view'[q].draft.version < MaxVersion
    BY DEF PagesArePast
  <2>1. CASE q = r
    <3>1. draft[m].version \in Nat
      BY <1>0, ReviewAssumption DEF Draft, ReviewAssumption
    <3> QED BY <1>0, <1>3, <2>1, <3>1
  <2>2. CASE q # r
    BY <1>0, <1>3, <2>2 DEF DeskInv, PagesArePast
  <2> QED BY <2>1, <2>2
<1>6. CommitIsChecked'
  BY <1>0, <1>1, <1>3
     DEF DeskInv, CommitIsChecked, Holds, Unchanged, ReceiptOK
<1> QED BY <1>0, <1>2, <1>4, <1>5, <1>6
    DEF DeskInv, SentAsApproved, ApprovedAsShown

\* A decision is posted on a draft that has been loaded.
LEMMA PostKeeps ==
  ASSUME DeskInv, NEW r \in Reviewer, NEW d \in Review, PostReview(r, d)
  PROVE  DeskInv'
<1>0. /\ UNCHANGED <<vars, draft, event, view>>
      /\ reviewPc' = [reviewPc EXCEPT ![r] = "claim"]
      /\ review' = [review EXCEPT ![r] = d]
      /\ view[r] # NoView
      /\ view[r].draft.version < MaxVersion
  BY DEF PostReview, GotoReview, draftVars
<1>1. TypeOK' /\ holder' = holder /\ result' = result
  BY <1>0 DEF DeskInv, DeskTypeOK, TypeOK, LeaseTypeOK, vars, leaseVars,
              rowVars, resultVars, localVars
<1>2. DeskTypeOK'
  BY <1>0, <1>1 DEF DeskInv, DeskTypeOK
<1>3. /\ reviewPc'[r] = "claim" /\ review'[r] = d
      /\ \A q \in Reviewer \ {r} : reviewPc'[q] = reviewPc[q] /\ review'[q] = review[q]
  BY <1>0 DEF DeskInv, DeskTypeOK
<1>4. DraftsBelong' /\ Trail'
  BY <1>0, <1>1 DEF DeskInv, DraftsBelong, Trail, Saved
<1>5. PagesArePast'
  BY <1>0, <1>3 DEF DeskInv, PagesArePast
<1>6. CommitIsChecked'
  BY <1>0, <1>1, <1>3
     DEF DeskInv, CommitIsChecked, Holds, Unchanged, ReceiptOK
<1> QED BY <1>0, <1>2, <1>4, <1>5, <1>6
    DEF DeskInv, SentAsApproved, ApprovedAsShown

\* The open transaction has checked what it will rely on.
LEMMA CheckKeeps ==
  ASSUME DeskInv, NEW r \in Reviewer, CheckReview(r)
  PROVE  DeskInv'
<1>0. /\ UNCHANGED <<vars, draft, event, view, review>>
      /\ reviewPc' = [reviewPc EXCEPT ![r] = "commit"]
      /\ reviewPc[r] = "check"
      /\ Holds(r) /\ Unchanged(r) /\ ReceiptOK(r)
  BY DEF CheckReview, GotoReview, draftVars, ReviewAllowed, LeaseValid, Holds
<1>1. TypeOK' /\ holder' = holder /\ result' = result
  BY <1>0 DEF DeskInv, DeskTypeOK, TypeOK, LeaseTypeOK, vars, leaseVars,
              rowVars, resultVars, localVars
<1>2. DeskTypeOK'
  BY <1>0, <1>1 DEF DeskInv, DeskTypeOK
<1>3. /\ reviewPc'[r] = "commit"
      /\ \A q \in Reviewer \ {r} : reviewPc'[q] = reviewPc[q]
  BY <1>0 DEF DeskInv, DeskTypeOK
<1>4. DraftsBelong' /\ Trail'
  BY <1>0, <1>1 DEF DeskInv, DraftsBelong, Trail, Saved
<1>5. PagesArePast'
  BY <1>0, <1>3 DEF DeskInv, PagesArePast
<1>6. CommitIsChecked'
  BY <1>0, <1>1, <1>3
     DEF DeskInv, CommitIsChecked, Holds, Unchanged, ReceiptOK
<1> QED BY <1>0, <1>2, <1>4, <1>5, <1>6
    DEF DeskInv, SentAsApproved, ApprovedAsShown

\* The decision: the new version is the next one, its event is the only one of
\* that version, and the pages that showed the old version are now behind.
LEMMA CommitKeeps ==
  ASSUME DeskInv, NEW r \in Reviewer, CommitReview(r)
  PROVE  DeskInv'
<1> DEFINE m == view[r].message
           next == draft[m].version + 1
           body == IF review[r].edit THEN next ELSE draft[m].body
           new == [status |-> StatusAfter(review[r].action),
                   version |-> next, body |-> body]
           e == [message |-> m, action |-> review[r].action, version |-> next,
                 body |-> body, shown |-> view[r].draft, edit |-> review[r].edit]
<1>0. /\ UNCHANGED <<vars, view, review>>
      /\ reviewPc[r] = "commit"
      /\ reviewPc' = [reviewPc EXCEPT ![r] = "release"]
      /\ draft' = [draft EXCEPT ![m] = new]
      /\ event' = event \cup {e}
  BY DEF CommitReview, GotoReview
<1>1. TypeOK' /\ holder' = holder /\ result' = result
  BY <1>0 DEF DeskInv, DeskTypeOK, TypeOK, LeaseTypeOK, vars, leaseVars,
              rowVars, resultVars, localVars
<1>2. /\ m \in MessageId
      /\ view[r].draft = draft[m]
      /\ draft[m] \in Draft
      /\ review[r] \in Review
      /\ draft[m].version < MaxVersion
      /\ ReceiptOK(r)
  BY <1>0, NoDraftAssumption
     DEF NoDraftAssumption, DeskInv, PagesArePast, CommitIsChecked, Unchanged
<1>3. /\ review[r].action \in Action
      /\ review[r].edit \in BOOLEAN
      /\ next \in 2..MaxVersion
      /\ body \in 1..MaxVersion
      /\ StatusAfter(review[r].action) \in DraftStatus
      /\ StatusAfter(review[r].action) = "approved" => review[r].action = "approve"
      /\ draft[m].version \in Nat
  <2>1. review[r].action \in Action /\ review[r].edit \in BOOLEAN
    BY <1>2, ReviewAssumption DEF ReviewAssumption
  <2>2. next \in 2..MaxVersion /\ draft[m].version \in Nat
    BY <1>2, ReviewAssumption DEF ReviewAssumption, Draft
  <2>3. body \in 1..MaxVersion
    BY <1>2, <2>2, ReviewAssumption DEF ReviewAssumption, Draft
  <2>4. /\ StatusAfter(review[r].action) \in DraftStatus
        /\ StatusAfter(review[r].action) = "approved" => review[r].action = "approve"
    BY <2>1 DEF Action, StatusAfter, DraftStatus
  <2> QED BY <2>1, <2>2, <2>3, <2>4
<1>4. new \in Draft /\ e \in Event
  <2>1. next \in 1..MaxVersion
    BY <1>3
  <2>2. new \in Draft
    BY <1>3, <2>1 DEF Draft
  <2>3. e \in Event
    BY <1>2, <1>3 DEF Event
  <2> QED BY <2>2, <2>3
<1> HIDE DEF new, e
<1>5. /\ draft'[m] = new
      /\ \A k \in MessageId \ {m} : draft'[k] = draft[k]
      /\ reviewPc'[r] = "release"
      /\ \A q \in Reviewer \ {r} : reviewPc'[q] = reviewPc[q]
  BY <1>0, <1>2 DEF DeskInv, DeskTypeOK
<1>6. DeskTypeOK'
  BY <1>0, <1>1, <1>4 DEF DeskInv, DeskTypeOK
<1>7. DraftsBelong'
  BY <1>1, <1>2, <1>5 DEF DeskInv, DraftsBelong, Saved
<1>8. \A a \in event : a \in Event
  BY DEF DeskInv, DeskTypeOK
<1>9. /\ e.message = m /\ e.version = next /\ e.body = body
      /\ e.action = review[r].action /\ e.edit = review[r].edit
      /\ e.shown = draft[m]
      /\ new.version = next /\ new.body = body
      /\ new.status = StatusAfter(review[r].action)
  BY <1>2 DEF e, new
<1>10. \A a \in event : a.message = m => a.version < next
  BY <1>3, <1>8 DEF DeskInv, Trail, Event
<1> HIDE DEF next, body
<1>11. Trail'
  <2>1. \A a \in event' : /\ draft'[a.message] \in Draft
                          /\ a.version <= draft'[a.message].version
                          /\ a.shown.version = a.version - 1
    <3>1. ASSUME NEW a \in event
          PROVE  /\ draft'[a.message] \in Draft
                 /\ a.version <= draft'[a.message].version
                 /\ a.shown.version = a.version - 1
      <4>1. a.message \in MessageId /\ a.version \in Nat
        BY <1>8 DEF Event
      <4>2. CASE a.message = m
        BY <1>3, <1>4, <1>5, <1>9, <1>10, <4>1, <4>2 DEF DeskInv, Trail
      <4>3. CASE a.message # m
        BY <1>5, <4>1, <4>3 DEF DeskInv, Trail
      <4> QED BY <4>2, <4>3
    <3>2. /\ draft'[e.message] \in Draft
          /\ e.version <= draft'[e.message].version
          /\ e.shown.version = e.version - 1
      BY <1>3, <1>4, <1>5, <1>9 DEF next
    <3> QED BY <1>0, <3>1, <3>2
  <2>2. \A a, b \in event' : a.message = b.message /\ a.version = b.version => a = b
    <3>1. next \in Nat
      BY <1>3
    <3>2. \A a \in event : a.message = m => a.version # next
      BY <1>8, <1>10, <3>1 DEF Event
    <3> QED BY <1>0, <1>9, <3>2 DEF DeskInv, Trail
  <2>3. \A k \in MessageId : draft'[k] \in Draft /\ draft'[k].status = "approved" =>
          \E a \in event' : /\ a.message = k
                            /\ a.action = "approve"
                            /\ a.version = draft'[k].version
                            /\ a.body = draft'[k].body
    <3>1. CASE new.status = "approved"
      BY <1>0, <1>3, <1>5, <1>9, <3>1 DEF DeskInv, Trail
    <3>2. CASE new.status # "approved"
      BY <1>0, <1>5, <3>2 DEF DeskInv, Trail
    <3> QED BY <3>1, <3>2
  <2> QED BY <2>1, <2>2, <2>3 DEF Trail
<1>12. PagesArePast'
  <2> SUFFICES ASSUME NEW q \in Reviewer,
                      ~(view[q] = NoView /\ reviewPc'[q] = "idle")
               PROVE  LET k == view[q].message IN
                      /\ k \in MessageId
                      /\ view[q].draft \in Draft
                      /\ draft'[k] \in Draft
                      /\ view[q].draft.version <= draft'[k].version
                      /\ view[q].draft.version = draft'[k].version =>
                           view[q].draft = draft'[k]
                      /\ reviewPc'[q] # "idle" => review[q] \in Review
                      /\ reviewPc'[q] # "idle" =>
                           view[q].draft.version < MaxVersion
    BY <1>0 DEF PagesArePast
  <2> DEFINE k == view[q].message
  <2>1. /\ k \in MessageId
        /\ view[q].draft \in Draft
        /\ draft[k] \in Draft
        /\ view[q].draft.version <= draft[k].version
        /\ view[q].draft.version = draft[k].version => view[q].draft = draft[k]
        /\ reviewPc'[q] # "idle" => review[q] \in Review
        /\ reviewPc'[q] # "idle" => view[q].draft.version < MaxVersion
    BY <1>0, <1>5 DEF DeskInv, PagesArePast
  <2>2. CASE k = m
    <3>1. view[q].draft.version \in Nat
      BY <2>1 DEF Draft
    <3>2. view[q].draft.version < new.version
      BY <1>3, <1>9, <2>1, <2>2, <3>1 DEF next
    <3>3. new.version \in Nat
      BY <1>3, <1>9
    <3> QED BY <1>4, <1>5, <2>1, <2>2, <3>1, <3>2, <3>3
  <2>3. CASE k # m
    BY <1>5, <2>1, <2>3
  <2> QED BY <2>2, <2>3
<1>13. CommitIsChecked'
  <2>1. \A q \in Reviewer : reviewPc'[q] # "commit"
    BY <1>0, <1>5 DEF DeskInv, CommitIsChecked, Holds
  <2> QED BY <2>1 DEF CommitIsChecked
<1>14. SentAsApproved'
  <2>1. e.action = "record_sent" =>
          \E a \in event : /\ a.message = e.message
                           /\ a.action = "approve"
                           /\ a.version = e.version - 1
                           /\ a.body = e.body
    <3> SUFFICES ASSUME review[r].action = "record_sent"
                 PROVE  \E a \in event : /\ a.message = m
                                         /\ a.action = "approve"
                                         /\ a.version = next - 1
                                         /\ a.body = body
      BY <1>9
    <3>1. draft[m].status = "approved" /\ ~review[r].edit
      BY <1>2 DEF ReceiptOK
    <3>2. body = draft[m].body /\ next - 1 = draft[m].version
      BY <1>3, <3>1 DEF body, next
    <3> QED BY <1>2, <3>1, <3>2 DEF DeskInv, Trail
  <2> QED BY <1>0, <2>1 DEF DeskInv, SentAsApproved
<1>15. ApprovedAsShown'
  <2>1. ~e.edit => e.body = e.shown.body
    BY <1>9 DEF body
  <2> QED BY <1>0, <2>1 DEF DeskInv, ApprovedAsShown
<1> QED BY <1>6, <1>7, <1>11, <1>12, <1>13, <1>14, <1>15 DEF DeskInv

\* Every step of a message or a reviewer keeps the invariant.
LEMMA DeskNextInv == DeskInv /\ [DeskNext]_deskVars => DeskInv'
<1> SUFFICES ASSUME DeskInv, [DeskNext]_deskVars PROVE DeskInv'
  OBVIOUS
<1> USE LeaseAssumption, ReviewAssumption DEF LeaseAssumption, ReviewAssumption
<1>0. /\ LeaseTypeOK
      /\ \A q \in Reviewer : reviewPc[q] = "commit" => holder = q
      /\ \A q \in Reviewer : q \in Client
  BY DEF DeskInv, DeskTypeOK, TypeOK, CommitIsChecked, Holds
<1>1. CASE MessageStep
  BY <1>1, MessageKeeps
<1>2. ASSUME NEW r \in Reviewer, ReviewStep(r)
      PROVE  DeskInv'
  <2>1. CASE \E m \in MessageId : LoadDraft(r, m)
    BY <2>1, LoadKeeps
  <2>2. CASE \E d \in Review : PostReview(r, d)
    BY <2>2, PostKeeps
  <2>3. CASE ReviewClaimLapsed(r)
    <3>1. LeaseTypeOK' /\ \A q \in Reviewer : reviewPc[q] # "commit"
      BY <1>0, <2>3 DEF ReviewClaimLapsed, StealLease, LeaseTypeOK, LeaseRowLocked
    <3> QED BY <2>3, <3>1, QuietKeeps DEF ReviewClaimLapsed, GotoReview
  <2>4. CASE ReviewClaimNothing(r)
    <3>1. LeaseTypeOK' /\ holder' = holder
      BY <1>0, <2>4 DEF ReviewClaimNothing, LeaseTypeOK, vars, leaseVars
    <3> QED BY <1>0, <2>4, <3>1, QuietKeeps
        DEF ReviewClaimNothing, GotoReview, vars
  <2>5. CASE ReviewClaimFresh(r)
    <3>1. LeaseTypeOK' /\ \A q \in Reviewer : reviewPc[q] # "commit"
      BY <1>0, <2>5 DEF ReviewClaimFresh, InsertLease, LeaseTypeOK
    <3> QED BY <2>5, <3>1, QuietKeeps DEF ReviewClaimFresh, GotoReview
  <2>6. CASE ReviewRefuseBusy(r)
    <3>1. LeaseTypeOK' /\ holder' = holder
      BY <1>0, <2>6 DEF ReviewRefuseBusy, LeaseTypeOK, vars, leaseVars
    <3> QED BY <1>0, <2>6, <3>1, QuietKeeps
        DEF ReviewRefuseBusy, EndReview, GotoReview, vars
  <2>7. CASE CheckReview(r)
    BY <2>7, CheckKeeps
  <2>8. CASE RefuseReview(r)
    <3>1. LeaseTypeOK' /\ holder' = holder
      BY <1>0, <2>8 DEF RefuseReview, LeaseTypeOK, vars, leaseVars
    <3> QED BY <1>0, <2>8, <3>1, QuietKeeps DEF RefuseReview, GotoReview, vars
  <2>9. CASE CommitReview(r)
    BY <2>9, CommitKeeps
  <2>10. CASE ReviewRelease(r)
    <3>1. /\ LeaseTypeOK'
          /\ \A q \in Reviewer \ {r} : reviewPc[q] = "commit" => holder' = q
      BY <1>0, <2>10 DEF ReviewRelease, ReleaseLease, Holds, LeaseTypeOK, leaseVars
    <3> QED BY <2>10, <3>1, QuietKeeps DEF ReviewRelease, EndReview, GotoReview
  <2>11. CASE ReviewCrash(r)
    <3>1. /\ LeaseTypeOK'
          /\ \A q \in Reviewer \ {r} : reviewPc[q] = "commit" => holder' = q
      BY <1>0, <2>11 DEF ReviewCrash, AbandonLease, Holds, LeaseTypeOK
    <3> QED BY <2>11, <3>1, QuietKeeps DEF ReviewCrash, EndReview, GotoReview
  <2> QED BY <1>2, <2>1, <2>2, <2>3, <2>4, <2>5, <2>6, <2>7, <2>8, <2>9, <2>10,
             <2>11 DEF ReviewStep
<1>3. CASE UNCHANGED deskVars
  <2>1. UNCHANGED <<vars, draft, event, reviewPc, view, review>>
    BY <1>3 DEF deskVars, draftVars, reviewerVars
  <2>2. TypeOK' /\ holder' = holder /\ result' = result
    BY <2>1 DEF DeskInv, DeskTypeOK, TypeOK, LeaseTypeOK, vars, leaseVars,
                rowVars, resultVars, localVars
  <2> QED BY <2>1, <2>2
      DEF DeskInv, DeskTypeOK, DraftsBelong, Trail, PagesArePast,
          CommitIsChecked, SentAsApproved, ApprovedAsShown, Saved, Holds,
          Unchanged, ReceiptOK
<1> QED BY <1>1, <1>2, <1>3 DEF DeskNext

\* The strengthened invariant holds always.
LEMMA DeskInvariant == DeskSpec => []DeskInv
<1> QED BY DeskInitInv, DeskNextInv, PTL DEF DeskSpec

-----------------------------------------------------------------------------
\* Drafts, events and requests keep their types, also next to messages.
THEOREM DeskTypeCorrect == DeskSpec => []DeskTypeOK
<1>1. DeskInv => DeskTypeOK
  BY DEF DeskInv
<1> QED BY <1>1, DeskInvariant, PTL

\* What is recorded as sent is what the event just before it approved,
\* whatever lease ran out between the check and the commit.
THEOREM DraftsSentAsApproved == DeskSpec => []SentAsApproved
<1>1. DeskInv => SentAsApproved
  BY DEF DeskInv
<1> QED BY <1>1, DeskInvariant, PTL

\* Who approves without editing approves the words on the page.
THEOREM ApprovalsAreOfWordsShown == DeskSpec => []ApprovedAsShown
<1>1. DeskInv => ApprovedAsShown
  BY DEF DeskInv
<1> QED BY <1>1, DeskInvariant, PTL

\* Of two reviewers acting on the same version one is refused.
THEOREM VersionsDecidedOnce == DeskSpec => []OneDecisionPerVersion
<1>1. DeskInv => OneDecisionPerVersion
  <2> SUFFICES ASSUME DeskInv, NEW a \in event, NEW b \in event,
                      a.message = b.message, a.shown.version = b.shown.version
               PROVE  a = b
    BY DEF OneDecisionPerVersion
  <2>1. a.version \in Nat /\ b.version \in Nat
    BY DEF DeskInv, DeskTypeOK, Event
  <2>2. a.version - 1 = b.version - 1
    BY DEF DeskInv, Trail
  <2>3. a.version = b.version
    BY <2>1, <2>2
  <2> QED BY <2>3 DEF DeskInv, Trail
<1> QED BY <1>1, DeskInvariant, PTL

-----------------------------------------------------------------------------
\* The rest is about leases that outlast the work done under them.

\* Messages have turns of their own, and a request that is past the lookup of
\* its message carries the stored text.
TurnsDistinct ==
  \A m, n \in MessageId : Stored(m) /\ Stored(n) /\ turn[m] = turn[n] => m = n
TextIsStored ==
  \A w \in Worker : pc[w] \in {"recover", "process"} =>
    /\ Stored(request[w].id)
    /\ text[request[w].id] = request[w].text
\* A message asking to stop has a blanked draft, or none yet.
StopIsBlanked ==
  \A m \in MessageId :
    draft[m] \in Draft /\ text[m] \in Suppressing => draft[m].status = "suppressed"
\* No message came between the check of a review and its commit.
CommitIsOfNewest ==
  \A r \in Reviewer : reviewPc[r] = "commit" =>
    LET m == view[r].message IN Stored(m) /\ NewestTurn(m) /\ Reviewable(m)

StopInv ==
  /\ DeskInv
  /\ TInv
  /\ TurnsDistinct
  /\ TextIsStored
  /\ StopIsBlanked
  /\ CommitIsOfNewest

LEMMA StopInit == DeskInit => StopInv
<1> SUFFICES ASSUME DeskInit PROVE StopInv
  OBVIOUS
<1>1. DeskInv /\ TInv
  BY DeskInitInv, InitTInv DEF DeskInit
<1>2. /\ \A m \in MessageId : ~Stored(m) /\ draft[m] \notin Draft
      /\ \A w \in Worker : pc[w] = "idle"
      /\ \A r \in Reviewer : reviewPc[r] = "idle"
  BY NoDraftAssumption DEF NoDraftAssumption, DeskInit, Init, Stored
<1> QED BY <1>1, <1>2
    DEF StopInv, TurnsDistinct, TextIsStored, StopIsBlanked, CommitIsOfNewest

\* Numbers and texts of messages, whatever the handlers do.
LEMMA NumbersKept ==
  ASSUME TInv, TurnsDistinct, TextIsStored, [Next]_vars
  PROVE  TurnsDistinct' /\ TextIsStored'
<1> USE TurnsAssumption DEF TurnsAssumption
<1>1. /\ pc \in [Worker -> Place] /\ request \in [Worker -> Request]
      /\ status \in [MessageId -> Status] /\ turn \in [MessageId -> Nat]
      /\ text \in [MessageId -> Text \cup {None}] /\ turnNumber \in Nat
      /\ \A w \in Worker : pc[w] # "idle" => request[w].id \in MessageId
      /\ RowsConsistent /\ TurnsBounded
  BY DEF TInv, IInv, TypeOK
<1>2. CASE UNCHANGED vars
  BY <1>2 DEF vars, rowVars, localVars, TurnsDistinct, TextIsStored, Stored
<1>3. CASE Expire
  BY <1>3 DEF Expire, rowVars, localVars, TurnsDistinct, TextIsStored, Stored
<1>4. ASSUME NEW w \in Worker,
             UNCHANGED <<status, turn, text>>,
             \A v \in Worker \ {w} : pc'[v] = pc[v] /\ request'[v] = request[v],
             \/ pc'[w] \notin {"recover", "process"}
             \/ /\ request'[w] = request[w] /\ Stored(request[w].id)
                /\ text[request[w].id] = request[w].text
      PROVE  TurnsDistinct' /\ TextIsStored'
  BY <1>4 DEF TurnsDistinct, TextIsStored, Stored
<1>5. ASSUME NEW w \in Worker, MarkProcessing(w) \/ SaveTurn(w) \/ MarkFailed(w)
      PROVE  TurnsDistinct' /\ TextIsStored'
  <2>1. pc[w] \in {"recover", "process", "failing"} /\ Stored(request[w].id)
    BY <1>1, <1>5 DEF MarkProcessing, SaveTurn, MarkFailed, RowsConsistent
  <2>2. /\ UNCHANGED <<turn, text, request>>
        /\ \A m \in MessageId : Stored(m)' = Stored(m)
    BY <1>1, <1>5, <2>1 DEF MarkProcessing, SaveTurn, MarkFailed, Stored
  <2>3. /\ \A v \in Worker \ {w} : pc'[v] = pc[v]
        /\ pc'[w] \in {"recover", "process"} => pc[w] = "recover"
    BY <1>1, <1>5 DEF MarkProcessing, SaveTurn, MarkFailed, Goto
  <2>4. TurnsDistinct'
    BY <2>2 DEF TurnsDistinct
  <2>5. TextIsStored'
    BY <1>1, <2>2, <2>3 DEF TextIsStored
  <2> QED BY <2>4, <2>5
<1>6. ASSUME NEW w \in Worker, InsertMessage(w)
      PROVE  TurnsDistinct' /\ TextIsStored'
  <2> DEFINE m == request[w].id
  <2>1. /\ m \in MessageId /\ ~Stored(m)
        /\ status' = [status EXCEPT ![m] = "processing"]
        /\ text' = [text EXCEPT ![m] = request[w].text]
        /\ turn' = [turn EXCEPT ![m] = turnNumber + 1]
        /\ pc' = [pc EXCEPT ![w] = "process"] /\ request' = request
    BY <1>1, <1>6 DEF InsertMessage, Goto
  <2>2. /\ turn'[m] = turnNumber + 1 /\ text'[m] = request[w].text
        /\ status'[m] = "processing"
        /\ \A n \in MessageId \ {m} : /\ turn'[n] = turn[n] /\ text'[n] = text[n]
                                      /\ status'[n] = status[n]
    BY <1>1, <2>1
  <2>3. \A n \in MessageId \ {m} : turn'[n] # turnNumber + 1
    BY <1>1, <2>2 DEF TurnsBounded
  <2>4. TurnsDistinct'
    <3> SUFFICES ASSUME NEW n \in MessageId, NEW k \in MessageId,
                        Stored(n)', Stored(k)', turn'[n] = turn'[k]
                 PROVE  n = k
      BY DEF TurnsDistinct
    <3>1. CASE n = m \/ k = m
      BY <2>2, <2>3, <3>1
    <3>2. CASE n # m /\ k # m
      BY <2>2, <3>2 DEF TurnsDistinct, Stored
    <3> QED BY <3>1, <3>2
  <2>5. TextIsStored'
    <3> SUFFICES ASSUME NEW v \in Worker, pc'[v] \in {"recover", "process"}
                 PROVE  /\ status'[request[v].id] # "absent"
                        /\ text'[request[v].id] = request[v].text
      BY <2>1 DEF TextIsStored, Stored
    <3>1. CASE v = w
      BY <2>2, <3>1
    <3>2. CASE v # w
      <4>1. pc[v] \in {"recover", "process"}
        BY <1>1, <2>1, <3>2
      <4>2. Stored(request[v].id) /\ text[request[v].id] = request[v].text
        BY <4>1 DEF TextIsStored
      <4>3. request[v].id \in MessageId \ {m}
        BY <1>1, <2>1, <4>1, <4>2
      <4> QED BY <2>2, <4>2, <4>3 DEF Stored
    <3> QED BY <3>1, <3>2
  <2> QED BY <2>4, <2>5
<1>7. ASSUME NEW w \in Worker, NEW m \in MessageId, NEW t \in Text, Submit(w, m, t)
      PROVE  TurnsDistinct' /\ TextIsStored'
  <2>1. /\ UNCHANGED <<status, turn, text>>
        /\ \A v \in Worker \ {w} : pc'[v] = pc[v] /\ request'[v] = request[v]
        /\ pc'[w] = "claim"
    BY <1>1, <1>7 DEF Submit, Goto
  <2> QED BY <1>4, <2>1
<1>8. ASSUME NEW w \in Worker,
             \/ Claim(w) \/ Prepare(w) \/ RefuseOutOfTurn(w) \/ SelectNothing(w)
             \/ InsertCollides(w) \/ SaveRefused(w) \/ Release(w)
             \/ TurnRaises(w) \/ StoreRaises(w) \/ Crash(w)
      PROVE  TurnsDistinct' /\ TextIsStored'
  <2>1. /\ UNCHANGED <<status, turn, text>>
        /\ \A v \in Worker \ {w} : pc'[v] = pc[v] /\ request'[v] = request[v]
        /\ pc'[w] \notin {"recover", "process"}
    BY <1>1, <1>8 DEF Claim, ClaimLapsed, ClaimNothing, ClaimFresh, RefuseBusy, Prepare,
       AnswerFromStore, FindNoResult, ReadContext, RefuseOutOfTurn, SelectNothing,
       InsertCollides, SaveRefused, Release, TurnRaises, StoreRaises, Crash, Goto,
       Forget, rowVars
  <2> QED BY <1>4, <2>1
<1>9. ASSUME NEW w \in Worker, SelectRecoverable(w)
      PROVE  TurnsDistinct' /\ TextIsStored'
  <2>1. /\ UNCHANGED <<status, turn, text, request>>
        /\ \A v \in Worker \ {w} : pc'[v] = pc[v]
        /\ text[request[w].id] = request[w].text
    BY <1>1, <1>9 DEF SelectRecoverable, Goto, rowVars
  <2>2. Stored(request[w].id)
    <3>1. PICK n \in Unfinished : Unfinished = {n}
      BY <1>9 DEF SelectRecoverable, TInv, OneUnfinished
    <3>2. turn[n] <= turn[n]
      BY <1>1, <3>1 DEF Unfinished
    <3>3. FirstUnfinished \in Unfinished
      BY <3>1, <3>2 DEF FirstUnfinished
    <3> QED BY <1>9, <3>3 DEF SelectRecoverable, Unfinished, Stored
  <2> QED BY <1>4, <2>1, <2>2
<1> QED BY <1>2, <1>3, <1>5, <1>6, <1>7, <1>8, <1>9 DEF Next, Serve, Append, Finish

\* A reviewer does nothing to the tables of the messages, and to the lease what
\* anybody may do.
LEMMA ReviewIsOutside ==
  ASSUME NEW r \in Reviewer, ReviewStep(r)
  PROVE  /\ UNCHANGED <<rowVars, resultVars, localVars>>
         /\ \/ StealLease(r) \/ InsertLease(r) \/ ReleaseLease(r) \/ AbandonLease(r)
            \/ UNCHANGED leaseVars
BY DEF ReviewStep, LoadDraft, PostReview, ReviewClaimLapsed, ReviewClaimNothing,
   ReviewClaimFresh, ReviewRefuseBusy, CheckReview, RefuseReview, CommitReview,
   ReviewRelease, ReviewCrash, vars

\* With leases that outlast the work, every step of the desk keeps the turns'
\* invariant too.
LEMMA DeskKeepsTurns ==
  ASSUME Timely, TInv, TurnsDistinct, TextIsStored, [DeskNext]_deskVars
  PROVE  TInv' /\ TurnsDistinct' /\ TextIsStored'
<1>1. CASE MessageStep
  BY <1>1, NextTInv, NumbersKept DEF MessageStep
<1>2. ASSUME NEW r \in Reviewer, ReviewStep(r)
      PROVE  TInv' /\ TurnsDistinct' /\ TextIsStored'
  <2>1. r \in Client \ Worker
    BY ReviewAssumption DEF ReviewAssumption
  <2>2. TInv' /\ UNCHANGED <<rowVars, localVars>>
    BY <1>2, <2>1, ReviewIsOutside, OthersKeepTurns
  <2> QED BY <2>2 DEF TurnsDistinct, TextIsStored, Stored, rowVars, localVars
<1>3. CASE UNCHANGED deskVars
  <2>1. [Next]_vars
    BY <1>3 DEF deskVars
  <2> QED BY <2>1, NextTInv, NumbersKept
<1> QED BY <1>1, <1>2, <1>3 DEF DeskNext

\* The draft of a message asking to stop is blanked when it is made, and nobody
\* reviews a blanked draft.
LEMMA BlankedKept ==
  ASSUME StopInv, [DeskNext]_deskVars
  PROVE  StopIsBlanked'
<1>1. /\ DeskInv /\ TInv /\ StopIsBlanked /\ CommitIsOfNewest
      /\ text \in [MessageId -> Text \cup {None}]
      /\ result \in [MessageId -> Result \cup {None}]
  BY DEF StopInv, TInv, IInv, TypeOK
<1>2. CASE MessageStep
  <2> SUFFICES ASSUME NEW m \in MessageId, draft'[m] \in Draft, text'[m] \in Suppressing
               PROVE  draft'[m].status = "suppressed"
    BY DEF StopIsBlanked
  <2>1. draft'[m] = IF m \in Saved' \ Saved THEN NewDraft(result'[m].state) ELSE draft[m]
    BY <1>2 DEF MessageStep
  <2>2. Stored(m) => text'[m] = text[m]
    <3>1. text' = text \/ \E w \in Worker : InsertMessage(w)
      BY <1>2 DEF MessageStep, Next, vars, rowVars, Serve, Claim, Prepare, Append, Finish,
         Submit, ClaimLapsed, ClaimNothing, ClaimFresh, RefuseBusy, AnswerFromStore,
         FindNoResult, ReadContext, RefuseOutOfTurn, SelectRecoverable, SelectNothing,
         MarkProcessing, InsertCollides, SaveTurn, SaveRefused, TurnRaises, MarkFailed,
         StoreRaises, Release, Crash, Expire
    <3>2. ASSUME NEW w \in Worker, InsertMessage(w), Stored(m) PROVE text'[m] = text[m]
      BY <1>1, <3>2 DEF InsertMessage
    <3> QED BY <3>1, <3>2
  <2>3. CASE m \notin Saved' \ Saved
    <3>1. draft[m] \in Draft /\ draft'[m] = draft[m]
      BY <2>1, <2>3
    <3>2. m \in Saved
      BY <1>1, <3>1 DEF DeskInv, DraftsBelong
    <3>3. Stored(m)
      BY <1>1, <3>2 DEF TInv, IInv, RowsConsistent, Saved
    <3> QED BY <1>1, <2>2, <3>1, <3>3 DEF StopIsBlanked
  <2>4. CASE m \in Saved' \ Saved
    <3>1. result' # result
      BY <2>4 DEF Saved
    <3>2. PICK w \in Worker : SaveTurn(w)
      BY <1>2, <3>1 DEF MessageStep, Next, vars, resultVars, Serve, Claim, Prepare, Append,
         Finish, Submit, ClaimLapsed, ClaimNothing, ClaimFresh, RefuseBusy,
         AnswerFromStore, FindNoResult, ReadContext, RefuseOutOfTurn, SelectRecoverable,
         SelectNothing, MarkProcessing, InsertMessage, InsertCollides, SaveRefused,
         TurnRaises, MarkFailed, StoreRaises, Release, Crash, Expire
    <3>3. PICK s \in DecidedStates(w) :
            result' = [result EXCEPT ![request[w].id] =
                         [turn |-> turn[request[w].id], state |-> s,
                          previous |-> context[w].previous]]
      BY <3>2 DEF SaveTurn
    <3>4. m = request[w].id
      BY <1>1, <2>4, <3>3 DEF Saved
    <3>5. text[m] = request[w].text /\ text' = text
      BY <3>2, <3>4 DEF StopInv, TextIsStored, SaveTurn
    <3>6. s = Suppressed
      BY <3>3, <3>5 DEF DecidedStates
    <3>7. result'[m].state = Suppressed
      BY <1>1, <3>3, <3>4, <3>6
    <3> QED BY <2>1, <2>4, <3>7 DEF NewDraft
  <2> QED BY <2>3, <2>4
<1>3. ASSUME NEW r \in Reviewer, CommitReview(r) PROVE StopIsBlanked'
  <2>1. /\ draft' = [draft EXCEPT ![view[r].message] = draft'[view[r].message]]
        /\ text' = text /\ draft[view[r].message].status # "suppressed"
        /\ draft \in [MessageId -> Draft \cup {None}]
    BY <1>1, <1>3 DEF CommitReview, CommitIsOfNewest, Reviewable, DeskInv, DeskTypeOK,
       vars, rowVars
  <2>2. view[r].message \in MessageId /\ draft[view[r].message] \in Draft
    BY <1>1, <1>3, NoDraftAssumption
       DEF NoDraftAssumption, CommitReview, DeskInv, PagesArePast
  <2>3. text[view[r].message] \notin Suppressing
    BY <1>1, <2>1, <2>2 DEF StopIsBlanked
  <2> QED BY <1>1, <2>1, <2>3 DEF StopIsBlanked
<1>4. ASSUME UNCHANGED <<draft, text>> PROVE StopIsBlanked'
  BY <1>1, <1>4 DEF StopIsBlanked
<1>5. ASSUME NEW r \in Reviewer, ReviewStep(r), ~CommitReview(r) PROVE UNCHANGED <<draft, text>>
  BY <1>5 DEF ReviewStep, LoadDraft, PostReview, ReviewClaimLapsed, ReviewClaimNothing,
     ReviewClaimFresh, ReviewRefuseBusy, CheckReview, RefuseReview, ReviewRelease,
     ReviewCrash, vars, rowVars, draftVars
<1>6. CASE UNCHANGED deskVars
  BY <1>4, <1>6 DEF deskVars, draftVars, vars, rowVars
<1> QED BY <1>2, <1>3, <1>4, <1>5, <1>6 DEF DeskNext

\* Nobody serves a message while a review's transaction is open.
LEMMA NewestKept ==
  ASSUME StopInv, [DeskNext]_deskVars
  PROVE  CommitIsOfNewest'
<1>1. /\ DeskInv /\ TInv /\ CommitIsOfNewest
      /\ reviewPc \in [Reviewer -> {"idle", "claim", "insert_lease", "check",
                                    "commit", "release"}]
  BY DEF StopInv, DeskInv, DeskTypeOK
<1>2. ASSUME NEW r \in Reviewer, reviewPc[r] = "commit"
      PROVE  /\ view[r].message \in MessageId /\ draft[view[r].message] \in Draft
             /\ \A w \in Worker : pc[w] \notin Inside
             /\ \A q \in Reviewer : reviewPc[q] = "commit" => q = r
  <2>1. view[r].message \in MessageId /\ draft[view[r].message] \in Draft
    BY <1>1, <1>2, NoDraftAssumption DEF NoDraftAssumption, DeskInv, PagesArePast
  <2>2. holder = r /\ r \notin Worker
    BY <1>1, <1>2, ReviewAssumption DEF ReviewAssumption, DeskInv, CommitIsChecked, Holds
  <2> QED BY <1>1, <2>1, <2>2
      DEF TInv, LeaseCoversWork, DeskInv, CommitIsChecked, Holds
<1>3. ASSUME NEW r \in Reviewer, reviewPc[r] = "commit",
             UNCHANGED <<turnNumber, turn, status, view>>,
             draft'[view[r].message] = draft[view[r].message]
      PROVE  (LET m == view[r].message IN Stored(m) /\ NewestTurn(m) /\ Reviewable(m))'
  BY <1>1, <1>3 DEF CommitIsOfNewest, Stored, NewestTurn, Reviewable
<1>4. CASE MessageStep
  <2> SUFFICES ASSUME NEW r \in Reviewer, reviewPc'[r] = "commit"
               PROVE  (LET m == view[r].message IN
                       Stored(m) /\ NewestTurn(m) /\ Reviewable(m))'
    BY DEF CommitIsOfNewest
  <2>1. [Next]_vars /\ reviewPc[r] = "commit" /\ view' = view
    BY <1>4 DEF MessageStep, reviewerVars
  <2>2. UNCHANGED <<turnNumber, turn, status>>
    BY <1>2, <2>1, TablesRest
  <2>3. draft'[view[r].message] = draft[view[r].message]
    BY <1>1, <1>2, <1>4, <2>1, DraftsStay
  <2> QED BY <1>3, <2>1, <2>2, <2>3
<1>5. ASSUME NEW r \in Reviewer, ReviewStep(r) PROVE CommitIsOfNewest'
  <2>1. UNCHANGED <<turnNumber, turn, status>>
    BY <1>5, ReviewIsOutside DEF rowVars
  <2>2. CASE CheckReview(r)
    <3>1. /\ reviewPc' = [reviewPc EXCEPT ![r] = "commit"] /\ reviewPc[r] = "check"
          /\ UNCHANGED <<draft, view>>
          /\ NewestTurn(view[r].message) /\ Reviewable(view[r].message)
      BY <2>2 DEF CheckReview, GotoReview, ReviewAllowed, draftVars
    <3>2. view[r].message \in MessageId /\ draft[view[r].message] \in Draft
      BY <1>1, <3>1 DEF DeskInv, PagesArePast
    <3>3. Stored(view[r].message)
      BY <1>1, <3>2 DEF DeskInv, DraftsBelong, TInv, IInv, RowsConsistent, Saved
    <3> SUFFICES ASSUME NEW q \in Reviewer, reviewPc'[q] = "commit"
                 PROVE  (LET m == view[q].message IN
                         Stored(m) /\ NewestTurn(m) /\ Reviewable(m))'
      BY DEF CommitIsOfNewest
    <3>4. CASE q = r
      BY <2>1, <3>1, <3>3, <3>4 DEF Stored, NewestTurn, Reviewable
    <3>5. CASE q # r
      BY <1>1, <1>3, <2>1, <3>1, <3>5
    <3> QED BY <3>4, <3>5
  <2>3. CASE CommitReview(r)
    <3>1. \A q \in Reviewer : reviewPc'[q] # "commit"
      BY <1>1, <1>2, <2>3 DEF CommitReview, GotoReview
    <3> QED BY <3>1 DEF CommitIsOfNewest
  <2>4. CASE ~CheckReview(r) /\ ~CommitReview(r)
    <3>1. draft' = draft
      BY <1>5, <2>4 DEF ReviewStep, LoadDraft, PostReview, ReviewClaimLapsed,
         ReviewClaimNothing, ReviewClaimFresh, ReviewRefuseBusy, RefuseReview,
         ReviewRelease, ReviewCrash, draftVars
    <3>2. \A q \in Reviewer : reviewPc'[q] = "commit" =>
            reviewPc[q] = "commit" /\ view'[q] = view[q]
      <4>1. DeskTypeOK
        BY <1>1 DEF DeskInv
      <4> QED BY <1>1, <1>5, <2>4, <4>1 DEF DeskTypeOK, ReviewStep, LoadDraft, PostReview, ReviewClaimLapsed,
         ReviewClaimNothing, ReviewClaimFresh, ReviewRefuseBusy, RefuseReview,
         ReviewRelease, ReviewCrash, GotoReview, EndReview
    <3> QED BY <1>1, <2>1, <3>1, <3>2 DEF CommitIsOfNewest, Stored, NewestTurn, Reviewable
  <2> QED BY <2>2, <2>3, <2>4
<1>6. CASE UNCHANGED deskVars
  BY <1>1, <1>6 DEF deskVars, draftVars, reviewerVars, vars, rowVars, CommitIsOfNewest,
     Stored, NewestTurn, Reviewable
<1> QED BY <1>4, <1>5, <1>6 DEF DeskNext

LEMMA StopInvariant == Timely => (DeskSpec => []StopInv)
<1> SUFFICES ASSUME Timely PROVE DeskSpec => []StopInv
  OBVIOUS
<1>1. StopInv /\ [DeskNext]_deskVars => StopInv'
  <2> SUFFICES ASSUME StopInv, [DeskNext]_deskVars PROVE StopInv'
    OBVIOUS
  <2>1. DeskInv' /\ TInv' /\ TurnsDistinct' /\ TextIsStored'
    BY DeskNextInv, DeskKeepsTurns DEF StopInv
  <2> QED BY <2>1, BlankedKept, NewestKept DEF StopInv
<1> QED BY <1>1, StopInit, PTL DEF DeskSpec

\* From the moment a message asking to stop is stored, nothing of its turn or an
\* earlier one is approved or sent.
THEOREM StopsAreHeard == Timely => (DeskSpec => StopIsHeard)
<1> SUFFICES ASSUME Timely PROVE DeskSpec => StopIsHeard
  OBVIOUS
<1> DEFINE Heard ==
      \A e \in event' \ event : e.action \in {"approve", "record_sent"} =>
        \A k \in MessageId :
          Stored(k) /\ text[k] \in Suppressing => turn[k] < turn[e.message]
<1>1. StopInv /\ [DeskNext]_deskVars => [Heard]_event
  <2> SUFFICES ASSUME StopInv, [DeskNext]_deskVars, NEW e \in event' \ event,
                      NEW k \in MessageId, Stored(k), text[k] \in Suppressing
               PROVE  turn[k] < turn[e.message]
    OBVIOUS
  <2>1. PICK r \in Reviewer : CommitReview(r)
    BY DEF DeskNext, MessageStep, ReviewStep, LoadDraft, PostReview, ReviewClaimLapsed,
       ReviewClaimNothing, ReviewClaimFresh, ReviewRefuseBusy, CheckReview,
       RefuseReview, ReviewRelease, ReviewCrash, deskVars, draftVars, reviewerVars
  <2>2. PICK m : m = view[r].message
    OBVIOUS
  <2>3. /\ Stored(m) /\ turn[m] = turnNumber /\ draft[m].status # "suppressed"
        /\ m \in MessageId /\ draft[m] \in Draft
    BY <2>1, <2>2, NoDraftAssumption
       DEF NoDraftAssumption, StopInv, CommitReview, CommitIsOfNewest, NewestTurn,
           Reviewable, DeskInv, PagesArePast
  <2>4. k # m
    BY <2>3 DEF StopInv, StopIsBlanked
  <2>5. turn[k] # turn[m]
    BY <2>3, <2>4 DEF StopInv, TurnsDistinct
  <2>6. turn[k] <= turnNumber /\ turn[k] \in Nat /\ turnNumber \in Nat
    BY DEF StopInv, TInv, IInv, TypeOK, TurnsBounded
  <2>7. e.message = m
    BY <2>1, <2>2 DEF CommitReview
  <2> QED BY <2>3, <2>5, <2>6, <2>7
<1>2. StopIsHeard <=> [][Heard]_event
  BY DEF StopIsHeard
<1> QED BY <1>1, <1>2, StopInvariant, PTL DEF DeskSpec
==============================================================================
