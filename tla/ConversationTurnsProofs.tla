----------------------- MODULE ConversationTurnsProofs -----------------------
(***************************************************************************)
(* Theorems about ConversationTurns for any number of workers, messages    *)
(* and texts, with leases that may run out under a live worker (Timely is  *)
(* not assumed unless a theorem says so).                                  *)
(***************************************************************************)
EXTENDS ConversationProperties, TLAPS

\* What a worker forgets to and starts from is well typed.
LEMMA EmptyLocals ==
  /\ NoRequest \in Request
  /\ NoContext \in Context
  /\ "absent" \in State
  /\ "new" \in State
BY DEF NoRequest, Request, NoContext, Context, State

\* The empty tables and idle workers are well typed.
LEMMA TypeInit == Init => TypeOK
<1> SUFFICES ASSUME Init PROVE TypeOK
  OBVIOUS
<1>1. LeaseTypeOK
  BY DEF Init, LeaseInit, LeaseTypeOK
<1>2. /\ status \in [MessageId -> Status]
      /\ pc \in [Worker -> Place]
      /\ \A w \in Worker : pc[w] = "idle"
  BY DEF Init, Status, Place
<1> QED BY EmptyLocals, <1>1, <1>2 DEF Init, TypeOK

\* Every step of a request, a crash and an expiry keeps the types.
LEMMA TypeNext == TypeOK /\ [Next]_vars => TypeOK'
<1> SUFFICES ASSUME TypeOK, [Next]_vars PROVE TypeOK'
  OBVIOUS
<1> USE LeaseAssumption, TurnsAssumption, NoneAssumption
    DEF LeaseAssumption, TurnsAssumption, NoneAssumption
<1> USE DEF TypeOK, LeaseTypeOK, Goto, Place, Inside, Status, leaseVars,
            rowVars, resultVars, localVars
<1>1. ASSUME NEW w \in Worker, NEW m \in MessageId, NEW t \in Text,
             Submit(w, m, t)
      PROVE  TypeOK'
  <2>1. [id |-> m, text |-> t] \in Request
    BY DEF Request
  <2> QED BY EmptyLocals, <1>1, <2>1 DEF Submit
<1>2. ASSUME NEW w \in Worker, Claim(w)
      PROVE  TypeOK'
  <2>1. CASE ClaimLapsed(w)
    BY <2>1 DEF ClaimLapsed, StealLease
  <2>2. CASE ClaimNothing(w)
    BY <2>2 DEF ClaimNothing
  <2>3. CASE ClaimFresh(w)
    BY <2>3 DEF ClaimFresh, InsertLease
  <2>4. CASE RefuseBusy(w)
    BY EmptyLocals, <2>4 DEF RefuseBusy, Forget
  <2> QED BY <1>2, <2>1, <2>2, <2>3, <2>4 DEF Claim
<1>3. ASSUME NEW w \in Worker, Prepare(w)
      PROVE  TypeOK'
  <2>1. CASE ReadContext(w)
    <3>1. [previous |-> latest, facts |-> facts] \in Context
      BY DEF Context
    <3> QED BY <2>1, <3>1 DEF ReadContext
  <2> QED BY <1>3, <2>1 DEF Prepare, AnswerFromStore, FindNoResult
<1>4. ASSUME NEW w \in Worker, Append(w)
      PROVE  TypeOK'
  <2>1. CASE MarkProcessing(w)
    BY <2>1 DEF MarkProcessing
  <2>2. CASE InsertMessage(w)
    <3>1. request[w].text \in Text \cup {None}
      BY DEF Request
    <3> QED BY <2>2, <3>1 DEF InsertMessage
  <2> QED
    BY <1>4, <2>1, <2>2 DEF Append, RefuseOutOfTurn, SelectRecoverable,
       SelectNothing, InsertCollides
<1>5. ASSUME NEW w \in Worker, Finish(w)
      PROVE  TypeOK'
  <2>1. CASE SaveTurn(w)
    <3> DEFINE m == request[w].id
    <3>1. /\ m \in MessageId \cup {None}
          /\ context[w].previous \in MessageId \cup {None}
          /\ context[w].facts \subseteq MessageId
      BY DEF Request, Context
    <3>2. PICK s \in DecidedStates(w) :
            /\ state' = s
            /\ result' = [result EXCEPT ![m] =
                            [turn |-> turn[m], state |-> s,
                             previous |-> context[w].previous]]
      BY <2>1 DEF SaveTurn
    <3>3. s \in State
      BY <3>2 DEF DecidedStates, State
    <3> QED BY <2>1, <3>1, <3>2, <3>3 DEF SaveTurn, Result
  <2>2. CASE SaveRefused(w)
    BY <2>2 DEF SaveRefused
  <2>3. CASE MarkFailed(w)
    BY <2>3 DEF MarkFailed
  <2>4. CASE Release(w)
    BY EmptyLocals, <2>4 DEF Release, ReleaseLease, Forget
  <2> QED BY <1>5, <2>1, <2>2, <2>3, <2>4 DEF Finish
<1>6. ASSUME NEW w \in Worker, TurnRaises(w) \/ StoreRaises(w)
      PROVE  TypeOK'
  BY <1>6 DEF TurnRaises, StoreRaises
<1>7. ASSUME NEW w \in Worker, Crash(w)
      PROVE  TypeOK'
  BY EmptyLocals, <1>7 DEF Crash, AbandonLease, Holds, Forget
<1>8. CASE Expire
  BY <1>8 DEF Expire, LeaseRunsOut
<1>9. CASE UNCHANGED vars
  BY <1>9 DEF vars
<1> QED
  BY <1>1, <1>2, <1>3, <1>4, <1>5, <1>6, <1>7, <1>8, <1>9 DEF Next, Serve

\* Every variable keeps its type: the rows, the lease and the request locals.
THEOREM TypeCorrect == Spec => []TypeOK
<1> QED BY TypeInit, TypeNext, PTL DEF Spec

-----------------------------------------------------------------------------
\* The empty database satisfies the inductive invariant.
LEMMA InitIInv == Init => IInv
<1> SUFFICES ASSUME Init PROVE IInv
  OBVIOUS
<1>1. TypeOK
  BY TypeInit
<1> QED
  BY <1>1 DEF Init, IInv, FactsKeepEveryTurn, SingleHistory, CompletedNeverFailed,
     ContextIsCurrent, HistoryIsOpen, RowsConsistent, Saved, Stored, AfterRead,
     AfterLookup

\* Every step keeps the inductive invariant.  The steps that write rows are
\* MarkProcessing, InsertMessage, SaveTurn and MarkFailed; of these only
\* SaveTurn and MarkFailed are fenced, and only they need to be.
LEMMA NextIInv == IInv /\ [Next]_vars => IInv'
<1> SUFFICES ASSUME IInv, [Next]_vars PROVE IInv'
  OBVIOUS
<1> USE LeaseAssumption, TurnsAssumption, NoneAssumption
    DEF LeaseAssumption, TurnsAssumption, NoneAssumption
<1>0. TypeOK /\ TypeOK'
  BY TypeNext DEF IInv
<1> USE DEF IInv, FactsKeepEveryTurn, SingleHistory, CompletedNeverFailed,
            ContextIsCurrent, HistoryIsOpen, RowsConsistent, Saved, Stored,
            AfterRead, AfterLookup, Holds, Goto
<1>1. ASSUME NEW w \in Worker, NEW m \in MessageId, NEW t \in Text,
             Submit(w, m, t)
      PROVE  IInv'
  BY <1>0, <1>1 DEF Submit, TypeOK, leaseVars, resultVars
<1>2. ASSUME NEW w \in Worker, Claim(w)
      PROVE  IInv'
  <2>1. CASE ClaimLapsed(w)
    BY <1>0, <2>1 DEF ClaimLapsed, StealLease, TypeOK, rowVars, resultVars
  <2>2. CASE ClaimNothing(w)
    BY <1>0, <2>2 DEF ClaimNothing, TypeOK, leaseVars, rowVars, resultVars
  <2>3. CASE ClaimFresh(w)
    BY <1>0, <2>3 DEF ClaimFresh, InsertLease, TypeOK, rowVars, resultVars
  <2>4. CASE RefuseBusy(w)
    BY <1>0, <2>4 DEF RefuseBusy, Forget, TypeOK, leaseVars, rowVars, resultVars
  <2> QED BY <1>2, <2>1, <2>2, <2>3, <2>4 DEF Claim
<1>3. ASSUME NEW w \in Worker, Prepare(w)
      PROVE  IInv'
  <2>1. CASE AnswerFromStore(w)
    BY <1>0, <2>1 DEF AnswerFromStore, TypeOK, leaseVars, rowVars, resultVars
  <2>2. CASE FindNoResult(w)
    BY <1>0, <2>2 DEF FindNoResult, TypeOK, leaseVars, rowVars, resultVars
  <2>3. CASE ReadContext(w)
    BY <1>0, <2>3 DEF ReadContext, TypeOK, leaseVars, rowVars, resultVars
  <2> QED BY <1>3, <2>1, <2>2, <2>3 DEF Prepare
<1>4. ASSUME NEW w \in Worker, Append(w)
      PROVE  IInv'
  <2>1. CASE RefuseOutOfTurn(w) \/ InsertCollides(w)
    <3>1. /\ pc' = [pc EXCEPT ![w] = "release"]
          /\ UNCHANGED <<leaseVars, rowVars, resultVars, request, context>>
      BY <2>1 DEF RefuseOutOfTurn, InsertCollides
    <3> QED BY <1>0, <3>1 DEF TypeOK, leaseVars, rowVars, resultVars
  <2>2. CASE SelectRecoverable(w)
    BY <1>0, <2>2 DEF SelectRecoverable, TypeOK, leaseVars, rowVars, resultVars
  <2>3. CASE SelectNothing(w)
    BY <1>0, <2>3 DEF SelectNothing, TypeOK, leaseVars, rowVars, resultVars
  <2>4. CASE MarkProcessing(w)
    BY <1>0, <2>4 DEF MarkProcessing, TypeOK, leaseVars, resultVars
  <2>5. CASE InsertMessage(w)
    <3> DEFINE m == request[w].id
    <3>1. /\ m \in MessageId
          /\ result[m] = None
      BY <1>0, <2>5 DEF InsertMessage, TypeOK
    <3>2. /\ status' = [status EXCEPT ![m] = "processing"]
          /\ text' = [text EXCEPT ![m] = request[w].text]
          /\ turn' = [turn EXCEPT ![m] = turnNumber + 1]
          /\ pc' = [pc EXCEPT ![w] = "process"]
          /\ pc[w] = "insert_message"
          /\ UNCHANGED <<holder, resultVars, request, context>>
      BY <2>5 DEF InsertMessage, leaseVars
    <3>3. turnNumber + 1 # 0
      BY <1>0 DEF TypeOK
    <3>4. RowsConsistent'
      BY <1>0, <3>1, <3>2, <3>3 DEF TypeOK, resultVars
    <3>5. ContextIsCurrent'
      BY <1>0, <3>1, <3>2 DEF TypeOK, resultVars
    <3>6. CompletedNeverFailed'
      BY <1>0, <3>1, <3>2 DEF TypeOK, resultVars
    <3>7. HistoryIsOpen' /\ SingleHistory' /\ FactsKeepEveryTurn'
      BY <3>2 DEF resultVars
    <3> QED BY <1>0, <3>4, <3>5, <3>6, <3>7
  <2> QED BY <1>4, <2>1, <2>2, <2>3, <2>4, <2>5 DEF Append
<1>5. ASSUME NEW w \in Worker, Finish(w)
      PROVE  IInv'
  <2>1. CASE SaveTurn(w)
    <3> DEFINE m == request[w].id
    <3>1. /\ m \in MessageId
          /\ holder = w
          /\ pc[w] = "process"
          /\ result[m] = None
          /\ Stored(m)
          /\ context[w] = [previous |-> latest, facts |-> facts]
      BY <1>0, <2>1 DEF SaveTurn, LeaseValid, TypeOK
    <3>2. /\ facts' = facts \cup {m}
          /\ latest' = m
          /\ status' = [status EXCEPT ![m] = "processed"]
          /\ pc' = [pc EXCEPT ![w] = "release"]
          /\ UNCHANGED <<holder, text, turn, request, context>>
      BY <2>1, <3>1 DEF SaveTurn, leaseVars
    <3>3. PICK s \in State :
            result' = [result EXCEPT ![m] = [turn |-> turn[m], state |-> s,
                                             previous |-> latest]]
      <4>1. PICK s \in {Suppressed} \cup OpenState :
              result' = [result EXCEPT ![m] =
                           [turn |-> turn[m], state |-> s,
                            previous |-> context[w].previous]]
        BY <2>1 DEF SaveTurn, DecidedStates
      <4>2. context[w].previous = latest
        BY <3>1
      <4> QED BY <4>1, <4>2 DEF State
    <3>4. [turn |-> turn[m], state |-> s, previous |-> latest] # None
      BY <1>0, <3>1, <3>3 DEF TypeOK, Result
    <3>5. /\ Saved' = Saved \cup {m}
          /\ m \notin Saved
          /\ result'[m].previous = latest
          /\ \A n \in Saved : result'[n] = result[n]
      BY <1>0, <3>1, <3>3, <3>4 DEF TypeOK
    <3>6. FactsKeepEveryTurn'
      BY <3>2, <3>5
    <3>7. HistoryIsOpen'
      BY <3>1, <3>2, <3>5
    <3>8. SingleHistory'
      BY <3>5
    <3>9. CompletedNeverFailed'
      BY <1>0, <3>1, <3>2, <3>5 DEF TypeOK
    <3>10. ContextIsCurrent'
      BY <1>0, <3>1, <3>2 DEF TypeOK
    <3>11. RowsConsistent'
      BY <1>0, <3>1, <3>2, <3>3 DEF TypeOK
    <3> QED BY <1>0, <3>6, <3>7, <3>8, <3>9, <3>10, <3>11
  <2>2. CASE SaveRefused(w)
    BY <1>0, <2>2 DEF SaveRefused, TypeOK, leaseVars, rowVars, resultVars
  <2>3. CASE MarkFailed(w)
    BY <1>0, <2>3 DEF MarkFailed, LeaseValid, TypeOK, leaseVars, resultVars
  <2>4. CASE Release(w)
    BY <1>0, <2>4 DEF Release, ReleaseLease, Forget, TypeOK, leaseVars, rowVars,
       resultVars
  <2> QED BY <1>5, <2>1, <2>2, <2>3, <2>4 DEF Finish
<1>6. ASSUME NEW w \in Worker, TurnRaises(w) \/ StoreRaises(w)
      PROVE  IInv'
  <2>1. CASE TurnRaises(w)
    BY <1>0, <2>1 DEF TurnRaises, TypeOK, leaseVars, rowVars, resultVars
  <2>2. CASE StoreRaises(w)
    <3>1. /\ pc' = [pc EXCEPT ![w] = "release"]
          /\ UNCHANGED <<leaseVars, rowVars, resultVars, request, context>>
      BY <2>2 DEF StoreRaises
    <3> QED BY <1>0, <3>1 DEF TypeOK, leaseVars, rowVars, resultVars
  <2> QED BY <1>6, <2>1, <2>2
<1>7. ASSUME NEW w \in Worker, Crash(w)
      PROVE  IInv'
  <2>1. Orphan \notin Worker
    OBVIOUS
  <2>2. \A v \in Worker : Holds(v)' => v # w /\ Holds(v)
    BY <1>7, <2>1 DEF Crash, AbandonLease
  <2>3. /\ \A v \in Worker \ {w} : pc'[v] = pc[v] /\ request'[v] = request[v]
                                  /\ context'[v] = context[v]
        /\ pc'[w] = "idle"
        /\ UNCHANGED <<rowVars, resultVars>>
    BY <1>0, <1>7 DEF Crash, Forget, TypeOK
  <2> QED BY <1>0, <2>2, <2>3 DEF rowVars, resultVars
<1>8. CASE Expire
  BY <1>0, <1>8 DEF Expire, LeaseRunsOut, rowVars, resultVars, localVars
<1>9. CASE UNCHANGED vars
  BY <1>0, <1>9 DEF vars, leaseVars, rowVars, resultVars, localVars
<1> QED
  BY <1>1, <1>2, <1>3, <1>4, <1>5, <1>6, <1>7, <1>8, <1>9 DEF Next, Serve

\* The inductive invariant holds throughout.
LEMMA InvariantIInv == Spec => []IInv
<1> QED BY InitIInv, NextIInv, PTL DEF Spec

\* No saved turn's facts are lost: conversation_facts always accounts for
\* exactly the turns in analysis_runs, whatever outlives its lease or crashes.
THEOREM FactsAreKept == Spec => []FactsKeepEveryTurn
<1>1. IInv => FactsKeepEveryTurn
  BY DEF IInv
<1> QED BY <1>1, InvariantIInv, PTL

\* Saved turns form one history: no two build on the same previous result.
THEOREM HistoryIsSingle == Spec => []SingleHistory
<1>1. IInv => SingleHistory
  BY DEF IInv
<1> QED BY <1>1, InvariantIInv, PTL

\* mark_failed never reports a turn that was saved.
THEOREM CompletedStaysCompleted == Spec => []CompletedNeverFailed
<1>1. IInv => CompletedNeverFailed
  BY DEF IInv
<1> QED BY <1>1, InvariantIInv, PTL

-----------------------------------------------------------------------------
\* The empty tables are the empty ledger.
LEMMA InitLedger == Init => Ledger!Init
BY DEF Init, Ledger!Init, Saved

\* A step of the handler is a step of the ledger or leaves it alone: the INSERT
\* of append_message accepts a message, save_turn commits one.
LEMMA NextLedger == IInv /\ [Next]_vars => [Ledger!Next]_(Ledger!ledgerVars)
<1> SUFFICES ASSUME IInv, [Next]_vars
             PROVE  [Ledger!Next]_(Ledger!ledgerVars)
  OBVIOUS
<1> USE LeaseAssumption, TurnsAssumption, NoneAssumption
    DEF LeaseAssumption, TurnsAssumption, NoneAssumption
<1>0. TypeOK
  BY DEF IInv
<1> DEFINE Idle == UNCHANGED <<turn, turnNumber, result, latest, facts>>
<1>1. Idle => UNCHANGED Ledger!ledgerVars
  BY DEF Ledger!ledgerVars, Saved
<1>2. ASSUME NEW w \in Worker, InsertMessage(w)
      PROVE  Ledger!Next
  <2> DEFINE m == request[w].id
  <2>1. m \in MessageId /\ turn[m] = 0
    BY <1>0, <1>2 DEF InsertMessage, IInv, RowsConsistent, TypeOK
  <2>2. Saved' = Saved
    BY <1>2 DEF InsertMessage, resultVars, Saved
  <2>3. Ledger!Accept(m)
    BY <1>2, <2>1, <2>2 DEF InsertMessage, resultVars, Ledger!Accept
  <2> QED BY <2>1, <2>3 DEF Ledger!Next
<1>3. ASSUME NEW w \in Worker, SaveTurn(w)
      PROVE  Ledger!Next
  <2> DEFINE m == request[w].id
  <2>1. /\ m \in MessageId
        /\ turn[m] # 0
        /\ m \notin Saved
        /\ context[w].facts = facts
    BY <1>0, <1>3 DEF SaveTurn, LeaseValid, Holds, IInv, RowsConsistent, Stored,
       ContextIsCurrent, AfterRead, Saved, TypeOK
  <2>2. PICK s \in State :
          result' = [result EXCEPT ![m] = [turn |-> turn[m], state |-> s,
                                           previous |-> context[w].previous]]
    BY <1>3 DEF SaveTurn, DecidedStates, State
  <2>3. [turn |-> turn[m], state |-> s, previous |-> context[w].previous] # None
    <3>1. context[w].previous \in MessageId \cup {None}
      BY <1>0 DEF TypeOK, Context
    <3>2. turn[m] \in Nat
      BY <1>0, <2>1 DEF TypeOK
    <3> QED BY <3>1, <3>2 DEF Result
  <2>4. Saved' = Saved \cup {m}
    BY <1>0, <2>1, <2>2, <2>3 DEF Saved, TypeOK
  <2>5. Ledger!Commit(m)
    BY <1>3, <2>1, <2>4 DEF SaveTurn, Ledger!Commit
  <2> QED BY <2>1, <2>5 DEF Ledger!Next
<1>4. ASSUME NEW w \in Worker, ~InsertMessage(w), ~SaveTurn(w),
             Serve(w) \/ TurnRaises(w) \/ StoreRaises(w) \/ Crash(w)
      PROVE  Idle
  BY <1>4 DEF Serve, Claim, Prepare, Append, Finish, ClaimLapsed, ClaimNothing,
     ClaimFresh, RefuseBusy, AnswerFromStore, FindNoResult, ReadContext,
     RefuseOutOfTurn, SelectRecoverable, SelectNothing, MarkProcessing,
     InsertCollides, SaveRefused, MarkFailed, Release, TurnRaises, StoreRaises,
     Crash, rowVars, resultVars
<1>5. ASSUME NEW w \in Worker, NEW m \in MessageId, NEW t \in Text,
             Submit(w, m, t)
      PROVE  Idle
  BY <1>5 DEF Submit, resultVars
<1>6. Expire \/ UNCHANGED vars => Idle
  BY DEF Expire, vars, rowVars, resultVars
<1> QED
  BY <1>1, <1>2, <1>3, <1>4, <1>5, <1>6 DEF Next

\* Workers, leases, retries and crashes are invisible in the tables: the handler
\* implements a ledger in which every message is committed at most once, under a
\* final number, on top of everything committed before.
THEOREM ConversationIsALedger == Spec => ImplementsLedger
<1> QED
  BY InitLedger, NextLedger, InvariantIInv, PTL
     DEF Spec, ImplementsLedger, Ledger!Spec
-----------------------------------------------------------------------------
\* The rest holds when every live worker ends within the five minutes of its
\* lease (Timely).  The runs show that it fails without that assumption.

\* The empty tables satisfy the strengthened invariant.
LEMMA InitTInv == Init => TInv
<1> SUFFICES ASSUME Init PROVE TInv
  OBVIOUS
<1>1. IInv
  BY InitIInv
<1> QED
  BY <1>1 DEF Init, LeaseInit, TInv, LeaseCoversWork, OneUnfinished, TurnsBounded,
     NotWedged, AnsweredInOrder, Unfinished, Saved, Stored, Inside

\* A step of one request that leaves every row alone, keeps the other requests
\* where they are, and moves this one to a place that asks for nothing about
\* the rows, keeps the row part of the invariant.
LEMMA QuietRows ==
  ASSUME TInv, NEW w \in Worker, UNCHANGED <<rowVars, resultVars>>,
         \A v \in Worker \ {w} : pc'[v] = pc[v] /\ request'[v] = request[v],
         pc'[w] \notin {"insert_message", "recover", "process", "failing"}
  PROVE  (OneUnfinished /\ TurnsBounded /\ NotWedged /\ AnsweredInOrder)'
BY DEF TInv, OneUnfinished, TurnsBounded, NotWedged, AnsweredInOrder, Unfinished,
   Saved, Stored, rowVars, resultVars

\* Every step keeps the strengthened invariant.
LEMMA NextTInv == Timely /\ TInv /\ [Next]_vars => TInv'
<1> SUFFICES ASSUME Timely, TInv, [Next]_vars PROVE TInv'
  OBVIOUS
<1> USE LeaseAssumption, TurnsAssumption, NoneAssumption
    DEF LeaseAssumption, TurnsAssumption, NoneAssumption
<1>0. /\ TypeOK /\ TypeOK'
      /\ IInv /\ IInv'
      /\ Orphan \notin Worker
      /\ Nobody \notin Worker
  BY NextIInv DEF TInv, IInv
<1>a. /\ pc \in [Worker -> Place]
      /\ request \in [Worker -> Request]
      /\ status \in [MessageId -> Status]
      /\ turn \in [MessageId -> Nat]
      /\ result \in [MessageId -> Result \cup {None}]
      /\ turnNumber \in Nat
  BY <1>0 DEF TypeOK
<1> DEFINE Rows == OneUnfinished /\ TurnsBounded /\ NotWedged /\ AnsweredInOrder
<1>b. LeaseCoversWork' /\ Rows' => TInv'
  BY <1>0 DEF TInv
<1> HIDE DEF Rows
<1>1. ASSUME NEW w \in Worker, NEW m \in MessageId, NEW t \in Text,
             Submit(w, m, t)
      PROVE  TInv'
  <2>1. LeaseCoversWork'
    BY <1>a, <1>1 DEF TInv, LeaseCoversWork, Submit, Goto, Inside, Holds, leaseVars
  <2>2. Rows'
    BY <1>a, <1>1 DEF Rows, TInv, Submit, Goto, resultVars, OneUnfinished,
       TurnsBounded, NotWedged, AnsweredInOrder, Unfinished, Saved, Stored
  <2> QED BY <1>b, <2>1, <2>2
<1>2. ASSUME NEW w \in Worker, Claim(w)
      PROVE  TInv'
  <2>1. LeaseCoversWork'
    BY <1>0, <1>a, <1>2 DEF TInv, LeaseCoversWork, Claim, ClaimLapsed, ClaimNothing,
       ClaimFresh, RefuseBusy, StealLease, LeaseLapsed, InsertLease, Forget, Goto,
       Inside, Holds, leaseVars
  <2>2. Rows'
    BY <1>a, <1>2, QuietRows DEF Rows, Claim, ClaimLapsed, ClaimNothing, ClaimFresh,
       RefuseBusy, Forget, Goto
  <2> QED BY <1>b, <2>1, <2>2
<1>3. ASSUME NEW w \in Worker, Prepare(w)
      PROVE  TInv'
  <2>1. LeaseCoversWork'
    BY <1>a, <1>3 DEF TInv, LeaseCoversWork, Prepare, AnswerFromStore, FindNoResult,
       ReadContext, Goto, Inside, Holds, leaseVars
  <2>2. Rows'
    BY <1>a, <1>3, QuietRows DEF Rows, Prepare, AnswerFromStore, FindNoResult,
       ReadContext, Goto
  <2> QED BY <1>b, <2>1, <2>2
<1>4. ASSUME NEW w \in Worker, Append(w)
      PROVE  TInv'
  <2> DEFINE m == request[w].id
  <2>0. m \in MessageId
    BY <1>0, <1>4 DEF TypeOK, Append, RefuseOutOfTurn, SelectRecoverable,
       SelectNothing, MarkProcessing, InsertMessage, InsertCollides
  <2>1. LeaseCoversWork'
    BY <1>a, <1>4 DEF TInv, LeaseCoversWork, Append, RefuseOutOfTurn,
       SelectRecoverable, SelectNothing, MarkProcessing, InsertMessage,
       InsertCollides, Goto, Inside, Holds, leaseVars
  <2>2. CASE RefuseOutOfTurn(w) \/ InsertCollides(w)
    <3>1. Rows'
      BY <1>a, <2>2, QuietRows DEF Rows, RefuseOutOfTurn, InsertCollides, Goto
    <3> QED BY <1>b, <2>1, <3>1
  <2>3. CASE SelectRecoverable(w)
    <3>1. PICK n \in Unfinished : Unfinished = {n}
      BY <2>3 DEF SelectRecoverable, TInv, OneUnfinished
    <3>2. turn[n] <= turn[n]
      BY <1>a, <3>1 DEF Unfinished
    <3>3. FirstUnfinished \in Unfinished
      BY <3>1, <3>2 DEF FirstUnfinished
    <3>4. Rows'
      BY <1>a, <2>3, <3>3 DEF Rows, TInv, SelectRecoverable, Goto, OneUnfinished,
         TurnsBounded, NotWedged, AnsweredInOrder, Unfinished, Saved, Stored,
         rowVars, resultVars
    <3> QED BY <1>b, <2>1, <3>4
  <2>4. CASE SelectNothing(w)
    <3>1. Rows'
      BY <1>a, <2>4 DEF Rows, TInv, SelectNothing, Goto, OneUnfinished,
         TurnsBounded, NotWedged, AnsweredInOrder, Unfinished, Saved, Stored,
         rowVars, resultVars
    <3> QED BY <1>b, <2>1, <3>1
  <2>5. CASE MarkProcessing(w)
    <3>1. m \in Unfinished
      BY <2>5 DEF MarkProcessing, TInv, OneUnfinished
    <3>2. Unfinished' = Unfinished
      BY <1>a, <2>5, <3>1 DEF MarkProcessing, Unfinished
    <3>3. \A n \in MessageId : Stored(n)' = Stored(n)
      BY <1>a, <2>5, <3>1 DEF MarkProcessing, Stored, Unfinished
    <3>4. Rows'
      BY <1>a, <2>5, <3>1, <3>2, <3>3 DEF Rows, TInv, MarkProcessing, Goto,
         OneUnfinished, TurnsBounded, NotWedged, AnsweredInOrder, Saved, resultVars
    <3> QED BY <1>b, <2>1, <3>4
  <2>6. CASE InsertMessage(w)
    <3>1. /\ Unfinished = {}
          /\ Holds(w)
          /\ result[m] = None
          /\ turn[m] = 0
      BY <1>0, <2>0, <2>6 DEF InsertMessage, TInv, OneUnfinished, LeaseCoversWork,
         Inside, IInv, RowsConsistent
    <3>2. Unfinished' = {m}
      BY <1>a, <2>0, <2>6, <3>1 DEF InsertMessage, Unfinished
    <3>3. \A v \in Worker : pc[v] \in Inside => v = w
      BY <3>1 DEF TInv, LeaseCoversWork, Holds
    <3>4. OneUnfinished'
      BY <1>a, <2>0, <2>6, <3>1, <3>2, <3>3 DEF TInv, InsertMessage, Goto,
         OneUnfinished, Saved, Stored, Inside, resultVars
    <3>5. TurnsBounded' /\ NotWedged'
      BY <1>a, <2>0, <2>6, <3>1, <3>2 DEF TInv, InsertMessage, TurnsBounded,
         NotWedged, resultVars
    <3>6. AnsweredInOrder'
      <4> SUFFICES ASSUME NEW n \in Saved', NEW k \in MessageId,
                          Stored(k)', turn'[k] < turn'[n]
                   PROVE  k \in Saved'
        BY DEF AnsweredInOrder
      <4>1. Saved' = Saved /\ n \in MessageId /\ n # m
        BY <2>6, <3>1 DEF InsertMessage, Saved, resultVars
      <4>2. k # m
        BY <1>a, <2>0, <2>6, <4>1 DEF InsertMessage, TInv, TurnsBounded
      <4> QED
        BY <1>a, <2>0, <2>6, <4>1, <4>2 DEF InsertMessage, TInv, AnsweredInOrder, Stored
    <3> QED BY <1>b, <2>1, <3>4, <3>5, <3>6 DEF Rows
  <2> QED BY <1>4, <2>2, <2>3, <2>4, <2>5, <2>6 DEF Append
<1>5. ASSUME NEW w \in Worker, Finish(w)
      PROVE  TInv'
  <2> DEFINE m == request[w].id
  <2>1. LeaseCoversWork'
    BY <1>0, <1>a, <1>5 DEF TInv, LeaseCoversWork, Finish, SaveTurn, SaveRefused,
       MarkFailed, Release, ReleaseLease, Forget, Goto, Inside, Holds, leaseVars
  <2>2. CASE SaveTurn(w)
    <3>1. /\ m \in MessageId
          /\ m \in Unfinished
          /\ \A n \in Unfinished : n = m
          /\ Holds(w)
      BY <1>0, <2>2 DEF SaveTurn, TInv, OneUnfinished, LeaseValid, Holds, TypeOK
    <3>2. /\ status' = [status EXCEPT ![m] = "processed"]
          /\ pc' = [pc EXCEPT ![w] = "release"]
          /\ UNCHANGED <<turn, turnNumber, request>>
      BY <2>2 DEF SaveTurn, Goto
    <3>3. /\ Saved' = Saved \cup {m}
          /\ \A n \in MessageId : n # m => result'[n] = result[n]
      <4>1. facts = Saved /\ facts' = Saved'
        BY <1>0 DEF IInv, FactsKeepEveryTurn
      <4>2. facts' = facts \cup {m}
        BY <1>0, <2>2, <3>1 DEF SaveTurn, IInv, ContextIsCurrent, AfterRead
      <4>3. \A n \in MessageId : n # m => result'[n] = result[n]
        BY <1>a, <2>2 DEF SaveTurn
      <4> QED BY <4>1, <4>2, <4>3
    <3>4. Unfinished' = {}
      BY <1>a, <3>1, <3>2 DEF Unfinished
    <3>5. \A v \in Worker : pc[v] \in Inside => v = w
      BY <3>1 DEF TInv, LeaseCoversWork, Holds
    <3>6. OneUnfinished'
      BY <1>a, <3>1, <3>2, <3>3, <3>4, <3>5 DEF TInv, OneUnfinished, Stored, Inside
    <3>7. TurnsBounded' /\ NotWedged'
      BY <3>2, <3>4 DEF TInv, TurnsBounded, NotWedged
    <3>8. AnsweredInOrder'
      <4>1. \A n \in MessageId : Stored(n)' => n \in Saved'
        BY <1>a, <3>1, <3>2, <3>3 DEF TInv, OneUnfinished, Stored
      <4> QED BY <4>1 DEF AnsweredInOrder
    <3> QED BY <1>b, <2>1, <3>6, <3>7, <3>8 DEF Rows
  <2>3. CASE SaveRefused(w)
    <3>1. Rows'
      BY <1>a, <2>3 DEF Rows, TInv, SaveRefused, Goto, OneUnfinished,
         TurnsBounded, NotWedged, AnsweredInOrder, Unfinished, Saved, Stored,
         rowVars, resultVars
    <3> QED BY <1>b, <2>1, <3>1
  <2>4. CASE MarkFailed(w)
    <3>1. m \in Unfinished
      BY <2>4 DEF MarkFailed, TInv, OneUnfinished
    <3>2. Unfinished' = Unfinished
      BY <1>a, <2>4, <3>1 DEF MarkFailed, Unfinished
    <3>3. \A n \in MessageId : Stored(n)' = Stored(n)
      BY <1>a, <2>4, <3>1 DEF MarkFailed, Stored, Unfinished
    <3>4. Rows'
      BY <1>a, <2>4, <3>1, <3>2, <3>3 DEF Rows, TInv, MarkFailed, Goto,
         OneUnfinished, TurnsBounded, NotWedged, AnsweredInOrder, Saved, resultVars
    <3> QED BY <1>b, <2>1, <3>4
  <2>5. CASE Release(w)
    <3>1. Rows'
      BY <1>a, <2>5, QuietRows DEF Rows, Release, Forget, Goto
    <3> QED BY <1>b, <2>1, <3>1
  <2> QED BY <1>5, <2>2, <2>3, <2>4, <2>5 DEF Finish
<1>6. ASSUME NEW w \in Worker, TurnRaises(w)
      PROVE  TInv'
  <2>1. LeaseCoversWork'
    BY <1>a, <1>6 DEF TInv, LeaseCoversWork, TurnRaises, Goto, Inside, Holds, leaseVars
  <2>2. Rows'
    BY <1>a, <1>6 DEF Rows, TInv, TurnRaises, Goto, OneUnfinished, TurnsBounded,
       NotWedged, AnsweredInOrder, Unfinished, Saved, Stored, rowVars, resultVars
  <2> QED BY <1>b, <2>1, <2>2
<1>7. ASSUME NEW w \in Worker, StoreRaises(w) \/ Crash(w)
      PROVE  TInv'
  <2>1. LeaseCoversWork'
    BY <1>0, <1>a, <1>7 DEF TInv, LeaseCoversWork, StoreRaises, Crash, AbandonLease,
       Forget, Goto, Inside, Holds, leaseVars
  <2>2. Rows'
    BY <1>a, <1>7, QuietRows DEF Rows, StoreRaises, Crash, Forget, Goto
  <2> QED BY <1>b, <2>1, <2>2
<1>8. CASE Expire \/ UNCHANGED vars
  <2>1. LeaseCoversWork'
    BY <1>0, <1>8 DEF TInv, LeaseCoversWork, Expire, LeaseRunsOut, vars, localVars,
       leaseVars, Holds
  <2>2. Rows'
    BY <1>8 DEF Rows, TInv, Expire, vars, rowVars, resultVars, localVars,
       OneUnfinished, TurnsBounded, NotWedged, AnsweredInOrder, Unfinished, Saved,
       Stored
  <2> QED BY <1>b, <2>1, <2>2
<1> QED
  BY <1>1, <1>2, <1>3, <1>4, <1>5, <1>6, <1>7, <1>8 DEF Next, Serve

\* The strengthened invariant holds throughout.
LEMMA InvariantTInv == Timely => (Spec => []TInv)
<1> SUFFICES ASSUME Timely PROVE Spec => []TInv
  OBVIOUS
<1>1. TInv /\ [Next]_vars => TInv'
  BY NextTInv
<1> QED BY <1>1, InitTInv, PTL DEF Spec

\* processing_lease excludes: two requests are never inside it at once.
THEOREM LeaseExcludes == Timely => (Spec => []MutualExclusion)
<1> SUFFICES ASSUME Timely PROVE Spec => []MutualExclusion
  OBVIOUS
<1>1. TInv => MutualExclusion
  BY DEF TInv, LeaseCoversWork, MutualExclusion, Holds
<1> QED BY <1>1, InvariantTInv, PTL

\* A message that must be retried can be: its retry is never answered as a
\* duplicate of a turn that was already saved.
THEOREM RetryIsPossible == Timely => (Spec => []NotWedged)
<1> SUFFICES ASSUME Timely PROVE Spec => []NotWedged
  OBVIOUS
<1>1. TInv => NotWedged
  BY DEF TInv
<1> QED BY <1>1, InvariantTInv, PTL

\* Turns are answered in the order in which append_message numbered them.
THEOREM TurnsInOrder == Timely => (Spec => []AnsweredInOrder)
<1> SUFFICES ASSUME Timely PROVE Spec => []AnsweredInOrder
  OBVIOUS
<1>1. TInv => AnsweredInOrder
  BY DEF TInv
<1> QED BY <1>1, InvariantTInv, PTL

-----------------------------------------------------------------------------
\* Next to others that use the conversation's lease.

\* Whoever else takes, keeps or releases the lease keeps the invariant: nobody
\* takes it from a live worker.
LEMMA OthersKeepTurns ==
  ASSUME TInv, NEW c \in Client \ Worker,
         UNCHANGED <<rowVars, resultVars, localVars>>,
         \/ StealLease(c) \/ InsertLease(c) \/ ReleaseLease(c) \/ AbandonLease(c)
         \/ UNCHANGED leaseVars
  PROVE  TInv'
<1> USE LeaseAssumption, TurnsAssumption DEF LeaseAssumption, TurnsAssumption
<1>1. /\ TypeOK /\ LeaseTypeOK /\ IInv /\ LeaseCoversWork
      /\ UNCHANGED <<state, turnNumber, status, text, turn, result, latest, facts, pc,
                     request, seen, context>>
  BY DEF TInv, IInv, TypeOK, rowVars, resultVars, localVars
<1>2. LeaseTypeOK'
  <2>1. CASE StealLease(c)
    BY <1>1, <2>1 DEF StealLease, LeaseTypeOK
  <2>2. CASE InsertLease(c)
    BY <1>1, <2>2 DEF InsertLease, LeaseTypeOK
  <2>3. CASE ReleaseLease(c)
    BY <1>1, <2>3 DEF ReleaseLease, Holds, LeaseTypeOK, leaseVars
  <2>4. CASE AbandonLease(c)
    BY <1>1, <2>4 DEF AbandonLease, Holds, LeaseTypeOK
  <2>5. CASE UNCHANGED leaseVars
    BY <1>1, <2>5 DEF leaseVars, LeaseTypeOK
  <2> QED BY <2>1, <2>2, <2>3, <2>4, <2>5
<1>3. LeaseCoversWork'
  BY <1>1 DEF LeaseCoversWork, LeaseTypeOK, StealLease, LeaseLapsed, InsertLease,
     ReleaseLease, AbandonLease, Holds, leaseVars
<1>4. \A w \in Worker : holder' = w => holder = w
  BY <1>1 DEF StealLease, InsertLease, ReleaseLease, AbandonLease, Holds, leaseVars
<1>5. TypeOK'
  BY <1>1, <1>2 DEF TypeOK
<1>6. ContextIsCurrent'
  BY <1>1, <1>4 DEF IInv, ContextIsCurrent, Holds
<1>7. IInv'
  BY <1>1, <1>5, <1>6 DEF IInv, FactsKeepEveryTurn, SingleHistory, CompletedNeverFailed,
     HistoryIsOpen, RowsConsistent, Saved, Stored
<1> QED BY <1>1, <1>3, <1>7 DEF TInv, OneUnfinished, TurnsBounded, NotWedged,
     AnsweredInOrder, Unfinished, Saved, Stored

\* While nobody serves a message the tables rest.
LEMMA TablesRest ==
  ASSUME [Next]_vars, \A w \in Worker : pc[w] \notin Inside
  PROVE  UNCHANGED <<turnNumber, status, text, turn, result, latest, facts>>
BY DEF Next, vars, rowVars, resultVars, localVars, Serve, Claim, Prepare, Append, Finish, Submit,
   ClaimLapsed, ClaimNothing, ClaimFresh, RefuseBusy, AnswerFromStore, FindNoResult,
   ReadContext, RefuseOutOfTurn, SelectRecoverable, SelectNothing, MarkProcessing,
   InsertMessage, InsertCollides, SaveTurn, SaveRefused, TurnRaises, MarkFailed,
   StoreRaises, Release, Crash, Expire, Inside
==============================================================================
