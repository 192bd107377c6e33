-------------------------- MODULE ConversationTurns --------------------------
(***************************************************************************)
(* ConversationService.process_message over ConversationStore, for one     *)
(* conversation and any number of concurrent requests.                     *)
(*                                                                         *)
(* Every action is one database transaction (or one local decision) of the *)
(* handler, in the order the code runs them.  The database is PostgreSQL   *)
(* at READ COMMITTED: a SELECT and a later UPDATE of the same transaction  *)
(* are two steps unless the SELECT locks what the UPDATE depends on.       *)
(*                                                                         *)
(* One fact key stands for conversation_facts.  Its value is abstracted to *)
(* the set of messages the stored value accounts for, which merge_facts    *)
(* extends and upsert_fact(replace=True) overwrites.                       *)
(***************************************************************************)
EXTENDS Naturals, ProcessingLease

CONSTANTS
  Worker,      \* concurrently served requests
  MessageId,   \* external_message_id values of the conversation
  Text,        \* subject and text of a message, as far as they differ
  Suppressing, \* texts that OPT_OUT matches or that are classified as spam
  OpenState,   \* states of a turn that is not suppressed
  None         \* no message, no result

ASSUME TurnsAssumption ==
  /\ Worker \subseteq Client
  /\ Suppressing \subseteq Text
  /\ OpenState \subseteq
       {"needs_human_review", "waiting_customer", "ready_for_review"}
  /\ OpenState # {}

VARIABLES
  state,       \* conversations.state, "absent" before the row is inserted
  turnNumber,  \* conversations.turn_number
  status,      \* conversation_messages.processing_status, "absent": no row
  text,        \* conversation_messages.payload_hash
  turn,        \* conversation_messages.turn_number
  result,      \* analysis_runs.result_json, at most one row per message
  latest,      \* message of the newest analysis_runs row
  facts,       \* conversation_facts: messages its value accounts for
  pc,          \* where each request is in process_message
  request,     \* the request being served
  seen,        \* summary.state, read before the lease is taken
  context      \* previous result and facts, read under the lease

rowVars     == <<state, turnNumber, status, text, turn>>
resultVars  == <<result, latest, facts>>
localVars   == <<pc, request, seen, context>>
vars        == <<leaseVars, rowVars, resultVars, localVars>>

Suppressed == "do_not_contact"
State == {"absent", "new", Suppressed} \cup OpenState
Status == {"absent", "processing", "failed", "processed"}
Request == [id : MessageId \cup {None}, text : Text \cup {None}]
NoRequest == [id |-> None, text |-> None]
Context == [previous : MessageId \cup {None}, facts : SUBSET MessageId]
NoContext == [previous |-> None, facts |-> {}]
\* The saved turn: its number, the state it decided, the result it built on.
Result == [turn : Nat, state : State, previous : MessageId \cup {None}]

ASSUME NoneAssumption == None \notin MessageId \cup Text \cup Result

\* Places inside the body of "with processing_lease(...)".
Inside == {"lookup", "read", "select", "recover", "insert_message",
           "process", "failing", "release"}
Place == {"idle", "claim", "insert_lease"} \cup Inside

Stored(m) == status[m] # "absent"
Saved == {m \in MessageId : result[m] # None}
\* Messages whose processing_status is not "processed".
\* (Mutant: failed ones are passed over.)
UnfinishedProcessing == {m \in MessageId : status[m] = "processing"}
Unfinished == {m \in MessageId : status[m] \in {"processing", "failed"}}
\* ORDER BY turn_number, first row.
FirstUnfinished ==
  CHOOSE m \in Unfinished : \A n \in Unfinished : turn[m] <= turn[n]

TypeOK ==
  /\ LeaseTypeOK
  /\ state \in State
  /\ turnNumber \in Nat
  /\ status \in [MessageId -> Status]
  /\ text \in [MessageId -> Text \cup {None}]
  /\ turn \in [MessageId -> Nat]
  /\ result \in [MessageId -> Result \cup {None}]
  /\ latest \in MessageId \cup {None}
  /\ facts \in SUBSET MessageId
  /\ pc \in [Worker -> Place]
  /\ request \in [Worker -> Request]
  /\ seen \in [Worker -> State]
  /\ context \in [Worker -> Context]
  /\ \A w \in Worker :
       pc[w] # "idle" => request[w].id \in MessageId /\ request[w].text \in Text

Init ==
  /\ LeaseInit
  /\ state = "absent"
  /\ turnNumber = 0
  /\ status = [m \in MessageId |-> "absent"]
  /\ text = [m \in MessageId |-> None]
  /\ turn = [m \in MessageId |-> 0]
  /\ result = [m \in MessageId |-> None]
  /\ latest = None
  /\ facts = {}
  /\ pc = [w \in Worker |-> "idle"]
  /\ request = [w \in Worker |-> NoRequest]
  /\ seen = [w \in Worker |-> "absent"]
  /\ context = [w \in Worker |-> NoContext]

-----------------------------------------------------------------------------
Goto(w, place) == pc' = [pc EXCEPT ![w] = place]

\* The handler returns or raises to the client; its locals are gone.
Forget(w) ==
  /\ Goto(w, "idle")
  /\ request' = [request EXCEPT ![w] = NoRequest]
  /\ seen' = [seen EXCEPT ![w] = "absent"]
  /\ context' = [context EXCEPT ![w] = NoContext]

\* A client posts message m, for the first time or again, and
\* get_or_create_conversation reads the conversation row, inserting it if it
\* is missing.  Of two requests that insert, the loser of the unique
\* constraint reads the winner's row.  Nothing is locked yet.
Submit(w, m, t) ==
  /\ pc[w] = "idle"
  /\ state' = IF state = "absent" THEN "new" ELSE state
  /\ seen' = [seen EXCEPT ![w] = state']
  /\ request' = [request EXCEPT ![w] = [id |-> m, text |-> t]]
  /\ Goto(w, "claim")
  /\ UNCHANGED <<leaseVars, turnNumber, status, text, turn, resultVars, context>>

\* processing_lease, first transaction: take over a lapsed lease, else go on
\* to the INSERT.
ClaimLapsed(w) ==
  /\ pc[w] = "claim"
  /\ StealLease(w)
  /\ Goto(w, "lookup")
  /\ UNCHANGED <<rowVars, resultVars, request, seen, context>>

ClaimNothing(w) ==
  /\ pc[w] = "claim"
  /\ ~LeaseLapsed
  /\ Goto(w, "insert_lease")
  /\ UNCHANGED <<leaseVars, rowVars, resultVars, request, seen, context>>

\* processing_lease, second transaction.
ClaimFresh(w) ==
  /\ pc[w] = "insert_lease"
  /\ InsertLease(w)
  /\ Goto(w, "lookup")
  /\ UNCHANGED <<rowVars, resultVars, request, seen, context>>

\* IntegrityError: "Conversation is processing another request".
\* (Mutant: the handler tries again instead of refusing.)
RefuseBusySpins(w) ==
  /\ pc[w] = "insert_lease"
  /\ holder # Nobody
  /\ Goto(w, "claim")
  /\ UNCHANGED <<leaseVars, rowVars, resultVars, request, seen, context>>
RefuseBusy(w) ==
  /\ pc[w] = "insert_lease"
  /\ holder # Nobody
  /\ Forget(w)
  /\ UNCHANGED <<leaseVars, rowVars, resultVars>>

\* find_message_result ends the request: the id is stored with another payload
\* (conflict) or it has a result (the duplicate answer).
AnswerFromStore(w) ==
  LET m == request[w].id IN
  /\ pc[w] = "lookup"
  /\ Stored(m)
  /\ text[m] # request[w].text \/ result[m] # None
  /\ Goto(w, "release")
  /\ UNCHANGED <<leaseVars, rowVars, resultVars, request, seen, context>>

\* find_message_result returns None: an unknown message, or one whose earlier
\* attempt left no result.
FindNoResult(w) ==
  LET m == request[w].id IN
  /\ pc[w] = "lookup"
  /\ Stored(m) => text[m] = request[w].text /\ result[m] = None
  /\ Goto(w, "read")
  /\ UNCHANGED <<leaseVars, rowVars, resultVars, request, seen, context>>

\* latest_result, get_facts, timeline and get_recent_messages.  They are read
\* one after another; what they return reaches the database only through
\* save_turn, which the lease fences, so one step stands for them.
ReadContext(w) ==
  /\ pc[w] = "read"
  /\ context' = [context EXCEPT ![w] = [previous |-> latest, facts |-> facts]]
  /\ Goto(w, "select")
  /\ UNCHANGED <<leaseVars, rowVars, resultVars, request, seen>>

\* append_message(recover=True), the SELECT of its first transaction.
RefuseOutOfTurn(w) ==
  /\ pc[w] = "select"
  /\ Unfinished # {}
  /\ \/ FirstUnfinished # request[w].id
     \/ text[FirstUnfinished] # request[w].text
  /\ Goto(w, "release")
  /\ UNCHANGED <<leaseVars, rowVars, resultVars, request, seen, context>>

SelectRecoverable(w) ==
  /\ pc[w] = "select"
  /\ Unfinished # {}
  /\ FirstUnfinished = request[w].id
  /\ text[FirstUnfinished] = request[w].text
  /\ Goto(w, "recover")
  /\ UNCHANGED <<leaseVars, rowVars, resultVars, request, seen, context>>

SelectNothing(w) ==
  /\ pc[w] = "select"
  /\ Unfinished = {}
  /\ Goto(w, "insert_message")
  /\ UNCHANGED <<leaseVars, rowVars, resultVars, request, seen, context>>

\* The UPDATE of the first transaction.  It names the row only by its id: it
\* checks neither the lease nor the status the SELECT saw.
MarkProcessing(w) ==
  LET m == request[w].id IN
  /\ pc[w] = "recover"
  /\ status' = [status EXCEPT ![m] = "processing"]
  /\ Goto(w, "process")
  /\ UNCHANGED <<leaseVars, state, turnNumber, text, turn, resultVars,
                 request, seen, context>>

\* The second transaction; the conversation row is locked from the SELECT of
\* turn_number to the end.
InsertMessage(w) ==
  LET m == request[w].id IN
  /\ pc[w] = "insert_message"
  /\ ~Stored(m)
  /\ turnNumber' = turnNumber + 1
  /\ status' = [status EXCEPT ![m] = "processing"]
  /\ text' = [text EXCEPT ![m] = request[w].text]
  /\ turn' = [turn EXCEPT ![m] = turnNumber + 1]
  /\ Goto(w, "process")
  /\ UNCHANGED <<leaseVars, state, resultVars, request, seen, context>>

\* IntegrityError: "message or turn already exists".
InsertCollides(w) ==
  /\ pc[w] = "insert_message"
  /\ Stored(request[w].id)
  /\ Goto(w, "release")
  /\ UNCHANGED <<leaseVars, rowVars, resultVars, request, seen, context>>

\* The state _process_turn decides.  opted_out uses the summary that was read
\* before the lease; which of the open states it is depends on facts, scores
\* and questions that are not modelled.
DecidedStates(w) ==
  IF seen[w] = Suppressed \/ request[w].text \in Suppressing
  THEN {Suppressed} ELSE OpenState

\* The end of _process_turn and save_turn.  All rows of the turn are written in
\* one transaction that starts with assert_lease; analysis_runs admits one row
\* per message.
SaveTurn(w) ==
  LET m == request[w].id IN
  /\ pc[w] = "process"
  /\ LeaseValid(w)
  /\ result[m] = None
  /\ facts' = context[w].facts \cup {m}
  /\ status' = [status EXCEPT ![m] = "processed"]
  /\ latest' = m
  /\ \E s \in DecidedStates(w) :
       /\ state' = s
       /\ result' = [result EXCEPT ![m] =
                       [turn |-> turn[m], state |-> s,
                        previous |-> context[w].previous]]
  /\ Goto(w, "release")
  /\ UNCHANGED <<leaseVars, turnNumber, text, turn, request, seen, context>>

\* save_turn raises: assert_lease finds no row, or the result exists.
SaveRefused(w) ==
  /\ pc[w] = "process"
  /\ ~LeaseValid(w) \/ result[request[w].id] # None
  /\ Goto(w, "failing")
  /\ UNCHANGED <<leaseVars, rowVars, resultVars, request, seen, context>>

\* Any other exception of _process_turn: nothing of the turn is written.
TurnRaises(w) ==
  /\ pc[w] = "process"
  /\ Goto(w, "failing")
  /\ UNCHANGED <<leaseVars, rowVars, resultVars, request, seen, context>>

\* mark_failed under its own assert_lease; a lost lease is swallowed.
MarkFailed(w) ==
  LET m == request[w].id IN
  /\ pc[w] = "failing"
  /\ status' = IF LeaseValid(w) /\ status[m] = "processing"
               THEN [status EXCEPT ![m] = "failed"]
               ELSE status
  /\ Goto(w, "release")
  /\ UNCHANGED <<leaseVars, state, turnNumber, text, turn, resultVars,
                 request, seen, context>>

\* A store call before the try block raises: only the lease is cleaned up.
StoreRaises(w) ==
  /\ pc[w] \in {"lookup", "read", "select", "recover", "insert_message"}
  /\ Goto(w, "release")
  /\ UNCHANGED <<leaseVars, rowVars, resultVars, request, seen, context>>

\* The finally clause of processing_lease.
Release(w) ==
  /\ pc[w] = "release"
  /\ ReleaseLease(w)
  /\ Forget(w)
  /\ UNCHANGED <<rowVars, resultVars>>

\* The process that serves w dies.
Crash(w) ==
  /\ pc[w] # "idle"
  /\ AbandonLease(w)
  /\ Forget(w)
  /\ UNCHANGED <<rowVars, resultVars>>

Expire ==
  /\ LeaseRunsOut
  /\ UNCHANGED <<rowVars, resultVars, localVars>>

-----------------------------------------------------------------------------
Claim(w) ==
  \/ ClaimLapsed(w) \/ ClaimNothing(w) \/ ClaimFresh(w) \/ RefuseBusy(w)

Prepare(w) ==
  \/ AnswerFromStore(w) \/ FindNoResult(w) \/ ReadContext(w)

Append(w) ==
  \/ RefuseOutOfTurn(w) \/ SelectRecoverable(w) \/ SelectNothing(w)
  \/ MarkProcessing(w) \/ InsertMessage(w) \/ InsertCollides(w)

Finish(w) ==
  \/ SaveTurn(w) \/ SaveRefused(w) \/ MarkFailed(w) \/ Release(w)

\* What the handler does by itself once a request is in.
Serve(w) == Claim(w) \/ Prepare(w) \/ Append(w) \/ Finish(w)

Next ==
  \/ \E w \in Worker :
       \/ \E m \in MessageId, t \in Text : Submit(w, m, t)
       \/ Serve(w)
       \/ TurnRaises(w) \/ StoreRaises(w) \/ Crash(w)
  \/ Expire

Spec == Init /\ [][Next]_vars

\* Handler threads are scheduled and time passes.  Clients owe nothing.
Fairness ==
  /\ \A w \in Worker : WF_vars(Serve(w))
  /\ WF_vars(Expire)

FairSpec == Spec /\ Fairness
=============================================================================
