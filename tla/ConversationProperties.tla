------------------------ MODULE ConversationProperties ------------------------
(***************************************************************************)
(* What ConversationTurns promises.                                        *)
(***************************************************************************)
EXTENDS ConversationTurns

\* The conversation the tables record, whoever processes it: workers, leases,
\* retries and crashes are invisible in it.
Ledger == INSTANCE ConversationLedger WITH
  number <- turn, count <- turnNumber, committed <- Saved

\* The handler implements the ledger: numbers are consecutive and final, each
\* message is committed at most once, and each commit builds on all others.
ImplementsLedger == Ledger!Spec

\* conversation_facts accounts for exactly the turns that were saved: a worker
\* that computed on facts older than the table never writes them back
\* (upsert_fact with replace=True behind assert_lease in save_turn).
FactsKeepEveryTurn == facts = Saved

\* Saved turns form one history: no two of them were computed on the same
\* previous result (latest_result read under the lease that save_turn asserts).
SingleHistory ==
  \A m, n \in Saved :
    result[m].previous = result[n].previous => m = n

\* A message whose turn was saved is never reported as failed, whatever a
\* worker that outlived its lease still does (mark_failed).
CompletedNeverFailed == \A m \in Saved : status[m] # "failed"

-----------------------------------------------------------------------------
\* The strengthening that makes the three invariants above inductive.

\* Places where the request was found to have no result, and where it has read
\* its context.
AfterRead   == {"select", "recover", "insert_message", "process"}
AfterLookup == AfterRead \cup {"read", "failing"}

\* While a request's token is in the lease row, lapsed or not, what it read
\* from the tables is still what they say.
ContextIsCurrent == \A w \in Worker : Holds(w) =>
  /\ pc[w] \in AfterLookup => result[request[w].id] = None
  /\ pc[w] \in AfterRead =>
       context[w] = [previous |-> latest, facts |-> facts]

\* Nothing was built on the newest result yet, and results build on results.
HistoryIsOpen ==
  /\ latest \in Saved \cup {None}
  /\ \A m \in Saved : /\ result[m].previous \in Saved \cup {None}
                      /\ result[m].previous # latest

\* A message has all of its columns or none.
RowsConsistent ==
  /\ \A m \in MessageId : /\ Stored(m) <=> turn[m] # 0
                          /\ ~Stored(m) => text[m] = None /\ result[m] = None
  /\ \A w \in Worker :
       pc[w] \in {"recover", "process", "failing"} => Stored(request[w].id)

IInv ==
  /\ TypeOK
  /\ FactsKeepEveryTurn
  /\ SingleHistory
  /\ CompletedNeverFailed
  /\ ContextIsCurrent
  /\ HistoryIsOpen
  /\ RowsConsistent
-----------------------------------------------------------------------------

\* A message that append_message would ask the client to retry has no result:
\* otherwise the retry is answered as a duplicate, the message stays
\* unfinished, and every other message of the conversation is refused.
NotWedged == \A m \in Unfinished : result[m] = None

\* Turns are answered in the order of their numbers: when a turn is saved, so
\* is every stored message before it ("Retry the previous failed message
\* before starting another turn.").
AnsweredInOrder ==
  \A n \in Saved : \A m \in MessageId :
    Stored(m) /\ turn[m] < turn[n] => m \in Saved

\* Two requests are never inside the lease at once.
MutualExclusion ==
  \A v, w \in Worker : pc[v] \in Inside /\ pc[w] \in Inside => v = w

-----------------------------------------------------------------------------
\* The strengthening that makes these three inductive when no lease runs out
\* under a live worker.
LeaseCoversWork ==
  /\ expired => holder = Orphan
  /\ \A w \in Worker : pc[w] \in Inside => Holds(w)

OneUnfinished ==
  /\ \A m, n \in Unfinished : m = n
  /\ \A m \in MessageId : Stored(m) => m \in Unfinished \cup Saved
  /\ \A w \in Worker :
       /\ pc[w] = "insert_message" => Unfinished = {}
       /\ pc[w] \in {"recover", "process", "failing"} =>
            request[w].id \in Unfinished

TurnsBounded == \A m \in MessageId : turn[m] <= turnNumber

TInv ==
  /\ IInv
  /\ LeaseCoversWork
  /\ OneUnfinished
  /\ TurnsBounded
  /\ NotWedged
  /\ AnsweredInOrder
-----------------------------------------------------------------------------

\* Once a customer opted out the conversation stays suppressed.
OptOutIsFinal == [][state = Suppressed => state' = Suppressed]_state

\* A crashed or slow request delays the conversation but never locks it: the
\* lease becomes available again and again (the five-minute expiry).
LeaseIsNotForever == []<>(holder = Nobody \/ expired)

\* Every request is answered.
EveryRequestEnds ==
  \A w \in Worker : pc[w] # "idle" ~> pc[w] = "idle"
=============================================================================
