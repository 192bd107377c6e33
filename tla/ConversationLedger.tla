-------------------------- MODULE ConversationLedger --------------------------
(***************************************************************************)
(* What a conversation's tables promise, without workers, leases, retries  *)
(* or crashes: messages are accepted under consecutive numbers, and each   *)
(* accepted message is committed at most once, in one step that builds on  *)
(* everything committed before it.                                         *)
(***************************************************************************)
EXTENDS Naturals

CONSTANTS MessageId, None

VARIABLES
  number,     \* turn number of an accepted message, 0 before
  count,      \* messages accepted so far
  committed,  \* messages whose turn is saved
  facts,      \* messages the customer facts account for
  latest      \* the newest committed message

ledgerVars == <<number, count, committed, facts, latest>>

Init ==
  /\ number = [m \in MessageId |-> 0]
  /\ count = 0
  /\ committed = {}
  /\ facts = {}
  /\ latest = None

Accept(m) ==
  /\ number[m] = 0
  /\ count' = count + 1
  /\ number' = [number EXCEPT ![m] = count + 1]
  /\ UNCHANGED <<committed, facts, latest>>

Commit(m) ==
  /\ number[m] # 0
  /\ m \notin committed
  /\ committed' = committed \cup {m}
  /\ facts' = facts \cup {m}
  /\ latest' = m
  /\ UNCHANGED <<number, count>>

Next == \E m \in MessageId : Accept(m) \/ Commit(m)

Spec == Init /\ [][Next]_ledgerVars
=============================================================================
