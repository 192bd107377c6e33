--------------------------- MODULE ProcessingLease ---------------------------
(***************************************************************************)
(* The row of table conversation_leases for one key, and the short         *)
(* transactions of ConversationStore.processing_lease and assert_lease on  *)
(* it.  The same context manager guards a conversation and, under another  *)
(* key, the CRM record of a lead; modules that need it bring their own     *)
(* program counters and use these operations as conjuncts of their         *)
(* actions.                                                                *)
(*                                                                         *)
(* A token is a fresh uuid per attempt.  A client runs one attempt at a    *)
(* time, so the model lets the client stand for its token; when a client's *)
(* process dies the token in the row belongs to nobody alive, which is     *)
(* Orphan.  The five minutes are abstracted to one bit, expired, that an   *)
(* environment step sets.                                                  *)
(***************************************************************************)

CONSTANTS
  Client,   \* whoever may hold the lease: one request being served
  Nobody,   \* the row does not exist
  Orphan,   \* the row exists, the process that wrote it is gone
  Timely    \* TRUE: a live client always finishes within the five minutes

ASSUME LeaseAssumption ==
  /\ Nobody # Orphan
  /\ {Nobody, Orphan} \cap Client = {}
  /\ Timely \in BOOLEAN

VARIABLES
  holder,   \* column token
  expired   \* expires_at is in the past

leaseVars == <<holder, expired>>

LeaseTypeOK ==
  /\ holder \in Client \cup {Nobody, Orphan}
  /\ expired \in BOOLEAN
  /\ holder = Nobody => ~expired

LeaseInit ==
  /\ holder = Nobody
  /\ expired = FALSE

-----------------------------------------------------------------------------
\* The row carries c's token, expired or not.
Holds(c) == holder = c

\* assert_lease returns: the row carries c's token and is not expired.  The row
\* is locked FOR UPDATE until the caller's transaction ends, so a step guarded
\* by LeaseValid may change the rest of the database in the same step.
\* (Mutant: the token is not compared.)
LeaseValidAnyToken(c) == holder # Nobody /\ ~expired
LeaseValid(c) == holder = c /\ ~expired

\* The UPDATE ... WHERE expires_at < now would match the row.
LeaseLapsed == holder # Nobody /\ expired

\* First transaction of processing_lease, rowcount 1.
\* (Mutant: expires_at is not compared.)
StealLeaseEarly(c) ==
  /\ holder # Nobody
  /\ holder' = c
  /\ expired' = FALSE
StealLease(c) ==
  /\ LeaseLapsed
  /\ holder' = c
  /\ expired' = FALSE

\* Second transaction of processing_lease: the INSERT meets no row.
InsertLease(c) ==
  /\ holder = Nobody
  /\ holder' = c
  /\ expired' = FALSE

\* The DELETE of the finally clause; it matches only c's own token.
\* (Mutant: the token is cleared and the row, with its expiry, stays.)
ReleaseLeaseKeepsRow(c) ==
  IF Holds(c)
  THEN holder' = Nobody /\ UNCHANGED expired
  ELSE UNCHANGED leaseVars
ReleaseLease(c) ==
  IF Holds(c)
  THEN holder' = Nobody /\ expired' = FALSE
  ELSE UNCHANGED leaseVars

\* c's process dies: the finally clause does not run.
AbandonLease(c) ==
  /\ holder' = IF Holds(c) THEN Orphan ELSE holder
  /\ UNCHANGED expired

\* Five minutes pass.
\* (Mutant: leases have no expiry.)
LeaseNeverRunsOut == FALSE /\ UNCHANGED leaseVars
LeaseRunsOut ==
  /\ holder # Nobody
  /\ ~expired
  /\ Timely => holder = Orphan
  /\ expired' = TRUE
  /\ UNCHANGED holder
=============================================================================
