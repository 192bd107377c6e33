----------------------------- MODULE NotionPages -----------------------------
(***************************************************************************)
(* The pages of one lead in the Notion data source, as NotionCrmWriter     *)
(* uses them: a request that was sent is applied at some later moment or   *)
(* never, and the sender may have given up by then.                        *)
(***************************************************************************)
EXTENDS Naturals, Sequences

CONSTANTS
  Sender,   \* whoever runs NotionCrmWriter.write
  Version   \* sync versions (job ids) of the lead

VARIABLES
  page,     \* the lead's pages: what their columns show, their version markers
  flight,   \* write requests sent and not applied
  writes    \* requests sent that are not safe to repeat, by version

notionVars == <<page, flight, writes>>

Kind == {"columns", "append", "create"}
PageRecord == [columns : Version, markers : SUBSET Version]
WriteRequest == [sender : Sender, kind : Kind, version : Version, at : Nat]

NotionTypeOK ==
  /\ page \in Seq(PageRecord)
  /\ flight \in SUBSET WriteRequest
  /\ writes \in [Version -> Nat]

NotionInit ==
  /\ page = <<>>
  /\ flight = {}
  /\ writes = [v \in Version |-> 0]

\* The marker paragraph "Sync Version: v" is on page i.
Marked(i, v) == v \in page[i].markers
Written(v) == \E i \in DOMAIN page : Marked(i, v)

\* PATCH of the columns: idempotent, so the client may repeat it.
SendRepeatable(q) ==
  /\ flight' = flight \cup {q}
  /\ UNCHANGED <<page, writes>>

\* POST of a page, PATCH that appends blocks: retry_safe=False.
SendOnce(q) ==
  /\ flight' = flight \cup {q}
  /\ writes' = [writes EXCEPT ![q.version] = @ + 1]
  /\ UNCHANGED page

\* Notion executes a request.
Apply(q) ==
  /\ q \in flight
  /\ flight' = flight \ {q}
  /\ page' =
       CASE q.kind = "create" ->
              Append(page, [columns |-> q.version, markers |-> {q.version}])
         [] q.kind = "columns" -> [page EXCEPT ![q.at].columns = q.version]
         [] q.kind = "append" ->
              [page EXCEPT ![q.at].markers = @ \cup {q.version}]
  /\ UNCHANGED writes
=============================================================================
