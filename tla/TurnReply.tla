------------------------------ MODULE TurnReply ------------------------------
(***************************************************************************)
(* What a reply is built from: the intents of a message, the sections of   *)
(* the knowledge snapshot that may ground it, and the product it may name  *)
(* (services/conversation_reply_composer.py, conversation_rag.py,          *)
(* product_recommendation.py, rag/retriever.py).                           *)
(*                                                                         *)
(* A section of the snapshot is a record: its region ("general" for rules  *)
(* that hold everywhere), the product page it belongs to or None, its      *)
(* heading, its rank for each intent, how many lines it gives a reply, the *)
(* numbers its text allows, and whether its translation is current.        *)
(***************************************************************************)
EXTENDS CustomerFacts

CONSTANTS
  Chunk,     \* the sections of the knowledge snapshot
  RegionOf   \* the region of each destination that is sold

IntentOrder == <<"pricing", "permit_payment", "itinerary", "product_overview">>
Collecting == <<"information_collection">>
BusinessIntent == Range(IntentOrder) \cup Range(Collecting)
KnowledgePlan(wanted) ==
  LET said == FlattenSeq([n \in DOMAIN IntentOrder |->
                IF IntentOrder[n] \in wanted THEN <<IntentOrder[n]>> ELSE <<>>])
  IN  IF said = <<>> THEN Collecting ELSE said
ASSUME SnapshotAssumption ==
  /\ \A c \in Chunk : c.rank \in [BusinessIntent -> Nat] /\ c.page \in Nat \cup {None}
  /\ None \notin DOMAIN RegionOf \cup Nat
\* A message that only adds details is answered under the intents of the
\* draft before it.
PlanFor(m, previous) ==
  IF m.wants = {} /\ previous # None /\ ~m.ack
  THEN KnowledgePlan(Range(previous)) ELSE KnowledgePlan(m.wants)

SettledDestination(t) ==
  IF "destination" \in Settled(t) THEN t["destination"].value[1] ELSE None
Regions == RegionOf
Region(place) == IF place \in DOMAIN Regions THEN Regions[place] ELSE None

\* A product is asked for by name of the intent, or by details given for a
\* destination that is known.
ProductRequested(m, intents, t, incoming) ==
  /\ ~m.ack
  /\ \/ {"product_overview", "itinerary"} \cap Range(intents) # {}
     \/ /\ SettledDestination(t) # None
        /\ \/ "pricing" \in Range(intents)
           \/ incoming # NoFacts /\ m.wants = {}

------------------------------------------------------------------------------
\* Evidence.  found: what both retrievals of the turn returned, by rank.

\* What retrieval alone guarantees.
InScopeAnywhere(c, place) == TRUE
InScope(c, place) == place = None \/ c.region \in {"general", Region(place)}
Before(found, intent, i, j) ==
  \/ found[i].rank[intent] < found[j].rank[intent]
  \/ found[i].rank[intent] = found[j].rank[intent] /\ i < j
\* The best section for an intent that is in scope and not chosen yet.
WithBest(found, place, chosen, intent) ==
  LET fresh == {i \in DOMAIN found : InScope(found[i], place) /\ found[i] \notin Range(chosen)}
  IN  IF fresh = {} THEN chosen
      ELSE Append(chosen, found[CHOOSE i \in fresh :
                                  \A j \in fresh : i = j \/ Before(found, intent, i, j)])
\* One section for each intent, then the best ones for the first; three in all.
SelectGrounding(found, intents, place) ==
  LET plan == intents \o <<intents[1], intents[1]>>
      one == WithBest(found, place, <<>>, plan[1])
      two == WithBest(found, place, one, plan[2])
  IN  WithBest(found, place, two, plan[3])

Snapshot == Chunk
ProductManuals(region) == {c \in Snapshot : c.page # None /\ c.region = region}
Has(manuals, page, heading) == \E c \in manuals : c.page = page /\ c.heading = heading
Part(manuals, page, heading) ==
  CHOOSE c \in manuals : c.page = page /\ c.heading = heading
Complete(manuals) ==
  {page \in {c.page : c \in manuals} :
     Has(manuals, page, "Suitable For") /\ Has(manuals, page, "Typical Duration")}
\* What the customer said that the manual has no standard option for.
Adjustments(manuals, page, t) ==
  {k \in {"group_size", "duration_days"} \cap Settled(t) :
     t[k].value[1] \notin
       Part(manuals, page,
            IF k = "group_size" THEN "Suitable For" ELSE "Typical Duration").fits}
\* The page that needs the fewest; pages are numbered in the order of their
\* products' names, which decides between equals.
RecommendProduct(manuals, t) ==
  LET pages == Complete(manuals)
      need(p) == Cardinality(Adjustments(manuals, p, t))
  IN  IF pages = {} THEN None
      ELSE CHOOSE p \in pages :
             \A q \in pages : need(p) < need(q) \/ (need(p) = need(q) /\ p <= q)
ProductChunks(manuals, page) ==
  <<Part(manuals, page, "Typical Duration"), Part(manuals, page, "Suitable For")>>

\* The product's two sections and at most one more: the first fitting rule
\* selected for a question about prices or payment, else the experiences on its
\* page.
WithProduct(page, manuals, chosen, intents) ==
  LET product == ProductChunks(manuals, page)
      extras == IF {"pricing", "permit_payment"} \cap Range(intents) # {} THEN chosen
                ELSE IF Has(manuals, page, "Key Experiences")
                     THEN <<Part(manuals, page, "Key Experiences")>> ELSE <<>>
      fit == {i \in DOMAIN extras :
                extras[i] \notin Range(product) /\ extras[i].page \in {None, page}}
  IN  product \o (IF fit = {} THEN <<>> ELSE <<extras[Min(fit)]>>)
\* A product was asked for and none is complete: only rules that hold everywhere.
WithoutProduct(chosen) ==
  FlattenSeq([i \in DOMAIN chosen |->
    IF chosen[i].region = "general" /\ chosen[i].page = None THEN <<chosen[i]>> ELSE <<>>])

------------------------------------------------------------------------------
\* The draft.  A reply shows a few lines, and cites the sections they are from.
ShownLines(channel) == IF channel = "email" THEN 4 ELSE 3
LinesBefore(chunks, i) == 
  SumFunctionOnSet([j \in DOMAIN chunks |-> chunks[j].lines], 1..(i - 1))
Cited(chunks, channel) ==
  {chunks[i] : i \in {j \in DOMAIN chunks : LinesBefore(chunks, j) < ShownLines(channel)}}
\* A shown line whose translation is not of the current text has to be checked.
Untranslated(cited, language) == language = "zh" /\ \E c \in cited : ~c.translated
=============================================================================
