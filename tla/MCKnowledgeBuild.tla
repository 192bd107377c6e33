--------------------------- MODULE MCKnowledgeBuild ---------------------------
EXTENDS KnowledgeBuild

CONSTANTS intro, extra, note

base == "AI Sales Knowledge Base"
tour == <<base, "Products", "Tibet Cultural Tour">>
faq == <<base, "Travel Permit and Payment FAQ">>
MCOrder == <<<<base>>, <<base, "Products">>, tour, faq>>
MCKindOf == [path \in {tour, faq} |-> IF path = tour THEN "product" ELSE "faq"]
MCTitles == {Last(faq)}
MCManifest == <<tour, faq>>

\* A page that begins before its first heading and hides notes in a toggle, the
\* page without headings that a reorganisation leaves, and one nested too far.
Toggle(inner, deep) ==
  [id |-> note, kind |-> "toggle", text |-> note, inner |-> inner, deep |-> deep]
MCDraft ==
  {<<Block("paragraph", intro), Block("heading_2", "Short Answers"),
     Toggle(<<Block("paragraph", extra)>>, FALSE), Block("heading_2", "Sales Notes")>>,
   <<Block("divider", None), Block("paragraph", intro)>>,
   <<Toggle(<<Block("paragraph", intro)>>, TRUE)>>}
=============================================================================
