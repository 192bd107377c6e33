----------------------------- MODULE KnowledgeTree -----------------------------
(***************************************************************************)
(* The page tree of the knowledge base in Notion and the two scripts that  *)
(* record its page ids: create_notion_knowledge_tree.py makes the missing  *)
(* pages and reuses the others, discover_notion_knowledge_tree.py only     *)
(* reads.  One maintainer runs one script at a time; each request is a     *)
(* step, and any of them may fail, or succeed and lose its reply.  People  *)
(* add pages and rewrite them meanwhile.                                   *)
(***************************************************************************)
EXTENDS KnowledgeChunks, FiniteSets

CONSTANTS
  Order,     \* the paths of PAGE_TREE, parents before their children
  KindOf,    \* what each leaf path describes
  Draft,     \* contents people may give a page
  Titles,    \* titles people may give a page they add
  Fake,      \* the page id of a dry run
  Torn,      \* a file whose writing was cut off
  MaxRetry,  \* _MAX_RETRY_429 and _MAX_RETRY_5XX
  MaxPages, MaxRuns, MaxWork  \* bounds: pages, script runs, what people do

Root == <<Order[1][1]>>
PathTitle == UNION {Range(Order[i]) : i \in DOMAIN Order}
ASSUME OrderAssumption ==
  /\ Order \in Seq(Seq(PathTitle) \ {<<>>}) \ {<<>>}
  /\ \A i, j \in DOMAIN Order : Order[i] = Order[j] => i = j
  /\ Order[1] = Root
  /\ \A i \in 2..Len(Order) :
       \E j \in 1..(i - 1) : Order[j] = Front(Order[i])

VARIABLES
  pages,  \* page id -> [parent, title, content, script]
  idMap,  \* notion_page_tree_ids.json
  job,    \* the script that runs
  runs, work

treeVars == <<pages, idMap, job, runs, work>>

Workspace == 0
Idle == [kind |-> "none"]
Busy(kind) == job.kind = kind

------------------------------------------------------------------------------
\* The content of a new page; folders have none.
ProductSections ==
  <<"Suitable For", "Key Experiences", "Typical Duration", "Best Season",
    "Pricing Notes", "Sales Follow-up Notes">>
DestinationSections ==
  <<"Region Overview", "Best For", "Travel Style", "Seasonality",
    "Operational Notes", "Sales Follow-up Notes">>
PricingSections ==
  <<"Pricing Variables", "Group Size", "Hotel Level", "Vehicle Type",
    "Guide Requirement", "Seasonal Factors", "Quotation Notes">>
FaqSections == <<"Common Questions", "Short Answers", "Sales Notes", "Risk Notes">>
SectionsOf ==
  [product |-> ProductSections, destination |-> DestinationSections,
   pricing |-> PricingSections, faq |-> FaqSections]
Block(kind, text) ==
  [id |-> <<kind, text>>, kind |-> kind, text |-> text, inner |-> <<>>, deep |-> FALSE]
PageContent(path) ==
  IF path \notin DOMAIN KindOf THEN <<>>
  ELSE LET sections == SectionsOf[KindOf[path]] IN
       FlattenSeq([i \in DOMAIN sections |->
         <<Block("heading_2", sections[i]), Block("bulleted_list_item", sections[i])>>])

------------------------------------------------------------------------------
\* Requests.
ChildrenOf(page) == {p \in DOMAIN pages : pages[p].parent = page}
Named(page, title) == {p \in ChildrenOf(page) : pages[p].title = title}
NewPage == Len(pages) + 1
PageMade(parent, title, content, script) ==
  /\ NewPage <= MaxPages
  /\ pages' = Append(pages, [parent |-> parent, title |-> title,
                             content |-> content, script |-> script])

\* Any request or read may fail, and any script be stopped; nothing is saved.
Fail == job # Idle /\ job' = Idle /\ UNCHANGED <<pages, idMap, runs, work>>

Start(j) ==
  /\ job = Idle /\ runs < MaxRuns
  /\ job' = j /\ runs' = runs + 1

------------------------------------------------------------------------------
\* create_notion_knowledge_tree.py

\* root: an existing page, whose title is not checked, or None to find or make
\* the root under the parent.
StartCreate(root) ==
  /\ root \in ChildrenOf(Workspace) \cup {None}
  /\ Start([kind |-> "create", next |-> IF root = None THEN 1 ELSE 2, absent |-> FALSE,
            map |-> IF root = None THEN <<>> ELSE [path \in {Root} |-> root]])
  /\ UNCHANGED <<pages, idMap, work>>

\* New entries of the map that a script builds (dict.update).
Extended(map, new) ==
  [path \in DOMAIN map \cup DOMAIN new |->
     IF path \in DOMAIN new THEN new[path] ELSE map[path]]

Creating == Busy("create") /\ job.next <= Len(Order)
Path == Order[job.next]
\* What handing on one parent to every level would do.
ParentFlat == IF job.next = 1 THEN Workspace ELSE job.map[Root]
ParentPage == IF job.next = 1 THEN Workspace ELSE job.map[Front(Path)]
Recorded(page) ==
  [job EXCEPT !.map = Extended(@, [path \in {Path} |-> page]), !.next = @ + 1,
              !.absent = FALSE]

\* What a run that looks only at its own map would find.
OwnPages == {}
\* A page with the title is reused, whoever made it; of several the last one.
Existing == Named(ParentPage, Last(Path))
ReusePage ==
  /\ Creating /\ ~job.absent
  /\ \E page \in Existing : job' = Recorded(page)
  /\ UNCHANGED <<pages, idMap, runs, work>>
FindAbsent ==
  /\ Creating /\ ~job.absent
  /\ Existing = {}
  /\ job' = [job EXCEPT !.absent = TRUE]
  /\ UNCHANGED <<pages, idMap, runs, work>>
CreatePage ==
  /\ Creating /\ job.absent
  /\ PageMade(ParentPage, Last(Path), PageContent(Path), TRUE)
  /\ job' = Recorded(NewPage)
  /\ UNCHANGED <<idMap, runs, work>>
\* The page is made and the reply lost: the script dies without its id.
LoseReply ==
  /\ Creating /\ job.absent
  /\ PageMade(ParentPage, Last(Path), PageContent(Path), TRUE)
  /\ job' = Idle
  /\ UNCHANGED <<idMap, runs, work>>

------------------------------------------------------------------------------
\* discover_notion_knowledge_tree.py

StartDiscover(root) ==
  /\ root \in ChildrenOf(Workspace)
  /\ Start([kind |-> "discover", checked |-> FALSE, stack |-> <<<<Root, root>>>>,
            map |-> [path \in {Root} |-> root], limited |-> 0, errors |-> 0])
  /\ UNCHANGED <<pages, idMap, work>>

\* A page of another title ends the script.
CheckRoot ==
  /\ Busy("discover") /\ ~job.checked
  /\ job' = IF pages[job.map[Root]].title # Root[1] THEN Idle
             ELSE [job EXCEPT !.checked = TRUE, !.limited = 0, !.errors = 0]
  /\ UNCHANGED <<pages, idMap, runs, work>>

\* Every request waits and tries again, with a budget for each kind of refusal.
\* What two budgets that renew each other would be.
SpentAfresh(j, budget) ==
  [[j EXCEPT !.limited = 0, !.errors = 0] EXCEPT ![budget] = j[budget] + 1]
Spent(j, budget) == [j EXCEPT ![budget] = @ + 1]
Waiting == Busy("discover") /\ (job.checked => job.stack # <<>>)
RateLimited ==
  /\ Waiting
  /\ job' = IF job.limited = MaxRetry THEN Idle ELSE Spent(job, "limited")
  /\ UNCHANGED <<pages, idMap, runs, work>>
ServerError ==
  /\ Waiting
  /\ job' = IF job.errors = MaxRetry THEN Idle ELSE Spent(job, "errors")
  /\ UNCHANGED <<pages, idMap, runs, work>>

\* One title twice under a page would give two pages one path.
Ambiguous(page) ==
  \E p, q \in ChildrenOf(page) : p # q /\ pages[p].title = pages[q].title
Found(path, page) ==
  {<<Append(path, pages[p].title), p>> : p \in ChildrenOf(page)}
AsMap(found) ==
  [path \in {f[1] : f \in found} |-> (CHOOSE f \in found : f[1] = path)[2]]
Visit ==
  /\ Busy("discover") /\ job.checked /\ job.stack # <<>>
  /\ LET top == Head(job.stack)
         found == Found(top[1], top[2])
     IN  job' = IF Ambiguous(top[2]) THEN Idle
                ELSE [job EXCEPT !.map = Extended(@, AsMap(found)), !.limited = 0, !.errors = 0,
                                 !.stack = SetToSeq(found) \o Tail(@)]
  /\ UNCHANGED <<pages, idMap, runs, work>>

------------------------------------------------------------------------------
\* Both write the map at their end, over the one that is there.
MapReady ==
  \/ Busy("create") /\ job.next > Len(Order)
  \/ Busy("discover") /\ job.checked /\ job.stack = <<>>
SaveMap ==
  /\ MapReady
  /\ idMap' \in {[by |-> job.kind, map |-> job.map], Torn}
  /\ job' = Idle
  /\ UNCHANGED <<pages, runs, work>>

\* Without a real key no request is made, and the file is written all the
\* same: creating records only its root, discovering a page for every path.
DryRun ==
  /\ Start(Idle)
  /\ idMap' \in {[by |-> "dry_run", map |-> [path \in paths |-> Fake]] :
                   paths \in {{Root}, Range(Order)}}
  /\ UNCHANGED <<pages, work>>

\* People add a page anywhere, or rewrite one that has a leaf's title.
LeafTitles == {Last(path) : path \in DOMAIN KindOf}
AddPage ==
  /\ work < MaxWork /\ work' = work + 1
  /\ \E parent \in DOMAIN pages \cup {Workspace}, title \in Titles :
       PageMade(parent, title, <<>>, FALSE)
  /\ UNCHANGED <<idMap, job, runs>>
Rewrite ==
  /\ work < MaxWork /\ work' = work + 1
  /\ \E p \in {p \in DOMAIN pages : pages[p].title \in LeafTitles}, content \in Draft :
       pages' = [pages EXCEPT ![p].content = content]
  /\ UNCHANGED <<idMap, job, runs>>

\* Nothing is there, or the whole tree with its recorded ids.
Position(path) == IF path = <<>> THEN Workspace ELSE CHOOSE i \in DOMAIN Order : Order[i] = path
WholeTree ==
  [i \in DOMAIN Order |->
     [parent |-> Position(Front(Order[i])), title |-> Last(Order[i]),
      content |-> PageContent(Order[i]), script |-> TRUE]]
WholeMap == [path \in Range(Order) |-> Position(path)]
TreeInit ==
  /\ \/ pages = <<>> /\ idMap = None
     \/ pages = WholeTree /\ idMap = [by |-> "create", map |-> WholeMap]
  /\ job = Idle /\ runs = 0 /\ work = 0

TreeStep ==
  \/ ReusePage \/ FindAbsent \/ CreatePage \/ LoseReply
  \/ CheckRoot \/ RateLimited \/ ServerError \/ Visit
  \/ SaveMap
TreeStart ==
  \/ \E root \in DOMAIN pages \cup {None} : StartCreate(root)
  \/ \E root \in DOMAIN pages : StartDiscover(root)
  \/ DryRun

------------------------------------------------------------------------------
\* Run after run, with lost replies, crashes and pages of people in between,
\* the script never makes a page where it has made one.
NoPageTwice ==
  \A p, q \in DOMAIN pages :
    /\ pages[p].script /\ pages[q].script
    /\ pages[p].parent = pages[q].parent /\ pages[p].title = pages[q].title
    => p = q

\* A saved map is a tree that is in Notion: every path leads from page to
\* child page under the title it names, no path is without its parent's, and a
\* map that a creation saved has every path.
SavedMapIsWhole ==
  idMap \notin {None, Torn} /\ idMap.by # "dry_run" =>
    /\ \A path \in DOMAIN idMap.map \ {Root} :
         /\ Front(path) \in DOMAIN idMap.map
         /\ pages[idMap.map[path]].title = Last(path)
         /\ pages[idMap.map[path]].parent = idMap.map[Front(path)]
    /\ idMap.by = "create" => DOMAIN idMap.map = Range(Order)
    /\ idMap.by = "discover" => pages[idMap.map[Root]].title = Root[1]

\* Discovery ends, saved or given up, however Notion refuses it.
DiscoveryEnds == Busy("discover") ~> ~Busy("discover")
=============================================================================
