------------------------- MODULE KnowledgeBuildProofs -------------------------
(***************************************************************************)
(* However often the scripts fail, lose a reply or are run again, no page  *)
(* of the tree is made twice, and the map that a script saved is a tree    *)
(* that is in Notion, for any tree of pages and whatever people add; and   *)
(* what a server loads holds a whole reading of every page.                *)
(***************************************************************************)
EXTENDS KnowledgeBuild, SequenceTheorems, FiniteSetTheorems, TLAPS

PageTitle == PathTitle \cup Titles
PagePath == Seq(PageTitle) \ {<<>>}
AnyContent == {<<>>} \cup Draft \cup {PageContent(path) : path \in Range(Order)}
PageRecord ==
  [parent : Nat, title : PageTitle, content : AnyContent, script : BOOLEAN]

\* Every path of the map leads from page to child page under its own title.
Grounded(tree, map) ==
  \A path \in DOMAIN map :
    /\ map[path] \in DOMAIN tree
    /\ path # Root =>
         /\ Front(path) \in DOMAIN map
         /\ tree[map[path]].title = Last(path)
         /\ tree[map[path]].parent = map[Front(path)]

\* Creating: the map has the paths up to the next one; what was found absent can
\* have been added by people only.
CreateInv ==
  /\ Busy("create")
  /\ job = [kind |-> "create", next |-> job.next, absent |-> job.absent, map |-> job.map]
  /\ job.next \in 1..(Len(Order) + 1)
  /\ job.absent \in BOOLEAN
  /\ DOMAIN job.map = {Order[i] : i \in 1..(job.next - 1)}
  /\ Grounded(pages, job.map)
  /\ Creating /\ job.absent => \A p \in Existing : ~pages[p].script

\* Discovering: the stack has pages of the map, each once, whose children are not
\* in the map yet.
DiscoverInv ==
  /\ Busy("discover")
  /\ job = [kind |-> "discover", checked |-> job.checked, stack |-> job.stack,
            map |-> job.map, limited |-> job.limited, errors |-> job.errors]
  /\ job.checked \in BOOLEAN
  /\ job.stack \in Seq(PagePath \X Nat)
  /\ Root \in DOMAIN job.map
  /\ DOMAIN job.map \subseteq PagePath
  /\ Grounded(pages, job.map)
  /\ job.checked => pages[job.map[Root]].title = Root[1]
  /\ \A i \in DOMAIN job.stack :
       /\ job.stack[i][1] \in DOMAIN job.map
       /\ job.map[job.stack[i][1]] = job.stack[i][2]
       /\ \A path \in DOMAIN job.map : Front(path) # job.stack[i][1]
  /\ \A i, j \in DOMAIN job.stack : job.stack[i][1] = job.stack[j][1] => i = j

SnapshotInv ==
  /\ Busy("snapshot")
  /\ job = [kind |-> "snapshot", map |-> job.map, docs |-> job.docs, rest |-> job.rest,
            read |-> job.read]

JobInv == job = Idle \/ CreateInv \/ DiscoverInv \/ SnapshotInv

SavedInv ==
  \/ idMap \in {None, Torn}
  \/ idMap.by = "dry_run"
  \/ /\ Grounded(pages, idMap.map)
     /\ idMap.by = "create" => DOMAIN idMap.map = Range(Order)
     /\ idMap.by = "discover" =>
          Root \in DOMAIN idMap.map /\ pages[idMap.map[Root]].title = Root[1]

KnowledgeInv ==
  /\ pages \in Seq(PageRecord)
  /\ NoPageTwice
  /\ JobInv
  /\ SavedInv

------------------------------------------------------------------------------
\* Paths.

LEMMA FrontAndLast ==
  ASSUME NEW T, NEW s \in Seq(T) \ {<<>>}
  PROVE  /\ Front(s) \in Seq(T) /\ Last(s) \in T
         /\ Len(s) >= 1 /\ Len(Front(s)) = Len(s) - 1 /\ Front(s) # s
         /\ \A i \in 1..(Len(s) - 1) : Front(s)[i] = s[i]
<1>1. Len(s) \in Nat /\ Len(s) >= 1
  OBVIOUS
<1>2. \A i \in 1..Len(s) : s[i] \in T
  OBVIOUS
<1>3. Front(s) = [i \in 1..(Len(s) - 1) |-> s[i]]
  BY <1>1 DEF Front
<1>4. Front(s) \in Seq(T) /\ Len(Front(s)) = Len(s) - 1
  BY <1>1, <1>2, <1>3
<1>5. Last(s) \in T
  BY <1>1, <1>2 DEF Last
<1>6. Front(s) # s
  BY <1>1, <1>4
<1>7. \A i \in 1..(Len(s) - 1) : Front(s)[i] = s[i]
  BY <1>3
<1> QED BY <1>1, <1>4, <1>5, <1>6, <1>7

LEMMA SameFrontAndLast ==
  ASSUME NEW T, NEW s \in Seq(T) \ {<<>>}, NEW t \in Seq(T) \ {<<>>},
         Front(s) = Front(t), Last(s) = Last(t)
  PROVE  s = t
<1>1. Len(s) = Len(t) /\ Len(s) \in Nat
  BY FrontAndLast
<1>2. \A i \in 1..Len(s) : s[i] = t[i]
  <2> SUFFICES ASSUME NEW i \in 1..Len(s) PROVE s[i] = t[i]
    OBVIOUS
  <2>1. CASE i = Len(s)
    BY <1>1, <2>1 DEF Last
  <2>2. CASE i # Len(s)
    <3>1. i \in 1..(Len(s) - 1)
      BY <1>1, <2>2
    <3>2. Front(s)[i] = s[i] /\ Front(t)[i] = t[i]
      BY <1>1, <3>1, FrontAndLast
    <3> QED BY <3>2
  <2> QED BY <2>1, <2>2
<1> QED BY <1>1, <1>2

LEMMA AppendedPath ==
  ASSUME NEW T, NEW s \in Seq(T), NEW e \in T
  PROVE  /\ Append(s, e) \in Seq(T) \ {<<>>}
         /\ Front(Append(s, e)) = s
         /\ Last(Append(s, e)) = e
BY DEF Front, Last

\* The tree to make: paths are known by their place in it, the root is the first,
\* and every other path's parent comes before it.
LEMMA OrderedPaths ==
  /\ Len(Order) \in Nat /\ Len(Order) >= 1 /\ DOMAIN Order = 1..Len(Order)
  /\ \A i \in DOMAIN Order : Order[i] \in PagePath
  /\ Order[1] = Root /\ Root \in PagePath
  /\ \A i \in DOMAIN Order : Order[i] = Root => i = 1
  /\ \A i \in 2..Len(Order) : \E j \in 1..(i - 1) : Order[j] = Front(Order[i])
  /\ Front(Root) = <<>>
<1> USE OrderAssumption DEF OrderAssumption
<1>1. Len(Order) \in Nat /\ Len(Order) >= 1 /\ DOMAIN Order = 1..Len(Order)
  OBVIOUS
<1>2. ASSUME NEW i \in DOMAIN Order PROVE Order[i] \in PagePath
  <2>1. Order[i] \in Seq(PathTitle) \ {<<>>}
    BY <1>1
  <2>2. PathTitle \subseteq PageTitle
    BY DEF PageTitle
  <2> QED BY <2>1, <2>2 DEF PagePath
<1>3. Root \in PagePath
  BY <1>1, <1>2
<1>4. Front(Root) = <<>>
  BY DEF Root, Front
<1> QED BY <1>1, <1>2, <1>3, <1>4

LEMMA PositionOf ==
  /\ \A i \in DOMAIN Order : Position(Order[i]) = i
  /\ Position(<<>>) = Workspace
<1>1. ASSUME NEW i \in DOMAIN Order PROVE Position(Order[i]) = i
  <2>1. Order[i] # <<>>
    BY OrderedPaths DEF PagePath
  <2>2. \A j \in DOMAIN Order : Order[j] = Order[i] => j = i
    BY OrderAssumption DEF OrderAssumption
  <2> QED BY <2>1, <2>2 DEF Position
<1> QED BY <1>1 DEF Position

------------------------------------------------------------------------------
\* Maps.

\* New paths whose parents are there leave the map grounded.
LEMMA ExtendedIsGrounded ==
  ASSUME NEW tree, NEW map, NEW new, Grounded(tree, map),
         DOMAIN new \cap DOMAIN map = {},
         \A path \in DOMAIN new :
           /\ new[path] \in DOMAIN tree
           /\ path # Root =>
                /\ Front(path) \in DOMAIN map
                /\ tree[new[path]].title = Last(path)
                /\ tree[new[path]].parent = map[Front(path)]
  PROVE  Grounded(tree, Extended(map, new))
<1> DEFINE m == Extended(map, new)
<1>1. /\ DOMAIN m = DOMAIN map \cup DOMAIN new
      /\ \A path \in DOMAIN map : m[path] = map[path]
      /\ \A path \in DOMAIN new : m[path] = new[path]
  BY DEF Extended
<1> HIDE DEF m
<1> SUFFICES ASSUME NEW path \in DOMAIN m
             PROVE  /\ m[path] \in DOMAIN tree
                    /\ path # Root =>
                         /\ Front(path) \in DOMAIN m
                         /\ tree[m[path]].title = Last(path)
                         /\ tree[m[path]].parent = m[Front(path)]
  BY DEF Grounded, m
<1>2. CASE path \in DOMAIN map
  BY <1>1, <1>2 DEF Grounded
<1>3. CASE path \in DOMAIN new
  BY <1>1, <1>3
<1> QED BY <1>1, <1>2, <1>3

\* Pages are never removed, moved or renamed.
Kept ==
  /\ DOMAIN pages \subseteq DOMAIN pages'
  /\ \A p \in DOMAIN pages : /\ pages'[p].title = pages[p].title
                             /\ pages'[p].parent = pages[p].parent
                             /\ pages'[p].script = pages[p].script

LEMMA GroundedStays ==
  ASSUME Kept, NEW map, Grounded(pages, map)
  PROVE  Grounded(pages', map)
<1>1. ASSUME NEW path \in DOMAIN map
      PROVE  /\ map[path] \in DOMAIN pages'
             /\ path # Root =>
                  /\ Front(path) \in DOMAIN map
                  /\ pages'[map[path]].title = Last(path)
                  /\ pages'[map[path]].parent = map[Front(path)]
  BY <1>1 DEF Kept, Grounded
<1> QED BY <1>1 DEF Grounded

\* A page that is made is new, and the others stay as they are.
LEMMA MadeIsNew ==
  ASSUME pages \in Seq(PageRecord), NEW parent \in Nat, NEW title \in PageTitle,
         NEW content \in AnyContent, NEW script \in BOOLEAN,
         PageMade(parent, title, content, script)
  PROVE  /\ pages' \in Seq(PageRecord) /\ Kept
         /\ NewPage \notin DOMAIN pages /\ NewPage \in Nat
         /\ DOMAIN pages' = DOMAIN pages \cup {NewPage}
         /\ \A p \in DOMAIN pages : pages'[p] = pages[p]
         /\ pages'[NewPage].parent = parent /\ pages'[NewPage].title = title
         /\ pages'[NewPage].script = script
<1> DEFINE r == [parent |-> parent, title |-> title, content |-> content,
                 script |-> script]
<1>1. r \in PageRecord /\ pages' = Append(pages, r)
  BY DEF PageMade, PageRecord
<1>2. r.parent = parent /\ r.title = title /\ r.script = script
  OBVIOUS
<1> HIDE DEF r
<1>3. /\ pages' \in Seq(PageRecord)
      /\ Len(pages) \in Nat /\ DOMAIN pages = 1..Len(pages)
      /\ DOMAIN pages' = 1..(Len(pages) + 1)
      /\ \A p \in DOMAIN pages : pages'[p] = pages[p]
      /\ pages'[Len(pages) + 1] = r
  BY <1>1
<1>4. DOMAIN pages' = DOMAIN pages \cup {Len(pages) + 1} /\ Len(pages) + 1 \notin DOMAIN pages
  BY <1>3
<1> QED BY <1>2, <1>3, <1>4 DEF Kept, NewPage

------------------------------------------------------------------------------
\* The initial states.

LEMMA WholeTreeIsOne ==
  ASSUME pages = WholeTree
  PROVE  /\ pages \in Seq(PageRecord)
         /\ NoPageTwice
         /\ Grounded(pages, WholeMap)
<1> USE OrderedPaths
<1>1. ASSUME NEW i \in DOMAIN Order
      PROVE  /\ Front(Order[i]) = <<>> \/ \E j \in DOMAIN Order : Order[j] = Front(Order[i])
             /\ i # 1 => \E j \in DOMAIN Order : Order[j] = Front(Order[i])
             /\ Front(Order[1]) = <<>>
  BY <1>1
<1>2. \A i \in DOMAIN Order : Position(Front(Order[i])) \in Nat
  BY <1>1, PositionOf DEF Workspace
<1>3. DOMAIN pages = DOMAIN Order
  BY DEF WholeTree
<1>4. ASSUME NEW i \in DOMAIN Order
      PROVE  /\ pages[i].parent = Position(Front(Order[i]))
             /\ pages[i].title = Last(Order[i])
             /\ pages[i] \in PageRecord
  <2>1. pages[i] = [parent |-> Position(Front(Order[i])), title |-> Last(Order[i]),
                    content |-> PageContent(Order[i]), script |-> TRUE]
    BY DEF WholeTree
  <2>2. Last(Order[i]) \in PageTitle
    BY FrontAndLast DEF PagePath
  <2>3. PageContent(Order[i]) \in AnyContent
    BY DEF AnyContent, Range
  <2> QED BY <1>2, <2>1, <2>2, <2>3 DEF PageRecord
<1>5. pages \in Seq(PageRecord)
  <2>1. pages = [i \in 1..Len(Order) |-> pages[i]]
    BY DEF WholeTree
  <2> QED BY <1>4, <2>1
<1>6. NoPageTwice
  <2> SUFFICES ASSUME NEW p \in DOMAIN Order, NEW q \in DOMAIN Order,
                      Position(Front(Order[p])) = Position(Front(Order[q])),
                      Last(Order[p]) = Last(Order[q])
               PROVE  p = q
    BY <1>3, <1>4 DEF NoPageTwice
  <2>1. Front(Order[p]) = Front(Order[q])
    <3>1. \A i \in DOMAIN Order : Position(Order[i]) = i /\ i # Workspace
      BY PositionOf DEF Workspace
    <3> QED BY <1>1, <3>1, PositionOf
  <2>2. Order[p] = Order[q]
    BY <2>1, SameFrontAndLast DEF PagePath
  <2> QED BY <2>2, OrderAssumption DEF OrderAssumption
<1>7. Grounded(pages, WholeMap)
  <2>1. DOMAIN WholeMap = Range(Order)
        /\ \A path \in Range(Order) : WholeMap[path] = Position(path)
    BY DEF WholeMap
  <2>2. \A i \in DOMAIN Order : Order[i] \in Range(Order) /\ WholeMap[Order[i]] = i
    BY <2>1, PositionOf DEF Range
  <2> SUFFICES ASSUME NEW path \in Range(Order)
               PROVE  /\ WholeMap[path] \in DOMAIN pages
                      /\ path # Root =>
                           /\ Front(path) \in Range(Order)
                           /\ pages[WholeMap[path]].title = Last(path)
                           /\ pages[WholeMap[path]].parent = WholeMap[Front(path)]
    BY <2>1 DEF Grounded
  <2> PICK i \in DOMAIN Order : path = Order[i]
    BY DEF Range
  <2>3. CASE i = 1
    BY <1>3, <2>2, <2>3
  <2>4. CASE i # 1
    <3>1. PICK j \in DOMAIN Order : Order[j] = Front(Order[i])
      BY <1>1, <2>4
    <3>2. Position(Front(Order[i])) = j /\ WholeMap[Front(Order[i])] = j
          /\ Front(Order[i]) \in Range(Order)
      BY <2>2, <3>1, PositionOf
    <3> QED BY <1>3, <1>4, <2>2, <3>2
  <2> QED BY <2>3, <2>4
<1> QED BY <1>5, <1>6, <1>7

LEMMA KnowledgeInit == Init => KnowledgeInv
<1> SUFFICES ASSUME Init PROVE KnowledgeInv
  OBVIOUS
<1>1. JobInv
  BY DEF Init, TreeInit, JobInv
<1>2. CASE pages = <<>> /\ idMap = None
  BY <1>1, <1>2 DEF KnowledgeInv, NoPageTwice, SavedInv
<1>3. CASE pages = WholeTree /\ idMap = [by |-> "create", map |-> WholeMap]
  <2>1. DOMAIN WholeMap = Range(Order)
    BY DEF WholeMap
  <2> QED BY <1>1, <1>3, <2>1, WholeTreeIsOne DEF KnowledgeInv, SavedInv
<1> QED BY <1>2, <1>3 DEF Init, TreeInit

------------------------------------------------------------------------------
\* What goes on around a script leaves what it has gathered valid: pages are only
\* added, and none by another script.
LEMMA JobStays ==
  ASSUME JobInv, Kept, job' = job,
         \A p \in DOMAIN pages' \ DOMAIN pages : ~pages'[p].script
  PROVE  JobInv'
<1>1. CASE job = Idle
  BY <1>1 DEF JobInv
<1>2. CASE CreateInv
  <2>1. Grounded(pages', job.map)
    BY <1>2, GroundedStays DEF CreateInv
  <2>2. ASSUME Creating, job.absent, NEW p \in DOMAIN pages',
               pages'[p].parent = ParentPage, pages'[p].title = Last(Path)
        PROVE  ~pages'[p].script
    <3>1. CASE p \in DOMAIN pages
      <4>1. p \in Existing
        BY <2>2, <3>1 DEF Kept, Existing, Named, ChildrenOf
      <4> QED BY <1>2, <2>2, <3>1, <4>1 DEF CreateInv, Kept
    <3> QED BY <3>1
  <2>3. Creating' = Creating /\ ParentPage' = ParentPage /\ Path' = Path
    BY DEF Creating, Busy, ParentPage, Path
  <2>4. Creating' /\ job'.absent => \A p \in Existing' : ~pages'[p].script
    BY <2>2, <2>3 DEF Existing, Named, ChildrenOf
  <2>5. CreateInv'
    BY <1>2, <2>1, <2>4 DEF CreateInv, Busy
  <2> QED BY <2>5 DEF JobInv
<1>3. CASE DiscoverInv
  <2>1. Grounded(pages', job.map)
    BY <1>3, GroundedStays DEF DiscoverInv
  <2>2. job.checked => pages'[job.map[Root]].title = Root[1]
    BY <1>3 DEF DiscoverInv, Grounded, Kept
  <2>3. DiscoverInv'
    BY <1>3, <2>1, <2>2 DEF DiscoverInv, Busy
  <2> QED BY <2>3 DEF JobInv
<1>4. CASE SnapshotInv
  BY <1>4 DEF JobInv, SnapshotInv, Busy
<1> QED BY <1>1, <1>2, <1>3, <1>4 DEF JobInv

LEMMA SavedStays ==
  ASSUME SavedInv, Kept, idMap' = idMap
  PROVE  SavedInv'
<1> SUFFICES ASSUME idMap \notin {None, Torn}, idMap.by # "dry_run"
             PROVE  SavedInv'
  BY DEF SavedInv
<1>1. Grounded(pages, idMap.map)
  BY DEF SavedInv
<1>2. Grounded(pages', idMap.map)
  BY <1>1, GroundedStays
<1>3. idMap.by = "discover" =>
        Root \in DOMAIN idMap.map /\ pages'[idMap.map[Root]].title = Root[1]
  BY <1>1 DEF SavedInv, Grounded, Kept
<1> QED BY <1>2, <1>3 DEF SavedInv

LEMMA NothingChanges == pages' = pages => Kept
BY DEF Kept

------------------------------------------------------------------------------
\* Creating.

LEMMA StartCreateKeeps ==
  ASSUME NEW root \in DOMAIN pages \cup {None}, StartCreate(root)
  PROVE  CreateInv'
<1> USE OrderedPaths
<1> DEFINE m == IF root = None THEN <<>> ELSE [path \in {Root} |-> root]
           n == IF root = None THEN 1 ELSE 2
<1>1. /\ job' = [kind |-> "create", next |-> n, absent |-> FALSE, map |-> m]
      /\ pages' = pages
      /\ root # None => root \in DOMAIN pages
  BY DEF StartCreate, Start
<1>2. DOMAIN m = {Order[i] : i \in 1..(n - 1)}
  <2>1. CASE root = None
    BY <2>1
  <2>2. CASE root # None
    <3>1. {Order[i] : i \in 1..1} = {Root}
      OBVIOUS
    <3> QED BY <2>2, <3>1
  <2> QED BY <2>1, <2>2
<1>3. Grounded(pages', m)
  BY <1>1 DEF Grounded
<1>4. n \in 1..(Len(Order) + 1)
  OBVIOUS
<1> HIDE DEF m, n
<1> QED BY <1>1, <1>2, <1>3, <1>4 DEF CreateInv, Busy

LEMMA RecordedKeeps ==
  ASSUME CreateInv, Creating, Kept,
         NEW page \in DOMAIN pages', pages'[page].parent = ParentPage,
         pages'[page].title = Last(Path), job' = Recorded(page)
  PROVE  CreateInv'
<1> USE OrderedPaths
<1>1. PICK m, n : m = job.map /\ n = job.next
  OBVIOUS
<1>2. PICK new : new = [path \in {Order[n]} |-> page]
  OBVIOUS
<1>3. PICK absent : absent = job.absent
  OBVIOUS
<1>4. /\ n \in 1..Len(Order) /\ Path = Order[n]
      /\ DOMAIN m = {Order[i] : i \in 1..(n - 1)}
      /\ Grounded(pages, m)
      /\ job = [kind |-> "create", next |-> n, absent |-> absent, map |-> m]
  BY <1>1, <1>3 DEF CreateInv, Creating, Path
<1>5. job' = [kind |-> "create", next |-> n + 1, absent |-> FALSE,
              map |-> Extended(m, new)]
  <2>1. job' = [job EXCEPT !.map = Extended(job.map, new), !.next = job.next + 1,
                           !.absent = FALSE]
    BY <1>1, <1>2, <1>4 DEF Recorded
  <2> QED BY <1>4, <2>1
<1>6. DOMAIN new = {Order[n]} /\ new[Order[n]] = page
  BY <1>2
<1>7. Order[n] \notin DOMAIN m
  <2>1. ASSUME NEW i \in 1..(n - 1) PROVE Order[i] # Order[n]
    <3>1. i \in DOMAIN Order /\ n \in DOMAIN Order /\ i # n
      BY <1>4
    <3> QED BY <3>1, OrderAssumption DEF OrderAssumption
  <2> QED BY <1>4, <2>1
<1>8. DOMAIN Extended(m, new) = {Order[i] : i \in 1..n}
  <2>1. DOMAIN Extended(m, new) = DOMAIN m \cup {Order[n]}
    BY <1>6 DEF Extended
  <2>2. 1..n = (1..(n - 1)) \cup {n}
    BY <1>4
  <2> QED BY <1>4, <2>1, <2>2
<1>9. Order[n] # Root => Front(Order[n]) \in DOMAIN m /\ ParentPage = m[Front(Order[n])]
  <2> SUFFICES ASSUME Order[n] # Root
               PROVE  Front(Order[n]) \in DOMAIN m /\ ParentPage = m[Front(Order[n])]
    OBVIOUS
  <2>1. n \in 2..Len(Order)
    BY <1>4
  <2>2. Front(Order[n]) \in DOMAIN m
    BY <1>4, <2>1
  <2> QED BY <1>1, <1>4, <2>1, <2>2 DEF ParentPage
<1>10. Grounded(pages', Extended(m, new))
  <2>1. Grounded(pages', m)
    BY <1>4, GroundedStays
  <2>2. \A path \in DOMAIN new :
          /\ new[path] \in DOMAIN pages'
          /\ path # Root => /\ Front(path) \in DOMAIN m
                            /\ pages'[new[path]].title = Last(path)
                            /\ pages'[new[path]].parent = m[Front(path)]
    BY <1>4, <1>6, <1>9
  <2>3. DOMAIN new \cap DOMAIN m = {}
    BY <1>6, <1>7
  <2> QED BY <2>1, <2>2, <2>3, ExtendedIsGrounded
<1>11. n + 1 \in 1..(Len(Order) + 1) /\ n + 1 - 1 = n
  BY <1>4
<1>12. /\ job'.kind = "create" /\ job'.next = n + 1 /\ job'.absent = FALSE
       /\ job'.map = Extended(m, new)
  BY <1>5
<1>13. Grounded(pages, job.map)'
  BY <1>10, <1>12 DEF Grounded
<1>14. DOMAIN job'.map = {Order[i] : i \in 1..(job'.next - 1)}
  <2>1. job'.next - 1 = n
    <3>1. n \in Nat
      BY <1>4
    <3> QED BY <1>12, <3>1
  <2> QED BY <1>8, <1>12, <2>1
<1>15. job' = [kind |-> "create", next |-> job'.next, absent |-> job'.absent,
               map |-> job'.map]
  BY <1>5, <1>12
<1> QED BY <1>11, <1>12, <1>13, <1>14, <1>15 DEF CreateInv, Busy

LEMMA FindAbsentKeeps ==
  ASSUME CreateInv, FindAbsent
  PROVE  CreateInv'
<1>1. /\ job' = [job EXCEPT !.absent = TRUE]
      /\ pages' = pages /\ Existing = {}
  BY DEF FindAbsent
<1> PICK n, a, m : job = [kind |-> "create", next |-> n, absent |-> a, map |-> m]
  BY DEF CreateInv
<1>2. /\ job' = [kind |-> "create", next |-> job'.next, absent |-> job'.absent,
                 map |-> job'.map]
      /\ job'.next = job.next /\ job'.map = job.map /\ job'.absent = TRUE
      /\ job'.kind = "create"
  BY <1>1
<1>3. Existing' = {}
  BY <1>1, <1>2 DEF Existing, Named, ChildrenOf, ParentPage, Path
<1> QED BY <1>1, <1>2, <1>3 DEF CreateInv, Busy, Grounded

\* The page that is made has the title and the parent that no page of a script
\* had when they were looked for, and people's pages are not the scripts'.
LEMMA MadeOnce ==
  ASSUME pages \in Seq(PageRecord), NoPageTwice, CreateInv, Creating, job.absent,
         PageMade(ParentPage, Last(Path), PageContent(Path), TRUE)
  PROVE  /\ pages' \in Seq(PageRecord) /\ Kept /\ NoPageTwice'
         /\ NewPage \in DOMAIN pages'
         /\ pages'[NewPage].parent = ParentPage
         /\ pages'[NewPage].title = Last(Path)
<1> USE OrderedPaths
<1>1. /\ job.next \in DOMAIN Order /\ Path = Order[job.next]
      /\ DOMAIN job.map = {Order[i] : i \in 1..(job.next - 1)}
      /\ Grounded(pages, job.map)
      /\ \A p \in Existing : ~pages[p].script
  BY DEF CreateInv, Creating, Path
<1>2. Last(Path) \in PageTitle
  BY <1>1, FrontAndLast DEF PagePath
<1>3. ParentPage \in Nat
  <2>1. CASE job.next = 1
    BY <2>1 DEF ParentPage, Workspace
  <2>2. CASE job.next # 1
    <3>1. job.next \in 2..Len(Order)
      BY <1>1, <2>2
    <3>2. Front(Path) \in DOMAIN job.map
      BY <1>1, <3>1
    <3>3. ParentPage \in DOMAIN pages
      BY <1>1, <2>2, <3>2 DEF ParentPage, Grounded
    <3> QED BY <3>3
  <2> QED BY <2>1, <2>2
<1>4. PageContent(Path) \in AnyContent
  BY <1>1 DEF AnyContent, Range
<1>5. /\ pages' \in Seq(PageRecord) /\ Kept
      /\ NewPage \notin DOMAIN pages
      /\ DOMAIN pages' = DOMAIN pages \cup {NewPage}
      /\ \A p \in DOMAIN pages : pages'[p] = pages[p]
      /\ pages'[NewPage].parent = ParentPage /\ pages'[NewPage].title = Last(Path)
  BY <1>2, <1>3, <1>4, MadeIsNew
<1>6. ASSUME NEW p \in DOMAIN pages, pages[p].script
      PROVE  ~(pages[p].parent = ParentPage /\ pages[p].title = Last(Path))
  BY <1>1, <1>6 DEF Existing, Named, ChildrenOf
<1>7. NoPageTwice'
  <2> SUFFICES ASSUME NEW p \in DOMAIN pages', NEW q \in DOMAIN pages',
                      pages'[p].script, pages'[q].script,
                      pages'[p].parent = pages'[q].parent,
                      pages'[p].title = pages'[q].title
               PROVE  p = q
    BY DEF NoPageTwice
  <2>1. CASE p \in DOMAIN pages /\ q \in DOMAIN pages
    BY <1>5, <2>1 DEF NoPageTwice
  <2>2. CASE p = NewPage /\ q \in DOMAIN pages
    BY <1>5, <1>6, <2>2
  <2>3. CASE q = NewPage /\ p \in DOMAIN pages
    BY <1>5, <1>6, <2>3
  <2> QED BY <1>5, <2>1, <2>2, <2>3
<1> QED BY <1>5, <1>7

------------------------------------------------------------------------------
\* Discovering.

LEMMA StartDiscoverKeeps ==
  ASSUME pages \in Seq(PageRecord), NEW root \in DOMAIN pages, StartDiscover(root)
  PROVE  DiscoverInv'
<1> USE OrderedPaths
<1> DEFINE m == [path \in {Root} |-> root]
           s == <<<<Root, root>>>>
<1>1. /\ job' = [kind |-> "discover", checked |-> FALSE, stack |-> s, map |-> m,
                 limited |-> 0, errors |-> 0]
      /\ pages' = pages
  BY DEF StartDiscover, Start
<1>2. /\ DOMAIN m = {Root} /\ m[Root] = root
      /\ s \in Seq(PagePath \X Nat) /\ DOMAIN s = {1} /\ s[1] = <<Root, root>>
      /\ Front(Root) # Root
  BY DEF PagePath
<1> HIDE DEF m, s
<1>3. /\ job'.kind = "discover" /\ job'.checked = FALSE /\ job'.stack = s
      /\ job'.map = m
      /\ job' = [kind |-> "discover", checked |-> job'.checked, stack |-> job'.stack,
                 map |-> job'.map, limited |-> job'.limited, errors |-> job'.errors]
  BY <1>1
<1>4. Grounded(pages', m)
  BY <1>1, <1>2 DEF Grounded
<1>5. /\ Root \in DOMAIN m /\ DOMAIN m \subseteq PagePath
      /\ \A i \in DOMAIN s : /\ s[i][1] \in DOMAIN m /\ m[s[i][1]] = s[i][2]
                            /\ \A path \in DOMAIN m : Front(path) # s[i][1]
      /\ \A i, j \in DOMAIN s : s[i][1] = s[j][1] => i = j
  BY <1>2
<1> QED BY <1>2, <1>3, <1>4, <1>5 DEF DiscoverInv, Busy

\* Steps that only count, wait or look at the root keep what was gathered.
LEMMA DiscoverRests ==
  ASSUME DiscoverInv, pages' = pages,
         job' = [kind |-> "discover", checked |-> job'.checked, stack |-> job.stack,
                 map |-> job.map, limited |-> job'.limited, errors |-> job'.errors],
         job'.checked \in BOOLEAN,
         job'.checked => pages[job.map[Root]].title = Root[1]
  PROVE  DiscoverInv'
<1>1. job'.kind = "discover" /\ job'.stack = job.stack /\ job'.map = job.map
  OBVIOUS
<1> QED BY <1>1 DEF DiscoverInv, Busy

LEMMA CheckAndWaitKeep ==
  ASSUME DiscoverInv, CheckRoot \/ RateLimited \/ ServerError
  PROVE  job' = Idle \/ DiscoverInv'
<1> SUFFICES ASSUME job' # Idle PROVE DiscoverInv'
  OBVIOUS
<1>1. /\ pages' = pages
      /\ job.checked \in BOOLEAN
      /\ job.checked => pages[job.map[Root]].title = Root[1]
  BY DEF DiscoverInv, CheckRoot, RateLimited, ServerError
<1> PICK c, s, m, l, e : job = [kind |-> "discover", checked |-> c, stack |-> s,
                                map |-> m, limited |-> l, errors |-> e]
  BY DEF DiscoverInv
<1>2. CASE CheckRoot
  <2>1. /\ pages[job.map[Root]].title = Root[1]
        /\ job' = [job EXCEPT !.checked = TRUE, !.limited = 0, !.errors = 0]
    BY <1>2 DEF CheckRoot
  <2>2. /\ job'.checked = TRUE
        /\ job' = [kind |-> "discover", checked |-> job'.checked, stack |-> job.stack,
                   map |-> job.map, limited |-> job'.limited, errors |-> job'.errors]
    BY <1>1, <2>1
  <2> QED BY <1>1, <2>1, <2>2, DiscoverRests
<1>3. CASE RateLimited
  <2>1. job' = [job EXCEPT !["limited"] = job.limited + 1]
    BY <1>3 DEF RateLimited, Spent
  <2>2. /\ job'.checked = job.checked
        /\ job' = [kind |-> "discover", checked |-> job'.checked, stack |-> job.stack,
                   map |-> job.map, limited |-> job'.limited, errors |-> job'.errors]
    BY <1>1, <2>1
  <2> QED BY <1>1, <2>2, DiscoverRests
<1>4. CASE ServerError
  <2>1. job' = [job EXCEPT !["errors"] = job.errors + 1]
    BY <1>4 DEF ServerError, Spent
  <2>2. /\ job'.checked = job.checked
        /\ job' = [kind |-> "discover", checked |-> job'.checked, stack |-> job.stack,
                   map |-> job.map, limited |-> job'.limited, errors |-> job'.errors]
    BY <1>1, <2>1
  <2> QED BY <1>1, <2>2, DiscoverRests
<1> QED BY <1>2, <1>3, <1>4

LEMMA SetAsSequence ==
  ASSUME NEW S, IsFiniteSet(S)
  PROVE  /\ SetToSeq(S) \in Seq(S)
         /\ \A i, j \in DOMAIN SetToSeq(S) : SetToSeq(S)[i] = SetToSeq(S)[j] => i = j
<1>1. PICK n : n = Cardinality(S) /\ n \in Nat /\ ExistsBijection(1..n, S)
  BY FS_CardinalityType
<1>2. PICK b \in Bijection(1..n, S) : TRUE
  BY <1>1 DEF ExistsBijection
<1>3. b \in [1..n -> S] /\ IsInjective(b)
  BY <1>2 DEF Bijection, Injection, IsInjective
<1>4. SetToSeq(S) \in [1..n -> S] /\ IsInjective(SetToSeq(S))
  <2>1. \E f \in [1..n -> S] : IsInjective(f)
    BY <1>3
  <2> QED BY <1>1, <2>1 DEF SetToSeq
<1> QED BY <1>1, <1>4 DEF IsInjective

\* The children of a page whose titles differ: each has a path of its own, which
\* is one longer than the page's.
OwnPaths(found, map, path, page) ==
  /\ IsFiniteSet(found)
  /\ \A f \in found :
       /\ f \in PagePath \X Nat /\ f[2] \in DOMAIN pages
       /\ Front(f[1]) = path /\ Last(f[1]) = pages[f[2]].title
       /\ pages[f[2]].parent = page
       /\ f[1] # path
  /\ \A f, g \in found : f[1] = g[1] => f = g
  /\ DOMAIN map = {f[1] : f \in found}
  /\ \A f \in found : map[f[1]] = f[2]

LEMMA FoundPages ==
  ASSUME pages \in Seq(PageRecord), NEW path \in PagePath, NEW page, ~Ambiguous(page),
         NEW found, found = Found(path, page)
  PROVE  OwnPaths(found, AsMap(found), path, page)
<1>1. DOMAIN pages = 1..Len(pages) /\ Len(pages) \in Nat
      /\ ChildrenOf(page) \subseteq DOMAIN pages
      /\ \A p \in ChildrenOf(page) : pages[p].parent = page
  BY DEF ChildrenOf
<1>2. ASSUME NEW p \in ChildrenOf(page)
      PROVE  /\ Append(path, pages[p].title) \in PagePath
             /\ Front(Append(path, pages[p].title)) = path
             /\ Last(Append(path, pages[p].title)) = pages[p].title
  <2>1. pages[p].title \in PageTitle /\ path \in Seq(PageTitle)
    <3>1. pages[p] \in PageRecord
      BY <1>1
    <3> QED BY <3>1 DEF PageRecord, PagePath
  <2> QED BY <2>1, AppendedPath DEF PagePath
<1>3. ASSUME NEW f \in found
      PROVE  \E p \in ChildrenOf(page) : f = <<Append(path, pages[p].title), p>>
  BY <1>3 DEF Found
<1>4. ASSUME NEW f \in found
      PROVE  /\ f \in PagePath \X Nat /\ f[2] \in DOMAIN pages
             /\ Front(f[1]) = path /\ Last(f[1]) = pages[f[2]].title
             /\ pages[f[2]].parent = page /\ f[2] \in ChildrenOf(page)
             /\ f[1] # path /\ f = <<f[1], f[2]>>
  <2>1. PICK p \in ChildrenOf(page) : f = <<Append(path, pages[p].title), p>>
    BY <1>3
  <2>2. f[1] = Append(path, pages[p].title) /\ f[2] = p
    BY <2>1
  <2>3. f[1] # path
    BY <1>2, <2>2, FrontAndLast DEF PagePath
  <2>4. f[1] \in PagePath /\ f[2] \in DOMAIN pages /\ f[2] \in Nat /\ f = <<f[1], f[2]>>
    BY <1>1, <1>2, <2>1, <2>2
  <2>5. f \in PagePath \X Nat
    BY <2>4
  <2>6. /\ Front(f[1]) = path /\ Last(f[1]) = pages[f[2]].title
        /\ pages[f[2]].parent = page /\ f[2] \in ChildrenOf(page)
    BY <1>1, <1>2, <2>2
  <2> QED BY <2>3, <2>4, <2>5, <2>6
<1>5. ASSUME NEW f \in found, NEW g \in found, f[1] = g[1] PROVE f = g
  <2>1. pages[f[2]].title = pages[g[2]].title
    BY <1>4, <1>5
  <2>2. f[2] = g[2]
    BY <1>4, <2>1 DEF Ambiguous
  <2> QED BY <1>4, <1>5, <2>2
<1>6. DOMAIN AsMap(found) = {f[1] : f \in found}
  BY DEF AsMap
<1>7. ASSUME NEW f \in found PROVE AsMap(found)[f[1]] = f[2]
  <2>1. (CHOOSE g \in found : g[1] = f[1]) = f
    BY <1>5
  <2>2. AsMap(found)[f[1]] = (CHOOSE g \in found : g[1] = f[1])[2]
    BY DEF AsMap
  <2> QED BY <2>1, <2>2
<1>8. IsFiniteSet(found)
  <2>1. IsFiniteSet(ChildrenOf(page))
    <3>1. IsFiniteSet(1..Len(pages))
      BY <1>1, FS_Interval
    <3> QED BY <1>1, <3>1, FS_Subset
  <2>2. PICK n \in Nat : ExistsBijection(1..n, ChildrenOf(page))
    BY <2>1, FS_NatBijection
  <2>3. PICK b \in Bijection(1..n, ChildrenOf(page)) : TRUE
    BY <2>2 DEF ExistsBijection
  <2>4. PICK c : c = [i \in 1..n |-> <<Append(path, pages[b[i]].title), b[i]>>]
    OBVIOUS
  <2>5. /\ b \in [1..n -> ChildrenOf(page)]
        /\ \A i, j \in 1..n : b[i] = b[j] => i = j
        /\ \A p \in ChildrenOf(page) : \E i \in 1..n : b[i] = p
    BY <2>3 DEF Bijection, Injection, Surjection, IsInjective
  <2>6. c \in [1..n -> found]
    BY <2>4, <2>5 DEF Found
  <2>7. \A i, j \in 1..n : c[i] = c[j] => i = j
    BY <2>4, <2>5
  <2>8. \A f \in found : \E i \in 1..n : c[i] = f
    <3> SUFFICES ASSUME NEW f \in found PROVE \E i \in 1..n : c[i] = f
      OBVIOUS
    <3>1. PICK p \in ChildrenOf(page) : f = <<Append(path, pages[p].title), p>>
      BY <1>3
    <3>2. PICK i \in 1..n : b[i] = p
      BY <2>5
    <3> QED BY <2>4, <3>1, <3>2
  <2>9. c \in Bijection(1..n, found)
    BY <2>6, <2>7, <2>8 DEF Bijection, Injection, Surjection, IsInjective
  <2> QED BY <2>9, FS_NatBijection DEF ExistsBijection
<1> QED BY <1>4, <1>5, <1>6, <1>7, <1>8 DEF OwnPaths

\* The stack after a visit: what was found, then what was below the page.
Pushed(r, q, s) ==
  \A x \in DOMAIN r :
    \/ x \in DOMAIN q /\ r[x] = q[x]
    \/ x - Len(q) + 1 \in DOMAIN s /\ x - Len(q) + 1 # 1 /\ r[x] = s[x - Len(q) + 1]

LEMMA PushedStack ==
  ASSUME NEW T, NEW q \in Seq(T), NEW s \in Seq(T), s # <<>>, NEW r, r = q \o Tail(s)
  PROVE  r \in Seq(T) /\ Pushed(r, q, s)
<1> PICK t : t = Tail(s)
  OBVIOUS
<1>1. /\ Len(s) \in Nat /\ Len(s) >= 1 /\ DOMAIN s = 1..Len(s)
      /\ Len(q) \in Nat /\ DOMAIN q = 1..Len(q)
  OBVIOUS
<1>2. /\ t \in Seq(T) /\ Len(t) = Len(s) - 1
      /\ \A i \in 1..(Len(s) - 1) : t[i] = s[i + 1]
  BY <1>1
<1>3. r \in Seq(T) /\ Len(r) = Len(q) + Len(t) /\ DOMAIN r = 1..Len(r)
  BY <1>2
<1>4. ASSUME NEW x \in DOMAIN r
      PROVE  \/ x \in DOMAIN q /\ r[x] = q[x]
             \/ x - Len(q) + 1 \in DOMAIN s /\ x - Len(q) + 1 # 1
                /\ r[x] = s[x - Len(q) + 1]
  <2>1. x \in Nat /\ x \in 1..(Len(q) + Len(s) - 1)
    BY <1>1, <1>2, <1>3
  <2>2. CASE x <= Len(q)
    <3>1. r[x] = q[x]
      BY <1>2, <2>1, <2>2
    <3> QED BY <1>1, <2>1, <2>2, <3>1
  <2>3. CASE x > Len(q)
    <3>1. x - Len(q) \in 1..(Len(s) - 1)
      BY <1>1, <2>1, <2>3
    <3>2. r[x] = t[x - Len(q)]
      BY <1>2, <2>1, <2>3
    <3>3. t[x - Len(q)] = s[x - Len(q) + 1]
      BY <1>2, <3>1
    <3> QED BY <1>1, <2>3, <3>1, <3>2, <3>3
  <2> QED BY <1>1, <2>1, <2>2, <2>3
<1> QED BY <1>3, <1>4 DEF Pushed

\* A visit puts the children of the page on the map and on the stack; the page
\* itself leaves the stack, so no path is ever found a second time.
LEMMA VisitKeeps ==
  ASSUME pages \in Seq(PageRecord), DiscoverInv, Visit, job' # Idle
  PROVE  DiscoverInv'
<1>a. PICK c, s, m, l, e : job = [kind |-> "discover", checked |-> c, stack |-> s,
                                map |-> m, limited |-> l, errors |-> e]
  BY DEF DiscoverInv
<1>1. /\ c \in BOOLEAN /\ s \in Seq(PagePath \X Nat)
      /\ Root \in DOMAIN m /\ DOMAIN m \subseteq PagePath /\ Grounded(pages, m)
      /\ c => pages[m[Root]].title = Root[1]
      /\ \A i \in DOMAIN s : /\ s[i][1] \in DOMAIN m /\ m[s[i][1]] = s[i][2]
                            /\ \A path \in DOMAIN m : Front(path) # s[i][1]
      /\ \A i, j \in DOMAIN s : s[i][1] = s[j][1] => i = j
  BY <1>a DEF DiscoverInv
<1>2. c /\ s # <<>> /\ pages' = pages
  BY <1>a DEF Visit
<1>3. /\ DOMAIN s = 1..Len(s) /\ Len(s) \in Nat /\ 1 \in DOMAIN s /\ Head(s) = s[1]
  BY <1>1, <1>2
<1>b. PICK path, page : path = s[1][1] /\ page = s[1][2]
  OBVIOUS
<1>4. path \in PagePath /\ path \in DOMAIN m /\ m[path] = page
      /\ \A p \in DOMAIN m : Front(p) # path
  BY <1>1, <1>3, <1>b
<1>f. PICK found : found = Found(path, page)
  OBVIOUS
<1>g. PICK new : new = AsMap(found)
  OBVIOUS
<1>h. PICK q : q = SetToSeq(found)
  OBVIOUS
<1>5. /\ ~Ambiguous(page)
      /\ job' = [job EXCEPT !.map = Extended(m, new), !.limited = 0, !.errors = 0,
                            !.stack = q \o Tail(s)]
  BY <1>3, <1>a, <1>b, <1>f, <1>g, <1>h DEF Visit
<1>k. PICK m2, s2 : m2 = Extended(m, new) /\ s2 = q \o Tail(s)
  OBVIOUS
<1>6. job' = [kind |-> "discover", checked |-> c, stack |-> s2, map |-> m2,
              limited |-> 0, errors |-> 0]
  BY <1>5, <1>a, <1>k
<1>7. /\ IsFiniteSet(found)
      /\ \A f \in found :
           /\ f \in PagePath \X Nat /\ f[2] \in DOMAIN pages
           /\ Front(f[1]) = path /\ Last(f[1]) = pages[f[2]].title
           /\ pages[f[2]].parent = page
           /\ f[1] # path
      /\ \A f, g \in found : f[1] = g[1] => f = g
      /\ DOMAIN new = {f[1] : f \in found}
      /\ \A f \in found : new[f[1]] = f[2]
  <2>1. path \in PagePath /\ ~Ambiguous(page)
    BY <1>4, <1>5
  <2>2. OwnPaths(found, AsMap(found), path, page)
    BY <2>1, <1>f, FoundPages
  <2> QED BY <1>g, <2>2 DEF OwnPaths
<1>8. /\ q \in Seq(found) /\ \A i, j \in DOMAIN q : q[i] = q[j] => i = j
  BY <1>7, <1>h, SetAsSequence
<1>9. \A i \in DOMAIN q : q[i] \in found
  BY <1>8
<1>10. \A p \in DOMAIN new : p \notin DOMAIN m /\ p \in PagePath /\ Front(p) = path
                             /\ p # path /\ p # Root
  <2> SUFFICES ASSUME NEW f \in found
               PROVE  f[1] \notin DOMAIN m /\ f[1] \in PagePath /\ Front(f[1]) = path
                      /\ f[1] # path /\ f[1] # Root
    BY <1>7
  <2>1. f[1] \in PagePath /\ Front(f[1]) = path /\ f[1] # path
    BY <1>7
  <2>2. f[1] \notin DOMAIN m
    BY <1>4, <2>1
  <2> QED BY <1>1, <2>1, <2>2
<1>11. /\ DOMAIN m2 = DOMAIN m \cup DOMAIN new
       /\ \A p \in DOMAIN m : m2[p] = m[p]
       /\ \A p \in DOMAIN new : m2[p] = new[p]
  BY <1>10, <1>k DEF Extended
<1>12. Grounded(pages, m2)
  <2>1. \A p \in DOMAIN new :
          /\ new[p] \in DOMAIN pages
          /\ p # Root => /\ Front(p) \in DOMAIN m
                         /\ pages[new[p]].title = Last(p)
                         /\ pages[new[p]].parent = m[Front(p)]
    <3> SUFFICES ASSUME NEW f \in found
                 PROVE  /\ new[f[1]] \in DOMAIN pages
                        /\ Front(f[1]) \in DOMAIN m
                        /\ pages[new[f[1]]].title = Last(f[1])
                        /\ pages[new[f[1]]].parent = m[Front(f[1])]
      BY <1>7
    <3> QED BY <1>4, <1>7
  <2>2. DOMAIN new \cap DOMAIN m = {}
    BY <1>10
  <2> QED BY <1>1, <1>k, <2>1, <2>2, ExtendedIsGrounded
<1>13. /\ s2 \in Seq(PagePath \X Nat)
       /\ \A x \in DOMAIN s2 :
            \/ x \in DOMAIN q /\ s2[x] = q[x]
            \/ x - Len(q) + 1 \in DOMAIN s /\ x - Len(q) + 1 # 1
               /\ s2[x] = s[x - Len(q) + 1]
  <2>1. q \in Seq(PagePath \X Nat)
    BY <1>7, <1>8
  <2>2. s2 \in Seq(PagePath \X Nat) /\ Pushed(s2, q, s)
    BY <1>1, <1>2, <1>k, <2>1, PushedStack
  <2> QED BY <2>2 DEF Pushed
<1>14. ASSUME NEW x \in DOMAIN q
       PROVE  /\ q[x][1] \in DOMAIN new /\ m2[q[x][1]] = q[x][2]
              /\ \A p \in DOMAIN m2 : Front(p) # q[x][1]
  <2>1. q[x] \in found
    BY <1>9
  <2>2. q[x][1] \in DOMAIN new /\ new[q[x][1]] = q[x][2]
    BY <1>7, <2>1
  <2>3. ASSUME NEW p \in DOMAIN m PROVE Front(p) # q[x][1]
    <3>1. CASE p = Root
      BY <1>10, <2>2, <3>1, OrderedPaths DEF PagePath
    <3>2. CASE p # Root
      BY <1>1, <1>10, <2>2, <3>2 DEF Grounded
    <3> QED BY <3>1, <3>2
  <2>4. ASSUME NEW p \in DOMAIN new PROVE Front(p) # q[x][1]
    BY <1>10, <2>2
  <2> QED BY <1>11, <2>2, <2>3, <2>4
<1>15. ASSUME NEW j \in DOMAIN s, j # 1
       PROVE  /\ s[j][1] \in DOMAIN m /\ m2[s[j][1]] = s[j][2]
              /\ \A p \in DOMAIN m2 : Front(p) # s[j][1]
  <2>1. s[j][1] \in DOMAIN m /\ m2[s[j][1]] = s[j][2]
    BY <1>1, <1>11
  <2>2. s[j][1] # path
    BY <1>1, <1>3, <1>15, <1>b
  <2>3. \A p \in DOMAIN new : Front(p) # s[j][1]
    BY <1>10, <2>2
  <2> QED BY <1>1, <1>11, <2>1, <2>3
<1>16. ASSUME NEW x \in DOMAIN s2
       PROVE  /\ s2[x][1] \in DOMAIN m2 /\ m2[s2[x][1]] = s2[x][2]
              /\ \A p \in DOMAIN m2 : Front(p) # s2[x][1]
  <2>1. CASE x \in DOMAIN q /\ s2[x] = q[x]
    BY <1>11, <1>14, <2>1
  <2>2. ASSUME NEW j \in DOMAIN s, j # 1, s2[x] = s[j]
        PROVE  /\ s2[x][1] \in DOMAIN m2 /\ m2[s2[x][1]] = s2[x][2]
               /\ \A p \in DOMAIN m2 : Front(p) # s2[x][1]
    BY <1>11, <1>15, <2>2
  <2> QED BY <1>13, <2>1, <2>2
<1>17. ASSUME NEW x \in DOMAIN s2, NEW y \in DOMAIN s2, s2[x][1] = s2[y][1]
       PROVE  x = y
  <2>1. Len(q) \in Nat /\ x \in Nat /\ y \in Nat
    BY <1>8, <1>13
  <2>2. CASE x \in DOMAIN q /\ s2[x] = q[x] /\ y \in DOMAIN q /\ s2[y] = q[y]
    <3>1. q[x] = q[y]
      BY <1>7, <1>9, <1>17, <2>2
    <3> QED BY <1>8, <2>2, <3>1
  <2>3. CASE /\ x - Len(q) + 1 \in DOMAIN s /\ s2[x] = s[x - Len(q) + 1]
             /\ y - Len(q) + 1 \in DOMAIN s /\ s2[y] = s[y - Len(q) + 1]
    <3>1. PICK i \in DOMAIN s, j \in DOMAIN s :
            i = x - Len(q) + 1 /\ j = y - Len(q) + 1
      BY <2>3
    <3>2. s[i][1] = s[j][1]
      BY <1>17, <2>3, <3>1
    <3>3. i = j
      BY <1>1, <3>2
    <3> QED BY <2>1, <3>1, <3>3
  <2>4. ASSUME NEW i \in DOMAIN q, NEW j \in DOMAIN s, j # 1
        PROVE  q[i][1] # s[j][1]
    BY <1>10, <1>14, <1>15, <2>4
  <2>5. CASE x \in DOMAIN q /\ s2[x] = q[x] /\ y - Len(q) + 1 \in DOMAIN s
             /\ y - Len(q) + 1 # 1 /\ s2[y] = s[y - Len(q) + 1]
    BY <1>17, <2>4, <2>5
  <2>6. CASE y \in DOMAIN q /\ s2[y] = q[y] /\ x - Len(q) + 1 \in DOMAIN s
             /\ x - Len(q) + 1 # 1 /\ s2[x] = s[x - Len(q) + 1]
    BY <1>17, <2>4, <2>6
  <2> QED BY <1>13, <2>2, <2>3, <2>5, <2>6
<1>18. Root \in DOMAIN m2 /\ DOMAIN m2 \subseteq PagePath /\ m2[Root] = m[Root]
  BY <1>1, <1>10, <1>11
<1>19. pages[m2[Root]].title = Root[1]
  BY <1>1, <1>2, <1>18
<1>20. /\ job'.kind = "discover" /\ job'.checked = c /\ job'.stack = s2
       /\ job'.map = m2
       /\ job' = [kind |-> "discover", checked |-> job'.checked, stack |-> job'.stack,
                  map |-> job'.map, limited |-> job'.limited, errors |-> job'.errors]
  BY <1>6
<1>21. Grounded(pages', job'.map)
  BY <1>2, <1>12, <1>20
<1>22. job'.checked => pages'[job'.map[Root]].title = Root[1]
  BY <1>2, <1>19, <1>20
<1>23. /\ \A i \in DOMAIN job'.stack :
            /\ job'.stack[i][1] \in DOMAIN job'.map
            /\ job'.map[job'.stack[i][1]] = job'.stack[i][2]
            /\ \A p \in DOMAIN job'.map : Front(p) # job'.stack[i][1]
       /\ \A i, j \in DOMAIN job'.stack :
            job'.stack[i][1] = job'.stack[j][1] => i = j
  BY <1>16, <1>17, <1>20
<1>24. /\ Busy("discover")' /\ job'.checked \in BOOLEAN
       /\ job'.stack \in Seq(PagePath \X Nat)
       /\ Root \in DOMAIN job'.map /\ DOMAIN job'.map \subseteq PagePath
  BY <1>1, <1>13, <1>18, <1>20 DEF Busy
<1> QED BY <1>20, <1>21, <1>22, <1>23, <1>24 DEF DiscoverInv

------------------------------------------------------------------------------
\* Every step.

LEMMA WhichScript ==
  ASSUME JobInv
  PROVE  /\ Busy("create") => CreateInv
         /\ Busy("discover") => DiscoverInv
         /\ Busy("snapshot") => SnapshotInv
<1>1. job = Idle => job.kind = "none"
  BY DEF Idle
<1> QED BY <1>1 DEF JobInv, CreateInv, DiscoverInv, SnapshotInv, Busy

LEMMA ScriptGoesOn ==
  ASSUME KnowledgeInv, pages' = pages, idMap' = idMap, JobInv'
  PROVE  KnowledgeInv'
<1>1. NoPageTwice'
  BY DEF KnowledgeInv, NoPageTwice
<1>2. SavedInv'
  BY NothingChanges, SavedStays DEF KnowledgeInv
<1> QED BY <1>1, <1>2 DEF KnowledgeInv

LEMMA OutsideKeeps ==
  ASSUME KnowledgeInv, pages' = pages, idMap' = idMap, job' = job
  PROVE  KnowledgeInv'
<1>1. Kept /\ \A p \in DOMAIN pages' \ DOMAIN pages : ~pages'[p].script
  BY NothingChanges
<1>2. JobInv'
  BY <1>1, JobStays DEF KnowledgeInv
<1> QED BY <1>2, ScriptGoesOn

LEMMA StartsKeep ==
  ASSUME KnowledgeInv, TreeStart
  PROVE  KnowledgeInv'
<1>1. ASSUME NEW root \in DOMAIN pages \cup {None}, StartCreate(root)
      PROVE  KnowledgeInv'
  <2>1. JobInv'
    BY <1>1, StartCreateKeeps DEF JobInv
  <2> QED BY <1>1, <2>1, ScriptGoesOn DEF StartCreate
<1>2. ASSUME NEW root \in DOMAIN pages, StartDiscover(root)
      PROVE  KnowledgeInv'
  <2>1. JobInv'
    BY <1>2, StartDiscoverKeeps DEF JobInv, KnowledgeInv
  <2> QED BY <1>2, <2>1, ScriptGoesOn DEF StartDiscover
<1>3. CASE DryRun
  <2>1. job' = Idle /\ pages' = pages
    BY <1>3 DEF DryRun, Start
  <2>2. idMap'.by = "dry_run"
    BY <1>3 DEF DryRun
  <2>3. JobInv' /\ NoPageTwice' /\ SavedInv'
    BY <2>1, <2>2 DEF JobInv, KnowledgeInv, NoPageTwice, SavedInv
  <2> QED BY <2>1, <2>3 DEF KnowledgeInv
<1> QED BY <1>1, <1>2, <1>3 DEF TreeStart

LEMMA SaveMapKeeps ==
  ASSUME KnowledgeInv, SaveMap
  PROVE  KnowledgeInv'
<1>1. /\ pages' = pages /\ job' = Idle
      /\ idMap' = Torn \/ idMap' = [by |-> job.kind, map |-> job.map]
  BY DEF SaveMap
<1>2. JobInv' /\ NoPageTwice'
  BY <1>1 DEF JobInv, KnowledgeInv, NoPageTwice
<1>3. SavedInv'
  <2>1. CASE idMap' = Torn
    BY <2>1 DEF SavedInv
  <2>2. CASE idMap' = [by |-> job.kind, map |-> job.map]
    <3>1. idMap'.by = job.kind /\ idMap'.map = job.map
      BY <2>2
    <3>2. CASE Busy("create") /\ job.next > Len(Order)
      <4>1. CreateInv
        BY <3>2, WhichScript DEF KnowledgeInv
      <4>2. job.next = Len(Order) + 1 /\ Grounded(pages, job.map)
            /\ DOMAIN job.map = {Order[i] : i \in 1..(job.next - 1)}
        BY <3>2, <4>1, OrderedPaths DEF CreateInv
      <4>3. DOMAIN job.map = Range(Order)
        <5>1. job.next - 1 = Len(Order)
          BY <4>2, OrderedPaths
        <5> QED BY <4>2, <5>1, OrderedPaths DEF Range
      <4>4. job.kind = "create"
        BY <3>2 DEF Busy
      <4> QED BY <1>1, <3>1, <4>2, <4>3, <4>4 DEF SavedInv
    <3>3. CASE Busy("discover") /\ job.checked /\ job.stack = <<>>
      <4>1. DiscoverInv
        BY <3>3, WhichScript DEF KnowledgeInv
      <4>2. Root \in DOMAIN job.map /\ Grounded(pages, job.map)
            /\ pages[job.map[Root]].title = Root[1] /\ job.kind = "discover"
        BY <3>3, <4>1 DEF DiscoverInv, Busy
      <4> QED BY <1>1, <3>1, <4>2 DEF SavedInv
    <3> QED BY <3>2, <3>3 DEF SaveMap, MapReady
  <2> QED BY <1>1, <2>1, <2>2
<1> QED BY <1>1, <1>2, <1>3 DEF KnowledgeInv

LEMMA TreeStepKeeps ==
  ASSUME KnowledgeInv, TreeStep
  PROVE  KnowledgeInv'
<1>1. CASE ReusePage
  <2>1. PICK page \in Existing : job' = Recorded(page)
    BY <1>1 DEF ReusePage
  <2>2. /\ pages' = pages /\ idMap' = idMap /\ Creating /\ CreateInv /\ Kept
        /\ page \in DOMAIN pages' /\ pages'[page].parent = ParentPage
        /\ pages'[page].title = Last(Path)
    BY <1>1, <2>1, WhichScript, NothingChanges
       DEF ReusePage, Creating, KnowledgeInv, Existing, Named, ChildrenOf
  <2>3. JobInv'
    BY <2>1, <2>2, RecordedKeeps DEF JobInv
  <2> QED BY <2>2, <2>3, ScriptGoesOn
<1>2. CASE FindAbsent
  <2>1. CreateInv
    BY <1>2, WhichScript DEF FindAbsent, Creating, KnowledgeInv
  <2>2. JobInv'
    BY <1>2, <2>1, FindAbsentKeeps DEF JobInv
  <2> QED BY <1>2, <2>2, ScriptGoesOn DEF FindAbsent
<1>3. CASE CreatePage \/ LoseReply
  <2>1. /\ Creating /\ job.absent /\ idMap' = idMap
        /\ PageMade(ParentPage, Last(Path), PageContent(Path), TRUE)
    BY <1>3 DEF CreatePage, LoseReply
  <2>2. CreateInv
    BY <2>1, WhichScript DEF Creating, KnowledgeInv
  <2>3. /\ pages' \in Seq(PageRecord) /\ Kept /\ NoPageTwice'
        /\ NewPage \in DOMAIN pages'
        /\ pages'[NewPage].parent = ParentPage
        /\ pages'[NewPage].title = Last(Path)
    BY <2>1, <2>2, MadeOnce DEF KnowledgeInv
  <2>4. SavedInv'
    BY <2>1, <2>3, SavedStays DEF KnowledgeInv
  <2>5. CASE job' = Recorded(NewPage)
    <3>1. JobInv'
      BY <2>1, <2>2, <2>3, <2>5, RecordedKeeps DEF JobInv
    <3> QED BY <2>3, <2>4, <3>1 DEF KnowledgeInv
  <2>6. CASE job' = Idle
    BY <2>3, <2>4, <2>6 DEF KnowledgeInv, JobInv
  <2> QED BY <1>3, <2>5, <2>6 DEF CreatePage, LoseReply
<1>4. CASE CheckRoot \/ RateLimited \/ ServerError
  <2>1. DiscoverInv /\ pages' = pages /\ idMap' = idMap
    BY <1>4, WhichScript DEF CheckRoot, RateLimited, ServerError, Waiting, KnowledgeInv
  <2>2. JobInv'
    BY <1>4, <2>1, CheckAndWaitKeep DEF JobInv
  <2> QED BY <2>1, <2>2, ScriptGoesOn
<1>5. CASE Visit
  <2>1. DiscoverInv /\ pages' = pages /\ idMap' = idMap
    BY <1>5, WhichScript DEF Visit, KnowledgeInv
  <2>2. JobInv'
    <3>1. CASE job' = Idle
      BY <3>1 DEF JobInv
    <3>2. CASE job' # Idle
      BY <1>5, <2>1, <3>2, VisitKeeps DEF JobInv, KnowledgeInv
    <3> QED BY <3>1, <3>2
  <2> QED BY <2>1, <2>2, ScriptGoesOn
<1>6. CASE SaveMap
  BY <1>6, SaveMapKeeps
<1> QED BY <1>1, <1>2, <1>3, <1>4, <1>5, <1>6 DEF TreeStep

\* What people do to the pages.
LEMMA PeopleKeep ==
  ASSUME KnowledgeInv, AddPage \/ Rewrite
  PROVE  KnowledgeInv'
<1>1. /\ pages \in Seq(PageRecord) /\ DOMAIN pages = 1..Len(pages)
      /\ idMap' = idMap /\ job' = job
  <2>1. pages \in Seq(PageRecord)
    BY DEF KnowledgeInv
  <2>2. DOMAIN pages = 1..Len(pages)
    BY <2>1
  <2>3. idMap' = idMap /\ job' = job
    BY DEF AddPage, Rewrite
  <2> QED BY <2>1, <2>2, <2>3
<1>2. CASE AddPage
  <2>1. PICK parent \in DOMAIN pages \cup {Workspace}, title \in Titles :
          PageMade(parent, title, <<>>, FALSE)
    BY <1>2 DEF AddPage
  <2>2. parent \in Nat /\ title \in PageTitle /\ <<>> \in AnyContent
    BY <1>1 DEF PageTitle, AnyContent, Workspace
  <2>3. /\ pages' \in Seq(PageRecord) /\ Kept
        /\ NewPage \notin DOMAIN pages
        /\ DOMAIN pages' = DOMAIN pages \cup {NewPage}
        /\ \A p \in DOMAIN pages : pages'[p] = pages[p]
        /\ pages'[NewPage].script = FALSE
    BY <1>1, <2>1, <2>2, MadeIsNew
  <2>4. NoPageTwice'
    <3> SUFFICES ASSUME NEW p \in DOMAIN pages', NEW q \in DOMAIN pages',
                        pages'[p].script, pages'[q].script,
                        pages'[p].parent = pages'[q].parent,
                        pages'[p].title = pages'[q].title
                 PROVE  p = q
      BY DEF NoPageTwice
    <3>1. p \in DOMAIN pages /\ q \in DOMAIN pages
      BY <2>3
    <3> QED BY <2>3, <3>1 DEF KnowledgeInv, NoPageTwice
  <2>5. JobInv' /\ SavedInv'
    BY <1>1, <2>3, JobStays, SavedStays DEF KnowledgeInv
  <2> QED BY <2>3, <2>4, <2>5 DEF KnowledgeInv
<1>3. CASE Rewrite
  <2>1. PICK p \in DOMAIN pages, content \in Draft :
          pages' = [pages EXCEPT ![p].content = content]
    BY <1>3 DEF Rewrite
  <2>2. ASSUME NEW q \in DOMAIN pages
        PROVE  /\ pages'[q] \in PageRecord
               /\ pages'[q].title = pages[q].title
               /\ pages'[q].parent = pages[q].parent
               /\ pages'[q].script = pages[q].script
    <3>1. pages[q] \in PageRecord /\ content \in AnyContent
      BY <1>1 DEF AnyContent
    <3> PICK r : r = pages[q]
      OBVIOUS
    <3>2. CASE q = p
      <4>1. pages'[q] = [r EXCEPT !.content = content]
        BY <2>1, <3>2
      <4> QED BY <3>1, <4>1 DEF PageRecord
    <3>3. CASE q # p
      BY <2>1, <3>1, <3>3
    <3> QED BY <3>2, <3>3
  <2>3. DOMAIN pages' = DOMAIN pages
    BY <2>1
  <2>4. pages' \in Seq(PageRecord)
    <3>1. pages' = [q \in 1..Len(pages) |-> pages'[q]]
      BY <1>1, <2>1
    <3> QED BY <1>1, <2>2, <3>1
  <2>5. Kept /\ NoPageTwice'
    BY <2>2, <2>3 DEF Kept, NoPageTwice, KnowledgeInv
  <2>6. JobInv' /\ SavedInv'
    BY <1>1, <2>3, <2>5, JobStays, SavedStays DEF KnowledgeInv
  <2> QED BY <2>4, <2>5, <2>6 DEF KnowledgeInv
<1> QED BY <1>2, <1>3

\* The snapshot, the sections and the server read pages and map only.
LEMMA ReadersKeep ==
  ASSUME KnowledgeInv,
         \/ StartSnapshot \/ FetchPage \/ FetchInner \/ FinishPage \/ SaveDocuments
         \/ BuildChunks \/ StartServer
  PROVE  KnowledgeInv'
<1>1. pages' = pages /\ idMap' = idMap
  BY DEF StartSnapshot, FetchPage, FetchInner, FinishPage, SaveDocuments, BuildChunks,
         StartServer, Start
<1>2. CASE StartSnapshot
  <2>1. job' = [kind |-> "snapshot", map |-> idMap.map, docs |-> <<>>,
                rest |-> None, read |-> <<>>]
    BY <1>2 DEF StartSnapshot, Start
  <2>2. JobInv'
    BY <2>1 DEF JobInv, SnapshotInv, Busy
  <2> QED BY <1>1, <2>2, ScriptGoesOn
<1>3. CASE FetchPage \/ FetchInner \/ FinishPage
  <2>1. SnapshotInv
    BY <1>3, WhichScript DEF FetchPage, FetchInner, FinishPage, Reading, KnowledgeInv
  <2>2. PICK map, docs, rest, read :
          job = [kind |-> "snapshot", map |-> map, docs |-> docs, rest |-> rest,
                 read |-> read]
    BY <2>1 DEF SnapshotInv
  <2>3. \/ job' = Idle
        \/ \E d, r, t : job' = [kind |-> "snapshot", map |-> map, docs |-> d,
                                rest |-> r, read |-> t]
    <3>1. CASE FetchPage
      BY <2>2, <3>1 DEF FetchPage
    <3>2. CASE FetchInner
      BY <2>2, <3>2 DEF FetchInner
    <3>3. CASE FinishPage
      BY <2>2, <3>3 DEF FinishPage
    <3> QED BY <1>3, <3>1, <3>2, <3>3
  <2>4. JobInv'
    BY <2>3 DEF JobInv, SnapshotInv, Busy
  <2> QED BY <1>1, <2>4, ScriptGoesOn
<1>4. CASE SaveDocuments \/ BuildChunks
  <2>1. job' = Idle
    BY <1>4 DEF SaveDocuments, BuildChunks, Start
  <2> QED BY <1>1, <2>1, ScriptGoesOn DEF JobInv
<1>5. CASE StartServer
  BY <1>1, <1>5, OutsideKeeps DEF StartServer
<1> QED BY <1>2, <1>3, <1>4, <1>5

LEMMA KnowledgeNext == KnowledgeInv /\ [Next]_vars => KnowledgeInv'
<1> SUFFICES ASSUME KnowledgeInv, [Next]_vars PROVE KnowledgeInv'
  OBVIOUS
<1>1. CASE UNCHANGED vars
  BY <1>1, OutsideKeeps DEF vars
<1>2. CASE TreeStep
  BY <1>2, TreeStepKeeps
<1>3. CASE TreeStart
  BY <1>3, StartsKeep
<1>4. CASE Fail
  BY <1>4, ScriptGoesOn DEF Fail, JobInv
<1>5. CASE AddPage \/ Rewrite
  BY <1>5, PeopleKeep
<1>6. CASE \/ StartSnapshot \/ FetchPage \/ FetchInner \/ FinishPage \/ SaveDocuments
           \/ BuildChunks \/ StartServer
  BY <1>6, ReadersKeep
<1> QED BY <1>1, <1>2, <1>3, <1>4, <1>5, <1>6 DEF Next

------------------------------------------------------------------------------
\* The invariant: what a script that runs has gathered, and what one has saved, is
\* grounded in the pages that are there.
THEOREM KnowledgeInvariant == Spec => []KnowledgeInv
<1> QED BY KnowledgeInit, KnowledgeNext, PTL DEF Spec

\* Whatever fails, is lost or is run again, and whatever people add: the script
\* that makes the tree never makes a page where it has made one.
THEOREM PagesMadeOnce == Spec => []NoPageTwice
<1>1. KnowledgeInv => NoPageTwice
  BY DEF KnowledgeInv
<1> QED BY <1>1, KnowledgeInvariant, PTL

\* A saved map, of a creation or of a discovery, is a tree that is in Notion.
THEOREM SavedMapsAreWhole == Spec => []SavedMapIsWhole
<1>1. KnowledgeInv => SavedMapIsWhole
  BY DEF KnowledgeInv, SavedInv, Grounded, SavedMapIsWhole
<1> QED BY <1>1, KnowledgeInvariant, PTL

------------------------------------------------------------------------------
\* Induction over sequences.

\* A set of numbers has a least one.
LEMMA LeastNumber ==
  ASSUME NEW T \in SUBSET Nat, T # {}
  PROVE  \E n \in T : \A m \in T : n <= m
<1>1. PICK n \in T : \A m \in T : ~(<<m, n>> \in OpToRel(<, Nat))
  <2>1. IsWellFoundedOn(OpToRel(<, Nat), Nat)
    BY NatLessThanWellFounded
  <2> HIDE DEF OpToRel
  <2> QED BY <2>1, WFMin
<1>2. \A m \in T : ~(m < n)
  BY <1>1 DEF OpToRel
<1> QED BY <1>2

\* Induction, over a set of numbers.
LEMMA Counting ==
  ASSUME NEW T \in SUBSET Nat, 0 \in T, \A n \in T : n + 1 \in T
  PROVE  T = Nat
<1> SUFFICES ASSUME Nat \ T # {} PROVE FALSE
  OBVIOUS
<1>1. PICK n \in Nat \ T : \A m \in Nat \ T : n <= m
  BY LeastNumber
<1>2. n - 1 \in Nat /\ n - 1 \in T
  BY <1>1
<1> QED BY <1>1, <1>2

\* What holds of no elements, and of one more, holds of every sequence.
LEMMA OneMore ==
  ASSUME NEW T, NEW P, <<>> \in P,
         \A s \in Seq(T) : \A e \in T : s \in P => Append(s, e) \in P
  PROVE  Seq(T) \subseteq P
<1> DEFINE N == {n \in Nat : \A s \in Seq(T) : Len(s) = n => s \in P}
<1>1. 0 \in N
  OBVIOUS
<1>2. ASSUME NEW n \in N PROVE n + 1 \in N
  <2> SUFFICES ASSUME NEW s \in Seq(T), Len(s) = n + 1 PROVE s \in P
    OBVIOUS
  <2>1. PICK r \in Seq(T), e \in T : s = Append(r, e)
    <3>1. s # <<>>
      OBVIOUS
    <3> QED BY <3>1, SequenceEmptyOrAppend
  <2>2. Len(r) = n
    BY <2>1, AppendProperties
  <2> QED BY <2>1, <2>2
<1>3. N = Nat
  <2> HIDE DEF N
  <2>1. N \subseteq Nat
    BY DEF N
  <2> QED BY <1>1, <1>2, <2>1, Counting
<1> QED BY <1>3

\* The function by which a sequence of sequences is flattened.
Flattens(f, s, T) ==
  /\ f \in [1..Len(s) -> Seq(T)]
  /\ \A i \in 1..Len(s) : f[i] = IF i = 1 THEN s[i] ELSE f[i - 1] \o s[i]

\* Flattening is a function of the length, and the only one of its kind.
LEMMA FlattenBy ==
  ASSUME NEW T, NEW s \in Seq(Seq(T))
  PROVE  /\ \E f : Flattens(f, s, T)
         /\ \A f, g : Flattens(f, s, T) /\ Flattens(g, s, T) => f = g
<1> DEFINE n == Len(s)
           Value(v, i) == IF i = 1 THEN s[i] ELSE v[i - 1] \o s[i]
<1>1. n \in Nat /\ \A i \in 1..n : s[i] \in Seq(T)
  OBVIOUS
<1>2. \A i \in 1..n : i # 1 => i - 1 \in 1..n
  BY <1>1
<1>3. \E f : Flattens(f, s, T)
  <2> DEFINE N == {k \in Nat : \E f \in [1..n -> Seq(T)] :
                                 \A i \in 1..n : i <= k => f[i] = Value(f, i)}
  <2>1. 0 \in N
    <3>1. [i \in 1..n |-> <<>>] \in [1..n -> Seq(T)]
      OBVIOUS
    <3> QED BY <3>1
  <2>2. ASSUME NEW k \in N PROVE k + 1 \in N
    <3>1. PICK f \in [1..n -> Seq(T)] : \A i \in 1..n : i <= k => f[i] = Value(f, i)
      OBVIOUS
    <3> DEFINE h == [i \in 1..n |-> Value(f, i)]
    <3>2. h \in [1..n -> Seq(T)]
      BY <1>1, <1>2, <3>1, ConcatProperties
    <3>3. ASSUME NEW i \in 1..n, i <= k + 1 PROVE h[i] = Value(h, i)
      <4>1. CASE i = 1
        BY <4>1
      <4>2. CASE i # 1
        <5>1. i - 1 \in 1..n /\ i - 1 <= k
          BY <1>2, <3>3, <4>2
        <5>2. h[i - 1] = f[i - 1]
          BY <3>1, <5>1
        <5> QED BY <4>2, <5>2
      <4> QED BY <4>1, <4>2
    <3> HIDE DEF h
    <3>4. \E g \in [1..n -> Seq(T)] : \A i \in 1..n : i <= k + 1 => g[i] = Value(g, i)
      <4> HIDE DEF Value
      <4> QED BY <3>2, <3>3
    <3>5. k + 1 \in Nat
      OBVIOUS
    <3> HIDE DEF Value
    <3> QED BY <3>4, <3>5
  <2>3. N = Nat
    <3> HIDE DEF N
    <3>1. N \subseteq Nat
      BY DEF N
    <3> QED BY <2>1, <2>2, <3>1, Counting
  <2>4. n \in N
    BY <1>1, <2>3
  <2> QED BY <2>4 DEF Flattens
<1>4. ASSUME NEW f, NEW g, Flattens(f, s, T), Flattens(g, s, T) PROVE f = g
  <2>1. f \in [1..n -> Seq(T)] /\ g \in [1..n -> Seq(T)]
    BY <1>4 DEF Flattens
  <2>2. \A i \in 1..n : f[i] = g[i]
    <3> SUFFICES ASSUME {i \in 1..n : f[i] # g[i]} # {} PROVE FALSE
      OBVIOUS
    <3>1. PICK i \in 1..n : f[i] # g[i] /\ \A j \in 1..n : f[j] # g[j] => i <= j
      <4>1. {i \in 1..n : f[i] # g[i]} \in SUBSET Nat
        OBVIOUS
      <4>2. \E k \in {i \in 1..n : f[i] # g[i]} : \A j \in {i \in 1..n : f[i] # g[i]} : k <= j
        BY <4>1, LeastNumber
      <4> QED BY <4>2
    <3>2. i # 1 => i - 1 \in 1..n /\ f[i - 1] = g[i - 1]
      BY <1>2, <3>1
    <3>3. f[i] = Value(f, i) /\ g[i] = Value(g, i)
      BY <1>4 DEF Flattens
    <3> QED BY <3>1, <3>2, <3>3
  <2> QED BY <2>1, <2>2
<1> QED BY <1>3, <1>4

\* FlattenSeq is that function at the full length.
LEMMA FlattenValue ==
  ASSUME NEW T, NEW s \in Seq(Seq(T)), NEW f, Flattens(f, s, T)
  PROVE  FlattenSeq(s) = IF s = <<>> THEN <<>> ELSE f[Len(s)]
<1> DEFINE Rec(g) == g = [i \in 1..Len(s) |-> IF i = 1 THEN s[i] ELSE g[i-1] \o s[i]]
           g == CHOOSE g : Rec(g)
<1>1. CASE s = <<>>
  BY <1>1 DEF FlattenSeq
<1>2. CASE s # <<>>
  <2>1. Rec(f)
    BY DEF Flattens
  <2>2. Rec(g)
    <3> HIDE DEF Rec
    <3> QED BY <2>1
  <2>3. FlattenSeq(s) = g[Len(s)]
    BY <1>2 DEF FlattenSeq
  <2> HIDE DEF g
  <2>4. Len(s) \in Nat /\ Len(s) > 0 /\ \A i \in 1..Len(s) : s[i] \in Seq(T)
    BY <1>2
  <2>5. \A i \in 1..Len(s) : g[i] = f[i]
    <3> SUFFICES ASSUME {i \in 1..Len(s) : f[i] # g[i]} # {} PROVE FALSE
      OBVIOUS
    <3>1. PICK i \in 1..Len(s) : f[i] # g[i] /\ \A j \in 1..Len(s) : f[j] # g[j] => i <= j
      <4>1. {i \in 1..Len(s) : f[i] # g[i]} \in SUBSET Nat
        OBVIOUS
      <4>2. \E k \in {i \in 1..Len(s) : f[i] # g[i]} :
              \A j \in {i \in 1..Len(s) : f[i] # g[i]} : k <= j
        BY <4>1, LeastNumber
      <4> QED BY <4>2
    <3>2. i # 1 => i - 1 \in 1..Len(s) /\ f[i - 1] = g[i - 1]
      BY <2>4, <3>1
    <3>3. f[i] = IF i = 1 THEN s[i] ELSE f[i - 1] \o s[i]
      BY DEF Flattens
    <3>4. g[i] = IF i = 1 THEN s[i] ELSE g[i - 1] \o s[i]
      BY <2>2
    <3> QED BY <3>1, <3>2, <3>3, <3>4
  <2> QED BY <1>2, <2>3, <2>4, <2>5
<1> QED BY <1>1, <1>2

\* One sequence more is flattened behind the others.
LEMMA FlattenSnoc ==
  ASSUME NEW T, NEW s \in Seq(Seq(T)), NEW e \in Seq(T)
  PROVE  /\ FlattenSeq(<<>>) = <<>>
         /\ FlattenSeq(s) \in Seq(T)
         /\ FlattenSeq(Append(s, e)) = FlattenSeq(s) \o e
<1>1. PICK f : Flattens(f, s, T)
  BY FlattenBy
<1>2. FlattenSeq(s) = IF s = <<>> THEN <<>> ELSE f[Len(s)]
  BY <1>1, FlattenValue
<1>3. Len(s) \in Nat /\ (s # <<>> => Len(s) \in 1..Len(s)) /\ f \in [1..Len(s) -> Seq(T)]
  BY <1>1 DEF Flattens
<1>4. FlattenSeq(s) \in Seq(T)
  BY <1>2, <1>3
<1> DEFINE n == Len(s) + 1
           t == Append(s, e)
           h == [i \in 1..n |-> IF i = n THEN FlattenSeq(s) \o e ELSE f[i]]
<1>5. /\ t \in Seq(Seq(T)) /\ Len(t) = n /\ t # <<>> /\ t[n] = e
      /\ \A i \in 1..Len(s) : t[i] = s[i]
  BY AppendProperties
<1>6. h \in [1..n -> Seq(T)]
  <2>1. FlattenSeq(s) \o e \in Seq(T)
    BY <1>4, ConcatProperties
  <2>2. \A i \in 1..n : i # n => i \in 1..Len(s)
    BY <1>3
  <2> QED BY <1>3, <2>1, <2>2
<1>7. ASSUME NEW i \in 1..n PROVE h[i] = IF i = 1 THEN t[i] ELSE h[i - 1] \o t[i]
  <2>1. CASE i # n
    <3>1. i \in 1..Len(s) /\ (i # 1 => i - 1 \in 1..Len(s) /\ i - 1 # n)
      BY <1>3, <2>1
    <3>2. h[i] = f[i] /\ (i # 1 => h[i - 1] = f[i - 1]) /\ t[i] = s[i]
      BY <1>5, <2>1, <3>1
    <3>3. f[i] = IF i = 1 THEN s[i] ELSE f[i - 1] \o s[i]
      BY <1>1, <3>1 DEF Flattens
    <3> QED BY <3>2, <3>3
  <2>2. CASE i = n /\ s = <<>>
    <3>1. h[i] = <<>> \o e /\ t[i] = e /\ i = 1
      BY <1>2, <1>5, <2>2
    <3> QED BY <3>1, ConcatEmptySeq
  <2>3. CASE i = n /\ s # <<>>
    <3>1. i # 1 /\ i - 1 \in 1..Len(s) /\ i - 1 # n /\ i - 1 = Len(s)
      BY <1>3, <2>3
    <3>2. h[i - 1] = FlattenSeq(s)
      <4>1. i - 1 \in 1..n
        BY <3>1
      <4>2. h[i - 1] = f[i - 1]
        BY <3>1, <4>1
      <4> QED BY <1>2, <2>3, <3>1, <4>2
    <3>3. h[i] = FlattenSeq(s) \o e /\ t[i] = e
      BY <1>5, <2>3
    <3> QED BY <3>1, <3>2, <3>3
  <2> QED BY <2>1, <2>2, <2>3
<1>8. Flattens(h, t, T)
  <2> HIDE DEF h, t
  <2> QED BY <1>5, <1>6, <1>7 DEF Flattens
<1>9. FlattenSeq(t) = h[n]
  <2> HIDE DEF h, t
  <2> QED BY <1>5, <1>8, FlattenValue
<1>10. h[n] = FlattenSeq(s) \o e
  BY <1>3
<1>11. FlattenSeq(<<>>) = <<>>
  BY DEF FlattenSeq
<1> QED BY <1>4, <1>9, <1>10, <1>11

\* Flattening a concatenation flattens its parts.
LEMMA FlattenConcat ==
  ASSUME NEW T, NEW s \in Seq(Seq(T)), NEW t \in Seq(Seq(T))
  PROVE  FlattenSeq(s \o t) = FlattenSeq(s) \o FlattenSeq(t)
<1> DEFINE P == {r \in Seq(Seq(T)) : FlattenSeq(s \o r) = FlattenSeq(s) \o FlattenSeq(r)}
<1>1. FlattenSeq(s) \in Seq(T) /\ FlattenSeq(<<>>) = <<>>
  BY FlattenSnoc, EmptySeq
<1>2. <<>> \in P
  BY <1>1, ConcatEmptySeq
<1>3. ASSUME NEW r \in Seq(Seq(T)), NEW e \in Seq(T), r \in P
      PROVE  Append(r, e) \in P
  <2>1. s \o Append(r, e) = Append(s \o r, e)
    OBVIOUS
  <2>2. s \o r \in Seq(Seq(T)) /\ Append(r, e) \in Seq(Seq(T))
    BY ConcatProperties, AppendProperties
  <2>3. FlattenSeq(Append(s \o r, e)) = FlattenSeq(s \o r) \o e
    BY <2>2, FlattenSnoc
  <2>4. FlattenSeq(Append(r, e)) = FlattenSeq(r) \o e /\ FlattenSeq(r) \in Seq(T)
    BY FlattenSnoc
  <2>5. (FlattenSeq(s) \o FlattenSeq(r)) \o e = FlattenSeq(s) \o (FlattenSeq(r) \o e)
    BY <1>1, <2>4, ConcatAssociative
  <2>6. FlattenSeq(s \o r) = FlattenSeq(s) \o FlattenSeq(r)
    BY <1>3
  <2> QED BY <2>1, <2>2, <2>3, <2>4, <2>5, <2>6
<1> HIDE DEF P
<1>4. Seq(Seq(T)) \subseteq P
  BY <1>2, <1>3, OneMore
<1> QED BY <1>4 DEF P

------------------------------------------------------------------------------
\* Cutting a text into sections.  Lines of a text are of some set T, and no
\* heading is empty.
Headed(T) == \A l \in T : l.text # None
SectionOf(T) == [section : {None} \cup {l.text : l \in T}, lines : Seq(T)]
ScanOf(T) ==
  [section : {None} \cup {l.text : l \in T}, lines : Seq(T), done : Seq(SectionOf(T))]
Unscanned == [section |-> None, lines |-> <<>>, done |-> <<>>]

\* A line is scanned into sections of text.
LEMMA ScanTypes ==
  ASSUME NEW T
  PROVE  /\ Unscanned \in ScanOf(T)
         /\ \A scan \in ScanOf(T) : \A l \in T :
              /\ Flushed(scan) \in Seq(SectionOf(T))
              /\ ScanLine(scan, l) \in ScanOf(T)
<1>1. Unscanned \in ScanOf(T)
  BY DEF Unscanned, ScanOf
<1>2. ASSUME NEW scan \in ScanOf(T) PROVE Flushed(scan) \in Seq(SectionOf(T))
  <2>1. [section |-> scan.section, lines |-> scan.lines] \in SectionOf(T)
    BY DEF ScanOf, SectionOf
  <2>2. scan.done \in Seq(SectionOf(T))
    BY DEF ScanOf
  <2> QED BY <2>1, <2>2, AppendProperties DEF Flushed
<1>3. ASSUME NEW scan \in ScanOf(T), NEW l \in T PROVE ScanLine(scan, l) \in ScanOf(T)
  <2>1. PICK a, b, c : scan = [section |-> a, lines |-> b, done |-> c]
                       /\ a \in {None} \cup {k.text : k \in T}
                       /\ b \in Seq(T) /\ c \in Seq(SectionOf(T))
    BY DEF ScanOf
  <2>2. PICK d \in Seq(SectionOf(T)) : d = Flushed(scan)
    BY <1>2
  <2>3. <<l>> \in Seq(T) /\ Append(b, l) \in Seq(T)
    BY <2>1
  <2>4. /\ [section |-> l.text, lines |-> <<l>>, done |-> d] \in ScanOf(T)
        /\ [section |-> a, lines |-> Append(b, l), done |-> c] \in ScanOf(T)
    BY <2>1, <2>3 DEF ScanOf
  <2>5. [scan EXCEPT !.lines = Append(@, l)] = [section |-> a, lines |-> Append(b, l), done |-> c]
    <3>1. scan = [section |-> a, lines |-> b, done |-> c]
      BY <2>1
    <3>2. scan.lines = b
      BY <3>1
    <3>3. \A x : [scan EXCEPT !.lines = x] = [section |-> a, lines |-> x, done |-> c]
      BY <3>1
    <3> QED BY <3>2, <3>3
  <2>6. ScanLine(scan, l) \in {[section |-> l.text, lines |-> <<l>>, done |-> d], scan,
                               [scan EXCEPT !.lines = Append(@, l)]}
    BY <2>2 DEF ScanLine
  <2> QED BY <2>4, <2>5, <2>6
<1> QED BY <1>1, <1>2, <1>3

\* The function by which a text is scanned.
Scans(f, s, T) ==
  /\ f \in [0..Len(s) -> ScanOf(T)]
  /\ \A i \in 0..Len(s) : f[i] = IF i = 0 THEN Unscanned ELSE ScanLine(f[i - 1], s[i])

\* There is such a function.
LEMMA ScanBy ==
  ASSUME NEW T, NEW s \in Seq(T)
  PROVE  \E f : Scans(f, s, T)
<1> DEFINE n == Len(s)
           Value(v, i) == IF i = 0 THEN Unscanned ELSE ScanLine(v[i - 1], s[i])
           N == {k \in Nat : \E f \in [0..n -> ScanOf(T)] :
                               \A i \in 0..n : i <= k => f[i] = Value(f, i)}
<1>1. n \in Nat /\ \A i \in 0..n : i # 0 => i - 1 \in 0..n /\ i \in 1..n /\ s[i] \in T
  OBVIOUS
<1>2. 0 \in N
  <2>1. [i \in 0..n |-> Unscanned] \in [0..n -> ScanOf(T)]
    BY ScanTypes
  <2>2. \A i \in 0..n : i <= 0 => i = 0
    BY <1>1
  <2>3. \A i \in 0..n : i <= 0 =>
          [j \in 0..n |-> Unscanned][i] = Value([j \in 0..n |-> Unscanned], i)
    BY <2>2
  <2> QED BY <2>1, <2>3
<1>3. ASSUME NEW k \in N PROVE k + 1 \in N
  <2>1. PICK f \in [0..n -> ScanOf(T)] : \A i \in 0..n : i <= k => f[i] = Value(f, i)
    OBVIOUS
  <2> DEFINE h == [i \in 0..n |-> Value(f, i)]
  <2>2. h \in [0..n -> ScanOf(T)]
    BY <1>1, <2>1, ScanTypes
  <2>3. ASSUME NEW i \in 0..n, i <= k + 1 PROVE h[i] = Value(h, i)
    <3>1. CASE i = 0
      BY <3>1
    <3>2. CASE i # 0
      <4>1. i - 1 \in 0..n /\ i - 1 <= k
        BY <1>1, <2>3, <3>2
      <4>2. h[i - 1] = f[i - 1]
        BY <2>1, <4>1
      <4> QED BY <3>2, <4>2
    <3> QED BY <3>1, <3>2
  <2> HIDE DEF h
  <2>4. \E g \in [0..n -> ScanOf(T)] : \A i \in 0..n : i <= k + 1 => g[i] = Value(g, i)
    <3> HIDE DEF Value
    <3> QED BY <2>2, <2>3
  <2>5. k + 1 \in Nat
    OBVIOUS
  <2> HIDE DEF Value
  <2> QED BY <2>4, <2>5
<1>4. N = Nat
  <2> HIDE DEF N
  <2>1. N \subseteq Nat
    BY DEF N
  <2> QED BY <1>2, <1>3, <2>1, Counting
<1>5. n \in N
  BY <1>1, <1>4
<1> QED BY <1>5 DEF Scans

\* Scan is its value at the full length.
LEMMA ScanValue ==
  ASSUME NEW T, NEW s \in Seq(T), NEW f, Scans(f, s, T)
  PROVE  Scan(s) = f[Len(s)]
<1> DEFINE Rec(g) == g = [i \in 0..Len(s) |->
                            IF i = 0 THEN Unscanned ELSE ScanLine(g[i - 1], s[i])]
           g == CHOOSE g : Rec(g)
<1>1. Rec(f)
  BY DEF Scans
<1>2. Rec(g)
  <2> HIDE DEF Rec
  <2> QED BY <1>1
<1>3. Scan(s) = g[Len(s)]
  BY DEF Scan, Unscanned
<1> HIDE DEF g
<1>4. Len(s) \in Nat
  OBVIOUS
<1>5. \A i \in 0..Len(s) : g[i] = f[i]
  <2> SUFFICES ASSUME {i \in 0..Len(s) : f[i] # g[i]} # {} PROVE FALSE
    OBVIOUS
  <2>1. PICK i \in 0..Len(s) : f[i] # g[i] /\ \A j \in 0..Len(s) : f[j] # g[j] => i <= j
    <3>1. {i \in 0..Len(s) : f[i] # g[i]} \in SUBSET Nat
      OBVIOUS
    <3>2. \E k \in {i \in 0..Len(s) : f[i] # g[i]} :
            \A j \in {i \in 0..Len(s) : f[i] # g[i]} : k <= j
      BY <3>1, LeastNumber
    <3> QED BY <3>2
  <2>2. i # 0 => i - 1 \in 0..Len(s) /\ f[i - 1] = g[i - 1]
    BY <1>4, <2>1
  <2>3. f[i] = IF i = 0 THEN Unscanned ELSE ScanLine(f[i - 1], s[i])
    BY DEF Scans
  <2>4. g[i] = IF i = 0 THEN Unscanned ELSE ScanLine(g[i - 1], s[i])
    BY <1>2
  <2> QED BY <2>1, <2>2, <2>3, <2>4
<1> QED BY <1>3, <1>4, <1>5

\* Scanning a text gives sections of text, and scanning nothing gives none.
LEMMA Scanned ==
  ASSUME NEW T, NEW s \in Seq(T)
  PROVE  Scan(<<>>) = Unscanned /\ Scan(s) \in ScanOf(T)
<1>1. ASSUME NEW r \in Seq(T) PROVE \E f : Scans(f, r, T) /\ Scan(r) = f[Len(r)]
  BY ScanBy, ScanValue
<1>2. Scan(<<>>) = Unscanned
  <2>1. <<>> \in Seq(T) /\ Len(<<>>) = 0 /\ 0 \in 0..0
    OBVIOUS
  <2>2. PICK g : Scans(g, <<>>, T) /\ Scan(<<>>) = g[0]
    BY <1>1, <2>1
  <2> QED BY <2>1, <2>2 DEF Scans
<1>3. Scan(s) \in ScanOf(T)
  <2>1. Len(s) \in 0..Len(s)
    OBVIOUS
  <2> QED BY <1>1, <2>1 DEF Scans
<1> QED BY <1>2, <1>3

\* One line more is scanned last.
LEMMA ScanSnoc ==
  ASSUME NEW T, NEW s \in Seq(T), NEW e \in T
  PROVE  Scan(Append(s, e)) = ScanLine(Scan(s), e)
<1>1. ASSUME NEW r \in Seq(T) PROVE \E f : Scans(f, r, T) /\ Scan(r) = f[Len(r)]
  BY ScanBy, ScanValue
<1>2. PICK f : Scans(f, s, T) /\ Scan(s) = f[Len(s)]
  BY <1>1
<1>4. Len(s) \in Nat /\ Len(s) \in 0..Len(s)
  OBVIOUS
<1> DEFINE t == Append(s, e)
           n == Len(s) + 1
<1>5. t \in Seq(T) /\ Len(t) = n /\ t[n] = e /\ \A i \in 1..Len(s) : t[i] = s[i]
  BY AppendProperties
<1>6. PICK g : Scans(g, t, T) /\ Scan(t) = g[n]
  <2> HIDE DEF t
  <2> QED BY <1>1, <1>5
<1> HIDE DEF t
<1>7. \A i \in 0..Len(s) : g[i] = f[i]
  <2> SUFFICES ASSUME {i \in 0..Len(s) : f[i] # g[i]} # {} PROVE FALSE
    OBVIOUS
  <2>1. PICK i \in 0..Len(s) : f[i] # g[i] /\ \A j \in 0..Len(s) : f[j] # g[j] => i <= j
    <3>1. {i \in 0..Len(s) : f[i] # g[i]} \in SUBSET Nat
      OBVIOUS
    <3>2. \E k \in {i \in 0..Len(s) : f[i] # g[i]} :
            \A j \in {i \in 0..Len(s) : f[i] # g[i]} : k <= j
      BY <3>1, LeastNumber
    <3> QED BY <3>2
  <2>2. i # 0 => i - 1 \in 0..Len(s) /\ f[i - 1] = g[i - 1] /\ t[i] = s[i]
    BY <1>4, <1>5, <2>1
  <2>3. f[i] = IF i = 0 THEN Unscanned ELSE ScanLine(f[i - 1], s[i])
    BY <1>2 DEF Scans
  <2>4. i \in 0..Len(t)
    BY <1>4, <1>5
  <2>5. g[i] = IF i = 0 THEN Unscanned ELSE ScanLine(g[i - 1], t[i])
    BY <1>6, <2>4 DEF Scans
  <2> QED BY <2>1, <2>2, <2>3, <2>5
<1>8. g[n] = ScanLine(g[Len(s)], e)
  <2>1. n \in 0..Len(t) /\ n # 0 /\ n - 1 = Len(s)
    BY <1>4, <1>5
  <2>2. g[n] = IF n = 0 THEN Unscanned ELSE ScanLine(g[n - 1], t[n])
    BY <1>6, <2>1 DEF Scans
  <2> HIDE DEF n
  <2> QED BY <1>5, <2>1, <2>2
<1>9. Scan(t) = ScanLine(Scan(s), e)
  BY <1>2, <1>4, <1>6, <1>7, <1>8
<1> QED BY <1>9 DEF t

\* Some lines of every section, one after the other.
LinesOf(d) == [i \in DOMAIN d |-> d[i].lines]
HeadsIn(s) == {i \in DOMAIN s : s[i].mark = "##"}

Lined(R, T) == \A r \in R : r.lines \in Seq(T)

\* One section more has its lines last.
LEMMA LinesOfSnoc ==
  ASSUME NEW T, NEW R, Lined(R, T), NEW d \in Seq(R), NEW r \in R
  PROVE  /\ LinesOf(d) \in Seq(Seq(T)) /\ LinesOf(<<>>) = <<>>
         /\ LinesOf(Append(d, r)) = Append(LinesOf(d), r.lines)
<1> USE DEF Lined
<1>1. LinesOf(d) \in Seq(Seq(T)) /\ Len(LinesOf(d)) = Len(d)
  BY DEF LinesOf
<1>2. PICK a : a = Append(d, r)
  OBVIOUS
<1>3. a \in Seq(R) /\ Len(a) = Len(d) + 1 /\ a[Len(d) + 1] = r
      /\ \A i \in 1..Len(d) : a[i] = d[i]
  BY <1>2, AppendProperties
<1>4. LinesOf(a) \in Seq(Seq(T)) /\ Len(LinesOf(a)) = Len(d) + 1
      /\ \A i \in 1..(Len(d) + 1) : LinesOf(a)[i] = a[i].lines
  BY <1>3 DEF LinesOf
<1>5. PICK b : b = Append(LinesOf(d), r.lines)
  OBVIOUS
<1>6. b \in Seq(Seq(T)) /\ Len(b) = Len(d) + 1 /\ b[Len(d) + 1] = r.lines
      /\ \A i \in 1..Len(d) : b[i] = d[i].lines
  <2>1. r.lines \in Seq(T) /\ Len(d) \in Nat
    OBVIOUS
  <2>2. b \in Seq(Seq(T)) /\ Len(b) = Len(d) + 1 /\ b[Len(d) + 1] = r.lines
        /\ \A i \in 1..Len(d) : b[i] = LinesOf(d)[i]
    BY <1>1, <1>5, <2>1, AppendProperties
  <2>3. DOMAIN d = 1..Len(d)
    OBVIOUS
  <2>4. \A i \in DOMAIN d : LinesOf(d)[i] = d[i].lines
    BY DEF LinesOf
  <2> QED BY <2>2, <2>3, <2>4
<1>7. \A i \in 1..(Len(d) + 1) : LinesOf(a)[i] = b[i]
  <2> SUFFICES ASSUME NEW i \in 1..(Len(d) + 1) PROVE LinesOf(a)[i] = b[i]
    OBVIOUS
  <2>1. Len(d) \in Nat
    OBVIOUS
  <2>2. CASE i = Len(d) + 1
    BY <1>3, <1>4, <1>6, <2>2
  <2>3. CASE i # Len(d) + 1
    <3>1. i \in 1..Len(d)
      BY <2>1, <2>3
    <3> QED BY <1>3, <1>4, <1>6, <3>1
  <2> QED BY <2>2, <2>3
<1>8. LinesOf(a) = b
  BY <1>4, <1>6, <1>7, SeqEqual
<1>9. LinesOf(<<>>) = <<>>
  BY DEF LinesOf
<1> QED BY <1>1, <1>2, <1>5, <1>8, <1>9

\* The text from its first heading on grows with the text.
LEMMA FromFirstGrows ==
  ASSUME NEW T, NEW s \in Seq(T), NEW e \in T
  PROVE  /\ HeadsIn(<<>>) = {}
         /\ HeadsIn(Append(s, e)) = {} <=> HeadsIn(s) = {} /\ e.mark # "##"
         /\ HeadsIn(s) # {} =>
              FromFirstHeading(Append(s, e)) = Append(FromFirstHeading(s), e)
         /\ HeadsIn(s) = {} /\ e.mark = "##" => FromFirstHeading(Append(s, e)) = <<e>>
         /\ HeadsIn(s) # {} => FromFirstHeading(s) \in Seq(T)
<1> DEFINE n == Len(s)
           t == Append(s, e)
<1>1. /\ n \in Nat /\ DOMAIN s = 1..n
      /\ t \in Seq(T) /\ Len(t) = n + 1 /\ DOMAIN t = 1..(n + 1)
      /\ t[n + 1] = e
      /\ \A i \in 1..n : t[i] = s[i]
  BY AppendProperties
<1> HIDE DEF t, n
<1>2. HeadsIn(t) = HeadsIn(s) \cup (IF e.mark = "##" THEN {n + 1} ELSE {})
  <2>1. HeadsIn(s) = {i \in 1..n : s[i].mark = "##"} /\ HeadsIn(t) = {i \in 1..(n + 1) : t[i].mark = "##"}
    BY <1>1 DEF HeadsIn
  <2>2. 1..(n + 1) = 1..n \cup {n + 1}
    BY <1>1
  <2> HIDE DEF n
  <2> QED BY <1>1, <2>1, <2>2
<1>3. HeadsIn(<<>>) = {}
  BY DEF HeadsIn
<1>4. HeadsIn(s) \in SUBSET (1..n) /\ HeadsIn(t) \in SUBSET (1..(n + 1))
  <2>1. DOMAIN s = 1..n /\ DOMAIN t = 1..(n + 1)
    BY <1>1
  <2> QED BY <2>1 DEF HeadsIn
<1>5. ASSUME NEW S \in SUBSET Nat, NEW m \in S, \A j \in S : m <= j PROVE Min(S) = m
  <2>1. Min(S) \in S /\ \A j \in S : Min(S) <= j
    BY <1>5 DEF Min
  <2>2. PICK a : a = Min(S)
    OBVIOUS
  <2>3. a \in Nat /\ m \in Nat /\ a <= m /\ m <= a
    BY <1>5, <2>1, <2>2
  <2>4. a = m
    BY <2>3
  <2> QED BY <2>2, <2>4
<1>6. ASSUME HeadsIn(s) # {}
      PROVE  FromFirstHeading(t) = Append(FromFirstHeading(s), e)
             /\ FromFirstHeading(s) \in Seq(T)
  <2>1. PICK h \in HeadsIn(s) : \A j \in HeadsIn(s) : h <= j
    <3>1. HeadsIn(s) \in SUBSET Nat
      BY <1>1, <1>4
    <3> QED BY <1>6, <3>1, LeastNumber
  <2>2. h \in 1..n /\ h \in HeadsIn(t) /\ \A j \in HeadsIn(t) : h <= j
    BY <1>1, <1>2, <1>4, <2>1
  <2>3. Min(HeadsIn(s)) = h /\ Min(HeadsIn(t)) = h
    <3>1. HeadsIn(s) \in SUBSET Nat /\ HeadsIn(t) \in SUBSET Nat
      BY <1>1, <1>4
    <3> QED BY <1>5, <2>1, <2>2, <3>1
  <2>4. FromFirstHeading(s) = SubSeq(s, h, n) /\ FromFirstHeading(t) = SubSeq(t, h, n + 1)
    BY <1>1, <1>6, <2>2, <2>3 DEF FromFirstHeading, HeadsIn, n
  <2>5. PICK a, b : a = SubSeq(s, h, n) /\ b = SubSeq(t, h, n + 1)
    OBVIOUS
  <2>6. a \in Seq(T) /\ Len(a) = n - h + 1 /\ \A i \in 1..(n - h + 1) : a[i] = s[h + i - 1]
    <3>1. \A i \in h..n : s[i] \in T
      BY <1>1, <2>2
    <3> QED BY <1>1, <2>2, <2>5, <3>1, SubSeqProperties DEF n
  <2>7. b \in Seq(T) /\ Len(b) = n - h + 2 /\ \A i \in 1..(n - h + 2) : b[i] = t[h + i - 1]
    <3>1. \A i \in h..(n + 1) : t[i] \in T
      BY <1>1, <2>2
    <3> QED BY <1>1, <2>2, <2>5, <3>1, SubSeqProperties
  <2>8. PICK c : c = Append(a, e)
    OBVIOUS
  <2>9. c \in Seq(T) /\ Len(c) = n - h + 2 /\ c[n - h + 2] = e
        /\ \A i \in 1..(n - h + 1) : c[i] = a[i]
    <3>1. n - h + 1 \in Nat /\ (n - h + 1) + 1 = n - h + 2
      BY <1>1, <2>2
    <3>2. c \in Seq(T) /\ Len(c) = Len(a) + 1 /\ c[Len(a) + 1] = e
          /\ \A i \in 1..Len(a) : c[i] = a[i]
      BY <2>6, <2>8, AppendProperties
    <3> QED BY <2>6, <3>1, <3>2
  <2>10. \A i \in 1..Len(b) : b[i] = c[i]
    <3> SUFFICES ASSUME NEW i \in 1..Len(b) PROVE b[i] = c[i]
      OBVIOUS
    <3>1. CASE i = n - h + 2
      <4>1. h + i - 1 = n + 1
        BY <1>1, <2>2, <3>1
      <4> QED BY <1>1, <2>7, <2>9, <3>1, <4>1
    <3>2. CASE i # n - h + 2
      <4>1. i \in 1..(n - h + 1) /\ h + i - 1 \in 1..n
        BY <1>1, <2>2, <2>7, <3>2
      <4> QED BY <1>1, <2>6, <2>7, <2>9, <4>1
    <3> QED BY <3>1, <3>2
  <2>11. b = c
    BY <2>7, <2>9, <2>10, SeqEqual
  <2> QED BY <2>4, <2>5, <2>6, <2>8, <2>11
<1>7. ASSUME HeadsIn(s) = {}, e.mark = "##" PROVE FromFirstHeading(t) = <<e>>
  <2>1. HeadsIn(t) = {n + 1}
    BY <1>2, <1>7
  <2>2. Min(HeadsIn(t)) = n + 1
    <3>1. {n + 1} \in SUBSET Nat /\ n + 1 \in {n + 1} /\ \A j \in {n + 1} : n + 1 <= j
      BY <1>1
    <3> QED BY <1>5, <2>1, <3>1
  <2>3. FromFirstHeading(t) = SubSeq(t, n + 1, n + 1)
    BY <1>1, <2>1, <2>2 DEF FromFirstHeading, HeadsIn
  <2>4. SubSeq(t, n + 1, n + 1) = <<t[n + 1]>>
    <3>1. n + 1 \in 1..(n + 1) /\ Len(t) = n + 1
      BY <1>1
    <3>2. PICK u : u = SubSeq(t, n + 1, n + 1)
      OBVIOUS
    <3>3. u \in Seq(T) /\ Len(u) = 1 /\ u[1] = t[n + 1]
      BY <1>1, <3>1, <3>2, SubSeqProperties
    <3>4. <<t[n + 1]>> \in Seq(T)
      BY <1>1
    <3>5. u = <<t[n + 1]>>
      BY <3>3, <3>4, SeqEqual
    <3> QED BY <3>2, <3>5
  <2> QED BY <1>1, <2>3, <2>4
<1> QED BY <1>2, <1>3, <1>6, <1>7 DEF t

\* Behind the first heading no line is dropped, repeated or moved.
Covered(s) ==
  /\ HeadsIn(s) = {} => Scan(s) = Unscanned
  /\ HeadsIn(s) # {} =>
       /\ Scan(s).section # None
       /\ FlattenSeq(LinesOf(Scan(s).done)) \o Scan(s).lines = FromFirstHeading(s)

\* Scanning a line keeps the text covered.
LEMMA LineIsCovered ==
  ASSUME NEW T, Headed(T), NEW s \in Seq(T), NEW e \in T, Covered(s)
  PROVE  Covered(Append(s, e))
<1>1. PICK t : t = Append(s, e)
  OBVIOUS
<1>2. PICK a, l, d : /\ Scan(s) = [section |-> a, lines |-> l, done |-> d]
                     /\ l \in Seq(T) /\ d \in Seq(SectionOf(T))
                     /\ [section |-> a, lines |-> l] \in SectionOf(T)
  <2>1. Scan(s) \in ScanOf(T)
    BY Scanned
  <2> QED BY <2>1 DEF ScanOf, SectionOf
<1>3. Scan(t) = ScanLine(Scan(s), e) /\ e.text # None
  BY <1>1, ScanSnoc DEF Headed
<1>4. LinesOf(d) \in Seq(Seq(T)) /\ FlattenSeq(LinesOf(d)) \in Seq(T)
      /\ FlattenSeq(LinesOf(<<>>)) = <<>>
  <2>1. Lined(SectionOf(T), T)
    BY DEF Lined, SectionOf
  <2>2. LinesOf(d) \in Seq(Seq(T)) /\ LinesOf(<<>>) = <<>>
    BY <1>2, <2>1, LinesOfSnoc
  <2>3. \A q \in Seq(Seq(T)) : FlattenSeq(q) \in Seq(T)
    BY FlattenSnoc, EmptySeq
  <2>4. FlattenSeq(<<>>) = <<>>
    BY FlattenSnoc, EmptySeq
  <2> QED BY <2>2, <2>3, <2>4
<1>5. /\ HeadsIn(t) = {} <=> HeadsIn(s) = {} /\ e.mark # "##"
      /\ HeadsIn(s) # {} => FromFirstHeading(t) = Append(FromFirstHeading(s), e)
      /\ HeadsIn(s) = {} /\ e.mark = "##" => FromFirstHeading(t) = <<e>>
  <2> HIDE <1>1
  <2>1. /\ HeadsIn(Append(s, e)) = {} <=> HeadsIn(s) = {} /\ e.mark # "##"
        /\ HeadsIn(s) # {} => FromFirstHeading(Append(s, e)) = Append(FromFirstHeading(s), e)
        /\ HeadsIn(s) = {} /\ e.mark = "##" => FromFirstHeading(Append(s, e)) = <<e>>
    BY FromFirstGrows
  <2> QED BY <1>1, <2>1
<1>6. CASE HeadsIn(s) = {} /\ e.mark # "##"
  <2>1. Scan(s) = Unscanned
    BY <1>6 DEF Covered
  <2>2. Scan(t) = Unscanned
    BY <1>3, <1>6, <2>1 DEF ScanLine, Unscanned
  <2> QED BY <1>1, <1>5, <1>6, <2>2 DEF Covered
<1>7. CASE HeadsIn(s) = {} /\ e.mark = "##"
  <2>1. Scan(s) = Unscanned
    BY <1>7 DEF Covered
  <2>2. Scan(t) = [section |-> e.text, lines |-> <<e>>, done |-> <<>>]
    BY <1>3, <1>7, <2>1 DEF ScanLine, Flushed, Unscanned
  <2>3. <<>> \o <<e>> = <<e>>
    OBVIOUS
  <2> QED BY <1>1, <1>3, <1>4, <1>5, <1>7, <2>2, <2>3 DEF Covered
<1>8. CASE HeadsIn(s) # {}
  <2>1. a # None /\ FlattenSeq(LinesOf(d)) \o l = FromFirstHeading(s)
    BY <1>2, <1>8 DEF Covered
  <2>2. CASE e.mark = "##"
    <3>1. Flushed(Scan(s)) = Append(d, [section |-> a, lines |-> l])
      BY <1>2, <2>1 DEF Flushed
    <3>2. Scan(t) = [section |-> e.text, lines |-> <<e>>,
                     done |-> Append(d, [section |-> a, lines |-> l])]
      BY <1>3, <2>2, <3>1 DEF ScanLine
    <3>3. LinesOf(Append(d, [section |-> a, lines |-> l])) = Append(LinesOf(d), l)
      <4>1. Lined(SectionOf(T), T)
        BY DEF Lined, SectionOf
      <4>2. PICK r \in SectionOf(T) : r = [section |-> a, lines |-> l]
        BY <1>2
      <4>3. d \in Seq(SectionOf(T))
        BY <1>2
      <4>4. LinesOf(Append(d, r)) = Append(LinesOf(d), r.lines)
        BY <4>1, <4>3, <4>2, LinesOfSnoc
      <4>5. r.lines = l
        BY <4>2
      <4> QED BY <4>2, <4>4, <4>5
    <3>4. FlattenSeq(Append(LinesOf(d), l)) = FlattenSeq(LinesOf(d)) \o l
      BY <1>2, <1>4, FlattenSnoc
    <3>5. FromFirstHeading(s) \in Seq(T)
      BY <1>8, FromFirstGrows
    <3>6. FromFirstHeading(s) \o <<e>> = Append(FromFirstHeading(s), e)
      BY <3>5
    <3>7. Scan(t).section # None
          /\ FlattenSeq(LinesOf(Scan(t).done)) \o Scan(t).lines = FromFirstHeading(t)
      <4>1. Scan(t).section = e.text /\ Scan(t).lines = <<e>>
            /\ Scan(t).done = Append(d, [section |-> a, lines |-> l])
        BY <3>2
      <4>2. FlattenSeq(LinesOf(Scan(t).done)) = FromFirstHeading(s)
        BY <2>1, <3>3, <3>4, <4>1
      <4> QED BY <1>3, <1>5, <1>8, <3>6, <4>1, <4>2
    <3> QED BY <1>1, <1>5, <1>8, <3>7 DEF Covered
  <2>3. CASE e.mark # "##"
    <3>1. Scan(t) = [section |-> a, lines |-> Append(l, e), done |-> d]
      <4>1. Scan(s).section = a /\ Scan(s).lines = l
        BY <1>2
      <4>2. Scan(t) = [Scan(s) EXCEPT !.lines = Append(l, e)]
        BY <1>3, <2>1, <2>3, <4>1 DEF ScanLine
      <4>3. \A x : [[section |-> a, lines |-> l, done |-> d] EXCEPT !.lines = x]
                   = [section |-> a, lines |-> x, done |-> d]
        OBVIOUS
      <4> QED BY <1>2, <4>2, <4>3
    <3>2. FlattenSeq(LinesOf(d)) \o Append(l, e) = Append(FlattenSeq(LinesOf(d)) \o l, e)
      BY <1>2, <1>4
    <3>3. Scan(t).section = a /\ Scan(t).lines = Append(l, e) /\ Scan(t).done = d
      BY <3>1
    <3>4. Scan(t).section # None
          /\ FlattenSeq(LinesOf(Scan(t).done)) \o Scan(t).lines = FromFirstHeading(t)
      BY <1>5, <1>8, <2>1, <3>2, <3>3
    <3> QED BY <1>1, <1>5, <1>8, <3>4 DEF Covered
  <2> QED BY <2>2, <2>3
<1> QED BY <1>6, <1>7, <1>8

\* The sections of a text, one after the other.
LEMMA SectionsAre ==
  ASSUME NEW T, Headed(T), NEW s \in Seq(T), NEW path
  PROVE  LET sections == Sections(path, s) IN
         /\ sections \in Seq([section : {None} \cup {l.text : l \in T} \cup {Last(path)},
                              lines : Seq(T)])
         /\ LinesOf(sections) \in Seq(Seq(T))
         /\ FlattenSeq(LinesOf(sections)) = FromFirstHeading(s)
<1> DEFINE R == [section : {None} \cup {l.text : l \in T} \cup {Last(path)}, lines : Seq(T)]
<1>1. PICK sections : sections = Sections(path, s)
  OBVIOUS
<1>2. Covered(s)
  <2> DEFINE P == {r \in Seq(T) : Covered(r)}
  <2>1. <<>> \in P
    BY Scanned, EmptySeq DEF Covered, HeadsIn
  <2>2. \A r \in Seq(T) : \A e \in T : r \in P => Append(r, e) \in P
    BY LineIsCovered, AppendProperties
  <2> HIDE DEF P
  <2>3. Seq(T) \subseteq P
    BY <2>1, <2>2, OneMore
  <2> QED BY <2>3 DEF P
<1>3. PICK a, l, d : /\ Scan(s) = [section |-> a, lines |-> l, done |-> d]
                     /\ l \in Seq(T) /\ d \in Seq(SectionOf(T))
                     /\ [section |-> a, lines |-> l] \in SectionOf(T)
  <2>1. Scan(s) \in ScanOf(T)
    BY Scanned
  <2> QED BY <2>1 DEF ScanOf, SectionOf
<1>4. SectionOf(T) \subseteq R /\ Lined(R, T)
  BY DEF SectionOf, Lined
<1>5. <<>> \in Seq(R) /\ d \in Seq(R)
  <2> HIDE DEF R
  <2> QED BY <1>3, <1>4
<1>6. ASSUME HeadsIn(s) = {}
      PROVE  LinesOf(sections) = Append(<<>>, s) /\ FromFirstHeading(s) = s
             /\ sections \in Seq(R)
  <2>1. Split(s) = <<>>
    BY <1>2, <1>6 DEF Covered, Split, Flushed, Unscanned
  <2>2. PICK r \in R : r = [section |-> Last(path), lines |-> s]
    OBVIOUS
  <2>3. sections = Append(<<>>, r) /\ r.lines = s
    BY <1>1, <2>1, <2>2 DEF Sections
  <2> HIDE DEF R
  <2>4. LinesOf(Append(<<>>, r)) = Append(<<>>, r.lines)
    <3>1. PICK q \in Seq(R) : q = <<>>
      BY <1>5
    <3>2. LinesOf(Append(q, r)) = Append(LinesOf(q), r.lines) /\ LinesOf(<<>>) = <<>>
      BY <1>4, LinesOfSnoc
    <3> QED BY <3>1, <3>2
  <2>5. FromFirstHeading(s) = s
    BY <1>6 DEF FromFirstHeading, HeadsIn
  <2> QED BY <1>5, <2>2, <2>3, <2>4, <2>5, AppendProperties
<1>7. ASSUME HeadsIn(s) # {}
      PROVE  LinesOf(sections) = Append(LinesOf(d), l) /\ sections \in Seq(R)
             /\ FlattenSeq(LinesOf(d)) \o l = FromFirstHeading(s)
  <2>1. a # None /\ FlattenSeq(LinesOf(d)) \o l = FromFirstHeading(s)
    BY <1>2, <1>3, <1>7 DEF Covered
  <2>2. PICK r \in R : r = [section |-> a, lines |-> l]
    BY <1>3, <1>4
  <2>3. Split(s) = Append(d, r)
    BY <1>3, <2>1, <2>2 DEF Split, Flushed
  <2>4. sections = Append(d, r)
    <3>1. Split(s) # <<>>
      <4> HIDE DEF R
      <4>1. d \in Seq(SectionOf(T))
        BY <1>3
      <4> QED BY <2>3, <4>1
    <3> QED BY <1>1, <2>3, <3>1 DEF Sections
  <2> HIDE DEF R
  <2>5. r.lines = l
    BY <2>2
  <2>6. LinesOf(Append(d, r)) = Append(LinesOf(d), r.lines)
    BY <1>4, <1>5, LinesOfSnoc
  <2> QED BY <1>5, <2>1, <2>2, <2>4, <2>5, <2>6, AppendProperties
<1> HIDE DEF R
<1>8. LinesOf(d) \in Seq(Seq(T)) /\ <<>> \in Seq(Seq(T))
  <2>1. ASSUME NEW q \in Seq(R) PROVE LinesOf(q) \in Seq(Seq(T))
    <3>1. Len(q) \in Nat /\ DOMAIN q = 1..Len(q) /\ \A i \in 1..Len(q) : q[i] \in R
      OBVIOUS
    <3>2. \A i \in 1..Len(q) : q[i].lines \in Seq(T)
      BY <1>4, <3>1 DEF Lined
    <3>3. LinesOf(q) = [i \in 1..Len(q) |-> q[i].lines]
      BY <3>1 DEF LinesOf
    <3> QED BY <3>1, <3>2, <3>3
  <2> QED BY <1>5, <2>1
<1>9. \A q \in Seq(Seq(T)) : \A e \in Seq(T) :
        /\ FlattenSeq(Append(q, e)) = FlattenSeq(q) \o e
        /\ FlattenSeq(<<>>) = <<>>
        /\ Append(q, e) \in Seq(Seq(T))
  BY FlattenSnoc, AppendProperties
<1>10. <<>> \o s = s
  BY ConcatEmptySeq
<1>11. LinesOf(sections) \in Seq(Seq(T)) /\ FlattenSeq(LinesOf(sections)) = FromFirstHeading(s)
  BY <1>3, <1>6, <1>7, <1>8, <1>9, <1>10
<1> QED BY <1>1, <1>6, <1>7, <1>11 DEF R

\* Whole chunks of one page hold the same lines as its sections.
LEMMA ChunksAre ==
  ASSUME NEW T, Headed(T), NEW s \in Seq(T), NEW path
  PROVE  LET made == Chunks(path, s) IN
         /\ made \in Seq(Range(made))
         /\ \A i \in DOMAIN made : made[i].path = path
         /\ LinesOf(made) \in Seq(Seq(T))
         /\ FlattenSeq(LinesOf(made)) = FromFirstHeading(s)
<1>1. PICK sections : sections = Sections(path, s)
  OBVIOUS
<1>2. PICK made : made = Chunks(path, s)
  OBVIOUS
<1>3. PICK n \in Nat : DOMAIN sections = 1..n
  <2>1. \A R : sections \in Seq(R) => Len(sections) \in Nat /\ DOMAIN sections = 1..Len(sections)
    OBVIOUS
  <2> QED BY <1>1, <2>1, SectionsAre
<1>4. /\ DOMAIN made = 1..n
      /\ \A i \in 1..n : made[i].path = path /\ made[i].lines = sections[i].lines
      /\ made = [i \in 1..n |-> made[i]]
  BY <1>1, <1>2, <1>3 DEF Chunks
<1>5. \A i \in 1..n : made[i] \in Range(made)
  BY <1>4 DEF Range
<1>6. made \in Seq(Range(made))
  BY <1>4, <1>5
<1>7. LinesOf(made) = LinesOf(sections)
  BY <1>3, <1>4 DEF LinesOf
<1> QED BY <1>1, <1>2, <1>4, <1>6, <1>7, SectionsAre

\* The lines of one page among the sections of a file.
OnlyOf(file, path) ==
  [i \in DOMAIN file |-> IF file[i].path = path THEN file[i].lines ELSE <<>>]
PartOf(T) == {part \in UNION {Range(Chunks(Manifest[i], s)) : i \in DOMAIN Manifest, s \in Seq(T)} :
                part.lines \in Seq(T)}

\* The lines of a page in two files are those in the first and in the second.
LEMMA OnlyOfConcat ==
  ASSUME NEW T, NEW f \in Seq(PartOf(T)), NEW g \in Seq(PartOf(T)), NEW path
  PROVE  /\ OnlyOf(f, path) \in Seq(Seq(T))
         /\ OnlyOf(f \o g, path) = OnlyOf(f, path) \o OnlyOf(g, path)
<1> DEFINE Line(part) == IF part.path = path THEN part.lines ELSE <<>>
<1>1. \A part \in PartOf(T) : Line(part) \in Seq(T)
  BY DEF PartOf
<1>2. ASSUME NEW h \in Seq(PartOf(T))
      PROVE  /\ OnlyOf(h, path) \in Seq(Seq(T)) /\ Len(OnlyOf(h, path)) = Len(h)
             /\ \A i \in 1..Len(h) : OnlyOf(h, path)[i] = Line(h[i])
  <2>1. OnlyOf(h, path) = [i \in 1..Len(h) |-> Line(h[i])]
    BY DEF OnlyOf
  <2>2. Len(h) \in Nat /\ \A i \in 1..Len(h) : h[i] \in PartOf(T)
    OBVIOUS
  <2> HIDE DEF Line
  <2> QED BY <1>1, <2>1, <2>2
<1> HIDE DEF Line
<1>3. PICK c : c = f \o g
  OBVIOUS
<1>4. /\ c \in Seq(PartOf(T)) /\ Len(c) = Len(f) + Len(g)
      /\ Len(f) \in Nat /\ Len(g) \in Nat
      /\ \A i \in 1..Len(c) : c[i] = IF i <= Len(f) THEN f[i] ELSE g[i - Len(f)]
  BY <1>3, ConcatProperties
<1>5. PICK a, b, d : a = OnlyOf(f, path) /\ b = OnlyOf(g, path) /\ d = a \o b
  OBVIOUS
<1>6. /\ a \in Seq(Seq(T)) /\ Len(a) = Len(f) /\ \A i \in 1..Len(f) : a[i] = Line(f[i])
  BY <1>2, <1>5
<1>7. /\ b \in Seq(Seq(T)) /\ Len(b) = Len(g) /\ \A i \in 1..Len(g) : b[i] = Line(g[i])
  BY <1>2, <1>5
<1>8. /\ d \in Seq(Seq(T)) /\ Len(d) = Len(f) + Len(g)
      /\ \A i \in 1..Len(d) : d[i] = IF i <= Len(f) THEN a[i] ELSE b[i - Len(f)]
  <2>1. /\ a \o b \in Seq(Seq(T)) /\ Len(a \o b) = Len(a) + Len(b)
        /\ \A i \in 1..(Len(a) + Len(b)) :
             (a \o b)[i] = IF i <= Len(a) THEN a[i] ELSE b[i - Len(a)]
    <3>1. a \in Seq(Seq(T)) /\ b \in Seq(Seq(T))
      BY <1>6, <1>7
    <3> QED BY <3>1, ConcatProperties
  <2> QED BY <1>5, <1>6, <1>7, <2>1
<1>9. \A i \in 1..Len(d) : OnlyOf(c, path)[i] = d[i]
  <2> SUFFICES ASSUME NEW i \in 1..Len(d) PROVE OnlyOf(c, path)[i] = d[i]
    OBVIOUS
  <2>1. OnlyOf(c, path)[i] = Line(c[i])
    BY <1>2, <1>4, <1>8
  <2>2. CASE i <= Len(f)
    <3>1. i \in 1..Len(f)
      BY <1>4, <1>8, <2>2
    <3> QED BY <1>4, <1>6, <1>8, <2>1, <2>2, <3>1
  <2>3. CASE ~(i <= Len(f))
    <3>1. i - Len(f) \in 1..Len(g)
      BY <1>4, <1>8, <2>3
    <3> QED BY <1>4, <1>7, <1>8, <2>1, <2>3, <3>1
  <2> QED BY <2>2, <2>3
<1>10. OnlyOf(c, path) \in Seq(Seq(T)) /\ Len(OnlyOf(c, path)) = Len(d)
  BY <1>2, <1>4, <1>8
<1>11. OnlyOf(c, path) = d
  BY <1>8, <1>9, <1>10, SeqEqual
<1> QED BY <1>3, <1>5, <1>6, <1>11

\* Empty sequences flatten to nothing.
LEMMA NothingFlattened ==
  ASSUME NEW s \in Seq({<<>>})
  PROVE  FlattenSeq(s) = <<>>
<1> DEFINE P == {r \in Seq({<<>>}) : FlattenSeq(r) = <<>>}
<1>1. <<>> \in P
  BY DEF FlattenSeq
<1>2. ASSUME NEW r \in Seq({<<>>}), r \in P, NEW e \in {<<>>} PROVE Append(r, e) \in P
  <2>1. r \in Seq(Seq({})) /\ e \in Seq({})
    <3>1. {<<>>} \subseteq Seq({})
      OBVIOUS
    <3>2. \A Q : {<<>>} \subseteq Q => r \in Seq(Q) /\ e \in Q
      OBVIOUS
    <3> QED BY <3>1, <3>2
  <2>2. FlattenSeq(Append(r, e)) = FlattenSeq(r) \o e
    BY <2>1, FlattenSnoc
  <2>3. FlattenSeq(r) = <<>> /\ e = <<>>
    BY <1>2
  <2>4. <<>> \o <<>> = <<>>
    OBVIOUS
  <2>5. Append(r, e) \in Seq({<<>>})
    OBVIOUS
  <2> QED BY <2>2, <2>3, <2>4, <2>5
<1> HIDE DEF P
<1>3. Seq({<<>>}) \subseteq P
  BY <1>1, <1>2, OneMore
<1> QED BY <1>3 DEF P

\* What the chunks of one page hold of a page.
LEMMA PageChunks ==
  ASSUME NEW T, Headed(T), NEW s \in Seq(T), NEW i \in DOMAIN Manifest, NEW path
  PROVE  /\ Chunks(Manifest[i], s) \in Seq(PartOf(T))
         /\ FlattenSeq(OnlyOf(Chunks(Manifest[i], s), path)) =
              IF path = Manifest[i] THEN FromFirstHeading(s) ELSE <<>>
<1>1. PICK made : made = Chunks(Manifest[i], s)
  OBVIOUS
<1>2. /\ made \in Seq(Range(made))
      /\ \A j \in DOMAIN made : made[j].path = Manifest[i]
      /\ LinesOf(made) \in Seq(Seq(T))
      /\ FlattenSeq(LinesOf(made)) = FromFirstHeading(s)
  BY <1>1, ChunksAre
<1>3. Len(made) \in Nat /\ DOMAIN made = 1..Len(made) /\ made = [j \in 1..Len(made) |-> made[j]]
  BY <1>2
<1>4. \A j \in 1..Len(made) : LinesOf(made)[j] = made[j].lines
  BY <1>3 DEF LinesOf
<1>5. \A j \in 1..Len(made) : made[j].lines \in Seq(T)
  <2>1. DOMAIN LinesOf(made) = 1..Len(made)
    BY <1>3 DEF LinesOf
  <2>2. PICK q \in Seq(Seq(T)) : q = LinesOf(made)
    BY <1>2
  <2>3. \A j \in DOMAIN q : q[j] \in Seq(T)
    OBVIOUS
  <2> QED BY <1>4, <2>1, <2>2, <2>3
<1>6. \A j \in 1..Len(made) : made[j] \in PartOf(T)
  <2>1. Range(made) \in {Range(Chunks(Manifest[k], t)) : k \in DOMAIN Manifest, t \in Seq(T)}
    BY <1>1
  <2>2. \A j \in 1..Len(made) : made[j] \in Range(made)
    BY <1>3 DEF Range
  <2> QED BY <1>5, <2>1, <2>2 DEF PartOf
<1>7. made \in Seq(PartOf(T))
  BY <1>3, <1>6
<1>8. CASE path = Manifest[i]
  <2>1. OnlyOf(made, path) = LinesOf(made)
    BY <1>2, <1>8 DEF OnlyOf, LinesOf
  <2> QED BY <1>1, <1>2, <1>7, <1>8, <2>1
<1>9. CASE path # Manifest[i]
  <2>1. OnlyOf(made, path) = [j \in 1..Len(made) |-> <<>>]
    BY <1>2, <1>3, <1>9 DEF OnlyOf
  <2>2. OnlyOf(made, path) \in Seq({<<>>})
    BY <1>3, <2>1
  <2> QED BY <1>1, <1>7, <1>9, <2>2, NothingFlattened
<1> QED BY <1>8, <1>9

\* One document more has its chunks last.
LEMMA AllChunksSnoc ==
  ASSUME NEW T, Headed(T), NEW docs \in Seq(Seq(T)), NEW e \in Seq(T),
         Len(docs) + 1 <= Len(Manifest)
  PROVE  /\ AllChunks(docs) \in Seq(PartOf(T))
         /\ AllChunks(Append(docs, e)) = AllChunks(docs) \o Chunks(Manifest[Len(docs) + 1], e)
<1> DEFINE Of(d) == [i \in DOMAIN d |-> Chunks(Manifest[i], d[i])]
<1>1. DOMAIN Manifest = 1..Len(Manifest) /\ Len(Manifest) \in Nat
  BY ManifestAssumption DEF ManifestAssumption
<1>2. \A i \in DOMAIN Manifest : \A s \in Seq(T) : Chunks(Manifest[i], s) \in Seq(PartOf(T))
  BY PageChunks
<1>3. ASSUME NEW d \in Seq(Seq(T)), Len(d) <= Len(Manifest)
      PROVE  /\ Of(d) \in Seq(Seq(PartOf(T))) /\ Len(Of(d)) = Len(d)
             /\ \A i \in 1..Len(d) : Of(d)[i] = Chunks(Manifest[i], d[i])
  <2>1. Len(d) \in Nat /\ DOMAIN d = 1..Len(d) /\ \A i \in 1..Len(d) : d[i] \in Seq(T)
    OBVIOUS
  <2>2. \A i \in 1..Len(d) : i \in DOMAIN Manifest
    BY <1>1, <1>3, <2>1
  <2> QED BY <1>2, <2>1, <2>2
<1>4. \A d : AllChunks(d) = FlattenSeq(Of(d))
  BY DEF AllChunks
<1> HIDE DEF Of
<1>5. PICK t : t = Append(docs, e)
  OBVIOUS
<1>6. /\ t \in Seq(Seq(T)) /\ Len(t) = Len(docs) + 1 /\ t[Len(docs) + 1] = e
      /\ \A i \in 1..Len(docs) : t[i] = docs[i]
  BY <1>5, AppendProperties
<1>7. PICK c : c = Chunks(Manifest[Len(docs) + 1], e)
  OBVIOUS
<1>8. c \in Seq(PartOf(T)) /\ Len(docs) \in Nat
  <2>1. Len(docs) \in Nat /\ Len(docs) + 1 \in DOMAIN Manifest
    BY <1>1
  <2> QED BY <1>2, <1>7, <2>1
<1>9. PICK a : a = Append(Of(docs), c)
  OBVIOUS
<1>10. /\ Of(docs) \in Seq(Seq(PartOf(T))) /\ Len(Of(docs)) = Len(docs)
       /\ \A i \in 1..Len(docs) : Of(docs)[i] = Chunks(Manifest[i], docs[i])
  BY <1>1, <1>3, <1>8
<1>11. /\ a \in Seq(Seq(PartOf(T))) /\ Len(a) = Len(docs) + 1 /\ a[Len(docs) + 1] = c
       /\ \A i \in 1..Len(docs) : a[i] = Of(docs)[i]
  BY <1>8, <1>9, <1>10, AppendProperties
<1>12. /\ Of(t) \in Seq(Seq(PartOf(T))) /\ Len(Of(t)) = Len(docs) + 1
       /\ \A i \in 1..(Len(docs) + 1) : Of(t)[i] = Chunks(Manifest[i], t[i])
  <2>1. Len(t) <= Len(Manifest)
    BY <1>6
  <2> QED BY <1>3, <1>6, <2>1
<1>13. \A i \in 1..(Len(docs) + 1) : Of(t)[i] = a[i]
  <2> SUFFICES ASSUME NEW i \in 1..(Len(docs) + 1) PROVE Of(t)[i] = a[i]
    OBVIOUS
  <2>1. CASE i = Len(docs) + 1
    BY <1>6, <1>7, <1>11, <1>12, <2>1
  <2>2. CASE i # Len(docs) + 1
    <3>1. i \in 1..Len(docs)
      BY <1>8, <2>2
    <3> QED BY <1>6, <1>10, <1>11, <1>12, <3>1
  <2> QED BY <2>1, <2>2
<1>14. Of(t) = a
  BY <1>11, <1>12, <1>13, SeqEqual
<1>15. FlattenSeq(Append(Of(docs), c)) = FlattenSeq(Of(docs)) \o c
       /\ FlattenSeq(Of(docs)) \in Seq(PartOf(T))
  BY <1>8, <1>10, FlattenSnoc
<1> QED BY <1>4, <1>5, <1>7, <1>9, <1>14, <1>15

\* Every page's chunks hold the text of that page, and no other chunks do.
LEMMA ChunksOfPage ==
  ASSUME NEW T, Headed(T), NEW docs \in Seq(Seq(T)), Len(docs) = Len(Manifest),
         NEW n \in DOMAIN Manifest
  PROVE  FlattenSeq(OnlyOf(AllChunks(docs), Manifest[n])) = FromFirstHeading(docs[n])
<1> DEFINE Says(d) == FlattenSeq(OnlyOf(AllChunks(d), Manifest[n])) =
                        IF n <= Len(d) THEN FromFirstHeading(d[n]) ELSE <<>>
           P == {d \in Seq(Seq(T)) : Len(d) <= Len(Manifest) => Says(d)}
<1>1. /\ DOMAIN Manifest = 1..Len(Manifest) /\ Len(Manifest) \in Nat /\ n \in Nat /\ n >= 1
      /\ \A i, j \in DOMAIN Manifest : Manifest[i] = Manifest[j] => i = j
  BY ManifestAssumption DEF ManifestAssumption
<1>2. <<>> \in P
  <2>1. AllChunks(<<>>) = <<>>
    BY DEF AllChunks, FlattenSeq
  <2>2. OnlyOf(<<>>, Manifest[n]) = <<>> /\ FlattenSeq(<<>>) = <<>>
    BY DEF OnlyOf, FlattenSeq
  <2>3. ~(n <= Len(<<>>))
    BY <1>1
  <2> QED BY <2>1, <2>2, <2>3
<1>3. ASSUME NEW d \in Seq(Seq(T)), NEW e \in Seq(T), d \in P PROVE Append(d, e) \in P
  <2> SUFFICES ASSUME Len(d) + 1 <= Len(Manifest) PROVE Says(Append(d, e))
    BY AppendProperties
  <2>1. Len(d) \in Nat /\ Len(d) + 1 \in DOMAIN Manifest /\ Says(d)
    BY <1>1, <1>3
  <2>2. PICK t : t = Append(d, e)
    OBVIOUS
  <2>3. /\ t \in Seq(Seq(T)) /\ Len(t) = Len(d) + 1 /\ t[Len(d) + 1] = e
        /\ \A i \in 1..Len(d) : t[i] = d[i]
    BY <2>2, AppendProperties
  <2>4. PICK f, g : f = AllChunks(d) /\ g = Chunks(Manifest[Len(d) + 1], e)
    OBVIOUS
  <2>5. f \in Seq(PartOf(T)) /\ AllChunks(t) = f \o g
    BY <2>2, <2>4, AllChunksSnoc
  <2>6. g \in Seq(PartOf(T))
        /\ FlattenSeq(OnlyOf(g, Manifest[n])) =
             IF Manifest[n] = Manifest[Len(d) + 1] THEN FromFirstHeading(e) ELSE <<>>
    BY <2>1, <2>4, PageChunks
  <2>7. PICK a, b : a = OnlyOf(f, Manifest[n]) /\ b = OnlyOf(g, Manifest[n])
    OBVIOUS
  <2>8. a \in Seq(Seq(T)) /\ b \in Seq(Seq(T)) /\ OnlyOf(AllChunks(t), Manifest[n]) = a \o b
    <3> PICK path : path = Manifest[n]
      OBVIOUS
    <3>1. /\ OnlyOf(f, path) \in Seq(Seq(T)) /\ OnlyOf(g, path) \in Seq(Seq(T))
          /\ OnlyOf(f \o g, path) = OnlyOf(f, path) \o OnlyOf(g, path)
      <4>1. f \in Seq(PartOf(T)) /\ g \in Seq(PartOf(T))
        BY <2>5, <2>6
      <4> QED BY ONLY <4>1, OnlyOfConcat
    <3> QED BY <2>5, <2>7, <3>1
  <2>9. /\ FlattenSeq(a \o b) = FlattenSeq(a) \o FlattenSeq(b)
        /\ FlattenSeq(a) \in Seq(T) /\ FlattenSeq(b) \in Seq(T)
    <3>1. \A q \in Seq(Seq(T)) : FlattenSeq(q) \in Seq(T)
      BY FlattenSnoc, EmptySeq
    <3> QED BY <2>8, <3>1, FlattenConcat
  <2>10. FlattenSeq(a) = IF n <= Len(d) THEN FromFirstHeading(d[n]) ELSE <<>>
    BY <2>1, <2>4, <2>7
  <2>11. FlattenSeq(b) = IF n = Len(d) + 1 THEN FromFirstHeading(e) ELSE <<>>
    BY <1>1, <2>1, <2>6, <2>7
  <2> HIDE DEF Says
  <2>12. FlattenSeq(OnlyOf(AllChunks(t), Manifest[n])) =
           IF n <= Len(t) THEN FromFirstHeading(t[n]) ELSE <<>>
    <3>1. CASE n <= Len(d)
      <4>1. FlattenSeq(b) = <<>> /\ n <= Len(t) /\ t[n] = d[n]
        BY <1>1, <2>1, <2>3, <2>11, <3>1
      <4>2. FlattenSeq(a) \o <<>> = FlattenSeq(a)
        BY <2>9, ConcatEmptySeq
      <4> QED BY <2>8, <2>9, <2>10, <3>1, <4>1, <4>2
    <3>2. CASE ~(n <= Len(d))
      <4>1. FlattenSeq(a) = <<>> /\ <<>> \o FlattenSeq(b) = FlattenSeq(b)
        BY <2>9, <2>10, <3>2, ConcatEmptySeq
      <4>2. n <= Len(t) <=> n = Len(d) + 1
        BY <1>1, <2>1, <2>3, <3>2
      <4> QED BY <2>3, <2>8, <2>9, <2>11, <4>1, <4>2
    <3> QED BY <3>1, <3>2
  <2> QED BY <2>2, <2>12 DEF Says
<1>4. Seq(Seq(T)) \subseteq P
  <2> HIDE DEF P
  <2> QED BY <1>2, <1>3, OneMore
<1>5. Says(docs)
  BY <1>4
<1> QED BY <1>1, <1>5

------------------------------------------------------------------------------
\* Reading a page, one request at a time.

AnyBlock == Blocks \cup UNION {Range(b.inner) : b \in Blocks}
TextLine == [mark : Range(Mark), text : {b.text : b \in AnyBlock} \ {None}]

\* The minimum of a set of numbers.
LEMMA MinOf ==
  ASSUME NEW S \in SUBSET Nat, S # {}
  PROVE  Min(S) \in S /\ \A j \in S : Min(S) <= j
BY LeastNumber DEF Min

\* Blocks are read as lines of text.
LEMMA BlocksOfLines ==
  ASSUME NEW s \in Seq(AnyBlock)
  PROVE  /\ [i \in DOMAIN s |-> BlockLine(s[i])] \in Seq(Seq(TextLine))
         /\ Lines(s) \in Seq(TextLine)
<1>1. ASSUME NEW b \in AnyBlock PROVE BlockLine(b) \in Seq(TextLine)
  <2>1. CASE b.kind \in DOMAIN Mark /\ b.text # None
    <3>1. [mark |-> Mark[b.kind], text |-> b.text] \in TextLine
      BY <2>1 DEF TextLine, Range
    <3> QED BY <2>1, <3>1 DEF BlockLine
  <2>2. CASE ~(b.kind \in DOMAIN Mark /\ b.text # None)
    BY <2>2 DEF BlockLine
  <2> QED BY <2>1, <2>2
<1>2. [i \in DOMAIN s |-> BlockLine(s[i])] \in Seq(Seq(TextLine))
  <2>1. \A i \in 1..Len(s) : BlockLine(s[i]) \in Seq(TextLine)
    BY <1>1
  <2> QED BY <2>1
<1>3. Lines(s) \in Seq(TextLine)
  <2>1. \A q \in Seq(Seq(TextLine)) : FlattenSeq(q) \in Seq(TextLine)
    BY FlattenSnoc, EmptySeq
  <2> QED BY <1>2, <2>1 DEF Lines
<1> QED BY <1>2, <1>3

\* No heading of a text is empty.
LEMMA TextLinesAreHeaded == Headed(TextLine)
BY DEF Headed, TextLine

\* Every content is a sequence of blocks.
LEMMA ContentsAreBlocks ==
  ASSUME NEW path
  PROVE  Contents(path) \subseteq Seq(Blocks) /\ PageContent(path) \in Contents(path)
<1>1. Draft \subseteq Seq(Blocks)
  BY DraftAssumption DEF DraftAssumption
<1>2. PageContent(path) \in Seq(Blocks)
  <2>1. CASE path \notin DOMAIN KindOf
    BY <2>1 DEF PageContent
  <2>2. CASE path \in DOMAIN KindOf
    <3>1. PICK sections : sections = SectionsOf[KindOf[path]]
      OBVIOUS
    <3> DEFINE T == {Block(kind, text) : kind \in {"heading_2", "bulleted_list_item"},
                                         text \in Range(sections)}
               two == [i \in DOMAIN sections |->
                         <<Block("heading_2", sections[i]),
                           Block("bulleted_list_item", sections[i])>>]
    <3>2. PageContent(path) = FlattenSeq(two)
      BY <2>2, <3>1 DEF PageContent
    <3>3. PICK n \in Nat : DOMAIN sections = 1..n
      <4>1. KindOf[path] \in {"product", "destination", "pricing", "faq"}
        BY <2>2, DraftAssumption DEF DraftAssumption, SectionsOf
      <4>2. sections \in {ProductSections, DestinationSections, PricingSections, FaqSections}
        BY <3>1, <4>1 DEF SectionsOf
      <4>3. /\ DOMAIN ProductSections = 1..6 /\ DOMAIN DestinationSections = 1..6
            /\ DOMAIN PricingSections = 1..7 /\ DOMAIN FaqSections = 1..4
        BY DEF ProductSections, DestinationSections, PricingSections, FaqSections
      <4> QED BY <4>2, <4>3
    <3>4. two \in Seq(Seq(T))
      <4>1. \A i \in 1..n : sections[i] \in Range(sections)
        BY <3>3 DEF Range
      <4>2. \A i \in 1..n : Block("heading_2", sections[i]) \in T
                            /\ Block("bulleted_list_item", sections[i]) \in T
        BY <4>1
      <4> HIDE DEF T
      <4>3. \A i \in 1..n : two[i] \in Seq(T)
        BY <3>3, <4>2
      <4>4. two = [i \in 1..n |-> two[i]]
        BY <3>3
      <4> HIDE DEF two
      <4> QED BY <4>3, <4>4
    <3> HIDE DEF T, two
    <3>5. PICK q \in Seq(T) : q = PageContent(path)
      BY <3>2, <3>4, FlattenSnoc, EmptySeq
    <3>6. Range(q) \subseteq Blocks
      BY <2>2, <3>5 DEF Blocks
    <3>7. \A i \in 1..Len(q) : q[i] \in Blocks
      BY <3>6 DEF Range
    <3> QED BY <3>5, <3>7
  <2> QED BY <2>1, <2>2
<1> QED BY <1>1, <1>2 DEF Contents

\* The blocks of a content, and those inside them.
LEMMA InnerBlocks ==
  ASSUME NEW content \in Seq(Blocks), NEW i \in DOMAIN content
  PROVE  content[i] \in AnyBlock /\ content[i].inner \in Seq(AnyBlock)
<1>1. content[i] \in Blocks
  OBVIOUS
<1>2. PICK b \in Blocks : b = content[i]
  BY <1>1
<1>3. b.inner \in Seq(Range(b.inner))
  BY DraftAssumption DEF DraftAssumption
<1>4. Range(b.inner) \subseteq AnyBlock
  BY DEF AnyBlock
<1> QED BY <1>2, <1>3, <1>4 DEF AnyBlock

\* What a page said up to one of its blocks.
SaidUpTo(top, later, k) == [i \in 1..k |-> Said(top, later, i)]
Laters(path, top) == [Nesting(top) -> Contents(path)]

\* What was said is text.
LEMMA SaidIsText ==
  ASSUME NEW path, NEW top \in Seq(Blocks), NEW later \in Laters(path, top),
         NEW k \in 0..Len(top)
  PROVE  /\ SaidUpTo(top, later, k) \in Seq(Seq(TextLine))
         /\ FlattenSeq(SaidUpTo(top, later, k)) \in Seq(TextLine)
<1>1. ASSUME NEW i \in 1..Len(top) PROVE Said(top, later, i) \in Seq(TextLine)
  <2>1. BlockLine(top[i]) \in Seq(TextLine)
    <3>1. top \in Seq(AnyBlock)
      BY DEF AnyBlock
    <3>2. PICK q \in Seq(Seq(TextLine)) : q = [j \in DOMAIN top |-> BlockLine(top[j])]
      BY <3>1, BlocksOfLines
    <3>3. DOMAIN q = 1..Len(top) /\ q[i] = BlockLine(top[i])
      BY <3>2
    <3> QED BY <3>3
  <2>2. CASE i \notin Nesting(top)
    BY <2>1, <2>2, ConcatEmptySeq DEF Said
  <2>3. CASE i \in Nesting(top)
    <3>1. PICK content \in Seq(Blocks) : content = later[i]
      BY <2>3, ContentsAreBlocks DEF Laters
    <3>2. InnerOf(top[i], content) \in Seq(TextLine)
      <4>1. CASE Same(content, top[i]) = {}
        BY <4>1 DEF InnerOf
      <4>2. CASE Same(content, top[i]) # {}
        <5>1. Same(content, top[i]) \subseteq DOMAIN content /\ DOMAIN content \subseteq Nat
          BY DEF Same
        <5>2. Min(Same(content, top[i])) \in DOMAIN content
          BY <4>2, <5>1, MinOf
        <5> QED BY <4>2, <5>2, InnerBlocks, BlocksOfLines DEF InnerOf
      <4> QED BY <4>1, <4>2
    <3> QED BY <2>1, <2>3, <3>1, <3>2, ConcatProperties DEF Said
  <2> QED BY <2>2, <2>3
<1>2. SaidUpTo(top, later, k) \in Seq(Seq(TextLine))
  <2>1. \A i \in 1..k : i \in 1..Len(top)
    OBVIOUS
  <2> QED BY <1>1, <2>1 DEF SaidUpTo
<1> QED BY <1>2, FlattenSnoc, EmptySeq

\* Blocks that hold nothing are read as their own lines.
LEMMA SaidPlain ==
  ASSUME NEW path, NEW top \in Seq(Blocks), NEW later \in Laters(path, top),
         NEW k \in 0..Len(top), NEW m \in k..Len(top),
         \A i \in (k + 1)..m : i \notin Nesting(top)
  PROVE  FlattenSeq(SaidUpTo(top, later, m)) =
           FlattenSeq(SaidUpTo(top, later, k)) \o Lines(SubSeq(top, k + 1, m))
<1>1. PICK part : part = SubSeq(top, k + 1, m)
  OBVIOUS
<1>2. Len(top) \in Nat /\ k \in Nat /\ m \in Nat /\ k <= m /\ m <= Len(top)
  OBVIOUS
<1>3. /\ part \in Seq(AnyBlock) /\ Len(part) = m - k
      /\ \A i \in 1..(m - k) : part[i] = top[k + i]
  <2>1. \A i \in (k + 1)..m : top[i] \in AnyBlock
    BY <1>2 DEF AnyBlock
  <2>2. /\ SubSeq(top, k + 1, m) \in Seq(AnyBlock)
        /\ Len(SubSeq(top, k + 1, m)) = IF k + 1 <= m THEN m - (k + 1) + 1 ELSE 0
        /\ \A i \in 1..(m - (k + 1) + 1) : SubSeq(top, k + 1, m)[i] = top[(k + 1) + i - 1]
    BY <1>2, <2>1, SubSeqProperties
  <2>3. m - (k + 1) + 1 = m - k /\ \A i \in 1..(m - k) : (k + 1) + i - 1 = k + i
    BY <1>2
  <2>4. Len(part) = m - k
    BY <1>1, <1>2, <2>2
  <2>5. \A i \in 1..(m - k) : part[i] = top[k + i]
    BY <1>1, <2>2, <2>3
  <2> QED BY <1>1, <2>2, <2>4, <2>5
<1>4. PICK a, b, c : /\ a = SaidUpTo(top, later, k)
                     /\ b = [i \in DOMAIN part |-> BlockLine(part[i])]
                     /\ c = SaidUpTo(top, later, m)
  OBVIOUS
<1>5. a \in Seq(Seq(TextLine)) /\ Len(a) = k /\ \A i \in 1..k : a[i] = Said(top, later, i)
  BY <1>2, <1>4, SaidIsText DEF SaidUpTo
<1>6. c \in Seq(Seq(TextLine)) /\ Len(c) = m /\ \A i \in 1..m : c[i] = Said(top, later, i)
  BY <1>2, <1>4, SaidIsText DEF SaidUpTo
<1>7. /\ b \in Seq(Seq(TextLine)) /\ Len(b) = m - k
      /\ \A i \in 1..(m - k) : b[i] = BlockLine(top[k + i])
  <2>1. b \in Seq(Seq(TextLine))
    BY <1>3, <1>4, BlocksOfLines
  <2>2. DOMAIN part = 1..(m - k)
    BY <1>3
  <2>3. Len(b) = m - k
    BY <1>2, <1>4, <2>1, <2>2
  <2> QED BY <1>3, <1>4, <2>1, <2>2, <2>3
<1>8. ASSUME NEW i \in 1..(m - k) PROVE Said(top, later, k + i) = b[i]
  <2>1. k + i \in (k + 1)..m
    BY <1>2
  <2>2. Said(top, later, k + i) = BlockLine(top[k + i]) \o <<>>
    BY <2>1 DEF Said
  <2>3. b[i] = BlockLine(top[k + i]) /\ b[i] \in Seq(TextLine)
    BY <1>7
  <2>4. b[i] \o <<>> = b[i]
    BY <2>3, ConcatEmptySeq
  <2> QED BY <2>2, <2>3, <2>4
<1>9. PICK d : d = a \o b
  OBVIOUS
<1>10. /\ d \in Seq(Seq(TextLine)) /\ Len(d) = m
       /\ \A i \in 1..m : d[i] = IF i <= k THEN a[i] ELSE b[i - k]
  <2>1. d \in Seq(Seq(TextLine)) /\ Len(d) = Len(a) + Len(b)
        /\ \A i \in 1..(Len(a) + Len(b)) : d[i] = IF i <= Len(a) THEN a[i] ELSE b[i - Len(a)]
    BY <1>5, <1>7, <1>9, ConcatProperties
  <2>2. Len(a) + Len(b) = m
    BY <1>2, <1>5, <1>7
  <2> QED BY <1>5, <2>1, <2>2
<1>11. ASSUME NEW i \in 1..m PROVE c[i] = d[i]
  <2>1. CASE i <= k
    <3>1. i \in 1..k
      BY <1>2, <2>1
    <3> QED BY <1>5, <1>6, <1>10, <2>1, <3>1
  <2>2. CASE ~(i <= k)
    <3>1. i - k \in 1..(m - k) /\ k + (i - k) = i
      BY <1>2, <2>2
    <3>2. Said(top, later, i) = b[i - k]
      BY <1>8, <3>1
    <3> QED BY <1>6, <1>10, <2>2, <3>2
  <2> QED BY <2>1, <2>2
<1>12. c = d
  BY <1>6, <1>10, <1>11, SeqEqual
<1>13. FlattenSeq(a \o b) = FlattenSeq(a) \o FlattenSeq(b)
  BY <1>5, <1>7, FlattenConcat
<1>14. FlattenSeq(b) = Lines(part)
  BY <1>4 DEF Lines
<1> QED BY <1>1, <1>4, <1>9, <1>12, <1>13, <1>14

\* The state of a reading: so much was read, and this rest was fetched with it.
ReadSoFar(path, read, rest) ==
  \E top \in {<<>>} \cup Contents(path) : \E later \in Laters(path, top) :
    \E k \in 0..Len(top) :
      /\ rest = SubSeq(top, k + 1, Len(top))
      /\ read = FlattenSeq(SaidUpTo(top, later, k))

\* A page of which only the top blocks were fetched.
LEMMA ReadStart ==
  ASSUME NEW path, NEW top \in {<<>>} \cup Contents(path)
  PROVE  ReadSoFar(path, <<>>, top) /\ top \in Seq(Blocks)
<1>1. top \in Seq(Blocks)
  <2>1. Contents(path) \subseteq Seq(Blocks) /\ <<>> \in Seq(Blocks)
    BY ContentsAreBlocks, EmptySeq
  <2> QED BY <2>1
<1>2. PICK later : later = [i \in Nesting(top) |-> PageContent(path)]
  OBVIOUS
<1>3. later \in Laters(path, top)
  BY <1>2, ContentsAreBlocks DEF Laters
<1>4. SubSeq(top, 0 + 1, Len(top)) = top
  BY <1>1
<1>5. FlattenSeq(SaidUpTo(top, later, 0)) = <<>>
  <2>1. SaidUpTo(top, later, 0) = <<>>
    BY DEF SaidUpTo
  <2> QED BY <2>1 DEF FlattenSeq
<1>6. 0 \in 0..Len(top)
  BY <1>1
<1> QED BY <1>1, <1>3, <1>4, <1>5, <1>6 DEF ReadSoFar

\* Places in the rest are places in the whole.
IsRest(rest, top, k) ==
  /\ rest \in Seq(Blocks)
  /\ Len(rest) = Len(top) - k
  /\ Nesting(rest) = {i \in 1..(Len(top) - k) : k + i \in Nesting(top)}
  /\ \A i \in 1..(Len(top) - k) :
       /\ rest[i] = top[k + i]
       /\ SubSeq(rest, i + 1, Len(rest)) = SubSeq(top, k + i + 1, Len(top))
       /\ SubSeq(rest, 1, i) = Append(SubSeq(top, k + 1, k + i - 1), top[k + i])

\* What is left behind a block is a rest.
LEMMA RestOf ==
  ASSUME NEW top \in Seq(Blocks), NEW k \in 0..Len(top), NEW rest,
         rest = SubSeq(top, k + 1, Len(top))
  PROVE  IsRest(rest, top, k)
<1>1. Len(top) \in Nat /\ k \in Nat /\ k <= Len(top)
  OBVIOUS
<1>2. /\ rest \in Seq(Blocks) /\ Len(rest) = Len(top) - k /\ DOMAIN rest = 1..(Len(top) - k)
      /\ \A i \in 1..(Len(top) - k) : rest[i] = top[k + i]
  BY <1>1
<1>3. Nesting(rest) = {i \in 1..(Len(top) - k) : k + i \in Nesting(top)}
  <2>1. \A i \in 1..(Len(top) - k) : k + i \in 1..Len(top)
    BY <1>1
  <2>2. DOMAIN top = 1..Len(top)
    OBVIOUS
  <2> QED BY <1>2, <2>1, <2>2 DEF Nesting
<1>4. ASSUME NEW i \in 1..(Len(top) - k)
      PROVE  /\ SubSeq(rest, i + 1, Len(rest)) = SubSeq(top, k + i + 1, Len(top))
             /\ SubSeq(rest, 1, i) = Append(SubSeq(top, k + 1, k + i - 1), top[k + i])
  <2>1. SubSeq(rest, i + 1, Len(rest)) = SubSeq(top, k + i + 1, Len(top))
    BY <1>1, <1>2
  <2>2. SubSeq(rest, 1, i) = Append(SubSeq(top, k + 1, k + i - 1), top[k + i])
    BY <1>1, <1>2
  <2> QED BY <2>1, <2>2
<1> QED BY <1>2, <1>3, <1>4 DEF IsRest

\* The blocks inside the next nesting block are read, as they are then.
LEMMA ReadOn ==
  ASSUME NEW path, NEW read, NEW rest, ReadSoFar(path, read, rest), Nesting(rest) # {},
         NEW content \in Contents(path), NEW i, i = Min(Nesting(rest)),
         Same(content, rest[i]) # {}
  PROVE  /\ rest \in Seq(Blocks)
         /\ ReadSoFar(path,
              read \o Lines(SubSeq(rest, 1, i)) \o Lines(content[Min(Same(content, rest[i]))].inner),
              SubSeq(rest, i + 1, Len(rest)))
<1>0. PICK top \in {<<>>} \cup Contents(path) :
        \E later \in Laters(path, top), k \in 0..Len(top) :
          /\ rest = SubSeq(top, k + 1, Len(top))
          /\ read = FlattenSeq(SaidUpTo(top, later, k))
  BY DEF ReadSoFar
<1>1. PICK later \in Laters(path, top), k \in 0..Len(top) :
        /\ rest = SubSeq(top, k + 1, Len(top))
        /\ read = FlattenSeq(SaidUpTo(top, later, k))
  BY <1>0
<1>2. top \in Seq(Blocks) /\ content \in Seq(Blocks)
  BY ReadStart, ContentsAreBlocks
<1>3. Len(top) \in Nat /\ k \in Nat /\ k <= Len(top)
  BY <1>2
<1>4. /\ rest \in Seq(Blocks) /\ Len(rest) = Len(top) - k
      /\ Nesting(rest) = {j \in 1..(Len(top) - k) : k + j \in Nesting(top)}
      /\ \A j \in 1..(Len(top) - k) :
           /\ rest[j] = top[k + j]
           /\ SubSeq(rest, j + 1, Len(rest)) = SubSeq(top, k + j + 1, Len(top))
           /\ SubSeq(rest, 1, j) = Append(SubSeq(top, k + 1, k + j - 1), top[k + j])
  <2>1. IsRest(rest, top, k)
    BY <1>1, <1>2, RestOf
  <2> QED BY <2>1 DEF IsRest
<1>5. i \in Nesting(rest) /\ \A j \in Nesting(rest) : i <= j
  <2>1. Nesting(rest) \subseteq Nat
    BY <1>4
  <2> QED BY <2>1, MinOf
<1>6. i \in 1..(Len(top) - k) /\ i \in Nat /\ k + i \in Nesting(top)
  BY <1>4, <1>5
<1>7. k + i \in 1..Len(top) /\ k + i - 1 \in k..Len(top) /\ k + i - 1 \in 0..Len(top)
      /\ k + i \in 0..Len(top) /\ (k + i - 1) + 1 = k + i
  BY <1>3, <1>6
<1>8. PICK after : after = [later EXCEPT ![k + i] = content]
  OBVIOUS
<1>9. after \in Laters(path, top) /\ after[k + i] = content
      /\ \A j \in 1..(k + i - 1) : Said(top, after, j) = Said(top, later, j)
  <2>1. after \in Laters(path, top) /\ after[k + i] = content
    BY <1>6, <1>8 DEF Laters
  <2>2. ASSUME NEW j \in 1..(k + i - 1) PROVE Said(top, after, j) = Said(top, later, j)
    <3>1. j # k + i
      BY <1>3, <1>6
    <3>2. j \in Nesting(top) => after[j] = later[j]
      BY <1>8, <3>1 DEF Laters
    <3> QED BY <3>2 DEF Said
  <2> QED BY <2>1, <2>2
<1>10. \A j \in (k + 1)..(k + i - 1) : j \notin Nesting(top)
  <2> SUFFICES ASSUME NEW j \in (k + 1)..(k + i - 1), j \in Nesting(top) PROVE FALSE
    OBVIOUS
  <2>1. j - k \in 1..(Len(top) - k) /\ k + (j - k) = j /\ j - k < i
    BY <1>3, <1>6
  <2>2. j - k \in Nesting(rest)
    BY <1>4, <2>1
  <2>3. i <= j - k
    BY <1>5, <2>2
  <2> QED BY <1>3, <1>6, <2>1, <2>3
<1>11. PICK plain, own, inner :
         /\ plain = SubSeq(top, k + 1, k + i - 1) /\ own = BlockLine(top[k + i])
         /\ inner = Lines(content[Min(Same(content, rest[i]))].inner)
  OBVIOUS
<1>12. FlattenSeq(SaidUpTo(top, after, k + i - 1)) = read \o Lines(plain)
  <2>1. SaidUpTo(top, after, k) = SaidUpTo(top, later, k)
    <3>1. \A j \in 1..k : j \in 1..(k + i - 1)
      BY <1>3, <1>6
    <3> QED BY <1>9, <3>1 DEF SaidUpTo
  <2>2. PICK m \in k..Len(top) : m = k + i - 1
    BY <1>7
  <2>3. FlattenSeq(SaidUpTo(top, after, m)) =
          FlattenSeq(SaidUpTo(top, after, k)) \o Lines(SubSeq(top, k + 1, m))
    BY <1>2, <1>9, <1>10, <2>2, SaidPlain
  <2> QED BY <1>1, <1>11, <2>1, <2>2, <2>3
<1>13. Said(top, after, k + i) = own \o inner
  <2>1. InnerOf(top[k + i], content) = inner
    BY <1>4, <1>6, <1>11 DEF InnerOf
  <2> QED BY <1>6, <1>9, <1>11, <2>1 DEF Said
<1>14. /\ plain \in Seq(AnyBlock) /\ Lines(plain) \in Seq(TextLine)
       /\ own \in Seq(TextLine) /\ inner \in Seq(TextLine) /\ read \in Seq(TextLine)
       /\ Lines(Append(plain, top[k + i])) = Lines(plain) \o own
  <2>1. \A j \in 1..Len(top) : top[j] \in AnyBlock
    BY <1>2 DEF AnyBlock
  <2>2. plain \in Seq(AnyBlock)
    <3>1. \A j \in (k + 1)..(k + i - 1) : top[j] \in AnyBlock
      BY <1>3, <1>6, <2>1
    <3>2. k + 1 \in Int /\ k + i - 1 \in Int
      BY <1>3, <1>6
    <3>3. SubSeq(top, k + 1, k + i - 1) \in Seq(AnyBlock)
      BY <3>1, <3>2, SubSeqProperties
    <3> QED BY <1>11, <3>3
  <2>3. PICK c : c = Append(plain, top[k + i])
    OBVIOUS
  <2>4. /\ c \in Seq(AnyBlock) /\ Len(c) = Len(plain) + 1 /\ c[Len(plain) + 1] = top[k + i]
        /\ \A j \in 1..Len(plain) : c[j] = plain[j]
    BY <1>7, <2>1, <2>2, <2>3, AppendProperties
  <2>5. PICK a, b : /\ a = [j \in DOMAIN plain |-> BlockLine(plain[j])]
                    /\ b = [j \in DOMAIN c |-> BlockLine(c[j])]
    OBVIOUS
  <2>6. a \in Seq(Seq(TextLine)) /\ b \in Seq(Seq(TextLine)) /\ Lines(plain) \in Seq(TextLine)
    BY <2>2, <2>4, <2>5, BlocksOfLines
  <2>7. /\ Len(a) = Len(plain) /\ Len(b) = Len(plain) + 1 /\ Len(plain) \in Nat
        /\ \A j \in 1..Len(plain) : a[j] = BlockLine(plain[j])
        /\ \A j \in 1..(Len(plain) + 1) : b[j] = BlockLine(c[j])
    BY <2>2, <2>4, <2>5
  <2>8. own \in Seq(TextLine)
    <3>1. Len(plain) + 1 \in 1..(Len(plain) + 1)
      BY <2>7
    <3>2. b[Len(plain) + 1] = BlockLine(c[Len(plain) + 1])
      BY <2>7, <3>1
    <3>3. b[Len(plain) + 1] = own
      BY <1>11, <2>4, <3>2
    <3>4. b[Len(plain) + 1] \in Seq(TextLine)
      BY <2>6, <2>7, <3>1
    <3> QED BY <3>3, <3>4
  <2>9. b = Append(a, own)
    <3>1. PICK d : d = Append(a, own)
      OBVIOUS
    <3>2. /\ d \in Seq(Seq(TextLine)) /\ Len(d) = Len(plain) + 1 /\ d[Len(plain) + 1] = own
          /\ \A j \in 1..Len(plain) : d[j] = a[j]
      BY <2>6, <2>7, <2>8, <3>1, AppendProperties
    <3>3. \A j \in 1..(Len(plain) + 1) : b[j] = d[j]
      <4> SUFFICES ASSUME NEW j \in 1..(Len(plain) + 1) PROVE b[j] = d[j]
        OBVIOUS
      <4>1. CASE j = Len(plain) + 1
        BY <1>11, <2>4, <2>7, <3>2, <4>1
      <4>2. CASE j # Len(plain) + 1
        <5>1. j \in 1..Len(plain)
          BY <2>7, <4>2
        <5> QED BY <2>4, <2>7, <3>2, <5>1
      <4> QED BY <4>1, <4>2
    <3>4. b = d
      BY <2>6, <2>7, <3>2, <3>3, SeqEqual
    <3> QED BY <3>1, <3>4
  <2>10. Lines(c) = Lines(plain) \o own
    BY <2>5, <2>6, <2>8, <2>9, FlattenSnoc DEF Lines
  <2>11. inner \in Seq(TextLine)
    <3>1. Same(content, rest[i]) \subseteq DOMAIN content /\ DOMAIN content \subseteq Nat
      BY <1>2 DEF Same
    <3>2. Min(Same(content, rest[i])) \in DOMAIN content
      BY <3>1, MinOf
    <3> QED BY <1>2, <1>11, <3>2, InnerBlocks, BlocksOfLines
  <2>12. read \in Seq(TextLine)
    BY <1>1, <1>2, SaidIsText
  <2> QED BY <2>2, <2>3, <2>6, <2>8, <2>10, <2>11, <2>12
<1>15. SaidUpTo(top, after, k + i) = Append(SaidUpTo(top, after, k + i - 1), own \o inner)
  <2>1. PICK a, b : a = SaidUpTo(top, after, k + i - 1) /\ b = SaidUpTo(top, after, k + i)
    OBVIOUS
  <2>2. /\ a \in Seq(Seq(TextLine)) /\ Len(a) = k + i - 1
        /\ \A j \in 1..(k + i - 1) : a[j] = Said(top, after, j)
    <3>1. a \in Seq(Seq(TextLine))
      BY <1>2, <1>7, <1>9, <2>1, SaidIsText
    <3> QED BY <1>7, <2>1, <3>1 DEF SaidUpTo
  <2>3. /\ b \in Seq(Seq(TextLine)) /\ Len(b) = k + i
        /\ \A j \in 1..(k + i) : b[j] = Said(top, after, j)
    <3>1. b \in Seq(Seq(TextLine))
      BY <1>2, <1>7, <1>9, <2>1, SaidIsText
    <3> QED BY <1>7, <2>1, <3>1 DEF SaidUpTo
  <2>4. PICK d : d = Append(a, own \o inner)
    OBVIOUS
  <2>5. own \o inner \in Seq(TextLine)
    BY <1>14, ConcatProperties
  <2>6. /\ d \in Seq(Seq(TextLine)) /\ Len(d) = k + i /\ d[k + i] = own \o inner
        /\ \A j \in 1..(k + i - 1) : d[j] = a[j]
    <3>1. /\ d \in Seq(Seq(TextLine)) /\ Len(d) = Len(a) + 1 /\ d[Len(a) + 1] = own \o inner
          /\ \A j \in 1..Len(a) : d[j] = a[j]
      BY <2>2, <2>4, <2>5, AppendProperties
    <3> QED BY <1>7, <2>2, <3>1
  <2>7. \A j \in 1..(k + i) : b[j] = d[j]
    <3> SUFFICES ASSUME NEW j \in 1..(k + i) PROVE b[j] = d[j]
      OBVIOUS
    <3>1. CASE j = k + i
      BY <1>13, <2>3, <2>6, <3>1
    <3>2. CASE j # k + i
      <4>1. j \in 1..(k + i - 1)
        BY <1>3, <1>6, <3>2
      <4> QED BY <2>2, <2>3, <2>6, <4>1
    <3> QED BY <3>1, <3>2
  <2>8. b = d
    BY <2>3, <2>6, <2>7, SeqEqual
  <2> QED BY <2>1, <2>4, <2>8
<1>16. FlattenSeq(SaidUpTo(top, after, k + i)) = read \o Lines(SubSeq(rest, 1, i)) \o inner
  <2>1. FlattenSeq(SaidUpTo(top, after, k + i)) =
          FlattenSeq(SaidUpTo(top, after, k + i - 1)) \o (own \o inner)
    <3>1. own \o inner \in Seq(TextLine)
      BY <1>14, ConcatProperties
    <3>2. SaidUpTo(top, after, k + i - 1) \in Seq(Seq(TextLine))
      BY <1>2, <1>7, <1>9, SaidIsText
    <3> QED BY <1>15, <3>1, <3>2, FlattenSnoc
  <2>2. Lines(SubSeq(rest, 1, i)) = Lines(plain) \o own
    BY <1>4, <1>6, <1>11, <1>14
  <2>3. (read \o Lines(plain)) \o (own \o inner) = (read \o (Lines(plain) \o own)) \o inner
    <3> DEFINE Same4(x, y, z, w) == (x \o y) \o (z \o w) = (x \o (y \o z)) \o w
    <3>1. ASSUME NEW x \in Seq(TextLine), NEW y \in Seq(TextLine),
                 NEW z \in Seq(TextLine), NEW w \in Seq(TextLine)
          PROVE  Same4(x, y, z, w)
      OBVIOUS
    <3> HIDE DEF Same4
    <3>2. Same4(read, Lines(plain), own, inner)
      BY <1>14, <3>1
    <3> QED BY <3>2 DEF Same4
  <2> QED BY <1>12, <2>1, <2>2, <2>3
<1>17. SubSeq(rest, i + 1, Len(rest)) = SubSeq(top, k + i + 1, Len(top))
  BY <1>4, <1>6
<1> QED BY <1>1, <1>4, <1>7, <1>9, <1>11, <1>16, <1>17 DEF ReadSoFar

\* When nothing is left to fetch, the text is a reading of the page.
LEMMA ReadAll ==
  ASSUME NEW path, NEW read, NEW rest, ReadSoFar(path, read, rest), Nesting(rest) = {},
         read \o Lines(rest) # <<>>
  PROVE  read \o Lines(rest) \in Readings(path) /\ read \o Lines(rest) \in Seq(TextLine)
<1>0. PICK top \in {<<>>} \cup Contents(path) :
        \E later \in Laters(path, top), k \in 0..Len(top) :
          /\ rest = SubSeq(top, k + 1, Len(top))
          /\ read = FlattenSeq(SaidUpTo(top, later, k))
  BY DEF ReadSoFar
<1>1. PICK later \in Laters(path, top), k \in 0..Len(top) :
        /\ rest = SubSeq(top, k + 1, Len(top))
        /\ read = FlattenSeq(SaidUpTo(top, later, k))
  BY <1>0
<1>2. top \in Seq(Blocks)
  BY ReadStart
<1>3. Len(top) \in Nat /\ k \in Nat /\ k <= Len(top)
  BY <1>2
<1>4. Nesting(rest) = {j \in 1..(Len(top) - k) : k + j \in Nesting(top)}
  BY <1>1, <1>2, RestOf DEF IsRest
<1>5. \A j \in (k + 1)..Len(top) : j \notin Nesting(top)
  <2> SUFFICES ASSUME NEW j \in (k + 1)..Len(top), j \in Nesting(top) PROVE FALSE
    OBVIOUS
  <2>1. j - k \in 1..(Len(top) - k) /\ k + (j - k) = j
    BY <1>3
  <2> QED BY <1>4, <2>1
<1>6. Len(top) \in k..Len(top) /\ Len(top) \in 0..Len(top)
  BY <1>3
<1>7. FlattenSeq(SaidUpTo(top, later, Len(top))) = read \o Lines(rest)
  BY <1>1, <1>2, <1>5, <1>6, SaidPlain
<1>8. FlattenSeq(SaidUpTo(top, later, Len(top))) \in Seq(TextLine)
  BY <1>2, <1>6, SaidIsText
<1>9. top \in Contents(path)
  <2>1. ASSUME top = <<>> PROVE FALSE
    <3>1. SaidUpTo(top, later, Len(top)) = <<>>
      BY <2>1 DEF SaidUpTo
    <3>2. FlattenSeq(<<>>) = <<>>
      BY DEF FlattenSeq
    <3> QED BY <1>7, <3>1, <3>2
  <2> QED BY <2>1
<1>10. SaidUpTo(top, later, Len(top)) = [i \in DOMAIN top |-> Said(top, later, i)]
  BY <1>2 DEF SaidUpTo
<1>11. FlattenSeq([i \in DOMAIN top |-> Said(top, later, i)]) \in Readings(path)
  <2>1. later \in [Nesting(top) -> Contents(path)]
    BY DEF Laters
  <2> DEFINE Of(t) == {FlattenSeq([i \in DOMAIN t |-> Said(t, l, i)]) :
                         l \in [Nesting(t) -> Contents(path)]}
  <2>2. FlattenSeq([i \in DOMAIN top |-> Said(top, later, i)]) \in Of(top)
    BY <2>1
  <2>3. Readings(path) = UNION {Of(t) : t \in Contents(path)}
    BY DEF Readings
  <2> HIDE DEF Of
  <2> QED BY <1>9, <2>2, <2>3
<1> QED BY <1>7, <1>8, <1>10, <1>11

\* A reading that has begun is not the mark that none has.
LEMMA ReadIsBegun ==
  ASSUME NEW path, NEW read, NEW rest, ReadSoFar(path, read, rest)
  PROVE  rest # None
<1>0. PICK top \in {<<>>} \cup Contents(path) :
        \E k \in 0..Len(top) : rest = SubSeq(top, k + 1, Len(top))
  BY DEF ReadSoFar
<1>1. PICK k \in 0..Len(top) : rest = SubSeq(top, k + 1, Len(top))
  BY <1>0
<1>2. top \in Seq(Blocks)
  BY ReadStart
<1>3. rest \in Seq(Blocks)
  BY <1>1, <1>2, RestOf DEF IsRest
<1> QED BY <1>3, ReservedAssumption DEF ReservedAssumption

------------------------------------------------------------------------------
\* The place of a page: the titles from the root down to it.  What a page says is
\* what belongs to its place.
Placed(tree, at) ==
  /\ at \in [DOMAIN tree -> PagePath]
  /\ \A p \in DOMAIN tree :
       /\ tree[p].parent \in DOMAIN tree \cup {Workspace}
       /\ at[p] = IF tree[p].parent = Workspace THEN Root
                  ELSE Append(at[tree[p].parent], tree[p].title)
       /\ tree[p].content \in {<<>>} \cup Contents(at[p])
Rooted(tree, map) ==
  /\ DOMAIN map \subseteq PagePath
  /\ Root \in DOMAIN map => tree[map[Root]].parent = Workspace
Traced(tree, map) == Grounded(tree, map) /\ Rooted(tree, map)
AllFake(map) == \A path \in DOMAIN map : map[path] = Fake

PlaceInv ==
  /\ \E at : Placed(pages, at)
  /\ Busy("create") \/ Busy("discover") => Rooted(pages, job.map)
  /\ Busy("snapshot") => AllFake(job.map) \/ Traced(pages, job.map)
  /\ idMap \notin {None, Torn} => AllFake(idMap.map) \/ Traced(pages, idMap.map)

\* A path is its last title under the path before it.
LEMMA FrontThenLast ==
  ASSUME NEW T, NEW s \in Seq(T) \ {<<>>}
  PROVE  Append(Front(s), Last(s)) = s
<1>1. /\ Len(s) \in Nat /\ Len(s) >= 1 /\ Len(Front(s)) = Len(s) - 1 /\ Front(s) \in Seq(T)
      /\ Last(s) \in T
      /\ \A i \in 1..(Len(s) - 1) : Front(s)[i] = s[i]
  BY FrontAndLast
<1>2. PICK a : a = Append(Front(s), Last(s))
  OBVIOUS
<1>3. /\ a \in Seq(T) /\ Len(a) = Len(Front(s)) + 1 /\ a[Len(Front(s)) + 1] = Last(s)
      /\ \A i \in 1..Len(Front(s)) : a[i] = Front(s)[i]
  BY <1>1, <1>2, AppendProperties
<1>4. \A i \in 1..Len(s) : a[i] = s[i]
  <2> SUFFICES ASSUME NEW i \in 1..Len(s) PROVE a[i] = s[i]
    OBVIOUS
  <2>1. CASE i = Len(s)
    BY <1>1, <1>3, <2>1 DEF Last
  <2>2. CASE i # Len(s)
    <3>1. i \in 1..(Len(s) - 1)
      BY <1>1, <2>2
    <3> QED BY <1>1, <1>3, <3>1
  <2> QED BY <2>1, <2>2
<1>5. Len(a) = Len(s)
  BY <1>1, <1>3
<1>6. a = s
  BY <1>3, <1>4, <1>5, SeqEqual
<1> QED BY <1>2, <1>6

\* A path of a map leads to the page that has its place.
LEMMA PlaceOfPath ==
  ASSUME NEW tree, NEW at, Placed(tree, at), Workspace \notin DOMAIN tree,
         NEW map, Traced(tree, map), NEW goal \in DOMAIN map
  PROVE  at[map[goal]] = goal
<1> DEFINE Wrong == {path \in DOMAIN map : at[map[path]] # path}
           Lengths == {Len(path) : path \in Wrong}
<1>1. /\ DOMAIN map \subseteq PagePath
      /\ \A path \in DOMAIN map :
           /\ map[path] \in DOMAIN tree
           /\ path # Root =>
                /\ Front(path) \in DOMAIN map
                /\ tree[map[path]].title = Last(path)
                /\ tree[map[path]].parent = map[Front(path)]
           /\ path = Root => tree[map[path]].parent = Workspace
  BY DEF Traced, Rooted, Grounded
<1> SUFFICES ASSUME Wrong # {} PROVE FALSE
  OBVIOUS
<1>2. PICK path \in Wrong : \A other \in Wrong : Len(path) <= Len(other)
  <2>1. Lengths \in SUBSET Nat /\ Lengths # {}
    <3>1. \A path \in Wrong : path \in Seq(PageTitle)
      BY <1>1 DEF PagePath
    <3>2. \A path \in Wrong : Len(path) \in Nat
      <4> HIDE DEF Wrong
      <4> QED BY <3>1
    <3> HIDE DEF Wrong
    <3> QED BY <3>2
  <2>2. PICK n \in Lengths : \A m \in Lengths : n <= m
    <3> HIDE DEF Lengths
    <3> QED BY <2>1, LeastNumber
  <2> QED BY <2>2
<1>3. CASE path = Root
  BY <1>1, <1>2, <1>3 DEF Placed
<1>4. CASE path # Root
  <2>1. path \in Seq(PageTitle) \ {<<>>}
    BY <1>1, <1>2 DEF PagePath
  <2>2. Len(Front(path)) = Len(path) - 1 /\ Len(path) \in Nat
        /\ Append(Front(path), Last(path)) = path
    BY <2>1, FrontAndLast, FrontThenLast
  <2>3. Front(path) \notin Wrong
    BY <1>2, <2>2
  <2>4. at[map[Front(path)]] = Front(path)
    BY <1>1, <1>2, <1>4, <2>3
  <2>5. /\ map[path] \in DOMAIN tree
        /\ tree[map[path]].parent = map[Front(path)] /\ tree[map[path]].title = Last(path)
        /\ map[Front(path)] # Workspace
    BY <1>1, <1>2, <1>4
  <2>6. at[map[path]] = Append(at[map[Front(path)]], Last(path))
    BY <2>5 DEF Placed
  <2> QED BY <1>2, <2>2, <2>4, <2>6
<1> QED BY <1>3, <1>4

\* A page that is made gets the place under its parent.
LEMMA MadeIsPlaced ==
  ASSUME pages \in Seq(PageRecord), NEW at, Placed(pages, at),
         NEW parent \in DOMAIN pages \cup {Workspace}, NEW title \in PageTitle,
         NEW path, path = IF parent = Workspace THEN Root ELSE Append(at[parent], title),
         NEW content \in {<<>>} \cup Contents(path), NEW script,
         PageMade(parent, title, content, script)
  PROVE  \E a : Placed(pages', a)
<1>1. PICK r : r = [parent |-> parent, title |-> title, content |-> content,
                    script |-> script]
  OBVIOUS
<1>2. r.parent = parent /\ r.title = title /\ r.content = content
  BY <1>1
<1>3. pages' = Append(pages, r)
  BY <1>1 DEF PageMade
<1>4. PICK n \in Nat : n = Len(pages)
  OBVIOUS
<1>5. /\ DOMAIN pages = 1..n /\ DOMAIN pages' = 1..(n + 1)
      /\ pages'[n + 1] = r
      /\ \A p \in 1..n : pages'[p] = pages[p]
  BY <1>3, <1>4
<1>6. path \in PagePath
  <2>1. CASE parent = Workspace
    BY <2>1, OrderedPaths
  <2>2. CASE parent # Workspace
    <3>1. at[parent] \in Seq(PageTitle)
      BY <2>2 DEF Placed, PagePath
    <3> QED BY <2>2, <3>1, AppendedPath DEF PagePath
  <2> QED BY <2>1, <2>2
<1>7. PICK a : a = [p \in 1..(n + 1) |-> IF p = n + 1 THEN path ELSE at[p]]
  OBVIOUS
<1>8. a \in [1..(n + 1) -> PagePath] /\ a[n + 1] = path /\ \A p \in 1..n : a[p] = at[p]
  <2>1. at \in [1..n -> PagePath]
    BY <1>5 DEF Placed
  <2>2. \A p \in 1..(n + 1) : p # n + 1 => p \in 1..n
    OBVIOUS
  <2>3. \A p \in 1..n : p # n + 1 /\ p \in 1..(n + 1)
    OBVIOUS
  <2>4. n + 1 \in 1..(n + 1)
    OBVIOUS
  <2> QED BY <1>6, <1>7, <2>1, <2>2, <2>3, <2>4
<1>9. \A p \in 1..n : p \in 1..(n + 1) /\ p # n + 1
  OBVIOUS
<1>10. ASSUME NEW p \in 1..(n + 1)
       PROVE  /\ pages'[p].parent \in 1..(n + 1) \cup {Workspace}
              /\ a[p] = IF pages'[p].parent = Workspace THEN Root
                        ELSE Append(a[pages'[p].parent], pages'[p].title)
              /\ pages'[p].content \in {<<>>} \cup Contents(a[p])
  <2>1. CASE p = n + 1
    <3>1. pages'[p].parent = parent /\ pages'[p].title = title /\ pages'[p].content = content
      BY <1>2, <1>5, <2>1
    <3>2. a[p] = path /\ (parent # Workspace => a[parent] = at[parent])
      BY <1>5, <1>8, <2>1
    <3> QED BY <1>5, <1>9, <3>1, <3>2
  <2>2. CASE p # n + 1
    <3>1. p \in 1..n
      BY <2>2
    <3>2. /\ pages[p].parent \in 1..n \cup {Workspace}
          /\ at[p] = IF pages[p].parent = Workspace THEN Root
                     ELSE Append(at[pages[p].parent], pages[p].title)
          /\ pages[p].content \in {<<>>} \cup Contents(at[p])
      BY <1>5, <3>1 DEF Placed
    <3>3. pages'[p] = pages[p] /\ a[p] = at[p]
      BY <1>5, <1>8, <3>1
    <3>4. pages[p].parent # Workspace => a[pages[p].parent] = at[pages[p].parent]
      BY <1>8, <3>2
    <3> QED BY <1>9, <3>2, <3>3, <3>4
  <2> QED BY <2>1, <2>2
<1>11. Placed(pages', a)
  BY <1>5, <1>8, <1>10 DEF Placed
<1> QED BY <1>11

\* Maps stay traced while pages are only added.
LEMMA TracedStays ==
  ASSUME Kept, NEW map, Traced(pages, map)
  PROVE  Traced(pages', map)
<1>1. Grounded(pages', map)
  BY GroundedStays DEF Traced
<1>2. Root \in DOMAIN map => map[Root] \in DOMAIN pages
  BY DEF Traced, Grounded
<1>3. Rooted(pages', map)
  BY <1>2 DEF Traced, Rooted, Kept
<1> QED BY <1>1, <1>3 DEF Traced

\* So does a map that is still being made.
LEMMA RootedStays ==
  ASSUME Kept, NEW map, Rooted(pages, map), Grounded(pages, map)
  PROVE  Rooted(pages', map)
BY TracedStays DEF Traced

\* What the pages and the saved map are, when the map is not written.
LEMMA SavedPlaces ==
  ASSUME PlaceInv, Kept, idMap' = idMap
  PROVE  idMap' \notin {None, Torn} => AllFake(idMap'.map) \/ Traced(pages', idMap'.map)
BY TracedStays DEF PlaceInv

\* What a script holds stays true while it rests.
LEMMA JobPlaces ==
  ASSUME PlaceInv, JobInv, Kept, job' = job
  PROVE  /\ Busy("create")' \/ Busy("discover")' => Rooted(pages', job'.map)
         /\ Busy("snapshot")' => AllFake(job'.map) \/ Traced(pages', job'.map)
<1>1. ASSUME Busy("create") \/ Busy("discover") PROVE Rooted(pages', job.map)
  <2>1. Grounded(pages, job.map)
    BY <1>1, WhichScript DEF CreateInv, DiscoverInv
  <2> QED BY <1>1, <2>1, RootedStays DEF PlaceInv
<1>2. ASSUME Busy("snapshot") PROVE AllFake(job.map) \/ Traced(pages', job.map)
  BY <1>2, TracedStays DEF PlaceInv
<1> QED BY <1>1, <1>2 DEF Busy

\* It holds at first.
LEMMA PlaceInit == Init => PlaceInv
<1> SUFFICES ASSUME Init PROVE PlaceInv
  OBVIOUS
<1>1. ~Busy("create") /\ ~Busy("discover") /\ ~Busy("snapshot")
  BY DEF Init, TreeInit, Idle, Busy
<1>2. CASE pages = <<>> /\ idMap = None
  <2>1. Placed(pages, <<>>)
    BY <1>2 DEF Placed
  <2> QED BY <1>1, <1>2, <2>1 DEF PlaceInv
<1>3. CASE pages = WholeTree /\ idMap = [by |-> "create", map |-> WholeMap]
  <2>1. DOMAIN pages = DOMAIN Order
    BY <1>3 DEF WholeTree
  <2>2. ASSUME NEW i \in DOMAIN Order
        PROVE  /\ pages[i].parent = Position(Front(Order[i]))
               /\ pages[i].title = Last(Order[i]) /\ pages[i].content = PageContent(Order[i])
    BY <1>3 DEF WholeTree
  <2>3. ASSUME NEW i \in DOMAIN Order
        PROVE  /\ pages[i].parent \in DOMAIN Order \cup {Workspace}
               /\ Order[i] = IF pages[i].parent = Workspace THEN Root
                             ELSE Append(Order[pages[i].parent], pages[i].title)
    <3>1. CASE i = 1
      <4>1. pages[i].parent = Workspace
        BY <2>2, <3>1, OrderedPaths, PositionOf
      <4> QED BY <3>1, <4>1, OrderedPaths
    <3>2. CASE i # 1
      <4>1. i \in 2..Len(Order)
        BY <3>2, OrderedPaths
      <4>2. PICK j \in 1..(i - 1) : Order[j] = Front(Order[i])
        BY <4>1, OrderedPaths
      <4>3. j \in DOMAIN Order /\ j # Workspace
        BY <4>1, OrderedPaths DEF Workspace
      <4>4. pages[i].parent = j
        BY <2>2, <4>2, <4>3, PositionOf
      <4>5. Append(Front(Order[i]), Last(Order[i])) = Order[i]
        BY OrderedPaths, FrontThenLast DEF PagePath
      <4> QED BY <2>2, <4>2, <4>3, <4>4, <4>5
    <3> QED BY <3>1, <3>2
  <2>4. Placed(pages, Order)
    <3>1. Order \in [DOMAIN Order -> PagePath]
      BY OrderedPaths, OrderAssumption DEF OrderAssumption
    <3>2. \A i \in DOMAIN Order : pages[i].content \in Contents(Order[i])
      BY <2>2, ContentsAreBlocks
    <3> QED BY <2>1, <2>3, <3>1, <3>2 DEF Placed
  <2>5. Traced(pages, WholeMap)
    <3>1. DOMAIN WholeMap \subseteq PagePath
      BY OrderedPaths DEF WholeMap, Range
    <3>2. WholeMap[Root] = 1 /\ 1 \in DOMAIN Order
      <4>1. 1 \in DOMAIN Order /\ Order[1] = Root
        BY OrderedPaths
      <4>2. Root \in Range(Order)
        BY <4>1 DEF Range
      <4> QED BY <4>1, <4>2, PositionOf DEF WholeMap
    <3>3. pages[1].parent = Workspace
      BY <2>2, <3>2, OrderedPaths, PositionOf
    <3> QED BY <1>3, <3>1, <3>2, <3>3, WholeTreeIsOne DEF Traced, Rooted
  <2> QED BY <1>1, <1>3, <2>4, <2>5 DEF PlaceInv
<1> QED BY <1>2, <1>3 DEF Init, TreeInit

\* A new path leads to its place.
LEMMA RecordedPlaces ==
  ASSUME CreateInv, CreateInv', Creating, Kept, Rooted(pages, job.map),
         NEW page \in DOMAIN pages', pages'[page].parent = ParentPage,
         job' = Recorded(page)
  PROVE  Rooted(pages', job'.map)
<1>1. DOMAIN job'.map \subseteq PagePath
  BY OrderedPaths DEF CreateInv
<1>2. PICK n, a, m : job = [kind |-> "create", next |-> n, absent |-> a, map |-> m]
  BY DEF CreateInv
<1>3. PICK new : new = [path \in {Path} |-> page]
  OBVIOUS
<1>4. job'.map = Extended(m, new) /\ job.map = m /\ job.next = n
  BY <1>2, <1>3 DEF Recorded
<1>5. /\ \A path \in DOMAIN m : path # Path => job'.map[path] = m[path]
      /\ DOMAIN job'.map = DOMAIN m \cup {Path}
      /\ job'.map[Path] = page
  BY <1>3, <1>4 DEF Extended
<1>6. ASSUME Root \in DOMAIN job'.map PROVE pages'[job'.map[Root]].parent = Workspace
  <2>1. CASE Path = Root
    <3>1. n = 1
      BY <1>4, <2>1, OrderedPaths DEF CreateInv, Creating, Path
    <3> QED BY <1>4, <1>5, <2>1, <3>1 DEF ParentPage
  <2>2. CASE Path # Root
    <3>1. Root \in DOMAIN m /\ job'.map[Root] = m[Root]
      BY <1>5, <1>6, <2>2
    <3>2. m[Root] \in DOMAIN pages
      BY <1>4, <3>1 DEF CreateInv, Grounded
    <3> QED BY <1>4, <3>1, <3>2 DEF Rooted, Kept
  <2> QED BY <2>1, <2>2
<1> QED BY <1>1, <1>6 DEF Rooted

\* What a creation makes is put where its path says.
LEMMA MadeAtPath ==
  ASSUME pages \in Seq(PageRecord), NEW at, Placed(pages, at), CreateInv, Creating,
         Rooted(pages, job.map),
         PageMade(ParentPage, Last(Path), PageContent(Path), TRUE)
  PROVE  \E a : Placed(pages', a)
<1>1. /\ job.next \in DOMAIN Order /\ Path = Order[job.next] /\ Path \in PagePath
      /\ DOMAIN job.map = {Order[i] : i \in 1..(job.next - 1)}
      /\ Traced(pages, job.map)
  BY OrderedPaths DEF CreateInv, Creating, Path, Traced
<1>2. DOMAIN pages = 1..Len(pages) /\ Workspace \notin DOMAIN pages
  BY DEF Workspace
<1>3. ParentPage \in DOMAIN pages \cup {Workspace}
      /\ Path = IF ParentPage = Workspace THEN Root ELSE Append(at[ParentPage], Last(Path))
  <2>1. CASE job.next = 1
    BY <1>1, <2>1, OrderedPaths DEF ParentPage
  <2>2. CASE job.next # 1
    <3>1. job.next \in 2..Len(Order)
      BY <1>1, <2>2, OrderedPaths
    <3>2. PICK j \in 1..(job.next - 1) : Order[j] = Front(Path)
      BY <1>1, <3>1, OrderedPaths
    <3>3. Front(Path) \in DOMAIN job.map
      BY <1>1, <3>2
    <3>4. ParentPage = job.map[Front(Path)] /\ ParentPage \in DOMAIN pages
      BY <1>1, <2>2, <3>3 DEF ParentPage, Traced, Grounded
    <3>5. at[ParentPage] = Front(Path)
      BY <1>1, <1>2, <3>3, <3>4, PlaceOfPath
    <3>6. Append(Front(Path), Last(Path)) = Path
      BY <1>1, FrontThenLast DEF PagePath
    <3> QED BY <1>2, <3>4, <3>5, <3>6
  <2> QED BY <2>1, <2>2
<1>4. Last(Path) \in PageTitle
  BY <1>1, FrontAndLast DEF PagePath
<1>5. PageContent(Path) \in Contents(Path)
  BY ContentsAreBlocks
<1> QED BY <1>3, <1>4, <1>5, MadeIsPlaced

\* Discovering adds paths below the root.
LEMMA VisitPlaces ==
  ASSUME DiscoverInv, DiscoverInv', Visit, job' # Idle, Rooted(pages, job.map)
  PROVE  Rooted(pages', job'.map)
<1>1. PICK c, s, m, l, e : job = [kind |-> "discover", checked |-> c, stack |-> s,
                                map |-> m, limited |-> l, errors |-> e]
  BY DEF DiscoverInv
<1>2. DOMAIN job'.map \subseteq PagePath
  BY DEF DiscoverInv
<1>3. job.map = m /\ job.stack = s /\ pages' = pages /\ s # <<>> /\ s \in Seq(PagePath \X Nat)
  BY <1>1 DEF Visit, DiscoverInv
<1>4. PICK found : found = Found(Head(s)[1], Head(s)[2])
  OBVIOUS
<1>5. job'.map = Extended(m, AsMap(found))
  BY <1>1, <1>3, <1>4 DEF Visit
<1>6. Head(s)[1] \in PagePath
  BY <1>3
<1>7. \A f \in found : f[1] # Root
  <2> SUFFICES ASSUME NEW p \in ChildrenOf(Head(s)[2])
               PROVE  Append(Head(s)[1], pages[p].title) # Root
    BY <1>4 DEF Found
  <2>1. PICK path \in Seq(PageTitle) : path = Head(s)[1] /\ path # <<>>
    BY <1>6 DEF PagePath
  <2>2. Len(path) \in Nat /\ Len(path) # 0 /\ Len(Append(path, pages[p].title)) = Len(path) + 1
    BY <2>1
  <2>3. Len(Root) = 1
    BY DEF Root
  <2> QED BY <2>1, <2>2, <2>3
<1>8. Root \notin DOMAIN AsMap(found)
  BY <1>7 DEF AsMap
<1>9. Root \in DOMAIN m /\ job'.map[Root] = m[Root]
  BY <1>3, <1>5, <1>8 DEF Extended, DiscoverInv
<1> QED BY <1>2, <1>3, <1>9 DEF Rooted

\* A step that writes no map, and whose job is over or keeps its map.
LEMMA PlacesRest ==
  ASSUME PlaceInv, JobInv, pages' = pages, idMap' = idMap,
         \/ job' = Idle
         \/ job'.kind = job.kind /\ job'.map = job.map
  PROVE  PlaceInv'
<1>1. /\ \E at : Placed(pages', at)
      /\ idMap' \notin {None, Torn} => AllFake(idMap'.map) \/ Traced(pages', idMap'.map)
  BY DEF PlaceInv
<1>2. CASE job' = Idle
  <2>1. job'.kind = "none"
    BY <1>2 DEF Idle
  <2>2. ~Busy("create")' /\ ~Busy("discover")' /\ ~Busy("snapshot")'
    BY <2>1 DEF Busy
  <2> QED BY <1>1, <2>2 DEF PlaceInv
<1>3. CASE job'.kind = job.kind /\ job'.map = job.map
  <2>1. \A k : Busy(k)' <=> Busy(k)
    BY <1>3 DEF Busy
  <2> QED BY <1>1, <1>3, <2>1 DEF PlaceInv
<1> QED BY <1>2, <1>3

\* The scripts that make or discover the tree keep it.
LEMMA TreeStepPlaces ==
  ASSUME KnowledgeInv, KnowledgeInv', PlaceInv, TreeStep
  PROVE  PlaceInv'
<1>1. /\ pages \in Seq(PageRecord) /\ JobInv /\ JobInv'
      /\ DOMAIN pages = 1..Len(pages)
  <2>1. pages \in Seq(PageRecord) /\ JobInv /\ JobInv'
    BY DEF KnowledgeInv
  <2> QED BY <2>1
<1>2. PICK at : Placed(pages, at)
  BY DEF PlaceInv
<1>3. ASSUME Creating, Kept, idMap' = idMap, \E a : Placed(pages', a),
             NEW page \in DOMAIN pages', pages'[page].parent = ParentPage,
             job' = Recorded(page)
      PROVE  PlaceInv'
  <2>1. CreateInv /\ Rooted(pages, job.map)
    BY <1>1, <1>3, WhichScript DEF Creating, PlaceInv
  <2>2. PICK n, a, m : job = [kind |-> "create", next |-> n, absent |-> a, map |-> m]
    BY <2>1 DEF CreateInv
  <2>3. job'.kind = "create"
    BY <1>3, <2>2 DEF Recorded
  <2>4. /\ Busy("create")' /\ ~Busy("discover")' /\ ~Busy("snapshot")'
    BY <2>3 DEF Busy
  <2>5. CreateInv'
    BY <1>1, <2>3 DEF JobInv, CreateInv, DiscoverInv, SnapshotInv, Busy, Idle
  <2>6. Rooted(pages', job'.map)
    BY <1>3, <2>1, <2>5, RecordedPlaces
  <2>7. idMap' \notin {None, Torn} => AllFake(idMap'.map) \/ Traced(pages', idMap'.map)
    BY <1>3, SavedPlaces
  <2> QED BY <1>3, <2>4, <2>6, <2>7 DEF PlaceInv
<1>4. CASE ReusePage
  <2>1. PICK page \in Existing : job' = Recorded(page)
    BY <1>4 DEF ReusePage
  <2>2. /\ Creating /\ pages' = pages /\ idMap' = idMap
        /\ page \in DOMAIN pages' /\ pages'[page].parent = ParentPage
    BY <1>4, <2>1 DEF ReusePage, Existing, Named, ChildrenOf
  <2> QED BY <1>2, <1>3, <2>1, <2>2, NothingChanges
<1>5. CASE FindAbsent
  <2>1. CreateInv
    BY <1>1, <1>5, WhichScript DEF FindAbsent, Creating
  <2>2. PICK n, a, m : job = [kind |-> "create", next |-> n, absent |-> a, map |-> m]
    BY <2>1 DEF CreateInv
  <2>3. job'.kind = job.kind /\ job'.map = job.map
    BY <1>5, <2>2 DEF FindAbsent
  <2>4. pages' = pages /\ idMap' = idMap
    BY <1>5 DEF FindAbsent
  <2> QED BY <1>1, <2>3, <2>4, PlacesRest
<1>6. CASE CreatePage \/ LoseReply
  <2>1. /\ Creating /\ job.absent /\ idMap' = idMap
        /\ PageMade(ParentPage, Last(Path), PageContent(Path), TRUE)
        /\ job' = Recorded(NewPage) \/ job' = Idle
    BY <1>6 DEF CreatePage, LoseReply
  <2>2. CreateInv /\ Rooted(pages, job.map)
    BY <1>1, <2>1, WhichScript DEF Creating, PlaceInv
  <2>3. \E a : Placed(pages', a)
    BY <1>1, <1>2, <2>1, <2>2, MadeAtPath
  <2>4. Kept /\ NewPage \in DOMAIN pages' /\ pages'[NewPage].parent = ParentPage
    BY <1>1, <2>1, <2>2, MadeOnce DEF KnowledgeInv
  <2>5. CASE job' = Recorded(NewPage)
    BY <1>3, <2>1, <2>3, <2>4, <2>5
  <2>6. CASE job' = Idle
    <3>1. job'.kind = "none"
      BY <2>6 DEF Idle
    <3>2. ~Busy("create")' /\ ~Busy("discover")' /\ ~Busy("snapshot")'
      BY <3>1 DEF Busy
    <3> QED BY <2>1, <2>3, <2>4, <3>2, SavedPlaces DEF PlaceInv
  <2> QED BY <2>1, <2>5, <2>6
<1>7. CASE CheckRoot \/ RateLimited \/ ServerError
  <2>1. DiscoverInv
    BY <1>1, <1>7, WhichScript DEF CheckRoot, RateLimited, ServerError, Waiting
  <2>2. PICK c, s, m, l, e : job = [kind |-> "discover", checked |-> c, stack |-> s,
                                    map |-> m, limited |-> l, errors |-> e]
    BY <2>1 DEF DiscoverInv
  <2>3. job' = Idle \/ (job'.kind = job.kind /\ job'.map = job.map)
    <3>1. CASE CheckRoot
      BY <2>2, <3>1 DEF CheckRoot
    <3>2. CASE RateLimited
      BY <2>2, <3>2 DEF RateLimited, Spent
    <3>3. CASE ServerError
      BY <2>2, <3>3 DEF ServerError, Spent
    <3> QED BY <1>7, <3>1, <3>2, <3>3
  <2>4. pages' = pages /\ idMap' = idMap
    BY <1>7 DEF CheckRoot, RateLimited, ServerError
  <2> QED BY <1>1, <2>3, <2>4, PlacesRest
<1>8. CASE Visit
  <2>1. pages' = pages /\ idMap' = idMap
    BY <1>8 DEF Visit
  <2>2. CASE job' = Idle
    BY <1>1, <2>1, <2>2, PlacesRest
  <2>3. CASE job' # Idle
    <3>1. DiscoverInv /\ Rooted(pages, job.map)
      BY <1>1, <1>8, WhichScript DEF Visit, PlaceInv, Busy
    <3>2. DiscoverInv'
      BY <1>1, <1>8, <2>3, <3>1, VisitKeeps
    <3>3. Rooted(pages', job'.map)
      BY <1>8, <2>3, <3>1, <3>2, VisitPlaces
    <3>4. ~Busy("create")' /\ ~Busy("snapshot")'
      BY <3>2 DEF DiscoverInv, Busy
    <3> QED BY <2>1, <3>3, <3>4 DEF PlaceInv
  <2> QED BY <2>2, <2>3
<1>9. CASE SaveMap
  <2>1. pages' = pages /\ job' = Idle /\ MapReady
        /\ idMap' \in {[by |-> job.kind, map |-> job.map], Torn}
    BY <1>9 DEF SaveMap
  <2>2. ~Busy("create")' /\ ~Busy("discover")' /\ ~Busy("snapshot")'
    <3>1. job'.kind = "none"
      BY <2>1 DEF Idle
    <3> QED BY <3>1 DEF Busy
  <2>3. Traced(pages, job.map)
    BY <1>1, <2>1, WhichScript DEF MapReady, PlaceInv, CreateInv, DiscoverInv, Traced
  <2>4. idMap' \notin {None, Torn} => Traced(pages', idMap'.map)
    BY <2>1, <2>3
  <2> QED BY <1>2, <2>1, <2>2, <2>4 DEF PlaceInv
<1> QED BY <1>4, <1>5, <1>6, <1>7, <1>8, <1>9 DEF TreeStep

\* Starting one of them keeps it.
LEMMA StartsPlace ==
  ASSUME KnowledgeInv, KnowledgeInv', PlaceInv, TreeStart
  PROVE  PlaceInv'
<1>1. PICK at : Placed(pages, at)
  BY DEF PlaceInv
<1>2. ASSUME pages' = pages, idMap' = idMap, NEW m, job'.map = m,
             job'.kind = "create" \/ job'.kind = "discover",
             DOMAIN m \subseteq {Root},
             Root \in DOMAIN m => m[Root] \in ChildrenOf(Workspace)
      PROVE  PlaceInv'
  <2>1. ~Busy("snapshot")'
    BY <1>2 DEF Busy
  <2>2. Rooted(pages', job'.map)
    BY <1>2, OrderedPaths DEF Rooted, ChildrenOf
  <2> QED BY <1>2, <2>1, <2>2 DEF PlaceInv
<1>3. ASSUME NEW root \in DOMAIN pages \cup {None}, StartCreate(root) PROVE PlaceInv'
  <2>1. PICK m : m = IF root = None THEN <<>> ELSE [path \in {Root} |-> root]
    OBVIOUS
  <2>2. pages' = pages /\ idMap' = idMap /\ root \in ChildrenOf(Workspace) \cup {None}
        /\ job'.map = m /\ job'.kind = "create"
    BY <1>3, <2>1 DEF StartCreate, Start
  <2>3. DOMAIN m \subseteq {Root} /\ (Root \in DOMAIN m => m[Root] \in ChildrenOf(Workspace))
    <3>1. CASE root = None
      BY <2>1, <3>1
    <3>2. CASE root # None
      BY <2>1, <2>2, <3>2
    <3> QED BY <3>1, <3>2
  <2> QED BY <1>2, <2>2, <2>3
<1>4. ASSUME NEW root \in DOMAIN pages, StartDiscover(root) PROVE PlaceInv'
  <2>1. PICK m : m = [path \in {Root} |-> root]
    OBVIOUS
  <2>2. pages' = pages /\ idMap' = idMap /\ root \in ChildrenOf(Workspace)
        /\ job'.map = m /\ job'.kind = "discover"
    BY <1>4, <2>1 DEF StartDiscover, Start
  <2>3. DOMAIN m \subseteq {Root} /\ (Root \in DOMAIN m => m[Root] \in ChildrenOf(Workspace))
    BY <2>1, <2>2
  <2> QED BY <1>2, <2>2, <2>3
<1>5. CASE DryRun
  <2>1. /\ pages' = pages /\ job' = Idle
        /\ \E paths : idMap' = [by |-> "dry_run", map |-> [path \in paths |-> Fake]]
    BY <1>5 DEF DryRun, Start
  <2>2. AllFake(idMap'.map)
    BY <2>1 DEF AllFake
  <2>3. ~Busy("create")' /\ ~Busy("discover")' /\ ~Busy("snapshot")'
    <3>1. job'.kind = "none"
      BY <2>1 DEF Idle
    <3> QED BY <3>1 DEF Busy
  <2> QED BY <1>1, <2>1, <2>2, <2>3 DEF PlaceInv
<1> QED BY <1>3, <1>4, <1>5 DEF TreeStart

\* No page is lost, moved or retitled.
LEMMA PagesStay ==
  ASSUME KnowledgeInv, TreeStep \/ TreeStart \/ Fail \/ AddPage \/ Rewrite
  PROVE  Kept
<1>1. pages \in Seq(PageRecord) /\ JobInv /\ DOMAIN pages = 1..Len(pages)
  <2>1. pages \in Seq(PageRecord) /\ JobInv
    BY DEF KnowledgeInv
  <2> QED BY <2>1
<1>2. CASE \/ ReusePage \/ FindAbsent \/ CheckRoot \/ RateLimited \/ ServerError \/ Visit
           \/ SaveMap \/ TreeStart \/ Fail
  <2>1. pages' = pages
    BY <1>2 DEF ReusePage, FindAbsent, CheckRoot, RateLimited, ServerError, Visit, SaveMap,
                TreeStart, StartCreate, StartDiscover, DryRun, Fail
  <2> QED BY <2>1, NothingChanges
<1>3. CASE CreatePage \/ LoseReply
  <2>1. /\ Creating /\ job.absent
        /\ PageMade(ParentPage, Last(Path), PageContent(Path), TRUE)
    BY <1>3 DEF CreatePage, LoseReply
  <2>2. CreateInv
    BY <1>1, <2>1, WhichScript DEF Creating
  <2> QED BY <1>1, <2>1, <2>2, MadeOnce DEF KnowledgeInv
<1>4. CASE AddPage
  <2>1. PICK parent \in DOMAIN pages \cup {Workspace}, title \in Titles :
          PageMade(parent, title, <<>>, FALSE)
    BY <1>4 DEF AddPage
  <2>2. parent \in Nat /\ <<>> \in AnyContent /\ title \in PageTitle
    BY <1>1 DEF AnyContent, Workspace, PageTitle
  <2> QED BY <1>1, <2>1, <2>2, MadeIsNew
<1>5. CASE Rewrite
  <2>1. PICK p \in DOMAIN pages, content \in Draft :
          pages' = [pages EXCEPT ![p].content = content]
    BY <1>5 DEF Rewrite
  <2>2. DOMAIN pages' = DOMAIN pages
    BY <2>1
  <2>3. ASSUME NEW q \in DOMAIN pages
        PROVE  /\ pages'[q].title = pages[q].title
               /\ pages'[q].parent = pages[q].parent
               /\ pages'[q].script = pages[q].script
    <3> PICK r : r = pages[q]
      OBVIOUS
    <3>1. r \in PageRecord
      BY <1>1
    <3>2. CASE q = p
      <4>1. pages'[q] = [r EXCEPT !.content = content]
        BY <2>1, <3>2
      <4> QED BY <3>1, <4>1 DEF PageRecord
    <3>3. CASE q # p
      BY <2>1, <3>1, <3>3
    <3> QED BY <3>2, <3>3
  <2> QED BY <2>2, <2>3 DEF Kept
<1> QED BY <1>2, <1>3, <1>4, <1>5 DEF TreeStep

\* People keep it.
LEMMA PeoplePlace ==
  ASSUME KnowledgeInv, PlaceInv, AddPage \/ Rewrite
  PROVE  PlaceInv'
<1>1. /\ pages \in Seq(PageRecord) /\ JobInv /\ idMap' = idMap /\ job' = job
  BY DEF KnowledgeInv, AddPage, Rewrite
<1>2. PICK at : Placed(pages, at)
  BY DEF PlaceInv
<1>3. ASSUME Kept, \E a : Placed(pages', a) PROVE PlaceInv'
  BY <1>1, <1>3, SavedPlaces, JobPlaces DEF PlaceInv
<1>4. CASE AddPage
  <2>1. PICK parent \in DOMAIN pages \cup {Workspace}, title \in Titles :
          PageMade(parent, title, <<>>, FALSE)
    BY <1>4 DEF AddPage
  <2>2. title \in PageTitle
    BY DEF PageTitle
  <2>3. \E a : Placed(pages', a)
    <3>1. PICK path : path = IF parent = Workspace THEN Root ELSE Append(at[parent], title)
      OBVIOUS
    <3>2. <<>> \in {<<>>} \cup Contents(path)
      OBVIOUS
    <3> QED BY <1>1, <1>2, <2>1, <2>2, <3>1, <3>2, MadeIsPlaced
  <2>4. Kept
    BY <1>4, PagesStay
  <2> QED BY <1>3, <2>3, <2>4
<1>5. CASE Rewrite
  <2>1. PICK p \in DOMAIN pages, content \in Draft :
          pages' = [pages EXCEPT ![p].content = content]
    BY <1>5 DEF Rewrite
  <2>2. DOMAIN pages' = DOMAIN pages
    BY <2>1
  <2>3. ASSUME NEW q \in DOMAIN pages
        PROVE  /\ pages'[q].title = pages[q].title
               /\ pages'[q].parent = pages[q].parent
               /\ pages'[q].content \in {content, pages[q].content}
    <3> PICK r : r = pages[q]
      OBVIOUS
    <3>1. r \in PageRecord
      BY <1>1
    <3>2. CASE q = p
      <4>1. pages'[q] = [r EXCEPT !.content = content]
        BY <2>1, <3>2
      <4> QED BY <3>1, <4>1 DEF PageRecord
    <3>3. CASE q # p
      BY <2>1, <3>1, <3>3
    <3> QED BY <3>2, <3>3
  <2>4. Kept
    BY <1>5, PagesStay
  <2>5. Placed(pages', at)
    <3>1. \A path : content \in Contents(path)
      BY DEF Contents
    <3> QED BY <1>2, <2>2, <2>3, <3>1 DEF Placed
  <2> QED BY <1>3, <2>4, <2>5
<1> QED BY <1>4, <1>5

\* The readers change neither the pages nor the saved map.
LEMMA ReadersPlace ==
  ASSUME KnowledgeInv, PlaceInv,
         \/ StartSnapshot \/ FetchPage \/ FetchInner \/ FinishPage \/ SaveDocuments
         \/ BuildChunks \/ StartServer
  PROVE  PlaceInv'
<1>1. pages' = pages /\ idMap' = idMap /\ JobInv
  BY DEF StartSnapshot, FetchPage, FetchInner, FinishPage, SaveDocuments, BuildChunks,
         StartServer, Start, KnowledgeInv
<1>2. CASE StartSnapshot
  <2>1. job'.kind = "snapshot" /\ job'.map = idMap.map /\ idMap \notin {None, Torn}
    BY <1>2 DEF StartSnapshot, Start
  <2>2. ~Busy("create")' /\ ~Busy("discover")'
    BY <2>1 DEF Busy
  <2> QED BY <1>1, <2>1, <2>2 DEF PlaceInv
<1>3. CASE FetchPage \/ FetchInner \/ FinishPage
  <2>1. SnapshotInv
    BY <1>1, <1>3, WhichScript DEF FetchPage, FetchInner, FinishPage, Reading
  <2>2. PICK map, docs, rest, read :
          job = [kind |-> "snapshot", map |-> map, docs |-> docs, rest |-> rest,
                 read |-> read]
    BY <2>1 DEF SnapshotInv
  <2>3. job' = Idle \/ (job'.kind = job.kind /\ job'.map = job.map)
    <3>1. CASE FetchPage
      BY <2>2, <3>1 DEF FetchPage
    <3>2. CASE FetchInner
      BY <2>2, <3>2 DEF FetchInner
    <3>3. CASE FinishPage
      BY <2>2, <3>3 DEF FinishPage
    <3> QED BY <1>3, <3>1, <3>2, <3>3
  <2> QED BY <1>1, <2>3, PlacesRest
<1>4. CASE SaveDocuments \/ BuildChunks \/ StartServer
  <2>1. job' = Idle \/ job' = job
    BY <1>4 DEF SaveDocuments, BuildChunks, StartServer, Start
  <2> QED BY <1>1, <2>1, PlacesRest
<1> QED BY <1>2, <1>3, <1>4

\* Every step keeps it.
LEMMA PlaceNext == KnowledgeInv /\ KnowledgeInv' /\ PlaceInv /\ [Next]_vars => PlaceInv'
<1> SUFFICES ASSUME KnowledgeInv, KnowledgeInv', PlaceInv, [Next]_vars PROVE PlaceInv'
  OBVIOUS
<1>1. JobInv
  BY DEF KnowledgeInv
<1>2. CASE UNCHANGED vars
  BY <1>1, <1>2, PlacesRest DEF vars
<1>3. CASE TreeStep
  BY <1>3, TreeStepPlaces
<1>4. CASE TreeStart
  BY <1>4, StartsPlace
<1>5. CASE Fail
  BY <1>1, <1>5, PlacesRest DEF Fail
<1>6. CASE AddPage \/ Rewrite
  BY <1>6, PeoplePlace
<1>7. CASE \/ StartSnapshot \/ FetchPage \/ FetchInner \/ FinishPage \/ SaveDocuments
           \/ BuildChunks \/ StartServer
  BY <1>7, ReadersPlace
<1> QED BY <1>2, <1>3, <1>4, <1>5, <1>6, <1>7 DEF Next

------------------------------------------------------------------------------
\* What the readers have made is made of readings of the manifest's pages.
Docs(docs) ==
  /\ docs \in Seq(Seq(TextLine)) /\ Len(docs) <= Len(Manifest)
  /\ \A n \in DOMAIN docs : docs[n] \in Readings(Manifest[n])
Whole(docs) == Docs(docs) /\ Len(docs) = Len(Manifest)
SnapshotRead ==
  Busy("snapshot") =>
    /\ Docs(job.docs)
    /\ job.rest = None => job.read = <<>>
    /\ job.rest # None =>
         /\ Len(job.docs) < Len(Manifest)
         /\ Source \in DOMAIN job.map /\ Traced(pages, job.map)
         /\ ReadSoFar(Source, job.read, job.rest)
ChunksRead(file) == file \in {None, Torn} \/ \E docs : Whole(docs) /\ file = AllChunks(docs)
ReadInv ==
  /\ SnapshotRead
  /\ documents \in {None, Torn} \/ Whole(documents)
  /\ ChunksRead(chunks)
  /\ served = None \/ (ChunksRead(served) /\ served # Torn)

\* The places of the manifest.
LEMMA ManifestIs == Len(Manifest) \in Nat /\ DOMAIN Manifest = 1..Len(Manifest)
BY ManifestAssumption DEF ManifestAssumption

\* What is fetched from a page is a content of its place.
LEMMA FetchedContent ==
  ASSUME pages \in Seq(PageRecord), PlaceInv, NEW map, Traced(pages, map),
         NEW path \in DOMAIN map
  PROVE  map[path] \in DOMAIN pages
         /\ pages[map[path]].content \in {<<>>} \cup Contents(path)
<1>1. PICK at : Placed(pages, at)
  BY DEF PlaceInv
<1>2. Workspace \notin DOMAIN pages
  <2>1. DOMAIN pages = 1..Len(pages)
    OBVIOUS
  <2> QED BY <2>1 DEF Workspace
<1>3. map[path] \in DOMAIN pages
  BY DEF Traced, Grounded
<1>4. at[map[path]] = path
  BY <1>1, <1>2, PlaceOfPath
<1> QED BY <1>1, <1>3, <1>4 DEF Placed

\* It holds at first.
LEMMA ReadInit == Init => ReadInv
<1> SUFFICES ASSUME Init PROVE ReadInv
  OBVIOUS
<1>1. ~Busy("snapshot")
  BY DEF Init, TreeInit, Idle, Busy
<1> QED BY <1>1 DEF Init, ReadInv, SnapshotRead, ChunksRead

\* The snapshot goes on while people and scripts change the pages.
LEMMA SnapshotRests ==
  ASSUME SnapshotRead, Kept, job' = job \/ ~Busy("snapshot")'
  PROVE  SnapshotRead'
<1>1. CASE ~Busy("snapshot")'
  BY <1>1 DEF SnapshotRead
<1>2. CASE job' = job
  <2>1. Source' = Source
    BY <1>2 DEF Source
  <2>2. \A map : Traced(pages, map) => Traced(pages', map)
    BY TracedStays
  <2> QED BY <1>2, <2>1, <2>2 DEF SnapshotRead, Busy
<1> QED BY <1>1, <1>2

\* Steps that read nothing keep it.
LEMMA TreeReads ==
  ASSUME KnowledgeInv, ReadInv, Kept, UNCHANGED <<documents, chunks, served>>,
         job' = job \/ ~Busy("snapshot")'
  PROVE  ReadInv'
<1>1. SnapshotRead'
  BY SnapshotRests DEF ReadInv
<1> QED BY <1>1 DEF ReadInv

\* Fetching a page keeps it: what is fetched is a content of its place.
LEMMA FetchPageReads ==
  ASSUME KnowledgeInv, PlaceInv, ReadInv, FetchPage
  PROVE  ReadInv'
<1>1. PICK map, docs, rest, read :
        job = [kind |-> "snapshot", map |-> map, docs |-> docs, rest |-> rest,
               read |-> read]
  BY WhichScript DEF KnowledgeInv, FetchPage, Reading, SnapshotInv
<1>2. /\ pages' = pages /\ UNCHANGED <<documents, chunks, served>>
      /\ Len(docs) < Len(Manifest) /\ rest = None
  BY <1>1 DEF FetchPage, Reading
<1>3. SnapshotRead'
  <2>1. CASE job' = Idle
    <3>1. job'.kind = "none"
      BY <2>1 DEF Idle
    <3> QED BY <3>1 DEF SnapshotRead, Busy
  <2>2. CASE job' # Idle
    <3>1. Source \in DOMAIN map /\ map[Source] # Fake
          /\ job' = [job EXCEPT !.rest = pages[Page].content] /\ Page = map[Source]
      BY <1>1, <2>2 DEF FetchPage, Page
    <3>2. PICK content : content = pages[map[Source]].content
      OBVIOUS
    <3>3. job' = [kind |-> "snapshot", map |-> map, docs |-> docs, rest |-> content,
                  read |-> read]
      BY <1>1, <3>1, <3>2
    <3>4. Traced(pages, map)
      BY <1>1, <3>1 DEF PlaceInv, AllFake, Busy
    <3>5. content \in {<<>>} \cup Contents(Source)
      BY <3>1, <3>2, <3>4, FetchedContent DEF KnowledgeInv
    <3>6. Docs(docs) /\ read = <<>>
      BY <1>1, <1>2 DEF ReadInv, SnapshotRead, Busy
    <3>7. Source' = Source
      BY <1>1, <3>3 DEF Source
    <3>8. ReadSoFar(Source, read, content)
      BY <3>5, <3>6, ReadStart
    <3> QED BY <1>2, <3>1, <3>3, <3>4, <3>6, <3>7, <3>8 DEF SnapshotRead
  <2> QED BY <2>1, <2>2
<1> QED BY <1>2, <1>3 DEF ReadInv

\* Fetching what is inside a block keeps it, whatever the page says by then.
LEMMA FetchInnerReads ==
  ASSUME KnowledgeInv, PlaceInv, ReadInv, FetchInner
  PROVE  ReadInv'
<1>1. PICK map, docs, rest, read :
        job = [kind |-> "snapshot", map |-> map, docs |-> docs, rest |-> rest,
               read |-> read]
  BY WhichScript DEF KnowledgeInv, FetchInner, Reading, SnapshotInv
<1>2. /\ pages' = pages /\ UNCHANGED <<documents, chunks, served>>
      /\ Len(docs) < Len(Manifest) /\ rest # None /\ Nesting(rest) # {}
      /\ Page = map[Source]
  BY <1>1 DEF FetchInner, Reading, Page
<1>3. /\ Docs(docs) /\ Source \in DOMAIN map /\ Traced(pages, map)
      /\ ReadSoFar(Source, read, rest)
  BY <1>1, <1>2 DEF ReadInv, SnapshotRead, Busy
<1>4. SnapshotRead'
  <2>1. CASE job' = Idle
    <3>1. job'.kind = "none"
      BY <2>1 DEF Idle
    <3> QED BY <3>1 DEF SnapshotRead, Busy
  <2>2. CASE job' # Idle
    <3>1. PICK i, content, now : /\ i = Min(Nesting(rest))
                                 /\ content = pages[map[Source]].content
                                 /\ now = Same(content, rest[i])
      OBVIOUS
    <3>2. PICK read2, rest2 :
            /\ read2 = read \o Lines(SubSeq(rest, 1, i)) \o Lines(content[Min(now)].inner)
            /\ rest2 = SubSeq(rest, i + 1, Len(rest))
      OBVIOUS
    <3>3. now # {}
          /\ job' = [job EXCEPT !.read = read2, !.rest = rest2]
      BY <1>1, <1>2, <2>2, <3>1, <3>2 DEF FetchInner
    <3>4. job' = [kind |-> "snapshot", map |-> map, docs |-> docs, rest |-> rest2,
                  read |-> read2]
      BY <1>1, <3>3
    <3>5. content \in Contents(Source)
      <4>1. content \in {<<>>} \cup Contents(Source)
        BY <1>3, <3>1, FetchedContent DEF KnowledgeInv
      <4>2. content # <<>>
        BY <3>1, <3>3 DEF Same
      <4> QED BY <4>1, <4>2
    <3>6. ReadSoFar(Source, read2, rest2)
      BY <1>2, <1>3, <3>1, <3>2, <3>3, <3>5, ReadOn
    <3>7. rest2 # None
      BY <3>6, ReadIsBegun
    <3>8. Source' = Source
      BY <1>1, <3>4 DEF Source
    <3> QED BY <1>2, <1>3, <3>4, <3>6, <3>7, <3>8 DEF SnapshotRead
  <2> QED BY <2>1, <2>2
<1> QED BY <1>2, <1>4 DEF ReadInv

\* Finishing a page keeps it: the text is a reading of that page.
LEMMA FinishPageReads ==
  ASSUME KnowledgeInv, ReadInv, FinishPage
  PROVE  ReadInv'
<1>1. PICK map, docs, rest, read :
        job = [kind |-> "snapshot", map |-> map, docs |-> docs, rest |-> rest,
               read |-> read]
  BY WhichScript DEF KnowledgeInv, FinishPage, Reading, SnapshotInv
<1>2. /\ pages' = pages /\ UNCHANGED <<documents, chunks, served>>
      /\ Len(docs) < Len(Manifest) /\ rest # None /\ Nesting(rest) = {}
  BY <1>1 DEF FinishPage, Reading
<1>3. Docs(docs) /\ ReadSoFar(Source, read, rest)
  BY <1>1, <1>2 DEF ReadInv, SnapshotRead, Busy
<1>4. PICK text : text = read \o Lines(rest)
  OBVIOUS
<1>5. SnapshotRead'
  <2>1. CASE job' = Idle
    <3>1. job'.kind = "none"
      BY <2>1 DEF Idle
    <3> QED BY <3>1 DEF SnapshotRead, Busy
  <2>2. CASE job' # Idle
    <3>1. /\ text # <<>>
          /\ job' = [job EXCEPT !.docs = Append(docs, text), !.rest = None, !.read = <<>>]
      BY <1>1, <1>4, <2>2 DEF FinishPage, PageText
    <3>2. PICK docs2 : docs2 = Append(docs, text)
      OBVIOUS
    <3>3. job' = [kind |-> "snapshot", map |-> map, docs |-> docs2, rest |-> None,
                  read |-> <<>>]
      BY <1>1, <3>1, <3>2
    <3>4. text \in Readings(Source) /\ text \in Seq(TextLine)
      BY <1>2, <1>3, <1>4, <3>1, ReadAll
    <3>5. Source = Manifest[Len(docs) + 1]
      BY <1>1 DEF Source
    <3>6. /\ docs \in Seq(Seq(TextLine)) /\ Len(docs) \in Nat
          /\ \A n \in 1..Len(docs) : docs[n] \in Readings(Manifest[n])
      BY <1>3 DEF Docs
    <3>7. /\ docs2 \in Seq(Seq(TextLine)) /\ Len(docs2) = Len(docs) + 1
          /\ DOMAIN docs2 = 1..(Len(docs) + 1) /\ docs2[Len(docs) + 1] = text
          /\ \A n \in 1..Len(docs) : docs2[n] = docs[n]
      BY <3>2, <3>4, <3>6, AppendProperties
    <3>8. Docs(docs2)
      <4>1. ASSUME NEW n \in 1..(Len(docs) + 1) PROVE docs2[n] \in Readings(Manifest[n])
        <5>1. CASE n = Len(docs) + 1
          BY <3>4, <3>5, <3>7, <5>1
        <5>2. CASE n # Len(docs) + 1
          <6>1. n \in 1..Len(docs)
            BY <3>6, <5>2
          <6> QED BY <3>6, <3>7, <6>1
        <5> QED BY <5>1, <5>2
      <4>2. Len(docs2) <= Len(Manifest)
        BY <1>2, <3>6, <3>7, ManifestIs
      <4> QED BY <3>7, <4>1, <4>2 DEF Docs
    <3> QED BY <3>3, <3>8 DEF SnapshotRead
  <2> QED BY <2>1, <2>2
<1> QED BY <1>2, <1>5 DEF ReadInv

\* Writing the files and loading them keeps it.
LEMMA FilesRead ==
  ASSUME KnowledgeInv, ReadInv, StartSnapshot \/ SaveDocuments \/ BuildChunks \/ StartServer
  PROVE  ReadInv'
<1>1. CASE StartSnapshot
  <2>1. job' = [kind |-> "snapshot", map |-> idMap.map, docs |-> <<>>, rest |-> None,
                read |-> <<>>]
        /\ UNCHANGED <<documents, chunks, served>>
    BY <1>1 DEF StartSnapshot, Start
  <2>2. Docs(<<>>)
    BY ManifestIs DEF Docs
  <2>3. SnapshotRead'
    BY <2>1, <2>2 DEF SnapshotRead
  <2> QED BY <2>1, <2>3 DEF ReadInv
<1>2. ASSUME job' = Idle PROVE SnapshotRead'
  <2>1. job'.kind = "none"
    BY <1>2 DEF Idle
  <2> QED BY <2>1 DEF SnapshotRead, Busy
<1>3. CASE SaveDocuments
  <2>1. job' = Idle /\ UNCHANGED <<chunks, served>> /\ documents' \in {job.docs, Torn}
        /\ Busy("snapshot") /\ Len(job.docs) = Len(Manifest)
    BY <1>3 DEF SaveDocuments, AllRead
  <2>2. Whole(job.docs)
    BY <2>1 DEF ReadInv, SnapshotRead, Whole
  <2>3. documents' = Torn \/ Whole(documents')
    BY <2>1, <2>2
  <2> QED BY <1>2, <2>1, <2>3 DEF ReadInv
<1>4. CASE BuildChunks
  <2>1. job' = Idle /\ UNCHANGED <<documents, served>> /\ documents \notin {None, Torn}
        /\ chunks' \in {AllChunks(documents), Torn}
    BY <1>4 DEF BuildChunks, Start
  <2>2. Whole(documents)
    BY <2>1 DEF ReadInv
  <2>3. ChunksRead(chunks)'
    BY <2>1, <2>2 DEF ChunksRead
  <2> QED BY <1>2, <2>1, <2>3 DEF ReadInv
<1>5. CASE StartServer
  <2>1. pages' = pages /\ job' = job /\ UNCHANGED <<documents, chunks>>
        /\ served' = IF Loadable(chunks) THEN chunks ELSE None
    BY <1>5 DEF StartServer
  <2>2. SnapshotRead'
    BY <2>1, NothingChanges, SnapshotRests DEF ReadInv
  <2>3. served' = None \/ (ChunksRead(served') /\ served' # Torn)
    BY <2>1 DEF Loadable, ReadInv
  <2> QED BY <2>1, <2>2, <2>3 DEF ReadInv
<1> QED BY <1>1, <1>3, <1>4, <1>5

\* Neither they nor people touch a snapshot in progress.
LEMMA TreeOrPeople ==
  ASSUME KnowledgeInv, KnowledgeInv', TreeStep \/ TreeStart \/ Fail \/ AddPage \/ Rewrite
  PROVE  job' = job \/ ~Busy("snapshot")'
<1>1. JobInv
  BY DEF KnowledgeInv
<1>2. ASSUME job'.kind \in {"none", "create", "discover"} PROVE ~Busy("snapshot")'
  BY <1>2 DEF Busy
<1>3. CASE ReusePage \/ FindAbsent \/ CreatePage \/ LoseReply
  <2>1. CreateInv
    BY <1>1, <1>3, WhichScript DEF ReusePage, FindAbsent, CreatePage, LoseReply, Creating
  <2>2. PICK n, a, m : job = [kind |-> "create", next |-> n, absent |-> a, map |-> m]
    BY <2>1 DEF CreateInv
  <2>3. \A page : Recorded(page).kind = "create"
    BY <2>2 DEF Recorded
  <2>4. [job EXCEPT !.absent = TRUE].kind = "create"
    BY <2>2
  <2>5. \/ job' = Idle \/ job' = [job EXCEPT !.absent = TRUE]
        \/ \E page : job' = Recorded(page)
    BY <1>3 DEF ReusePage, FindAbsent, CreatePage, LoseReply
  <2>6. job'.kind \in {"none", "create"}
    <3>1. Idle.kind = "none"
      BY DEF Idle
    <3> HIDE DEF Recorded, Idle
    <3>2. CASE job' = [job EXCEPT !.absent = TRUE]
      BY <2>4, <3>2
    <3>3. CASE job' # [job EXCEPT !.absent = TRUE]
      BY <2>3, <2>5, <3>1, <3>3
    <3> QED BY <3>2, <3>3
  <2> QED BY <1>2, <2>6
<1>4. CASE CheckRoot \/ RateLimited \/ ServerError \/ Visit
  <2>1. DiscoverInv
    BY <1>1, <1>4, WhichScript DEF CheckRoot, RateLimited, ServerError, Visit, Waiting
  <2>2. PICK c, s, m, l, e : job = [kind |-> "discover", checked |-> c, stack |-> s,
                                    map |-> m, limited |-> l, errors |-> e]
    BY <2>1 DEF DiscoverInv
  <2>3. job' = Idle \/ job'.kind = job.kind
    <3>1. CASE CheckRoot
      BY <2>2, <3>1 DEF CheckRoot
    <3>2. CASE RateLimited
      BY <2>2, <3>2 DEF RateLimited, Spent
    <3>3. CASE ServerError
      BY <2>2, <3>3 DEF ServerError, Spent
    <3>4. CASE Visit
      BY <2>2, <3>4 DEF Visit
    <3> QED BY <1>4, <3>1, <3>2, <3>3, <3>4
  <2> QED BY <1>2, <2>2, <2>3 DEF Idle
<1>5. CASE SaveMap \/ TreeStart \/ Fail
  <2>1. job'.kind \in {"none", "create", "discover"}
    BY <1>5 DEF SaveMap, TreeStart, StartCreate, StartDiscover, DryRun, Start, Fail, Idle
  <2> QED BY <1>2, <2>1
<1>6. CASE AddPage \/ Rewrite
  BY <1>6 DEF AddPage, Rewrite
<1> QED BY <1>3, <1>4, <1>5, <1>6 DEF TreeStep

\* Every step keeps it.
LEMMA ReadNext ==
  KnowledgeInv /\ KnowledgeInv' /\ PlaceInv /\ ReadInv /\ [Next]_vars => ReadInv'
<1> SUFFICES ASSUME KnowledgeInv, KnowledgeInv', PlaceInv, ReadInv, [Next]_vars PROVE ReadInv'
  OBVIOUS
<1>1. CASE UNCHANGED vars
  BY <1>1, NothingChanges, TreeReads DEF vars
<1>2. CASE (TreeStep \/ TreeStart \/ Fail \/ AddPage \/ Rewrite)
           /\ UNCHANGED <<documents, chunks, served>>
  <2>1. Kept
    BY <1>2, PagesStay
  <2>2. job' = job \/ ~Busy("snapshot")'
    BY <1>2, TreeOrPeople
  <2> QED BY <1>2, <2>1, <2>2, TreeReads
<1>3. CASE FetchPage
  BY <1>3, FetchPageReads
<1>4. CASE FetchInner
  BY <1>4, FetchInnerReads
<1>5. CASE FinishPage
  BY <1>5, FinishPageReads
<1>6. CASE StartSnapshot \/ SaveDocuments \/ BuildChunks \/ StartServer
  BY <1>6, FilesRead
<1> QED BY <1>1, <1>2, <1>3, <1>4, <1>5, <1>6 DEF Next

\* The sections of whole documents hold a reading of every page.
LEMMA ReadIsServed == ReadInv => ServedIsWhole
<1> SUFFICES ASSUME ReadInv, served # None, NEW n \in DOMAIN Manifest
             PROVE  \E text \in Readings(Manifest[n]) :
                      ServedText(Manifest[n]) = FromFirstHeading(text)
  BY DEF ServedIsWhole
<1>1. PICK docs : Whole(docs) /\ served = AllChunks(docs)
  BY DEF ReadInv, ChunksRead
<1>2. docs \in Seq(Seq(TextLine)) /\ Len(docs) = Len(Manifest) /\ n \in DOMAIN docs
      /\ docs[n] \in Readings(Manifest[n])
  BY <1>1, ManifestIs DEF Whole, Docs
<1>3. FlattenSeq(OnlyOf(AllChunks(docs), Manifest[n])) = FromFirstHeading(docs[n])
  BY <1>2, TextLinesAreHeaded, ChunksOfPage
<1>4. ServedText(Manifest[n]) = FlattenSeq(OnlyOf(served, Manifest[n]))
  BY DEF ServedText, OnlyOf
<1> QED BY <1>1, <1>2, <1>3, <1>4

------------------------------------------------------------------------------
\* A server that has evidence has, of every page of the manifest, one reading from
\* its first heading on, with no line lost, repeated or moved: whatever pages there
\* are and say, whenever people rewrite them, and whichever script fails or is cut
\* off on the way.
THEOREM ServedTextIsWhole == Spec => []ServedIsWhole
<1> DEFINE Inv == KnowledgeInv /\ PlaceInv /\ ReadInv
<1>1. Init => Inv
  BY KnowledgeInit, PlaceInit, ReadInit
<1>2. Inv /\ [Next]_vars => Inv'
  BY KnowledgeNext, PlaceNext, ReadNext
<1>3. Inv => ServedIsWhole
  BY ReadIsServed
<1> QED BY <1>1, <1>2, <1>3, PTL DEF Spec
==============================================================================
