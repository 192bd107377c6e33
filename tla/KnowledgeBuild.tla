---------------------------- MODULE KnowledgeBuild ----------------------------
(***************************************************************************)
(* From the recorded page ids to what the server searches:                 *)
(* build_notion_knowledge_snapshot.py reads every page of the manifest,    *)
(* build_knowledge_chunks.py cuts the documents into sections, and a       *)
(* server loads these when it starts.  People rewrite pages between any    *)
(* two requests.                                                           *)
(***************************************************************************)
EXTENDS KnowledgeTree

CONSTANT Manifest \* the source paths of config/knowledge_manifest.yml, in order

ASSUME ManifestAssumption ==
  /\ Manifest \in Seq(Range(Manifest))
  /\ \A i, j \in DOMAIN Manifest : Manifest[i] = Manifest[j] => i = j
\* A page's content is a list of blocks, and so is what is inside a block.
Blocks == UNION {Range(content) : content \in Draft \cup {PageContent(path) : path \in DOMAIN KindOf}}
ASSUME DraftAssumption ==
  /\ Draft \subseteq Seq(Blocks)
  /\ \A b \in Blocks : b.inner \in Seq(Range(b.inner))
  /\ \A path \in DOMAIN KindOf : KindOf[path] \in DOMAIN SectionsOf
ASSUME ReservedAssumption == None \notin Seq(Blocks)

VARIABLES
  documents, \* notion_pages.json
  chunks,    \* knowledge_chunks.json
  served     \* the sections in the running server's indexes, or None

vars == <<pages, idMap, job, runs, work, documents, chunks, served>>

Init == TreeInit /\ documents = None /\ chunks = None /\ served = None

------------------------------------------------------------------------------
\* build_notion_knowledge_snapshot.py
StartSnapshot ==
  /\ idMap \notin {None, Torn}
  /\ Start([kind |-> "snapshot", map |-> idMap.map, docs |-> <<>>,
            rest |-> None, read |-> <<>>])
  /\ UNCHANGED <<pages, idMap, work, documents, chunks, served>>

Reading == Busy("snapshot") /\ Len(job.docs) < Len(Manifest)
Source == Manifest[Len(job.docs) + 1]
Page == job.map[Source]
Nesting(blocks) == {i \in DOMAIN blocks : Nests(blocks[i])}
Same(content, b) == {i \in DOMAIN content : content[i].id = b.id}

\* A path without an id, or with one that names no page, ends the script.
FetchPage ==
  /\ Reading /\ job.rest = None
  /\ job' = IF Source \notin DOMAIN job.map \/ Page = Fake THEN Idle
            ELSE [job EXCEPT !.rest = pages[Page].content]
  /\ UNCHANGED <<pages, idMap, runs, work, documents, chunks, served>>

\* The blocks inside a block are fetched by its id, which must still exist.
FetchInner ==
  /\ Reading /\ job.rest # None /\ Nesting(job.rest) # {}
  /\ LET i == Min(Nesting(job.rest))
         content == pages[Page].content
         now == Same(content, job.rest[i])
     IN  job' = IF now = {} \/ content[Min(now)].deep THEN Idle
                ELSE [job EXCEPT
                        !.read = @ \o Lines(SubSeq(job.rest, 1, i))
                                   \o Lines(content[Min(now)].inner),
                        !.rest = SubSeq(@, i + 1, Len(@))]
  /\ UNCHANGED <<pages, idMap, runs, work, documents, chunks, served>>

\* The edit time is fetched last, and nothing reads it; a page without text is
\* refused.
PageText == job.read \o Lines(job.rest)
FinishPage ==
  /\ Reading /\ job.rest # None /\ Nesting(job.rest) = {}
  /\ job' = IF PageText = <<>> THEN Idle
            ELSE [job EXCEPT !.docs = Append(@, PageText), !.rest = None, !.read = <<>>]
  /\ UNCHANGED <<pages, idMap, runs, work, documents, chunks, served>>

\* One file, once every page is read.
AllRead == Busy("snapshot") /\ Len(job.docs) = Len(Manifest)
SaveDocuments ==
  /\ AllRead
  /\ documents' \in {job.docs, Torn}
  /\ job' = Idle
  /\ UNCHANGED <<pages, idMap, runs, work, chunks, served>>

------------------------------------------------------------------------------
\* build_knowledge_chunks.py
AllChunks(docs) == FlattenSeq([i \in DOMAIN docs |-> Chunks(Manifest[i], docs[i])])
BuildChunks ==
  /\ documents \notin {None, Torn}
  /\ Start(Idle)
  /\ chunks' \in {AllChunks(documents), Torn}
  /\ UNCHANGED <<pages, idMap, work, documents, served>>

\* A server loads the file once; without a readable one it serves no evidence.
Loadable(file) ==
  /\ file \notin {None, Torn, <<>>}
  /\ \A i, j \in DOMAIN file : file[i].id = file[j].id => i = j
StartServer ==
  /\ served' = IF Loadable(chunks) THEN chunks ELSE None
  /\ UNCHANGED <<pages, idMap, job, runs, work, documents, chunks>>

Next ==
  \/ /\ TreeStep \/ TreeStart \/ Fail \/ AddPage \/ Rewrite
     /\ UNCHANGED <<documents, chunks, served>>
  \/ StartSnapshot \/ FetchPage \/ FetchInner \/ FinishPage \/ SaveDocuments
  \/ BuildChunks \/ StartServer

\* Every request ends, by its reply or by its timeout, and so does a local step.
Progress ==
  \/ (TreeStep \/ Fail) /\ UNCHANGED <<documents, chunks, served>>
  \/ FetchPage \/ FetchInner \/ FinishPage \/ SaveDocuments
Spec == Init /\ [][Next]_vars /\ WF_vars(Progress)

------------------------------------------------------------------------------
\* What a page of the manifest may have said while it was read: the blocks of
\* one of its contents, each with those inside it then or at a later time.
Contents(path) == Draft \cup {PageContent(path)}
InnerOf(b, content) ==
  LET same == Same(content, b) IN
  IF same = {} THEN <<>> ELSE Lines(content[Min(same)].inner)
Said(top, later, i) ==
  BlockLine(top[i]) \o IF i \in Nesting(top) THEN InnerOf(top[i], later[i]) ELSE <<>>
Readings(path) ==
  UNION {{FlattenSeq([i \in DOMAIN top |-> Said(top, later, i)]) :
            later \in [Nesting(top) -> Contents(path)]} :
         top \in Contents(path)}
\* The sections of a page in the indexes, one after the other.
ServedText(path) ==
  FlattenSeq([i \in DOMAIN served |->
                IF served[i].path = path THEN served[i].lines ELSE <<>>])

\* A server that has evidence has all of it: for every page of the manifest one
\* reading, from its first heading on, cut into sections without losing,
\* repeating or reordering a line, whatever script failed or was cut off on
\* the way and however often.
ServedIsWhole ==
  served # None =>
    \A n \in DOMAIN Manifest :
      \E text \in Readings(Manifest[n]) :
        ServedText(Manifest[n]) = FromFirstHeading(text)
=============================================================================
