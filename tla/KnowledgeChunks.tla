---------------------------- MODULE KnowledgeChunks ----------------------------
(***************************************************************************)
(* From the blocks of a page to the sections that are searched             *)
(* (rag/notion_page_loader.py, rag/chunker.py).                            *)
(*                                                                         *)
(* A block is [id, kind, text, inner, deep]: inner are the blocks nested   *)
(* in it, deep says that they are nested further than the loader follows,  *)
(* and text None stands for an empty one.  A line is its mark and its text.*)
(***************************************************************************)
EXTENDS Naturals, Sequences, SequencesExt

CONSTANT None

\* What each kind of block becomes; any other kind gives no line.
Mark ==
  [paragraph |-> "", heading_1 |-> "#", heading_2 |-> "##", heading_3 |-> "###",
   bulleted_list_item |-> "-", numbered_list_item |-> "1.", toggle |-> "###"]
BlockLine(b) ==
  IF b.kind \in DOMAIN Mark /\ b.text # None
  THEN <<[mark |-> Mark[b.kind], text |-> b.text]>> ELSE <<>>
Lines(blocks) == FlattenSeq([i \in DOMAIN blocks |-> BlockLine(blocks[i])])

\* A child page belongs to the tree, not to the text of its parent.
Nests(b) == b.inner # <<>> /\ b.kind \notin {"child_page", "child_database"}

------------------------------------------------------------------------------
\* split_text_by_heading_sections: one pass over the lines.
Flushed(scan) ==
  IF scan.section = None THEN scan.done
  ELSE Append(scan.done, [section |-> scan.section, lines |-> scan.lines])
ScanLine(scan, line) ==
  IF line.mark = "##"
  THEN [section |-> line.text, lines |-> <<line>>, done |-> Flushed(scan)]
  ELSE IF scan.section = None THEN scan
       ELSE [scan EXCEPT !.lines = Append(@, line)]
Scan(lines) ==
  LET scan[i \in 0..Len(lines)] ==
        IF i = 0 THEN [section |-> None, lines |-> <<>>, done |-> <<>>]
        ELSE ScanLine(scan[i - 1], lines[i])
  IN  scan[Len(lines)]
\* What a pass without the last flush would return.
SplitUnflushed(lines) == Scan(lines).done
Split(lines) == Flushed(Scan(lines))

\* The first title line of the document, or the name of its page.
TitleLine(path, lines) ==
  LET titles == SelectSeq(lines, LAMBDA l : l.mark = "#") IN
  IF titles = <<>> THEN Last(path) ELSE Head(titles).text
\* A document without a heading is one section, named after its page.
Sections(path, lines) ==
  IF Split(lines) = <<>> THEN <<[section |-> Last(path), lines |-> lines]>> ELSE Split(lines)
\* The id is a hash of the path, the section and its position in the document.
Chunks(path, lines) ==
  [i \in DOMAIN Sections(path, lines) |->
     [id |-> <<path, Sections(path, lines)[i].section, i - 1>>,
      path |-> path, title |-> TitleLine(path, lines),
      lines |-> Sections(path, lines)[i].lines]]

\* The reference: all lines from the first heading on, in their order.
FromFirstHeading(lines) ==
  LET heads == {i \in DOMAIN lines : lines[i].mark = "##"} IN
  IF heads = {} THEN lines ELSE SubSeq(lines, Min(heads), Len(lines))
=============================================================================
