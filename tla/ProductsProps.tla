---------------------------- MODULE ProductsProps ----------------------------
(***************************************************************************)
(* What cutting and storing a page promises to those who read it, stated   *)
(* over Chunking and Products.                                             *)
(***************************************************************************)
EXTENDS Products

Content == {l \in 1..Len(doc.lines) : doc.lines[l].kind # "break"}
Cells(i) == {chunks[i].text[k] : k \in 1..Len(chunks[i].text)}

(* Through all the loops that cut a document into sections, windows and    *)
(* chunks of their types, and merge some, no part of a line is lost but    *)
(* section breaks (chunker.py:82-229).                                     *)
NothingIsLost ==
    phase = "done" =>
        \A l \in Content : \A o \in 1..doc.lines[l].length :
            \E i \in 1..Len(chunks) : <<l, o>> \in Cells(i)

(* A line that is no longer than the overlap, a price or a SKU, is whole   *)
(* in some chunk, wherever the cuts fall: the two levels of windows, the   *)
(* cuts after a sentence and the merging do not spoil what the overlap is  *)
(* for (chunker.py:136-151, 214-229).                                      *)
LinesSurvive ==
    phase = "done" =>
        \A l \in Content :
            doc.lines[l].length <= CHUNK_OVERLAP =>
                \E i \in 1..Len(chunks) : \A o \in 1..doc.lines[l].length : <<l, o>> \in Cells(i)

(* The next window starts the overlap before the end of the last one, and  *)
(* that may have been cut at a sentence: it starts later all the same, so  *)
(* that the loop comes to the end of the text (chunker.py:137-150,         *)
(* 215-228).                                                               *)
WindowsAdvance ==
    [][(phase \in {"windows", "types"} /\ phase' = phase /\ queue' = queue) => start' > start]_chunkVars

(* What a reader of the page's URL may read, whichever rows and whichever  *)
(* order the database chooses.                                             *)
Readings(stored) == UNION {Reconstruct(page) : page \in Fetches(stored)}

(* Crawling a page again adds chunks to those of before, which its reader  *)
(* reads together, and that may lower its score: variants that are told    *)
(* badly, or a shorter description that comes first.  As long as the       *)
(* reader fetches all the chunks, a crawl that is half stored, or failed,  *)
(* never costs him the title, the price, the availability or the brand he  *)
(* was told before; and he is told less of the rest only if the page has   *)
(* become less complete (ingestion.py:80-89, product_retriever.py:246-314, *)
(* entity_model.py:111-186, product_formatter.py:42-56).                   *)
RecrawlTellsTheCore ==
    [][Cardinality(rows') <= FetchLimit =>
           \A before \in Readings(rows), after \in Readings(rows') :
               /\ Format(before) \intersect Core \subseteq Format(after)
               /\ Score(before) <= Score(after) => Format(before) \subseteq Format(after)]_rows
=============================================================================
