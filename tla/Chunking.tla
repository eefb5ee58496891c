------------------------------- MODULE Chunking -------------------------------
(***************************************************************************)
(* How a document is cut into the chunks that are embedded and retrieved:  *)
(* SemanticChunker.chunk_with_metadata (app/rag/chunker.py).  The text is  *)
(* cut into sections, sections that are too long into overlapping windows, *)
(* short neighbours are merged, and each chunk is cut again if it is too   *)
(* long for its type.  One action per iteration of each loop.              *)
(*                                                                         *)
(* A document is a sequence of lines, a text a sequence of cells.  A cell  *)
(* is a stretch of a line, the first of which has what the line is         *)
(* recognized by; the white space between cells takes no room.             *)
(***************************************************************************)
EXTENDS Integers, Sequences

CONSTANTS
    Documents,      \* see DocumentAssumption
    MAX_CHUNK_SIZE, CHUNK_OVERLAP,
    CHUNK_SIZE_BY_TYPE

Kinds == {"heading", "caps", "question", "answer", "row", "break", "spec", "plain"}
ChunkTypes == {"faq", "table", "product_spec", "documentation", "text"}

(* A line has its kind, the field of a product it gives, its cells         *)
(* 1..length and those a sentence ends in; a document may be the page of   *)
(* a shop's locations.  A window is longer than twice the overlap, and so  *)
(* the loop over windows advances.                                         *)
ASSUME DocumentAssumption ==
    \A d \in Documents :
        /\ d.atomic \in BOOLEAN
        /\ d.lines \in Seq([kind : Kinds, field : STRING, length : Nat \ {0}, ends : SUBSET Nat])

ASSUME SizeAssumption ==
    /\ MAX_CHUNK_SIZE \in Nat /\ CHUNK_OVERLAP \in Nat
    /\ CHUNK_SIZE_BY_TYPE \in [ChunkTypes -> Nat]
    /\ 2 * CHUNK_OVERLAP < MAX_CHUNK_SIZE
    /\ \A t \in ChunkTypes : 2 * CHUNK_OVERLAP < CHUNK_SIZE_BY_TYPE[t]

VARIABLES
    doc,        \* the document
    phase,      \* the loop the chunker is in
    line,       \* _split_into_sections: the line in hand
    current,    \* the section being made, then the buffer of merged chunks
    in_table, in_faq,
    queue,      \* the texts a loop has yet to go through
    start,      \* where the next window of the first of them starts
    pieces,     \* the texts the loop has made
    parent,     \* the index of the chunk that is cut by its type
    chunks      \* the result

section == <<line, in_table, in_faq>>
chunkVars == <<doc, phase, section, current, queue, start, pieces, parent, chunks>>

-----------------------------------------------------------------------------
Line(l) == [o \in 1..doc.lines[l].length |-> <<l, o>>]
Kind(c)  == doc.lines[c[1]].kind
Field(c) == doc.lines[c[1]].field

Text ==
    LET upTo[l \in 0..Len(doc.lines)] == IF l = 0 THEN <<>> ELSE upTo[l - 1] \o Line(l)
    IN  upTo[Len(doc.lines)]

Begins(c)       == c[2] = 1
EndsSentence(c) == c[2] \in doc.lines[c[1]].ends

Start(d) ==
    /\ doc = d
    /\ phase = "begin"
    /\ line = 1 /\ in_table = FALSE /\ in_faq = FALSE
    /\ current = <<>> /\ queue = <<>> /\ start = 0 /\ pieces = <<>>
    /\ parent = 0 /\ chunks = <<>>

ChunkInit == \E d \in Documents : Start(d)

(* A text that fits is cut no more here, nor is a page of locations that is *)
(* up to twice as long.                                                     *)
Fits(text) ==
    \/ Len(text) <= MAX_CHUNK_SIZE
    \/ doc.atomic /\ Len(text) <= 2 * MAX_CHUNK_SIZE

Begin ==
    /\ phase = "begin"
    /\ LET text == Text
       IN  IF text = <<>> THEN phase' = "done" /\ UNCHANGED queue
           ELSE IF Fits(text) THEN phase' = "types" /\ queue' = <<text>>
           ELSE phase' = "sections" /\ UNCHANGED queue
    /\ UNCHANGED <<doc, section, current, start, pieces, parent, chunks>>

-----------------------------------------------------------------------------
(* _split_into_sections *)
Push(section_) == IF section_ = <<>> THEN pieces ELSE Append(pieces, section_)

TableRow ==
    /\ doc.lines[line].kind = "row"
    /\ IF in_table THEN current' = current \o Line(line) /\ UNCHANGED pieces
       ELSE pieces' = Push(current) /\ current' = Line(line)
    /\ in_table' = TRUE
    /\ UNCHANGED in_faq

(* A line after a table finds nothing in the section it would join. *)
Open == IF in_table THEN <<>> ELSE current

Joins  == pieces' = (IF in_table THEN Push(current) ELSE pieces) /\ current' = Open \o Line(line)
Closes(next) == pieces' = Push(current) /\ current' = next

Question ==
    /\ doc.lines[line].kind = "question"
    /\ IF in_faq THEN Joins ELSE Closes(Line(line))
    /\ in_faq' = TRUE

Answer ==
    /\ doc.lines[line].kind = "answer" /\ in_faq
    /\ pieces' = Append(IF in_table THEN Push(current) ELSE pieces, Open \o Line(line))
    /\ current' = <<>>
    /\ in_faq' = FALSE

(* A section break is left out, unless a section starts with it. *)
OtherLine ==
    /\ doc.lines[line].kind \notin {"row", "question"}
    /\ ~(doc.lines[line].kind = "answer" /\ in_faq)
    /\ CASE Open # <<>> /\ doc.lines[line].kind \in {"heading", "caps"} -> Closes(Line(line))
         [] Open # <<>> /\ doc.lines[line].kind = "break" -> Closes(<<>>)
         [] OTHER -> Joins
    /\ in_faq' = FALSE

NextLine ==
    /\ phase = "sections" /\ line <= Len(doc.lines)
    /\ \/ TableRow
       \/ (Question \/ Answer \/ OtherLine) /\ in_table' = FALSE
    /\ line' = line + 1
    /\ UNCHANGED <<doc, phase, queue, start, parent, chunks>>

Sectioned ==
    /\ phase = "sections" /\ line > Len(doc.lines)
    /\ phase' = "windows"
    /\ queue' = Push(current) /\ current' = <<>> /\ pieces' = <<>>
    /\ UNCHANGED <<doc, section, start, parent, chunks>>

-----------------------------------------------------------------------------
(* _split_large_section and _split_large_section_with_size: the window of  *)
(* the first text from start on, cut after a sentence of its second half,  *)
(* and the start of the next one.                                          *)
Window(size) ==
    LET text == Head(queue)
        whole == SubSeq(text, start + 1, IF start + size < Len(text) THEN start + size ELSE Len(text))
        stops == {k \in 1..Len(whole) - 1 : EndsSentence(whole[k]) /\ k - 1 > size \div 2}
    IN  IF start + size < Len(text) /\ stops # {}
        THEN SubSeq(whole, 1, CHOOSE k \in stops : \A j \in stops : j <= k)
        ELSE whole

(* The end of a window that is not cut is start + size, past the text or not. *)
WindowEnd(size) ==
    IF start + size < Len(Head(queue)) THEN start + Len(Window(size)) ELSE start + size

Following_Apart(size) == WindowEnd(size)    \* mutant: the windows do not overlap

Following_Uncut(size) == start + size - CHUNK_OVERLAP    \* mutant: as if nothing had been cut off

Following_Deep(size) == WindowEnd(size) - (3 * size) \div 4    \* mutant: windows that overlap by three quarters

Following(size) == WindowEnd(size) - CHUNK_OVERLAP

Advance(size) ==
    IF Following(size) < Len(Head(queue))
    THEN start' = Following(size) /\ UNCHANGED queue
    ELSE start' = 0 /\ queue' = Tail(queue)

Cut ==
    /\ phase = "windows" /\ queue # <<>>
    /\ IF Len(Head(queue)) <= MAX_CHUNK_SIZE
       THEN pieces' = Append(pieces, Head(queue)) /\ queue' = Tail(queue) /\ UNCHANGED start
       ELSE pieces' = Append(pieces, Window(MAX_CHUNK_SIZE)) /\ Advance(MAX_CHUNK_SIZE)
    /\ UNCHANGED <<doc, phase, section, current, parent, chunks>>

AllCut ==
    /\ phase = "windows" /\ queue = <<>>
    /\ phase' = "merge"
    /\ queue' = pieces /\ pieces' = <<>>
    /\ UNCHANGED <<doc, section, current, start, parent, chunks>>

-----------------------------------------------------------------------------
(* _merge_small_chunks: one more character for the line between the two.   *)
Merge ==
    /\ phase = "merge" /\ queue # <<>>
    /\ IF Len(current) + Len(Head(queue)) + 1 <= MAX_CHUNK_SIZE \div 2
       THEN current' = current \o Head(queue) /\ UNCHANGED pieces
       ELSE Closes(Head(queue))
    /\ queue' = Tail(queue)
    /\ UNCHANGED <<doc, phase, section, start, parent, chunks>>

AllMerged ==
    /\ phase = "merge" /\ queue = <<>>
    /\ phase' = "types"
    /\ queue' = Push(current) /\ current' = <<>> /\ pieces' = <<>>
    /\ UNCHANGED <<doc, section, start, parent, chunks>>

-----------------------------------------------------------------------------
(* chunk_with_metadata *)
Shows(text, kinds) == \E k \in 1..Len(text) : Begins(text[k]) /\ Kind(text[k]) \in kinds

Type(text) ==    \* _detect_chunk_type
    CASE Begins(text[1]) /\ Kind(text[1]) = "question" -> "faq"
      [] Shows(text, {"row"})     -> "table"
      [] Shows(text, {"spec"})    -> "product_spec"
      [] Shows(text, {"heading"}) -> "documentation"
      [] OTHER -> "text"

Chunk(text) == [text |-> text, type |-> Type(Head(queue)), parent |-> parent]

Finish ==
    /\ phase = "types" /\ queue # <<>>
    /\ LET limit == CHUNK_SIZE_BY_TYPE[Type(Head(queue))]
       IN  IF Len(Head(queue)) > limit
           THEN chunks' = Append(chunks, Chunk(Window(limit))) /\ Advance(limit)
           ELSE chunks' = Append(chunks, Chunk(Head(queue))) /\ queue' = Tail(queue) /\ UNCHANGED start
    /\ parent' = IF queue' = queue THEN parent ELSE parent + 1
    /\ UNCHANGED <<doc, phase, section, current, pieces>>

Finished ==
    /\ phase = "types" /\ queue = <<>>
    /\ phase' = "done"
    /\ UNCHANGED <<doc, section, current, queue, start, pieces, parent, chunks>>

ChunkStep ==
    \/ Begin \/ NextLine \/ Sectioned \/ Cut \/ AllCut \/ Merge \/ AllMerged \/ Finish \/ Finished

ChunkSpec == ChunkInit /\ [][ChunkStep]_chunkVars
=============================================================================
