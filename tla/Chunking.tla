------------------------------ MODULE Chunking ------------------------------
(***************************************************************************)
(* From a file to the chunks that are indexed: the parser's blocks, packed *)
(* into chunks by RecursiveChunker.  The recursion that splits a long      *)
(* block is a stack of texts still to be split, each with its depth.       *)
(***************************************************************************)
EXTENDS Parsing

CONSTANTS
    Uploaded,       \* the files of each format
    ChunkSize,      \* symbols a chunk aims at (chunk_size_chars)
    Overlap,        \* symbols repeated between pieces (chunk_overlap_chars)
    MinChars,       \* length below which a chunk is dropped (chunk_min_chars)
    RecursionLimit  \* nested calls Python allows

ASSUME ChunkingAssumption ==
    /\ ChunkSize \in Nat /\ Overlap \in Nat /\ MinChars \in Nat
    /\ Overlap < ChunkSize
    /\ RecursionLimit > Len(Separators) + 1

\* A page of HTML is made of headings, paragraphs, loose text and what is never
\* read (scripts and styles), and an image is its own only page.
ASSUME UploadedAssumption ==
    \A is \in DOMAIN Uploaded :
        /\ is \in Formats
        /\ \A upload \in Uploaded[is] :
              /\ upload \in Seq(Units)
              /\ \A u \in DOMAIN upload :
                    /\ is = "html" => upload[u].is \in {"heading", "paragraph", "loose", "unread"}
                    /\ is = "image" => upload[u].page = 1

VARIABLES
    format, file,
    stage,          \* "file", "blocks", "splitting", "done", "unreadable" or "crashed"
    blocks,         \* blocks not looked at yet
    warned,         \* whether the parser warned of something left out
    pending,        \* blocks to be packed into the next chunk
    length,         \* what they add up to
    work,           \* texts to split, with the depth of the call for each
    pieces,         \* what they have been split into
    origin,         \* the block they came from
    chunks,         \* chunks so far
    dropped         \* chunks left out for being short

splitVars == <<work, pieces, origin>>
vars == <<format, file, stage, blocks, warned, pending, length, splitVars, chunks, dropped>>

NoBlock == Block(<<>>, None, None)

Init ==
    /\ format \in DOMAIN Uploaded
    /\ file \in Uploaded[format]
    /\ stage = "file"
    /\ blocks = <<>> /\ warned = FALSE
    /\ pending = <<>> /\ length = 0
    /\ work = <<>> /\ pieces = <<>> /\ origin = NoBlock
    /\ chunks = <<>> /\ dropped = <<>>

\* An image is read only where Tesseract is installed; the user is told.
ParseFile ==
    /\ stage = "file"
    /\ stage' = "blocks"
    /\ \E readable \in (IF format = "image" THEN BOOLEAN ELSE {TRUE}) :
          /\ blocks' = IF readable THEN Parsed(format, file) ELSE <<>>
          /\ warned' = (~readable \/ Warned(format, file))
    /\ UNCHANGED <<format, file, pending, length, splitVars, chunks, dropped>>

\* Whatever a library raises becomes one error about the document.
ParseRaises ==
    /\ stage = "file"
    /\ stage' = "unreadable"
    /\ UNCHANGED <<format, file, blocks, warned, pending, length, splitVars, chunks, dropped>>

-----------------------------------------------------------------------------
(* Packing                                                                 *)

\* A change of section alone ends a chunk.
SectionBreaks(previous, current) == previous.section # current.section

BreaksAnchor(previous, current) ==
    previous.page # current.page \/ previous.section # current.section

Break == <<0, 0>>           \* the blank line between two blocks

\* The title is put before the text unless it is in it.
Titled(section, text) ==
    /\ section # None
    /\ section < None \/ ~ \A k \in DOMAIN TextOf(file, section) :
                              \E l \in DOMAIN text : text[l] = TextOf(file, section)[k]
TitleLength(section) == IF section < None THEN 1 ELSE Len(file[section].text)

Chunk(text, head, ordinal) ==
    [text |-> text, page |-> head.page, section |-> head.section, ordinal |-> ordinal,
     titled |-> Titled(head.section, text)]

Size(chunk) == Len(chunk.text) + IF chunk.titled THEN TitleLength(chunk.section) + 2 ELSE 0

Stripped(block) == Strip(file, block.text)

\* Two symbols for the blank line between blocks.
Join(some) ==
    FlattenSeq([n \in DOMAIN some |->
                  (IF n = 1 THEN <<>> ELSE <<Break, Break>>) \o Stripped(some[n])])

Emitted == IF pending = <<>> THEN <<>> ELSE <<Chunk(Join(pending), pending[1], Len(chunks))>>

Current == blocks[1]
Text == Stripped(Current)
Reading_ == stage = "blocks" /\ blocks # <<>> /\ work = <<>> /\ pieces = <<>>
MustFlush ==
    \/ pending # <<>> /\ BreaksAnchor(pending[Len(pending)], Current)
    \/ Len(Text) > ChunkSize
    \/ length + Len(Text) + 2 > ChunkSize

SkipBlank ==
    /\ Reading_ /\ Text = <<>>
    /\ blocks' = Tail(blocks)
    /\ UNCHANGED <<format, file, stage, warned, pending, length, splitVars, chunks, dropped>>

\* A block that does not fit, or is elsewhere, flushes what is pending first;
\* one longer than a chunk is split by itself.
TakeBlock ==
    /\ Reading_ /\ Text # <<>>
    /\ LET before == IF MustFlush THEN <<>> ELSE pending
           sum == IF MustFlush THEN 0 ELSE length
       IN /\ chunks' = IF MustFlush THEN chunks \o Emitted ELSE chunks
          /\ \/ /\ Len(Text) <= ChunkSize
                /\ pending' = Append(before, Current)
                /\ length' = sum + Len(Text) + 2
                /\ stage' = "blocks"
                /\ UNCHANGED splitVars
             \/ /\ Len(Text) > ChunkSize
                /\ pending' = <<>> /\ length' = 0
                /\ work' = <<[text |-> Text, depth |-> 1]>>
                /\ origin' = Current
                /\ stage' = "splitting"
                /\ UNCHANGED pieces
    /\ blocks' = Tail(blocks)
    /\ UNCHANGED <<format, file, warned, dropped>>

-----------------------------------------------------------------------------
(* Splitting                                                               *)

Positions(text, separator) == {k \in DOMAIN text : KindOf(file, text[k]) = separator}

SplitKeepingSeparator(text, separator) == CutAfter(text, Positions(text, separator))

\* Parts are joined as long as they fit; a blank rest is left out.
GreedyPack(parts) ==
    LET Pack(bins, part) ==
            IF bins.current # <<>> /\ Len(bins.current) + Len(part) > ChunkSize
            THEN [packed |-> Append(bins.packed, bins.current), current |-> part]
            ELSE [bins EXCEPT !.current = @ \o part]
        bins == FoldLeft(Pack, [packed |-> <<>>, current |-> <<>>], parts)
    IN IF Blank(file, bins.current) THEN bins.packed ELSE Append(bins.packed, bins.current)

\* The most natural separator in the text, or 0.
BestSeparator(text) ==
    LET present == {i \in DOMAIN Separators : Positions(text, Separators[i]) # {}}
    IN IF present = {} THEN 0 ELSE CHOOSE i \in present : \A j \in present : i <= j

Called(texts, depth) == [n \in DOMAIN texts |-> [text |-> texts[n], depth |-> depth]]

\* One text of the stack: a piece if it fits, a hard cut if it has no
\* separator, and otherwise packed parts, of which the long ones are split by
\* a nested call.
SplitText ==
    LET text == work[1].text
        depth == work[1].depth
        best == BestSeparator(text)
        packed == GreedyPack(SplitKeepingSeparator(text, Separators[best]))
    IN /\ stage = "splitting" /\ work # <<>>
       /\ Len(text) <= ChunkSize \/ depth <= RecursionLimit
       /\ \/ /\ Len(text) <= ChunkSize
             /\ pieces' = Append(pieces, text)
             /\ work' = Tail(work)
          \/ /\ Len(text) > ChunkSize /\ best = 0
             /\ pieces' = pieces \o Slices(text, ChunkSize)
             /\ work' = Tail(work)
          \/ /\ Len(text) > ChunkSize /\ best # 0
             /\ work' = Called(packed, depth + 1) \o Tail(work)
             /\ UNCHANGED pieces
       /\ UNCHANGED <<format, file, stage, blocks, warned, pending, length, origin, chunks, dropped>>

\* RecursionError ends the run: nothing catches it.
SplitRaises ==
    /\ stage = "splitting" /\ work # <<>>
    /\ Len(work[1].text) > ChunkSize /\ work[1].depth > RecursionLimit
    /\ stage' = "crashed"
    /\ UNCHANGED <<format, file, blocks, warned, pending, length, splitVars, chunks, dropped>>

\* All of the piece.
WholePiece(text) == text

Ending(text) == SubSeq(text, IF Len(text) > Overlap THEN Len(text) - Overlap + 1 ELSE 1, Len(text))

\* Every piece after the first repeats the end of the piece before it.
Overlapped(n) == IF n = 1 THEN pieces[1] ELSE Ending(pieces[n - 1]) \o pieces[n]

EmitPieces ==
    /\ stage = "splitting" /\ work = <<>>
    /\ stage' = "blocks"
    /\ chunks' = chunks \o [n \in DOMAIN pieces |->
                              Chunk(Strip(file, Overlapped(n)), origin, Len(chunks) + n - 1)]
    /\ pieces' = <<>> /\ origin' = NoBlock
    /\ UNCHANGED <<format, file, blocks, warned, pending, length, work, dropped>>

\* The chunks of some set, in their order.
Kept(all, chosen) ==
    FoldLeft(LAMBDA kept, chunk : IF chunk \in chosen THEN Append(kept, chunk) ELSE kept,
             <<>>, all)

\* The last flush; then what is too short is left out.
Finish ==
    /\ stage = "blocks" /\ blocks = <<>>
    /\ stage' = "done"
    /\ LET all == chunks \o Emitted
           short == {chunk \in ToSet(all) : Size(chunk) < MinChars}
       IN /\ chunks' = Kept(all, ToSet(all) \ short)
          /\ dropped' = Kept(all, short)
    /\ pending' = <<>> /\ length' = 0
    /\ UNCHANGED <<format, file, blocks, warned, splitVars>>

Next ==
    \/ ParseFile \/ ParseRaises \/ SkipBlank \/ TakeBlock
    \/ SplitText \/ SplitRaises \/ EmitPieces \/ Finish

Spec == Init /\ [][Next]_vars

-----------------------------------------------------------------------------
(* Properties                                                              *)

SymbolsIn(some) == UNION {ToSet(some[n].text) : n \in DOMAIN some}
Letters_ == {s \in UNION {{<<u, k>> : k \in DOMAIN file[u].text} : u \in DOMAIN file} :
               KindOf(file, s) = "w"}

\* The row that names the columns of a row.
HeaderOf(u) == IF format = "csv" THEN 1 ELSE Header(file, file[u].page)

\* A letter is in a cell whose column the header has and, in a sheet, names.
InColumn(s) ==
    LET names == Cells(file, HeaderOf(s[1]))
        values == Cells(file, s[1])
    IN \E i \in DOMAIN values \intersect DOMAIN names :
          s \in ToSet(values[i]) /\ (format = "xlsx" => names[i] # <<>>)

\* Why a letter of a row may be missing: it is beyond the rows that are read,
\* in a cell under no column, or in a row of a sheet that is too long with the
\* names of its columns.
LeftOutOfRow(s) ==
    LET u == s[1]
    IN \/ ~InColumn(s)
       \/ format = "csv" /\ warned /\ u > MaxRows + 1
       \/ format = "xlsx" /\ warned /\ RowNumber(file, u) > MaxRows + 1
       \/ /\ format = "xlsx" /\ u # HeaderOf(u)
          /\ Len(Paired(file, HeaderOf(u), u, TRUE)) > MaxBlock

Cutting == {"html", "docx", "odt", "pptx", "epub"}

\* Why a letter may be missing: it is in a text longer than a block in a format
\* that cuts (code is cut with its line breaks), on a page or an image that was
\* warned of, in a part that a parser does not look at, or left out of a row.
LeftOut(s) ==
    LET u == s[1]
    IN \/ format \in Cutting /\ Len(file[u].text) > MaxBlock
       \/ format = "code" /\ Len(Lines([v \in DOMAIN file |-> v], file)) > MaxBlock
       \/ format = "pdf" /\ warned /\ file[u].is = "damaged"
       \/ format = "image" /\ warned
       \/ file[u].is \in {"destination", "loose", "faint", "unread"}
       \/ format = "epub" /\ file[u].is = "title"
       \/ format \in {"csv", "xlsx"} /\ LeftOutOfRow(s)

\* Text is not lost between the file and the index: a letter is in a chunk, or
\* in one dropped for being short, or was left out by the parser for a reason.
\* (A run that fails indexes nothing; the document says so or stays at work.)
TextSurvives ==
    stage = "done" =>
        \A s \in Letters_ : s \in SymbolsIn(chunks \o dropped) \/ LeftOut(s)

\* The title a reader would find above a unit.
TitleAbove(u) ==
    CASE format \in {"markdown", "html", "docx", "odt"} -> SectionAt(file, u)
      [] format = "pptx" -> SlideTitle(file, file[u].page)
      [] format = "epub" -> ChapterTitle(file, file[u].page)
      [] format = "xlsx" -> Sheet(file[u].page)
      [] format = "csv" -> IF u = 1 THEN Columns ELSE None
      [] format = "code" ->
            LET above == {d \in 1..u : file[d].is = "definition"}
            IN IF above = {} THEN None ELSE CHOOSE d \in above : \A e \in above : e <= d
      [] OTHER -> None

\* A citation is true of all the text under it: "A chunk never spans a page
\* break ... a change of section".  Only the rows of a Word table are cited
\* under the last heading of the document, loose text under none, and the names
\* of columns also with the values under them.
CitationsAreTrue ==
    \A n \in DOMAIN chunks : \A s \in ToSet(chunks[n].text) \intersect Letters_ :
        LET unit == file[s[1]]
        IN /\ chunks[n].page \in {None, unit.page}
           /\ \/ chunks[n].section = TitleAbove(s[1])
              \/ format = "docx" /\ unit.is = "row"
              \/ format = "html" /\ unit.is = "loose"
              \/ format = "csv" /\ s[1] = 1

\* A chunk as it is embedded is no longer than the window, what it repeats and
\* the title it is put under, and the chunks of a document are numbered in the
\* order of its text.
ChunksFitInOrder ==
    \A n \in DOMAIN chunks :
        /\ Size(chunks[n]) <= ChunkSize + Overlap
                              + IF chunks[n].titled THEN TitleLength(chunks[n].section) + 2 ELSE 0
        /\ \A l \in DOMAIN chunks : l < n => chunks[l].ordinal < chunks[n].ordinal

\* "Overlap is added after splitting, so the ceiling is size + overlap": the
\* text of a chunk, with its title, is no longer than that.
ChunksFitWindow == \A n \in DOMAIN chunks : Size(chunks[n]) <= ChunkSize + Overlap

\* "Each row becomes one block prefixed with its column names": a row of a
\* table of text that is not beyond the limit has some letter in the chunks.
RowsAreIndexed ==
    stage = "done" /\ format = "csv" =>
        \A u \in DOMAIN file :
            Visible(file, u) /\ u <= MaxRows + 1 =>
                \E s \in SymbolsIn(chunks \o dropped) \intersect Letters_ : s[1] = u

\* "split recursively at the most natural separator available, falling back to
\* a hard cut only when a single word exceeds the window": splitting ends, for
\* every text.
SplittingEnds == stage # "crashed"

=============================================================================
