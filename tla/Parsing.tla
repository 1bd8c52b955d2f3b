------------------------------ MODULE Parsing -------------------------------
(***************************************************************************)
(* What each parser makes of a file: blocks of text with a page and a      *)
(* section.  A file is a sequence of units in the order its format lists   *)
(* them (paragraphs, headings, table rows, lines of code, lines of an      *)
(* image); a unit's text is a sequence of symbols, each a letter "w", a    *)
(* place to break or the end "c" of a cell, and is known by its unit and   *)
(* position, so that it can be followed from the file to the chunks.       *)
(***************************************************************************)
EXTENDS Integers, Sequences, FiniteSets, SequencesExt

CONSTANTS
    MaxBlock,   \* symbols in a block that can still be cited (4000)
    MaxRows     \* rows read from a sheet (5000)

ASSUME ParsingAssumption == MaxBlock \in Nat \ {0} /\ MaxRows \in Nat

\* Paragraph, line and word break, the most natural first; the marks of
\* punctuation between the second and the third are left out.
Separators == <<"p", "n", "s">>

\* What a file is made of, as its parser lists it.
Units == [is : STRING, page : Nat \ {0}, text : Seq({"w", "c"} \union ToSet(Separators))]

None == 0                   \* no page, no section
Sheet(page) == 0 - page     \* the name of a sheet, a title that is no unit
Columns == Sheet(1)

\* What a parser writes between two cells of a row, or a name and its value.
Space == <<0, 1>>

\* Position 0 of a unit is the line break that joins it to the unit before it.
KindOf(file, symbol) ==
    IF symbol = Space THEN "s"
    ELSE IF symbol[2] = 0 THEN "n" ELSE file[symbol[1]].text[symbol[2]]
TextOf(file, u) == [k \in DOMAIN file[u].text |-> <<u, k>>]
Blank(file, text) == \A k \in DOMAIN text : KindOf(file, text[k]) # "w"
Visible(file, u) == ~Blank(file, TextOf(file, u))

Strip(file, text) ==
    LET letters == {k \in DOMAIN text : KindOf(file, text[k]) = "w"}
        first == CHOOSE k \in letters : \A l \in letters : k <= l
        last == CHOOSE k \in letters : \A l \in letters : l <= k
    IN IF letters = {} THEN <<>> ELSE SubSeq(text, first, last)

Least(m, n) == IF m < n THEN m ELSE n
Cut(text) == SubSeq(text, 1, Least(Len(text), MaxBlock))

\* Cut after some of its places, which the part before each keeps; the last
\* part may be empty.
CutAfter(text, ends) ==
    LET count == Cardinality(ends)
        End(i) == CHOOSE k \in ends : Cardinality({l \in ends : l <= k}) = i
        From(i) == IF i = 1 THEN 1 ELSE End(i - 1) + 1
    IN [i \in 1..(count + 1) |-> SubSeq(text, From(i), IF i > count THEN Len(text) ELSE End(i))]

\* Full pieces only.
FullSlices(text, n) == [i \in 1..(Len(text) \div n) |-> SubSeq(text, (i - 1) * n + 1, i * n)]

\* Pieces of at most n symbols, the last one shorter.
Slices(text, n) ==
    [i \in 1..((Len(text) + n - 1) \div n) |->
        SubSeq(text, (i - 1) * n + 1, Least(i * n, Len(text)))]

Block(text, page, section) == [text |-> text, page |-> page, section |-> section]

\* One block with the head of a long text, or as many as it takes.
Truncated(file, u, page, section) ==
    IF Visible(file, u) THEN <<Block(Cut(Strip(file, TextOf(file, u))), page, section)>> ELSE <<>>
SplitUp(file, u, page, section) ==
    LET slices == Slices(Strip(file, TextOf(file, u)), MaxBlock)
    IN [i \in DOMAIN slices |-> Block(slices[i], page, section)]
Whole(file, u, page, section) ==
    IF Visible(file, u) THEN <<Block(Strip(file, TextOf(file, u)), page, section)>> ELSE <<>>

Each(file, BlocksOf(_)) == FlattenSeq([u \in DOMAIN file |-> BlocksOf(u)])

\* The nearest heading at or above a unit.
SectionAt(file, u) ==
    LET above == {h \in 1..u : file[h].is = "heading" /\ Visible(file, h)}
    IN IF above = {} THEN None ELSE CHOOSE h \in above : \A g \in above : g <= h

\* The first unit of some kinds on a page, unless it is blank.
TitleOf(file, page, kinds) ==
    LET titles == {h \in DOMAIN file : file[h].is \in kinds /\ file[h].page = page}
        first == CHOOSE h \in titles : \A g \in titles : h <= g
    IN IF titles = {} THEN None ELSE IF Visible(file, first) THEN first ELSE None

-----------------------------------------------------------------------------

PlainTextParser(file) == Each(file, LAMBDA u : SplitUp(file, u, None, None))

\* Fonts, styles and pictures are left out before the text is split.
RtfParser(file) ==
    Each(file, LAMBDA u : IF file[u].is = "destination" THEN <<>>
                          ELSE SplitUp(file, u, None, None))

\* A page that cannot be read is left out.
PdfParser(file) ==
    Each(file, LAMBDA u : IF file[u].is = "damaged" THEN <<>>
                          ELSE SplitUp(file, u, file[u].page, None))

\* A heading stays whole; what looks like one in a fence is text.
MarkdownParser(file) ==
    Each(file, LAMBDA u : IF file[u].is = "heading" THEN Whole(file, u, None, u)
                          ELSE SplitUp(file, u, None, SectionAt(file, u)))

\* Text outside the tags that are looked at counts only when there is no other.
HtmlParser(file) ==
    LET tagged == Each(file, LAMBDA u :
            IF file[u].is = "heading" THEN Whole(file, u, None, u)
            ELSE IF file[u].is = "paragraph" THEN Truncated(file, u, None, SectionAt(file, u))
            ELSE <<>>)
    IN IF tagged # <<>> THEN tagged
       ELSE Each(file, LAMBDA u : IF file[u].is = "loose" THEN SplitUp(file, u, None, None) ELSE <<>>)

\* All paragraphs, then all rows of all tables, under the last heading; text
\* in boxes, headers and footers is neither.
DocxParser(file) ==
    Each(file, LAMBDA u :
            IF file[u].is = "heading" THEN Whole(file, u, None, u)
            ELSE IF file[u].is \in {"row", "unread"} THEN <<>>
            ELSE Truncated(file, u, None, SectionAt(file, u)))
    \o Each(file, LAMBDA u :
            IF file[u].is = "row" THEN Whole(file, u, None, SectionAt(file, Len(file))) ELSE <<>>)

OdtParser(file) ==
    Each(file, LAMBDA u : IF file[u].is = "heading" THEN Whole(file, u, None, u)
                          ELSE Truncated(file, u, None, SectionAt(file, u)))

SlideTitle(file, page) == TitleOf(file, page, {"heading"})
ChapterTitle(file, page) == TitleOf(file, page, {"heading", "title"})

\* Shapes of a slide that have a text frame, its notes last, under the title
\* of the slide.
PptxParser(file) ==
    Each(file, LAMBDA u :
            IF file[u].is = "unread" THEN <<>>
            ELSE Truncated(file, u, file[u].page, SlideTitle(file, file[u].page)))

\* Chapters in reading order: the text in the tags that are looked at, under
\* the chapter's first heading or title.
EpubParser(file) ==
    Each(file, LAMBDA u :
            IF file[u].is \in {"unread", "title"} THEN <<>>
            ELSE Truncated(file, u, file[u].page, ChapterTitle(file, file[u].page)))

\* The cells of a row, each without the space around it.
Cells(file, u) ==
    LET text == TextOf(file, u)
        parts == CutAfter(text, {k \in DOMAIN text : KindOf(file, text[k]) = "c"})
    IN IF text = <<>> THEN <<>> ELSE [i \in DOMAIN parts |-> Strip(file, parts[i])]

\* The texts that are not empty in one line, with a space between any two.
Spaced(file, texts) ==
    Strip(file, FlattenSeq([i \in DOMAIN texts |->
                              IF texts[i] = <<>> THEN <<>> ELSE <<Space>> \o texts[i]]))

\* A header: the names of its columns.
Columned(file, u) == Spaced(file, Cells(file, u))

\* A row: each cell with something in it after the name of its column.  Cells
\* beyond the header are left out and, where a name is asked for, those under
\* a column without one.
Paired(file, header, u, named) ==
    LET names == Cells(file, header)
        values == Cells(file, u)
        Named(i) == i \in DOMAIN names /\ (named => names[i] # <<>>)
    IN Spaced(file, [i \in DOMAIN values |->
                       IF values[i] # <<>> /\ Named(i) THEN names[i] \o <<Space>> \o values[i]
                       ELSE <<>>])

IfAny(text, page, section) == IF text = <<>> THEN <<>> ELSE <<Block(text, page, section)>>

\* How many rows with something in them a sheet has up to this one.
RowNumber(file, u) ==
    Cardinality({v \in 1..u : file[v].page = file[u].page /\ Visible(file, v)})

\* The first of them, which names the columns.
Header(file, page) ==
    LET rows == {h \in DOMAIN file : file[h].page = page /\ Visible(file, h)}
    IN CHOOSE h \in rows : \A g \in rows : h <= g

\* The header stays whole.
XlsxParser(file) ==
    Each(file, LAMBDA u :
            LET sheet == file[u].page
                header == Header(file, sheet)
            IN IF ~Visible(file, u) \/ RowNumber(file, u) > MaxRows + 1 THEN <<>>
               ELSE IF u = header THEN IfAny(Columned(file, u), sheet, Sheet(sheet))
               ELSE IfAny(Cut(Paired(file, header, u, TRUE)), sheet, Sheet(sheet)))

\* Empty rows count, and the first names the columns whatever is in it.
DelimitedTextParser(file) ==
    Each(file, LAMBDA u : IF u = 1 THEN IfAny(Columned(file, u), None, Columns)
                          ELSE IF u > MaxRows + 1 THEN <<>>
                          ELSE IfAny(Paired(file, 1, u, FALSE), None, None))

Reading == [blocks |-> <<>>, buffer |-> <<>>, definition |-> None]

Lines(buffer, file) ==
    FlattenSeq([n \in DOMAIN buffer |->
                  (IF n = 1 THEN <<>> ELSE << <<buffer[n], 0>> >>) \o TextOf(file, buffer[n])])

FlushCode(file, reading) ==
    LET body == Strip(file, Lines(reading.buffer, file))
    IN [reading EXCEPT !.buffer = <<>>,
          !.blocks = IF body = <<>> THEN @ ELSE Append(@, Block(Cut(body), None, reading.definition))]

Letters(file, buffer) == FoldLeft(LAMBDA sum, u : sum + Len(file[u].text), 0, buffer)

\* A definition starts a block, and so does a line after too long a buffer; a
\* block that has become too long is cut.
CodeParser(file) ==
    LET Read(reading, u) ==
            LET begun == IF file[u].is = "definition"
                         THEN [FlushCode(file, reading) EXCEPT !.definition = u] ELSE reading
                more == [begun EXCEPT !.buffer = Append(@, u)]
            IN IF Letters(file, more.buffer) > MaxBlock THEN FlushCode(file, more) ELSE more
    IN FlushCode(file, FoldLeft(Read, Reading, [u \in DOMAIN file |-> u])).blocks

\* Lines of the words that were recognised with some confidence.
ImageParser(file) ==
    Each(file, LAMBDA u : IF file[u].is = "faint" THEN <<>> ELSE Whole(file, u, 1, None))

Formats == {"text", "rtf", "pdf", "markdown", "html", "docx", "odt", "pptx", "epub",
            "xlsx", "csv", "code", "image"}

\* The parser that claims the format.
Parsed(format, file) ==
    CASE format = "text" -> PlainTextParser(file)
      [] format = "rtf" -> RtfParser(file)
      [] format = "pdf" -> PdfParser(file)
      [] format = "markdown" -> MarkdownParser(file)
      [] format = "html" -> HtmlParser(file)
      [] format = "docx" -> DocxParser(file)
      [] format = "odt" -> OdtParser(file)
      [] format = "pptx" -> PptxParser(file)
      [] format = "epub" -> EpubParser(file)
      [] format = "xlsx" -> XlsxParser(file)
      [] format = "csv" -> DelimitedTextParser(file)
      [] format = "code" -> CodeParser(file)
      [] format = "image" -> ImageParser(file)

\* Rows beyond the limit, and pages without text, are warned of.
Warned(format, file) ==
    CASE format = "pdf" -> \E u \in DOMAIN file : file[u].is = "damaged" \/ ~Visible(file, u)
      [] format = "csv" -> Len(file) > MaxRows + 1
      [] format = "xlsx" -> \E u \in DOMAIN file : Visible(file, u) /\ RowNumber(file, u) > MaxRows + 1
      [] format = "image" -> ImageParser(file) = <<>>
      [] OTHER -> FALSE

=============================================================================
