------------------------------ MODULE Parsers ------------------------------
(***************************************************************************)
(* The parsers of the ingestion package: from the elements of a document   *)
(* to ParsedContent, the lines of a body with the headings and the blocks  *)
(* (code, tables, list items) found in it.                                 *)
(*                                                                         *)
(* A line or element is what the scanners tell apart:                      *)
(*   text, indent, blank    - plain, indented and empty lines              *)
(*   fence, ifence          - ```, at the margin or indented               *)
(*   item, nested           - a bullet, at the margin or indented          *)
(*   marked                 - indented, with a bullet's mark, but no item  *)
(*   row, sep, pipe         - | a |, |---| and a line with | further right *)
(*   head, loose            - # name, as many # as its level, with one     *)
(*                            space after them or with other white space   *)
(*   note                   - indented, and # name otherwise               *)
(*   def                    - the class or def line of a program           *)
(* and, before conversion, p, pre, table and li of HTML, and the styled    *)
(* (code style) and table elements of DOCX. The text of a heading is a     *)
(* sequence of words. width counts a line's characters with its line end,  *)
(* eol those of the line end: 1 for LF, 2 for CRLF. An indentation is one  *)
(* character. Titles and metadata are left out.                            *)
(***************************************************************************)
EXTENDS Integers, Sequences, FiniteSets, SequencesExt

Line(kind, width) == [kind |-> kind, width |-> width, eol |-> 1, level |-> 0, name |-> <<>>]
Heading(level, name, width) ==
    [kind |-> "head", width |-> width, eol |-> 1, level |-> level, name |-> name]

\* The line with a line end of one character.
LF(line) == [line EXCEPT !.width = @ - line.eol + 1, !.eol = 1]

Blank == Line("blank", 1)
Fence == Line("fence", 4)

Kinds ==
    {"text", "indent", "blank", "fence", "ifence", "item", "nested", "marked", "row", "sep", "pipe",
     "head", "loose", "note", "def", "p", "pre", "table", "li", "styled"}
Fences == {"fence", "ifence"}
Heads == {"head", "loose"}
Indented == {"indent", "ifence", "nested", "marked", "note"}

\* What lines can be: all but blank ones show a character, after the indentation and before the
\* line end.
Lines ==
    {l \in [kind : Kinds, width : Nat, eol : {1, 2}, level : Nat, name : Seq(STRING)] :
        /\ l.width >= l.eol
        /\ l.kind = "blank" => l.width = l.eol
        /\ l.kind # "blank" => l.width >= l.eol + 1
        /\ l.kind \in Indented \cup {"p"} => l.width >= l.eol + 2
        /\ l.kind \in Heads \cup {"note"} => l.level >= 1}

\* The elements a parser is given: HTML has tags (a note is a p that reads # name), DOCX tables
\* that are not in its paragraphs. The lines of PDF, DOCX and EPUB are ended by the parser.
Elements(media_type) ==
    CASE media_type = "html" -> {e \in Lines : e.kind \in {"p", "note", "li", "pre", "table", "head"}}
      [] media_type = "docx" -> {e \in Lines : e.eol = 1} \cup {Line("table", 0)}
      [] media_type \in {"pdf", "epub"} -> {e \in Lines : e.eol = 1}
      [] OTHER               -> Lines

\* The numbers of a set in ascending order.
Ascending(S) == [k \in 1..Cardinality(S) |-> CHOOSE x \in S : Cardinality({y \in S : y < x}) = k - 1]

\* The lines whose numbers are in S.
Kept(lines, S) == LET at == Ascending(S) IN [n \in DOMAIN at |-> lines[at[n]]]

Is(lines, kinds, i) == i \in DOMAIN lines /\ lines[i].kind \in kinds

-----------------------------------------------------------------------------
\* Markdown.

\* extract_headings: in code blocks too.
extract_headings(body) ==
    LET heads == Kept(body, {i \in DOMAIN body : body[i].kind \in Heads})
    IN  [k \in DOMAIN heads |-> <<heads[k].level, heads[k].name>>]

\* The lines of the given kinds, paired: first with second, third with fourth.
Pairs(lines, kinds) ==
    LET at == Ascending({i \in DOMAIN lines : lines[i].kind \in kinds})
    IN  {<<at[2 * k - 1], at[2 * k]>> : k \in 1..(Len(at) \div 2)}

extract_code_blocks(body) == Pairs(body, {"fence"})

\* The last line of the run of lines that begin with | and hold line i.
PipeRunEnd(body, i) ==
    CHOOSE e \in i..Len(body) :
        /\ \A k \in i..e : Is(body, {"row", "sep"}, k)
        /\ ~Is(body, {"row", "sep"}, e + 1)

\* A header and a separator begin a table; the line after it is not looked at.
TableBegins(body, i) == Is(body, {"row", "sep", "pipe"}, i) /\ Is(body, {"sep"}, i + 1)

\* The tables that are found from line i on.
TablesFrom(body) ==
    LET from[i \in 1..(Len(body) + 2)] ==
            IF i > Len(body) THEN {}
            ELSE IF TableBegins(body, i)
                 THEN {<<i, PipeRunEnd(body, i + 1)>>} \cup from[PipeRunEnd(body, i + 1) + 2]
                 ELSE from[i + 1]
    IN  from

extract_tables(body) == TablesFrom(body)[1]

\* Variant: an item is its first line.
ItemEndAtOnce(body, i) == i

\* An item goes on over blank lines and over indented lines without a bullet's mark.
Continuing == {"blank", "indent", "ifence", "note"}

ItemEnd(body, i) ==
    CHOOSE e \in i..Len(body) :
        /\ \A k \in (i + 1)..e : Is(body, Continuing, k)
        /\ ~Is(body, Continuing, e + 1)

extract_list_items(body) ==
    {<<i, ItemEnd(body, i)>> : i \in {k \in DOMAIN body : Is(body, {"item", "nested"}, k)}}

\* Body and blocks of a format whose scanners are Markdown's.
Structured(body) ==
    [body |-> body, ended |-> TRUE, headings |-> extract_headings(body),
     code_blocks |-> extract_code_blocks(body), tables |-> extract_tables(body),
     list_items |-> extract_list_items(body)]

Plain(body) ==
    [body |-> body, ended |-> TRUE, headings |-> <<>>,
     code_blocks |-> {}, tables |-> {}, list_items |-> {}]

TextParser(elements) == Plain(elements)
MarkdownParser(elements) == Structured(elements)

-----------------------------------------------------------------------------
\* HTML: normalize_to_markdown, and then the same scanners. A table has two rows. An element has
\* the line end that follows it in the file; what replaces all but paragraphs is between two \n.

HtmlLines(e) ==
    CASE e.kind = "p"     -> <<[e EXCEPT !.kind = "indent"]>>
      [] e.kind = "note"  -> <<e>>
      [] e.kind = "li"    -> <<Line("item", LF(e).width)>>
      [] e.kind = "pre"   -> <<Fence, Line("text", LF(e).width), Fence>>
      [] e.kind = "table" -> LET w == LF(e).width IN <<Line("row", w), Line("sep", w), Line("row", w)>>
      [] e.kind = "head"  -> <<LF(e)>>

\* The empty lines between two elements; three \n are cut to two.
Between(e, f) ==
    LET inline == {"p", "note"}
        after == <<[Blank EXCEPT !.width = e.eol, !.eol = e.eol]>>
    IN  CASE e.kind \in inline /\ f.kind \in inline -> <<>>
          [] e.kind \in inline /\ f.kind \notin inline -> <<Blank>>
          [] e.kind \notin inline /\ (f.kind \in inline \/ e.eol = 1) -> after
          [] e.kind \notin inline /\ f.kind \notin inline /\ e.eol # 1 -> after \o <<Blank>>

\* The blank that a stripped tag leaves goes at the beginning of the body.
Unindented(body) ==
    LET at_margin(line, kind) == [line EXCEPT !.kind = kind, !.width = line.width - 1]
    IN  [body EXCEPT ![1] = IF @.kind = "indent" THEN at_margin(@, "text")
                            ELSE IF @.kind = "note" THEN at_margin(@, "head")
                            ELSE @]

normalize_to_markdown(elements) ==
    LET gap(n) == IF n = 1 THEN <<>> ELSE Between(elements[n - 1], elements[n])
        lines == FlattenSeq([n \in DOMAIN elements |-> gap(n) \o HtmlLines(elements[n])])
    IN  IF elements = <<>> THEN <<>> ELSE Unindented(lines)

\* The body is stripped: no line end at its end.
HtmlParser(elements) == [Structured(normalize_to_markdown(elements)) EXCEPT !.ended = FALSE]

-----------------------------------------------------------------------------
\* PDF: fences and the lines between them do not reach the body.

FencesUpTo(lines, i) == Cardinality({k \in 1..i : lines[k].kind \in Fences})

KeptBefore(lines, i) ==
    Cardinality({k \in 1..(i - 1) : lines[k].kind \notin Fences /\ FencesUpTo(lines, k) % 2 = 0})

PdfParser(elements) ==
    LET kept == {k \in DOMAIN elements : /\ elements[k].kind \notin Fences
                                         /\ FencesUpTo(elements, k) % 2 = 0}
    IN  [Plain(Kept(elements, kept)) EXCEPT
            !.code_blocks = {<<KeptBefore(elements, p[1]) + 1, KeptBefore(elements, p[2]) + 1>> :
                             p \in Pairs(elements, Fences)}]

-----------------------------------------------------------------------------
\* DOCX: only paragraphs reach the body; blocks count paragraphs, not lines.

Paragraphs(elements) == Kept(elements, {i \in DOMAIN elements : elements[i].kind # "table"})

\* A paragraph styled as code becomes three lines unless it is between fences.
DocxLines(paras, i) ==
    IF paras[i].kind # "styled" THEN <<paras[i]>>
    ELSE IF FencesUpTo(paras, i) % 2 = 1 THEN <<Line("text", paras[i].width)>>
    ELSE <<Fence, Line("text", paras[i].width), Fence>>

DocxParser(elements) ==
    LET paras == Paragraphs(elements)
        rows == Len(elements) - Len(paras)
    IN  [Plain(FlattenSeq([i \in DOMAIN paras |-> DocxLines(paras, i)])) EXCEPT
            !.code_blocks = Pairs(paras, Fences),
            !.tables = IF rows > 0 THEN {<<0, rows>>} ELSE {}]

-----------------------------------------------------------------------------
\* EPUB: stripping tags and white space leaves one line of every chapter.

EpubParser(elements) ==
    LET lines == Kept(elements, {i \in DOMAIN elements : elements[i].kind # "blank"})
    IN  [Plain(lines) EXCEPT !.headings = extract_headings(lines),
                             !.code_blocks = Pairs(lines, {"fence"})]

-----------------------------------------------------------------------------
\* Python and TypeScript: a definition is a heading whose level is its line.

extract_headings_from_code(lines) ==
    LET at == Ascending({i \in DOMAIN lines : lines[i].kind = "def"})
    IN  [k \in DOMAIN at |-> <<at[k], lines[at[k]].name>>]

PyParser(elements) == [Plain(elements) EXCEPT
                           !.headings = extract_headings_from_code(elements),
                           !.code_blocks = Pairs(elements, Fences)]

TsParser(elements) == PyParser(elements)

-----------------------------------------------------------------------------
\* A document: its media type, its elements and what is wrong with its bytes.

Faults == {"none", "corrupt", "encrypted"}

Empty(content) == \A i \in DOMAIN content.body : content.body[i].kind = "blank"

\* ParserRegistry.get_with_reason, then parse: the content, ...
ParsedContent(doc) ==
    CASE doc.media_type = "text"     -> TextParser(doc.elements)
      [] doc.media_type = "markdown" -> MarkdownParser(doc.elements)
      [] doc.media_type = "html"     -> HtmlParser(doc.elements)
      [] doc.media_type = "pdf"      -> PdfParser(doc.elements)
      [] doc.media_type = "docx"     -> DocxParser(doc.elements)
      [] doc.media_type = "epub"     -> EpubParser(doc.elements)
      [] doc.media_type = "python"   -> PyParser(doc.elements)
      [] doc.media_type = "ts"       -> TsParser(doc.elements)
      [] OTHER                       -> Plain(<<>>)

\* ... or the reason of the UnsupportedFormatError it raises.
Registered == {"text", "markdown", "html", "pdf", "docx", "epub", "python", "ts"}

Raises(doc, reason) ==
    \/ reason = "unsupported_media_type" /\ doc.media_type \notin Registered
    \/ /\ doc.fault = "corrupt"
       /\ \/ reason = "parse_error" /\ doc.media_type = "pdf"
          \/ reason = "docx_parse_error" /\ doc.media_type = "docx"
          \/ reason = "epub_parse_error" /\ doc.media_type = "epub"
    \/ reason = "pdf_encrypted" /\ doc.media_type = "pdf" /\ doc.fault = "encrypted"
    \/ /\ reason = IF doc.media_type = "pdf" THEN "pdf_no_text_layer" ELSE "empty_content"
       /\ doc.media_type \in {"pdf", "docx", "epub"} /\ doc.fault = "none"
       /\ Empty(ParsedContent(doc))

UnsupportedReason ==
    {"unsupported_media_type", "pdf_encrypted", "pdf_no_text_layer", "docx_parse_error",
     "epub_parse_error", "empty_content", "parse_error"}
=============================================================================
