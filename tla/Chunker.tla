------------------------------ MODULE Chunker ------------------------------
(***************************************************************************)
(* A document is parsed, split at its headings and chunked section by      *)
(* section: ParserRegistry, Chunker._split_by_heading and, in              *)
(* ChunkWindows, _chunk_text.                                              *)
(***************************************************************************)
EXTENDS Parsers, ChunkWindows

CONSTANT Documents   \* the inputs: [media_type, elements, fault]

ASSUME DocumentsAreDocuments ==
    \A d \in Documents :
        d \in [media_type : STRING, elements : Seq(Elements(d.media_type)), fault : Faults]

VARIABLES
    doc,
    status,     \* "new", "chunking", "done", or why the document was rejected
    content,    \* ParsedContent
    sections,   \* the sections that are left
    current,    \* the section being chunked
    chunks

chunkerVars == <<doc, status, content, sections, current, chunks>>
vars == <<chunkerVars, windowVars>>

-----------------------------------------------------------------------------
\* How many characters the first n lines have, line ends included.
CharsOf(body) == LET upTo[n \in 0..Len(body)] == IF n = 0 THEN 0 ELSE upTo[n - 1] + body[n].width
                 IN  upTo

\* The character at which line i of the body begins; past the body, its length.
CharOf(body, i) == CharsOf(body)[i - 1]

\* line_to_char of a text that begins at line from: one character for every line end.
Counted(body) == [i \in DOMAIN body |-> LF(body[i])]
line_to_char(body, from, i) == CharOf(Counted(body), i) - CharOf(Counted(body), from)

\* _split_by_heading: a line, stripped, belongs to the first heading whose text it begins with.
IsHeading(line, h) ==
    line.kind \in {"head", "note"} /\ line.level = h[1] /\ IsPrefix(h[2], line.name)

Headed(c, i) == \E k \in DOMAIN c.headings : IsHeading(c.body[i], c.headings[k])
HeadingOf(c, i) ==
    c.headings[CHOOSE k \in DOMAIN c.headings :
                  /\ IsHeading(c.body[i], c.headings[k])
                  /\ \A j \in 1..(k - 1) : ~IsHeading(c.body[i], c.headings[j])]

\* Variant: only a heading of the very same level is replaced.
DescendSameLevel(path, h) ==
    Append(SubSeq(path, 1, Smaller(Len(path), h[1])), h[2])

\* The path is cut down to the level above the heading's.
Descend(path, h) == Append(SubSeq(path, 1, Smaller(Len(path), h[1] - 1)), h[2])

Section(path, from, to, stripped) == [path |-> path, from |-> from, to |-> to, stripped |-> stripped]

\* heading_path in the sections that begin at the given lines.
PathsOf(c, starts) ==
    LET path[k \in 0..Len(starts)] ==
            IF k = 0 THEN <<>>
            ELSE IF Headed(c, starts[k]) THEN Descend(path[k - 1], HeadingOf(c, starts[k]))
            ELSE path[k - 1]
    IN  path

split_by_heading(c) ==
    LET n == Len(c.body)
        starts == Ascending({i \in 1..n : i = 1 \/ Headed(c, i)})
        end(k) == IF k = Len(starts) THEN n ELSE starts[k + 1] - 1
    IN  IF c.headings = <<>> THEN <<Section(<<>>, 1, n, FALSE)>>
        ELSE [k \in DOMAIN starts |-> Section(PathsOf(c, starts)[k], starts[k], end(k), TRUE)]

\* The section's text: rstrip() drops blank lines and the last line end.
LastLine(c, s) ==
    IF s.stripped
    THEN CHOOSE i \in (s.from - 1)..s.to :
             /\ i = s.from - 1 \/ c.body[i].kind # "blank"
             /\ \A k \in (i + 1)..s.to : c.body[k].kind = "blank"
    ELSE s.to

TextOf(c, s) ==
    LET base == CharOf(c.body, s.from)
        last == LastLine(c, s)
        cut == IF last >= s.from /\ (s.stripped \/ ~c.ended) THEN c.body[last].eol ELSE 0
        len == CharOf(c.body, last + 1) - base - cut
        before(i, n) == CharOf(c.body, i + 1) - base - n
        ends == {p \in {before(i, 1) : i \in s.from..last} : p < len}
        returns == {p \in {before(i, 2) : i \in {k \in s.from..last : c.body[k].eol = 2}} : p < len}
        indents == {CharOf(c.body, i) - base :
                       i \in {k \in s.from..last : Is(c.body, Indented, k)}}
    IN  [len |-> len, newlines |-> ends, returns |-> returns, blanks |-> ends \cup returns \cup indents]

\* Ranges in the order of ranges.sort().
InOrder(S) ==
    LET before(r) == {q \in S : q[1] < r[1] \/ (q[1] = r[1] /\ q[2] < r[2])}
    IN  [k \in 1..Cardinality(S) |-> CHOOSE r \in S : Cardinality(before(r)) = k - 1]

(***************************************************************************)
(* _build_protected_ranges_char: the blocks that begin in the section, in  *)
(* characters as line_to_char counts them. A text that ends with a newline *)
(* has one line more by count, and a block that begins there (PDF) is      *)
(* taken to begin at character 0.                                          *)
(***************************************************************************)
ProtectedOf(c, s) ==
    LET last == LastLine(c, s)
        lines == last + IF s.stripped \/ ~c.ended THEN 0 ELSE 1
        blocks == {b \in c.code_blocks \cup c.tables \cup c.list_items :
                      b[1] >= s.from /\ b[1] <= lines}
        begin(b) == IF b[1] <= last THEN line_to_char(c.body, s.from, b[1]) ELSE 0
        end(b) == IF b[2] + 1 <= last THEN line_to_char(c.body, s.from, b[2] + 1) ELSE TextOf(c, s).len
    IN  InOrder({r \in {<<begin(b), end(b)>> : b \in blocks} : r[1] < r[2]})

-----------------------------------------------------------------------------
None == Section(<<>>, 1, 0, FALSE)

Init ==
    /\ doc \in Documents
    /\ status = "new" /\ content = Plain(<<>>) /\ sections = <<>> /\ current = None
    /\ chunks = <<>>
    /\ InitIdle

Reject(reason) ==
    /\ status = "new" /\ Raises(doc, reason)
    /\ status' = reason
    /\ UNCHANGED <<doc, content, sections, current, chunks, windowVars>>

Parse ==
    /\ status = "new" /\ \A r \in UnsupportedReason : ~Raises(doc, r)
    /\ content' = ParsedContent(doc)
    /\ sections' = split_by_heading(content')
    /\ status' = "chunking"
    /\ UNCHANGED <<doc, current, chunks, windowVars>>

\* Variant: lines are counted from the beginning of the section.
LineInSection(p) == 1 + Cardinality({q \in text.newlines : q < p})

\* Line numbers of the locators: newlines before the first and the last character.
LineAt(p) == current.from + Cardinality({q \in text.newlines : q < p})

\* The windows of a section become chunks with its path, in characters of the body.
Collected ==
    LET base == CharOf(content.body, current.from)
    IN  chunks \o [k \in DOMAIN windows |->
            [path |-> current.path, section |-> current.from,
             from |-> base + windows[k].from, end |-> base + windows[k].end,
             start_locator |-> LineAt(windows[k].from), end_locator |-> LineAt(windows[k].last)]]

NextSection ==
    /\ status = "chunking" /\ scan # "scan" /\ sections # <<>>
    /\ chunks' = Collected
    /\ current' = Head(sections) /\ sections' = Tail(sections)
    /\ Open(TextOf(content, Head(sections)), ProtectedOf(content, Head(sections)))
    /\ UNCHANGED <<doc, status, content>>

SlideWindow ==
    /\ Slide
    /\ UNCHANGED chunkerVars

Finish ==
    /\ status = "chunking" /\ scan # "scan" /\ sections = <<>>
    /\ chunks' = Collected
    /\ status' = "done"
    /\ UNCHANGED <<doc, content, sections, current, windowVars>>

Next ==
    \/ \E r \in UnsupportedReason : Reject(r)
    \/ Parse \/ NextSection \/ SlideWindow \/ Finish

Spec == Init /\ [][Next]_vars

\* A call of the parser and the chunker runs to its end.
FairSpec == Spec /\ WF_vars(Next)
-----------------------------------------------------------------------------
\* The lines of a body on which its headings are.
HeadLines(body) == {i \in DOMAIN body : body[i].kind \in Heads}

\* The headings above line s: those that no later one up to s replaces.
Above(body, s) ==
    {k \in HeadLines(body) :
        k <= s /\ \A j \in HeadLines(body) : k < j /\ j <= s => body[j].level > body[k].level}

\* They and their texts, outermost first.
Ancestors(body, s) == Ascending(Above(body, s))
Ancestry(body, s) == [n \in DOMAIN Ancestors(body, s) |-> body[Ancestors(body, s)[n]].name]

\* No level is skipped, one space follows the marks, no heading's text begins another's of its
\* level, and no indented line reads like a heading.
ProperHeadings(body) ==
    /\ \A i \in HeadLines(body) :
          LET before == {k \in HeadLines(body) : k < i}
          IN  IF before = {} THEN body[i].level = 1
              ELSE body[i].level <= body[CHOOSE k \in before : \A j \in before : j <= k].level + 1
    /\ \A i, j \in HeadLines(body) :
          body[i].level = body[j].level /\ IsPrefix(body[i].name, body[j].name) => body[i].name = body[j].name
    /\ \A i \in HeadLines(body) : body[i].kind # "loose"
    /\ \A i \in HeadLines(body), n \in {k \in DOMAIN body : body[k].kind = "note"} :
          ~(body[n].level = body[i].level /\ IsPrefix(body[i].name, body[n].name))

(***************************************************************************)
(* The heading_path of a chunk is the chain of headings above it, from the *)
(* outermost to its own, if the headings are proper. A line that begins    *)
(* with # is a heading, in fenced blocks too, as it is for the parser.     *)
(***************************************************************************)
HeadingPathIsAncestry ==
    (doc.media_type \in {"markdown", "html"} /\ ProperHeadings(content.body)) =>
        \A k \in DOMAIN chunks : chunks[k].path = Ancestry(content.body, chunks[k].section)

\* The visible characters of line i: after its indentation and before its line end.
FirstVisible(body, i) == CharOf(body, i) + IF Is(body, Indented, i) THEN 1 ELSE 0
LastVisible(body, i) == CharOf(body, i + 1) - body[i].eol - 1

\* What a chunk shows is on lines from its start to its end locator.
CoversText(body, chunk) ==
    \A i \in DOMAIN body :
        (\E p \in FirstVisible(body, i)..LastVisible(body, i) : chunk.from <= p /\ p < chunk.end)
            => chunk.start_locator <= i /\ i <= chunk.end_locator

(***************************************************************************)
(* Every visible character of a chunk is on a line between the lines its   *)
(* start and end locators name.                                            *)
(***************************************************************************)
LocatorsCoverText == \A k \in DOMAIN chunks : CoversText(content.body, chunks[k])

-----------------------------------------------------------------------------
\* Blocks as a reader of the body sees them.
FencedBlock(kinds, a, b) ==
    /\ a < b /\ Is(content.body, kinds, a) /\ Is(content.body, kinds, b)
    /\ \A k \in (a + 1)..(b - 1) : ~Is(content.body, kinds, k)
    /\ Cardinality({k \in 1..(a - 1) : Is(content.body, kinds, k)}) % 2 = 0

Table(a, b) ==
    /\ a < b /\ Is(content.body, {"row", "pipe"}, a) /\ Is(content.body, {"sep"}, a + 1)
    /\ ~Is(content.body, {"row", "sep"}, a - 1)
    /\ \A k \in (a + 1)..b : Is(content.body, {"row", "sep"}, k)

ListItem(a, b) ==
    /\ a <= b /\ Is(content.body, {"item", "nested"}, a)
    /\ \A k \in (a + 1)..b : Is(content.body, {"indent"}, k)

\* How far line_to_char is behind at the end of line b: the CRLF line ends of the section up to it.
Drift(b) == Cardinality({i \in current.from..b : content.body[i].eol = 2})

\* The visible text of lines a to b of the body is in one window of the current section, but for
\* the drift at its end.
InOneWindow(a, b) ==
    LET first == FirstVisible(content.body, a)
        last == Smaller(LastVisible(content.body, b), CharOf(content.body, b + 1) - Drift(b) - 1)
    IN  first <= last =>
            \E k \in DOMAIN windows :
                /\ CharOf(content.body, current.from) + windows[k].from <= first
                /\ last < CharOf(content.body, current.from) + windows[k].end

InSection(a, b) == current.from <= a /\ b <= current.to

SectionDone == status = "chunking" /\ scan = "done"

(***************************************************************************)
(* A fenced block, a table or a list item (with the indented lines below   *)
(* it) that has no heading in it is whole in one chunk, in the formats     *)
(* whose parsers find such blocks, as long as blocks are not nested and    *)
(* none ends exactly at the end of a window that begins in it. Where lines *)
(* end with CRLF its end may be cut off, but no more characters of it than *)
(* lines of the section up to there do.                                    *)
(***************************************************************************)
BlocksAreWhole ==
    (SectionDone /\ Separate /\ ~exact) =>
        \A a, b \in DOMAIN content.body :
            (InSection(a, b) /\ \/ doc.media_type \in {"markdown", "html", "epub"}
                                   /\ FencedBlock({"fence"}, a, b)
                                \/ doc.media_type \in {"python", "ts"} /\ FencedBlock(Fences, a, b)
                                \/ doc.media_type \in {"markdown", "html"}
                                   /\ (Table(a, b) \/ ListItem(a, b)))
                => InOneWindow(a, b)

(***************************************************************************)
(* A fenced code block of a Markdown document is not split: it is whole in *)
(* some chunk.                                                             *)
(***************************************************************************)
CodeBlocksPreserved ==
    (doc.media_type = "markdown" /\ status = "done") =>
        \A a, b \in DOMAIN content.body :
            FencedBlock({"fence"}, a, b) =>
                \E k \in DOMAIN chunks : /\ chunks[k].from <= CharOf(content.body, a)
                                         /\ CharOf(content.body, b + 1) - content.body[b].eol <= chunks[k].end

-----------------------------------------------------------------------------
\* Why this holds: the parsers keep to the types, the text and the ranges being chunked are those
\* of the current section, and a section carries the headings above it.

Contents ==
    [body : Seq(Lines), ended : BOOLEAN, headings : Seq(Nat \X Seq(STRING)),
     code_blocks : SUBSET (Nat \X Nat), tables : SUBSET (Nat \X Nat), list_items : SUBSET (Nat \X Nat)]

SectionsOf(c) ==
    {s \in [path : Seq(Seq(STRING)), from : Nat, to : Nat, stripped : BOOLEAN] :
        1 <= s.from /\ s.from <= s.to + 1 /\ s.to <= Len(c.body)}

Chunks ==
    [path : Seq(Seq(STRING)), section : Nat, from : Nat, end : Nat, start_locator : Nat, end_locator : Nat]

ChunkerTypeOK ==
    /\ doc \in Documents /\ content \in Contents
    /\ sections \in Seq(SectionsOf(content)) /\ current \in SectionsOf(content)

ContentIsParsed ==
    IF status \in {"chunking", "done"} THEN content = ParsedContent(doc)
    ELSE content = Plain(<<>>) /\ current = None /\ chunks = <<>> /\ scan = "idle"

TextIsCurrent ==
    IF scan = "idle" THEN windows = <<>>
    ELSE text = TextOf(content, current) /\ protected = ProtectedOf(content, current)

SectionsHaveAncestry ==
    (doc.media_type \in {"markdown", "html"} /\ ProperHeadings(content.body)) =>
        /\ \A k \in DOMAIN sections : sections[k].path = Ancestry(content.body, sections[k].from)
        /\ scan # "idle" => current.path = Ancestry(content.body, current.from)

ChunkerIInv ==
    /\ ChunkerTypeOK /\ ContentIsParsed /\ TextIsCurrent /\ WindowIInv /\ chunks \in Seq(Chunks)
    /\ SectionsHaveAncestry /\ HeadingPathIsAncestry /\ LocatorsCoverText

\* A document that is parsed is chunked to its end: the window always moves on.
ChunkingEnds == (status = "chunking") ~> (status = "done")
=============================================================================
