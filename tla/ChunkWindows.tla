---------------------------- MODULE ChunkWindows ----------------------------
(***************************************************************************)
(* Chunker._chunk_text: a window slides over the text of one section and   *)
(* is cut where protected blocks (code, tables, list items) begin or end.  *)
(*                                                                         *)
(* A text is its length and the positions of its white space, newlines and *)
(* the carriage returns before them among it. Positions count from 0, a    *)
(* range <<a, b>> holds the positions from a to b - 1.                     *)
(***************************************************************************)
EXTENDS Integers, Sequences, FiniteSets

CONSTANTS
    MaxTokens, OverlapTokens,   \* ChunkerConfig
    CharsPerToken               \* 1 / TOKENS_PER_CHAR, 4 in the code

ASSUME ChunkerConfig ==
    /\ MaxTokens \in Nat \ {0} /\ CharsPerToken \in Nat \ {0}
    /\ OverlapTokens \in 0..MaxTokens

estimated_chars == MaxTokens * CharsPerToken
overlap_chars == OverlapTokens * CharsPerToken

VARIABLES
    text,        \* [len, newlines, returns, blanks]
    protected,   \* the sorted list of protected ranges
    start, prev_end,
    windows,     \* the chunks so far: first position, end, end of what strip() leaves
    scan,        \* "idle", "scan" or "done"
    exact        \* history: some window ended exactly where a block it was in ends

windowVars == <<text, protected, start, prev_end, windows, scan, exact>>

NoEnd == -1      \* prev_end before the first chunk

Smaller(a, b) == IF a < b THEN a ELSE b
Larger(a, b) == IF a > b THEN a ELSE b

Visible(a, b) == {p \in a..(b - 1) : p \notin text.blanks}

Target == Smaller(start + estimated_chars, text.len)

-----------------------------------------------------------------------------
\* _find_safe_end

BeginsInside(r) == r[1] > start /\ r[1] < Target

HoldsStart(r) == r[1] <= start /\ start <= r[2] /\ r[2] > Target

EndsBeyond(r) == r[1] < Target /\ Target <= r[2]

Hit(r) == BeginsInside(r) \/ HoldsStart(r) \/ EndsBeyond(r)

FirstHit(i) ==
    /\ i \in DOMAIN protected
    /\ Hit(protected[i])
    /\ \A j \in 1..(i - 1) : ~Hit(protected[j])

SafeEnd(r) ==
    IF BeginsInside(r) THEN (IF r[1] = prev_end THEN r[2] ELSE r[1])
    ELSE IF HoldsStart(r) THEN r[2]
    ELSE r[1]

Blocked == \E i \in DOMAIN protected : FirstHit(i)
SafeOrTarget ==
    IF Blocked THEN SafeEnd(protected[CHOOSE i \in DOMAIN protected : FirstHit(i)]) ELSE Target

\* The end of the window that begins at start.
WindowEnd == IF SafeOrTarget <= start THEN Smaller(start + 1, text.len) ELSE SafeOrTarget

-----------------------------------------------------------------------------
\* The last visible character of a window, plus one.
ContentEnd(a, b) == CHOOSE p \in 1..b : p - 1 \in Visible(a, b) /\ Visible(p, b) = {}

\* Where the line that holds position p - 1 begins, ...
LineBegin(p) ==
    IF \A q \in 0..(p - 1) : q \notin text.newlines THEN 0
    ELSE (CHOOSE q \in text.newlines : q < p /\ \A s \in text.newlines : s < p => s <= q) + 1

\* ... and where line_to_char has it: it counts one character for every line end before.
LineStart(p) == LineBegin(p) - Cardinality({q \in text.returns : q < LineBegin(p)})

AfterLine(n, first) ==
    IF Len(windows) > 0
    THEN Larger(Larger(n, LineStart(windows[Len(windows)].last) + 1), first)
    ELSE Larger(n, first)

Inside(r, n) == r[1] < n /\ n < r[2]

\* A start inside a block moves to its end.
PastBlock(n) ==
    IF \E i \in DOMAIN protected : Inside(protected[i], n)
    THEN protected[CHOOSE i \in DOMAIN protected :
                      /\ Inside(protected[i], n)
                      /\ \A j \in 1..(i - 1) : ~Inside(protected[j], n)][2]
    ELSE n

\* Variant: the next window begins after the overlap instead of before it.
NextStartAhead(end) ==
    Smaller(PastBlock(AfterLine(end + overlap_chars, start + 1)), text.len)

NextStart(end) ==
    Smaller(PastBlock(AfterLine(end - overlap_chars, start + 1)), text.len)

-----------------------------------------------------------------------------
\* A text that fits is one chunk, a blank one none.
Open(t, ranges) ==
    /\ text' = t
    /\ protected' = ranges
    /\ start' = 0 /\ prev_end' = NoEnd /\ exact' = FALSE
    /\ LET blank == \A p \in 0..(t.len - 1) : p \in t.blanks
           fits == t.len \div CharsPerToken <= MaxTokens
       IN  /\ windows' = IF fits /\ ~blank THEN <<[from |-> 0, end |-> t.len, last |-> t.len]>>
                         ELSE <<>>
           /\ scan' = IF blank \/ fits THEN "done" ELSE "scan"

\* Variant: a blank window is tried again.
SkipBlankStays ==
    /\ scan = "scan" /\ start < text.len
    /\ Visible(start, WindowEnd) = {}
    /\ UNCHANGED windowVars

SkipBlank ==
    /\ scan = "scan" /\ start < text.len
    /\ Visible(start, WindowEnd) = {}
    /\ start' = Smaller(start + 1, text.len)
    /\ UNCHANGED <<text, protected, prev_end, windows, scan, exact>>

EmitWindow ==
    /\ scan = "scan" /\ start < text.len
    /\ Visible(start, WindowEnd) # {}
    /\ windows' = Append(windows, [from |-> start, end |-> WindowEnd,
                                   last |-> ContentEnd(start, WindowEnd)])
    /\ prev_end' = WindowEnd
    /\ exact' = (exact \/ \E i \in DOMAIN protected :
                              protected[i][1] <= start /\ protected[i][2] = Target)
    /\ IF WindowEnd >= text.len
       THEN scan' = "done" /\ start' = start
       ELSE scan' = "scan" /\ start' = NextStart(WindowEnd)
    /\ UNCHANGED <<text, protected>>

RunOut ==
    /\ scan = "scan" /\ start >= text.len
    /\ scan' = "done"
    /\ UNCHANGED <<text, protected, start, prev_end, windows, exact>>

Slide == SkipBlank \/ EmitWindow \/ RunOut

Texts ==
    {t \in [len : Nat, newlines : SUBSET Nat, returns : SUBSET Nat, blanks : SUBSET Nat] :
        t.newlines \cup t.returns \subseteq t.blanks}
RangesOf(t) == {r \in Seq((0..t.len) \X (0..t.len)) : \A i \in DOMAIN r : r[i][1] < r[i][2]}

InitIdle ==
    /\ text = [len |-> 0, newlines |-> {}, returns |-> {}, blanks |-> {}] /\ protected = <<>>
    /\ start = 0 /\ prev_end = NoEnd /\ windows = <<>> /\ scan = "idle" /\ exact = FALSE

WindowNext ==
    \/ scan # "scan" /\ \E t \in Texts : \E ranges \in RangesOf(t) : Open(t, ranges)
    \/ Slide

\* The chunker run over any sections whatever, with any protected ranges.
WindowSpec == InitIdle /\ [][WindowNext]_windowVars

-----------------------------------------------------------------------------
\* The blocks follow one another: none lies in another.
Separate == \A i, j \in DOMAIN protected : i < j => protected[i][2] <= protected[j][1]

Covered(p) == \E k \in DOMAIN windows : windows[k].from <= p /\ p < windows[k].end

(***************************************************************************)
(* No visible character of a section is lost between chunks, whatever the  *)
(* overlap and wherever the blocks are, as long as blocks are not nested   *)
(* and none ends exactly at the end of a window that begins in it.         *)
(***************************************************************************)
TextIsKept ==
    (scan = "done" /\ Separate /\ ~exact) => \A p \in Visible(0, text.len) : Covered(p)

-----------------------------------------------------------------------------
\* Why nothing is lost: what lies before start is kept, and the window that ends at e leaves
\* no block half done, so that a start moved to the end of a block skips only what is kept.

WindowTypeOK ==
    /\ text \in Texts /\ protected \in RangesOf(text)
    /\ start \in 0..text.len /\ prev_end \in Int
    /\ windows \in Seq([from : Nat, end : Nat, last : Nat])
    /\ scan \in {"idle", "scan", "done"} /\ exact \in BOOLEAN

WindowsAreBehind ==
    scan = "scan" => \A k \in DOMAIN windows :
        /\ windows[k].from <= start
        /\ windows[k].from < windows[k].last /\ windows[k].last <= windows[k].end
        /\ windows[k].last - 1 \notin text.blanks

NoBlockIsCut ==
    (scan = "scan" /\ Separate /\ ~exact) =>
        \A k \in DOMAIN windows : \A i \in DOMAIN protected : ~Inside(protected[i], windows[k].end)

BehindIsKept ==
    (scan = "scan" /\ Separate /\ ~exact) => \A p \in Visible(0, start) : Covered(p)

\* strip() leaves every visible character of a window.
WindowsKeepContent ==
    \A k \in DOMAIN windows :
        /\ windows[k].end <= text.len
        /\ \A p \in Visible(windows[k].from, windows[k].end) : p < windows[k].last

\* The visible text of a block is in one window.
InWindow(r) == \E k \in DOMAIN windows : Visible(r[1], windows[k].from) = {} /\ r[2] <= windows[k].end

\* A block is in one window or nothing of it lies before start; in the end, it shows nothing.
BlocksAreKept ==
    (scan # "idle" /\ Separate /\ ~exact) =>
        \A i \in DOMAIN protected :
            LET b == protected[i]
            IN  InWindow(b) \/ Visible(b[1], IF scan = "scan" THEN Smaller(start, b[2]) ELSE b[2]) = {}

WindowIInv ==
    /\ WindowTypeOK /\ WindowsAreBehind /\ NoBlockIsCut /\ BehindIsKept /\ TextIsKept
    /\ WindowsKeepContent /\ BlocksAreKept
=============================================================================
