---------------------------- MODULE MCDocuments ----------------------------
(***************************************************************************)
(* From a document to the graph, for TLC: the chunker, and the extraction  *)
(* of entities and facts from a chunk.  What extraction sees of a chunk is *)
(* the model's answer to it, so the two share no state: a behaviour moves  *)
(* the one named by focus, chosen at the beginning.                        *)
(***************************************************************************)
EXTENDS Chunker, Extraction, TLC

CONSTANTS
    MaxElements,   \* the longest Markdown document; other formats get one more
    a, A, ab, z    \* names: a and A differ in case, ab is near to both, z to none

VARIABLE focus

-----------------------------------------------------------------------------
\* Documents of every format, over the kinds of element its parser tells apart.

SeqsUpTo(S, n) == UNION {[1..k -> S] : k \in 0..n}

Docs(media_type, alphabet, n, fault) ==
    {[media_type |-> media_type, elements |-> e, fault |-> fault] : e \in SeqsUpTo(alphabet, n)}

H1 == Heading(1, <<"a">>, 4)
H1b == Heading(1, <<"a", "b">>, 6)
H2 == Heading(2, <<"c">>, 5)
Def == [Heading(1, <<"d">>, 7) EXCEPT !.kind = "def"]
Note(level, name) == [Heading(level, name, 8) EXCEPT !.kind = "note"]
Loose == [H1 EXCEPT !.kind = "loose"]

\* The line with a line end of two characters.
CRLF(line) == [line EXCEPT !.width = @ + 1, !.eol = 2]
CRLFs(S) == {CRLF(line) : line \in S}

SampleDocuments ==
    Docs("markdown", {Line("text", 3), Line("text", 9), Blank, Fence, Line("item", 4), H1},
         MaxElements, "none")
    \cup Docs("markdown", {Line("text", 9), Fence, Line("row", 3), Line("sep", 4), H2},
              MaxElements, "none")
    \cup Docs("markdown", CRLFs({Line("text", 3), Line("text", 9), Fence, Line("item", 4),
                                 Line("indent", 4)}), MaxElements, "none")
    \cup Docs("markdown", CRLFs({Line("text", 9), Line("row", 3), Line("sep", 4), H1})
                          \cup {Line("item", 4)}, MaxElements, "none")
    \cup Docs("markdown", {H1, H1b, H2, Loose, Note(1, <<"a", "n">>)}, MaxElements, "none")
    \cup Docs("markdown", {Line("item", 4), Line("nested", 6), Line("marked", 5), Line("indent", 4), Blank},
              MaxElements, "none")
    \cup Docs("html", {Line("p", 4), Line("li", 4), Line("pre", 3), Line("table", 8), H1, H2,
                       Note(1, <<"a">>)}, 3, "none")
    \cup Docs("html", CRLFs({Line("p", 4), Line("li", 4), Line("pre", 9), H2}), 3, "none")
    \cup Docs("pdf", {Line("text", 3), Fence, Blank}, MaxElements + 1, "none")
    \cup Docs("docx", {Line("text", 3), Line("styled", 3), Fence, Line("table", 0)}, MaxElements, "none")
    \cup Docs("epub", {Line("text", 9), Fence, H1}, MaxElements, "none")
    \cup Docs("python", {Line("text", 3), Def, Heading(1, <<"d">>, 8), Note(1, <<"d">>), Fence,
                         Line("ifence", 5)}, 3, "none")
    \cup Docs("ts", {Line("text", 3), Def, Line("ifence", 5)}, 3, "none")
    \cup Docs("text", {Line("text", 3), CRLF(Line("text", 8)), Blank}, MaxElements, "none")
    \cup Docs("pdf", {Line("text", 3)}, 1, "corrupt") \cup Docs("pdf", {Line("text", 3)}, 1, "encrypted")
    \cup Docs("docx", {}, 0, "corrupt") \cup Docs("epub", {}, 0, "corrupt")
    \cup Docs("csv", {}, 0, "none")

-----------------------------------------------------------------------------
MCSimilarity ==
    LET alike(n, m) == CASE n = m -> 100
                         [] {n, m} = {a, A} -> 100
                         [] {n, m} \in {{a, ab}, {A, ab}} -> 75
                         [] OTHER -> 10
    IN  [n \in Names |-> [m \in Names |-> alike(n, m)]]

Mention(n, c) == [name |-> n, type |-> "Service", confidence |-> c]

MCExtractorOutputs ==
    {<<>>, <<Mention(ab, 90)>>, <<Mention(z, 90), Mention(a, 90)>>,
     <<Mention(a, 90), Mention(A, 90)>>, <<Mention(a, 20), Mention(z, 50), Mention(Unnamed, 90)>>}

MCFactOutputs ==
    {{}} \cup {{[subject |-> a, predicate |-> p, object |-> z, confidence |-> 50]} :
               p \in {"depends_on", "eats"}}

-----------------------------------------------------------------------------
MCInit ==
    /\ focus \in {"chunking", "extraction"}
    /\ Init /\ ExtractionInit
    /\ focus = "extraction" => doc.media_type = "csv"

MCNext ==
    /\ UNCHANGED focus
    /\ \/ focus = "chunking" /\ Next /\ UNCHANGED extractionVars
       \/ focus = "extraction" /\ ExtractionNext /\ UNCHANGED vars

MCSpec ==
    /\ MCInit /\ [][MCNext]_<<focus, vars, extractionVars>>
    /\ WF_<<focus, vars, extractionVars>>(focus = "chunking" /\ Next
                                         /\ UNCHANGED <<focus, extractionVars>>)
=============================================================================
