------------------------------ MODULE XmlChunks ------------------------------
(***************************************************************************)
(* How one XML document of a knowledge base is cut into chunks: the walk   *)
(* of _xml_pieces over the rendered element tree, one iteration per step,  *)
(* and the generic splitter it falls back to.                              *)
(*                                                                         *)
(* A text is a sequence of characters; the ones of a line's own text are  *)
(* told apart by the line and their place in it, and a line's own text is  *)
(* one word: the splitter breaks between lines, then at indentations, then *)
(* anywhere.                                                               *)
(***************************************************************************)
EXTENDS Integers, Sequences, SequencesExt, FiniteSetsExt

CONSTANTS
    ChunkSizes,     \* values of chunk_size
    Lengths,        \* lengths of a line, without its indentation
    MaxLines,       \* bound: lines of a document
    MaxDepth,       \* bound: its depth
    HeaderLength    \* length of the parser's [XML: ...] line

ASSUME XmlChunksAssumption ==
    ChunkSizes \subseteq Nat \ {0} /\ Lengths \subseteq Nat \ {0} /\ MaxLines \in Nat \ {0}
    /\ MaxDepth \in Nat /\ HeaderLength \in Nat \ {0}

VARIABLES
    doc,        \* the body's lines: depth, length, and whether they open an element
    size,       \* chunk_size
    stack,      \* the open levels, innermost last
    ancestors,  \* the openers of the levels above the first, and which of them
    inPath,     \* were repeated above some chunk
    pieces,
    cutting     \* the walk has not ended

chunkVars == <<doc, size, stack, ancestors, inPath, pieces, cutting>>

Lines == 1 .. Len(doc)

Line(depths, elements) == [depth : depths, length : Lengths, element : elements]

\* What _render_xml_tree may write below the line l: an element one level below its
\* parent's line or at the depth of one that has ended, and the tail of one that has.
May(l) == Line(1 .. Min({MaxDepth, l.depth + (IF l.element THEN 1 ELSE 0)}), {TRUE})
          \cup Line(1 .. l.depth - (IF l.element THEN 0 ELSE 1), {FALSE})

\* Documents of n lines: one root, which no text follows.
Rendered(n) ==
    {d \in [1 .. n -> Line(0 .. MaxDepth, BOOLEAN)] :
        d[1].depth = 0 /\ d[1].element /\ \A k \in 2 .. n : d[k] \in May(d[k - 1])}

Documents == UNION {Rendered(n) : n \in 1 .. MaxLines}

----------------------------------------------------------------------------
(* Texts.                                                                  *)

Space == <<0, 1>>
NewLine == <<0, 2>>

LineOf(c) == c[1]

HasText(t) == \E k \in DOMAIN t : LineOf(t[k]) > 0

LineText(i) == [k \in 1 .. 2 * doc[i].depth |-> Space] \o [k \in 1 .. doc[i].length |-> <<i, k>>]

\* "\n".join(lines[start:end])
Body(start, end) ==
    FoldLeft(LAMBDA t, i : t \o <<NewLine>> \o LineText(i), LineText(start),
             [k \in 1 .. end - start - 1 |-> start + k])

\* split, with the separator put back at the end of the piece before it.
NextChar(parts, c, sep) ==
    LET longer == [parts EXCEPT ![Len(parts)] = Append(@, c)]
    IN IF c = sep THEN Append(longer, <<>>) ELSE longer

SplitAfter(t, sep) == FoldLeft(LAMBDA parts, c : NextChar(parts, c, sep), <<<<>>>>, t)

Ceiling(a, b) == (a + b - 1) \div b

\* The last resort: as few pieces as fit, as even as possible.
Balanced(t, limit) ==
    LET each == Ceiling(Len(t), Ceiling(Len(t), limit))
    IN [k \in 1 .. Ceiling(Len(t), each) |-> SubSeq(t, (k - 1) * each + 1, Min({k * each, Len(t)}))]

\* _pack_pieces: merge neighbours up to the limit.  What is too long by itself is left,
\* together with what was being merged, to be split again in its place.
NextPiece(acc, p, limit) ==
    IF Len(acc.current) + Len(p) <= limit THEN [acc EXCEPT !.current = @ \o p]
    ELSE IF Len(p) > limit THEN [out |-> Append(acc.out, acc.current \o p), current |-> <<>>]
    ELSE [out |-> IF acc.current = <<>> THEN acc.out ELSE Append(acc.out, acc.current), current |-> p]

Packed(parts, limit) ==
    LET packed == FoldLeft(LAMBDA acc, p : NextPiece(acc, p, limit), [out |-> <<>>, current |-> <<>>], parts)
    IN IF packed.current = <<>> THEN packed.out ELSE Append(packed.out, packed.current)

\* _recursive_split with the separators that can occur here: line ends, blanks, none.
SplitWords(t, limit) ==
    FoldLeft(LAMBDA out, p : out \o (IF Len(p) <= limit THEN <<p>> ELSE Balanced(p, limit)),
             <<>>, Packed(SplitAfter(t, Space), limit))

SplitLines(t, limit) ==
    FoldLeft(LAMBDA out, p : out \o (IF Len(p) <= limit THEN <<p>> ELSE SplitWords(p, limit)),
             <<>>, Packed(SplitAfter(t, NewLine), limit))

WithText(parts) == FoldLeft(LAMBDA out, p : IF HasText(p) THEN Append(out, p) ELSE out, <<>>, parts)

----------------------------------------------------------------------------
(* The walk.                                                               *)

\* One level: the lines directly and indirectly under one parent, where its next
\* section starts, and what is being merged.
Level(start, end) == [start |-> start, end |-> end, at |-> start, current |-> <<>>]

Top == Last(stack)

\* _xml_sections: an item directly under the parent opens a section, which runs to the
\* next one; a text line is an item of its own.
SectionEnd ==
    LET elements == {i \in Top.start .. Top.end - 1 : doc[i].element}
        level == Min({doc[i].depth : i \in elements})
    IN Min({Top.end} \cup {i \in Top.at + 1 .. Top.end - 1 : elements # {} /\ doc[i].depth = level})

SectionText == Body(Top.at, SectionEnd)

Half == size \div 2

\* _xml_path_prefix: the nearest ancestors, as many as fit in half a chunk.
Path(k) ==
    FoldLeft(LAMBDA t, i : t \o LineText(i) \o <<NewLine>>, <<>>,
             SubSeq(ancestors, Len(ancestors) - k + 1, Len(ancestors)))

KeptAbove == Max({k \in 0 .. Len(ancestors) : Len(Path(k)) <= Half})

Prefix == Path(KeptAbove)

Budget == size - Len(Prefix)

Heading == IF ancestors = <<>> THEN 0 ELSE Last(ancestors)

\* cut: pieces with the path above them, which has then been repeated.
PiecesWith(bodies) == pieces \o [k \in DOMAIN bodies |-> [text |-> Prefix \o bodies[k], heading |-> Heading]]

Marked(bodies) ==
    [k \in DOMAIN inPath |-> inPath[k] \/ (bodies # <<>> /\ k > Len(inPath) - KeptAbove)]

Cut(bodies) == pieces' = PiecesWith(bodies) /\ inPath' = Marked(bodies)

\* What was being merged, if anything.
Merged(level) == IF level.current = <<>> THEN <<>> ELSE <<level.current>>

ChunkInit ==
    /\ doc \in Documents /\ size \in ChunkSizes
    /\ stack = <<Level(1, Len(doc) + 1)>> /\ ancestors = <<>> /\ inPath = <<>> /\ pieces = <<>>
    /\ cutting = TRUE

Walking == stack # <<>> /\ Top.at < Top.end

Fits == Top.current # <<>> /\ Len(Top.current) + 1 + Len(SectionText) <= Budget

\* The levels once the section is dealt with, with what is then being merged.
Passed(text) == [stack EXCEPT ![Len(stack)] = [@ EXCEPT !.at = SectionEnd, !.current = text]]

\* The section joins what is being merged.
MergeSection ==
    /\ Walking /\ Fits
    /\ stack' = Passed(Top.current \o <<NewLine>> \o SectionText)
    /\ UNCHANGED <<doc, size, ancestors, inPath, pieces, cutting>>

StartSection ==
    /\ Walking /\ ~Fits /\ Len(SectionText) <= Budget
    /\ Cut(Merged(Top))
    /\ stack' = Passed(SectionText)
    /\ UNCHANGED <<doc, size, ancestors, cutting>>

\* The opener can head its children's path.
CanOpen ==
    /\ SectionEnd - Top.at > 1 /\ doc[Top.at].element
    /\ Len(LineText(Top.at)) + 1 <= Half

OpenSection ==
    /\ Walking /\ ~Fits /\ Len(SectionText) > Budget /\ CanOpen
    /\ pieces' = PiecesWith(Merged(Top)) /\ inPath' = Append(Marked(Merged(Top)), FALSE)
    /\ stack' = Append(Passed(<<>>), Level(Top.at + 1, SectionEnd))
    /\ ancestors' = Append(ancestors, Top.at)
    /\ UNCHANGED <<doc, size, cutting>>

SplitSection ==
    /\ Walking /\ ~Fits /\ Len(SectionText) > Budget /\ ~CanOpen
    /\ Cut(Merged(Top) \o WithText(SplitLines(SectionText, Budget)))
    /\ stack' = Passed(<<>>)
    /\ UNCHANGED <<doc, size, ancestors, cutting>>

\* Faulty: an opener that was never repeated is forgotten.
NotRepeatedForgotten(marks) == FALSE

\* The opener of the level that ends was above no chunk.
NotRepeated(marks) == ~Last(marks)

\* The level ends.  An opener that was never repeated becomes content of its own level.
CloseLevel ==
    /\ stack # <<>> /\ ~Walking
    /\ pieces' = PiecesWith(Merged(Top))
    /\ IF ancestors = <<>> THEN stack' = <<>> /\ UNCHANGED <<ancestors, inPath>>
       ELSE /\ ancestors' = Front(ancestors) /\ inPath' = Front(Marked(Merged(Top)))
            /\ stack' = IF NotRepeated(Marked(Merged(Top)))
                        THEN [Front(stack) EXCEPT ![Len(stack) - 1].current = LineText(Last(ancestors))]
                        ELSE Front(stack)
    /\ UNCHANGED <<doc, size, cutting>>

\* The header line rides on the first chunk when there is room.
FinishChunks ==
    /\ cutting /\ stack = <<>> /\ cutting' = FALSE
    /\ pieces' = IF HeaderLength + 1 + Len(pieces[1].text) <= size
                 THEN [pieces EXCEPT ![1].text =
                          [k \in 1 .. HeaderLength |-> <<Len(doc) + 1, k>>] \o <<NewLine>> \o @]
                 ELSE pieces
    /\ UNCHANGED <<doc, size, stack, ancestors, inPath>>

ChunkNext ==
    MergeSection \/ StartSection \/ OpenSection \/ SplitSection \/ CloseLevel \/ FinishChunks

ChunkSpec == ChunkInit /\ [][ChunkNext]_chunkVars

----------------------------------------------------------------------------
(* Properties.                                                             *)

ChunkTypeOK ==
    /\ size \in ChunkSizes /\ cutting \in BOOLEAN
    /\ Len(ancestors) = Len(inPath) /\ (stack # <<>> => Len(stack) = Len(ancestors) + 1)
    /\ \A k \in DOMAIN ancestors : ancestors[k] \in Lines /\ inPath[k] \in BOOLEAN
    /\ \A k \in DOMAIN pieces : pieces[k].heading \in Lines \cup {0}

Above(a, i) == a < i /\ doc[a].element /\ \A j \in a + 1 .. i : doc[j].depth > doc[a].depth

\* The characters of a line's own text, and whether t has all of them.
Word(i) == {<<i, k>> : k \in 1 .. doc[i].length}

Holds(t, i) == Word(i) \subseteq Range(t)

\* No chunk exceeds chunk_size.
ChunksFit == \A k \in DOMAIN pieces : Len(pieces[k].text) <= size

\* Every line's text is in the chunks.
NoTextIsLost ==
    \A i \in Lines : Word(i) \subseteq UNION {Range(pieces[k].text) : k \in DOMAIN pieces}

\* A line is whole in one of them if it and what it is under fit in half a chunk.
LinesStayWhole ==
    \A i \in Lines :
        (\A a \in Lines : a = i \/ Above(a, i) => Len(LineText(a)) < Half)
            => \E k \in DOMAIN pieces : Holds(pieces[k].text, i)

\* A chunk holds its heading's whole line and nothing from outside the heading's
\* subtree but the path above it.
HeadingsAreTrue ==
    \A k \in DOMAIN pieces :
        LET p == pieces[k]
        IN p.heading # 0 =>
             /\ Holds(p.text, p.heading)
             /\ \A j \in DOMAIN p.text : LET i == LineOf(p.text[j])
                                         IN i \in Lines \ {p.heading} => Above(i, p.heading) \/ Above(p.heading, i)

\* However deep the tree and long its lines, chunks fit, no branch loses its question,
\* no line that need not be is torn, and no text is filed under the child before it
\* (_xml_pieces, _xml_sections).
ChunksHoldTheDocument ==
    ~cutting => ChunksFit /\ NoTextIsLost /\ LinesStayWhole /\ HeadingsAreTrue
=============================================================================
