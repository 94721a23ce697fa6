--------------------------- MODULE PassageRanking ----------------------------
(***************************************************************************)
(* The pure half of the retrieval: how a document is cut into the segments *)
(* that are indexed, and how the chunks a search has read are thinned,     *)
(* ranked and packed into a context.  Scores are in percent.               *)
(***************************************************************************)
EXTENDS Integers, Sequences, FiniteSets, SequencesExt

\* A document is a sequence of paragraphs, a paragraph one of pieces with their
\* lengths and what a chunk that holds them scores: sentences, which end with a
\* stop, stops that stand alone, and what follows the last stop.  A paragraph
\* without any sentence is one piece.
Percent == 0 .. 100
Piece == [length : Nat \ {0}, score : Percent, ends : BOOLEAN]
Paragraph == {pieces \in Seq(Piece) \ {<< >>} :
                 Len(pieces) > 1 => \E j \in DOMAIN pieces : pieces[j].ends}

\* The members of a set in a strict order.
InOrder(set, above(_, _)) ==
    [k \in 1 .. Cardinality(set) |->
        CHOOSE x \in set : Cardinality({y \in set : above(y, x)}) = k - 1]

Total(numbers) ==
    LET sum[n \in 0 .. Len(numbers)] == IF n = 0 THEN 0 ELSE sum[n - 1] + numbers[n]
    IN  sum[Len(numbers)]
Units(i, paragraph) == [j \in DOMAIN paragraph |-> <<i, j>>]
Length(paragraph) == Total([j \in DOMAIN paragraph |-> paragraph[j].length])

\* What is left of a paragraph when it is split: its sentences.  One without any
\* stays whole.
SplitUnits(i, paragraph) ==
    LET sentences == InOrder({j \in DOMAIN paragraph : paragraph[j].ends}, <)
    IN  IF sentences = << >> THEN Units(i, paragraph)
        ELSE [k \in DOMAIN sentences |-> <<i, sentences[k]>>]

-----------------------------------------------------------------------------
(* chunkDocument: the segments, and the one that is still open.             *)

After(closed) == [closed |-> closed, current |-> << >>, length |-> 0]
Closed(s) == IF s.current = << >> THEN s.closed ELSE Append(s.closed, s.current)
Open(s, units, length) == [closed |-> Closed(s), current |-> units, length |-> length]
Extended(s, units, length) ==
    [closed |-> s.closed, current |-> s.current \o units, length |-> s.length + length]

WithSentence(s, unit, document, size) ==
    LET length == document[unit[1]][unit[2]].length
    IN  IF s.current # << >> /\ s.length + length > size
        THEN Open(s, <<unit>>, length) ELSE Extended(s, <<unit>>, length)

\* A paragraph longer than a chunk, from the segments that are there.
Split(closed, units, document, size) ==
    LET state[n \in 0 .. Len(units)] ==
            IF n = 0 THEN After(closed)
            ELSE WithSentence(state[n - 1], units[n], document, size)
    IN  Closed(state[Len(units)])

\* Mutant: an oversized paragraph overtakes the segment that is open.
WithParagraphUnflushed(s, i, document, size) ==
    LET paragraph == document[i]
    IN  IF Length(paragraph) > size
        THEN [s EXCEPT !.closed = @ \o Split(<< >>, SplitUnits(i, paragraph), document, size)]
        ELSE IF s.current # << >> /\ s.length + 2 + Length(paragraph) > size
        THEN Open(s, Units(i, paragraph), Length(paragraph))
        ELSE Extended(s, Units(i, paragraph),
                      Length(paragraph) + IF s.current = << >> THEN 0 ELSE 2)
\* Paragraphs are merged, with a blank line between them, up to the size of a
\* chunk; one that is longer is split into sentences.
WithParagraph(s, i, document, size) ==
    LET paragraph == document[i]
    IN  IF Length(paragraph) > size
        THEN After(Split(Closed(s), SplitUnits(i, paragraph), document, size))
        ELSE IF s.current # << >> /\ s.length + 2 + Length(paragraph) > size
        THEN Open(s, Units(i, paragraph), Length(paragraph))
        ELSE Extended(s, Units(i, paragraph),
                      Length(paragraph) + IF s.current = << >> THEN 0 ELSE 2)

Segments(document, size) ==
    LET state[n \in 0 .. Len(document)] ==
            IF n = 0 THEN After(<< >>) ELSE WithParagraph(state[n - 1], n, document, size)
    IN  Closed(state[Len(document)])

SegmentLength(document, segment) ==
    Total([n \in DOMAIN segment |->
              document[segment[n][1]][segment[n][2]].length
                + IF n > 1 /\ segment[n][2] = 1 THEN 2 ELSE 0])
SegmentScore(document, segment) ==
    LET scores == {document[segment[n][1]][segment[n][2]].score : n \in DOMAIN segment}
    IN  CHOOSE x \in scores : \A y \in scores : x >= y

\* The pieces that the last characters of a segment, overlap in number, belong to.
LastPieces(document, segment, overlap) ==
    LET after(n) == SegmentLength(document, segment)
                      - SegmentLength(document, SubSeq(segment, 1, n))
        untouched == {n \in DOMAIN segment : after(n) >= overlap}
    IN  SubSeq(segment, Cardinality(untouched) + 1, Len(segment))

-----------------------------------------------------------------------------
(* A hit: an id, what the chunk is a part of, and its score.                *)

Key(hit) == <<hit.source, hit.index>>

\* Mutant: only rows with the same id are taken for doubles.
DeduplicateById(hits) == hits
\* The best hit of each position, best first: of equal ones the one read first.
\* hits come best first already, so that the first one of a position is it.
DeduplicateChunks(hits) ==
    LET first(n) == \A m \in 1 .. n - 1 : Key(hits[m]) # Key(hits[n])
        kept == InOrder({n \in DOMAIN hits : first(n)}, <)
    IN  [k \in DOMAIN kept |-> hits[kept[k]]]

\* Scores weigh 0.7, the mean share of the source 0.3; the sort is stable.
RankChunks(hits) ==
    LET share == [source \in {hits[n].source : n \in DOMAIN hits} |->
                     Total([n \in DOMAIN hits |-> IF hits[n].source = source THEN hits[n].score ELSE 0])]
        boosted == [n \in DOMAIN hits |-> 7 * Len(hits) * hits[n].score + 3 * share[hits[n].source]]
        above(n, m) ==
            \/ boosted[n] > boosted[m]
            \/ boosted[n] = boosted[m] /\ n < m
        order == InOrder(DOMAIN hits, above)
    IN  [k \in DOMAIN order |-> hits[order[k]]]

\* As many hits from the top as the budget holds: it stops at the first that
\* does not fit, though a later one might.
AssembleContext(hits, budget) ==
    LET spent(n) == Total([k \in 1 .. n |-> hits[k].tokens])
    IN  [n \in {k \in DOMAIN hits : spent(k) <= budget} |-> hits[n]]
=============================================================================
