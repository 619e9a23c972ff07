---------------------------- MODULE TextSplitter ----------------------------
(***************************************************************************)
(* The cutting of long texts for embeddings (lib/services/text_splitter.py)*)
(* A text is a sequence of kinds: 0 is a letter, k a separator of rank k   *)
(* (paragraph, line, sentence, clause, word).  A segment is a sequence of  *)
(* positions of the text, with 0 for the characters that join segments.    *)
(***************************************************************************)
EXTENDS Integers, Sequences, FiniteSets, SequencesExt, FiniteSetsExt

CONSTANTS
    Ranks,      \* the separators that texts have
    MaxLength,  \* bound: characters of a text
    Sizes       \* pairs of chunk_size and chunk_overlap, which is smaller

VARIABLES text, size, overlap, segments, split

vars == <<text, size, overlap, segments, split>>

TypeOK ==
    /\ text \in Seq({0} \cup Ranks) /\ <<size, overlap>> \in Sizes
    /\ segments \in Seq(Seq(0..MaxLength)) /\ split \in BOOLEAN

Letters == {i \in DOMAIN text : text[i] = 0}
Rank(i) == IF i = 0 THEN 0 ELSE text[i]
RanksOf(s) == {Rank(s[i]) : i \in DOMAIN s} \ {0}

-----------------------------------------------------------------------------
\* The runs of s between its separators of rank r, without separators at their
\* ends; the separators of smaller rank were cut before.
Parts(s, r) ==
    LET marks == {i \in DOMAIN s : Rank(s[i]) = r}
        from == SetToSortSeq({0} \cup marks, <)
        run(k) == SubSeq(s, from[k] + 1, IF k = Len(from) THEN Len(s) ELSE from[k + 1] - 1)
        inner(t) == LET l == {i \in DOMAIN t : Rank(t[i]) = 0} IN
                    IF l = {} THEN <<>> ELSE SubSeq(t, Min(l), Max(l))
    IN SelectSeq([k \in DOMAIN from |-> inner(run(k))], LAMBDA t : t # <<>>)

\* _split_by_chars: windows of chunk_size; without an overlap it ends after the
\* first one.
Windows(s) ==
    LET step == size - overlap
        more == IF overlap = 0 THEN 0 ELSE (Len(s) - size + step - 1) \div step
    IN [k \in 1..more + 1 |->
          SubSeq(s, (k - 1) * step + 1, Min({(k - 1) * step + size, Len(s)}))]

\* Variant: the tail is not cut to what fits with the segment.
LongTail(s, part) == SubSeq(s, Max({1, Len(s) - overlap + 1}), Len(s))
\* The end of a chunk that begins the next one, as far as there is room.
EndOf(s, part) ==
    LET room == Min({overlap, size - 2 - Len(part)}) IN
    IF room <= 0 THEN <<>> ELSE SubSeq(s, Max({1, Len(s) - room + 1}), Len(s))

Joined(s, t) == IF s = <<>> THEN t ELSE s \o <<0, 0>> \o t

\* _merge_into_chunks, of segments that are no longer than chunk_size.
Merge(parts) ==
    LET add(m, part) ==
          IF Len(Joined(m.current, part)) <= size
          THEN [m EXCEPT !.current = Joined(@, part)]
          ELSE [done |-> Append(m.done, m.current),
                current |-> Joined(EndOf(m.current, part), part)]
        all == FoldLeft(add, [done |-> <<>>, current |-> <<>>], parts)
    IN Append(all.done, all.current)

\* _recursive_split: the first separator that is there.
RECURSIVE Cut(_)
Cut(s) ==
    IF RanksOf(s) = {} THEN Windows(s)
    ELSE LET parts == Parts(s, Min(RanksOf(s)))
         IN Merge(FlattenSeq([k \in DOMAIN parts |->
                    IF Len(parts[k]) <= size THEN <<parts[k]>> ELSE Cut(parts[k])]))

\* split_text
Split ==
    /\ ~split /\ split' = TRUE
    /\ segments' =
         IF Letters = {} THEN <<>>
         ELSE LET s == [i \in 1..Max(Letters) - Min(Letters) + 1 |-> Min(Letters) + i - 1]
              IN IF Len(s) <= size THEN <<s>> ELSE Cut(s)
    /\ UNCHANGED <<text, size, overlap>>

Init ==
    /\ text \in UNION {[1..n -> {0} \cup Ranks] : n \in 0..MaxLength}
    /\ \E p \in Sizes : size = p[1] /\ overlap = p[2]
    /\ segments = <<>> /\ split = FALSE

Next == Split

Spec == Init /\ [][Next]_vars

-----------------------------------------------------------------------------
\* Properties.

\* Every segment is as long as chunk_size allows, and not empty.
SegmentsFit == \A k \in DOMAIN segments : Len(segments[k]) \in 1..size

\* With an overlap, every letter of the text is in a segment, and no segment begins
\* before the one before it.
TextIsCovered ==
    split /\ overlap > 0 =>
      LET of(k) == {segments[k][i] : i \in DOMAIN segments[k]} \ {0} IN
      /\ Letters \subseteq UNION {of(k) : k \in DOMAIN segments}
      /\ \A k \in 2..Len(segments) :
           /\ Max(of(k - 1)) < Max(of(k))
           /\ \A i \in Letters :
                i < Min(of(k)) => \E j \in 1..k - 1 : i \in of(j)

=============================================================================
