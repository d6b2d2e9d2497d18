-------------------------------- MODULE Rank --------------------------------
(***************************************************************************)
(* The rank of a match (result.go), the split of a scan in slices          *)
(* (matcher.go) and the lazy merge of their sorted results (merger.go).    *)
(* A match is [text, spans, score, index]: an item, the set of the spans   *)
(* <<begin, end>> of its matched terms, counted from zero, and the index   *)
(* of the item.                                                            *)
(***************************************************************************)
EXTENDS Integers, Sequences, FiniteSets, SequencesExt, FiniteSetsExt

Spaces == {" ", "tab"}
Delimiters == {"/"}
Ascii == {"a", "b"} \cup Spaces \cup Delimiters

MaxUint16 == 65535
AsUint16(n) == IF n > MaxUint16 THEN MaxUint16 ELSE IF n < 0 THEN 0 ELSE n

(***************************************************************************)
(* buildResult                                                             *)
(***************************************************************************)

\* Terms that are inverse have no span.
Valid(match) == {s \in match.spans : s[1] < s[2]}
MinBegin(match) == Min({s[1] : s \in Valid(match)})
MinEnd(match) == Min({s[2] : s \in Valid(match)})
MaxEnd(match) == Max({s[2] : s \in Valid(match)})

Inked(text) == {i \in DOMAIN text : text[i] \notin Spaces}
TrimLength(text) == IF Inked(text) = {} THEN 0 ELSE Max(Inked(text)) - Min(Inked(text)) + 1

\* The match is extended to the spaces around it.
ChunkBegin(text, begin) == Max({0} \cup {i \in 1..begin : text[i] \in Spaces})
ChunkEnd(text, end) == Min({Len(text)} \cup {i \in end..(Len(text) - 1) : text[i + 1] \in Spaces})

\* The place of the last delimiter, in bytes.
Bytes(c) == IF c \in Ascii THEN 1 ELSE 2
BytesBefore(text, i) == FoldSeq(LAMBDA c, n : n + Bytes(c), 0, SubSeq(text, 1, i - 1))
LastDelim(text) ==
    LET at == {i \in DOMAIN text : text[i] \in Delimiters}
    IN  IF at = {} THEN -1 ELSE BytesBefore(text, Max(at))

\* Spaces before the match; the last character of a text is not counted.
WhitePrefix(text, begin) ==
    Min({begin, Len(text) - 1} \cup {i \in 0..(Len(text) - 1) : text[i + 1] \notin Spaces})

Pathname(match) ==
    IF LastDelim(match.text) <= MinBegin(match)
    THEN AsUint16(MinBegin(match) - LastDelim(match.text)) ELSE MaxUint16

\* What the criterion counts; less is better.
Point(criterion, match) ==
    IF criterion = "score" THEN MaxUint16 - AsUint16(match.score)
    ELSE IF criterion = "length" THEN TrimLength(match.text)
    ELSE IF Valid(match) = {} THEN MaxUint16
    ELSE CASE criterion = "chunk" ->
                  AsUint16(ChunkEnd(match.text, MaxEnd(match)) - ChunkBegin(match.text, MinBegin(match)))
           [] criterion = "pathname" -> Pathname(match)
           [] criterion = "begin" ->
                  AsUint16(MinEnd(match) - WhitePrefix(match.text, MinBegin(match)))
           [] criterion = "end" ->
                  AsUint16(MaxUint16 - (MaxUint16 * (MaxEnd(match)
                               - WhitePrefix(match.text, MinBegin(match))))
                                  \div (TrimLength(match.text) + 1))

BuildResult(criteria, match) ==
    [points |-> [i \in DOMAIN criteria |-> Point(criteria[i], match)], index |-> match.index]

(***************************************************************************)
(* compareRanks: the points are one number, the first criterion on top     *)
(***************************************************************************)

CompareRanks(r, s, tac) ==
    LET differ == {i \in DOMAIN r.points : r.points[i] # s.points[i]}
    IN  IF differ # {} THEN r.points[Min(differ)] < s.points[Min(differ)]
        ELSE (r.index <= s.index) # tac

(***************************************************************************)
(* Matcher.scan                                                            *)
(***************************************************************************)

\* (Variant: the last slice is no longer than the others.)
SliceEven(chunks, parts, per, i) == SubSeq(chunks, (i - 1) * per + 1, i * per)

\* The chunks of slice i; the last one has what is left.
Slice(chunks, parts, per, i) ==
    SubSeq(chunks, (i - 1) * per + 1, IF i = parts THEN Len(chunks) ELSE i * per)

SliceChunks(chunks, partitions) ==
    LET per == Len(chunks) \div partitions
        parts == IF per = 0 THEN Len(chunks) ELSE partitions
    IN  [i \in 1..parts |-> Slice(chunks, parts, IF per = 0 THEN 1 ELSE per, i)]

\* sort.Sort: n - 1 others are before item n.
Before(all, r, tac) == {s \in all \ {r} : CompareRanks(s, r, tac)}
Sorted(seq, tac) ==
    [n \in DOMAIN seq |-> CHOOSE r \in Range(seq) : Cardinality(Before(Range(seq), r, tac)) = n - 1]

\* The matches of a slice, sorted unless the pattern or --no-sort says otherwise.
Matches(slice, sorted, tac) ==
    IF sorted THEN Sorted(FlattenSeq(slice), tac) ELSE FlattenSeq(slice)

NewMerger(chunks, partitions, sorted, tac) ==
    LET slices == SliceChunks(chunks, partitions)
    IN  [lists |-> [i \in DOMAIN slices |-> Matches(slices[i], sorted, tac)], merged |-> <<>>,
         cursors |-> [i \in DOMAIN slices |-> 1], sorted |-> sorted, tac |-> tac]

(***************************************************************************)
(* Merger.Get                                                              *)
(***************************************************************************)

\* mergedGet: the best head of the lists is next.
Left(mg) == {l \in DOMAIN mg.lists : mg.cursors[l] <= Len(mg.lists[l])}
At(mg, l) == mg.lists[l][mg.cursors[l]]
BestOf(mg) == CHOOSE l \in Left(mg) : \A k \in Left(mg) \ {l} : CompareRanks(At(mg, l), At(mg, k), mg.tac)
Step(mg, l) == [mg EXCEPT !.merged = Append(@, At(mg, l)), !.cursors[l] = @ + 1]

\* The merger when n of the results are merged.
MergedTo(mg, n) ==
    LET after[i \in 0..n] ==
            IF i <= Len(mg.merged) THEN mg
            ELSE LET before == after[i - 1] IN Step(before, BestOf(before))
    IN  after[n]

\* The merger after a call and the answer; n is counted from one.
Get(mg, n) ==
    IF mg.sorted THEN LET after == MergedTo(mg, n) IN <<after, after.merged[n]>>
    ELSE LET all == FlattenSeq(mg.lists) IN <<mg, all[IF mg.tac THEN Len(all) - n + 1 ELSE n]>>

(***************************************************************************)
(* Properties                                                              *)
(***************************************************************************)

\* The matches of a scan: the same criteria for all, and no item twice.
IsScan(chunks) ==
    LET all == FlattenSeq(chunks)
    IN  /\ \A i \in DOMAIN all :
               /\ all[i].points \in Seq(Nat) /\ all[i].index \in Nat
               /\ Len(all[i].points) = Len(all[1].points)
        /\ \A i, j \in DOMAIN all : all[i].index = all[j].index => i = j

\* The list that a user expects: all matches, in order.
Expected(chunks, sorted, tac) ==
    LET all == FlattenSeq(chunks)
    IN  IF sorted THEN Sorted(all, tac) ELSE IF tac THEN Reverse(all) ELSE all

\* The merger after i of the calls.
After(mg, calls) ==
    LET after[i \in 0..Len(calls)] == IF i = 0 THEN mg ELSE Get(after[i - 1], calls[i])[1]
    IN  after

\* However the scan is split and in whatever order the screen asks, item n of
\* the list is item n of all matches sorted.
MergeExact(chunks, partitions, sorted, tac, calls) ==
    LET after == After(NewMerger(chunks, partitions, sorted, tac), calls)
    IN  \A i \in DOMAIN calls :
            Get(after[i - 1], calls[i])[2] = Expected(chunks, sorted, tac)[calls[i]]

\* What the manual says that a criterion prefers.
Covers(match, b, e) == b <= MinBegin(match) /\ MaxEnd(match) <= e
Closed(text, b, e) == (b = 0 \/ text[b] \in Spaces) /\ (e = Len(text) \/ text[e + 1] \in Spaces)
MatchedChunk(match) ==
    Min({p[2] - p[1] : p \in {q \in (0..Len(match.text)) \X (0..Len(match.text)) :
                                   Covers(match, q[1], q[2]) /\ Closed(match.text, q[1], q[2])}})
FileName(match) == Max({0} \cup {i \in DOMAIN match.text : match.text[i] \in Delimiters})
InFileName(match) == FileName(match) <= MinBegin(match)
Lead(match) == CHOOSE n \in 0..Len(match.text) :
                   /\ \A i \in 1..n : match.text[i] \in Spaces
                   /\ n = Len(match.text) \/ match.text[n + 1] \notin Spaces

\* Matches that begin and end with a character that is not a space.
Prefers(criterion, r, s) ==
    CASE criterion = "score" -> r.score > s.score
      [] criterion = "length" -> TrimLength(r.text) < TrimLength(s.text)
      [] criterion = "chunk" -> MatchedChunk(r) < MatchedChunk(s)
      [] criterion = "pathname" ->
             InFileName(r) /\ (InFileName(s) => MinBegin(r) - FileName(r) < MinBegin(s) - FileName(s))
      [] criterion = "begin" -> MinEnd(r) - Lead(r) < MinEnd(s) - Lead(s)
      [] criterion = "end" ->
             (MaxEnd(r) - Lead(r)) * (TrimLength(s.text) + 1)
                 > (MaxEnd(s) - Lead(s)) * (TrimLength(r.text) + 1)

\* Two matches are in the order of the criteria, and of the input when they tie.
RanksRight(criteria, r, s, tac) ==
    LET decided == {i \in DOMAIN criteria : Prefers(criteria[i], r, s) \/ Prefers(criteria[i], s, r)}
    IN  CompareRanks(BuildResult(criteria, r), BuildResult(criteria, s), tac)
            = IF decided = {} THEN (r.index < s.index) # tac ELSE Prefers(criteria[Min(decided)], r, s)

=============================================================================
