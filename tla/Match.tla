------------------------------- MODULE Match -------------------------------
(***************************************************************************)
(* The matching algorithms of algo/algo.go.  A text and a pattern are      *)
(* sequences of characters of a small alphabet that has one member at      *)
(* least of every class the algorithms tell apart.  What the callers set   *)
(* is a record o: [cs, norm, forward, scheme, slab], with the room in the  *)
(* slab for the score matrix.  Positions are counted from zero in results, *)
(* as in the code, and from one inside the definitions.  A result is       *)
(* [start, end, score, pos]; -1 is the start of no match, -2 of a panic.   *)
(***************************************************************************)
EXTENDS Integers, Sequences, FiniteSets, SequencesExt, FiniteSetsExt

\* The alphabet: letters, a digit, a separator of words, a delimiter, a space
\* and two letters outside of ASCII ("a" and "A" with an accent).
Lower == {"a", "b", "a'"}
Upper == {"A", "B", "A'"}
Number == {"1"}
Delimiter == {"/"}
White == {" "}
NonWord == {"_"}
Ascii(c) == c \notin {"a'", "A'"}

Lowered(c) == CASE c = "A" -> "a" [] c = "B" -> "b" [] c = "A'" -> "a'" [] OTHER -> c
Normalized(c) == CASE c = "a'" -> "a" [] c = "A'" -> "A" [] OTHER -> c

\* What a character of a text is compared as.
Fold(o, c) ==
    LET lowered == IF o.cs THEN c ELSE Lowered(c)
    IN  IF o.norm THEN Normalized(lowered) ELSE lowered

ClassOf(c) ==
    CASE c \in White -> "white" [] c \in NonWord -> "nonword" [] c \in Delimiter -> "delimiter"
      [] c \in Lower -> "lower" [] c \in Upper -> "upper" [] c \in Number -> "number"

\* Init: the bonus points and the class before the text.
BoundaryWhite(o) == IF o.scheme = "default" THEN 10 ELSE 8
BoundaryDelimiter(o) == IF o.scheme = "history" THEN 8 ELSE 9
InitialClass(o) == IF o.scheme = "path" THEN "delimiter" ELSE "white"

ScoreMatch == 16
Boundary == 8
Camel == 7
Consecutive == 4
Gap(inGap) == IF inGap THEN -1 ELSE -3

Max2(x, y) == IF x >= y THEN x ELSE y

BonusFor(o, prev, class) ==
    CASE class \notin {"white", "nonword"} /\ prev = "white" -> BoundaryWhite(o)
      [] class \notin {"white", "nonword"} /\ prev = "delimiter" -> BoundaryDelimiter(o)
      [] class \notin {"white", "nonword"} /\ prev = "nonword" -> Boundary
      [] prev = "lower" /\ class = "upper" -> Camel
      [] prev # "number" /\ class = "number" -> Camel
      [] class \in {"nonword", "delimiter"} -> Boundary
      [] class = "white" -> BoundaryWhite(o)
      [] OTHER -> 0

\* The bonus of position i of a text that begins after a character of class prev.
BonusIn(o, prev, text, i) ==
    BonusFor(o, IF i = 1 THEN prev ELSE ClassOf(text[i - 1]), ClassOf(text[i]))

\* bonusAt, which the exact algorithms use.
BonusAt(o, text, i) ==
    IF i = 1 THEN BoundaryWhite(o) ELSE BonusFor(o, ClassOf(text[i - 1]), ClassOf(text[i]))

NoMatch == [start |-> -1, end |-> -1, score |-> 0, pos |-> <<>>]
Panic == [start |-> -2, end |-> -2, score |-> 0, pos |-> <<>>]
EmptyMatch == [start |-> 0, end |-> 0, score |-> 0, pos |-> <<>>]

(***************************************************************************)
(* asciiFuzzyIndex: where a match can be, for texts of bytes               *)
(***************************************************************************)

\* trySkip: the first position from i on that may match c, or 0.
NextOf(o, text, c, i) ==
    LET found == {j \in i..Len(text) : text[j] = c \/ (~o.cs /\ Lowered(text[j]) = c)}
    IN  IF found = {} THEN 0 ELSE Min(found)

\* The positions of the characters of the pattern, each the first after the one
\* before; shorter than the pattern when one is missing.
RECURSIVE Skip(_, _, _, _)
Skip(o, text, pattern, from) ==
    IF pattern = <<>> THEN <<>>
    ELSE LET i == NextOf(o, text, Head(pattern), from)
         IN  IF i = 0 THEN <<>> ELSE <<i>> \o Skip(o, text, Tail(pattern), i + 1)

\* The part of the text to search, <<first, last>>, or <<>>.  It begins one
\* before the first match, for its bonus, and ends with the last character that
\* can end a match.
Scope(o, text, pattern) ==
    IF \E i \in DOMAIN text : ~Ascii(text[i]) THEN <<1, Len(text)>>
    ELSE IF \E i \in DOMAIN pattern : ~Ascii(pattern[i]) THEN <<>>
    ELSE LET at == Skip(o, text, pattern, 1)
         IN  IF Len(at) < Len(pattern) THEN <<>>
             ELSE << Max2(1, at[1] - 1),
                     Max({i \in at[Len(at)]..Len(text) :
                             i = at[Len(at)] \/ text[i] = Last(pattern)
                                             \/ (~o.cs /\ Lowered(text[i]) = Last(pattern))}) >>

(***************************************************************************)
(* calculateScore and FuzzyMatchV1                                         *)
(***************************************************************************)

\* The score and the positions of the leftmost match within first..last; st is
\* [score, pos, gap, run, first, over]: in a gap, length and first bonus of a
\* chunk.  With more to come when all of the pattern was found, the pattern is
\* read behind its end: over.
ChunkBonus(bonus, st) == IF bonus >= Boundary /\ bonus > st.first THEN bonus ELSE st.first

Hit(i, bonus, chunk, given, st) ==
    [st EXCEPT !.score = @ + ScoreMatch + (IF st.pos = <<>> THEN 2 * given ELSE given),
               !.pos = Append(@, i - 1), !.gap = FALSE, !.run = @ + 1, !.first = chunk]

Miss(st) == [st EXCEPT !.score = @ + Gap(st.gap), !.gap = TRUE, !.run = 0, !.first = 0]

RECURSIVE ScoreFrom(_, _, _, _, _, _)
ScoreFrom(o, text, pattern, i, last, st) ==
    IF i > last THEN st
    ELSE IF Len(st.pos) = Len(pattern) THEN [st EXCEPT !.over = TRUE]
    ELSE LET bonus == BonusIn(o, InitialClass(o), text, i)
             chunk == ChunkBonus(bonus, st)
         IN  ScoreFrom(o, text, pattern, i + 1, last,
                 IF Fold(o, text[i]) # pattern[Len(st.pos) + 1] THEN Miss(st)
                 ELSE IF st.run = 0 THEN Hit(i, bonus, bonus, bonus, st)
                 ELSE Hit(i, bonus, chunk, Max2(Max2(bonus, chunk), Consecutive), st))

CalculateScore(o, text, pattern, first, last) ==
    ScoreFrom(o, text, pattern, first, last,
              [score |-> 0, pos |-> <<>>, gap |-> FALSE, run |-> 0, first |-> 0, over |-> FALSE])

\* Where the first match, in the direction of o, ends: the greedy one; and the
\* shortest one that ends there and needs no normalization: T is not normalized.
Turn(o, seq) == IF o.forward THEN seq ELSE Reverse(seq)

Window(first, last, n, forward) == IF forward THEN <<first, last>> ELSE <<n + 1 - last, n + 1 - first>>

\* (Variant: the window is not narrowed.)
NarrowNot(T, pattern, greedy) == <<greedy[1], Last(greedy)>>

Narrow(T, pattern, greedy) ==
    LET exact == [cs |-> TRUE, norm |-> FALSE]
        back == Skip(exact, Reverse(SubSeq(T, greedy[1], Last(greedy))), Reverse(pattern), 1)
    IN  << IF Len(back) < Len(pattern) THEN greedy[1] ELSE Last(greedy) + 1 - Last(back),
           Last(greedy) >>

V1In(o, text, pattern, window) ==
    LET scored == CalculateScore(o, text, pattern, window[1], window[2])
    IN  IF scored.over THEN Panic
        ELSE [start |-> window[1] - 1, end |-> window[2], score |-> scored.score, pos |-> scored.pos]

\* The text as the algorithms compare it.
FoldedText(o, text) == [i \in DOMAIN text |-> Fold(o, text[i])]
Unnormalized(o) == [o EXCEPT !.norm = FALSE]

FuzzyMatchV1(o, text, pattern) ==
    IF pattern = <<>> THEN EmptyMatch
    ELSE IF Scope(o, text, pattern) = <<>> THEN NoMatch
    ELSE LET T == Turn(o, FoldedText(o, text))
             p == Turn(o, pattern)
             greedy == Skip([o EXCEPT !.cs = TRUE], T, p, 1)
         IN  IF Len(greedy) < Len(pattern) THEN NoMatch
             ELSE LET w == Narrow(Turn(o, FoldedText(Unnormalized(o), text)), p, greedy)
                  IN  V1In(o, text, pattern, Window(w[1], w[2], Len(text), o.forward))

(***************************************************************************)
(* FuzzyMatchV2                                                            *)
(***************************************************************************)

\* A cell of the score matrix: the score, the length of the consecutive chunk
\* that ends there, and whether a gap is being crossed.
Cell(h, c, gap) == [h |-> h, c |-> c, gap |-> gap]
Blank == Cell(0, 0, FALSE)

\* Phase 2: the row of the first character.
RECURSIVE FirstRow(_, _, _, _)
FirstRow(T, B, p, row) ==
    IF Len(row) = Len(T) THEN row
    ELSE LET j == Len(row) + 1
             prev == IF row = <<>> THEN Blank ELSE Last(row)
         IN  FirstRow(T, B, p, Append(row,
                 IF T[j] = p THEN Cell(ScoreMatch + 2 * B[j], 1, FALSE)
                 ELSE Cell(Max2(prev.h + Gap(prev.gap), 0), 0, TRUE)))

\* The bonus of a match that continues the chunk of length c ending before j,
\* and the length of the chunk with it.
Chunk(B, j, c) ==
    IF c = 0 THEN <<B[j], 1>>
    ELSE IF B[j] >= Boundary /\ B[j] > B[j - c] THEN <<B[j], 1>>
    ELSE <<Max2(B[j], Max2(Consecutive, B[j - c])), c + 1>>

Matched(B, j, diagonal, skipped, chunk) ==
    IF diagonal.h + ScoreMatch + chunk[1] < skipped
    THEN Cell(Max2(skipped, Max2(diagonal.h + ScoreMatch + B[j], 0)), 0,
              diagonal.h + ScoreMatch + B[j] < skipped)
    ELSE Cell(Max2(diagonal.h + ScoreMatch + chunk[1], 0), chunk[2], FALSE)

\* Phase 3: a row of the matrix, from the first occurrence of its character on.
RECURSIVE NextRow(_, _, _, _, _)
NextRow(T, B, p, above, row) ==
    IF Len(row) = Len(T) THEN row
    ELSE LET j == Len(row) + 1
             skipped == Last(row).h + Gap(Last(row).gap)
         IN  NextRow(T, B, p, above, Append(row,
                 IF T[j] = p
                 THEN Matched(B, j, above[j - 1], skipped, Chunk(B, j, above[j - 1].c))
                 ELSE Cell(Max2(skipped, 0), 0, 0 < skipped)))

\* Rows of the characters after the first; F[i] is where row i begins, and what
\* is before it was not written in this call.
RECURSIVE Rows(_, _, _, _, _)
Rows(T, B, F, pattern, rows) ==
    IF Len(rows) = Len(pattern) THEN rows
    ELSE LET i == Len(rows) + 1
         IN  Rows(T, B, F, pattern, Append(rows,
                 NextRow(T, B, pattern[i], Last(rows), [j \in 1..(F[i] - 1) |-> Blank])))

\* The first position of the best score, or the last one when searching backward.
Best(o, row, from) ==
    LET top == Max({row[j].h : j \in from..Len(row)})
        at == {j \in from..Len(row) : row[j].h = top}
    IN  IF o.forward THEN Min(at) ELSE Max(at)

\* Phase 4: from row i and column j back to the first character.  Cells before
\* F[i] of the rows of C hold what an earlier call left in the slab: stale.
RECURSIVE Backtrace(_, _, _, _, _, _)
Backtrace(rows, F, stale, i, j, prefer) ==
    LET s  == rows[i][j].h
        s1 == IF i > 1 /\ j >= F[i] THEN rows[i - 1][j - 1].h ELSE 0
        s2 == IF j > F[i] THEN rows[i][j - 1].h ELSE 0
        takes == s > s1 /\ (s > s2 \/ (s = s2 /\ prefer))
        below == /\ i < Len(rows) /\ j < Len(rows[i])
                 /\ IF j + 1 < F[i + 1] THEN stale ELSE rows[i + 1][j + 1].c > 0
        next == rows[i][j].c > 1 \/ below
    IN  IF takes /\ i = 1 THEN <<j>>
        ELSE IF j = 1 THEN <<>>
        ELSE IF takes THEN Append(Backtrace(rows, F, stale, i - 1, j - 1, next), j)
        ELSE Backtrace(rows, F, stale, i, j - 1, next)

\* The first character of a pattern of one stops the scan at a word boundary.
OneChar(o, T, B, row, min) ==
    LET stops == {j \in DOMAIN T : o.forward /\ row[j].c = 1 /\ B[j] >= Boundary}
        to == IF stops = {} THEN Len(T) ELSE Min(stops)
        j == Best(o, [i \in 1..to |-> IF row[i].c = 1 THEN row[i] ELSE Blank], 1)
    IN  [start |-> min + j - 2, end |-> min + j - 1, score |-> row[j].h, pos |-> <<min + j - 2>>]

Aligned(o, F, rows, min, stale, j) ==
    LET pos == Backtrace(rows, F, stale, Len(rows), j, TRUE)
    IN  [start |-> min + (IF pos = <<>> THEN 0 ELSE pos[1]) - 2, end |-> min + j - 1,
         score |-> Last(rows)[j].h, pos |-> [k \in DOMAIN pos |-> min + pos[k] - 2]]

AlignIn(o, T, B, F, pattern, min, stale) ==
    IF Len(F) < Len(pattern) THEN NoMatch
    ELSE IF Len(pattern) = 1
    THEN OneChar(o, T, B, FirstRow(T, B, pattern[1], <<>>), min)
    ELSE LET rows == Rows(T, B, F, pattern, <<FirstRow(T, B, pattern[1], <<>>)>>)
         IN  Aligned(o, F, rows, min, stale, Best(o, Last(rows), Last(F)))

\* The matrix does not fit into the slab.
FallsBack(o, text, pattern) == Len(text) * Len(pattern) > o.slab

FuzzyMatchV2(o, text, pattern, stale) ==
    IF pattern = <<>> THEN EmptyMatch
    ELSE IF Len(pattern) > Len(text) THEN NoMatch
    ELSE IF FallsBack(o, text, pattern) THEN FuzzyMatchV1(o, text, pattern)
    ELSE LET scope == Scope(o, text, pattern)
         IN  IF scope = <<>> THEN NoMatch
             ELSE LET part == SubSeq(text, scope[1], scope[2])
                      T == FoldedText(o, part)
                      B == [i \in DOMAIN part |-> BonusIn(o, InitialClass(o), part, i)]
                      exact == [o EXCEPT !.cs = TRUE]
                  IN  AlignIn(o, T, B, Skip(exact, T, pattern, 1), pattern, scope[1], stale)

(***************************************************************************)
(* ExactMatchNaive and ExactMatchBoundary                                  *)
(***************************************************************************)

Separates(c) == ClassOf(c) \in {"white", "nonword", "delimiter"}

\* One character is compared: the k-th, in the direction of o, of the pattern
\* with position i of the text.  A boundary match asks for a bonus that the
\* first character of the pattern has, so backward it is asked for too early.
Agrees(o, boundary, text, pattern, i, k, bonus) ==
    /\ Fold(o, text[i]) = pattern[k]
    /\ boundary =>
           /\ bonus >= Boundary
           /\ k = 1 => i = 1 \/ Separates(text[i - 1])
           /\ k = Len(pattern) => i = Len(text) \/ Separates(text[i + 1])

\* The bonus of the match at hand: that of the first character of the pattern,
\* once it has been seen.
BonusSeen(o, text, pattern, i, k, bonus) ==
    IF k = 1 /\ Fold(o, text[i]) = pattern[1] THEN BonusAt(o, text, i) ELSE bonus

\* The scan at step index of the text and pidx of the pattern (both from zero);
\* best is <<step, bonus>> of the best match so far.  It ends at a boundary.
RECURSIVE Scan(_, _, _, _, _, _, _, _)
Scan(o, boundary, text, pattern, index, pidx, bonus, best) ==
    IF index >= Len(text) THEN <<best[1], best[2], bonus>>
    ELSE LET i == IF o.forward THEN index + 1 ELSE Len(text) - index
             k == IF o.forward THEN pidx + 1 ELSE Len(pattern) - pidx
             seen == BonusSeen(o, text, pattern, i, k, bonus)
             better == IF seen > best[2] THEN <<index, seen>> ELSE best
         IN  IF ~Agrees(o, boundary, text, pattern, i, k, seen)
             THEN Scan(o, boundary, text, pattern, index - pidx + 1, 0, 0, best)
             ELSE IF pidx + 1 < Len(pattern)
             THEN Scan(o, boundary, text, pattern, index + 1, pidx + 1, seen, best)
             ELSE IF seen >= Boundary THEN <<better[1], better[2], seen>>
             ELSE Scan(o, boundary, text, pattern, index - pidx + 1, 0, 0, better)

\* An underscore is a lesser boundary than the others.
BoundaryScore(o, text, pattern, first, last, bonus) ==
    LET before == first > 1 /\ text[first - 1] = "_"
        after == last < Len(text) /\ text[last + 1] = "_"
        deduct == bonus - Boundary + 1
    IN  bonus - (IF before THEN deduct + 1 ELSE 0)
        - (IF after THEN IF before THEN 1 ELSE deduct ELSE 0)
        + ScoreMatch * Len(pattern) + BoundaryWhite(o) * (Len(pattern) + 1)

ExactIn(o, boundary, text, pattern, w, bonus) ==
    [start |-> w[1] - 1, end |-> w[2], pos |-> <<>>,
     score |-> IF boundary THEN BoundaryScore(o, text, pattern, w[1], w[2], bonus)
               ELSE CalculateScore(o, text, pattern, w[1], w[2]).score]

ExactMatch(o, boundary, text, pattern) ==
    IF pattern = <<>> THEN EmptyMatch
    ELSE IF Len(text) < Len(pattern) \/ Scope(o, text, pattern) = <<>> THEN NoMatch
    ELSE LET found == Scan(o, boundary, text, pattern, 0, 0, 0, <<-1, -1>>)
         IN  IF found[1] < 0 THEN NoMatch
             ELSE ExactIn(o, boundary, text, pattern,
                          Window(found[1] - Len(pattern) + 2, found[1] + 1, Len(text), o.forward),
                          found[3])

(***************************************************************************)
(* PrefixMatch, SuffixMatch, EqualMatch                                    *)
(***************************************************************************)

\* Spaces at the ends of the text count only when the pattern has them there.
Spaces(text) ==
    LET blank == {n \in 0..Len(text) : \A i \in 1..n : text[i] \in White} IN Max(blank)
Leading(text, pattern) == IF pattern[1] \in White THEN 0 ELSE Spaces(text)
Trailing(text, pattern) == IF Last(pattern) \in White THEN 0 ELSE Spaces(Reverse(text))

ReadsAt(o, text, pattern, skip) ==
    /\ skip >= 0 /\ skip + Len(pattern) <= Len(text)
    /\ \A i \in DOMAIN pattern : Fold(o, text[skip + i]) = pattern[i]

At(o, text, pattern, skip) ==
    [start |-> skip, end |-> skip + Len(pattern), pos |-> <<>>,
     score |-> CalculateScore(o, text, pattern, skip + 1, skip + Len(pattern)).score]

PrefixMatch(o, text, pattern) ==
    IF pattern = <<>> THEN EmptyMatch
    ELSE IF ReadsAt(o, text, pattern, Leading(text, pattern))
    THEN At(o, text, pattern, Leading(text, pattern)) ELSE NoMatch

SuffixMatch(o, text, pattern) ==
    LET end == Len(text) - (IF pattern = <<>> THEN Spaces(Reverse(text)) ELSE Trailing(text, pattern))
    IN  IF pattern = <<>> THEN [EmptyMatch EXCEPT !.start = end, !.end = end]
        ELSE IF ReadsAt(o, text, pattern, end - Len(pattern))
        THEN At(o, text, pattern, end - Len(pattern)) ELSE NoMatch

EqualScore(o, pattern) == (ScoreMatch + BoundaryWhite(o)) * Len(pattern) + BoundaryWhite(o)

\* With normalization the letters of the pattern are normalized once more.
EqualMatch(o, text, pattern) ==
    LET same == IF o.norm THEN [i \in DOMAIN pattern |-> Normalized(pattern[i])] ELSE pattern
    IN  IF pattern = <<>> THEN NoMatch
        ELSE IF /\ Len(text) - Leading(text, pattern) - Trailing(text, pattern) = Len(pattern)
                /\ ReadsAt(o, text, same, Leading(text, pattern))
        THEN [start |-> Leading(text, pattern), end |-> Leading(text, pattern) + Len(pattern),
              pos |-> <<>>, score |-> EqualScore(o, pattern)]
        ELSE NoMatch

(***************************************************************************)
(* Reference definitions and properties                                    *)
(***************************************************************************)

\* The callers' part: the pattern is folded when texts are.
Folded(o, pattern) == [i \in DOMAIN pattern |-> Fold(o, pattern[i])]

\* The ways to find the characters of the pattern in the text, in their order.
Embeddings(o, text, pattern) ==
    { f \in [DOMAIN pattern -> DOMAIN text] :
        /\ \A k \in DOMAIN pattern : Fold(o, text[f[k]]) = pattern[k]
        /\ \A k \in 2..Len(pattern) : f[k - 1] < f[k] }

\* Where the text has the pattern as it is, and between word boundaries.
Places(o, text, pattern) ==
    {skip \in 0..(Len(text) - Len(pattern)) : ReadsAt(o, text, pattern, skip)}
BoundaryPlaces(o, text, pattern) ==
    { skip \in Places(o, text, pattern) :
        /\ BonusAt(o, text, skip + 1) >= Boundary
        /\ skip = 0 \/ Separates(text[skip])
        /\ skip + Len(pattern) = Len(text) \/ Separates(text[skip + Len(pattern) + 1]) }

\* Is what was found a match, between its start and its end?
IsMatch(all, found) ==
    /\ \E f \in all : found.pos = [k \in DOMAIN f |-> f[k] - 1]
    /\ found.pos[1] = found.start /\ Last(found.pos) = found.end - 1

\* Does normalization change the text?
Accented(o, text) == FoldedText(o, text) # FoldedText(Unnormalized(o), text)

\* Both fuzzy algorithms find a match exactly when there is one, and what they
\* find is one: its positions are between its start and its end, whatever an
\* earlier call left in the slab.  V1 cannot be narrowed to a match that needs no
\* normalization (algo.go:760-779), hence not at all for a text without accents;
\* with accents, and backward, it may panic instead (algo.go:674).
FuzzyExact(o, text, pattern, stale, v2, v1, all) ==
    /\ v1 = Panic => Accented(o, text) /\ ~o.forward
    /\ (v1 # NoMatch) = (all # {}) /\ (v2 # NoMatch) = (all # {})
    /\ \A v \in {v1, v2} \ {NoMatch, Panic} : IsMatch(all, v)
    /\ v2 = Panic => FallsBack(o, text, pattern)
    /\ v1 \notin {NoMatch, Panic} =>
           \A f \in Embeddings(Unnormalized(o), text, pattern) :
               ~(v1.start + 1 <= f[1] /\ f[Len(pattern)] <= v1.end
                     /\ f[Len(pattern)] - f[1] < v1.end - 1 - v1.start)

\* An exact search finds the pattern when it is there, at the place of the best
\* bonus: the first one, in the direction of the search, that is at a boundary.
ExactExact(o, text, pattern, places, found) ==
    IF places = {} THEN found = NoMatch
    ELSE LET bonus(skip) == BonusAt(o, text, skip + 1)
             edges == {skip \in places : bonus(skip) >= Boundary}
             best == IF edges # {} THEN edges
                     ELSE {skip \in places : \A other \in places : bonus(skip) >= bonus(other)}
         IN  /\ found.start = IF o.forward THEN Min(best) ELSE Max(best)
             /\ found.end = found.start + Len(pattern)

\* A prefix, a suffix and the whole are what is left of the text without the
\* spaces the pattern does not ask for.
AnchoredExact(o, text, pattern, places) ==
    LET from == Leading(text, pattern)
        to == Len(text) - Trailing(text, pattern)
    IN  /\ (PrefixMatch(o, text, pattern).start >= 0) = (from \in places)
        /\ (SuffixMatch(o, text, pattern).start >= 0) = (to - Len(pattern) \in places)
        /\ (EqualMatch(o, text, pattern).start >= 0)
               = (from \in places /\ from + Len(pattern) = to)

\* What the user sees as a match is one, and every match is found.
MatchesExactly(o, text, pattern, stale) ==
    /\ \A v2 \in {FuzzyMatchV2(o, text, pattern, stale)}, v1 \in {FuzzyMatchV1(o, text, pattern)},
          all \in {Embeddings(o, text, pattern)} :
              FuzzyExact(o, text, pattern, stale, v2, v1, all)
    /\ \A places \in {Places(o, text, pattern)} :
           /\ ExactExact(o, text, pattern, places, ExactMatch(o, FALSE, text, pattern))
           /\ AnchoredExact(o, text, pattern, places)
    /\ (ExactMatch(o, TRUE, text, pattern).start >= 0)
           = (BoundaryPlaces(o, text, pattern) # {} /\ (o.forward \/ Len(pattern) = 1))

\* FuzzyMatchV2 never scores less than FuzzyMatchV1 (algo.go:24-27).
Optimal(o, text, pattern) ==
    FuzzyMatchV2(o, text, pattern, FALSE).score >= FuzzyMatchV1(o, text, pattern).score

=============================================================================
