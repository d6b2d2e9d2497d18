---------------------------- MODULE MCAlgorithms ----------------------------
(***************************************************************************)
(* The algorithms that keep no state of their own, evaluated on every      *)
(* sample of the sets below.  A behavior chooses an algorithm, then a      *)
(* sample.                                                                 *)
(***************************************************************************)
EXTENDS Query

R == INSTANCE Rank
T == INSTANCE Tokens
L == INSTANCE Layout
A == INSTANCE Ansi
S == INSTANCE Server

VARIABLES kind, sample
vars == <<kind, sample>>

Seqs(n, set) == UNION {[1..k -> set] : k \in 0..n}

Kinds == {"match", "query", "merge", "rank", "token", "layout", "color", "request"}
Init == kind = "none" /\ sample = <<>>
Choose == kind = "none" /\ kind' \in Kinds /\ UNCHANGED sample
Ready(k) == kind = k /\ sample = <<>>
Sample(x) == sample' = x /\ UNCHANGED kind

\* Texts of four characters, patterns of three, and texts with accents and with a
\* delimiter; a slab with and without what an earlier call left, and one that is
\* too small for the matrix of most of them.
Settings == {<<TRUE, 100, FALSE>>, <<TRUE, 100, TRUE>>, <<FALSE, 100, FALSE>>, <<TRUE, 5, FALSE>>}
Texts == Seqs(4, {"a", "A", "_"}) \cup Seqs(3, {"a", "/", " "}) \cup Seqs(3, {"a'", "A", "1"})
             \cup Seqs(4, {"a", "a'", "b"})
Patterns == Seqs(3, {"a", "A"}) \cup Seqs(2, {"a", "_", "a'"}) \cup {<<"a", "b">>, <<"b", "a">>, <<"b", "a", "b">>}
Match ==
    /\ Ready("match")
    /\ \E cs, forward \in BOOLEAN, s \in Settings, text \in Texts, pattern \in Patterns :
           \E o \in {[cs |-> cs, norm |-> s[1], forward |-> forward, scheme |-> "default", slab |-> s[2]]} :
               /\ pattern = [k \in DOMAIN pattern |-> Fold(o, pattern[k])]
               /\ Len(pattern) \in 1..Len(text)
               /\ Sample(<<o, text, pattern, s[3]>>)

Items == << <<"a", "b">>, <<"b", "A">>, <<"a'", " ", "1">> >>
Modes == [fuzzy : BOOLEAN, extended : BOOLEAN, case : {"smart"}, norm : {TRUE}, forward : {TRUE},
          scheme : {"default"}]
Queries == Seqs(3, {"a", "!", " ", "b"})
    \cup {<<"A">>, <<"b", "A">>, <<"!", "a", " ", "b">>, <<"a'">>, <<"a", "|", "b">>,
          <<"a", " ", "|", " ", "b">>, <<"'", "b">>, <<"'", "b", "'">>, <<"b", "$">>, <<"^", "b">>,
          <<"b", "\\", " ", "a">>, <<"a", "'">>}
Query ==
    /\ Ready("query")
    /\ \E m \in Modes, e, q \in Queries : Sample([m |-> m, e |-> <<e>>, q |-> q])

\* A scan of up to five matches with two different points, split in up to three
\* parts, read in every order of two reads.
Result(points, index) == [points |-> <<points>>, index |-> index]
Counts == {<<3, 2>>, <<2, 2, 1>>, <<1, 0, 2, 2>>, <<5>>}
Before(counts, i) == FoldSeq(LAMBDA n, sum : n + sum, 0, SubSeq(counts, 1, i - 1))
Merge ==
    /\ Ready("merge")
    /\ \E counts \in Counts, points \in [1..5 -> 1..2], parts \in 1..3, sorted, tac \in BOOLEAN,
          calls \in [1..2 -> 1..5] :
           Sample([chunks |-> [i \in DOMAIN counts |->
                                [j \in 1..counts[i] |-> Result(points[Before(counts, i) + j], Before(counts, i) + j)]],
                            parts |-> parts, sorted |-> sorted, tac |-> tac, calls |-> calls])

Spanned(text, score, index) ==
    {[text |-> text, spans |-> {<<b, e>>}, score |-> score, index |-> index] :
         <<b, e>> \in {p \in (0..Len(text)) \X (0..Len(text)) :
                           p[1] < p[2] /\ text[p[1] + 1] = "a" /\ text[p[2]] = "a"}}
RankTexts == Seqs(4, {"a", " ", "/"})
Rank ==
    /\ Ready("rank")
    /\ \E c \in {"score", "length", "chunk", "pathname", "begin", "end"}, tac \in BOOLEAN,
          t \in RankTexts, u \in Seqs(3, {"a", " ", "/"}) :
           \E r \in Spanned(t, 2, 1), s \in Spanned(u, 2, 2) \cup Spanned(u, 3, 2) :
               Sample([criteria |-> <<c, "length">>, r |-> r, s |-> s, tac |-> tac])

Delimited == {<<"awk">>, <<"str", <<":">>>>, <<"str", <<":", " ">>>>, <<"regex", {":", " "}>>}
Expressions == [begin : -3..3, end : -3..3, dots : BOOLEAN]
Token ==
    /\ Ready("token")
    /\ \E text \in Seqs(4, {"a", "e'", " ", ":"}), d \in Delimited, e \in Expressions :
           Sample([text |-> text, d |-> d, e |-> e])

Sides == {"top", "right", "bottom", "left"}
PreviewOptions(position, size, percent, border) ==
    [position |-> position, size |-> size, percent |-> percent, border |-> border, threshold |-> 0,
     alternative |-> {}]
\* The options and those that the last call used: the same, or the alternative.
Below == PreviewOptions("down", 3, FALSE, Sides)
Beside == [PreviewOptions("right", 50, TRUE, Sides) EXCEPT !.threshold = 20, !.alternative = {Below}]
Previews ==
    {[options |-> P, active |-> P] :
         P \in {{}, {Beside}} \cup {{PreviewOptions(position, 50, TRUE, border)} :
                                     position \in {"up", "down", "left", "right"}, border \in {{}, Sides}}}
    \cup {[options |-> {Beside}, active |-> {Below}]}
\* A screen with room for everything, and one that is too small for most of it.
Screens == {<<40, 18>>, <<14, 7>>}
Layout ==
    /\ Ready("layout")
    /\ \E screen \in Screens, margin, padding \in {<<0, 0, 0, 0>>, <<1, 2, 0, 1>>}, listBorder \in {{}, Sides},
          inputBorder \in {{}, Sides, {"top"}}, headerBorder \in {{}, Sides},
          linesBorder \in {{}, {"phantom"}, Sides}, header, headerLines \in {0, 1},
          separator, reverse, headerFirst \in BOOLEAN, preview \in Previews :
           /\ headerFirst => header + headerLines > 0
           /\ margin = padding => margin = <<0, 0, 0, 0>>
           /\ Sample([width |-> screen[1], height |-> screen[2], margin |-> margin, padding |-> padding,
                   border |-> IF margin = padding THEN {} ELSE Sides,
                   listBorder |-> listBorder, inputBorder |-> inputBorder, headerBorder |-> headerBorder,
                   linesBorder |-> linesBorder, shown |-> TRUE, header |-> header, headerLines |-> headerLines,
                   separator |-> separator, reverse |-> reverse, headerFirst |-> headerFirst,
                   scrollbar |-> TRUE, bw |-> 1, preview |-> preview.options, active |-> preview.active])

\* Four characters that may be a sequence, and three parts of a line; the line
\* before may have left a background.
Parts ==
    { <<"a">>, <<"e'">>, <<"esc", "[", "1", "m">>, <<"esc", "[", "3", "1", "m">>, <<"esc", "[", "m">>,
      <<"esc", "[", "3", "8", ";", "5", ";", "7", "m">>, <<"esc", "[", "0", "K">>,
      <<"esc", "[", "4", "8", ":", "2", ":", "1", ":", "2", ":", "3", "m">>,
      <<"esc", "]", "8", ";", ";", "a", "bel">>, <<"esc", "]", "8", ";", ";", "esc">>, <<"\\">>, <<"bs">>,
      <<"esc">>, <<"so">> }
Color ==
    /\ Ready("color")
    /\ \/ \E s \in Seqs(4, {"a", "esc", "[", "]", "8", ";", "m", "bs", "nl", "\\"}) :
              Sample(<<s, A!Plain>>)
       \/ \E s \in Seqs(3, {"a", "esc", ";", "bel", "\\"}) :
              Sample(<<<<"esc", "]", "8", ";">> \o s, A!Plain>>)
       \/ \E parts \in Seqs(3, Parts), state \in {A!Plain, [A!Plain EXCEPT !.bg = <<2>>]} :
              Sample(<<FlattenSeq(parts), state>>)

\* A request in one piece or in two; the header that announces the length can be
\* missing, wrong, torn or there twice.
Unit(u, n) == [u |-> u, size |-> n]
Bodies == {<<>>, S!Chars(<<"a">>), S!Chars(<<"a", "b">>), S!Chars(<<"x">>), S!Chars(<<"a">>) \o S!CRLF,
           S!CRLF \o S!Chars(<<"a">>), S!Chars(<<"a">>) \o S!CRLF \o S!Chars(<<"b">>)}
\* Of 200, as much as the buffer of the scanner, and longer, in one line or in two.
Stretch(n) == [i \in 1..n |-> Unit("stretch", 20)]
LongBodies == {Stretch(10), Stretch(11), Stretch(10) \o S!CRLF \o Stretch(1), Stretch(9) \o S!CRLF \o Stretch(2)}
Headers == {S!Length(<<"0">>), S!Length(<<"2">>), S!Length(<<"3">>), S!Length(<<"1", "2">>),
            S!Length(<<"4", "9", "9">>), S!Key(<<"k">>), S!Key(<<"k", "2">>)}
Posts == {[first |-> S!Post, headers |-> h, body |-> b] : h \in Seqs(2, Headers), b \in Bodies}
             \cup {[first |-> S!Post, headers |-> <<S!Length(l)>>, body |-> b] :
                       l \in {<<"2", "0", "0">>, <<"2", "2", "0">>}, b \in LongBodies}
Others == {[first |-> f, headers |-> <<>>, body |-> <<>>] :
               f \in {S!Get(limit, offset) : limit, offset \in 0..3} \cup {Unit("put", 10)}}
Server(host, key, room, locked) ==
    [host |-> host, key |-> key, room |-> room, locked |-> locked, maxLength |-> 240, maxToken |-> 200,
     matches |-> <<"i", "j", "k">>]
Request ==
    /\ Ready("request")
    /\ \E host \in {"", "0.0.0.0"}, key \in {<<>>, <<"k">>}, flag \in BOOLEAN :
           \/ \E r \in Posts : \E cuts \in {{}} \cup {{c} : c \in 1..(Len(S!Text(r)) - 1)} :
                  Sample(<<r, cuts, Server(host, key, flag, FALSE)>>)
           \/ \E r \in Others, cuts \in {{}, {1}, {2}} :
                  Sample(<<r, cuts, Server(host, key, TRUE, flag)>>)

Next == Choose \/ Match \/ Query \/ Merge \/ Rank \/ Token \/ Layout \/ Color \/ Request
Spec == Init /\ [][Next]_vars

Chosen(k) == kind = k /\ sample # <<>>

(***************************************************************************)
(* Properties                                                              *)
(***************************************************************************)

\* What the user sees as a match is one and every match is found, whatever an
\* earlier call left in the slab (FuzzyMatchV1, FuzzyMatchV2, ExactMatchNaive,
\* PrefixMatch, SuffixMatch and EqualMatch of algo.go); only FuzzyMatchV1 may panic
\* for a text with accents, backward (algo.go:674), and FuzzyMatchV2 with it.
MatchExact == Chosen("match") => MatchesExactly(sample[1], sample[2], sample[3], sample[4])

\* The cache never changes the answer to a query, whatever was asked before
\* (pattern.go, cache.go), and a query is read as the manual says: no term is
\* empty, a bar joins two, and an inverse term holds where the exact one does not.
QueryExact ==
    Chosen("query") =>
        /\ CacheIsSound(sample.m, TRUE, Items, sample.e, sample.q)
        /\ sample.m.extended => \A i \in DOMAIN Items : ReadsWell(sample.m, sample.q, Items[i])

\* However the scan is split and in whatever order the screen asks, item n of
\* the list is item n of all matches, sorted (merger.go, matcher.go); and two
\* matches are in the order that the manual gives for --tiebreak (result.go).
RankExact ==
    /\ Chosen("merge") =>
           /\ R!IsScan(sample.chunks)
           /\ R!MergeExact(sample.chunks, sample.parts, sample.sorted, sample.tac, sample.calls)
    /\ Chosen("rank") => R!RanksRight(sample.criteria, sample.r, sample.s, sample.tac)

\* What is searched with --nth is the text of the fields the expression names,
\* and the place of what is found is its place in the line (tokenizer.go); an
\* expression survives being written out for a child process.
TokenExact ==
    Chosen("token") => T!TokensExact(sample.text, sample.d, sample.e, "a") /\ T!RoundTrip(sample.e)

\* No window covers another on any screen, and none leaves the area inside the
\* margins but for a preview that is wider than it; without a preview the list has
\* the lines that --height=~N counts on; and with room for what was asked for,
\* nothing is squeezed out (resizeWindows, terminal.go).
LayoutExact == Chosen("layout") => L!IsConfiguration(sample) /\ L!LayoutExact(sample)

\* A line without its escape sequences has its text, and every character the
\* color that was set last before it, on this line or an earlier one (ansi.go).
AnsiExact == Chosen("color") => A!AnsiExact(sample[1], sample[2])

\* Actions reach the terminal exactly when the client is told so, and only
\* complete requests with the right key are carried out; those are, unless a
\* line of the header is torn between two reads, or a line of the body is longer
\* than the scanner's buffer and the request is refused (server.go).
ServerExact == Chosen("request") => S!ServerExact(sample[1], sample[2], sample[3])

=============================================================================
