------------------------------- MODULE Tokens -------------------------------
(***************************************************************************)
(* Fields of a line and the expressions that select them: --delimiter,     *)
(* --nth, --with-nth, --accept-nth (tokenizer.go).  A text is a sequence   *)
(* of characters.  A delimiter is <<"awk">>, <<"str", s>> with s a text    *)
(* that is not empty, or <<"regex", C>>: one or more characters of C.      *)
(*                                                                         *)
(* An expression is [begin, end, dots], for N, N.., ..N, N..M and ..; 0    *)
(* stands for what is not written.                                         *)
(***************************************************************************)
EXTENDS Integers, Sequences, FiniteSets, SequencesExt, FiniteSetsExt

White == {" ", "tab"}
Ellipsis == 0

(***************************************************************************)
(* Ranges                                                                  *)
(***************************************************************************)

Range2(begin, end) == [begin |-> begin, end |-> end]
NewRange(begin, end) ==
    Range2(IF begin = 1 /\ end # 1 THEN Ellipsis ELSE begin,
           IF end = -1 THEN Ellipsis ELSE end)

\* ParseRange, as a set with the range or nothing.
ParseRange(e) ==
    IF ~e.dots THEN IF e.begin = 0 THEN {} ELSE {NewRange(e.begin, e.begin)}
    ELSE IF e.begin < 0 /\ e.end > 0 THEN {}
    ELSE {NewRange(e.begin, e.end)}

\* RangesToString, for one range.
ToExpression(r) ==
    CASE r.begin = r.end -> [begin |-> r.begin, end |-> 0, dots |-> r.begin = Ellipsis]
      [] r.begin = -1 -> [begin |-> -1, end |-> 0, dots |-> FALSE]
      [] OTHER -> [begin |-> r.begin, end |-> r.end, dots |-> TRUE]

(***************************************************************************)
(* Tokenize                                                                *)
(***************************************************************************)

\* A token, and the number of characters before it.
Token(text, prefix) == [text |-> text, prefix |-> prefix]

\* In an encoding where other characters than those of the ASCII take two bytes.
BytesOf(text) == FoldSeq(LAMBDA c, n : n + (IF c = "e'" THEN 2 ELSE 1), 0, text)

\* (Variant: bytes are counted.)
RECURSIVE WithPrefixBytes(_, _)
WithPrefixBytes(texts, begin) ==
    IF texts = <<>> THEN <<>>
    ELSE <<Token(Head(texts), begin)>> \o WithPrefixBytes(Tail(texts), begin + BytesOf(Head(texts)))

RECURSIVE WithPrefixLengths(_, _)
WithPrefixLengths(texts, begin) ==
    IF texts = <<>> THEN <<>>
    ELSE <<Token(Head(texts), begin)>> \o WithPrefixLengths(Tail(texts), begin + Len(Head(texts)))

\* awkTokenizer: a token is what is not white and the white after it.
Begins(text) == {i \in DOMAIN text : text[i] \notin White /\ (i = 1 \/ text[i - 1] \in White)}
EndOf(text, i) == Min({Len(text)} \cup {j - 1 : j \in {k \in Begins(text) : k > i}})
AwkTokens(text) ==
    LET begins == SetToSortSeq(Begins(text), <)
    IN  [k \in DOMAIN begins |-> SubSeq(text, begins[k], EndOf(text, begins[k]))]

\* strings.SplitAfter
RECURSIVE SplitAfter(_, _)
SplitAfter(text, s) ==
    LET at == {i \in 1..(Len(text) - Len(s) + 1) : SubSeq(text, i, i + Len(s) - 1) = s}
    IN  IF at = {} THEN <<text>>
        ELSE <<SubSeq(text, 1, Min(at) + Len(s) - 1)>>
                 \o SplitAfter(SubSeq(text, Min(at) + Len(s), Len(text)), s)

\* A token ends with a run of the characters of the regex, or with the text.
RegexEnds(text, C) ==
    {i \in DOMAIN text : text[i] \in C /\ (i = Len(text) \/ text[i + 1] \notin C)}
    \cup (IF text = <<>> THEN {} ELSE {Len(text)})
RegexTokens(text, C) ==
    LET ends == SetToSortSeq(RegexEnds(text, C), <)
    IN  [k \in DOMAIN ends |-> SubSeq(text, IF k = 1 THEN 1 ELSE ends[k - 1] + 1, ends[k])]

Tokenize(text, d) ==
    CASE d[1] = "awk" -> WithPrefixLengths(AwkTokens(text), Min({Len(text)} \cup {i - 1 : i \in Begins(text)}))
      [] d[1] = "str" -> WithPrefixLengths(SplitAfter(text, d[2]), 0)
      [] d[1] = "regex" -> WithPrefixLengths(RegexTokens(text, d[2]), 0)

(***************************************************************************)
(* Transform                                                               *)
(***************************************************************************)

\* -1 is the last one.
Nth(i, n) == IF i < 0 THEN i + n + 1 ELSE i

\* The first and the last token that a range asks for; they may not exist.
Asked(r, n) ==
    CASE r.begin = r.end -> IF r.begin = Ellipsis THEN <<1, n>> ELSE <<Nth(r.begin, n), Nth(r.begin, n)>>
      [] r.begin = Ellipsis -> <<1, Nth(r.end, n)>>
      [] r.end = Ellipsis -> <<Nth(r.begin, n), n>>
      [] OTHER -> <<Nth(r.begin, n), Nth(r.end, n)>>

Joined(tokens, from, to) ==
    FlattenSeq([k \in 1..(to - from + 1) |-> tokens[from + k - 1].text])

Max0(n) == IF n < 0 THEN 0 ELSE n

\* The token after which the characters of the part are counted: a single one
\* that does not exist is the first.
FirstToken(r, asked, n) ==
    IF r.begin = r.end /\ asked[1] \notin 1..n THEN 0 ELSE Max0(asked[1] - 1)

Part(tokens, r, asked, n) ==
    Token(Joined(tokens, Max({1, asked[1]}), Min({n, asked[2]})),
          IF FirstToken(r, asked, n) < n THEN tokens[FirstToken(r, asked, n) + 1].prefix ELSE 0)

Transform(tokens, ranges) ==
    [k \in DOMAIN ranges |-> Part(tokens, ranges[k], Asked(ranges[k], Len(tokens)), Len(tokens))]

(***************************************************************************)
(* Pattern.iter: the first part with a match, in positions of the text     *)
(***************************************************************************)

Places(part, c) == {i \in DOMAIN part.text : part.text[i] = c}
Iter(parts, c) ==
    LET with == {k \in DOMAIN parts : Places(parts[k], c) # {}}
    IN  IF with = {} THEN -1
        ELSE LET part == parts[Min(with)] IN Min(Places(part, c)) - 1 + part.prefix

(***************************************************************************)
(* Properties                                                              *)
(***************************************************************************)

\* No character of a line is lost or counted twice: its tokens are the line, and
\* the prefix of a token is its place.
Covers(text, d, tokens) ==
    /\ FlattenSeq([k \in DOMAIN tokens |-> tokens[k].text])
           = IF d[1] = "awk" /\ tokens # <<>> THEN SubSeq(text, tokens[1].prefix + 1, Len(text))
             ELSE IF d[1] = "awk" THEN <<>> ELSE text
    /\ \A k \in DOMAIN tokens :
           /\ tokens[k].prefix + Len(tokens[k].text) <= Len(text)
           /\ tokens[k].text = SubSeq(text, tokens[k].prefix + 1, tokens[k].prefix + Len(tokens[k].text))

\* The fields of an expression, as the manual explains it.
Written(i, n) == IF i < 0 THEN i + n + 1 ELSE i
Fields(e, n) ==
    IF ~e.dots THEN {Written(e.begin, n)} \cap 1..n
    ELSE (IF e.begin = 0 THEN 1 ELSE Written(e.begin, n))..(IF e.end = 0 THEN n ELSE Written(e.end, n))
             \cap 1..n

\* What is searched with --nth is the text of these fields, and what is found is
\* shown where it is in the line.
TokensExact(text, d, e, c) ==
    \A tokens \in {Tokenize(text, d)} :
        /\ Covers(text, d, tokens)
        /\ \A r \in ParseRange(e) : \A part \in {Transform(tokens, <<r>>)[1]} :
              LET fields == Fields(e, Len(tokens))
                  chosen == SelectSeq([k \in DOMAIN tokens |-> k], LAMBDA k : k \in fields)
              IN  /\ part.text = FlattenSeq([k \in DOMAIN chosen |-> tokens[chosen[k]].text])
                  /\ part.text # <<>> => \A i \in DOMAIN part.text : part.text[i] = text[part.prefix + i]
                  /\ Iter(<<part>>, c) >= 0 => text[Iter(<<part>>, c) + 1] = c

\* A range that is written out for a child process is the same when it is read
\* again; -1..-2, which selects nothing, is written as -1.
RoundTrip(e) ==
    \A r \in ParseRange(e) : ParseRange(ToExpression(r)) = {r} \/ (r.begin = -1 /\ r.end < -1)

=============================================================================
