------------------------------- MODULE Server -------------------------------
(***************************************************************************)
(* The server of --listen (server.go): what it answers to a connection and *)
(* which actions it hands to the terminal's loop.  What a client sends is  *)
(* a sequence of units, [u, size]: the first line, the name of a header    *)
(* with its colon, a character, or a longer stretch of the body; it        *)
(* arrives in fragments.  Sizes are in bytes.                              *)
(***************************************************************************)
EXTENDS Integers, Sequences, FiniteSets, SequencesExt, FiniteSetsExt

\* e is [host, key, room, locked, maxLength, maxToken, matches]: where the server
\* listens, FZF_API_KEY (<<>> for none), whether the loop takes the actions within
\* channelTimeout, whether it holds the terminal's mutex as long, maxContentLength,
\* the size of the scanner's buffer (bufio.MaxScanTokenSize), and the current result.
Local == {"", "localhost", "127.0.0.1"}

\* startHttpServer
Starts(e) == e.host \in Local \/ e.key # <<>>

CR == [u |-> "cr", size |-> 1]
LF == [u |-> "lf", size |-> 1]
CRLF == <<CR, LF>>
Size(s) == FoldSeq(LAMBDA a, n : a.size + n, 0, s)

Get(limit, offset) == [u |-> "get", size |-> 14, limit |-> limit, offset |-> offset]
Post == [u |-> "post", size |-> 15]
Char(a) == [u |-> a, size |-> 1]
Chars(s) == [i \in DOMAIN s |-> Char(s[i])]
Length(digits) == <<[u |-> "length", size |-> 16]>> \o Chars(digits)
Key(k) == <<[u |-> "key", size |-> 10]>> \o Chars(k)

\* The value of a header line, and what strconv.Atoi makes of it: 0 for what is
\* no number, which is refused like 0.
Value(line) == [i \in 1..(Cardinality({j \in DOMAIN line : line[j] \notin {CR, LF}}) - 1) |-> line[i + 1].u]
Digit == [d \in {"0", "1", "2", "3", "4", "9"} |->
             CASE d = "0" -> 0 [] d = "1" -> 1 [] d = "2" -> 2 [] d = "3" -> 3 [] d = "4" -> 4 [] d = "9" -> 9]
Number(s) == IF ToSet(s) \subseteq DOMAIN Digit THEN FoldSeq(LAMBDA d, n : 10 * n + Digit[d], 0, Reverse(s))
             ELSE 0

\* The first bytes of s, n of them.
Bytes(s, n) == SubSeq(s, 1, Max({k \in 0..Len(s) : Size(SubSeq(s, 1, k)) <= n}))

(***************************************************************************)
(* The scanner.  c is a connection, [data, fragments, section, length,     *)
(* key, body, answer, waited]: what was read and not yet split, what is    *)
(* still to come, the part of the request that is read next, what its      *)
(* headers said, the answer (0 as long as there is none), and whether it   *)
(* took the end of the connection, or the read deadline, to get on.        *)
(***************************************************************************)

LineEnd(data) ==
    LET at == {i \in 1..(Len(data) - 1) : SubSeq(data, i, i + 1) = CRLF}
    IN  IF at = {} THEN 0 ELSE Min(at) + 1

\* (Variant: a piece of a header line is taken for the last line.)
FinalAnyTime(c) == TRUE

\* What is left is the last token when enough of the body is there.
Final(c) == Size(c.body) + Size(c.data) >= c.length

\* parseGetParams, dumpStatus
Page(e, get) ==
    LET n == Max({0, Min({get.limit, Len(e.matches) - get.offset})})
    IN  [i \in 1..n |-> e.matches[i + get.offset]]

Answered(c, code) == [c EXCEPT !.answer = code]

\* handleHttpRequest, one token.
Line(c, e, text) ==
    LET first == IF text = <<>> THEN [u |-> "", size |-> 0] ELSE text[1]
    IN  CASE c.section = 0 ->
               CASE first.u = "get" ->
                      IF e.locked THEN Answered(c, 503)
                      ELSE [Answered(c, 200) EXCEPT !.page = Page(e, first)]
                 [] first.u = "post" -> [c EXCEPT !.section = 1]
                 [] OTHER -> Answered(c, 400)
          [] c.section = 1 ->
               CASE text = CRLF /\ c.length = 0 -> Answered(c, 400)
                 [] text = CRLF /\ c.length > 0 -> [c EXCEPT !.section = 2]
                 [] first.u = "length" -> IF Number(Value(text)) \in 1..e.maxLength
                                          THEN [c EXCEPT !.length = Number(Value(text))] ELSE Answered(c, 400)
                 [] first.u = "key" -> [c EXCEPT !.key = Value(text)]
                 [] OTHER -> c
          [] c.section = 2 -> [c EXCEPT !.body = @ \o text]

\* parseSingleActionList, of a body without the ends of lines around it: "x" is
\* no action.
Unended(s) ==
    LET kept == {i \in DOMAIN s : s[i] \notin {CR, LF}}
    IN  IF kept = {} THEN <<>> ELSE SubSeq(s, Min(kept), Max(kept))
ActionsOf(s) == IF \E i \in DOMAIN s : s[i].u = "x" THEN <<>> ELSE Unended(s)

\* handleHttpRequest, after the last token.
Finished(c, e) ==
    LET actions == ActionsOf(Bytes(c.body, c.length))
    IN  CASE e.key # <<>> /\ c.key # e.key -> Answered(c, 401)
          [] Size(c.body) < c.length -> Answered(c, 400)
          [] actions = <<>> -> Answered(c, 400)
          [] e.room -> [Answered(c, 200) EXCEPT !.queued = actions]
          [] OTHER -> Answered(c, 503)

\* (Variant: the buffer grows with what is read.)
ReadAll(c, e) == [c EXCEPT !.data = @ \o Head(c.fragments), !.fragments = Tail(@)]

\* A read, of what there is room for in the buffer; a unit is read as a whole.
Read(c, e) ==
    LET next == Head(c.fragments)
        taken == Bytes(next, e.maxToken - Size(c.data))
        rest == SubSeq(next, Len(taken) + 1, Len(next))
    IN  [c EXCEPT !.data = @ \o taken,
                  !.fragments = IF rest = <<>> THEN Tail(@) ELSE <<rest>> \o Tail(@)]

\* ErrTooLong: the buffer is full, and there is no token in it.
Full(c, e) ==
    Size(c.data) + (IF c.fragments = <<>> THEN 1 ELSE Head(Head(c.fragments)).size) > e.maxToken

RECURSIVE Scan(_, _)
Scan(c, e) ==
    CASE c.answer # 0 -> c
      [] LineEnd(c.data) > 0 ->
             Scan([Line(c, e, SubSeq(c.data, 1, LineEnd(c.data)))
                      EXCEPT !.data = SubSeq(@, LineEnd(c.data) + 1, Len(@))], e)
      [] c.data # <<>> /\ Final(c) ->
             LET last == Line(c, e, c.data) IN IF last.answer # 0 THEN last ELSE Finished(last, e)
      [] Full(c, e) -> Finished(c, e)
      [] c.fragments # <<>> -> Scan(Read(c, e), e)
      [] OTHER ->
             LET last == Line([c EXCEPT !.waited = TRUE], e, c.data)
             IN  IF last.answer # 0 THEN last ELSE Finished(last, e)

Handle(fragments, e) ==
    Scan([data |-> <<>>, fragments |-> fragments, section |-> 0, length |-> 0, key |-> <<>>, body |-> <<>>,
          answer |-> 0, waited |-> FALSE, page |-> <<>>, queued |-> <<>>], e)

(***************************************************************************)
(* Properties.  r is a request, [first, headers, body]; cuts are the       *)
(* places at which it comes apart.                                         *)
(***************************************************************************)

HeadOf(r) == <<r.first>> \o CRLF \o FlattenSeq([i \in DOMAIN r.headers |-> r.headers[i] \o CRLF])
Text(r) == HeadOf(r) \o CRLF \o r.body

Fragments(text, cuts) ==
    LET ends == SetToSortSeq(cuts \cup {Len(text)}, <)
    IN  [k \in DOMAIN ends |-> SubSeq(text, 1 + (IF k = 1 THEN 0 ELSE ends[k - 1]), ends[k])]

LastOf(r, name) == {r.headers[i] : i \in {Max({0} \cup {j \in DOMAIN r.headers : r.headers[j][1].u = name})} \ {0}}
Allowed(r, e) == e.key = <<>> \/ \E h \in LastOf(r, "key") : Value(h) = e.key
Lengths(r) == {Number(Value(h)) : h \in {r.headers[i] : i \in {j \in DOMAIN r.headers : r.headers[j][1].u = "length"}}}
Asked(r) == UNION {ToSet(ActionsOf(Bytes(r.body, Number(Value(h))))) : h \in LastOf(r, "length")}
Sound(r, e) == /\ Lengths(r) \subseteq 1..e.maxLength
               /\ \E h \in LastOf(r, "length") : Size(r.body) >= Number(Value(h))
               /\ Asked(r) # {}

\* Has every line of the body that was announced, with its end, room in the
\* scanner's buffer?
Fits(r, e) ==
    \A h \in LastOf(r, "length") : \A body \in {Bytes(r.body, Number(Value(h)))} :
        \A i, j \in DOMAIN body :
            i <= j /\ LineEnd(SubSeq(body, i, j - 1)) = 0 => Size(SubSeq(body, i, j)) <= e.maxToken

\* The cuts inside a line of the header.
Torn(r, cuts) ==
    \E c \in cuts : c < Len(HeadOf(r) \o CRLF) /\ (c = 1 \/ SubSeq(Text(r), c - 1, c) # CRLF)

\* Actions are handed to the loop exactly when the answer to a POST is 200; then
\* the client sent all of them, with the right key, and a server that others can
\* reach has a key.  A request that is sound, and no header line of which is
\* torn, is carried out or answered with 503; the answer does not wait for the
\* client, unless the body ends with the end of a line.  Only when a line of the
\* body is longer than the scanner's buffer (64K) it is refused as incomplete,
\* although maxContentLength allows for 1M.  A GET answers with the part of the
\* result that was asked for.
ServerExact(r, cuts, e) ==
    Starts(e) =>
    \A c \in {Handle(Fragments(Text(r), cuts), e)} :
        /\ c.answer \in {200, 400, 401, 503}
        /\ r.first.u = "post" =>
               /\ c.answer = 200 <=> c.queued # <<>>
               /\ c.queued # <<>> =>
                      /\ Allowed(r, e) /\ Sound(r, e) /\ ToSet(c.queued) = Asked(r)
                      /\ e.host \notin Local => \E h \in LastOf(r, "key") : Value(h) = e.key
               /\ c.answer = 503 => ~e.room
               /\ Sound(r, e) /\ ~Torn(r, cuts) =>
                      /\ c.answer = CASE ~Allowed(r, e) -> 401
                                      [] Allowed(r, e) /\ ~Fits(r, e) -> 400
                                      [] Allowed(r, e) /\ Fits(r, e) -> IF e.room THEN 200 ELSE 503
                      /\ c.waited => LineEnd(r.body) > 0
        /\ r.first.u = "get" =>
               /\ c.queued = <<>>
               /\ ~Torn(r, cuts) /\ ~e.locked =>
                      ToSet(c.page) = {e.matches[i] : i \in DOMAIN e.matches
                                          \cap ((r.first.offset + 1)..(r.first.offset + r.first.limit))}

=============================================================================
