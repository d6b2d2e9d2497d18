-------------------------------- MODULE Ansi --------------------------------
(***************************************************************************)
(* The escape sequences of the input (ansi.go): which they are, what is    *)
(* left of a line without them, and the colors of its characters.  A line  *)
(* is a sequence of characters; those that are not written as themselves   *)
(* are "esc", "bel", "bs" (backspace), "so" (shift out), "nl", and "e'",   *)
(* which is printed but is not ASCII.  A state is [fg, bg, attr, lbg, url].*)
(***************************************************************************)
EXTENDS Integers, Sequences, FiniteSets, SequencesExt, FiniteSetsExt

Digit == [c \in {"0", "1", "2", "3", "4", "5", "7", "8", "9"} |->
             CASE c = "0" -> 0 [] c = "1" -> 1 [] c = "2" -> 2 [] c = "3" -> 3 [] c = "4" -> 4
               [] c = "5" -> 5 [] c = "7" -> 7 [] c = "8" -> 8 [] c = "9" -> 9]
Numeric == DOMAIN Digit
Letters == {"a", "K", "m"}
Printable == Numeric \cup Letters \cup {"[", "]", "\\", ";", ":", " "}
CtrlSeqStart == {"\\", "[", "(", ")"}
Separators == {";", ":"}

\* Characters from i on that are in C, as the position after them.
After(s, i, C) == Min({Len(s) + 1} \cup {j \in i..Len(s) : s[j] \notin C})
HasAt(s, i, C) == i <= Len(s) /\ s[i] \in C

(***************************************************************************)
(* nextAnsiEscapeSequence.  Each operator gives the position after a       *)
(* sequence that begins at i, or 0.                                        *)
(***************************************************************************)

MatchControlSequence(s, i) ==
    LET end == After(s, i + 2, Numeric \cup Separators \cup {"?"})
    IN  IF HasAt(s, i + 1, CtrlSeqStart) /\ HasAt(s, end, Letters \cup {"@"}) THEN end + 1 ELSE 0

\* The command ends with a bell or with esc \; the one that ends a link may
\* have lost its last character.
LinkEnd == <<"esc", "]", "8", ";", ";", "esc">>
EndOfCommand(s, i, end) ==
    CASE HasAt(s, end, {"bel"}) -> end + 1
      [] HasAt(s, end, {"esc"}) /\ HasAt(s, end + 1, {"\\"}) -> end + 2
      [] end <= Len(s) /\ SubSeq(s, i, end) = LinkEnd -> end + 1
      [] OTHER -> 0

MatchOperatingSystemCommand(s, i) ==
    LET j == After(s, i + 2, Numeric)
    IN  IF HasAt(s, i + 1, {"]"}) /\ j > i + 2 /\ HasAt(s, j, Separators) /\ HasAt(s, j + 1, Printable)
        THEN EndOfCommand(s, i, After(s, j + 2, Printable)) ELSE 0

\* (Variant: what begins with esc and is nothing else stays.)
MatchEscapeKnown(s, i) ==
    IF MatchControlSequence(s, i) > 0 THEN MatchControlSequence(s, i)
    ELSE MatchOperatingSystemCommand(s, i)

MatchEscape(s, i) ==
    IF MatchControlSequence(s, i) > 0 THEN MatchControlSequence(s, i)
    ELSE IF MatchOperatingSystemCommand(s, i) > 0 THEN MatchOperatingSystemCommand(s, i)
    ELSE IF i < Len(s) /\ s[i + 1] # "nl" THEN i + 2 ELSE 0

\* What is found when the scan stops at i, as the first position and the one
\* after; a backspace goes with the character before it.
FoundAt(s, from, i) ==
    CASE s[i] = "bs" -> IF i > from /\ s[i - 1] # "nl" THEN {<<i - 1, i + 1>>} ELSE {}
      [] s[i] = "esc" -> IF MatchEscape(s, i) > 0 THEN {<<i, MatchEscape(s, i)>>} ELSE {}
      [] s[i] = "so" -> {<<i, i + 1>>}
      [] OTHER -> {}

\* The next sequence from `from' on.
Next(s, from) ==
    LET at == {i \in from..Len(s) : FoundAt(s, from, i) # {}}
    IN  IF at = {} THEN {} ELSE FoundAt(s, from, Min(at))

(***************************************************************************)
(* interpretCode                                                           *)
(***************************************************************************)

\* A color is none, <<n>> of the palette, or <<0, red, green, blue>>.
None == <<>>
Plain == [fg |-> None, bg |-> None, attr |-> {}, lbg |-> None, url |-> None]
Colored(state) == state # Plain

Reset(state) == [state EXCEPT !.fg = None, !.bg = None, !.attr = {}]

RECURSIVE Split(_, _)
Split(s, c) ==
    LET at == {i \in DOMAIN s : s[i] = c}
    IN  IF at = {} THEN <<s>>
        ELSE <<SubSeq(s, 1, Min(at) - 1)>> \o Split(SubSeq(s, Min(at) + 1, Len(s)), c)

\* parseAnsiCode: up to the next semicolon, or colon when there is none.  What is
\* not a number is left out.
NumberOf(s) == FoldSeq(LAMBDA c, n : 10 * n + Digit[c], 0, Reverse(s))
Numbers(s) ==
    LET fields == Split(s, ";")
        all == Front(fields) \o Split(Last(fields), ":")
        kept == SelectSeq(all, LAMBDA f : f # <<>> /\ ToSet(f) \subseteq Numeric)
    IN  [k \in DOMAIN kept |-> NumberOf(kept[k])]

Attrs == {1, 2, 3, 4, 5, 7, 9}
Without(n) == CASE n = 22 -> {1, 2} [] n - 20 \in Attrs -> {n - 20} [] OTHER -> {}

\* A number that begins a setting.
Set(state, n) ==
    CASE n = 0 -> Reset(state)
      [] n \in Attrs -> [state EXCEPT !.attr = @ \cup {n}]
      [] n \in 22..29 -> [state EXCEPT !.attr = @ \ Without(n)]
      [] n = 39 -> [state EXCEPT !.fg = None]
      [] n = 49 -> [state EXCEPT !.bg = None]
      [] n \in 30..37 -> [state EXCEPT !.fg = <<n - 30>>]
      [] n \in 40..47 -> [state EXCEPT !.bg = <<n - 40>>]
      [] n \in 90..97 -> [state EXCEPT !.fg = <<n - 82>>]
      [] n \in 100..107 -> [state EXCEPT !.bg = <<n - 92>>]
      [] OTHER -> state

Color(state, ground, color) ==
    IF ground = "fg" THEN [state EXCEPT !.fg = color] ELSE [state EXCEPT !.bg = color]
ColorOf(state, ground) == IF ground = "fg" THEN state.fg ELSE state.bg

\* a is [state, phase, ground]: 38 and 48 are followed by 5 and a color, or by 2
\* and three of them.
Interpret(a, n) ==
    CASE a.phase = 0 /\ n = 38 -> [a EXCEPT !.phase = 1, !.ground = "fg"]
      [] a.phase = 0 /\ n = 48 -> [a EXCEPT !.phase = 1, !.ground = "bg"]
      [] a.phase = 0 /\ n \notin {38, 48} -> [a EXCEPT !.state = Set(@, n)]
      [] a.phase = 1 -> [a EXCEPT !.phase = IF n = 2 THEN 10 ELSE IF n = 5 THEN 2 ELSE 0]
      [] a.phase = 2 -> [a EXCEPT !.state = Color(@, a.ground, <<n>>), !.phase = 0]
      [] a.phase = 10 -> [a EXCEPT !.state = Color(@, a.ground, <<0, n>>), !.phase = 11]
      [] a.phase \in {11, 12} ->
             [a EXCEPT !.state = Color(@, a.ground, Append(ColorOf(@, a.ground), n)),
                       !.phase = IF @ = 11 THEN 12 ELSE 0]

RECURSIVE InterpretAll(_, _)
InterpretAll(a, numbers) ==
    IF numbers # <<>> THEN InterpretAll(Interpret(a, Head(numbers)), Tail(numbers))
    ELSE IF a.phase > 0 THEN Color(a.state, a.ground, None) ELSE a.state

\* A sequence that sets a link, esc ] 8 ; params ; uri, and ends with a bell or
\* esc \.
IsLink(code) ==
    /\ Len(code) >= 4 /\ SubSeq(code, 1, 4) = SubSeq(LinkEnd, 1, 4)
    /\ Last(code) = "bel" \/ (Last(code) = "\\" /\ code[Len(code) - 1] = "esc")
LinkOf(code, state) ==
    LET body == SubSeq(code, 5, Len(code) - IF Last(code) = "bel" THEN 1 ELSE 2)
    IN  IF body = <<";">> THEN None
        ELSE IF \E i \in DOMAIN body : body[i] = ";" THEN body ELSE state.url

IsColor(code) == code[1] = "esc" /\ code[2] = "[" /\ Last(code) = "m"
ErasesLine(code) == Len(code) >= 2 /\ SubSeq(code, Len(code) - 1, Len(code)) = <<"0", "K">>

InterpretCode(code, state) ==
    IF ~IsColor(code)
    THEN CASE Colored(state) /\ ErasesLine(code) -> [state EXCEPT !.lbg = state.bg]
           [] IsLink(code) -> [state EXCEPT !.url = LinkOf(code, state)]
           [] OTHER -> state
    ELSE LET numbers == Numbers(SubSeq(code, 3, Len(code) - 1))
         IN  IF numbers = <<>> THEN Reset(state)
             ELSE InterpretAll([state |-> state, phase |-> 0, ground |-> "fg"], numbers)

(***************************************************************************)
(* extractColor                                                            *)
(***************************************************************************)

Span(from, to, state) == [from |-> from, to |-> to, state |-> state]

Closed(offsets, to) == [offsets EXCEPT ![Len(offsets)].to = to]

\* Links are compared by their address: one that is set again is another one.
Same(new, state, code) == new = state /\ (IsColor(code) \/ ~IsLink(code) \/ new.url = None)

\* (Variant: the last color is not ended.)
RecoloredOpen(x, new, code) ==
    IF Same(new, x.state, code) THEN x
    ELSE [x EXCEPT !.offsets = IF Colored(new) THEN Append(@, Span(Len(x.out), Len(x.out), new)) ELSE @,
                   !.state = new]

\* x is [out, offsets, state]: a new color ends the span of the one before.
Recolored(x, new, code) ==
    IF Same(new, x.state, code) THEN x
    ELSE LET ended == IF Colored(x.state) THEN Closed(x.offsets, Len(x.out)) ELSE x.offsets
         IN  [x EXCEPT !.offsets = IF Colored(new) THEN Append(ended, Span(Len(x.out), Len(x.out), new))
                                   ELSE ended,
                       !.state = new]

RECURSIVE ExtractFrom(_, _, _)
ExtractFrom(s, i, x) ==
    IF Next(s, i) = {}
    THEN LET all == x.out \o SubSeq(s, i, Len(s))
         IN  [out |-> all, state |-> x.state,
              offsets |-> IF i <= Len(s) /\ Colored(x.state) THEN Closed(x.offsets, Len(all)) ELSE x.offsets]
    ELSE LET found == CHOOSE f \in Next(s, i) : TRUE
             before == [x EXCEPT !.out = @ \o SubSeq(s, i, found[1] - 1)]
             code == SubSeq(s, found[1], found[2] - 1)
         IN  ExtractFrom(s, found[2], Recolored(before, InterpretCode(code, x.state), code))

ExtractColor(s, state) ==
    ExtractFrom(s, 1, [out |-> <<>>, state |-> state,
                       offsets |-> IF Colored(state) THEN <<Span(0, 0, state)>> ELSE <<>>])

(***************************************************************************)
(* Properties                                                              *)
(***************************************************************************)

\* The expression in the comment of nextAnsiEscapeSequence: what matches at i.
Matching(s, i) ==
    LET esc(P(_)) == {j \in (i + 1)..(Len(s) + 1) : s[i] = "esc" /\ P(SubSeq(s, i + 1, j - 1))}
        control(t) == /\ Len(t) >= 2 /\ t[1] \in CtrlSeqStart /\ Last(t) \in Letters \cup {"@"}
                      /\ \A k \in 2..(Len(t) - 1) : t[k] \in Numeric \cup Separators \cup {"?"}
        command(t) == \E k \in DOMAIN t : \E end \in {<<"bel">>, <<"esc", "\\">>} :
                         /\ k >= 3 /\ t[1] = "]" /\ t[k] \in Separators
                         /\ \A n \in 2..(k - 1) : t[n] \in Numeric
                         /\ Len(t) - Len(end) > k /\ SubSeq(t, Len(t) - Len(end) + 1, Len(t)) = end
                         /\ \A n \in (k + 1)..(Len(t) - Len(end)) : t[n] \in Printable
        anything(t) == Len(t) = 1 /\ t[1] # "nl"
    IN  <<esc(control), esc(command), esc(anything), {j \in {i + 1} : s[i] = "so"},
          {j \in {i + 2} : i < Len(s) /\ s[i] # "nl" /\ s[i + 1] = "bs"}>>
Leftmost(s) ==
    LET at == {i \in DOMAIN s : \E a \in DOMAIN Matching(s, i) : Matching(s, i)[a] # {}}
    IN  IF at = {} THEN {}
        ELSE LET all == Matching(s, Min(at))
                 a == Min({b \in DOMAIN all : all[b] # {}})
             IN  {<<Min(at), Max(all[a])>>}

\* A link that ends without its last character is the one difference.
FindsAll(s) ==
    \/ Next(s, 1) = Leftmost(s)
    \/ \E f \in Next(s, 1) : SubSeq(s, f[1], f[2] - 1) = LinkEnd

\* The state at each character that is left, and at the end.
RECURSIVE Coloring(_, _, _)
Coloring(s, i, state) ==
    IF Next(s, i) = {} THEN [k \in 1..(Len(s) - i + 2) |-> state]
    ELSE LET found == CHOOSE f \in Next(s, i) : TRUE
         IN  [k \in 1..(found[1] - i) |-> state]
                 \o Coloring(s, found[2], InterpretCode(SubSeq(s, found[1], found[2] - 1), state))

\* What follows the last sequence, as the characters that are left.
RECURSIVE AfterLast(_, _)
AfterLast(s, i) ==
    IF Next(s, i) = {} THEN Len(s) - i + 1
    ELSE AfterLast(s, (CHOOSE f \in Next(s, i) : TRUE)[2])

\* Every character that is left has the color that was set last before it, on
\* this line or on an earlier one, and the spans of colors do not overlap.  (One
\* exception: when the line ends with a sequence, and is still in color, the
\* last span is never ended and its characters have no color.)
ColorsExact(s, state) ==
    \A x \in {ExtractColor(s, state)} : \A colors \in {Coloring(s, 1, state)} :
        /\ Len(colors) = Len(x.out) + 1
        /\ \A k \in DOMAIN x.offsets :
               /\ 0 <= x.offsets[k].from /\ x.offsets[k].from <= x.offsets[k].to
               /\ x.offsets[k].to <= Len(x.out)
               /\ k > 1 => x.offsets[k - 1].to <= x.offsets[k].from
        /\ \A i \in DOMAIN x.out :
               \/ {x.offsets[k].state : k \in {n \in DOMAIN x.offsets :
                                                x.offsets[n].from < i /\ i <= x.offsets[n].to}}
                      = IF Colored(colors[i]) THEN {colors[i]} ELSE {}
               \/ Colored(x.state) /\ AfterLast(s, 1) = 0 /\ i > Last(x.offsets).from
        /\ x.state = Last(colors)

AnsiExact(s, state) == FindsAll(s) /\ ColorsExact(s, state)

=============================================================================
