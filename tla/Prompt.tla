------------------------------- MODULE Prompt -------------------------------
(***************************************************************************)
(* The query line of the terminal (the editing actions of Terminal.Loop,   *)
(* terminal.go) and its history (history.go), over sessions that share the *)
(* history file.                                                           *)
(*                                                                         *)
(* The query, the yank buffer and the query at the start of a key press    *)
(* are Go slices: windows on arrays that may be shared.  An append writes  *)
(* into the array when there is room behind the slice, and moves to a new  *)
(* array otherwise, which is why `memory' is part of the state.  A key is  *)
(* bound to one or more actions; when they are done the loop decides       *)
(* whether the query has changed and a new search is due.                  *)
(***************************************************************************)
EXTENDS Integers, Sequences, SequencesExt, FiniteSetsExt

CONSTANTS
    Runes,        \* the characters of queries
    Word,         \* those that make words: letters and digits
    Space,        \* those that match \s
    Tab,          \* one of them (not necessarily in Runes)
    Bindings,     \* what keys are bound to: sequences of action names
    OnChange,     \* the actions bound to the event change
    OnEOF,        \* the actions bound to the event backward-eof
    Texts,        \* arguments of put and change-query, texts of items
    MaxQuery,     \* maxPatternLength
    Spare,        \* room in a new array behind what it is made for
    History,      \* lines of the history file at first
    MaxHistory,   \* --history-size
    MaxKeys,      \* bound on the keys of a session
    MaxSessions   \* bound on the sessions

ASSUME RunesAssumption == Word \subseteq Runes /\ Word \cap Space = {}
ASSUME SizeAssumption == MaxHistory \in Nat \ {0} /\ MaxQuery \in Nat /\ Spare \in Nat
ASSUME TextsAssumption ==
    Texts \subseteq Seq(Runes \cup {Tab}) /\ History \in Seq(Seq(Runes \cup {Tab}))

VARIABLES
    memory,    \* the arrays
    input, yanked, previousInput,  \* slices of them
    cx,        \* cursor
    phase,     \* of the loop: "idle", "key", "change" or "eof"
    todo,      \* actions still to be done in this phase
    beof,      \* has an action found nothing to delete backwards?
    changed,   \* is a new search due?
    searched,  \* the query when the last search was requested
    leaving,   \* "no", "quit", "close", "print" (both accept) or "done"
    lines, modified, cursor,       \* History
    file,      \* its file
    keys, sessions

lineVars    == <<memory, input, yanked, cx>>
loopVars    == <<previousInput, phase, beof, changed, searched, keys>>
historyVars == <<lines, modified, cursor>>
vars == <<lineVars, loopVars, todo, leaving, historyVars, file, sessions>>

(***************************************************************************)
(* Slices                                                                  *)
(***************************************************************************)

\* Array 0 is the one of a nil slice.  Besides the three slices two more
\* are alive while an action runs.
Arrays == 0..5
Nil == [arr |-> 0, from |-> 1, to |-> 0]

\* A spare element of an array.
Zero == "0"

Length(s) == s.to - s.from + 1
Upto(s, n) == [s EXCEPT !.to = s.from + n - 1]   \* s[:n]
After(s, n) == [s EXCEPT !.from = s.from + n]    \* s[n:]

\* s, as a string.
TextIn(mem, s) == SubSeq(mem[s.arr], s.from, s.to)
Text(s) == TextIn(memory, s)

\* A slice with the memory it lies in.
On(mem, s) == [mem |-> mem, slice |-> s]

\* A new array for text.
New(mem, live, text, spare) ==
    LET a == Min(Arrays \ ({0, input.arr, yanked.arr, previousInput.arr} \cup live)) IN
    On([mem EXCEPT ![a] = text \o [i \in 1..spare |-> Zero]],
       [arr |-> a, from |-> 1, to |-> Len(text)])

\* copySlice, []rune(text)
CopyOf(text) == New(memory, {}, text, 0)

\* The text of the array is overwritten from index i on.
Overwritten(array, i, text) ==
    [k \in DOMAIN array |->
        IF k \in i..(i + Len(text) - 1) THEN text[k - i + 1] ELSE array[k]]

\* append(m.slice, text...)
AppendTo(m, text) ==
    LET s == m.slice IN
    IF s.to + Len(text) <= Len(m.mem[s.arr])
    THEN On([m.mem EXCEPT ![s.arr] = Overwritten(@, s.to + 1, text)],
            [s EXCEPT !.to = s.to + Len(text)])
    ELSE New(m.mem, {s.arr}, TextIn(m.mem, s) \o text, Spare)

\* The line is m, with cursor c and yank buffer y; arrays nobody can reach are
\* garbage.
SetLine(m, c, y) ==
    /\ input' = m.slice /\ cx' = c /\ yanked' = y
    /\ memory' = [a \in Arrays |->
           IF a \in {m.slice.arr, y.arr, previousInput.arr} THEN m.mem[a] ELSE <<>>]

\* The line is now text, the cursor behind it.
ReplaceLine(text) == SetLine(CopyOf(text), Len(text), yanked)

\* (Variant: the suffix is not copied before it is overwritten.)
InsertedInPlace(text) ==
    LET m == AppendTo(On(memory, Upto(input, cx)), text)
    IN  AppendTo(m, TextIn(m.mem, After(input, cx)))

\* append(append(input[:cx], text...), suffix...)
Inserted(text) ==
    AppendTo(AppendTo(On(memory, Upto(input, cx)), text), Text(After(input, cx)))

\* append(input[:from], input[to:]...)
Removed(from, to) == AppendTo(On(memory, Upto(input, from)), Text(After(input, to)))

\* The runes from..to - 1 go into the yank buffer.
Yanking(from, to, m, c) ==
    LET y == New(m.mem, {m.slice.arr}, SubSeq(Text(input), from + 1, to), 0)
    IN  SetLine(On(y.mem, m.slice), c, y.slice)

(***************************************************************************)
(* Words                                                                   *)
(***************************************************************************)

\* The number of runes before the last match of a pattern of two runes, -1 if
\* there is none, plus one.
WordStart(text, first, second) ==
    Max({0} \cup {i \in 1..(Len(text) - 1) : text[i] \in first /\ text[i + 1] \in second})

\* wordRubout, "\\s\\S", and wordNext: the end of a word or the last rune.
LastWord(text) == WordStart(text, Runes \ Word, Word)
LastSpaced(text) == WordStart(text, Space, Runes \ Space)
NextWord(text) ==
    LET ends == {i \in 1..(Len(text) - 1) : text[i] \in Word /\ text[i + 1] \notin Word}
    IN  IF text = <<>> THEN 0 ELSE Min(ends \cup {Len(text)})

(***************************************************************************)
(* The actions that edit                                                   *)
(***************************************************************************)

MoveTo(c) == cx' = c /\ UNCHANGED <<memory, input, yanked>>

BeginningOfLine == MoveTo(0)
EndOfLine       == MoveTo(Length(input))
BackwardChar    == MoveTo(cx - 1)
ForwardChar     == MoveTo(cx + 1)
BackwardWord    == MoveTo(LastWord(Text(Upto(input, cx))))
ForwardWord     == MoveTo(cx + NextWord(Text(After(input, cx))))

DeleteChar         == SetLine(Removed(cx, cx + 1), cx, yanked)
BackwardDeleteChar == SetLine(Removed(cx - 1, cx), cx - 1, yanked)

Char ==
    \E r \in Runes :
        LET prefix == CopyOf(Text(Upto(input, cx)))
        IN  SetLine(AppendTo(AppendTo(prefix, <<r>>), Text(After(input, cx))), cx + 1, yanked)
Put  == \E t \in Texts : SetLine(Inserted(t), cx + Len(t), yanked)
Yank == SetLine(Inserted(Text(yanked)), cx + Length(yanked), yanked)

\* Also replace-query and transform-query.
ChangeQuery == \E t \in Texts : ReplaceLine(t)
ClearQuery  == ReplaceLine(<<>>)
Cancel      == LET m == CopyOf(<<>>) IN SetLine(m, 0, input)

UnixLineDiscard  == Yanking(0, cx, On(memory, After(input, cx)), 0)
Rubout(c)        == Yanking(c, cx, Removed(c, cx), c)
UnixWordRubout   == Rubout(LastSpaced(Text(Upto(input, cx))))
BackwardKillWord == Rubout(LastWord(Text(Upto(input, cx))))
KillWord ==
    LET ncx == cx + NextWord(Text(After(input, cx)))
    IN  Yanking(cx, ncx, Removed(cx, ncx), cx)
KillLine == Yanking(cx, Length(input), On(memory, Upto(input, cx)), cx)

Edit(a) ==
    \/ a = "beginning-of-line" /\ BeginningOfLine
    \/ a = "end-of-line" /\ EndOfLine
    \/ a = "backward-char" /\ BackwardChar
    \/ a = "forward-char" /\ ForwardChar
    \/ a = "backward-word" /\ BackwardWord
    \/ a = "forward-word" /\ ForwardWord
    \/ a \in {"delete-char", "delete-char/eof"} /\ DeleteChar
    \/ a \in {"backward-delete-char", "backward-delete-char/eof"} /\ BackwardDeleteChar
    \/ a = "char" /\ Char
    \/ a = "put" /\ Put
    \/ a = "yank" /\ Yank
    \/ a = "change-query" /\ ChangeQuery
    \/ a = "clear-query" /\ ClearQuery
    \/ a = "cancel" /\ Cancel
    \/ a = "unix-line-discard" /\ UnixLineDiscard
    \/ a = "unix-word-rubout" /\ UnixWordRubout
    \/ a = "backward-kill-word" /\ BackwardKillWord
    \/ a = "kill-word" /\ KillWord
    \/ a = "kill-line" /\ KillLine

Empty == Length(input) = 0

\* When an action has nothing to work on, it does nothing.
Applies(a) ==
    CASE a \in {"backward-char", "backward-delete-char", "backward-delete-char/eof",
                "unix-line-discard", "unix-word-rubout", "backward-kill-word"} -> cx > 0
      [] a \in {"forward-char", "delete-char", "delete-char/eof", "kill-line",
                "kill-word"} -> cx < Length(input)
      [] a = "cancel" -> ~Empty
      [] a \in {"abort", "accept", "print-query"} -> FALSE
      [] OTHER -> TRUE

\* What an action asks the loop to do in the end: "no" is to go on.
Leaves(a) ==
    CASE a \in {"delete-char/eof", "cancel", "backward-delete-char/eof"} ->
             IF Empty THEN "quit" ELSE "no"
      [] a = "abort" -> "quit"
      [] a = "accept" -> "close"
      [] a = "print-query" -> "print"
      [] OTHER -> "no"

\* The actions that trigger backward-eof.
Backward == {"backward-delete-char", "unix-line-discard", "unix-word-rubout",
             "backward-kill-word"}

(***************************************************************************)
(* History                                                                 *)
(***************************************************************************)

\* The line that the cursor is on when it is c; edited lines are kept aside.
Current(c) == IF c \in DOMAIN modified' THEN modified'[c] ELSE lines'[c]

\* (Variants: every line is edited in place; a recalled line is not edited.)
OverrideAll(str) == lines' = [lines EXCEPT ![cursor] = str] /\ UNCHANGED modified
OverrideLast(str) ==
    /\ lines' = IF cursor = Len(lines) THEN [lines EXCEPT ![cursor] = str] ELSE lines
    /\ UNCHANGED modified

\* override: the query stays on its line; only the last one is edited in place.
Override(str) ==
    /\ lines' = IF cursor = Len(lines) THEN [lines EXCEPT ![cursor] = str] ELSE lines
    /\ modified' = IF cursor = Len(lines) THEN modified
                   ELSE [c \in DOMAIN modified \cup {cursor} |->
                            IF c = cursor THEN str ELSE modified[c]]

TrimQuery(str) == [i \in DOMAIN str |-> IF str[i] = Tab THEN " " ELSE str[i]]

Recall(c) ==
    /\ Override(Text(input))
    /\ cursor' = c
    /\ ReplaceLine(TrimQuery(Current(c)))

PrevHistory == Recall(Max({1, cursor - 1}))
NextHistory == Recall(Min({Len(lines), cursor + 1}))

LastN(s, n) == SubSeq(s, Max({1, Len(s) - n + 1}), Len(s))

\* append: the line takes the place of the last one.
Appended(line) == LastN(Append(Front(lines), line), MaxHistory)

(***************************************************************************)
(* The loop                                                                *)
(***************************************************************************)

\* A new process: NewTerminal and NewHistory.
Init ==
    /\ memory = [a \in Arrays |-> <<>>]
    /\ input = Nil /\ yanked = Nil /\ previousInput = Nil /\ cx = 0
    /\ phase = "idle" /\ todo = <<>> /\ beof = FALSE /\ changed = FALSE
    /\ searched = <<>> /\ leaving = "no" /\ keys = 0
    /\ file = History /\ sessions = 1
    /\ lines = Append(History, <<>>) /\ modified = <<>> /\ cursor = Len(History) + 1

\* A key: the query of now is remembered to see whether it changes.
Key(b) ==
    /\ phase = "idle" /\ leaving \in {"no", "print"} /\ keys < MaxKeys
    /\ phase' = "key" /\ todo' = b /\ beof' = FALSE /\ keys' = keys + 1
    /\ previousInput' = input
    /\ UNCHANGED <<lineVars, changed, searched, leaving, historyVars, file, sessions>>

\* A click in the input window; xoffset, the part scrolled out, is at most cx.
Click ==
    /\ phase = "idle" /\ leaving \in {"no", "print"} /\ keys < MaxKeys
    /\ phase' = "key" /\ todo' = <<>> /\ beof' = FALSE /\ keys' = keys + 1
    /\ previousInput' = input
    /\ \E column \in 0..Length(input), xoffset \in 0..cx : cx' = column + xoffset
    /\ UNCHANGED <<memory, input, yanked, changed, searched, leaving, historyVars, file,
                   sessions>>

\* doAction.
DoAction ==
    /\ phase # "idle" /\ todo # <<>>
    /\ todo' = Tail(todo)
    /\ LET a == Head(todo) IN
       /\ \/ a = "prev-history" /\ PrevHistory
          \/ a = "next-history" /\ NextHistory
          \/ Applies(a) /\ Edit(a) /\ UNCHANGED historyVars
          \/ ~Applies(a) /\ UNCHANGED <<lineVars, historyVars>>
       /\ beof' = IF a \in Backward THEN Empty ELSE beof
       /\ leaving' = IF leaving = "no" THEN Leaves(a) ELSE leaving
    /\ UNCHANGED <<previousInput, phase, changed, searched, keys, file, sessions>>

\* (Variant: truncateQuery leaves the cursor alone.)
EndOfKeyCursor ==
    /\ phase = "key" /\ todo = <<>>
    /\ phase' = "change"
    /\ input' = Upto(input, Min({Length(input), MaxQuery}))
    /\ changed' = (Text(previousInput) # Text(input'))
    /\ todo' = IF changed' THEN OnChange ELSE <<>>
    /\ UNCHANGED <<memory, cx, yanked, previousInput, beof, searched, keys, leaving,
                   historyVars, file, sessions>>

\* The query is cut, and compared with the one before the key.
EndOfKey ==
    /\ phase = "key" /\ todo = <<>>
    /\ phase' = "change"
    /\ input' = Upto(input, Min({Length(input), MaxQuery}))
    /\ cx' = Min({cx, Min({Length(input), MaxQuery})})
    /\ changed' = (Text(previousInput) # Text(input'))
    /\ todo' = IF changed' THEN OnChange ELSE <<>>
    /\ UNCHANGED <<memory, yanked, previousInput, beof, searched, keys, leaving,
                   historyVars, file, sessions>>

EndOfChange ==
    /\ phase = "change" /\ todo = <<>>
    /\ phase' = "eof"
    /\ todo' = IF beof THEN OnEOF ELSE <<>>
    /\ UNCHANGED <<lineVars, previousInput, beof, changed, searched, keys, leaving,
                   historyVars, file, sessions>>

\* (Variant: a search is requested for longer queries only.)
SearchIfLonger ==
    IF Length(input) > Length(previousInput) THEN Text(input) ELSE searched

\* EvtSearchNew; the coordinator then reads the query.
Search == IF changed THEN Text(input) ELSE searched

EndOfIteration ==
    /\ phase = "eof" /\ todo = <<>>
    /\ phase' = "idle" /\ changed' = FALSE /\ beof' = FALSE
    /\ searched' = Search
    /\ previousInput' = input
    /\ UNCHANGED <<lineVars, todo, keys, leaving, historyVars, file, sessions>>

\* The render loop runs exit; what was accepted goes into the history.
Exit ==
    /\ phase = "idle" /\ leaving \in {"quit", "close", "print"}
    /\ leaving' = "done"
    /\ IF leaving # "quit" /\ ~Empty
       THEN lines' = Append(Appended(Text(input)), <<>>) /\ file' = Appended(Text(input))
       ELSE UNCHANGED <<lines, file>>
    /\ UNCHANGED <<lineVars, loopVars, todo, modified, cursor, sessions>>

NextSession ==
    /\ leaving = "done" /\ sessions < MaxSessions
    /\ memory' = [a \in Arrays |-> <<>>]
    /\ input' = Nil /\ yanked' = Nil /\ previousInput' = Nil /\ cx' = 0
    /\ searched' = <<>> /\ leaving' = "no" /\ keys' = 0
    /\ sessions' = sessions + 1
    /\ lines' = Append(file, <<>>) /\ modified' = <<>> /\ cursor' = Len(file) + 1
    /\ UNCHANGED <<phase, todo, beof, changed, file>>

Next ==
    \/ \E b \in Bindings : Key(b)
    \/ Click \/ DoAction \/ EndOfKey \/ EndOfChange \/ EndOfIteration \/ Exit \/ NextSession

Spec == Init /\ [][Next]_vars

(***************************************************************************)
(* Properties                                                              *)
(***************************************************************************)

Slices == [arr : Arrays, from : Nat \ {0}, to : Nat]

\* Every slice lies inside its array, the cursor (terminal.go:2187) inside the
\* query whenever actions can run, and the cursor of the history on a line of it.
TypeOK ==
    /\ \A s \in {input, yanked, previousInput} :
           s \in Slices /\ s.from <= s.to + 1 /\ s.to <= Len(memory[s.arr])
    /\ cx \in Nat /\ (phase # "key" \/ todo # <<>> => cx <= Length(input))
    /\ phase \in {"idle", "key", "change", "eof"}
    /\ leaving \in {"no", "quit", "close", "print", "done"}
    /\ leaving # "done" =>
           cursor \in 1..Len(lines) /\ DOMAIN modified \subseteq 1..(Len(lines) - 1)

\* The slices behave like the strings they show: sharing arrays (the appends at
\* terminal.go:4961-5241, Cancel keeping the whole query as the yank buffer at
\* 4957) never changes the query away from the cursor, nor the killed text.
LineView ==
    INSTANCE Line WITH text <- Text(input), killed <- Text(yanked),
                       cur <- Min({cx, Length(input)})
LineSpec == LineView!Init /\ [][LineView!Next \/ sessions' # sessions]_(LineView!vars)

\* "change: Triggered whenever the query string is changed"
\* (man/man1/fzf.1:1446-1449): between two keys, the last search requested
\* (terminal.go:5752-5782) was for the query in the line.  It does not hold: an
\* append can write into the array of previousInput, and when the length is the
\* same in the end the two are found equal.
QueryPosted == phase = "idle" => searched = Text(input)

\* What holds of it: a query of another length than the one searched for is
\* never left without a search, whatever was shared, truncated or recalled
\* (terminal.go:5712-5782).  Actions bound to backward-eof run after the query
\* was compared (terminal.go:5740), so that what they edit can stay unsearched.
SizePosted == OnEOF = <<>> /\ phase = "idle" => Len(searched) = Length(input)

\* The history file (history.go:54-58) changes only when a query is accepted,
\* which becomes its last line; what it held stays, up to --history-size lines,
\* and edits of recalled lines "are not written to the file" (history.go:62).
FileExact ==
    [][file' # file =>
          /\ leaving \in {"close", "print"}
          /\ file' = LastN(Append(file, Text(input)), MaxHistory)]_vars

\* What one sees on line c of the history.
Seen(c) == IF c \in DOMAIN modified THEN modified[c] ELSE lines[c]

\* Walking through the history (history.go:60-95) edits one line at a time:
\* the query stays on the line one leaves, other lines look as they did.
EditsStay ==
    [][phase # "idle" /\ historyVars' # historyVars =>
          \A c \in DOMAIN lines : Seen(c)' = IF c = cursor THEN Text(input) ELSE Seen(c)]_vars

=============================================================================
