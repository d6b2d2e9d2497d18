---------------------------- MODULE PreviewProofs ---------------------------
(***************************************************************************)
(* The preview window shows the output of the last command, for any number *)
(* of requests and lines, unless lines were drawn as those of another      *)
(* version.  What the window is believed to show already are the first     *)
(* lines of the same command, since the outputs reach the window in order  *)
(* (Before), or it was made again, and then its output is still to come.   *)
(***************************************************************************)
EXTENDS Preview, TLAPS

(***************************************************************************)
(* Output                                                                  *)
(***************************************************************************)

Outputs == Seq(Int \X Int)

\* The lines of one command: the first tells the command and how often it has
\* cleared the window, the others are numbered.
IsOutput(lines) ==
    lines \in Outputs /\ \A k \in 1..Len(lines) : k > 1 => lines[k] = <<lines[1][1], k>>

\* What is shown as `version' are lines of the command `of'; there is nothing
\* to show but of the command itself.
ResultOf(lines, version, of) ==
    /\ IsOutput(lines) /\ version \in Int /\ of \in Nat \ {0}
    /\ IF lines = <<>> THEN version = of ELSE lines[1][1] = of

\* Output old is not ahead of the lines of the command `of' shown as `version':
\* it is of an earlier command, or the beginning of them, or was cleared.
Before(old, lines, version, of) ==
    old # <<>> =>
        \/ old[1][1] < of
        \/ /\ old[1][1] = of
           /\ version = of => lines # <<>> /\ old[1] = lines[1] /\ Len(old) <= Len(lines)

\* Old is a beginning of lines.
Begins(old, lines) ==
    old # <<>> => lines # <<>> /\ old[1] = lines[1] /\ Len(old) <= Len(lines)

LEMMA BeginningIsKept ==
  ASSUME NEW old, NEW lines, IsOutput(old), IsOutput(lines), Begins(old, lines)
  PROVE  \A k \in 1..Len(old) : k \in 1..Len(lines) /\ lines[k] = old[k]
<1> SUFFICES ASSUME NEW k \in 1..Len(old)
             PROVE  k \in 1..Len(lines) /\ lines[k] = old[k]
  OBVIOUS
<1>1. old # <<>> /\ Len(old) \in Nat /\ Len(lines) \in Nat
  BY DEF IsOutput, Outputs
<1>2. lines # <<>> /\ old[1] = lines[1] /\ k \in 1..Len(lines)
  BY <1>1 DEF Begins
<1>3. CASE k = 1
  BY <1>2, <1>3
<1>4. CASE k > 1
  BY <1>2, <1>4 DEF IsOutput
<1> QED
  BY <1>3, <1>4, <1>1

LEMMA MaxOfTwo ==
  ASSUME NEW a \in Int, NEW b \in Int
  PROVE  Max({a, b}) = IF a >= b THEN a ELSE b
<1>1. \A x \in {a, b} : (\A y \in {a, b} : x >= y) <=> x = IF a >= b THEN a ELSE b
  OBVIOUS
<1> QED
  BY <1>1 DEF Max

LEMMA RowsTyped ==
  ASSUME NEW lines \in Outputs, NEW o \in Int
  PROVE  Rows(lines, o) \in [0..(Height - 1) -> Int \X Int]
<1> DEFINE top == Max({0, o})
<1>1. top \in Nat
  BY MaxOfTwo
<1> HIDE DEF top
<1>2. ASSUME NEW r \in 0..(Height - 1), r + top < Len(lines)
      PROVE  lines[r + top + 1] \in Int \X Int
  <2>1. r + top + 1 \in 1..Len(lines)
    BY <1>1, <1>2, PreviewAssumption DEF Outputs
  <2> QED
    BY <2>1 DEF Outputs
<1>3. Blank \in Int \X Int
  BY DEF Blank
<1> QED
  BY <1>2, <1>3 DEF Rows, top

LEMMA RowsOfNone ==
  ASSUME NEW o \in Int
  PROVE  Rows(<<>>, o) = Empty.rows
<1> DEFINE top == Max({0, o})
<1>1. top \in Nat
  BY MaxOfTwo
<1> HIDE DEF top
<1>2. \A r \in 0..(Height - 1) : ~(r + top < 0)
  BY <1>1, PreviewAssumption
<1> QED
  BY <1>2 DEF Rows, Empty, top

\* What is on the screen stays right when only lines behind it are new.
LEMMA RowsAreKept ==
  ASSUME NEW old, NEW lines, IsOutput(old), IsOutput(lines), Begins(old, lines), NEW o \in Int,
         Len(lines) = Len(old) \/ Len(old) - Max({0, o}) >= Height
  PROVE  Rows(lines, o) = Rows(old, o)
<1> DEFINE top == Max({0, o})
<1>1. top \in Nat
  BY MaxOfTwo
<1>2. Len(lines) = Len(old) \/ Len(old) - top >= Height
  OBVIOUS
<1> HIDE DEF top
<1>3. Len(old) \in Nat /\ Len(lines) \in Nat
  BY DEF IsOutput, Outputs
<1>4. \A r \in 0..(Height - 1) : (r + top < Len(lines)) = (r + top < Len(old))
  BY <1>1, <1>2, <1>3, PreviewAssumption, BeginningIsKept
<1>5. \A r \in 0..(Height - 1) : r + top < Len(old) => r + top + 1 \in 1..Len(old)
  BY <1>1, <1>3, PreviewAssumption
<1>6. \A r \in 0..(Height - 1) : r + top < Len(old) => lines[r + top + 1] = old[r + top + 1]
  BY <1>5, BeginningIsKept
<1> QED
  BY <1>4, <1>6 DEF Rows, top

(***************************************************************************)
(* The invariant                                                           *)
(***************************************************************************)

Request == [request : Nat, items : BOOLEAN, offset : Nat]
Result == [version : Int, lines : Outputs, offset : Int]
Window == [version : Int, lines : Outputs, offset : Int, scrollable : BOOLEAN,
           following : {"enabled", "paused", "disabled"}]

Typed ==
    /\ asked \in Nat /\ box \in [ready : BOOLEAN, request : Request]
    /\ pc \in {"ready", "wait", "start", "run", "reap"}
    /\ run \in [request : Nat, version : Nat, items : BOOLEAN, offset : Nat]
    /\ drawer \in [pc : {"loop", "reap", "done"}, lines : Outputs, version : Int, offset : Int]
    /\ requests \in [display : Result, delayed : Int, refresh : BOOLEAN]
    /\ shown \in BOOLEAN /\ previewer \in Window
    /\ previewed \in [version : Int, numLines : Nat, offset : Int, filled : BOOLEAN]
    /\ screen \in [rows : [0..(Height - 1) -> Int \X Int], loading : BOOLEAN]
    /\ alias \in BOOLEAN /\ unasked \in BOOLEAN /\ clears \in Nat

\* The goroutines of a command, and no others.
Command == (pc \in {"run", "reap"} <=> drawer.pc # "done") /\ (pc = "start" => run.version > 0)

\* The last request is in the box or was taken.
LastAsked == IF box.request = NoRequest THEN run.request = asked ELSE box.request.request = asked

\* The commands that may have been shown.
Past == 1..(IF pc = "start" THEN run.version - 1 ELSE run.version)

\* The result that waits to be drawn, if any.
Waiting == requests.display # NoDisplay

\* The lines of the command that runs, and how they are shown.
Running ==
    drawer.pc # "done" =>
        /\ ResultOf(drawer.lines, drawer.version, run.version) /\ drawer.version <= run.version
        /\ Before(previewer.lines, drawer.lines, drawer.version, run.version)
        /\ Waiting => Before(requests.display.lines, drawer.lines, drawer.version, run.version)

\* Commands follow one another.
Ordered ==
    /\ IsOutput(previewer.lines)
    /\ previewer.lines # <<>> => previewer.lines[1][1] \in Past
    /\ Waiting =>
           \E of \in Past :
               /\ ResultOf(requests.display.lines, requests.display.version, of)
               /\ Before(previewer.lines, requests.display.lines, requests.display.version, of)

\* The output of a command that has ended was shown or is to be.
Delivered ==
    pc \in {"ready", "wait"} \/ drawer.pc = "reap" =>
        IF Waiting
        THEN ResultOf(requests.display.lines, requests.display.version, run.version)
        ELSE previewer.lines # <<>> => previewer.lines[1][1] = run.version

\* Output will be drawn.
Outstanding == box.request # NoRequest \/ pc = "start" \/ drawer.pc = "loop" \/ Waiting

\* The window has what it is believed to have.
Matches ==
    /\ Holds(Rows(previewer.lines, previewed.offset))
    /\ ~requests.refresh => previewer.offset = previewed.offset
    /\ previewed.version # 0 =>
           /\ previewed.numLines = Len(previewer.lines)
           /\ previewed.filled = (Len(previewer.lines) - Max({0, previewed.offset}) >= Height)
           /\ previewer.lines # <<>> => previewer.lines[1][1] = previewed.version

\* The window was made, and nothing was drawn yet: because the output is still to
\* come, or there was nothing to preview.
Bare == previewed.version = 0 /\ Holds(Empty.rows) /\ (Outstanding \/ unasked)

InWindow == shown /\ ~alias => Matches \/ Bare

Streams == Command /\ LastAsked /\ Running /\ Ordered /\ Delivered
PreviewInv == Typed /\ Streams /\ InWindow

LEMMA PreviewInit == Init => PreviewInv
<1> SUFFICES ASSUME Init PROVE PreviewInv
  OBVIOUS
<1> USE PreviewAssumption
<1>1. <<>> \in Outputs /\ IsOutput(<<>>)
  BY DEF Outputs, IsOutput
<1>2. Empty \in [rows : [0..(Height - 1) -> Int \X Int], loading : BOOLEAN]
  BY DEF Empty, Blank
<1> DEFINE none == <<>>
<1>3. none \in Outputs
  BY <1>1
<1> HIDE DEF none
<1>4. NoRequest \in Request /\ [version |-> -1, lines |-> none, offset |-> -1] \in Result
  BY <1>3 DEF NoRequest, Request, Result
<1>5. previewer \in Window /\ requests \in [display : Result, delayed : Int, refresh : BOOLEAN]
  BY <1>3, <1>4 DEF Init, Window, NoDisplay, NoDelay, none
<1>6. drawer \in [pc : {"loop", "reap", "done"}, lines : Outputs, version : Int, offset : Int]
  BY <1>3 DEF Init, none
<1>7. Typed
  BY <1>2, <1>4, <1>5, <1>6 DEF Init, Typed
<1>8. Streams
  BY <1>1 DEF Init, Streams, Command, LastAsked, Running, Ordered, Delivered, Waiting, NoRequest,
              NoDisplay, Past
<1>9. Matches
  BY RowsOfNone DEF Init, Matches, Holds
<1> QED
  BY <1>7, <1>8, <1>9 DEF PreviewInv, InWindow

(***************************************************************************)
(* Types                                                                   *)
(***************************************************************************)

LEMMA ConstrainTyped ==
  ASSUME NEW n \in Int, NEW low \in Int, NEW high \in Int
  PROVE  Constrain(n, low, high) \in Int
BY DEF Constrain

LEMMA RemTyped ==
  ASSUME NEW a \in Int, NEW b \in Nat \ {0}
  PROVE  Rem(a, b) \in Int
BY DEF Rem

LEMMA PrintTyped ==
  ASSUME NEW rows \in [0..(Height - 1) -> Int \X Int], NEW p \in Window,
         NEW q \in [version : Int, numLines : Nat, offset : Int, filled : BOOLEAN], Typed,
         PrintPreview(rows, p, q)
  PROVE  /\ previewer' \in Window
         /\ previewed' \in [version : Int, numLines : Nat, offset : Int, filled : BOOLEAN]
         /\ screen' \in [rows : [0..(Height - 1) -> Int \X Int], loading : BOOLEAN]
         /\ alias' \in BOOLEAN /\ unasked' \in BOOLEAN
<1>1. CASE ~shown
  BY <1>1 DEF PrintPreview, Typed
<1>2. CASE shown
  <2> DEFINE u == Unchanged(p, q)
  <2>1. PrintWith(rows, p, q, u) /\ u \in BOOLEAN
    BY <1>2 DEF PrintPreview, Unchanged
  <2> HIDE DEF u
  <2>2. p.lines \in Outputs /\ p.offset \in Int /\ Len(p.lines) \in Nat
    BY DEF Window, Outputs
  <2>3. Rows(p.lines, p.offset) \in [0..(Height - 1) -> Int \X Int]
    BY <2>2, RowsTyped
  <2>4. Drawn(rows, p, u) \in [0..(Height - 1) -> Int \X Int]
    BY <2>3, PreviewAssumption DEF Drawn
  <2>5. previewer' \in Window
    BY <2>1, <2>2, PreviewAssumption DEF PrintWith, Window
  <2>6. IsFilled(p) \in BOOLEAN
    BY <2>2, MaxOfTwo, PreviewAssumption DEF IsFilled
  <2>7. alias' \in BOOLEAN
    BY <2>1 DEF PrintWith, Typed
  <2> QED
    BY <2>1, <2>2, <2>4, <2>5, <2>6, <2>7 DEF PrintWith, Window
<1> QED
  BY <1>1, <1>2 DEF Typed

\* The window, scrolled or received.
LEMMA PositionedTyped ==
  ASSUME Typed, NEW d \in Result
  PROVE  Positioned(Received(d), d) \in Window
<1>1. d.version \in Int /\ d.lines \in Outputs /\ Forced(Follow) \in {"enabled", "disabled"}
  BY DEF Result, Forced
<1>2. Received(d) \in Window
  <2>1. CASE previewer.version = d.version
    BY <1>1, <2>1 DEF Received, Typed, Window
  <2>2. CASE previewer.version # d.version
    <3> DEFINE o == IF Follow THEN 0 ELSE previewer.offset
    <3>1. o \in Int
      BY DEF Typed, Window
    <3>2. Received(d) = [previewer EXCEPT !.version = d.version, !.lines = d.lines,
                                          !.following = Forced(Follow), !.offset = o]
      BY <2>2 DEF Received, Typed, Window
    <3> HIDE DEF o
    <3> QED
      BY <1>1, <3>1, <3>2 DEF Typed, Window
  <2> QED
    BY <2>1, <2>2
<1> DEFINE p == Received(d)
<1> HIDE DEF p
<1>3. p \in Window /\ Len(p.lines) \in Nat /\ p.offset \in Int /\ d.offset \in Int
  BY <1>2 DEF p, Window, Outputs, Result
<1>4. Max({p.offset, Len(p.lines) - Height}) \in Int
  BY <1>3, MaxOfTwo, PreviewAssumption
<1>5. Constrain(d.offset, 0, Len(p.lines) - 1) \in Int
  BY <1>3 DEF Constrain
<1>6. \A o \in Int : [p EXCEPT !.offset = o] \in Window
  BY <1>3 DEF Window
<1>7. Positioned(p, d) \in Window
  BY <1>3, <1>4, <1>5, <1>6 DEF Positioned
<1> QED
  BY <1>7 DEF p

LEMMA ScrolledTyped ==
  ASSUME Typed, NEW n \in Int, ~(CycleScroll /\ previewer.lines = <<>>)
  PROVE  ScrolledTo(n) \in Int
<1> DEFINE size == Len(previewer.lines)
<1>1. size \in Nat /\ (CycleScroll => size # 0)
  BY DEF Typed, Window, Outputs
<1> HIDE DEF size
<1>2. CycleScroll => Rem(n + size, size) \in Int
  BY <1>1, RemTyped
<1> DEFINE m == IF CycleScroll THEN Rem(n + size, size) ELSE n
<1>3. m \in Int
  BY <1>2
<1> HIDE DEF m
<1>4. Constrain(m, 0, size - 1) \in Int
  BY <1>1, <1>3, ConstrainTyped
<1> QED
  BY <1>4 DEF ScrolledTo, m, size

LEMMA ScrollTyped ==
  ASSUME Typed, Scroll
  PROVE  /\ previewer' \in Window
         /\ previewer'.lines = previewer.lines
         /\ requests' \in [display : Result, delayed : Int, refresh : BOOLEAN]
         /\ requests'.display = requests.display
         /\ requests'.refresh \/ (previewer' = previewer /\ requests' = requests)
<1>1. CASE CycleScroll /\ previewer.lines = <<>>
  BY <1>1 DEF Scroll, Typed
<1>2. CASE ~(CycleScroll /\ previewer.lines = <<>>)
  <2>1. PICK n \in Int : Moved(ScrolledTo(n))
    <3>1. Len(previewer.lines) \in Nat /\ previewer.offset \in Int
      BY DEF Typed, Window, Outputs
    <3> QED
      BY <1>2, <3>1, PreviewAssumption DEF Scroll
  <2> DEFINE o == ScrolledTo(n)
  <2>2. o \in Int /\ Moved(o)
    BY <1>2, <2>1, ScrolledTyped
  <2> HIDE DEF o
  <2>3. SetTo(previewer.following, o >= Len(previewer.lines) - Height)
          \in {"enabled", "paused", "disabled"}
    BY DEF SetTo, Typed, Window
  <2>4. CASE o = previewer.offset
    BY <2>2, <2>4 DEF Moved, Typed
  <2>5. CASE o # previewer.offset
    <3> DEFINE f == SetTo(previewer.following, o >= Len(previewer.lines) - Height)
    <3>1. /\ previewer' = [previewer EXCEPT !.offset = o, !.following = f]
          /\ requests' = [requests EXCEPT !.refresh = TRUE]
      BY <2>2, <2>5 DEF Moved, Typed, Window
    <3>2. f \in {"enabled", "paused", "disabled"}
      BY <2>3
    <3> HIDE DEF f
    <3>3. previewer' \in Window /\ previewer'.lines = previewer.lines
      BY <2>2, <3>1, <3>2 DEF Typed, Window
    <3> QED
      BY <3>1, <3>3 DEF Typed
  <2> QED
    BY <2>4, <2>5
<1> QED
  BY <1>1, <1>2

LEMMA LinesTyped ==
  ASSUME Typed, Line \/ Clear
  PROVE  /\ drawer' \in [pc : {"loop", "reap", "done"}, lines : Outputs, version : Int, offset : Int]
         /\ clears' \in Nat
<1>1. CASE Line
  <2>1. <<run.version, Len(drawer.lines) + 1>> \in Int \X Int
    BY DEF Typed, Outputs
  <2>2. Append(drawer.lines, <<run.version, Len(drawer.lines) + 1>>) \in Outputs
    BY <2>1 DEF Typed, Outputs
  <2> QED
    BY <1>1, <2>2 DEF Line, Typed
<1>2. CASE Clear
  <2>1. <<run.version, MaxLines + clears + 1>> \in Int \X Int
    BY PreviewAssumption DEF Typed
  <2>2. << <<run.version, MaxLines + clears + 1>> >> \in Outputs
    BY <2>1 DEF Outputs
  <2> DEFINE cleared == << <<run.version, MaxLines + clears + 1>> >>
  <2>3. drawer' = [drawer EXCEPT !.lines = cleared, !.version = drawer.version - 1, !.offset = 0]
    BY <1>2 DEF Clear, Typed
  <2>4. clears' \in Nat
    BY <1>2 DEF Clear, Typed
  <2>5. cleared \in Outputs
    BY <2>2
  <2> HIDE DEF cleared
  <2>6. drawer \in [pc : {"loop", "reap", "done"}, lines : Outputs, version : Int, offset : Int]
    BY DEF Typed
  <2> DEFINE version == drawer.version - 1
  <2>7. version \in Int /\ drawer' = [drawer EXCEPT !.lines = cleared, !.version = version, !.offset = 0]
    BY <2>3, <2>6
  <2> HIDE DEF version
  <2>8. drawer' = [pc |-> drawer.pc, lines |-> cleared, version |-> version, offset |-> 0]
    BY <2>6, <2>7
  <2>9. drawer.pc \in {"loop", "reap", "done"}
    BY <2>6
  <2>10. drawer' \in [pc : {"loop", "reap", "done"}, lines : Outputs, version : Int, offset : Int]
    BY <2>5, <2>7, <2>8, <2>9
  <2> QED
    BY <2>4, <2>10
<1> QED
  BY <1>1, <1>2

LEMMA EnqueueTyped ==
  ASSUME Typed, NEW items \in BOOLEAN, NEW offset \in Offsets, Enqueue(items, offset)
  PROVE  /\ asked' \in Nat /\ box' \in [ready : BOOLEAN, request : Request]
         /\ box'.request.request = asked' /\ box'.request # NoRequest /\ unasked' = FALSE
<1> DEFINE r == [request |-> asked + 1, items |-> items, offset |-> offset]
<1>1. r \in Request /\ r.request = asked + 1
  BY PreviewAssumption DEF Typed, Request
<1>2. r.request # 0
  BY <1>1 DEF Typed
<1>3. box' = [box EXCEPT !.request = r] /\ asked' = asked + 1 /\ unasked' = FALSE
  BY DEF Enqueue
<1> HIDE DEF r
<1>4. box' \in [ready : BOOLEAN, request : Request] /\ box'.request = r
  BY <1>1, <1>3 DEF Typed
<1> QED
  BY <1>1, <1>2, <1>3, <1>4 DEF Typed, NoRequest

LEMMA TypedNext ==
  ASSUME Typed, [Next]_vars
  PROVE  Typed'
<1> USE DEF goVars, windowVars
<1>0. <<>> \in Outputs
  BY DEF Outputs
<1>1. CASE Refresh
  <2>1. asked' \in Nat /\ box' \in [ready : BOOLEAN, request : Request] /\ unasked' \in BOOLEAN
    BY <1>1, EnqueueTyped DEF Refresh
  <2> QED
    BY SMTT(30), <1>1, <2>1 DEF Refresh, Typed
<1>2. CASE Activate \/ Ready \/ Ends \/ Delayed \/ Kill \/ KillerStops
  <2>1. CASE Activate
    BY <2>1 DEF Activate, Typed
  <2>2. CASE Ready \/ Ends
    BY <2>2 DEF Ready, Ends, Typed
  <2>3. CASE Delayed \/ Kill \/ KillerStops
    BY <2>3 DEF Delayed, Kill, KillerStops, Typed
  <2> QED
    BY <1>2, <2>1, <2>2, <2>3
<1>3. CASE Take
  <2>1. NoRequest \in Request
    BY DEF NoRequest, Request
  <2>2. box' \in [ready : BOOLEAN, request : Request] /\ box.request \in Request
    BY <1>3, <2>1 DEF Take, Typed
  <2>3. run' \in [request : Nat, version : Nat, items : BOOLEAN, offset : Nat]
    BY <1>3, <2>2 DEF Take, Typed, Request
  <2> QED
    BY SMTT(30), <1>3, <2>2, <2>3 DEF Take, Typed
<1>4. CASE Fail
  <2> DEFINE result == IF run.items THEN << <<run.version, 1>> >> ELSE <<>>
  <2>1. <<run.version, 1>> \in Int \X Int
    BY DEF Typed
  <2>2. result \in Outputs
    <3>1. << <<run.version, 1>> >> \in Outputs
      BY <2>1 DEF Outputs
    <3> QED
      BY <1>0, <3>1
  <2> HIDE DEF result
  <2>3. [version |-> run.version, offset |-> 0, lines |-> result] \in Result
    BY <2>2 DEF Result, Typed
  <2>4. requests' = [requests EXCEPT !.display = [version |-> run.version, offset |-> 0, lines |-> result]]
    BY <1>4 DEF Fail, result
  <2> QED
    BY <1>4, <2>3, <2>4 DEF Fail, Typed
<1>5. CASE Start \/ Reap
  <2> DEFINE none == <<>>
  <2>1. none \in Outputs
    BY <1>0
  <2> HIDE DEF none
  <2>2. drawer' \in [pc : {"loop", "reap", "done"}, lines : Outputs, version : Int, offset : Int]
    <3>1. CASE Start
      BY <2>1, <3>1 DEF Start, Typed, none
    <3>2. CASE Reap
      BY <2>1, <3>2 DEF Reap, Typed, none
    <3> QED
      BY <1>5, <3>1, <3>2
  <2> QED
    BY <1>5, <2>2 DEF Start, Reap, Typed
<1>6. CASE Finish \/ KillerWaits
  BY <1>6 DEF Finish, KillerWaits, Typed
<1>7. CASE Line \/ Clear
  BY SMTT(30), <1>7, LinesTyped DEF Line, Clear, Typed
<1>8. CASE Tick \/ EndOfOutput
  <2> DEFINE result == [version |-> drawer.version, lines |-> drawer.lines, offset |-> drawer.offset]
  <2>1. result \in Result
    BY DEF Typed, Result
  <2>2. requests' = [requests EXCEPT !.display = result]
    BY <1>8 DEF Tick, EndOfOutput, Display
  <2> HIDE DEF result
  <2>3. requests' \in [display : Result, delayed : Int, refresh : BOOLEAN]
    BY <2>1, <2>2 DEF Typed
  <2> QED
    BY SMTT(30), <1>8, <2>3 DEF Tick, EndOfOutput, Typed
<1>9. CASE Render
  <2>1. CASE RenderDisplay
    <3>1. NoDisplay \in Result
      <4> DEFINE none == <<>>
      <4>1. none \in Outputs
        BY <1>0
      <4> HIDE DEF none
      <4>2. [version |-> -1, lines |-> none, offset |-> -1] \in Result
        BY <4>1 DEF Result
      <4> QED
        BY <4>2 DEF NoDisplay, none
    <3>2. requests' \in [display : Result, delayed : Int, refresh : BOOLEAN]
      BY <2>1, <3>1 DEF RenderDisplay, Typed
    <3> DEFINE p == Positioned(Received(requests.display), requests.display)
    <3>3. p \in Window
      BY PositionedTyped DEF Typed
    <3>4. PrintPreview(screen.rows, p, previewed)
      BY <2>1 DEF RenderDisplay
    <3> HIDE DEF p
    <3>5. screen.rows \in [0..(Height - 1) -> Int \X Int]
      BY DEF Typed
    <3>6. previewed \in [version : Int, numLines : Nat, offset : Int, filled : BOOLEAN]
      BY DEF Typed
    <3> QED
      BY <1>9, <3>2, <3>3, <3>4, <3>5, <3>6, PrintTyped DEF Render, Typed
  <2>2. CASE RenderRefresh
    <3>1. screen.rows \in [0..(Height - 1) -> Int \X Int] /\ previewer \in Window
      BY DEF Typed
    <3>2. previewed \in [version : Int, numLines : Nat, offset : Int, filled : BOOLEAN]
      BY DEF Typed
    <3>3. PrintPreview(screen.rows, previewer, previewed)
      BY <2>2 DEF RenderRefresh
    <3>4. requests' \in [display : Result, delayed : Int, refresh : BOOLEAN]
      BY <2>2 DEF RenderRefresh, Typed
    <3> QED
      BY <1>9, <3>1, <3>2, <3>3, <3>4, PrintTyped DEF Render, Typed
  <2>3. CASE RenderDelayed
    <3> DEFINE p == [previewer EXCEPT !.version = requests.delayed]
    <3>1. p \in Window
      BY DEF Typed, Window
    <3>2. PrintDelayed(p)
      BY <2>3 DEF RenderDelayed
    <3>3. requests' \in [display : Result, delayed : Int, refresh : BOOLEAN]
      BY <2>3 DEF RenderDelayed, Typed, NoDelay
    <3> HIDE DEF p
    <3>4. Rows(p.lines, p.offset) \in [0..(Height - 1) -> Int \X Int]
      BY <3>1, RowsTyped DEF Window
    <3>5. Drawn(screen.rows, p, TRUE) \in [0..(Height - 1) -> Int \X Int]
      BY <3>4, PreviewAssumption DEF Drawn, Typed
    <3>6. previewer' \in Window
      BY <3>1, <3>2 DEF PrintDelayed, Window
    <3>7. screen' \in [rows : [0..(Height - 1) -> Int \X Int], loading : BOOLEAN]
      <4> DEFINE drawn == Drawn(screen.rows, p, TRUE)
      <4>1. screen' = screen \/ screen' = [rows |-> drawn, loading |-> TRUE]
        BY <3>2 DEF PrintDelayed
      <4>2. drawn \in [0..(Height - 1) -> Int \X Int]
        BY <3>5
      <4> HIDE DEF drawn
      <4>3. [rows |-> drawn, loading |-> TRUE]
              \in [rows : [0..(Height - 1) -> Int \X Int], loading : BOOLEAN]
        BY <4>2
      <4> QED
        BY <4>1, <4>3 DEF Typed
    <3> QED
      BY <1>9, <3>2, <3>3, <3>6, <3>7 DEF PrintDelayed, Render, Typed
  <2> QED
    BY <1>9, <2>1, <2>2, <2>3 DEF Render
<1>10. ASSUME Show \/ Hide PROVE Typed'
  <2>1. Empty \in [rows : [0..(Height - 1) -> Int \X Int], loading : BOOLEAN]
    BY PreviewAssumption DEF Empty, Blank
  <2>2. /\ asked' \in Nat /\ box' \in [ready : BOOLEAN, request : Request]
        /\ unasked' \in BOOLEAN
    <3>1. CASE \E offset \in Offsets : Enqueue(TRUE, offset)
      <4>1. PICK offset \in Offsets : Enqueue(TRUE, offset)
        BY <3>1
      <4> QED
        BY <4>1, EnqueueTyped
    <3>2. CASE UNCHANGED <<box, asked>> /\ unasked' \in BOOLEAN
      BY <3>2 DEF Typed
    <3>3. (\E offset \in Offsets : Enqueue(TRUE, offset))
             \/ (UNCHANGED <<box, asked>> /\ unasked' \in BOOLEAN)
      <4>1. CASE Show
        BY <4>1 DEF Show
      <4>2. CASE Hide
        BY <4>2 DEF Hide, Typed
      <4> QED
        BY <1>10, <4>1, <4>2
    <3> QED
      BY <3>1, <3>2, <3>3
  <2>3. previewer' \in Window
    <3> DEFINE none == <<>>
    <3>1. none \in Outputs
      BY <1>0
    <3> HIDE DEF none
    <3>2. [previewer EXCEPT !.lines = none] \in Window
      BY <3>1 DEF Typed, Window
    <3> QED
      BY <1>10, <3>2 DEF Show, Hide, Typed, none
  <2>4. shown' \in BOOLEAN /\ requests' = requests
    BY <1>10 DEF Show, Hide
  <2>5. /\ previewed' \in [version : Int, numLines : Nat, offset : Int, filled : BOOLEAN]
        /\ screen' \in [rows : [0..(Height - 1) -> Int \X Int], loading : BOOLEAN]
    <3>1. previewed' = [previewed EXCEPT !.version = 0] /\ screen' = Empty
      <4>1. CASE Show
        BY <4>1 DEF Show
      <4>2. CASE Hide
        BY <4>2 DEF Hide
      <4> QED
        BY <1>10, <4>1, <4>2
    <3>2. previewed \in [version : Int, numLines : Nat, offset : Int, filled : BOOLEAN]
      BY DEF Typed
    <3> QED
      BY <2>1, <3>1, <3>2
  <2> QED
    BY <1>10, <2>2, <2>3, <2>4, <2>5 DEF Show, Hide, Typed
<1>11. CASE Redraw
  <2>1. Forced(Follow) \in {"enabled", "disabled"}
    BY DEF Forced
  <2>2. previewer' \in Window
    BY <1>11, <2>1 DEF Redraw, Typed, Window
  <2>3. /\ requests \in [display : Result, delayed : Int, refresh : BOOLEAN]
        /\ requests' = [requests EXCEPT !.refresh = TRUE]
        /\ previewed \in [version : Int, numLines : Nat, offset : Int, filled : BOOLEAN]
        /\ previewed' = [previewed EXCEPT !.version = 0]
    BY <1>11 DEF Redraw, Typed
  <2>4. requests' \in [display : Result, delayed : Int, refresh : BOOLEAN]
    BY <2>3
  <2>5. previewed' \in [version : Int, numLines : Nat, offset : Int, filled : BOOLEAN]
    BY <2>3
  <2> QED
    BY <1>11, <2>2, <2>4, <2>5 DEF Redraw, Typed
<1>12. CASE Resize
  <2>1. Empty.rows \in [0..(Height - 1) -> Int \X Int]
    BY PreviewAssumption DEF Empty, Blank
  <2> DEFINE q == [previewed EXCEPT !.version = 0]
  <2>2. q \in [version : Int, numLines : Nat, offset : Int, filled : BOOLEAN]
    BY DEF Typed
  <2>3. PrintPreview(Empty.rows, previewer, q) /\ previewer \in Window
    BY <1>12 DEF Resize, Typed
  <2> HIDE DEF q
  <2>4. requests \in [display : Result, delayed : Int, refresh : BOOLEAN]
    BY DEF Typed
  <2> QED
    BY <1>12, <2>1, <2>2, <2>3, <2>4, PrintTyped DEF Resize, Typed
<1>13. CASE Scroll
  <2>1. UNCHANGED <<box, asked, goVars, shown, previewed, screen, alias, unasked>>
    BY <1>13 DEF Scroll
  <2> QED
    BY <1>13, <2>1, ScrollTyped DEF Typed
<1>14. CASE UNCHANGED vars
  BY <1>14 DEF vars, Typed
<1> QED
  BY <1>1, <1>2, <1>3, <1>4, <1>5, <1>6, <1>7, <1>8, <1>9, <1>10, <1>11, <1>12, <1>13, <1>14
     DEF Next, Previewer, Output, Killer

(***************************************************************************)
(* Requests and commands                                                   *)
(***************************************************************************)

\* Drawing changes neither the lines nor the requests.
LEMMA PrintKeeps ==
  ASSUME NEW rows, NEW p \in Window, NEW q, PrintPreview(rows, p, q) \/ PrintDelayed(p)
  PROVE  previewer'.lines = p.lines /\ previewer'.offset = p.offset
BY DEF PrintPreview, PrintDelayed, PrintWith, Window

LEMMA RenderKeeps ==
  ASSUME Typed, Render
  PROVE  /\ RenderDisplay => /\ previewer'.lines = requests.display.lines
                             /\ requests'.display = NoDisplay
                             /\ requests'.refresh = requests.refresh
         /\ ~RenderDisplay => /\ previewer'.lines = previewer.lines
                              /\ requests'.display = requests.display
<1>1. CASE RenderDisplay
  <2> DEFINE p == Positioned(Received(requests.display), requests.display)
  <2>1. p \in Window /\ requests.display \in Result
    BY PositionedTyped DEF Typed
  <2>2. Received(requests.display).lines = requests.display.lines
    BY DEF Received, Typed, Window
  <2>3. p.lines = requests.display.lines
    BY <2>2 DEF Positioned, Received, Typed, Window
  <2>4. PrintPreview(screen.rows, p, previewed)
    BY <1>1 DEF RenderDisplay
  <2> HIDE DEF p
  <2>5. previewer'.lines = requests.display.lines
    BY <2>1, <2>3, <2>4, PrintKeeps
  <2> QED
    BY <1>1, <2>5 DEF RenderDisplay, Typed
<1>2. CASE RenderRefresh /\ ~RenderDisplay
  <2>1. previewer'.lines = previewer.lines
    BY <1>2, PrintKeeps DEF RenderRefresh, Typed
  <2> QED
    BY <1>2, <2>1 DEF RenderRefresh, Typed
<1>3. CASE RenderDelayed /\ ~RenderDisplay
  <2> DEFINE p == [previewer EXCEPT !.version = requests.delayed]
  <2>1. p \in Window /\ p.lines = previewer.lines /\ PrintDelayed(p)
    BY <1>3 DEF RenderDelayed, Typed, Window
  <2> HIDE DEF p
  <2>2. previewer'.lines = previewer.lines
    BY <2>1, PrintKeeps
  <2> QED
    BY <1>3, <2>2 DEF RenderDelayed, Typed
<1> QED
  BY <1>1, <1>2, <1>3 DEF Render

LEMMA CommandNext ==
  ASSUME Typed, Command, [Next]_vars
  PROVE  Command'
<1> USE DEF goVars, windowVars, Command
<1>1. CASE Refresh \/ Activate \/ Ready \/ Ends \/ Delayed \/ Kill \/ KillerStops \/ KillerWaits
  BY <1>1 DEF Refresh, Activate, Ready, Ends, Delayed, Kill, KillerStops, KillerWaits
<1>2. CASE Take
  BY <1>2 DEF Take, Typed
<1>3. CASE Fail
  BY <1>3 DEF Fail, Typed
<1>4. CASE Start \/ Finish \/ Reap
  <2>1. CASE Start
    BY <1>4, <2>1 DEF Start
  <2>2. CASE Finish
    BY <1>4, <2>2 DEF Finish
  <2>3. CASE Reap
    BY <1>4, <2>3 DEF Reap, Typed
  <2> QED
    BY <1>4, <2>1, <2>2, <2>3
<1>5. CASE Line
  BY <1>5 DEF Line, Typed
<1>6. CASE Clear
  BY <1>6 DEF Clear, Typed
<1>7. CASE Tick \/ EndOfOutput
  BY <1>7 DEF Tick, EndOfOutput, Typed
<1>8. CASE Render \/ Show \/ Hide \/ Redraw \/ Resize \/ Scroll
  BY <1>8 DEF Render, Show, Hide, Redraw, Resize, Scroll
<1>9. CASE UNCHANGED vars
  BY <1>9 DEF vars
<1> QED
  BY <1>1, <1>2, <1>3, <1>4, <1>5, <1>6, <1>7, <1>8, <1>9 DEF Next, Previewer, Output, Killer

LEMMA LastAskedNext ==
  ASSUME Typed, LastAsked, [Next]_vars
  PROVE  LastAsked'
<1> USE DEF goVars, windowVars, LastAsked
<1>1. CASE Refresh \/ Show
  <2>1. CASE UNCHANGED <<box, asked, run>>
    BY <2>1
  <2>2. CASE ~UNCHANGED <<box, asked, run>>
    <3>1. PICK items \in BOOLEAN, offset \in Offsets : Enqueue(items, offset)
      BY <1>1, <2>2 DEF Refresh, Show
    <3> QED
      BY <3>1, EnqueueTyped
  <2> QED
    BY <2>1, <2>2
<1>2. CASE Take
  BY <1>2 DEF Take, Typed
<1>3. CASE Activate
  BY <1>3 DEF Activate, Typed
<1>4. CASE Ready \/ Fail \/ Start \/ KillerWaits \/ Finish \/ Reap \/ Line \/ Clear \/ Ends \/ Tick
  BY <1>4 DEF Ready, Fail, Start, KillerWaits, Finish, Reap, Line, Clear, Ends, Tick
<1>5. CASE EndOfOutput \/ Delayed \/ Kill \/ KillerStops \/ Render \/ Hide \/ Redraw \/ Resize \/ Scroll
  BY <1>5 DEF EndOfOutput, Delayed, Kill, KillerStops, Render, Hide, Redraw, Resize, Scroll
<1>6. CASE UNCHANGED vars
  BY <1>6 DEF vars
<1> QED
  BY <1>1, <1>2, <1>3, <1>4, <1>5, <1>6 DEF Next, Previewer, Output, Killer

(***************************************************************************)
(* Output                                                                  *)
(***************************************************************************)

LEMMA StreamsAreKept ==
  ASSUME Running, Ordered, Delivered, UNCHANGED <<drawer, run>>,
         previewer'.lines = previewer.lines, requests'.display = requests.display,
         pc' = pc \/ (pc = "ready" /\ pc' = "wait")
  PROVE  Running' /\ Ordered' /\ Delivered'
<1>1. Waiting' = Waiting /\ Past' = Past
  BY DEF Waiting, Past
<1> QED
  BY <1>1 DEF Running, Ordered, Delivered

LEMMA LaterIsBefore ==
  ASSUME NEW old, NEW lines, NEW version, NEW of, old # <<>> => old[1][1] < of
  PROVE  Before(old, lines, version, of)
BY DEF Before

\* More lines of the command, or the first one after a clear.
LEMMA MoreLines ==
  ASSUME Typed, Running, drawer.pc = "loop", Line \/ Clear
  PROVE  /\ ResultOf(drawer'.lines, drawer'.version, run.version)
         /\ drawer'.version <= run.version
         /\ \A old : Before(old, drawer.lines, drawer.version, run.version)
                     => Before(old, drawer'.lines, drawer'.version, run.version)
<1> DEFINE l == drawer.lines
           v == drawer.version
           of == run.version
<1>1. ResultOf(l, v, of) /\ v <= of /\ v \in Int /\ of \in Nat \ {0} /\ IsOutput(l)
  BY DEF Running, ResultOf
<1>2. l \in Outputs /\ Len(l) \in Nat /\ (l # <<>> => l[1][1] = of)
  BY <1>1 DEF IsOutput, Outputs, ResultOf
<1>3. CASE Line
  <2> DEFINE new == Append(l, <<of, Len(l) + 1>>)
  <2>1. drawer'.lines = new /\ drawer'.version = v
    BY <1>3 DEF Line, Typed
  <2>2. <<of, Len(l) + 1>> \in Int \X Int
    BY <1>1, <1>2
  <2>3. /\ new \in Outputs /\ Len(new) = Len(l) + 1 /\ new # <<>>
        /\ \A k \in 1..Len(l) : new[k] = l[k]
        /\ new[Len(l) + 1] = <<of, Len(l) + 1>>
    BY <1>2, <2>2 DEF Outputs
  <2> HIDE DEF new
  <2>4. new[1][1] = of
    BY <1>2, <2>3
  <2>5. \A k \in 1..Len(new) : k > 1 => new[k] = <<of, k>>
    <3> SUFFICES ASSUME NEW k \in 1..Len(new), k > 1
                 PROVE  new[k] = <<of, k>>
      OBVIOUS
    <3>1. CASE k = Len(l) + 1
      BY <2>3, <3>1
    <3>2. CASE k # Len(l) + 1
      <4>1. k \in 1..Len(l) /\ l # <<>>
        BY <1>2, <2>3, <3>2
      <4>2. l[k] = <<l[1][1], k>>
        BY <1>1, <4>1 DEF IsOutput
      <4> QED
        BY <1>2, <2>3, <4>1, <4>2
    <3> QED
      BY <3>1, <3>2
  <2>6. IsOutput(new)
    BY <2>3, <2>4, <2>5 DEF IsOutput
  <2>7. ResultOf(new, v, of)
    BY <1>1, <2>3, <2>4, <2>6 DEF ResultOf
  <2>8. ASSUME NEW old, Before(old, l, v, of)
        PROVE  Before(old, new, v, of)
    <3>1. l # <<>> => new[1] = l[1]
      BY <1>2, <2>3
    <3> QED
      <4>1. CASE old # <<>> /\ old[1][1] = of /\ v = of
        <5>1. ~(old[1][1] < of)
          BY <1>1, <4>1
        <5>2. l # <<>> /\ old[1] = l[1] /\ Len(old) <= Len(l)
          BY <2>8, <4>1, <5>1 DEF Before
        <5> QED
          BY <1>2, <2>3, <3>1, <4>1, <5>2 DEF Before
      <4> QED
        BY <2>8, <4>1 DEF Before
  <2> QED
    BY <1>1, <2>1, <2>7, <2>8
<1>4. CASE Clear
  <2> DEFINE first == <<of, MaxLines + clears + 1>>
             new == <<first>>
  <2>1. drawer'.lines = new /\ drawer'.version = v - 1
    BY <1>4 DEF Clear, Typed
  <2>2. first \in Int \X Int /\ first[1] = of
    BY <1>1, PreviewAssumption DEF Typed
  <2> HIDE DEF first
  <2>3. IsOutput(new) /\ new # <<>> /\ new[1][1] = of
    BY <2>2 DEF IsOutput, Outputs
  <2> HIDE DEF new
  <2>4. ResultOf(new, v - 1, of) /\ v - 1 <= of /\ v - 1 # of
    BY <1>1, <2>3 DEF ResultOf
  <2>5. ASSUME NEW old, Before(old, l, v, of)
        PROVE  Before(old, new, v - 1, of)
    BY <2>4, <2>5 DEF Before
  <2> QED
    BY <2>1, <2>4, <2>5
<1> QED
  BY <1>3, <1>4

LEMMA StreamsOfTake ==
  ASSUME Typed, Streams, Take
  PROVE  Running' /\ Ordered' /\ Delivered'
<1> USE DEF goVars, windowVars, Streams, Command
<1>1. /\ drawer.pc = "done" /\ pc = "wait" /\ pc' = "start"
      /\ run'.version = run.version + 1 /\ run.version \in Nat
      /\ UNCHANGED <<drawer, previewer, requests>>
  BY DEF Take, Typed
<1>2. Past' = Past /\ Waiting' = Waiting
  BY <1>1 DEF Past, Waiting
<1> QED
  BY <1>1, <1>2 DEF Running, Ordered, Delivered

LEMMA StreamsOfFail ==
  ASSUME Typed, Streams, Fail
  PROVE  Running' /\ Ordered' /\ Delivered'
<1> USE DEF goVars, windowVars
<1> DEFINE of == run.version
           result == IF run.items THEN << <<of, 1>> >> ELSE <<>>
<1>1. /\ drawer.pc = "done" /\ pc = "start" /\ pc' = "wait" /\ of \in Nat \ {0}
      /\ UNCHANGED <<drawer, previewer, run>>
  BY DEF Fail, Typed, Streams, Command
<1>2. requests'.display.lines = result /\ requests'.display.version = of
  BY DEF Fail, Typed
<1>3. ResultOf(result, of, of)
  <2>1. IsOutput(<<>>) /\ (IsOutput(<< <<of, 1>> >>) /\ << <<of, 1>> >> # <<>>)
    <3>1. <<of, 1>> \in Int \X Int
      BY <1>1
    <3> QED
      BY <3>1 DEF IsOutput, Outputs
  <2>2. CASE run.items
    <3>1. result = << <<of, 1>> >>
      BY <2>2
    <3> QED
      BY <1>1, <2>1, <3>1 DEF ResultOf
  <2>3. CASE ~run.items
    <3>1. result = <<>>
      BY <2>3
    <3> QED
      BY <1>1, <2>1, <3>1 DEF ResultOf
  <2> QED
    BY <2>2, <2>3
<1> HIDE DEF result
<1>4. previewer.lines # <<>> => previewer.lines[1][1] \in 1..(of - 1)
  BY <1>1 DEF Streams, Ordered, Past
<1>5. Before(previewer.lines, result, of, of)
  BY <1>1, <1>4, LaterIsBefore
<1>6. Past' = 1..of
  BY <1>1 DEF Past
<1>7. Waiting'
  BY <1>1, <1>2 DEF Waiting, NoDisplay
<1>8. of \in Past' /\ (previewer.lines # <<>> => previewer.lines[1][1] \in Past')
  BY <1>1, <1>4, <1>6
<1>9. Ordered'
  BY <1>1, <1>2, <1>3, <1>5, <1>8 DEF Ordered, Streams
<1> QED
  BY <1>1, <1>2, <1>3, <1>7, <1>9 DEF Running, Delivered

LEMMA StreamsOfStart ==
  ASSUME Typed, Streams, Start
  PROVE  Running' /\ Ordered' /\ Delivered'
<1> USE DEF goVars, windowVars
<1> DEFINE of == run.version
<1>1. /\ pc = "start" /\ pc' = "run" /\ of \in Nat \ {0}
      /\ UNCHANGED <<previewer, requests, run>>
      /\ drawer'.pc = "loop" /\ drawer'.lines = <<>> /\ drawer'.version = of
  BY DEF Start, Typed, Streams, Command
<1>2. Past = 1..(of - 1) /\ Past' = 1..of /\ Waiting' = Waiting
  BY <1>1 DEF Past, Waiting
<1>3. ResultOf(<<>>, of, of)
  BY <1>1 DEF ResultOf, IsOutput, Outputs
<1>4. Before(previewer.lines, <<>>, of, of)
  <2>1. previewer.lines # <<>> => previewer.lines[1][1] < of
    BY <1>1, <1>2 DEF Streams, Ordered
  <2> QED
    BY <2>1, LaterIsBefore
<1>5. ASSUME Waiting PROVE Before(requests.display.lines, <<>>, of, of)
  <2>1. PICK p \in Past : ResultOf(requests.display.lines, requests.display.version, p)
    BY <1>5 DEF Streams, Ordered
  <2>2. requests.display.lines # <<>> => requests.display.lines[1][1] < of
    BY <1>1, <1>2, <2>1 DEF ResultOf
  <2> QED
    BY <2>2, LaterIsBefore
<1>6. Running'
  BY <1>1, <1>2, <1>3, <1>4, <1>5 DEF Running
<1>7. \A p \in Past : p \in Past'
  BY <1>1, <1>2
<1>8. Ordered'
  BY <1>1, <1>2, <1>7 DEF Ordered, Streams
<1> QED
  BY <1>1, <1>6, <1>8 DEF Delivered

LEMMA StreamsOfReap ==
  ASSUME Typed, Streams, Finish \/ Reap
  PROVE  Running' /\ Ordered' /\ Delivered'
<1> USE DEF goVars, windowVars
<1>1. /\ pc \in {"run", "reap"} /\ UNCHANGED <<run, previewer, requests>>
      /\ pc' # "start"
  BY DEF Finish, Reap
<1>2. Past' = Past /\ Waiting' = Waiting
  BY <1>1 DEF Past, Waiting
<1>3. CASE Finish
  BY <1>1, <1>2, <1>3 DEF Finish, Running, Ordered, Delivered, Streams
<1>4. CASE Reap
  <2>1. drawer.pc = "reap" /\ drawer'.pc = "done"
    BY <1>4 DEF Reap, Typed
  <2> QED
    BY <1>1, <1>2, <2>1 DEF Running, Ordered, Delivered, Streams
<1> QED
  BY <1>3, <1>4

LEMMA StreamsOfLines ==
  ASSUME Typed, Streams, Line \/ Clear
  PROVE  Running' /\ Ordered' /\ Delivered'
<1> USE DEF goVars, windowVars
<1>1. /\ drawer.pc = "loop" /\ drawer'.pc = "loop" /\ UNCHANGED <<pc, run, previewer, requests>>
      /\ pc \in {"run", "reap"}
  BY DEF Line, Clear, Typed, Streams, Command
<1>2. Past' = Past /\ Waiting' = Waiting
  BY <1>1 DEF Past, Waiting
<1>3. /\ Before(previewer.lines, drawer.lines, drawer.version, run.version)
      /\ Waiting => Before(requests.display.lines, drawer.lines, drawer.version, run.version)
  BY <1>1 DEF Streams, Running
<1>4. Running'
  BY <1>1, <1>2, <1>3, MoreLines DEF Running, Streams
<1> QED
  BY <1>1, <1>2, <1>4 DEF Ordered, Delivered, Streams

LEMMA StreamsOfDisplay ==
  ASSUME Typed, Streams, Tick \/ EndOfOutput
  PROVE  Running' /\ Ordered' /\ Delivered'
<1> USE DEF goVars, windowVars
<1> DEFINE l == drawer.lines
           v == drawer.version
           of == run.version
<1>1. /\ drawer.pc = "loop" /\ UNCHANGED <<pc, run, previewer>> /\ pc \in {"run", "reap"}
      /\ drawer'.pc \in {"loop", "reap"} /\ drawer'.lines = l /\ drawer'.version = v
      /\ requests'.display.lines = l /\ requests'.display.version = v
  BY DEF Tick, EndOfOutput, Display, Typed, Streams, Command
<1>2. /\ ResultOf(l, v, of) /\ v <= of /\ Before(previewer.lines, l, v, of)
      /\ of \in Nat \ {0}
  BY <1>1 DEF Streams, Running, ResultOf
<1>3. Past' = 1..of /\ Past = 1..of /\ of \in Past'
  BY <1>1, <1>2 DEF Past
<1>4. Before(l, l, v, of)
  BY <1>2 DEF ResultOf, Before, IsOutput, Outputs
<1>5. Waiting'
  BY <1>1, <1>2 DEF Waiting, NoDisplay, ResultOf
<1>6. Running'
  BY <1>1, <1>2, <1>4 DEF Running
<1>7. Ordered'
  BY <1>1, <1>2, <1>3 DEF Ordered, Streams
<1> QED
  BY <1>1, <1>2, <1>5, <1>6, <1>7 DEF Delivered

\* A result becomes what is shown.
LEMMA StreamsOfRender ==
  ASSUME Typed, Streams, Render
  PROVE  Running' /\ Ordered' /\ Delivered'
<1>1. UNCHANGED <<pc, run, drawer>>
  BY DEF Render, goVars
<1>2. CASE RenderDisplay
  <2>1. Waiting /\ ~Waiting' /\ previewer'.lines = requests.display.lines
    BY <1>2, RenderKeeps DEF RenderDisplay, Waiting
  <2>2. PICK p \in Past : ResultOf(requests.display.lines, requests.display.version, p)
    BY <2>1 DEF Streams, Ordered
  <2>3. Past' = Past
    BY <1>1 DEF Past
  <2>4. Ordered'
    BY <2>1, <2>2, <2>3 DEF Ordered, ResultOf
  <2>5. Running'
    BY <1>1, <2>1 DEF Running, Streams
  <2>6. Delivered'
    BY <1>1, <2>1 DEF Delivered, Streams, ResultOf
  <2> QED
    BY <2>4, <2>5, <2>6
<1>3. CASE ~RenderDisplay
  BY <1>1, <1>3, RenderKeeps, StreamsAreKept DEF Streams
<1> QED
  BY <1>2, <1>3

\* A window that is hidden loses its lines.
LEMMA StreamsOfHide ==
  ASSUME Typed, Streams, Hide
  PROVE  Running' /\ Ordered' /\ Delivered'
<1>1. UNCHANGED <<pc, run, drawer, requests>> /\ previewer'.lines = <<>>
  BY DEF Hide, Typed, Window
<1>2. Past' = Past /\ Waiting' = Waiting /\ IsOutput(<<>>)
  BY <1>1 DEF Past, Waiting, IsOutput, Outputs
<1> QED
  BY <1>1, <1>2 DEF Running, Ordered, Delivered, Streams, Before

LEMMA StreamsNext ==
  ASSUME Typed, Streams, [Next]_vars
  PROVE  Streams'
<1> USE DEF goVars, windowVars
<1>1. CASE Refresh \/ Activate \/ Ready \/ Ends \/ Delayed \/ Kill \/ KillerStops \/ KillerWaits
  <2>1. /\ UNCHANGED <<drawer, run, previewer>> /\ (pc' = pc \/ (pc = "ready" /\ pc' = "wait"))
        /\ requests'.display = requests.display
    BY <1>1 DEF Refresh, Activate, Ready, Ends, Delayed, Kill, KillerStops, KillerWaits, Typed
  <2> QED
    BY <2>1, StreamsAreKept, CommandNext, LastAskedNext DEF Streams
<1>2. CASE Show \/ Redraw \/ Resize \/ Scroll
  <2>1. UNCHANGED <<drawer, run, pc>> /\ requests'.display = requests.display
    BY <1>2, ScrollTyped DEF Show, Redraw, Resize, Scroll, Typed
  <2>2. previewer'.lines = previewer.lines
    BY <1>2, ScrollTyped, PrintKeeps DEF Show, Redraw, Resize, Typed, Window
  <2> QED
    BY <2>1, <2>2, StreamsAreKept, CommandNext, LastAskedNext DEF Streams
<1>3. CASE UNCHANGED vars
  <2>1. UNCHANGED <<drawer, run, pc, previewer, requests>>
    BY <1>3 DEF vars
  <2> QED
    BY <2>1, StreamsAreKept, CommandNext, LastAskedNext DEF Streams
<1>4. Command' /\ LastAsked'
  BY CommandNext, LastAskedNext DEF Streams
<1> QED
  BY <1>1, <1>2, <1>3, <1>4, StreamsOfTake, StreamsOfFail, StreamsOfStart, StreamsOfReap,
     StreamsOfLines, StreamsOfDisplay, StreamsOfRender, StreamsOfHide
     DEF Next, Previewer, Output, Killer, Streams

(***************************************************************************)
(* The window                                                              *)
(***************************************************************************)

\* What is left undrawn has to be right already.
LEMMA PrintMatches ==
  ASSUME NEW rows \in [0..(Height - 1) -> Int \X Int], NEW p \in Window, NEW q, NEW u \in BOOLEAN,
         PrintWith(rows, p, q, u), shown' = TRUE,
         u => \A r \in 0..(Height - 1) : r # 0 => rows[r] = Rows(p.lines, p.offset)[r],
         u => (p.version = 0 \/ alias' \/ q.filled = IsFilled(p))
  PROVE  alias' \/ Matches'
<1> DEFINE right == Rows(p.lines, p.offset)
<1>1. p.lines \in Outputs /\ p.offset \in Int
  BY DEF Window
<1>2. /\ previewer'.lines = p.lines /\ previewer'.offset = p.offset
      /\ previewed'.version = p.version /\ previewed'.numLines = Len(p.lines)
      /\ previewed'.offset = p.offset
      /\ previewed'.filled = IF u THEN q.filled ELSE IsFilled(p)
      /\ screen' = [rows |-> Drawn(rows, p, u), loading |-> FALSE]
  BY DEF PrintWith, Window
<1>3. right \in [0..(Height - 1) -> Int \X Int]
  BY <1>1, RowsTyped
<1>4. Drawn(rows, p, u) = IF u THEN [rows EXCEPT ![0] = right[0]] ELSE right
  BY DEF Drawn
<1>5. u => \A r \in 0..(Height - 1) : r # 0 => rows[r] = right[r]
  OBVIOUS
<1> HIDE DEF right
<1>6. \A r \in 0..(Height - 1) : screen'.rows[r] = right[r]
  BY <1>2, <1>3, <1>4, <1>5, PreviewAssumption
<1>7. Holds(Rows(previewer.lines, previewed.offset))'
  BY <1>2, <1>6 DEF Holds, right
<1>8. ~alias' => (p.lines # <<>> => p.lines[1][1] = p.version)
  BY DEF PrintWith
<1>9. ~alias' /\ p.version # 0 => previewed'.filled = IsFilled(p)
  BY <1>2
<1> QED
  BY <1>2, <1>7, <1>8, <1>9 DEF Matches, IsFilled

\* The lines that wait begin with those that are shown, when they have the same
\* version and neither have that of another command.
LEMMA SameVersionBegins ==
  ASSUME NEW old, NEW lines, NEW version \in Int, NEW of, ResultOf(lines, version, of),
         Before(old, lines, version, of),
         old # <<>> => old[1][1] = version, lines # <<>> => lines[1][1] = version
  PROVE  Begins(old, lines) /\ version = of /\ version # 0
<1>1. version = of /\ of \in Nat \ {0}
  BY DEF ResultOf
<1> QED
  BY <1>1 DEF Before, Begins

LEMMA WindowOfDisplay ==
  ASSUME Typed, Streams, InWindow, ~crashed, RenderDisplay, shown, shown' = TRUE, ~alias'
  PROVE  Matches'
<1> DEFINE d == requests.display
           p == Positioned(Received(d), d)
           q == previewed
           u == Unchanged(p, q)
<1>1. d \in Result /\ p \in Window /\ PrintWith(screen.rows, p, q, u) /\ u \in BOOLEAN
  BY PositionedTyped DEF Typed, RenderDisplay, PrintPreview, Unchanged
<1>2. p.lines = d.lines /\ p.version = d.version
  <2>1. Received(d).lines = d.lines /\ Received(d).version = d.version
    BY DEF Received, Typed, Window
  <2> QED
    BY <2>1 DEF Positioned, Received, Typed, Window
<1>3. u => /\ q.filled \/ Len(d.lines) = q.numLines
           /\ d.version = q.version /\ p.offset = q.offset
  BY <1>2 DEF Unchanged
<1>4. ~(u /\ ~alias) => ~u
  BY <1>1 DEF PrintWith
<1>5. d.lines # <<>> => d.lines[1][1] = d.version
  BY <1>1, <1>2 DEF PrintWith
<1> HIDE DEF p, u
<1>6. screen.rows \in [0..(Height - 1) -> Int \X Int]
  BY DEF Typed
<1>7. PICK of \in Past : /\ ResultOf(d.lines, d.version, of)
                         /\ Before(previewer.lines, d.lines, d.version, of)
  BY DEF RenderDisplay, Streams, Ordered, Waiting
<1>8. ASSUME u
      PROVE  /\ \A r \in 0..(Height - 1) : r # 0 => screen.rows[r] = Rows(p.lines, p.offset)[r]
             /\ q.filled = IsFilled(p)
  <2>1. d.version # 0
    BY <1>1, <1>5, <1>7 DEF ResultOf, Result
  <2>2. Matches
    BY <1>3, <1>4, <1>8, <2>1 DEF InWindow, Bare
  <2> DEFINE old == previewer.lines
             o == q.offset
             top == Max({0, o})
  <2>3. /\ q.numLines = Len(old) /\ q.filled = (Len(old) - top >= Height)
        /\ old # <<>> => old[1][1] = d.version
    BY <1>3, <1>8, <2>1, <2>2 DEF Matches
  <2>4. Begins(old, d.lines)
    BY <1>1, <1>5, <1>7, <2>3, SameVersionBegins DEF Result
  <2>5. IsOutput(old) /\ IsOutput(d.lines) /\ o \in Int
    BY <1>7 DEF ResultOf, Streams, Ordered, Typed
  <2>6. Len(d.lines) = Len(old) \/ Len(old) - top >= Height
    BY <1>3, <1>8, <2>3
  <2>7. Rows(d.lines, o) = Rows(old, o)
    BY <2>4, <2>5, <2>6, RowsAreKept
  <2>8. \A r \in 0..(Height - 1) : r # 0 => screen.rows[r] = Rows(old, o)[r]
    <3>1. Holds(Rows(old, o))
      BY <2>2 DEF Matches
    <3> QED
      BY <3>1 DEF Holds
  <2>9. IsFilled(p) = (Len(d.lines) - top >= Height)
    BY <1>2, <1>3, <1>8 DEF IsFilled
  <2>10. Len(old) <= Len(d.lines) /\ Len(old) \in Nat /\ Len(d.lines) \in Nat /\ top \in Int
    <3>1. top \in Int
      BY <2>5, MaxOfTwo
    <3>2. Len(old) \in Nat /\ Len(d.lines) \in Nat
      BY <2>5 DEF IsOutput, Outputs
    <3>3. Len(old) <= Len(d.lines)
      <4>1. CASE old = <<>>
        BY <3>2, <4>1
      <4>2. CASE old # <<>>
        BY <2>4, <4>2 DEF Begins
      <4> QED
        BY <4>1, <4>2
    <3> QED
      BY <3>1, <3>2, <3>3
  <2>11. q.filled = IsFilled(p)
    <3> HIDE DEF top
    <3> QED
      BY <2>3, <2>6, <2>9, <2>10, PreviewAssumption
  <2> QED
    BY <1>2, <1>3, <1>8, <2>7, <2>8, <2>11
<1> QED
  BY <1>1, <1>6, <1>8, PrintMatches

LEMMA WindowOfRefresh ==
  ASSUME Typed, Streams, InWindow, RenderRefresh, shown, shown' = TRUE, ~alias'
  PROVE  Matches'
<1> DEFINE p == previewer
           q == previewed
           u == Unchanged(p, q)
<1>1. p \in Window /\ PrintWith(screen.rows, p, q, u) /\ u \in BOOLEAN
  BY DEF Typed, RenderRefresh, PrintPreview, Unchanged
<1>2. u => ~alias
  BY <1>1 DEF PrintWith
<1>3. u => p.version = q.version /\ p.offset = q.offset
  BY DEF Unchanged
<1>4. p.lines # <<>> => p.lines[1][1] = p.version
  BY <1>1 DEF PrintWith
<1> HIDE DEF u
<1>5. ASSUME u
      PROVE  /\ \A r \in 0..(Height - 1) : r # 0 => screen.rows[r] = Rows(p.lines, p.offset)[r]
             /\ p.version = 0 \/ q.filled = IsFilled(p)
  <2>1. CASE Matches
    BY <1>3, <1>5, <2>1 DEF Matches, Holds, IsFilled
  <2>2. CASE Bare
    <3>1. p.version = 0
      BY <1>3, <1>5, <2>2 DEF Bare
    <3>2. p.lines = <<>>
      BY <1>4, <3>1 DEF Streams, Ordered, Past
    <3>3. Rows(p.lines, p.offset) = Empty.rows
      BY <1>1, <3>2, RowsOfNone DEF Window
    <3> QED
      BY <2>2, <3>1, <3>3 DEF Bare, Holds
  <2> QED
    BY <1>2, <1>5, <2>1, <2>2 DEF InWindow
<1>6. screen.rows \in [0..(Height - 1) -> Int \X Int]
  BY DEF Typed
<1> QED
  BY <1>1, <1>5, <1>6, PrintMatches

\* "Loading .." is drawn over the first row only.
LEMMA WindowOfDelayed ==
  ASSUME Typed, Streams, InWindow, RenderDelayed, shown, shown' = TRUE, ~alias',
         UNCHANGED <<box, pc, drawer>>
  PROVE  Matches' \/ Bare'
<1> DEFINE p == [previewer EXCEPT !.version = requests.delayed]
<1>1. PrintDelayed(p) /\ p \in Window
  BY DEF RenderDelayed, Typed, Window
<1>2. p.lines = previewer.lines /\ p.offset = previewer.offset
  BY DEF Typed, Window
<1>3. /\ requests'.display = requests.display /\ requests'.refresh = requests.refresh
      /\ UNCHANGED <<previewed, alias>>
  BY DEF RenderDelayed, PrintDelayed, Typed
<1> HIDE DEF p
<1>4. previewer'.lines = previewer.lines /\ previewer'.offset = previewer.offset
  BY <1>1, <1>2, PrintKeeps
<1> DEFINE drawn == Drawn(screen.rows, p, TRUE)
<1>5. screen' = screen \/ screen' = [rows |-> drawn, loading |-> TRUE]
  BY <1>1 DEF PrintDelayed
<1>6. \A r \in 0..(Height - 1) : r # 0 => drawn[r] = screen.rows[r]
  BY PreviewAssumption DEF Drawn, Typed
<1> HIDE DEF drawn
<1>7. \A rows : Holds(rows) =>
          \A r \in 0..(Height - 1) : (r = 0 /\ screen'.loading) \/ screen'.rows[r] = rows[r]
  <2> SUFFICES ASSUME NEW rows, Holds(rows), NEW r \in 0..(Height - 1)
               PROVE  (r = 0 /\ screen'.loading) \/ screen'.rows[r] = rows[r]
    OBVIOUS
  <2>1. CASE screen' = screen
    BY <2>1 DEF Holds
  <2>2. CASE screen' = [rows |-> drawn, loading |-> TRUE]
    BY <1>6, <2>2 DEF Holds
  <2> QED
    BY <1>5, <2>1, <2>2
<1>8. CASE Matches
  <2>1. \A r \in 0..(Height - 1) :
            (r = 0 /\ screen'.loading) \/ screen'.rows[r] = Rows(previewer.lines, previewed.offset)[r]
    BY <1>7, <1>8 DEF Matches
  <2>2. Holds(Rows(previewer.lines, previewed.offset))'
    BY <1>3, <1>4, <2>1 DEF Holds
  <2> QED
    BY <1>3, <1>4, <1>8, <2>2 DEF Matches
<1>9. CASE Bare
  <2>1. \A r \in 0..(Height - 1) :
            (r = 0 /\ screen'.loading) \/ screen'.rows[r] = Empty.rows[r]
    BY <1>7, <1>9 DEF Bare
  <2>2. Holds(Empty.rows)'
    BY <2>1 DEF Holds
  <2>3. Outstanding' \/ unasked'
    BY <1>1, <1>3, <1>9 DEF Bare, Outstanding, Waiting, PrintDelayed
  <2> QED
    BY <1>3, <1>9, <2>2, <2>3 DEF Bare
<1> QED
  BY <1>3, <1>8, <1>9 DEF InWindow

LEMMA WindowOfResize ==
  ASSUME Typed, Streams, InWindow, Resize, ~alias'
  PROVE  Matches'
<1> DEFINE p == previewer
           q == [previewed EXCEPT !.version = 0]
           u == Unchanged(p, q)
<1>1. p \in Window /\ PrintWith(Empty.rows, p, q, u) /\ u \in BOOLEAN /\ shown' = TRUE
  BY DEF Typed, Resize, PrintPreview, Unchanged
<1>2. u => p.version = 0
  BY DEF Unchanged, Typed
<1>3. p.lines # <<>> => p.lines[1][1] = p.version
  BY <1>1 DEF PrintWith
<1> HIDE DEF u
<1>4. ASSUME u PROVE Rows(p.lines, p.offset) = Empty.rows
  <2>1. p.lines = <<>>
    BY <1>2, <1>3, <1>4 DEF Streams, Ordered, Past
  <2> QED
    BY <1>1, <2>1, RowsOfNone DEF Window
<1>5. Empty.rows \in [0..(Height - 1) -> Int \X Int]
  BY PreviewAssumption DEF Empty, Blank
<1> HIDE DEF q
<1> QED
  BY <1>1, <1>2, <1>4, <1>5, PrintMatches

LEMMA RowsStay ==
  ASSUME previewer'.lines = previewer.lines, previewed'.offset = previewed.offset,
         screen' = screen, Holds(Rows(previewer.lines, previewed.offset))
  PROVE  Holds(Rows(previewer.lines, previewed.offset))'
<1>1. \A r \in 0..(Height - 1) :
          (r = 0 /\ screen.loading) \/ screen.rows[r] = Rows(previewer.lines, previewed.offset)[r]
  BY DEF Holds
<1>2. Rows(previewer'.lines, previewed'.offset) = Rows(previewer.lines, previewed.offset)
  OBVIOUS
<1>3. \A r \in 0..(Height - 1) :
          (r = 0 /\ screen'.loading) \/ screen'.rows[r] = Rows(previewer'.lines, previewed'.offset)[r]
  BY <1>1, <1>2
<1> QED
  BY <1>3 DEF Holds

LEMMA EmptyStays ==
  ASSUME screen' = screen, Holds(Empty.rows)
  PROVE  Holds(Empty.rows)'
BY DEF Holds

\* While the window is left alone, only what Outstanding says may change.
LEMMA WindowIsKept ==
  ASSUME InWindow, UNCHANGED <<shown, previewer, previewed, screen, alias>>,
         requests'.refresh = requests.refresh,
         Outstanding \/ unasked => Outstanding' \/ unasked'
  PROVE  InWindow'
<1>1. Matches => Matches'
  BY RowsStay DEF Matches
<1>2. Bare => Bare'
  BY EmptyStays DEF Bare
<1> QED
  BY <1>1, <1>2 DEF InWindow

LEMMA WindowNext ==
  ASSUME Typed, Streams, InWindow, [Next]_vars
  PROVE  InWindow'
<1> USE DEF goVars, windowVars
<1> DEFINE Quiet == /\ UNCHANGED windowVars /\ requests'.refresh = requests.refresh
                    /\ (Outstanding => Outstanding')
<1>1. CASE Refresh
  <2>1. box'.request # NoRequest
    BY <1>1, EnqueueTyped DEF Refresh
  <2> QED
    BY <1>1, <2>1, WindowIsKept DEF Refresh, Outstanding
<1>2. CASE Activate \/ Ready \/ Ends \/ Delayed \/ Kill \/ KillerStops \/ Finish
  <2>1. Quiet
    BY <1>2 DEF Activate, Ready, Ends, Delayed, Kill, KillerStops, Finish, Outstanding, Waiting, Typed
  <2> QED
    BY <2>1, WindowIsKept
<1>3. CASE KillerWaits
  <2>1. Quiet
    BY <1>3 DEF KillerWaits, Outstanding, Waiting, Typed
  <2> QED
    BY <2>1, WindowIsKept
<1>4. CASE Take \/ Start \/ Reap
  <2>1. Quiet
    BY <1>4 DEF Take, Start, Reap, Outstanding, Waiting, Typed
  <2> QED
    BY <2>1, WindowIsKept
<1>5. CASE Fail \/ Tick \/ EndOfOutput
  <2>1. Ordered' /\ Delivered' /\ Running'
    BY <1>5, StreamsOfFail, StreamsOfDisplay
  <2>2. Waiting'
    <3>1. CASE Fail
      BY <3>1 DEF Fail, Typed, Streams, Command, Waiting, NoDisplay
    <3>2. CASE Tick \/ EndOfOutput
      <4>1. /\ drawer.pc = "loop" /\ requests'.display.lines = drawer.lines
            /\ requests'.display.version = drawer.version
        BY <3>2 DEF Tick, EndOfOutput, Display, Typed
      <4> QED
        BY <4>1 DEF Streams, Running, ResultOf, Waiting, NoDisplay
    <3> QED
      BY <1>5, <3>1, <3>2
  <2>3. Quiet
    BY <1>5, <2>2 DEF Fail, Tick, EndOfOutput, Display, Outstanding, Typed
  <2> QED
    BY <2>3, WindowIsKept
<1>6. CASE Line \/ Clear
  <2>1. UNCHANGED <<box, pc, windowVars, requests>> /\ drawer'.pc = drawer.pc
    BY <1>6 DEF Line, Clear, Typed
  <2> QED
    BY <2>1, WindowIsKept DEF Outstanding, Waiting
<1>7. CASE Render
  <2>1. UNCHANGED <<box, pc, drawer, shown>> /\ ~crashed
    BY <1>7 DEF Render
  <2> SUFFICES ASSUME shown, ~alias' PROVE Matches' \/ Bare'
    BY <2>1 DEF InWindow
  <2>2. shown' = TRUE
    BY <2>1 DEF Typed
  <2> QED
    BY <1>7, <2>1, <2>2, WindowOfDisplay, WindowOfRefresh, WindowOfDelayed DEF Render
<1>8. CASE Show
  <2>1. box'.request # NoRequest \/ unasked'
    BY <1>8, EnqueueTyped DEF Show
  <2>2. previewed'.version = 0 /\ screen' = Empty
    BY <1>8 DEF Show, Typed
  <2>3. Bare'
    BY <2>1, <2>2 DEF Bare, Holds, Outstanding
  <2> QED
    BY <2>3 DEF InWindow
<1>9. CASE Hide
  BY <1>9 DEF Hide, InWindow
<1>10. CASE Redraw
  <2>1. /\ UNCHANGED <<box, goVars, shown, screen, alias, unasked>>
        /\ previewer'.lines = previewer.lines /\ previewed'.version = 0
        /\ previewed'.offset = previewed.offset /\ requests'.refresh
        /\ requests'.display = requests.display
    BY <1>10 DEF Redraw, Typed, Window
  <2>2. Matches => Matches'
    BY <2>1, RowsStay DEF Matches
  <2>3. Bare => Bare'
    BY <2>1, EmptyStays DEF Bare, Outstanding, Waiting
  <2> QED
    BY <2>1, <2>2, <2>3 DEF InWindow
<1>11. CASE Resize
  BY <1>11, WindowOfResize DEF InWindow
<1>12. CASE Scroll
  <2>1. /\ UNCHANGED <<box, goVars, shown, previewed, screen, alias, unasked>>
        /\ previewer'.lines = previewer.lines /\ requests'.display = requests.display
        /\ requests'.refresh \/ (previewer' = previewer /\ requests' = requests)
    BY <1>12, ScrollTyped DEF Scroll
  <2>2. Matches => Matches'
    BY <2>1, RowsStay DEF Matches
  <2>3. Bare => Bare'
    BY <2>1, EmptyStays DEF Bare, Outstanding, Waiting
  <2> QED
    BY <2>1, <2>2, <2>3 DEF InWindow
<1>13. CASE UNCHANGED vars
  BY <1>13, WindowIsKept DEF vars, Outstanding, Waiting
<1> QED
  BY <1>1, <1>2, <1>3, <1>4, <1>5, <1>6, <1>7, <1>8, <1>9, <1>10, <1>11, <1>12, <1>13
     DEF Next, Previewer, Output, Killer

(***************************************************************************)
(* The theorem                                                             *)
(***************************************************************************)

LEMMA PreviewAlways == Spec => []PreviewInv
<1>1. PreviewInv /\ [Next]_vars => PreviewInv'
  BY TypedNext, StreamsNext, WindowNext DEF PreviewInv
<1> QED
  BY <1>1, PreviewInit, PTL DEF Spec

\* When nothing is left to do, the window shows the output of the command for
\* the last request from the scroll offset on, unless lines were drawn as those
\* of another version, or it was shown with nothing to preview and is blank.
THEOREM PreviewIsExact == Spec => []PreviewExact
<1>1. ASSUME PreviewInv PROVE PreviewExact
  <2> SUFFICES ASSUME ~alias, AtRest, shown
               PROVE  /\ run.request = asked
                      /\ \A k \in DOMAIN previewer.lines : previewer.lines[k][1] = run.version
                      /\ \/ Holds(Rows(previewer.lines, previewer.offset))
                         \/ unasked /\ Holds(Empty.rows)
    BY DEF PreviewExact, ShownExact
  <2> USE <1>1 DEF PreviewInv
  <2>1. /\ pc = "wait" /\ box.request = NoRequest /\ ~Waiting /\ ~requests.refresh
        /\ drawer.pc = "done"
    BY DEF AtRest, Waiting, Streams, Command, Typed
  <2>2. Matches \/ (unasked /\ Holds(Empty.rows))
    BY <2>1 DEF InWindow, Bare, Outstanding
  <2>3. run.request = asked
    BY <2>1 DEF Streams, LastAsked
  <2>4. ASSUME NEW k \in DOMAIN previewer.lines
        PROVE  previewer.lines[k][1] = run.version
    <3> DEFINE l == previewer.lines
    <3>1. IsOutput(l) /\ l \in Outputs /\ k \in DOMAIN l
      BY <2>4 DEF Streams, Ordered, IsOutput
    <3> HIDE DEF l
    <3>2. k \in 1..Len(l) /\ l # <<>>
      BY <3>1 DEF Outputs
    <3>3. IsOutput(previewer.lines) /\ k \in 1..Len(previewer.lines) /\ previewer.lines # <<>>
      BY <3>1, <3>2 DEF l
    <3>4. previewer.lines[1][1] = run.version
      BY <2>1, <3>3 DEF Streams, Delivered
    <3>5. CASE k = 1
      BY <3>4, <3>5
    <3>6. CASE k > 1
      <4>1. previewer.lines[k] = <<previewer.lines[1][1], k>>
        BY <3>3, <3>6 DEF IsOutput
      <4> QED
        BY <3>4, <4>1
    <3> QED
      BY <3>3, <3>5, <3>6
  <2> QED
    BY <2>1, <2>2, <2>3, <2>4 DEF Matches
<1> QED
  BY <1>1, PreviewAlways, PTL

=============================================================================
