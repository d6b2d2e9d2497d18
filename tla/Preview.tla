------------------------------ MODULE Preview -------------------------------
(***************************************************************************)
(* The previewer of the terminal (terminal.go): one goroutine that runs a  *)
(* preview command per request, with three more while it runs (one reads   *)
(* the output, one asks for it to be drawn, one kills the command), and the*)
(* preview window, in which the render loop draws what it gets, only as far*)
(* as it believes that it has changed.                                     *)
(*                                                                         *)
(* A line of output is <<version, n>>: the n-th line of that command.     *)
(***************************************************************************)
EXTENDS Integers, Sequences, SequencesExt, FiniteSetsExt

CONSTANTS
    MaxRequests,  \* bound on the requests
    MaxKeys,      \* bound on the keys that scroll or change the window
    MaxLines,     \* bound on the output of a command
    MaxClears,    \* bound on its codes to clear the window
    Height,       \* of the preview window
    Offsets,      \* what --preview-window +N can come to
    Follow,       \* follow
    CycleScroll   \* cycle

ASSUME PreviewAssumption ==
    Height \in Nat \ {0} /\ MaxLines \in Nat /\ Offsets \subseteq Nat

VARIABLES
    box,       \* previewBox: the pending events, "ready" and the request
    asked,     \* number of requests made
    pc,        \* of the goroutine: "ready", "wait", "start", "run" or "reap"
    run,       \* [request, version, items, offset] of the command
    command,   \* "none", "running" or "ended"
    reader,    \* goroutine 1: "read", "eof", "done"
    drawer,    \* goroutine 2: [pc, lines, version, offset]
    killer,    \* goroutine 3: "none", "wait", "post", "delay", "reap" or "done"
    finish,    \* is there something in finishChan?
    timer,     \* has previewDelayed not passed yet?
    lost,      \* has the last cancellation found nobody to receive it?
    requests,  \* of the render loop: display, delayed, refresh
    shown,     \* is there a preview window?
    previewer, \* [version, lines, offset, scrollable, following]
    previewed, \* [version, numLines, offset, filled]
    screen,    \* the rows of the window and whether "Loading .." is over them
    alias,     \* were the lines last drawn as those of another version?
    unasked,   \* was the window shown with nothing to preview, and not drawn since?
    crashed, clears, keys

goVars == <<pc, run, command, reader, drawer, killer, finish, timer, clears>>
windowVars == <<shown, previewer, previewed, screen, alias, unasked>>
vars == <<box, asked, goVars, lost, requests, windowVars, crashed, keys>>

NoRequest == [request |-> 0, items |-> FALSE, offset |-> 0]
NoDisplay == [version |-> -1, lines |-> <<>>, offset |-> -1]
NoDelay == -1
Blank == <<0, 0>>
Empty == [rows |-> [r \in 0..(Height - 1) |-> Blank], loading |-> FALSE]

Constrain(n, low, high) == IF n < low THEN low ELSE IF n > high THEN high ELSE n

\* resumableState.Force, Set
Forced(flag) == IF flag THEN "enabled" ELSE "disabled"
SetTo(state, flag) ==
    IF state = "disabled" THEN state ELSE IF flag THEN "enabled" ELSE "paused"

Init ==
    /\ box = [ready |-> FALSE, request |-> NoRequest] /\ asked = 0
    /\ pc = "ready" /\ run = [request |-> 0, version |-> 0, items |-> FALSE, offset |-> 0]
    /\ reader = "done" /\ killer = "done" /\ finish = FALSE /\ timer = FALSE /\ clears = 0
    /\ drawer = [pc |-> "done", lines |-> <<>>, version |-> 0, offset |-> 0]
    /\ lost = FALSE /\ requests = [display |-> NoDisplay, delayed |-> NoDelay, refresh |-> FALSE]
    /\ shown \in BOOLEAN   \* hidden
    /\ previewer = [version |-> 0, lines |-> <<>>, offset |-> 0, scrollable |-> FALSE,
                    following |-> "disabled"]
    /\ previewed = [version |-> 0, numLines |-> 0, offset |-> 0, filled |-> FALSE]
    /\ screen = Empty /\ alias = FALSE /\ unasked = FALSE
    /\ command = "none" /\ crashed = FALSE /\ keys = 0

(***************************************************************************)
(* The terminal's side: requests                                           *)
(***************************************************************************)

\* cancelPreview: goroutine 3 gets it if it is waiting for it.
Cancel ==
    /\ killer' = IF killer = "wait" THEN "delay" ELSE killer
    /\ lost' = (pc = "start" \/ killer \in {"none", "post"})

\* A request of its own for the window; items is what buildPlusList says of it:
\* is there a current item, or does the template need none?
Enqueue(items, offset) ==
    /\ asked' = asked + 1
    /\ box' = [box EXCEPT !.request = [request |-> asked + 1, items |-> items, offset |-> offset]]
    /\ unasked' = FALSE

\* refreshPreview, by the render loop or an action: also with nothing to preview.
Refresh ==
    /\ shown /\ ~crashed /\ asked < MaxRequests
    /\ Cancel
    /\ \E items \in BOOLEAN, offset \in Offsets : Enqueue(items, offset)
    /\ UNCHANGED <<pc, run, command, reader, drawer, finish, timer, clears, requests,
                   shown, previewer, previewed, screen, alias, crashed, keys>>

\* reqActivate
Activate ==
    /\ ~box.ready /\ pc = "ready"
    /\ box' = [box EXCEPT !.ready = TRUE]
    /\ UNCHANGED <<asked, goVars, lost, requests, windowVars, crashed, keys>>

(***************************************************************************)
(* The goroutine of the previewer                                          *)
(***************************************************************************)

Ready ==
    /\ pc = "ready" /\ box.ready
    /\ pc' = "wait"
    /\ UNCHANGED <<box, asked, run, command, reader, drawer, killer, finish, timer, clears, lost,
                   requests, windowVars, crashed, keys>>

\* The request is taken, a new version begins.
Take ==
    /\ pc = "wait" /\ box.request # NoRequest
    /\ box' = [box EXCEPT !.request = NoRequest]
    /\ run' = [request |-> box.request.request, version |-> run.version + 1,
               items |-> box.request.items, offset |-> box.request.offset]
    /\ pc' = "start" /\ lost' = FALSE
    /\ UNCHANGED <<asked, command, reader, drawer, killer, finish, timer, clears, requests,
                   windowVars, crashed, keys>>

\* There is nothing to preview, or the command cannot be started.
Fail ==
    /\ pc = "start"
    /\ requests' = [requests EXCEPT
           !.display = [version |-> run.version, offset |-> 0,
                        lines |-> IF run.items THEN <<<<run.version, 1>>>> ELSE <<>>]]
    /\ pc' = "wait"
    /\ UNCHANGED <<box, asked, run, command, reader, drawer, killer, finish, timer, clears, lost,
                   windowVars, crashed, keys>>

\* The command is started, and the three goroutines are.
Start ==
    /\ pc = "start" /\ run.items
    /\ pc' = "run" /\ command' = "running" /\ reader' = "read" /\ timer' = TRUE /\ clears' = 0
    /\ drawer' = [pc |-> "loop", lines |-> <<>>, version |-> run.version, offset |-> run.offset]
    /\ killer' = "none"
    /\ UNCHANGED <<box, asked, run, finish, lost, requests, windowVars, crashed, keys>>

\* Goroutine 3 gets to its loop, or back to it.
KillerWaits ==
    /\ killer \in {"none", "post"}
    /\ killer' = "wait"
    /\ requests' = IF killer = "post" THEN [requests EXCEPT !.delayed = run.version] ELSE requests
    /\ UNCHANGED <<box, asked, pc, run, command, reader, drawer, finish, timer, clears, lost,
                   windowVars, crashed, keys>>

\* Goroutine 1 has seen the end of the output; goroutine 3 is told to stop.
Finish ==
    /\ pc = "run" /\ reader = "eof"
    /\ pc' = "reap" /\ reader' = "done" /\ finish' = TRUE
    /\ UNCHANGED <<box, asked, run, command, drawer, killer, timer, clears, lost, requests,
                   windowVars, crashed, keys>>

\* Goroutines 2 and 3 are done.
Reap ==
    /\ pc = "reap" /\ drawer.pc = "reap" /\ killer = "reap"
    /\ pc' = "wait" /\ finish' = FALSE /\ command' = "none" /\ timer' = FALSE
    /\ drawer' = [drawer EXCEPT !.pc = "done", !.lines = <<>>] /\ killer' = "done"
    /\ UNCHANGED <<box, asked, run, reader, clears, lost, requests, windowVars, crashed, keys>>

(***************************************************************************)
(* The command and goroutines 1 and 2: output, and requests to draw it     *)
(***************************************************************************)

Display(lines, version, offset) ==
    requests' = [requests EXCEPT
                    !.display = [version |-> version, lines |-> lines, offset |-> offset]]

\* A line goes through goroutine 1 to goroutine 2.
Line ==
    /\ command = "running" /\ reader = "read" /\ drawer.pc = "loop"
    /\ Len(drawer.lines) < MaxLines
    /\ drawer' = [drawer EXCEPT !.lines = Append(@, <<run.version, Len(@) + 1>>)]
    /\ UNCHANGED <<box, asked, pc, run, command, reader, killer, finish, timer, clears, lost,
                   requests, windowVars, crashed, keys>>

\* A line with the code to clear the window: the version is counted down, so
\* that it differs from the one before.
Clear ==
    /\ command = "running" /\ reader = "read" /\ drawer.pc = "loop" /\ clears < MaxClears
    /\ drawer' = [drawer EXCEPT !.lines = <<<<run.version, MaxLines + clears + 1>>>>,
                                !.version = @ - 1, !.offset = 0]
    /\ clears' = clears + 1
    /\ UNCHANGED <<box, asked, pc, run, command, reader, killer, finish, timer, lost,
                   requests, windowVars, crashed, keys>>

Ends ==
    /\ command = "running"
    /\ command' = "ended"
    /\ UNCHANGED <<box, asked, pc, run, reader, drawer, killer, finish, timer, clears, lost,
                   requests, windowVars, crashed, keys>>

\* The ticker: what there is, is to be drawn.
Tick ==
    /\ drawer.pc = "loop" /\ drawer.lines # <<>> /\ Len(drawer.lines) >= run.offset
    /\ Display(drawer.lines, drawer.version, drawer.offset)
    /\ drawer' = [drawer EXCEPT !.offset = -1]
    /\ UNCHANGED <<box, asked, pc, run, command, reader, killer, finish, timer, clears, lost,
                   windowVars, crashed, keys>>

EndOfOutput ==
    /\ command = "ended" /\ reader = "read" /\ drawer.pc = "loop"
    /\ Display(drawer.lines, drawer.version, drawer.offset)
    /\ drawer' = [drawer EXCEPT !.pc = "reap"]
    /\ reader' = "eof"
    /\ UNCHANGED <<box, asked, pc, run, command, killer, finish, timer, clears, lost,
                   windowVars, crashed, keys>>

(***************************************************************************)
(* Goroutine 3                                                             *)
(***************************************************************************)

\* The command takes long.  The request to say so may have to wait for the
\* render loop.
Delayed ==
    /\ killer = "wait" /\ timer
    /\ timer' = FALSE /\ killer' = "post"
    /\ UNCHANGED <<box, asked, pc, run, command, reader, drawer, finish, clears, lost, requests,
                   windowVars, crashed, keys>>

\* (Variant: the command goes on.)
KillNot ==
    /\ killer = "delay"
    /\ killer' = "reap"
    /\ UNCHANGED <<box, asked, pc, run, command, reader, drawer, finish, timer, clears, lost,
                   requests, windowVars, crashed, keys>>

\* A cancelled command is killed after previewCancelWait, or at once when some
\* of its output has been drawn.
Kill ==
    /\ killer = "delay"
    /\ command' = IF command = "running" THEN "ended" ELSE command
    /\ killer' = "reap"
    /\ UNCHANGED <<box, asked, pc, run, reader, drawer, finish, timer, clears, lost,
                   requests, windowVars, crashed, keys>>

KillerStops ==
    /\ finish /\ killer \in {"wait", "delay"}
    /\ finish' = FALSE
    /\ killer' = "reap"
    /\ UNCHANGED <<box, asked, pc, run, command, reader, drawer, timer, clears, lost,
                   requests, windowVars, crashed, keys>>

(***************************************************************************)
(* The window                                                              *)
(***************************************************************************)

\* The lines that are visible with a scroll offset, from the top.
Rows(lines, offset) ==
    [r \in 0..(Height - 1) |->
        LET k == r + Max({0, offset}) IN
        IF k < Len(lines) /\ k - offset < Height THEN lines[k + 1] ELSE Blank]

\* renderPreviewArea: all of it, or only the first row when nothing has changed.
Drawn(rows, p, unchanged) ==
    IF unchanged THEN [rows EXCEPT ![0] = Rows(p.lines, p.offset)[0]]
    ELSE Rows(p.lines, p.offset)
IsFilled(p) == Len(p.lines) - Max({0, p.offset}) >= Height

\* (Variant: the offset is not looked at.)
UnchangedAnyOffset(p, q) ==
    (q.filled \/ Len(p.lines) = q.numLines) /\ p.version = q.version

\* Is what is on the screen believed to be right?
Unchanged(p, q) ==
    (q.filled \/ Len(p.lines) = q.numLines) /\ p.version = q.version /\ p.offset = q.offset

\* printPreview, with p for previewer and q for previewed.
PrintWith(rows, p, q, unchanged) ==
    /\ previewer' = [p EXCEPT !.scrollable = p.offset > 0 \/ Len(p.lines) > Height]
    /\ previewed' = [version |-> p.version, numLines |-> Len(p.lines), offset |-> p.offset,
                     filled |-> IF unchanged THEN q.filled ELSE IsFilled(p)]
    /\ screen' = [rows |-> Drawn(rows, p, unchanged), loading |-> FALSE]
    /\ alias' = \/ unchanged /\ alias
                \/ p.lines # <<>> /\ p.lines[1][1] # p.version
    /\ unasked' = FALSE
PrintPreview(rows, p, q) ==
    IF shown THEN PrintWith(rows, p, q, Unchanged(p, q))
    ELSE previewer' = p /\ previewed' = q /\ UNCHANGED <<screen, alias, unasked>>

\* printPreviewDelayed
PrintDelayed(p) ==
    IF ~shown \/ (p.lines # <<>> /\ previewed.version = p.version)
    THEN previewer' = p /\ UNCHANGED <<previewed, screen, alias, unasked>>
    ELSE /\ previewer' = [p EXCEPT !.scrollable = FALSE]
         /\ screen' = [rows |-> Drawn(screen.rows, p, TRUE), loading |-> TRUE]
         /\ UNCHANGED <<previewed, alias, unasked>>

\* The content of a result, before it is drawn: following starts again with a
\* new version.
Received(d) ==
    IF previewer.version = d.version THEN [previewer EXCEPT !.lines = d.lines]
    ELSE [previewer EXCEPT !.version = d.version, !.lines = d.lines, !.following = Forced(Follow),
                           !.offset = IF Follow THEN 0 ELSE @]
Positioned(p, d) ==
    CASE shown /\ p.following = "enabled" ->
             [p EXCEPT !.offset = Max({@, Len(p.lines) - Height})]
      [] d.offset >= 0 /\ ~(shown /\ p.following = "enabled") ->
             [p EXCEPT !.offset = Constrain(d.offset, 0, Len(p.lines) - 1)]
      [] OTHER -> p

\* reqPreviewDisplay, reqPreviewRefresh, reqPreviewDelayed: in this order when
\* they are found together.
RenderDisplay ==
    /\ requests.display # NoDisplay
    /\ requests' = [requests EXCEPT !.display = NoDisplay]
    /\ \E d \in {requests.display} : \E p \in {Positioned(Received(d), d)} : PrintPreview(screen.rows, p, previewed)
RenderRefresh ==
    /\ requests.display = NoDisplay /\ requests.refresh
    /\ requests' = [requests EXCEPT !.refresh = FALSE]
    /\ PrintPreview(screen.rows, previewer, previewed)
RenderDelayed ==
    /\ requests.display = NoDisplay /\ ~requests.refresh /\ requests.delayed # NoDelay
    /\ requests' = [requests EXCEPT !.delayed = NoDelay]
    /\ PrintDelayed([previewer EXCEPT !.version = requests.delayed])

Render ==
    /\ ~crashed
    /\ RenderDisplay \/ RenderRefresh \/ RenderDelayed
    /\ UNCHANGED <<box, asked, goVars, lost, shown, crashed, keys>>

(***************************************************************************)
(* Actions on the window                                                   *)
(***************************************************************************)

Key == keys < MaxKeys /\ keys' = keys + 1 /\ ~crashed

\* show-preview, hide-preview, toggle-preview: the windows are made again.  With
\* nothing to preview there is no request, and nothing is cancelled.
Show ==
    /\ Key /\ ~shown
    /\ shown' = TRUE /\ previewed' = [previewed EXCEPT !.version = 0] /\ screen' = Empty
    /\ \/ /\ asked < MaxRequests
          /\ Cancel
          /\ \E offset \in Offsets : Enqueue(TRUE, offset)
       \/ unasked' = TRUE /\ UNCHANGED <<box, asked, killer, lost>>
    /\ UNCHANGED <<pc, run, command, reader, drawer, finish, timer, clears, requests, previewer,
                   alias, crashed>>

Hide ==
    /\ Key /\ shown
    /\ shown' = FALSE /\ previewed' = [previewed EXCEPT !.version = 0]
    /\ previewer' = [previewer EXCEPT !.lines = <<>>] /\ screen' = Empty
    /\ Cancel
    /\ UNCHANGED <<box, asked, pc, run, command, reader, drawer, finish, timer, clears, requests,
                   alias, unasked, crashed>>

\* toggle-preview-wrap, change-preview-window: the next time all is drawn.
Redraw ==
    /\ Key /\ shown
    /\ previewed' = [previewed EXCEPT !.version = 0]
    /\ requests' = [requests EXCEPT !.refresh = TRUE]
    /\ \/ UNCHANGED previewer
       \/ previewer' = [previewer EXCEPT !.following = Forced(Follow)]
    /\ UNCHANGED <<box, asked, goVars, lost, shown, screen, alias, unasked, crashed>>

\* A resize: the windows are made again, and drawn.
Resize ==
    /\ Key /\ shown
    /\ PrintPreview(Empty.rows, previewer, [previewed EXCEPT !.version = 0])
    /\ UNCHANGED <<box, asked, goVars, lost, requests, shown, crashed>>

\* Go's % has the sign of the dividend.
Rem(a, b) == IF a < 0 THEN -((-a) % b) ELSE a % b

\* scrollPreviewTo; dividing by zero is a panic.
ScrolledTo(n) ==
    LET size == Len(previewer.lines) IN
    Constrain(IF CycleScroll THEN Rem(n + size, size) ELSE n, 0, size - 1)
Moved(o) ==
    IF o = previewer.offset THEN UNCHANGED <<previewer, requests>>
    ELSE /\ previewer' = [previewer EXCEPT
                !.offset = o, !.following = SetTo(@, o >= Len(previewer.lines) - Height)]
         /\ requests' = [requests EXCEPT !.refresh = TRUE]
Scroll ==
    /\ Key /\ shown /\ previewer.scrollable
    /\ IF CycleScroll /\ previewer.lines = <<>>
       THEN crashed' = TRUE /\ UNCHANGED <<previewer, requests>>
       ELSE /\ \E n \in {0, Len(previewer.lines) - Height} \cup
                        {previewer.offset + d : d \in {-1, 1, -Height, Height}} :
                   Moved(ScrolledTo(n))
            /\ UNCHANGED crashed
    /\ UNCHANGED <<box, asked, goVars, lost, shown, previewed, screen, alias, unasked>>

Previewer == Ready \/ Take \/ Fail \/ Start \/ Finish \/ Reap
Output == Line \/ Clear \/ Tick \/ EndOfOutput
Killer == KillerWaits \/ Delayed \/ Kill \/ KillerStops

Next ==
    \/ ~crashed /\ (Previewer \/ Output \/ Killer \/ Activate)
    \/ Refresh \/ Ends \/ Render
    \/ Show \/ Hide \/ Redraw \/ Resize \/ Scroll

\* Every goroutine goes on, a command may run forever.
Fairness ==
    /\ WF_vars(~crashed /\ Activate)
    /\ WF_vars(~crashed /\ Ready)
    /\ WF_vars(~crashed /\ Take)
    /\ WF_vars(~crashed /\ (Fail \/ Start))
    /\ WF_vars(~crashed /\ KillerWaits)
    /\ WF_vars(~crashed /\ Finish)
    /\ WF_vars(~crashed /\ Reap)
    /\ WF_vars(~crashed /\ EndOfOutput)
    /\ WF_vars(~crashed /\ Kill)
    /\ WF_vars(~crashed /\ KillerStops)
    /\ WF_vars(Render)

Spec == Init /\ [][Next]_vars /\ Fairness

(***************************************************************************)
(* Properties                                                              *)
(***************************************************************************)

\* All is done: no request is left, the previewer waits, nothing is to be drawn.
AtRest ==
    /\ ~crashed /\ pc = "wait" /\ box.request = NoRequest
    /\ requests = [display |-> NoDisplay, delayed |-> NoDelay, refresh |-> FALSE]

\* Are these the rows on the screen?  "Loading .." can hide the first one.
Holds(rows) == \A r \in 0..(Height - 1) : (r = 0 /\ screen.loading) \/ screen.rows[r] = rows[r]

\* In the end the window shows the output for the last request, and of that the
\* lines from the scroll offset on: what was left undrawn because it was
\* believed to be on the screen already (terminal.go:3446-3458) was.  Only the
\* first row may be hidden by "Loading ..", when goroutine 3 said so too late, and
\* a window that was shown with nothing to preview (terminal.go:4730-4736) is
\* blank as long as nothing else has it drawn.
ShownExact ==
    AtRest /\ shown =>
        /\ run.request = asked
        /\ \A k \in DOMAIN previewer.lines : previewer.lines[k][1] = run.version
        /\ Holds(Rows(previewer.lines, previewer.offset)) \/ (unasked /\ Holds(Empty.rows))

\* This holds unless lines were drawn as those of another version: because the
\* window was drawn for another reason after "Loading .." and before the output,
\* or because the command cleared it, and its version is one less.
PreviewExact == alias \/ ShownExact

\* The command for the last request is started in the end, even if those before
\* it never end: they are killed (terminal.go:4273-4317), unless the request to
\* cancel came when goroutine 3 was not there to receive it (terminal.go:4047).
LastStarted == <>[](lost \/ crashed \/ run.request = asked)

\* Without the exception it does not hold.
AlwaysStarted == <>[](crashed \/ run.request = asked)

\* "Discard the preview content so that it won't accidentally appear when preview
\* window is re-enabled" (terminal.go:4738-4739): output that comes after the window
\* was hidden is kept, and drawn when the window has changed.  It does not hold.
Discarded == AtRest /\ unasked => previewer.lines = <<>>

\* Nor this, with cycle: a window that was hidden and is shown again has no
\* lines, but can still be scrolled (terminal.go:4639-4646).
NoPanic == ~crashed

=============================================================================
