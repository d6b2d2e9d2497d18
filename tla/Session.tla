------------------------------ MODULE Session ------------------------------
(***************************************************************************)
(* A run of the finder from its start to its end: how Run decides between  *)
(* filtering, leaving on its own (--select-1, --exit-0) and starting the   *)
(* interface (--sync and adaptive heights wait for it), how the interface  *)
(* becomes active, and how it is left.                                     *)
(*                                                                         *)
(* Two things of the input matter: how many items have been read, and how  *)
(* many of them match the initial query.  The query does not change here   *)
(* (module Pipeline), and an action is named by how it ends the finder.    *)
(* While a thread is inside an event box nobody sets events of that box.   *)
(***************************************************************************)
EXTENDS Integers, Sequences, FiniteSets, SequencesExt, FiniteSetsExt

CONSTANTS
    Configs,   \* command lines: records of ConfigFields
    MaxItems,  \* bound on the input
    MaxKeys,   \* bound on the keys pressed, posts received and signals
    MaxFit,    \* Terminal.MaxFitAndPad: items that fit on the screen
    ChanCap    \* capacity of Terminal.eventChan

Events == {"start", "load", "zero", "one", "result", "focus"}
Actions == {"accept", "abort", "print-query", "other"}
None == "none"

ASSUME BoundsAssumption ==
    /\ {MaxItems, MaxKeys, MaxFit} \subseteq Nat
    /\ ChanCap \in Nat \ {0}

ASSUME ConfigAssumption ==
    Configs \subseteq [filter : {None, "scan", "stream"}, select1 : BOOLEAN,
                       exit0 : BOOLEAN, sync : BOOLEAN, auto : BOOLEAN, tty : BOOLEAN,
                       bound : [Events -> Actions \cup {None}]]

VARIABLES
    opts,       \* the options, and whether there is a terminal to draw on
    read, hits, \* items read, and how many of them match
    ended,      \* the input has ended
    fresh,      \* items were read that the poller has not announced
    box,        \* the event box: [reads, found, quit]
    request,    \* the set of the request waiting for the matcher
    batch,      \* what the coordinator has taken of the box and is handling
    sending,    \* what UpdateList still has to send with the mutex held, then "end"
                \* or "activate"; <<>> outside of UpdateList
    core,       \* Run: [reading, deferred, unknown, total]
    code,       \* the exit status of the finder, or None
    printed,    \* what was printed: "item" for an item, "query"
    startChan,  \* Terminal.startChan
    eventChan,  \* Terminal.eventChan
    term,       \* the terminal: [reading, trigger, list, suppress, focus]
    reqs,       \* Terminal.reqBox
    drawing,    \* requests the render loop has taken, with both mutexes held
    loop,       \* Terminal.Loop: [pc, first, acts, posts, stop, fit, timer]
    screen,     \* the terminal screen is "plain", "raw" or "restored"
    quitting,   \* the status the render loop is about to send, or None
    history,    \* the query is in the history file
    keys        \* keys, posts and signals so far

vars == <<opts, read, hits, ended, fresh, box, request, batch, sending, core, code, printed,
          startChan, eventChan, term, reqs, drawing, loop, screen, quitting, history, keys>>

input == <<read, hits, ended, fresh>>
run   == <<batch, sending, core, code>>
ui    == <<eventChan, term, reqs, drawing, loop, screen, quitting, history, keys>>

Lists == [count : Nat, length : Nat, final : BOOLEAN]
NoList == [count |-> 0, length |-> 0, final |-> FALSE]
EmptyBox == [reads |-> {}, found |-> {}, quit |-> None]
Reqs == {"List", "Activate", "Close", "PrintQuery", "Quit"}
Codes == {"Ok", "NoMatch", "Error", "Interrupt"}

Interactive == opts.filter = None
Bound(e) == opts.bound[e] # None

\* Terminal.deferActivation: only --sync has no initial delay.
DeferActivation ==
    opts.sync /\ \E e \in {"start", "load", "result", "focus"} : Bound(e)

TypeOK ==
    /\ opts \in Configs
    /\ read \in 0..MaxItems /\ hits \in 0..read /\ ended \in BOOLEAN
    /\ box.reads \subseteq {"new", "fin"}
    /\ box.found \subseteq Lists /\ box.quit \in Codes \cup {None}
    /\ request \subseteq Lists /\ Cardinality(request) <= 1
    /\ sending \in Seq(Events \cup {"activate", "end"})
    /\ code \in Codes \cup {None}
    /\ Len(startChan) <= 1 /\ Len(eventChan) <= ChanCap
    /\ reqs \subseteq Reqs /\ drawing \subseteq Reqs \cup {"end"}
    /\ loop.pc \in {"start", "select", "act", "post", "done"}

\* NewTerminal and Run up to the event loop.  The interface starts right away
\* unless it may never be needed or its height depends on the input.
Init ==
    /\ opts \in Configs
    /\ read = 0 /\ hits = 0 /\ ended = FALSE /\ fresh = FALSE
    /\ box = EmptyBox /\ request = {} /\ batch = EmptyBox /\ sending = <<>>
    /\ core = [reading |-> TRUE, unknown |-> opts.auto, total |-> 0,
               deferred |-> opts.select1 \/ opts.exit0 \/ opts.sync]
    /\ code = None /\ printed = <<>>
    /\ startChan = IF Interactive /\ ~core.deferred /\ ~core.unknown THEN <<-1>> ELSE <<>>
    /\ eventChan = IF Bound("start") THEN <<"start">> ELSE <<>>
    /\ term = [reading |-> TRUE, trigger |-> FALSE, list |-> NoList,
               suppress |-> TRUE, focus |-> 0]
    /\ reqs = {} /\ drawing = {}
    /\ loop = [pc |-> "start", first |-> TRUE, acts |-> <<>>, posts |-> <<>>, stop |-> FALSE,
               fit |-> -1, timer |-> FALSE]
    /\ screen = "plain" /\ quitting = None /\ history = FALSE /\ keys = 0

InBatch == batch # EmptyBox
Running == code = None

\* The mutex of the terminal is free.
Unlocked == sending = <<>> /\ drawing = {}

(***************************************************************************)
(* The reader and the matcher                                              *)
(***************************************************************************)

\* An item is read; a streaming filter prints it when it matches.
Read(match) ==
    /\ Running /\ ~ended /\ read < MaxItems
    /\ read' = read + 1 /\ hits' = (IF match THEN hits + 1 ELSE hits)
    /\ fresh' = TRUE
    /\ printed' = IF match /\ opts.filter = "stream" THEN Append(printed, "item") ELSE printed
    /\ UNCHANGED <<opts, ended, box, request, run, startChan, ui>>

\* The poller announces new items, with its own delay.
Poll ==
    /\ Running /\ ~InBatch /\ ~ended /\ fresh
    /\ fresh' = FALSE
    /\ box' = [box EXCEPT !.reads = @ \cup {"new"}]
    /\ UNCHANGED <<opts, read, hits, ended, request, run, printed, startChan, ui>>

EndOfInput ==
    /\ Running /\ ~InBatch /\ ~ended
    /\ ended' = TRUE /\ fresh' = FALSE
    /\ box' = [box EXCEPT !.reads = @ \cup {"fin"}]
    /\ UNCHANGED <<opts, read, hits, request, run, printed, startChan, ui>>

\* The matcher answers the request it finds; a newer one may have replaced it.
Scan ==
    /\ Running /\ ~InBatch /\ request # {}
    /\ box' = [box EXCEPT !.found = request]
    /\ request' = {}
    /\ UNCHANGED <<opts, input, run, printed, startChan, ui>>

(***************************************************************************)
(* The coordinator                                                         *)
(***************************************************************************)

\* Without an interface: the whole input is searched when it has ended, or its
\* matches have been printed already.
Filter ==
    /\ ~Interactive /\ Running /\ "fin" \in box.reads
    /\ printed' = IF opts.filter = "scan" THEN [i \in 1..hits |-> "item"] ELSE printed
    /\ code' = IF printed' # <<>> THEN "Ok" ELSE "NoMatch"
    /\ UNCHANGED <<opts, input, box, request, batch, sending, core, startChan, ui>>

\* The events are taken together; EvtReadNew is dropped when EvtReadFin is there.
\* --sync waits for EvtReadFin before anything else.
Wake ==
    /\ Interactive /\ Running /\ ~InBatch /\ box # EmptyBox
    /\ opts.sync /\ core.reading => "fin" \in box.reads
    /\ batch' = [box EXCEPT !.reads = IF "fin" \in @ THEN {"fin"} ELSE @]
    /\ box' = EmptyBox
    /\ UNCHANGED <<opts, input, request, sending, core, code, printed, startChan, ui>>

\* (Variant: the end of the input is not waited for.)
DecidesAtOnce(c, final) == c.unknown \/ c.deferred

\* determine: the interface is started once it is known to be needed and, when
\* its height depends on the input, once there is enough of it.
Decides(c, final) == IF c.unknown THEN c.total >= MaxFit \/ final ELSE c.deferred
Determine(c, final) ==
    IF Decides(c, final)
    THEN /\ core' = [c EXCEPT !.deferred = FALSE, !.unknown = FALSE]
         /\ startChan' = Append(startChan, IF c.unknown THEN Min({c.total, MaxFit}) ELSE -1)
    ELSE core' = c /\ UNCHANGED startChan

\* EvtReadNew, EvtReadFin: a snapshot, Terminal.UpdateCount, Matcher.Reset.
HandleRead ==
    /\ Running /\ batch.reads # {} /\ Unlocked
    /\ \E reading \in {core.reading /\ "fin" \notin batch.reads} :
       LET c == [core EXCEPT !.reading = reading, !.total = read]
       IN  /\ term' = [term EXCEPT !.reading = reading,
                                   !.trigger = @ \/ (Bound("load") /\ term.reading /\ ~reading)]
           /\ reqs' = IF term.suppress /\ ~reading /\ ~DeferActivation
                      THEN reqs \cup {"Activate"} ELSE reqs
           /\ IF c.unknown /\ ~c.deferred THEN Determine(c, ~reading)
              ELSE core' = c /\ UNCHANGED startChan
           /\ request' = {[count |-> read, length |-> hits, final |-> ~reading]}
    /\ batch' = [batch EXCEPT !.reads = {}]
    /\ UNCHANGED <<opts, input, box, sending, code, printed, eventChan, drawing, loop,
                   screen, quitting, history, keys>>

\* --select-1 and --exit-0 have decided for the interface.
MustStart(list) ==
    \/ opts.select1 /\ list.length > 1
    \/ opts.exit0 /\ ~opts.select1 /\ list.length > 0

\* (Variant: the list need not be final.)
LeavesEarly(list) ==
    /\ core.deferred /\ ~MustStart(list)
    /\ \/ opts.exit0 /\ list.length = 0
       \/ opts.select1 /\ list.length = 1

\* They leave without one.
Leaves(list) ==
    /\ core.deferred /\ ~MustStart(list)
    /\ list.final
    /\ \/ opts.exit0 /\ list.length = 0
       \/ opts.select1 /\ list.length = 1

HandleLeave ==
    /\ Running /\ sending = <<>>
    /\ \E list \in batch.found :
       /\ Leaves(list)
       /\ printed' = [i \in 1..list.length |-> "item"]
       /\ code' = IF list.length = 0 THEN "NoMatch" ELSE "Ok"
    /\ UNCHANGED <<opts, input, box, request, batch, sending, core, startChan, ui>>

\* (Variant: nothing makes up for the missing focus.)
NewsOnly(list) ==
    LET when(cond, e) == IF cond THEN <<e>> ELSE <<>>
    IN  when(term.trigger, "load") \o when(Bound("result"), "result") \o <<"end">>

\* What UpdateList sends for a list, in its order, and whether it activates the
\* interface because no event is going to.
News(list) ==
    LET when(cond, e) == IF cond THEN <<e>> ELSE <<>>
    IN  when(term.trigger, "load")
        \o when(~term.reading /\ list.length = 0 /\ Bound("zero"), "zero")
        \o when(~term.reading /\ list.length = 1 /\ Bound("one"), "one")
        \o when(Bound("result"), "result")
        \o << IF /\ ~term.reading /\ list.length = 0 /\ term.suppress
                 /\ Bound("focus") /\ ~Bound("result") /\ ~Bound("load")
              THEN "activate" ELSE "end" >>

\* EvtSearchFin: Terminal.UpdateList takes the mutex and begins to send.
HandleFound ==
    /\ Running /\ Unlocked
    /\ \E list \in batch.found :
       /\ ~Leaves(list)
       /\ IF core.deferred /\ (MustStart(list) \/ list.final)
          THEN Determine(core, list.final)
          ELSE UNCHANGED <<core, startChan>>
       /\ term' = [term EXCEPT !.list = list, !.trigger = FALSE]
       /\ sending' = News(list)
    /\ UNCHANGED <<opts, input, box, request, batch, code, printed, eventChan, reqs,
                   drawing, loop, screen, quitting, history, keys>>

\* The next event is sent, when the channel has room.
SendEvent ==
    /\ Running /\ sending \notin {<<>>, <<"end">>, <<"activate">>}
    /\ Len(eventChan) < ChanCap
    /\ eventChan' = Append(eventChan, Head(sending))
    /\ sending' = Tail(sending)
    /\ UNCHANGED <<opts, input, box, request, batch, core, code, printed, startChan, term,
                   reqs, drawing, loop, screen, quitting, history, keys>>

\* The mutex is released and the list is drawn.
EndOfList ==
    /\ Running /\ sending \in {<<"end">>, <<"activate">>}
    /\ reqs' = reqs \cup {"List"} \cup IF sending = <<"end">> THEN {} ELSE {"Activate"}
    /\ sending' = <<>>
    /\ batch' = [batch EXCEPT !.found = {}]
    /\ UNCHANGED <<opts, input, box, request, core, code, printed, startChan, eventChan,
                   term, drawing, loop, screen, quitting, history, keys>>

\* EvtQuit ends the loop of the coordinator, whatever else was taken with it.
HandleQuit ==
    /\ Running /\ batch.quit # None /\ sending = <<>>
    /\ code' = batch.quit
    /\ UNCHANGED <<opts, input, box, request, batch, sending, core, printed, startChan, ui>>

(***************************************************************************)
(* The loop of the terminal                                                *)
(***************************************************************************)

\* The loop waits for the decision; then the screen is taken over, or cannot be.
LoopStart ==
    /\ Running /\ loop.pc = "start" /\ startChan # <<>> /\ Unlocked /\ opts.tty
    /\ startChan' = Tail(startChan)
    /\ loop' = [loop EXCEPT !.pc = "select", !.fit = Head(startChan), !.timer = ~opts.sync]
    /\ screen' = "raw"
    /\ UNCHANGED <<opts, input, box, request, run, printed, eventChan, term, reqs, drawing,
                   quitting, history, keys>>

LoopFails ==
    /\ Running /\ loop.pc = "start" /\ startChan # <<>> /\ Unlocked /\ ~InBatch /\ ~opts.tty
    /\ startChan' = Tail(startChan)
    /\ loop' = [loop EXCEPT !.pc = "done"]
    /\ box' = [box EXCEPT !.quit = "Error"]
    /\ UNCHANGED <<opts, input, request, run, printed, eventChan, term, reqs, drawing,
                   screen, quitting, history, keys>>

\* The initial delay is over.
Timer ==
    /\ Running /\ loop.timer /\ drawing = {}
    /\ loop' = [loop EXCEPT !.timer = FALSE]
    /\ reqs' = reqs \cup {"Activate"}
    /\ UNCHANGED <<opts, input, box, request, run, printed, startChan, eventChan, term,
                   drawing, screen, quitting, history, keys>>

\* Every queued event is taken at once.
LoopEvents ==
    /\ Running /\ loop.pc = "select" /\ eventChan # <<>>
    /\ loop' = [loop EXCEPT !.pc = "act", !.acts = [i \in DOMAIN eventChan |-> opts.bound[eventChan[i]]]]
    /\ eventChan' = <<>>
    /\ UNCHANGED <<opts, input, box, request, run, printed, startChan, term, reqs, drawing,
                   screen, quitting, history, keys>>

\* A key, or the actions of a post.  Keys are read only after the start event.
LoopKey(a, isPost) ==
    /\ Running /\ loop.pc = "select" /\ keys < MaxKeys
    /\ isPost \/ ~loop.first \/ ~Bound("start")
    /\ keys' = keys + 1
    /\ loop' = [loop EXCEPT !.pc = "act", !.acts = <<a>>]
    /\ UNCHANGED <<opts, input, box, request, run, printed, startChan, eventChan, term,
                   reqs, drawing, screen, quitting, history>>

\* A key of --expect ends the loop by itself.
LoopExpect ==
    /\ Running /\ loop.pc = "select" /\ keys < MaxKeys /\ Unlocked
    /\ ~loop.first \/ ~Bound("start")
    /\ keys' = keys + 1
    /\ loop' = [loop EXCEPT !.pc = "done"]
    /\ reqs' = reqs \cup {"Close"}
    /\ UNCHANGED <<opts, input, box, request, run, printed, startChan, eventChan, term,
                   drawing, screen, quitting, history>>

RequestOf == [a \in Actions |-> CASE a = "accept" -> <<"Close">> [] a = "abort" -> <<"Quit">>
                                  [] a = "print-query" -> <<"PrintQuery">> [] OTHER -> <<>>]

LoopAct ==
    /\ Running /\ loop.pc = "act" /\ Unlocked
    /\ loop' = [loop EXCEPT
           !.pc = "post", !.acts = <<>>,
           !.posts = FlattenSeq([i \in DOMAIN loop.acts |-> RequestOf[loop.acts[i]]]),
           !.stop = {"accept", "abort"} \cap ToSet(loop.acts) # {}]
    /\ UNCHANGED <<opts, input, box, request, run, printed, startChan, eventChan, term, reqs,
                   drawing, screen, quitting, history, keys>>

\* The requests are made one by one, once the mutex is released.
LoopPost ==
    /\ Running /\ loop.pc = "post" /\ loop.posts # <<>> /\ drawing = {}
    /\ reqs' = reqs \cup {Head(loop.posts)}
    /\ loop' = [loop EXCEPT !.posts = Tail(@)]
    /\ UNCHANGED <<opts, input, box, request, run, printed, startChan, eventChan, term,
                   drawing, screen, quitting, history, keys>>

\* The next round; the second one activates the interface if that was deferred.
LoopAgain ==
    /\ Running /\ loop.pc = "post" /\ loop.posts = <<>> /\ drawing = {}
    /\ loop' = [loop EXCEPT !.pc = IF loop.stop THEN "done" ELSE "select", !.first = FALSE]
    /\ reqs' = IF loop.first /\ DeferActivation /\ ~loop.stop THEN reqs \cup {"Activate"} ELSE reqs
    /\ UNCHANGED <<opts, input, box, request, run, printed, startChan, eventChan, term,
                   drawing, screen, quitting, history, keys>>

\* SIGINT or SIGTERM.
Signal ==
    /\ Running /\ screen = "raw" /\ keys < MaxKeys /\ drawing = {}
    /\ keys' = keys + 1
    /\ reqs' = reqs \cup {"Quit"}
    /\ UNCHANGED <<opts, input, box, request, run, printed, startChan, eventChan, term,
                   drawing, loop, screen, quitting, history>>

(***************************************************************************)
(* The render loop                                                         *)
(***************************************************************************)

\* The requests are handled in the order of their numbers.
RenderTake ==
    /\ Running /\ screen = "raw" /\ reqs # {} /\ Unlocked
    /\ drawing' = reqs \cup {"end"} /\ reqs' = {}
    /\ UNCHANGED <<opts, input, box, request, run, printed, startChan, eventChan, term, loop,
                   screen, quitting, history, keys>>

Order == <<"List", "Activate", "Close", "PrintQuery", "Quit", "end">>
IsNext(r) == r \in drawing /\ \A i, j \in DOMAIN Order : Order[j] = r /\ i < j => Order[i] \notin drawing

Draw(rs) == /\ drawing' = drawing \ rs
            /\ UNCHANGED <<opts, input, box, request, run, startChan, reqs, loop, keys>>

\* A new focus is announced, when the channel has room.
RenderList ==
    /\ Running /\ IsNext("List") /\ Draw({"List"})
    /\ \E item \in {Min({1, term.list.length})} :
       /\ term' = [term EXCEPT !.focus = item]
       /\ IF Bound("focus") /\ item # term.focus
          THEN Len(eventChan) < ChanCap /\ eventChan' = Append(eventChan, "focus")
          ELSE UNCHANGED eventChan
    /\ UNCHANGED <<printed, screen, quitting, history>>

RenderActivate ==
    /\ Running /\ IsNext("Activate") /\ Draw({"Activate"})
    /\ term' = [term EXCEPT !.suppress = FALSE]
    /\ UNCHANGED <<printed, eventChan, screen, quitting, history>>

RenderEnd ==
    /\ Running /\ IsNext("end") /\ Draw({"end"})
    /\ UNCHANGED <<printed, eventChan, term, screen, quitting, history>>

\* (Variant: the loop goes on with the requests it has taken.)
ExitLate(r, status, output) ==
    /\ Running /\ IsNext(r) /\ Draw({r})
    /\ screen' = "restored"
    /\ printed' = printed \o output
    /\ quitting' = status
    /\ history' = (status \in {"Ok", "NoMatch"})
    /\ UNCHANGED <<eventChan, term>>

\* exit: the screen is restored before anything is printed, the query goes into
\* the history only when the finder was not interrupted.
Exit(r, status, output) ==
    /\ Running /\ IsNext(r) /\ Draw(drawing)
    /\ screen' = "restored"
    /\ printed' = printed \o output
    /\ quitting' = status
    /\ history' = (status \in {"Ok", "NoMatch"})
    /\ UNCHANGED <<eventChan, term>>

RenderClose ==
    IF term.list.length > 0 THEN Exit("Close", "Ok", <<"item">>) ELSE Exit("Close", "NoMatch", <<>>)
RenderPrintQuery == Exit("PrintQuery", "Ok", <<"query">>)
RenderQuit == Exit("Quit", "Interrupt", <<>>)

SendQuit ==
    /\ Running /\ quitting # None /\ ~InBatch /\ drawing = {}
    /\ box' = [box EXCEPT !.quit = quitting]
    /\ quitting' = None
    /\ UNCHANGED <<opts, input, request, run, printed, startChan, eventChan, term, reqs,
                   drawing, loop, screen, history, keys>>

Coordinator == Filter \/ Wake \/ HandleRead \/ HandleLeave \/ HandleFound \/ SendEvent
               \/ EndOfList \/ HandleQuit
Loop == LoopStart \/ LoopFails \/ LoopEvents \/ LoopAct \/ LoopPost \/ LoopAgain
Render == RenderTake \/ RenderList \/ RenderActivate \/ RenderEnd
          \/ RenderClose \/ RenderPrintQuery \/ RenderQuit \/ SendQuit
User == (\E a \in Actions, isPost \in BOOLEAN : LoopKey(a, isPost)) \/ LoopExpect \/ Signal
Reader == (\E match \in BOOLEAN : Read(match)) \/ Poll \/ EndOfInput

Next == Reader \/ Scan \/ Coordinator \/ Loop \/ Timer \/ Render \/ User

Spec == Init /\ [][Next]_vars

\* The threads run; the input need not end and the user need not act.
Fairness == /\ WF_vars(Poll) /\ WF_vars(Scan) /\ WF_vars(Coordinator)
            /\ WF_vars(Loop) /\ WF_vars(Timer) /\ WF_vars(Render)

FairSpec == Spec /\ Fairness

(***************************************************************************)
(* Properties                                                              *)
(***************************************************************************)

\* A finder that ends by itself has seen all of its input and printed every
\* match, exactly once; --select-1 and --exit-0 do so only for one match and for
\* none, and never after the interface was started (man/man1/fzf.1:953-960).
LeavesExactly ==
    code \in {"Ok", "NoMatch"} /\ screen = "plain" =>
        /\ ended
        /\ printed = [i \in 1..hits |-> "item"]
        /\ code = "Ok" <=> hits > 0
        /\ Interactive =>
               /\ loop.pc = "start" /\ startChan = <<>>
               /\ \/ opts.select1 /\ hits = 1
                  \/ opts.exit0 /\ hits = 0

\* An interface whose height depends on the input starts with the height of the
\* whole input, or with as much as fits on the screen.
HeightExact ==
    loop.fit >= 0 => loop.fit = MaxFit \/ (ended /\ loop.fit = read /\ read < MaxFit)

\* However the requests to leave meet, from keys, bound events, posts and
\* signals, the finder leaves the screen restored, prints one result when its
\* status is Ok and none otherwise, and keeps the query when it was not
\* interrupted.
ExitExact ==
    code # None =>
        /\ screen # "raw"
        /\ screen = "restored" =>
               /\ Len(printed) = IF code = "Ok" THEN 1 ELSE 0
               /\ history = (code \in {"Ok", "NoMatch"})

\* Once the input has ended the interface gets active, or the finder ends: no
\* combination of --sync, --select-1, adaptive height and bound events leaves
\* the user before a screen that is never drawn.
GetsActive == ended ~> (code # None \/ ~term.suppress)

\* "one" is sent when the input has one match, "zero" when it has none
\* (man/man1/fzf.1:1471-1489).
OneExact ==
    sending # <<>> =>
        /\ Head(sending) = "one" => hits = 1
        /\ Head(sending) = "zero" => hits = 0

=============================================================================
