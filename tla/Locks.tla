------------------------------- MODULE Locks -------------------------------
(***************************************************************************)
(* Who holds which lock while waiting for what.  The threads of the finder *)
(* run routines, each a sequence of lock operations and sends to the       *)
(* terminal's event channel, in the order the code has them; what a        *)
(* routine does between two of them is left out (modules Pipeline and      *)
(* ChunkList).  A thread that blocks keeps the locks it holds.             *)
(*                                                                         *)
(* The mutexes: "eventBox" (held for the whole batch by the coordinator),  *)
(* "chunks" (ChunkList.mutex), "matcherBox", "mutex" and "uiMutex" of the  *)
(* terminal, "reqBox" (held by the render loop while it draws) and         *)
(* "previewBox".  The finder's exit is not modelled.                       *)
(***************************************************************************)
EXTENDS Integers, Sequences, FiniteSets

CONSTANTS
    HasHeader,   \* --header-lines is given
    HasBindings, \* actions are bound to load, one, zero, result, focus, resize
    HasInfo,     \* --info-command is given
    ChanCap      \* capacity of Terminal.eventChan

ASSUME ConfigAssumption ==
    /\ HasHeader \in BOOLEAN /\ HasBindings \in BOOLEAN /\ HasInfo \in BOOLEAN
    /\ ChanCap \in Nat \ {0}

Mutexes == {"eventBox", "chunks", "matcherBox", "mutex", "uiMutex", "reqBox", "previewBox"}

\* The threads that hold a lock while they wait for something else.  The others
\* (poller, matcher, spinner, previewer, signal handlers, HTTP server) take one
\* lock at a time, so they cannot be part of a circle.
Threads == {"reader", "coordinator", "loop", "render"}

VARIABLES
    owner,   \* owner[m]: the thread that holds m, or "free"
    todo,    \* todo[t]: the operations left of t's routine
    queued,  \* number of events in eventChan
    input,   \* the reader is at "header" or "items", has "ended", or its
             \* EvtReadFin was handled: "idle"
    load     \* Terminal.triggerLoad

vars == <<owner, todo, queued, input, load>>

Lock(m)   == [op |-> "lock", on |-> m]
Unlock(m) == [op |-> "unlock", on |-> m]
Send      == [op |-> "send", on |-> "eventChan"]
Rerun     == [op |-> "restart", on |-> "reader"]
Ops == {Lock(m) : m \in Mutexes} \cup {Unlock(m) : m \in Mutexes} \cup {Send, Rerun}

\* A short critical section, such as EventBox.Set or Terminal.Input.
With(m) == <<Lock(m), Unlock(m)>>

FirstInput == IF HasHeader THEN "header" ELSE "items"

TypeOK ==
    /\ owner \in [Mutexes -> Threads \cup {"free"}]
    /\ todo \in [Threads -> Seq(Ops)]
    /\ queued \in 0..ChanCap
    /\ input \in {"header", "items", "ended", "idle"}
    /\ load \in BOOLEAN

Init ==
    /\ owner = [m \in Mutexes |-> "free"]
    /\ todo = [t \in Threads |-> <<>>]
    /\ queued = (IF HasBindings THEN 1 ELSE 0)  \* the start event
    /\ input = FirstInput
    /\ load = FALSE

Idle(t) == todo[t] = <<>>

Begin(t, ops) == Idle(t) /\ todo' = [todo EXCEPT ![t] = ops]

(***************************************************************************)
(* The routines                                                            *)
(***************************************************************************)

\* ChunkList.Push of an item.
PushItem ==
    /\ input = "items"
    /\ Begin("reader", With("chunks"))
    /\ UNCHANGED <<owner, queued, input, load>>

\* ChunkList.Push of a header line: the item builder sets EvtHeader.
PushHeader ==
    /\ input = "header"
    /\ Begin("reader", <<Lock("chunks")>> \o With("eventBox") \o <<Unlock("chunks")>>)
    /\ UNCHANGED <<owner, queued, input, load>>

HeaderDone ==
    /\ input = "header" /\ Idle("reader")
    /\ input' = "items"
    /\ UNCHANGED <<owner, todo, queued, load>>

\* Reader.fin sets EvtReadFin.
EndOfInput ==
    /\ input \in {"header", "items"}
    /\ Begin("reader", With("eventBox"))
    /\ input' = "ended"
    /\ UNCHANGED <<owner, queued, load>>

InBatch == owner["eventBox"] = "coordinator"

\* The coordinator enters the callback of eventBox.Wait, and leaves it.
BeginBatch ==
    /\ ~InBatch
    /\ Begin("coordinator", <<Lock("eventBox")>>)
    /\ UNCHANGED <<owner, queued, input, load>>

EndBatch ==
    /\ InBatch
    /\ Begin("coordinator", <<Unlock("eventBox")>>)
    /\ UNCHANGED <<owner, queued, input, load>>

FinPending == input = "ended" /\ Idle("reader")

\* EvtReadNew or EvtReadFin; no such event is pending while a reader is still
\* at the header.  Snapshot (unless frozen), UpdateCount, Input, Reset.
ReadRoutines ==
    LET rest == With("mutex") \o With("reqBox") \o With("mutex") \o With("matcherBox")
    IN  {rest, With("chunks") \o rest}

\* EvtSearchNew: a restart (ChunkList.Clear and a new reader), and for a new
\* query Snapshot (unless frozen), Input, Reset.
RestartRoutine == With("chunks") \o <<Rerun>>
ResetRoutines ==
    LET rest == With("mutex") \o With("matcherBox")
    IN  {rest, With("chunks") \o rest}

\* UpdateProgress and UpdateHeader.
ShowRoutine == With("mutex") \o With("reqBox")

\* UpdateList: load, zero or one, and result are announced under the mutex.
ListRoutine(n) ==
    <<Lock("mutex")>> \o [i \in 1..n |-> Send] \o <<Unlock("mutex")>> \o With("reqBox")

HandleRead ==
    /\ InBatch
    /\ \/ input = "items" /\ UNCHANGED <<input, load>>
       \/ FinPending /\ input' = "idle" /\ load' = HasBindings
    /\ \E r \in ReadRoutines : Begin("coordinator", r)
    /\ UNCHANGED <<owner, queued>>

\* EvtSearchNew, or EvtReadFin when a command waits.
HandleRestart ==
    /\ InBatch
    /\ \/ input = "idle" /\ \E r \in {<<>>} \cup ResetRoutines :
                                 Begin("coordinator", RestartRoutine \o r)
       \/ FinPending /\ Begin("coordinator", RestartRoutine)
    /\ UNCHANGED <<owner, queued, input, load>>

HandleSearch ==
    /\ InBatch
    /\ \E r \in ResetRoutines : Begin("coordinator", r)
    /\ UNCHANGED <<owner, queued, input, load>>

HandleShow ==
    /\ InBatch
    /\ Begin("coordinator", ShowRoutine)
    /\ UNCHANGED <<owner, queued, input, load>>

HandleList ==
    /\ InBatch
    /\ \E n \in IF HasBindings THEN 0..2 ELSE {0} :
           Begin("coordinator", ListRoutine(n + (IF load THEN 1 ELSE 0)))
    /\ load' = FALSE
    /\ UNCHANGED <<owner, queued, input>>

\* printInfo runs the info command without the mutex, if there is one.
InfoRoutines == {<<>>} \cup (IF HasInfo THEN {<<Unlock("mutex"), Lock("mutex")>>} ELSE {})

\* (Variant: the mutex is kept while the user interface is locked.)
ExecuteKeepingMutex(info) == <<Lock("uiMutex")>> \o info \o <<Unlock("uiMutex")>>

\* executeCommand of an action: the mutex is released while the command runs;
\* afterwards the screen, with the info line, is drawn again.
Execute(info) ==
    <<Unlock("mutex"), Lock("uiMutex"), Lock("mutex")>> \o info \o <<Unlock("uiMutex")>>

\* What the loop does under the mutex: nothing about locks, a preview request,
\* or a command.
Actions == {<<>>, With("previewBox")} \cup {Execute(i) : i \in InfoRoutines}

\* One round of Terminal.Loop: it takes a key or drains eventChan, runs the
\* actions, and after unlocking sets EvtSearchNew and requests rendering.
LoopRound ==
    /\ queued' \in {queued, 0}
    /\ \E a \in Actions, s \in {<<>>, With("eventBox")}, r \in {<<>>, With("reqBox")} :
           Begin("loop", <<Lock("mutex")>> \o a \o <<Unlock("mutex")>> \o s \o r)
    /\ UNCHANGED <<owner, input, load>>

\* The render loop locks reqBox (in Wait), the user interface, the state.
RenderLocks == <<Lock("reqBox"), Lock("uiMutex"), Lock("mutex")>>

\* What it does then: print the info line, announce focus or resize, refresh
\* the preview.
Drawings ==
    InfoRoutines \cup {With("previewBox")} \cup (IF HasBindings THEN {<<Send>>} ELSE {})

Render ==
    /\ \E d \in Drawings :
           Begin("render", RenderLocks \o d
                     \o <<Unlock("mutex"), Unlock("uiMutex"), Unlock("reqBox")>>)
    /\ UNCHANGED <<owner, queued, input, load>>

(***************************************************************************)
(* Execution                                                               *)
(***************************************************************************)

Op(t) == Head(todo[t])

Done(t) == todo' = [todo EXCEPT ![t] = Tail(@)]

DoLock(t) ==
    /\ ~Idle(t) /\ Op(t).op = "lock"
    /\ owner[Op(t).on] = "free"
    /\ owner' = [owner EXCEPT ![Op(t).on] = t]
    /\ Done(t)
    /\ UNCHANGED <<queued, input, load>>

DoUnlock(t) ==
    /\ ~Idle(t) /\ Op(t).op = "unlock"
    /\ owner' = [owner EXCEPT ![Op(t).on] = "free"]
    /\ Done(t)
    /\ UNCHANGED <<queued, input, load>>

\* (Variant: the channel has no capacity.)
DoSendUnbounded(t) ==
    /\ ~Idle(t) /\ Op(t).op = "send"
    /\ queued' = queued + 1
    /\ Done(t)
    /\ UNCHANGED <<owner, input, load>>

DoSend(t) ==
    /\ ~Idle(t) /\ Op(t).op = "send"
    /\ queued < ChanCap
    /\ queued' = queued + 1
    /\ Done(t)
    /\ UNCHANGED <<owner, input, load>>

DoRestart(t) ==
    /\ ~Idle(t) /\ Op(t).op = "restart"
    /\ input' = FirstInput
    /\ Done(t)
    /\ UNCHANGED <<owner, queued, load>>

Next ==
    \/ PushItem \/ PushHeader \/ HeaderDone \/ EndOfInput
    \/ BeginBatch \/ EndBatch
    \/ HandleRead \/ HandleRestart \/ HandleSearch \/ HandleShow \/ HandleList
    \/ LoopRound \/ Render
    \/ \E t \in Threads : DoLock(t) \/ DoUnlock(t) \/ DoSend(t) \/ DoRestart(t)

Spec == Init /\ [][Next]_vars

(***************************************************************************)
(* Properties                                                              *)
(***************************************************************************)

Blocked(t) ==
    /\ ~Idle(t)
    /\ \/ Op(t).op = "lock" /\ owner[Op(t).on] # "free"
       \/ Op(t).op = "send" /\ queued = ChanCap

\* Whom a blocked thread waits for; only the loop drains eventChan.
WaitsFor(t) == IF Op(t).op = "lock" THEN owner[Op(t).on] ELSE "loop"

\* The threads of S wait for one another in a circle.
Circle(S) == S # {} /\ \A t \in S : Blocked(t) /\ WaitsFor(t) \in S

\* No circle of threads that wait for locks: the order in which the comment at
\* terminal.go:4374-4388 wants uiMutex and mutex taken, the unlocking around a
\* command (3880-3939), "Must be unlocked before touching reqBox" (5778) and
\* the locks of the event boxes fit together.  (The reader is left out: see
\* NoDeadlock.)
LockOrder ==
    \A S \in SUBSET (Threads \ {"reader"}) :
        (\A t \in S : Blocked(t) => Op(t).op = "lock") => ~Circle(S)

\* Nobody at all waits in a circle.  The example of the manual for
\* --header-lines, "Update the list of processes by pressing CTRL-R"
\* (man/man1/fzf.1:1727-1729), supposes so for an input with header lines.
NoDeadlock == \A S \in SUBSET Threads : ~Circle(S)

\* The channel of events is large enough, as its capacity is computed in
\* "eventChan: make(chan tui.Event, 6), // start | (load + result + zero|one) |
\* (focus) | (resize)" (terminal.go:931): a send does not wait for a loop that
\* is itself blocked.
SendsNeverStuck ==
    \A t \in Threads :
        (Blocked(t) /\ Op(t).op = "send") => ~(Blocked("loop") /\ WaitsFor("loop") = t)

=============================================================================
