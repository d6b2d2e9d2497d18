---------------------------- MODULE SessionProofs ----------------------------
(***************************************************************************)
(* How the finder is left, for every set of command lines and any bounds:  *)
(* with the results of the whole input when it leaves by itself, and from  *)
(* its interface with one result and one status, however the requests to   *)
(* leave meet.  The argument follows what is on its way from one thread to *)
(* another: the end of the input (WholeInput), the decision to start       *)
(* (Started, Heights) and the status (Quits).                              *)
(***************************************************************************)
EXTENDS Session, TLAPS

Items(n) == [i \in 1..n |-> "item"]

Boxes == [reads : SUBSET {"new", "fin"}, found : SUBSET Lists, quit : Codes \cup {None}]

Cores == [reading : BOOLEAN, deferred : BOOLEAN, unknown : BOOLEAN, total : Nat]

\* The types the argument needs.
Typed ==
    /\ opts \in Configs
    /\ read \in Nat /\ hits \in 0..read
    /\ box \in Boxes /\ batch \in Boxes /\ request \in SUBSET Lists
    /\ core \in Cores
    /\ startChan \in Seq(Int) /\ printed \in Seq({"item", "query"})
    /\ DOMAIN loop = {"pc", "first", "acts", "posts", "stop", "fit", "timer"}
    /\ loop.fit \in Int /\ quitting \in Codes \cup {None} /\ screen \in {"plain", "raw", "restored"}

\* The interface starts only when nothing is left to decide, and only with a
\* terminal; the screen is drawn on only while it is the finder's.
Started ==
    /\ ~Interactive => batch = EmptyBox /\ box.quit = None /\ box.found = {} /\ request = {}
    /\ ~Interactive \/ core.deferred \/ core.unknown => loop.pc = "start" /\ startChan = <<>>
    /\ loop.pc = "start" => screen = "plain"
    /\ screen # "plain" => opts.tty
    /\ drawing # {} => screen = "raw"

\* Whatever says that the input has ended says so of the whole input.
WholeInput ==
    /\ "fin" \in box.reads \cup batch.reads => ended
    /\ ~core.reading => ended /\ core.total = read
    /\ \A l \in request \cup box.found \cup batch.found :
           l.final => ~core.reading /\ l.count = read /\ l.length = hits

\* A height that depends on the input, decided or in use.
FitsExactly(f) == f = -1 \/ f = MaxFit \/ (ended /\ f = read /\ read < MaxFit)
Heights == FitsExactly(loop.fit) /\ \A i \in DOMAIN startChan : FitsExactly(startChan[i])

\* The terminal was left with the status s, with the output that belongs to it.
Left(s) ==
    /\ screen = "restored"
    /\ Len(printed) = IF s = "Ok" THEN 1 ELSE 0
    /\ history = (s \in {"Ok", "NoMatch"})

\* A status on its way from the render loop, or from the loop that could not start.
Quits ==
    /\ quitting # "Error"
    /\ \A s \in {quitting, box.quit, batch.quit} :
           s # None => IF s = "Error" THEN ~opts.tty ELSE Left(s)

\* Nothing is printed before the end, except by a streaming filter.
Prints ==
    Running /\ screen # "restored" =>
        printed = Items(IF opts.filter = "stream" THEN hits ELSE 0)

SessionInv == /\ Typed /\ Started /\ WholeInput /\ Heights /\ Quits /\ Prints
              /\ LeavesExactly /\ ExitExact

LEMMA Bounds == MaxItems \in Nat /\ MaxKeys \in Nat /\ MaxFit \in Nat /\ ChanCap \in Nat
  BY BoundsAssumption

LEMMA ItemsType ==
  ASSUME NEW n \in Nat
  PROVE  Items(n) \in Seq({"item", "query"}) /\ Len(Items(n)) = n
  BY DEF Items

LEMMA NoItems == Items(0) = <<>>
  BY DEF Items

LEMMA MoreItems ==
  ASSUME NEW n \in Nat
  PROVE  Append(Items(n), "item") = Items(n + 1)
  BY DEF Items

LEMMA FitType ==
  ASSUME NEW n \in Nat
  PROVE  Min({n, MaxFit}) = IF n <= MaxFit THEN n ELSE MaxFit
<1> DEFINE m == IF n <= MaxFit THEN n ELSE MaxFit
<1>1. m \in {n, MaxFit} /\ \A y \in {n, MaxFit} : m <= y
  BY Bounds
<1>2. ASSUME NEW x \in {n, MaxFit}, \A y \in {n, MaxFit} : x <= y
      PROVE  x = m
  BY Bounds, <1>2
<1> QED
  BY <1>1, <1>2 DEF Min

\* determine starts the interface, or leaves everything as it is.
LEMMA Determined ==
  ASSUME NEW c \in Cores, NEW final \in BOOLEAN, Determine(c, final), startChan \in Seq(Int)
  PROVE  /\ core' \in Cores /\ core'.reading = c.reading /\ core'.total = c.total
         /\ startChan' \in Seq(Int)
         /\ \/ core' = c /\ startChan' = startChan
            \/ /\ c.unknown \/ c.deferred
               /\ ~core'.unknown /\ ~core'.deferred
               /\ \E f \in Int :
                     /\ startChan' = Append(startChan, f)
                     /\ \/ f = -1 \/ f = MaxFit
                        \/ final /\ f = c.total /\ f < MaxFit
<1> DEFINE f == IF c.unknown THEN Min({c.total, MaxFit}) ELSE -1
<1>1. CASE ~Decides(c, final)
  BY <1>1 DEF Determine
<1>2. CASE Decides(c, final)
  <2>1. c.total \in Nat /\ c.unknown \in BOOLEAN /\ c.deferred \in BOOLEAN
    BY DEF Cores
  <2>2. f \in Int /\ (f = -1 \/ f = MaxFit \/ (final /\ f = c.total /\ f < MaxFit))
    BY <1>2, <2>1, FitType, Bounds DEF Decides
  <2>3. core' = [c EXCEPT !.deferred = FALSE, !.unknown = FALSE] /\ startChan' = Append(startChan, f)
    BY <1>2 DEF Determine
  <2>4. /\ core' \in Cores /\ core'.reading = c.reading /\ core'.total = c.total
        /\ ~core'.unknown /\ ~core'.deferred
    BY <2>3 DEF Cores
  <2>5. c.unknown \/ c.deferred
    BY <1>2 DEF Decides
  <2> HIDE DEF f
  <2>6. startChan' \in Seq(Int)
    BY <2>2, <2>3
  <2> QED
    BY <2>2, <2>3, <2>4, <2>5, <2>6
<1> QED
  BY <1>1, <1>2

(***************************************************************************)
(* Types                                                                   *)
(***************************************************************************)

\* The steps that change nothing but the loop, the requests and what is drawn.
Quiet == \/ SendEvent \/ Timer \/ LoopEvents \/ LoopAct \/ LoopPost \/ LoopAgain
         \/ (\E a \in Actions, isPost \in BOOLEAN : LoopKey(a, isPost)) \/ LoopExpect \/ Signal
         \/ RenderTake \/ RenderList \/ RenderActivate \/ RenderEnd

\* The steps that leave the terminal.
Exits == RenderClose \/ RenderPrintQuery \/ RenderQuit

LEMMA QuietFrame ==
  ASSUME Quiet, DOMAIN loop = {"pc", "first", "acts", "posts", "stop", "fit", "timer"}
  PROVE  /\ UNCHANGED <<opts, read, hits, ended, box, batch, request, core, startChan, printed,
                        screen, quitting, history, code>>
         /\ Running
         /\ DOMAIN loop' = DOMAIN loop /\ loop'.fit = loop.fit
         /\ loop.pc = "start" <=> loop'.pc = "start"
         /\ drawing' # {} => drawing # {} \/ screen = "raw"
<1>1. CASE SendEvent
  BY <1>1 DEF SendEvent, input
<1>2. CASE Timer
  BY <1>2 DEF Timer, run, input
<1>3. CASE LoopEvents \/ LoopAct \/ LoopPost \/ LoopAgain
  <2>1. CASE LoopEvents \/ LoopAct
    BY <2>1 DEF LoopEvents, LoopAct, run, input
  <2>2. CASE LoopPost
    BY <2>2 DEF LoopPost, run, input
  <2>3. CASE LoopAgain
    BY <2>3 DEF LoopAgain, run, input
  <2> QED
    BY <1>3, <2>1, <2>2, <2>3
<1>4. CASE \E a \in Actions, isPost \in BOOLEAN : LoopKey(a, isPost)
  BY <1>4 DEF LoopKey, run, input
<1>5. CASE LoopExpect \/ Signal
  BY <1>5 DEF LoopExpect, Signal, run, input
<1>6. CASE RenderTake
  BY <1>6 DEF RenderTake, run, input
<1>7. CASE RenderList \/ RenderActivate \/ RenderEnd
  BY <1>7 DEF RenderList, RenderActivate, RenderEnd, Draw, IsNext, run, input
<1> QED
  BY <1>1, <1>2, <1>3, <1>4, <1>5, <1>6, <1>7 DEF Quiet

\* What leaving the terminal does.
LEMMA ExitsFrame ==
  ASSUME Exits
  PROVE  /\ UNCHANGED <<opts, read, hits, ended, box, batch, request, core, startChan, code, loop>>
         /\ Running /\ drawing # {} /\ drawing' = {} /\ screen' = "restored"
         /\ \E s \in {"Ok", "NoMatch", "Interrupt"}, o \in Seq({"item", "query"}) :
               /\ quitting' = s /\ printed' = printed \o o
               /\ history' = (s \in {"Ok", "NoMatch"})
               /\ Len(o) = IF s = "Ok" THEN 1 ELSE 0
<1> DEFINE Goal ==
       /\ UNCHANGED <<opts, read, hits, ended, box, batch, request, core, startChan, code, loop>>
       /\ Running /\ drawing # {} /\ drawing' = {} /\ screen' = "restored"
       /\ \E s \in {"Ok", "NoMatch", "Interrupt"}, o \in Seq({"item", "query"}) :
             /\ quitting' = s /\ printed' = printed \o o
             /\ history' = (s \in {"Ok", "NoMatch"})
             /\ Len(o) = IF s = "Ok" THEN 1 ELSE 0
<1>1. ASSUME NEW r, NEW s \in {"Ok", "NoMatch", "Interrupt"}, NEW o \in Seq({"item", "query"}),
             Exit(r, s, o), Len(o) = IF s = "Ok" THEN 1 ELSE 0
      PROVE  Goal
  BY <1>1 DEF Exit, Draw, IsNext, run, input
<1> HIDE DEF Goal
<1> DEFINE none == <<>>
           item == <<"item">>
           query == <<"query">>
<1>2. /\ none \in Seq({"item", "query"}) /\ Len(none) = 0
      /\ item \in Seq({"item", "query"}) /\ Len(item) = 1
      /\ query \in Seq({"item", "query"}) /\ Len(query) = 1
  OBVIOUS
<1>3. \/ Exit("Close", "Ok", item) \/ Exit("Close", "NoMatch", none)
      \/ Exit("PrintQuery", "Ok", query) \/ Exit("Quit", "Interrupt", none)
  BY DEF Exits, RenderClose, RenderPrintQuery, RenderQuit
<1> HIDE DEF none, item, query
<1>4. CASE Exit("Close", "Ok", item)
  BY <1>1, <1>2, <1>4 DEF Goal
<1>5. CASE Exit("Close", "NoMatch", none)
  BY <1>1, <1>2, <1>5 DEF Goal
<1>6. CASE Exit("PrintQuery", "Ok", query)
  BY <1>1, <1>2, <1>6 DEF Goal
<1>7. CASE Exit("Quit", "Interrupt", none)
  BY <1>1, <1>2, <1>7 DEF Goal
<1> QED
  BY <1>3, <1>4, <1>5, <1>6, <1>7

LEMMA Split ==
  [Next]_vars =>
     \/ \E match \in BOOLEAN : Read(match)
     \/ Poll \/ EndOfInput \/ Scan \/ Filter \/ Wake \/ HandleRead \/ HandleLeave \/ HandleFound
     \/ EndOfList \/ HandleQuit \/ LoopStart \/ LoopFails \/ SendQuit \/ Exits \/ Quiet
     \/ UNCHANGED vars
  BY DEF Next, Reader, Coordinator, Loop, Render, User, Exits, Quiet

LEMMA SessionInit ==
  Init => SessionInv
<1> SUFFICES ASSUME Init
             PROVE  SessionInv
  OBVIOUS
<1>1. /\ read = 0 /\ hits = 0 /\ ended = FALSE /\ box = EmptyBox /\ request = {} /\ batch = EmptyBox
      /\ core = [reading |-> TRUE, unknown |-> opts.auto, total |-> 0,
                 deferred |-> opts.select1 \/ opts.exit0 \/ opts.sync]
      /\ code = None /\ printed = <<>> /\ screen = "plain" /\ quitting = None /\ drawing = {}
      /\ loop = [pc |-> "start", first |-> TRUE, acts |-> <<>>, posts |-> <<>>, stop |-> FALSE,
                 fit |-> -1, timer |-> FALSE]
      /\ startChan = IF Interactive /\ ~core.deferred /\ ~core.unknown THEN <<-1>> ELSE <<>>
      /\ opts \in Configs /\ opts.auto \in BOOLEAN /\ opts.select1 \in BOOLEAN
      /\ opts.exit0 \in BOOLEAN /\ opts.sync \in BOOLEAN
  BY ConfigAssumption DEF Init
<1>2. Typed
  <2>1. EmptyBox \in Boxes
    BY DEF EmptyBox, Boxes
  <2>2. core \in Cores
    BY <1>1 DEF Cores
  <2>3. startChan \in Seq(Int) /\ printed \in Seq({"item", "query"})
    BY <1>1
  <2> QED
    BY <1>1, <2>1, <2>2, <2>3 DEF Typed
<1>3. Started
  BY <1>1 DEF Started, EmptyBox
<1>4. WholeInput
  BY <1>1 DEF WholeInput, EmptyBox
<1>5. Heights
  <2>1. \A i \in DOMAIN startChan : startChan[i] = -1
    BY <1>1
  <2> QED
    BY <1>1, <2>1 DEF Heights, FitsExactly
<1>6. Quits /\ Prints
  BY <1>1, NoItems DEF Quits, Prints, EmptyBox, None
<1>7. LeavesExactly /\ ExitExact
  <2>1. code \notin {"Ok", "NoMatch"} /\ code = None
    BY <1>1 DEF None
  <2> QED
    BY <2>1 DEF LeavesExactly, ExitExact
<1> QED
  BY <1>2, <1>3, <1>4, <1>5, <1>6, <1>7 DEF SessionInv

LEMMA TypedStep ==
  SessionInv /\ [Next]_vars => Typed'
<1> SUFFICES ASSUME SessionInv, [Next]_vars
             PROVE  Typed'
  OBVIOUS
<1>0. /\ opts \in Configs /\ read \in Nat /\ hits \in 0..read
      /\ box \in Boxes /\ batch \in Boxes /\ request \in SUBSET Lists /\ core \in Cores
      /\ startChan \in Seq(Int) /\ printed \in Seq({"item", "query"})
      /\ DOMAIN loop = {"pc", "first", "acts", "posts", "stop", "fit", "timer"}
      /\ loop.fit \in Int /\ quitting \in Codes \cup {None}
      /\ screen \in {"plain", "raw", "restored"}
  BY DEF SessionInv, Typed
<1>1. CASE \E match \in BOOLEAN : Read(match)
  <2>1. PICK match \in BOOLEAN : Read(match)
    BY <1>1
  <2>2. read' \in Nat /\ hits' \in 0..read'
    BY <1>0, <2>1 DEF Read
  <2>3. printed' \in Seq({"item", "query"})
    BY <1>0, <2>1 DEF Read
  <2> QED
    BY <1>0, <2>1, <2>2, <2>3 DEF Read, Typed, run, ui
<1>2. CASE Poll \/ EndOfInput \/ Scan
  <2>1. box' \in Boxes /\ request' \in SUBSET Lists
    BY <1>0, <1>2 DEF Poll, EndOfInput, Scan, Boxes
  <2> QED
    BY <1>0, <1>2, <2>1 DEF Poll, EndOfInput, Scan, Typed, run, ui, input
<1>3. CASE Filter
  <2>1. printed' \in Seq({"item", "query"})
    BY <1>0, <1>3, ItemsType DEF Filter, Items
  <2> QED
    BY <1>0, <1>3, <2>1 DEF Filter, Typed, ui, input
<1>4. CASE Wake
  <2>1. batch' \in Boxes /\ box' \in Boxes
    BY <1>0, <1>4 DEF Wake, Boxes, EmptyBox
  <2> QED
    BY <1>0, <1>4, <2>1 DEF Wake, Typed, ui, input
<1>5. CASE HandleRead
  <2>1. PICK reading \in {core.reading /\ "fin" \notin batch.reads} :
          LET c == [core EXCEPT !.reading = reading, !.total = read]
          IN  /\ IF c.unknown /\ ~c.deferred THEN Determine(c, ~reading)
                 ELSE core' = c /\ UNCHANGED startChan
              /\ request' = {[count |-> read, length |-> hits, final |-> ~reading]}
    BY <1>5 DEF HandleRead
  <2> DEFINE c == [core EXCEPT !.reading = reading, !.total = read]
  <2>2. reading \in BOOLEAN /\ c \in Cores
    BY <1>0, <2>1 DEF Cores, Boxes
  <2>3. \/ Determine(c, ~reading)
        \/ core' = c /\ UNCHANGED startChan
    BY <2>1
  <2> HIDE DEF c
  <2>4. core' \in Cores /\ startChan' \in Seq(Int)
    BY <1>0, <2>2, <2>3, Determined
  <2>5. request' \in SUBSET Lists
    BY <1>0, <2>1, <2>2 DEF Lists
  <2>6. batch' \in Boxes
    BY <1>0, <1>5 DEF HandleRead, Boxes
  <2> QED
    BY <1>0, <1>5, <2>4, <2>5, <2>6 DEF HandleRead, Typed, input
<1>6. CASE HandleLeave
  <2>1. printed' \in Seq({"item", "query"})
    <3>1. PICK l \in batch.found : printed' = Items(l.length)
      BY <1>6 DEF HandleLeave, Items
    <3>2. l.length \in Nat
      BY <1>0, <3>1 DEF Boxes, Lists
    <3> QED
      BY <3>1, <3>2, ItemsType
  <2> QED
    BY <1>0, <1>6, <2>1 DEF HandleLeave, Typed, ui, input
<1>7. CASE HandleFound
  <2>1. PICK l \in batch.found : \/ Determine(core, l.final)
                                 \/ UNCHANGED <<core, startChan>>
    BY <1>7 DEF HandleFound
  <2>2. l.final \in BOOLEAN
    BY <1>0, <2>1 DEF Boxes, Lists
  <2>3. core' \in Cores /\ startChan' \in Seq(Int)
    BY <1>0, <2>1, <2>2, Determined
  <2> QED
    BY <1>0, <1>7, <2>3 DEF HandleFound, Typed, input
<1>8. CASE EndOfList \/ HandleQuit
  <2>1. batch' \in Boxes
    BY <1>0, <1>8 DEF EndOfList, HandleQuit, Boxes
  <2> QED
    BY <1>0, <1>8, <2>1 DEF EndOfList, HandleQuit, Typed, ui, input
<1>9. CASE LoopStart
  <2>1. startChan' \in Seq(Int) /\ Head(startChan) \in Int
    BY <1>0, <1>9 DEF LoopStart
  <2>2. DOMAIN loop' = DOMAIN loop /\ loop'.fit = Head(startChan)
    BY <1>0, <1>9 DEF LoopStart
  <2> QED
    BY <1>0, <1>9, <2>1, <2>2 DEF LoopStart, Typed, run, input
<1>10. CASE LoopFails
  <2>1. startChan' \in Seq(Int)
    BY <1>0, <1>10 DEF LoopFails
  <2>2. DOMAIN loop' = DOMAIN loop /\ loop'.fit = loop.fit
    BY <1>0, <1>10 DEF LoopFails
  <2>3. box' \in Boxes
    BY <1>0, <1>10 DEF LoopFails, Boxes, Codes
  <2> QED
    BY <1>0, <1>10, <2>1, <2>2, <2>3 DEF LoopFails, Typed, run, input
<1>11. CASE SendQuit
  <2>1. box' \in Boxes /\ quitting' = None
    BY <1>0, <1>11 DEF SendQuit, Boxes
  <2> QED
    BY <1>0, <1>11, <2>1 DEF SendQuit, Typed, run, input
<1>12. CASE Exits
  <2>1. PICK s \in {"Ok", "NoMatch", "Interrupt"}, o \in Seq({"item", "query"}) :
             quitting' = s /\ printed' = printed \o o
    BY <1>12, ExitsFrame
  <2>2. printed' \in Seq({"item", "query"}) /\ quitting' \in Codes \cup {None}
    BY <1>0, <2>1 DEF Codes
  <2>3. screen' \in {"plain", "raw", "restored"}
    BY <1>12, ExitsFrame
  <2> QED
    BY <1>0, <1>12, <2>2, <2>3, ExitsFrame DEF Typed
<1>13. CASE Quiet
  BY <1>0, <1>13, QuietFrame DEF Typed
<1>14. CASE UNCHANGED vars
  BY <1>0, <1>14 DEF vars, Typed
<1> QED
  BY <1>1, <1>2, <1>3, <1>4, <1>5, <1>6, <1>7, <1>8, <1>9, <1>10, <1>11, <1>12, <1>13, <1>14, Split

(***************************************************************************)
(* The parts of the invariant                                              *)
(***************************************************************************)

LEMMA StartedStep ==
  SessionInv /\ [Next]_vars => Started'
<1> SUFFICES ASSUME SessionInv, [Next]_vars
             PROVE  Started'
  OBVIOUS
<1>0. Started /\ Typed
  BY DEF SessionInv
<1>t. /\ core \in Cores /\ startChan \in Seq(Int) /\ box \in Boxes /\ batch \in Boxes
      /\ DOMAIN loop = {"pc", "first", "acts", "posts", "stop", "fit", "timer"}
  BY <1>0 DEF Typed
<1>1. CASE (\E match \in BOOLEAN : Read(match)) \/ HandleLeave \/ Filter
  BY <1>0, <1>1 DEF Started, Read, HandleLeave, Filter, Interactive, run, ui, input
<1>2. CASE Poll \/ EndOfInput
  BY <1>0, <1>t, <1>2 DEF Started, Poll, EndOfInput, Interactive, run, ui, Boxes
<1>3. CASE Scan
  BY <1>0, <1>t, <1>3 DEF Started, Scan, Interactive, run, ui, Boxes
<1>4. CASE Wake
  BY <1>0, <1>4 DEF Started, Wake, Interactive, ui, input
<1>5. CASE HandleRead
  <2>1. Interactive
    BY <1>0, <1>5 DEF HandleRead, Started, EmptyBox
  <2>2. PICK reading \in {core.reading /\ "fin" \notin batch.reads} :
          LET c == [core EXCEPT !.reading = reading, !.total = read]
          IN  IF c.unknown /\ ~c.deferred THEN Determine(c, ~reading)
              ELSE core' = c /\ UNCHANGED startChan
    BY <1>5 DEF HandleRead
  <2> DEFINE c == [core EXCEPT !.reading = reading, !.total = read]
  <2>3. reading \in BOOLEAN /\ c \in Cores /\ c.unknown = core.unknown /\ c.deferred = core.deferred
    BY <1>0, <1>t, <2>2 DEF Cores, Typed, Boxes
  <2>4. \/ Determine(c, ~reading)
        \/ core' = c /\ UNCHANGED startChan
    BY <2>2
  <2> HIDE DEF c
  <2>5. (core'.unknown = core.unknown /\ core'.deferred = core.deferred /\ startChan' = startChan)
        \/ (~core'.unknown /\ ~core'.deferred)
    BY <1>t, <2>3, <2>4, Determined
  <2> QED
    BY <1>0, <1>5, <2>1, <2>5 DEF HandleRead, Started, Interactive
<1>6. CASE HandleFound
  <2>1. PICK l \in batch.found : \/ Determine(core, l.final)
                                 \/ UNCHANGED <<core, startChan>>
    BY <1>6 DEF HandleFound
  <2>2. l.final \in BOOLEAN
    BY <1>t, <2>1 DEF Boxes, Lists
  <2>3. Interactive
    BY <1>0, <2>1 DEF Started, EmptyBox
  <2>4. (UNCHANGED <<core, startChan>>) \/ (~core'.unknown /\ ~core'.deferred)
    BY <1>t, <2>1, <2>2, Determined
  <2> QED
    BY <1>0, <1>6, <2>3, <2>4 DEF HandleFound, Started, Interactive
<1>7. CASE EndOfList
  <2>1. batch = EmptyBox => batch' = EmptyBox
    <3>1. batch' = [reads |-> batch.reads, found |-> {}, quit |-> batch.quit]
      BY <1>t, <1>7 DEF EndOfList, Boxes
    <3> QED
      BY <3>1 DEF EmptyBox
  <2> QED
    BY <1>0, <1>7, <2>1 DEF Started, EndOfList, Interactive, input
<1>8. CASE HandleQuit
  BY <1>0, <1>8 DEF Started, HandleQuit, Interactive, input, ui
<1>9. CASE LoopStart
  <2>1. Interactive /\ ~core.deferred /\ ~core.unknown
    BY <1>0, <1>9 DEF LoopStart, Started
  <2>2. loop'.pc = "select"
    BY <1>t, <1>9 DEF LoopStart
  <2> QED
    BY <1>0, <1>9, <2>1, <2>2 DEF Started, LoopStart, Interactive, input, run, Unlocked
<1>10. CASE LoopFails
  <2>1. Interactive /\ ~core.deferred /\ ~core.unknown
    BY <1>0, <1>10 DEF LoopFails, Started
  <2>2. loop'.pc = "done"
    BY <1>t, <1>10 DEF LoopFails
  <2> QED
    BY <1>0, <1>10, <2>1, <2>2 DEF Started, LoopFails, Interactive, input, run, Unlocked
<1>11. CASE SendQuit
  <2>1. Interactive
    <3>1. quitting # None /\ quitting # "Error"
      BY <1>11 DEF SendQuit, SessionInv, Quits
    <3>2. screen = "restored"
      BY <3>1 DEF SessionInv, Quits, Left
    <3> QED
      BY <1>0, <3>2 DEF Started
  <2> QED
    BY <1>0, <1>11, <2>1 DEF Started, SendQuit, Interactive, input, run
<1>12. CASE Exits
  <2>1. Interactive /\ loop.pc # "start" /\ opts.tty
    BY <1>0, <1>12, ExitsFrame DEF Started
  <2> QED
    BY <1>0, <1>12, <2>1, ExitsFrame DEF Started, Interactive
<1>13. CASE Quiet
  BY <1>0, <1>t, <1>13, QuietFrame DEF Started, Interactive
<1>14. CASE UNCHANGED vars
  BY <1>0, <1>14 DEF vars, Started, Interactive
<1> QED
  BY <1>1, <1>2, <1>3, <1>4, <1>5, <1>6, <1>7, <1>8, <1>9, <1>10, <1>11, <1>12, <1>13, <1>14, Split

LEMMA WholeInputStep ==
  SessionInv /\ [Next]_vars => WholeInput'
<1> SUFFICES ASSUME SessionInv, [Next]_vars
             PROVE  WholeInput'
  OBVIOUS
<1>0. WholeInput /\ Typed
  BY DEF SessionInv
<1>t. /\ core \in Cores /\ startChan \in Seq(Int) /\ box \in Boxes /\ batch \in Boxes
      /\ request \in SUBSET Lists /\ read \in Nat /\ hits \in Nat
  BY <1>0 DEF Typed
<1>1. CASE \E match \in BOOLEAN : Read(match)
  <2>1. ~ended /\ ended' = ended /\ UNCHANGED <<box, batch, request, core>>
    BY <1>1 DEF Read, run, input
  <2> QED
    BY <1>0, <1>t, <2>1 DEF WholeInput, Boxes, Lists
<1>2. CASE Poll \/ EndOfInput
  <2>1. /\ UNCHANGED <<read, hits, batch, request, core>> /\ box'.found = box.found
        /\ ended => ended'
        /\ "fin" \in box'.reads => "fin" \in box.reads \/ ended'
    BY <1>t, <1>2 DEF Poll, EndOfInput, run, Boxes
  <2> QED
    BY <1>0, <2>1 DEF WholeInput
<1>3. CASE Scan
  <2>1. /\ UNCHANGED <<read, hits, ended, batch, core>> /\ box'.reads = box.reads
        /\ box'.found = request /\ request' = {}
    BY <1>t, <1>3 DEF Scan, run, input, Boxes
  <2>2. request' \cup box'.found \cup batch'.found \subseteq request \cup box.found \cup batch.found
    BY <2>1
  <2> QED
    BY <1>0, <2>1, <2>2 DEF WholeInput
<1>4. CASE Filter \/ HandleLeave \/ HandleQuit \/ LoopStart
  BY <1>0, <1>4 DEF Filter, HandleLeave, HandleQuit, LoopStart, WholeInput, input, run
<1>5. CASE Wake
  <2>1. /\ UNCHANGED <<read, hits, ended, request, core>>
        /\ batch'.found = box.found /\ box'.found = {} /\ box'.reads = {}
        /\ "fin" \in batch'.reads => "fin" \in box.reads
    BY <1>t, <1>5 DEF Wake, input, EmptyBox, Boxes
  <2> QED
    BY <1>0, <2>1 DEF WholeInput
<1>6. CASE HandleRead
  <2>1. PICK reading \in {core.reading /\ "fin" \notin batch.reads} :
          LET c == [core EXCEPT !.reading = reading, !.total = read]
          IN  /\ IF c.unknown /\ ~c.deferred THEN Determine(c, ~reading)
                 ELSE core' = c /\ UNCHANGED startChan
              /\ request' = {[count |-> read, length |-> hits, final |-> ~reading]}
    BY <1>6 DEF HandleRead
  <2> DEFINE c == [core EXCEPT !.reading = reading, !.total = read]
  <2>2. reading \in BOOLEAN /\ c \in Cores /\ c.reading = reading /\ c.total = read
    BY <1>t, <2>1 DEF Cores, Boxes
  <2>3. \/ Determine(c, ~reading)
        \/ core' = c /\ UNCHANGED startChan
    BY <2>1
  <2> HIDE DEF c
  <2>4. core'.reading = reading /\ core'.total = read
    BY <1>t, <2>2, <2>3, Determined
  <2>5. reading = (core.reading /\ "fin" \notin batch.reads)
    BY <2>1
  <2>6. /\ UNCHANGED <<read, hits, ended, box>> /\ batch'.found = batch.found /\ batch'.reads = {}
    BY <1>t, <1>6 DEF HandleRead, input, Boxes
  <2>7. \A l \in request' : l.final => ~reading /\ l.count = read /\ l.length = hits
    <3> DEFINE f == ~reading
    <3>1. request' = {[count |-> read, length |-> hits, final |-> f]} /\ f \in BOOLEAN
      BY <2>1
    <3> HIDE DEF f
    <3>2. \A l \in request' : l.final = f /\ l.count = read /\ l.length = hits
      BY <3>1
    <3> QED
      BY <3>2 DEF f
  <2>8. ~reading => ended
    BY <1>0, <2>5 DEF WholeInput
  <2>9. ~core.reading => ~core'.reading
    BY <2>4, <2>5
  <2> QED
    BY <1>0, <2>4, <2>6, <2>7, <2>8, <2>9 DEF WholeInput
<1>7. CASE HandleFound
  <2>1. PICK l \in batch.found : \/ Determine(core, l.final)
                                 \/ UNCHANGED <<core, startChan>>
    BY <1>7 DEF HandleFound
  <2>2. l.final \in BOOLEAN
    BY <1>t, <2>1 DEF Boxes, Lists
  <2>3. core'.reading = core.reading /\ core'.total = core.total
    BY <1>t, <2>1, <2>2, Determined
  <2> QED
    BY <1>0, <1>7, <2>3 DEF HandleFound, WholeInput, input
<1>8. CASE EndOfList
  <2>1. batch'.found = {} /\ batch'.reads = batch.reads
    BY <1>t, <1>8 DEF EndOfList, Boxes
  <2> QED
    BY <1>0, <1>8, <2>1 DEF EndOfList, WholeInput, input
<1>9. CASE LoopFails \/ SendQuit
  <2>1. box'.found = box.found /\ box'.reads = box.reads
    BY <1>t, <1>9 DEF LoopFails, SendQuit, Boxes
  <2> QED
    BY <1>0, <1>9, <2>1 DEF LoopFails, SendQuit, WholeInput, input, run
<1>10. CASE Exits
  BY <1>0, <1>10, ExitsFrame DEF WholeInput
<1>11. CASE Quiet
  BY <1>0, <1>11, QuietFrame DEF WholeInput, SessionInv, Typed
<1>12. CASE UNCHANGED vars
  BY <1>0, <1>12 DEF vars, WholeInput
<1> QED
  BY <1>1, <1>2, <1>3, <1>4, <1>5, <1>6, <1>7, <1>8, <1>9, <1>10, <1>11, <1>12, Split

LEMMA HeightsStep ==
  SessionInv /\ [Next]_vars => Heights'
<1> SUFFICES ASSUME SessionInv, [Next]_vars
             PROVE  Heights'
  OBVIOUS
<1>0. Heights /\ Typed /\ WholeInput
  BY DEF SessionInv
<1>t. /\ core \in Cores /\ startChan \in Seq(Int) /\ box \in Boxes /\ batch \in Boxes
      /\ read \in Nat /\ MaxFit \in Nat
      /\ DOMAIN loop = {"pc", "first", "acts", "posts", "stop", "fit", "timer"}
  BY <1>0, Bounds DEF Typed
<1>d. ASSUME NEW f \in Int, startChan' = Append(startChan, f), FitsExactly(f),
             UNCHANGED <<read, ended, loop>>
      PROVE  Heights'
  <2>1. /\ Len(startChan) \in Nat /\ DOMAIN startChan' = 1..Len(startChan) + 1
        /\ startChan'[Len(startChan) + 1] = f
        /\ \A i \in 1..Len(startChan) : startChan'[i] = startChan[i]
    BY <1>t, <1>d
  <2>2. DOMAIN startChan = 1..Len(startChan)
    BY <1>t
  <2>3. \A i \in 1..Len(startChan) + 1 : FitsExactly(startChan'[i])
    BY <1>0, <1>d, <2>1, <2>2 DEF Heights
  <2> QED
    BY <1>0, <1>d, <2>1, <2>3 DEF Heights, FitsExactly
<1>1. CASE \E match \in BOOLEAN : Read(match)
  <2>1. ~ended /\ UNCHANGED <<ended, startChan, loop>>
    BY <1>1 DEF Read, run, ui
  <2> QED
    BY <1>0, <2>1 DEF Heights, FitsExactly
<1>2. CASE Poll \/ EndOfInput \/ Scan \/ Filter \/ Wake \/ HandleLeave \/ EndOfList \/ HandleQuit
           \/ SendQuit
  <2>1. UNCHANGED <<read, startChan, loop>> /\ (ended => ended')
    BY <1>2 DEF Poll, EndOfInput, Scan, Filter, Wake, HandleLeave, EndOfList, HandleQuit,
                SendQuit, input, run, ui
  <2> QED
    BY <1>0, <2>1 DEF Heights, FitsExactly
<1>3. CASE HandleRead
  <2>1. PICK reading \in {core.reading /\ "fin" \notin batch.reads} :
          LET c == [core EXCEPT !.reading = reading, !.total = read]
          IN  IF c.unknown /\ ~c.deferred THEN Determine(c, ~reading)
              ELSE core' = c /\ UNCHANGED startChan
    BY <1>3 DEF HandleRead
  <2> DEFINE c == [core EXCEPT !.reading = reading, !.total = read]
  <2>2. reading \in BOOLEAN /\ c \in Cores /\ c.reading = reading /\ c.total = read
    BY <1>t, <2>1 DEF Cores, Boxes
  <2>3. \/ Determine(c, ~reading)
        \/ core' = c /\ UNCHANGED startChan
    BY <2>1
  <2> HIDE DEF c
  <2>4. ~reading => ended
    BY <1>0, <2>1 DEF WholeInput
  <2>5. UNCHANGED <<read, ended, loop>>
    BY <1>3 DEF HandleRead, input
  <2>6. CASE UNCHANGED startChan
    BY <1>0, <2>5, <2>6 DEF Heights, FitsExactly
  <2>7. CASE \E f \in Int : /\ startChan' = Append(startChan, f)
                            /\ f = -1 \/ f = MaxFit \/ (~reading /\ f = c.total /\ f < MaxFit)
    BY <1>d, <2>2, <2>4, <2>5, <2>7 DEF FitsExactly
  <2> QED
    BY <1>t, <2>2, <2>3, <2>6, <2>7, Determined
<1>4. CASE HandleFound
  <2>1. PICK l \in batch.found : \/ Determine(core, l.final)
                                 \/ UNCHANGED <<core, startChan>>
    BY <1>4 DEF HandleFound
  <2>2. l.final \in BOOLEAN
    BY <1>t, <2>1 DEF Boxes, Lists
  <2>3. l.final => ended /\ core.total = read
    BY <1>0, <2>1 DEF WholeInput
  <2>4. UNCHANGED <<read, ended, loop>>
    BY <1>4 DEF HandleFound, input
  <2>5. CASE UNCHANGED startChan
    BY <1>0, <2>4, <2>5 DEF Heights, FitsExactly
  <2>6. CASE \E f \in Int : /\ startChan' = Append(startChan, f)
                            /\ f = -1 \/ f = MaxFit \/ (l.final /\ f = core.total /\ f < MaxFit)
    BY <1>d, <2>3, <2>4, <2>6 DEF FitsExactly
  <2> QED
    BY <1>t, <2>1, <2>2, <2>5, <2>6, Determined
<1>5. CASE LoopStart \/ LoopFails
  <2>1. /\ startChan # <<>> /\ startChan' = Tail(startChan) /\ UNCHANGED <<read, ended>>
        /\ loop'.fit \in {loop.fit, Head(startChan)}
    BY <1>t, <1>5 DEF LoopStart, LoopFails, input
  <2>2. /\ FitsExactly(Head(startChan))
        /\ \A i \in DOMAIN startChan' : FitsExactly(startChan'[i])
    <3> DEFINE n == Len(startChan)
    <3>1. /\ n \in Nat /\ n >= 1 /\ DOMAIN startChan = 1..n /\ Head(startChan) = startChan[1]
          /\ DOMAIN startChan' = 1..n-1 /\ \A i \in 1..n-1 : startChan'[i] = startChan[i+1]
      BY <1>t, <2>1
    <3> HIDE DEF n
    <3>2. \A i \in 1..n : FitsExactly(startChan[i])
      BY <1>0, <3>1 DEF Heights
    <3>3. 1 \in 1..n /\ \A i \in 1..n-1 : i + 1 \in 1..n
      BY <3>1
    <3> QED
      BY <3>1, <3>2, <3>3
  <2> QED
    BY <1>0, <2>1, <2>2 DEF Heights, FitsExactly
<1>6. CASE Exits
  BY <1>0, <1>6, ExitsFrame DEF Heights, FitsExactly
<1>7. CASE Quiet
  BY <1>0, <1>t, <1>7, QuietFrame DEF Heights, FitsExactly
<1>8. CASE UNCHANGED vars
  BY <1>0, <1>8 DEF vars, Heights, FitsExactly
<1> QED
  BY <1>1, <1>2, <1>3, <1>4, <1>5, <1>6, <1>7, <1>8, Split

\* A status that was sent stays true: after it nothing is printed or drawn.
LEMMA QuitsStep ==
  SessionInv /\ [Next]_vars => Quits'
<1> SUFFICES ASSUME SessionInv, [Next]_vars
             PROVE  Quits'
  OBVIOUS
<1>0. Quits /\ Typed /\ Started
  BY DEF SessionInv
<1>t. /\ core \in Cores /\ box \in Boxes /\ batch \in Boxes
      /\ printed \in Seq({"item", "query"})
  BY <1>0 DEF Typed
<1>s. ASSUME UNCHANGED <<opts, screen, printed, history, quitting>>,
             {box'.quit, batch'.quit} \subseteq {quitting, box.quit, batch.quit, None}
      PROVE  Quits'
  BY <1>0, <1>s DEF Quits, Left
<1>p. ASSUME screen = "plain", UNCHANGED <<opts, quitting>>,
             {box'.quit, batch'.quit} \subseteq {box.quit, batch.quit}
      PROVE  Quits'
  BY <1>0, <1>p DEF Quits, Left
<1>1. CASE (\E match \in BOOLEAN : Read(match)) \/ Filter \/ HandleLeave
  <2>1. UNCHANGED <<opts, quitting, box, batch, screen, history>>
    BY <1>1 DEF Read, Filter, HandleLeave, run, ui
  <2>2. CASE screen = "plain"
    BY <1>p, <2>1, <2>2
  <2>3. CASE screen # "plain"
    <3>1. loop.pc # "start" /\ Interactive /\ ~core.deferred
      BY <1>0, <2>3 DEF Started
    <3>2. ~Filter /\ ~HandleLeave
      BY <3>1 DEF Filter, HandleLeave, Leaves
    <3>3. UNCHANGED printed
      BY <1>1, <3>1, <3>2 DEF Read, Interactive, None
    <3> QED
      BY <1>s, <2>1, <3>3
  <2> QED
    BY <2>2, <2>3
<1>2. CASE Poll \/ EndOfInput \/ Scan \/ HandleRead \/ HandleFound \/ EndOfList \/ HandleQuit
  <2>1. /\ UNCHANGED <<opts, screen, printed, history, quitting>>
        /\ box'.quit = box.quit /\ batch'.quit = batch.quit
    BY <1>t, <1>2 DEF Poll, EndOfInput, Scan, HandleRead, HandleFound, EndOfList, HandleQuit,
                      run, ui, Boxes
  <2> QED
    BY <1>s, <2>1
<1>3. CASE Wake
  <2>1. /\ UNCHANGED <<opts, screen, printed, history, quitting>>
        /\ box'.quit = None /\ batch'.quit = box.quit
    BY <1>t, <1>3 DEF Wake, ui, Boxes, EmptyBox
  <2> QED
    BY <1>s, <2>1
<1>4. CASE LoopStart
  <2>1. screen = "plain" /\ UNCHANGED <<opts, quitting, box, batch>>
    BY <1>0, <1>4 DEF LoopStart, Started, run
  <2> QED
    BY <1>p, <2>1
<1>5. CASE LoopFails
  <2>1. /\ UNCHANGED <<opts, screen, printed, history, quitting, batch>>
        /\ ~opts.tty /\ box'.quit = "Error"
    BY <1>t, <1>5 DEF LoopFails, run, Boxes
  <2> QED
    BY <1>0, <2>1 DEF Quits, Left
<1>6. CASE SendQuit
  <2>1. /\ UNCHANGED <<opts, screen, printed, history, batch>>
        /\ quitting' = None /\ box'.quit = quitting
    BY <1>t, <1>6 DEF SendQuit, run, Boxes
  <2> QED
    BY <1>0, <2>1 DEF Quits, Left, None
<1>7. CASE Exits
  <2>1. screen = "raw" /\ opts.tty
    BY <1>0, <1>7, ExitsFrame DEF Started
  <2>2. quitting = None /\ box.quit = None /\ batch.quit = None
    BY <1>0, <2>1 DEF Quits, Left
  <2>3. printed = <<>>
    <3>1. Running /\ Interactive
      BY <1>0, <1>7, <2>1, ExitsFrame DEF Started
    <3> QED
      BY <2>1, <3>1, NoItems DEF SessionInv, Prints, Interactive, None
  <2>4. PICK s \in {"Ok", "NoMatch", "Interrupt"}, o \in Seq({"item", "query"}) :
             /\ quitting' = s /\ printed' = printed \o o
             /\ history' = (s \in {"Ok", "NoMatch"})
             /\ Len(o) = IF s = "Ok" THEN 1 ELSE 0
    BY <1>7, ExitsFrame
  <2>5. Len(printed') = IF s = "Ok" THEN 1 ELSE 0
    BY <2>3, <2>4
  <2>6. screen' = "restored" /\ UNCHANGED <<opts, box, batch>>
    BY <1>7, ExitsFrame
  <2> QED
    BY <2>2, <2>4, <2>5, <2>6 DEF Quits, Left
<1>8. CASE Quiet
  <2>1. UNCHANGED <<opts, screen, printed, history, quitting, box, batch>>
    BY <1>0, <1>8, QuietFrame DEF Typed
  <2> QED
    BY <1>s, <2>1
<1>9. CASE UNCHANGED vars
  BY <1>s, <1>9 DEF vars
<1> QED
  BY <1>1, <1>2, <1>3, <1>4, <1>5, <1>6, <1>7, <1>8, <1>9, Split

LEMMA PrintsStep ==
  SessionInv /\ [Next]_vars => Prints'
<1> SUFFICES ASSUME SessionInv, [Next]_vars
             PROVE  Prints'
  OBVIOUS
<1>0. Prints /\ Typed /\ Started
  BY DEF SessionInv
<1>1. CASE \E match \in BOOLEAN : Read(match)
  <2>1. PICK match \in BOOLEAN : Read(match)
    BY <1>1
  <2>2. UNCHANGED <<opts, screen, code>>
    BY <2>1 DEF Read, run, ui
  <2>3. hits \in Nat
    BY <1>0 DEF Typed
  <2>4. CASE opts.filter = "stream" /\ match
    <3>1. hits' = hits + 1 /\ printed' = Append(printed, "item")
      BY <2>1, <2>4 DEF Read
    <3> QED
      BY <1>0, <2>2, <2>3, <2>4, <3>1, MoreItems DEF Prints, Running
  <2>5. CASE ~(opts.filter = "stream" /\ match)
    <3>1. printed' = printed /\ (opts.filter = "stream" => hits' = hits)
      BY <2>1, <2>5 DEF Read
    <3> QED
      BY <1>0, <2>2, <3>1 DEF Prints, Running
  <2> QED
    BY <2>4, <2>5
<1>2. CASE Filter \/ HandleLeave
  <2>1. code' # None
    BY <1>2 DEF Filter, HandleLeave, None
  <2> QED
    BY <2>1 DEF Prints, Running
<1>3. CASE Poll \/ EndOfInput \/ Scan \/ Wake \/ HandleRead \/ HandleFound \/ EndOfList
           \/ HandleQuit \/ LoopStart \/ LoopFails \/ SendQuit
  <2>1. UNCHANGED <<opts, printed, hits>> /\ Running
        /\ (screen' # "restored" => screen # "restored")
    <3>1. LoopStart => screen # "restored"
      BY <1>0 DEF LoopStart, Started
    <3> QED
      BY <1>3, <3>1 DEF Poll, EndOfInput, Scan, Wake, HandleRead, HandleFound, EndOfList,
                        HandleQuit, LoopStart, LoopFails, SendQuit, run, ui, input
  <2> QED
    BY <1>0, <2>1 DEF Prints, Running
<1>4. CASE Exits
  BY <1>4, ExitsFrame DEF Prints
<1>5. CASE Quiet
  BY <1>0, <1>5, QuietFrame DEF Prints, Running, Typed
<1>6. CASE UNCHANGED vars
  BY <1>0, <1>6 DEF vars, Prints, Running
<1> QED
  BY <1>1, <1>2, <1>3, <1>4, <1>5, <1>6, Split

\* The ends of the finder.
LEMMA EndsStep ==
  SessionInv /\ [Next]_vars => LeavesExactly' /\ ExitExact'
<1> SUFFICES ASSUME SessionInv, [Next]_vars
             PROVE  LeavesExactly' /\ ExitExact'
  OBVIOUS
<1>0. Typed /\ Started /\ WholeInput /\ Quits /\ Prints /\ LeavesExactly /\ ExitExact
  BY DEF SessionInv
<1>1. CASE Filter
  <2>1. /\ UNCHANGED <<hits, ended, screen, opts>> /\ ~Interactive /\ Running /\ "fin" \in box.reads
        /\ printed' = IF opts.filter = "scan" THEN Items(hits) ELSE printed
        /\ code' = IF printed' # <<>> THEN "Ok" ELSE "NoMatch"
    BY <1>1 DEF Filter, ui, input, Items
  <2>2. ended /\ screen = "plain"
    BY <1>0, <2>1 DEF WholeInput, Started
  <2>3. hits \in Nat
    BY <1>0 DEF Typed
  <2>4. printed' = Items(hits)
    <3>1. opts.filter \in {"scan", "stream"}
      BY <1>0, <2>1, ConfigAssumption DEF Typed, Interactive
    <3> QED
      BY <1>0, <2>1, <2>2, <3>1 DEF Prints
  <2>5. printed' # <<>> <=> hits > 0
    <3>1. Items(hits) = <<>> <=> hits = 0
      BY <2>3, ItemsType, NoItems
    <3> QED
      BY <2>3, <2>4, <3>1
  <2>6. LeavesExactly'
    BY <2>1, <2>2, <2>4, <2>5 DEF LeavesExactly, Items, Interactive
  <2>7. ExitExact'
    BY <2>1, <2>2 DEF ExitExact
  <2> QED
    BY <2>6, <2>7
<1>2. CASE HandleLeave
  <2>1. PICK list \in batch.found :
             /\ Leaves(list) /\ printed' = Items(list.length)
             /\ code' = IF list.length = 0 THEN "NoMatch" ELSE "Ok"
    BY <1>2 DEF HandleLeave, Items
  <2>2. UNCHANGED <<hits, ended, screen, opts, loop, startChan>>
    BY <1>2 DEF HandleLeave, ui, input
  <2>3. list.length = hits /\ ended
    BY <1>0, <2>1 DEF WholeInput, Leaves
  <2>4. loop.pc = "start" /\ startChan = <<>> /\ screen = "plain"
    BY <1>0, <2>1 DEF Started, Leaves
  <2>5. (opts.select1 /\ hits = 1) \/ (opts.exit0 /\ hits = 0)
    BY <2>1, <2>3 DEF Leaves
  <2>6. code' = "Ok" <=> hits > 0
    BY <2>1, <2>3, <2>5
  <2>7. LeavesExactly'
    BY <2>1, <2>2, <2>3, <2>4, <2>5, <2>6 DEF LeavesExactly, Items
  <2>8. ExitExact'
    BY <2>2, <2>4 DEF ExitExact
  <2> QED
    BY <2>7, <2>8
<1>3. CASE HandleQuit
  <2>1. /\ batch.quit # None /\ code' = batch.quit
        /\ UNCHANGED <<screen, printed, history, opts>>
    BY <1>3 DEF HandleQuit, ui
  <2>2. CASE batch.quit = "Error"
    <3>1. screen = "plain" /\ code' = "Error"
      BY <1>0, <2>1, <2>2 DEF Quits, Started
    <3> QED
      BY <2>1, <3>1 DEF LeavesExactly, ExitExact
  <2>3. CASE batch.quit # "Error"
    <3>1. Left(batch.quit)
      BY <1>0, <2>1, <2>3 DEF Quits
    <3> QED
      BY <2>1, <3>1 DEF LeavesExactly, ExitExact, Left
  <2> QED
    BY <2>2, <2>3
<1>4. CASE \/ \E match \in BOOLEAN : Read(match)
           \/ Poll \/ EndOfInput \/ Scan \/ Wake \/ HandleRead \/ HandleFound
           \/ EndOfList \/ LoopStart \/ LoopFails \/ SendQuit \/ Exits \/ Quiet
  <2>1. code' = code /\ code = None
    <3>1. CASE (\E match \in BOOLEAN : Read(match)) \/ Poll \/ EndOfInput \/ Scan \/ Wake
               \/ HandleRead \/ HandleFound
      BY <3>1 DEF Read, Poll, EndOfInput, Scan, Wake, HandleRead, HandleFound, run, Running
    <3>2. CASE EndOfList \/ LoopStart \/ LoopFails \/ SendQuit
      BY <3>2 DEF EndOfList, LoopStart, LoopFails, SendQuit, run, Running
    <3>3. CASE Exits
      BY <3>3, ExitsFrame DEF Running
    <3>4. CASE Quiet
      BY <1>0, <3>4, QuietFrame DEF Running, Typed
    <3> QED
      BY <1>4, <3>1, <3>2, <3>3, <3>4
  <2> QED
    BY <2>1 DEF LeavesExactly, ExitExact, None
<1>5. CASE UNCHANGED vars
  BY <1>0, <1>5 DEF vars, LeavesExactly, ExitExact, Interactive
<1> QED
  BY <1>1, <1>2, <1>3, <1>4, <1>5, Split

LEMMA SessionStep ==
  SessionInv /\ [Next]_vars => SessionInv'
  BY TypedStep, StartedStep, WholeInputStep, HeightsStep, QuitsStep, PrintsStep, EndsStep
     DEF SessionInv

LEMMA SessionAlways ==
  Spec => []SessionInv
  BY SessionInit, SessionStep, PTL DEF Spec

\* A finder that ends by itself has seen its whole input and printed each match
\* once, whatever the options and however long the input.
THEOREM ItLeavesExactly == Spec => []LeavesExactly
<1>1. SessionInv => LeavesExactly
  BY DEF SessionInv
<1> QED
  BY <1>1, SessionAlways, PTL

\* An adaptive height is that of the whole input, or that of the screen.
THEOREM ItsHeightIsExact == Spec => []HeightExact
<1>1. SessionInv => HeightExact
  BY DEF SessionInv, Heights, FitsExactly, HeightExact
<1> QED
  BY <1>1, SessionAlways, PTL

\* It leaves with the screen restored, and with the output and the history that
\* belong to its one status.
THEOREM ItExitsExactly == Spec => []ExitExact
<1>1. SessionInv => ExitExact
  BY DEF SessionInv
<1> QED
  BY <1>1, SessionAlways, PTL

=============================================================================
