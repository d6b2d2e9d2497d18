-------------------------------- MODULE List --------------------------------
(***************************************************************************)
(* The list of the terminal (terminal.go): cursor, scroll offset, selection*)
(* and tracking, moved by actions of the user and by the result lists of   *)
(* the coordinator, and the rows on the screen, which the render loop draws*)
(* later and only where it believes that they have changed.                *)
(*                                                                         *)
(* An item is <<load, index>>: a reload starts to count again.  Items may  *)
(* have several lines, the rows of the window count from the prompt.       *)
(***************************************************************************)
EXTENDS Integers, Sequences, SequencesExt, FiniteSetsExt

CONSTANTS
    MaxIndex,    \* bound on the items of a load
    MaxLoads,    \* bound on the loads
    MaxKeys,     \* bound on the steps of the user
    MaxLists,    \* bound on the lists of the coordinator
    Lines(_),    \* lines of the item with an index
    Gap,         \* --gap
    ScrollOff,   \* --scroll-off
    Cycle,       \* --cycle
    Upside,      \* --layout=reverse
    Tac,         \* --tac
    Multi,       \* --multi
    InitTrack,   \* --track: "off", "on" or "current"
    JumpLabels,  \* their number
    Heights,     \* those the window can have
    MaxInput,    \* --tail
    Acts         \* the actions bound to keys and events of the mouse

ASSUME GeometryAssumption ==
    /\ Gap \in Nat /\ ScrollOff \in Nat /\ MaxIndex \in Nat
    /\ IsFiniteSet(Heights) /\ Heights # {} /\ Heights \subseteq Nat \ {0}
    /\ \A i \in 0..MaxIndex : Lines(i) \in Nat \ {0}
ASSUME ListAssumption ==
    /\ Multi \in Nat /\ JumpLabels \in Nat /\ MaxLoads \in Nat /\ MaxInput \in Nat \ {0}
    /\ Cycle \in BOOLEAN /\ Upside \in BOOLEAN /\ Tac \in BOOLEAN
    /\ InitTrack \in {"off", "on", "current"}

VARIABLES
    input,     \* what the coordinator has: [load, from, to, trims]
    list,      \* t.merger
    cy, offset, track,
    selected,  \* items in the order of their selection
    version,   \* was t.version changed after the preview was refreshed?
    jumping,   \* "no", "yes" or "accept"
    rows,      \* t.prevLines
    height,    \* of the window
    requests,  \* for the render loop
    undrawn,   \* what the cursor left behind when it moved without one
    focused,   \* focusedIndex
    previewed, \* current item and selection when the preview was refreshed
    output,    \* what was printed in the end
    keys, lists

vars == <<input, list, cy, offset, track, selected, version, jumping, rows, height,
          requests, undrawn, focused, previewed, output, keys, lists>>

\* minItem
NoIndex == -1
NoItem == <<0, NoIndex>>
Index(item) == item[2]

Constrain(n, low, high) == IF n < low THEN low ELSE IF n > high THEN high ELSE n

\* Op with 1, ..., n, one after the other.  (FoldLeft, for short sequences.)
Repeated(Op(_, _), n, x) ==
    LET f[k \in 0..n] == IF k = 0 THEN x ELSE LET y == f[k - 1] IN Op(y, k)
    IN  f[n]

(***************************************************************************)
(* Result lists                                                            *)
(***************************************************************************)

Count(l) == Len(l.seq)
Get(l, i) == l.seq[i + 1]
First(l) == IF Tac /\ ~l.sorted THEN Last(l.seq) ELSE Head(l.seq)

\* The place of an index, or none, or (when all items are listed) where it
\* would be.
FindIndex(l, index) ==
    IF l.all
    THEN IF Tac THEN Count(l) - (index - l.min) - 1 ELSE index - l.min
    ELSE Max({-1} \cup {i \in 0..(Count(l) - 1) : Index(Get(l, i)) = index})

\* Lists for what the coordinator has: all items or some, in the order of the
\* input or in another one.
Ordered(load, S, down) ==
    [i \in 1..Cardinality(S) |->
        <<load, CHOOSE n \in S :
                    Cardinality({k \in S : IF down THEN k > n ELSE k < n}) = i - 1>>]

ListOf(in, S, down, all, sorted) ==
    [seq |-> Ordered(in.load, S, down), min |-> in.from, all |-> all, sorted |-> sorted,
     load |-> in.load, trims |-> in.trims]

ListsOf(in) ==
    {ListOf(in, in.from..in.to, Tac, TRUE, FALSE)}
    \cup {ListOf(in, S, Tac, FALSE, FALSE) : S \in SUBSET (in.from..in.to)}
    \cup {ListOf(in, in.from..in.to, ~Tac, FALSE, TRUE)}

ItemAt(l, c) == IF c \in 0..(Count(l) - 1) THEN Get(l, c) ELSE NoItem

\* currentItem, currentIndex
Current == ItemAt(list, cy)

(***************************************************************************)
(* The place of the cursor in the window                                   *)
(***************************************************************************)

\* numItemLines: when an item does not fit, those that do.
NumLines(item, atMost) ==
    LET n == Lines(Index(item)) IN
    IF n > 1 /\ n > atMost THEN [lines |-> atMost + Gap, overflow |-> TRUE]
    ELSE [lines |-> n + Gap, overflow |-> n + Gap > atMost]

\* Lines of the items from i to k - 1 when `atMost' is what is left.
LinesBetween(l, i, k, atMost) ==
    LET Add(sum, j) == sum + NumLines(Get(l, i + j - 1), atMost - sum).lines
    IN  Repeated(Add, Max({0, k - i}), 0)

\* Lines of the items from i to k - 1, each as in a window of its own.
TotalLines(l, i, k) ==
    LET Add(sum, j) == sum + NumLines(Get(l, i + j - 1), height).lines
    IN  Repeated(Add, Max({0, k - i}), 0)

\* How many items fit on the screen, from offset o on and then before it?  One
\* more has n lines, which makes `sum' of them.
OneMore(h, a, n, sum) ==
    [sum |-> sum, full |-> sum >= h,
     found |-> IF sum < h \/ a.found = 0 \/ ~n.overflow THEN a.found + 1 ELSE a.found]
Fitting(h, a, n) == IF a.full THEN a ELSE OneMore(h, a, n, a.sum + n.lines)
ItemsThatFit(h, l, o) ==
    LET Add(a, k) ==
            Fitting(h, a, NumLines(Get(l, IF k <= Count(l) - o THEN o + k - 1 ELSE Count(l) - k),
                                   h - a.sum))
    IN  IF l.seq = <<>> THEN h
        ELSE Repeated(Add, Count(l), [sum |-> 0, found |-> 0, full |-> FALSE]).found

\* The scroll offset p gets closer to one with `off' lines around the cursor.
Nudged(p, up, above, below, low, high, off) ==
    CASE above < off /\ below < off -> p
      [] up /\ above < off /\ below >= off -> Max({low, p - 1})
      [] ~up /\ below < off /\ above >= off -> Min({high, p + 1})
      [] OTHER -> p
Scrolled(h, l, c, o, low, high, off, lines) ==
    LET Nudge(p, k) ==
            LET above == LinesBetween(l, p, Min({c, Count(l)}), h - lines)
            IN  Nudged(p, k <= Count(l), above, h - (above + lines), low, high, off)
    IN  Repeated(Nudge, 2 * Count(l), o)

\* One round of constrain, for the cursor c when `fit' items fit.
Bounded(h, l, off, o, c, fit, low, high) ==
    [cy |-> c,
     offset |-> IF off = 0 THEN Constrain(o, low, high)
                ELSE Scrolled(h, l, c, Constrain(o, low, high), low, high, Min({h \div 2, off}),
                              IF c < Count(l) THEN NumLines(Get(l, c), h).lines ELSE 1 + Gap)]
Framed(h, l, off, o, c, fit) ==
    Bounded(h, l, off, o, c, fit, Max({c - fit + 1, 0}), Max({Min({Count(l) - fit, c}), 0}))
Constrained(h, l, off, p) ==
    Framed(h, l, off, p.offset, Constrain(p.cy, 0, Max({0, Count(l) - 1})),
           ItemsThatFit(h, l, p.offset))

Place(c, o) == [cy |-> c, offset |-> o]

\* (Variant: the offset is adjusted once.)
ConstrainOnce(h, l, off, c, o) ==
    Constrained(h, l, off, Place(c, Constrain(o, 0, Count(l))))

\* constrain, until the offset stays.
ConstrainTo(h, l, off, c, o) ==
    LET Round(p, k) == Constrained(h, l, off, p) IN
    Repeated(Round, h, Place(c, Constrain(o, 0, Count(l))))

Visible(c, o) == ConstrainTo(height, list, ScrollOff, c, o)

\* vset and vmove.
Vset(n) == Constrain(n, 0, Count(list) - 1)
Cycled(dest) ==
    CASE Cycle /\ dest >= Count(list) /\ cy = Count(list) - 1 -> 0
      [] Cycle /\ dest < 0 /\ cy = 0 -> Count(list) - 1
      [] OTHER -> dest
Vmove(n) == Vset(Cycled(cy + (IF Upside THEN -n ELSE n)))

(***************************************************************************)
(* Actions that move the cursor                                            *)
(***************************************************************************)

\* Where they set the cursor (pos is bound as pos(-2)); those of Shown also make
\* it visible.
Target(a) ==
    CASE a = "up" -> Vmove(1)
      [] a = "down" -> Vmove(-1)
      [] a = "first" -> Vset(0)
      [] a = "last" -> Vset(Count(list) - 1)
      [] a = "pos" -> Vset(Count(list) - 2)
Shown == {"first", "last", "pos"}

\* The farthest offset that a page may reach: the last item that is visible now.
PageLimit(up) ==
    IF up
    THEN Min({i \in offset..(Count(list) - 1) : TotalLines(list, offset, i + 1) >= height}
             \cup {Max({offset, Count(list)})})
    ELSE IF offset >= Count(list) THEN offset
    ELSE Min({i \in 0..offset : TotalLines(list, i, offset + 1) <= height})

\* Item by item, until the cursor stays or the offset is beyond the limit.
PagedTo(a, p, up, limit) ==
    CASE a.stop -> a
      [] p.cy = a.at.cy -> [a EXCEPT !.at = p, !.stop = TRUE]
      [] a.moved /\ (IF up THEN p.offset > limit ELSE p.offset < limit) -> [a EXCEPT !.stop = TRUE]
      [] OTHER -> [at |-> p, moved |-> TRUE, stop |-> FALSE]
Paged(up, count) ==
    LET Page(a, k) ==
            PagedTo(a, Visible(Vset(a.at.cy + (IF up THEN 1 ELSE -1)), a.at.offset), up,
                    PageLimit(up))
    IN  Repeated(Page, count, [at |-> Place(cy, offset), moved |-> FALSE, stop |-> FALSE]).at

PageMovements == {"page-up", "page-down", "half-page-up", "half-page-down"}
PageMoved(a) ==
    Paged((a \in {"page-up", "half-page-up"}) # Upside,
          Max({1, IF a \in {"page-up", "page-down"} THEN height - 1 ELSE height \div 2}))

\* The window moves, and the cursor with it when it has to.
OffsetMoved(p, diff) ==
    IF p.offset = offset + diff THEN p
    ELSE Place(Constrain(p.cy + diff, 0, Count(list) - 1), offset + diff)

\* next-selected, prev-selected: the nearest selected item in a direction.
Ahead(i, down) == (IF down THEN cy - i + Count(list) ELSE cy + i) % Count(list)
SelectedAhead(down) ==
    {i \in 1..(Count(list) - 1) : Contains(selected, Get(list, Ahead(i, down)))}

\* The scrollbar: start and length, none when all lines are visible.
AvgOf(from, to) == IF to <= from THEN 1 ELSE TotalLines(list, from, to) \div (to - from)
AvgFrom(from) == AvgOf(from, Min({from + height, Count(list)}))
AvgLines == AvgFrom(Max({0, Min({offset, Count(list) - height - 1})}))
BarOf(total, avg, size) ==
    IF total * avg <= height THEN [start |-> 0, length |-> 0]
    ELSE [length |-> size,
          start |-> IF total = height THEN 0
                    ELSE Min({height - size,
                              ((height * avg - size) * offset) \div (total * avg - height)})]
\* The bar is dragged so that it starts at `start'.
Dragged(bar, start, avg) ==
    IF bar.length = 0 \/ start = bar.start THEN offset
    ELSE -((-(start * (Count(list) * avg - height))) \div (height * avg - bar.length))

(***************************************************************************)
(* Actions that select                                                     *)
(***************************************************************************)

\* The items of a sequence that are in T.
Kept(seq, T) ==
    LET Add(s, k) == IF seq[k] \in T THEN Append(s, seq[k]) ELSE s
    IN  Repeated(Add, Len(seq), <<>>)

Without(sel, items) == Kept(sel, ToSet(sel) \ items)

Toggles == {"toggle", "toggle-up", "toggle-down", "toggle-in", "toggle-out"}
Selections == Toggles \cup {"select", "deselect", "select-all", "deselect-all", "toggle-all",
                            "clear-selection"}

\* (Variant: one too many.)
SelectingPast(sel, items) ==
    LET Add(s, k) == IF Len(s) > Multi \/ Contains(s, items[k]) THEN s ELSE Append(s, items[k])
    IN  Repeated(Add, Len(items), sel)

\* selectItem, one after the other until --multi is reached.
Selecting(sel, items) ==
    LET Add(s, k) == IF Len(s) >= Multi \/ Contains(s, items[k]) THEN s ELSE Append(s, items[k])
    IN  Repeated(Add, Len(items), sel)
Toggling(item) ==
    IF Contains(selected, item) THEN Without(selected, {item})
    ELSE Selecting(selected, <<item>>)

\* First those that are selected are not any more, then the others are.
TogglingAll(items) ==
    Selecting(Without(selected, ToSet(items)), Without(items, ToSet(selected)))

Chosen(a) ==
    CASE a = "select" /\ Current # NoItem -> Selecting(selected, <<Current>>)
      [] a = "deselect" -> Without(selected, {Current})
      [] a \in Toggles /\ Current # NoItem -> Toggling(Current)
      [] a = "select-all" -> Selecting(selected, list.seq)
      [] a = "deselect-all" -> Without(selected, ToSet(list.seq))
      [] a = "toggle-all" -> TogglingAll(list.seq)
      [] a = "clear-selection" -> <<>>
      [] OTHER -> selected

(***************************************************************************)
(* The rows of the screen                                                  *)
(***************************************************************************)

Blank(kind, r) ==
    [kind |-> kind, first |-> r, lines |-> 0, cy |-> 0, current |-> FALSE,
     selected |-> FALSE, label |-> -1, item |-> NoItem]

\* A window nothing was drawn in.
NoRows == [r \in 0..(Max(Heights) - 1) |-> Blank("none", 0)]

\* What is drawn from a line on for the item at place c; label -1 is none.
ItemRow(item, lines, labelled, c, p, sel, line) ==
    [kind |-> "item", first |-> line, lines |-> lines, cy |-> c,
     current |-> IF labelled THEN (c - p.offset) % 2 = 0 ELSE c = p.cy,
     selected |-> Contains(sel, item),
     label |-> IF labelled THEN c - p.offset ELSE -1, item |-> item]
ItemLine(l, p, c, sel, jump, h, line) ==
    ItemRow(Get(l, c), NumLines(Get(l, c), h - line).lines,
            jump # "no" /\ c - p.offset < JumpLabels, c, p, sel, line)

\* (Variant: only the item and the cursor are compared.)
SameLookItem(old, new) ==
    /\ old.kind = "item" /\ old.first = new.first /\ old.lines = new.lines
    /\ old.item = new.item /\ old.current = new.current

\* Is what is on the screen the same, wherever the item is in the list?
SameLook(old, new) == [old EXCEPT !.cy = 0] = [new EXCEPT !.cy = 0]

\* printItem: its rows are drawn, and the gap below them.
DrawItem(s, new, last, end) ==
    [line |-> end + 1,
     rows |-> [r \in DOMAIN s.rows |-> CASE r \in (s.line)..last -> new
                                         [] r \in (last + 1)..end -> Blank("other", r)
                                         [] OTHER -> s.rows[r]]]
PrintNew(s, new, h, last) ==
    CASE s.line >= h -> s
      [] s.line < h /\ SameLook(s.rows[s.line], new) -> [s EXCEPT !.line = @ + new.lines]
      [] OTHER -> DrawItem(s, new, last, Min({h - 1, last + Gap}))
PrintItem(s, new, h) == PrintNew(s, new, h, s.line + new.lines - Gap - 1)

\* printList, after constrain.
Emptied(items, h) ==
    [r \in DOMAIN items.rows |->
        IF r \in (items.line)..(h - 1) THEN Blank("empty", r) ELSE items.rows[r]]
PrintList(l, p, sel, jump, h, before) ==
    LET Draw(s, k) == PrintItem(s, ItemLine(l, p, p.offset + k - 1, sel, jump, h, s.line), h)
    IN  Emptied(Repeated(Draw, Max({0, Count(l) - p.offset}), [line |-> 0, rows |-> before]), h)

(***************************************************************************)
(* The loop                                                                *)
(***************************************************************************)

NoOutput == <<"none">>
Panic == <<"panic">>

Init ==
    /\ input = [load |-> 0, from |-> 0, to |-> -1, trims |-> 0]
    /\ list = ListOf(input, {}, FALSE, TRUE, FALSE)
    /\ cy = 0 /\ offset = 0 /\ track = InitTrack /\ selected = <<>> /\ version = FALSE
    /\ jumping = "no" /\ rows = NoRows /\ height = Max(Heights)
    /\ requests = {} /\ undrawn = {} /\ focused = NoIndex /\ previewed = <<NoItem, <<>>>>
    /\ output = NoOutput /\ keys = 0 /\ lists = 0

Event == output = NoOutput /\ keys < MaxKeys /\ keys' = keys + 1 /\ UNCHANGED lists
Key == Event /\ requests \cap {"close", "print"} = {}

\* What the movements leave alone, and the rest of most of them.
MoveFrame ==
    UNCHANGED <<input, list, track, selected, version, jumping, rows, height, undrawn, focused,
                previewed>>
MoveTo(p) ==
    /\ cy' = p.cy /\ offset' = p.offset
    /\ requests' = requests \cup {"list"}
    /\ UNCHANGED output

\* doAction: the movements.
Move(a) ==
    /\ Key /\ jumping = "no"
    /\ \E c \in {Target(a)} : MoveTo(IF a \in Shown THEN Visible(c, offset) ELSE Place(c, offset))
    /\ MoveFrame

\* page-up looks at the item at offset.
Page(a) ==
    /\ Key /\ jumping = "no"
    /\ IF offset < 0 /\ Count(list) > 0 /\ (a \in {"page-up", "half-page-up"}) # Upside
       THEN output' = Panic /\ UNCHANGED <<cy, offset, requests>>
       ELSE \E p \in {PageMoved(a)} : MoveTo(p)
    /\ MoveFrame

MoveOffset(a) ==
    /\ Key /\ jumping = "no"
    /\ \E diff \in {IF (a = "offset-up") # Upside THEN 1 ELSE -1} :
       \E p \in {Visible(cy, offset + diff)} : MoveTo(OffsetMoved(p, diff))
    /\ MoveFrame

\* Go's % of a negative number is negative.
MoveToSelected(a) ==
    /\ Key /\ jumping = "no"
    /\ IF selected # <<>> /\ cy < -1 /\ Count(list) > 1
       THEN output' = Panic /\ UNCHANGED <<cy, offset, requests>>
       ELSE \E down \in {(a = "next-selected") # Upside} : \E ahead \in {SelectedAhead(down)} :
            IF ahead = {} THEN UNCHANGED <<cy, offset, requests, output>>
            ELSE MoveTo(Place(Ahead(Min(ahead), down), offset))
    /\ MoveFrame

\* offset-middle does not ask for the list to be drawn.
OffsetMiddle ==
    /\ Key /\ jumping = "no"
    /\ \E p \in {ConstrainTo(height, list, height, cy, offset)} :
       /\ cy' = p.cy /\ offset' = p.offset
       /\ undrawn' = undrawn \cup (IF p # Place(cy, offset) THEN {"screen"} ELSE {})
    /\ UNCHANGED <<input, list, track, selected, version, jumping, rows, height, requests,
                   focused, previewed, output>>

\* doAction: a selection; toggle-up and toggle-down then move the cursor.
Towards(a) ==
    CASE a \in {"toggle-up", IF Upside THEN "toggle-in" ELSE "toggle-out"} -> Vmove(1)
      [] a \in {"toggle-down", IF Upside THEN "toggle-out" ELSE "toggle-in"} -> Vmove(-1)
      [] OTHER -> cy
Select(a) ==
    /\ Key /\ jumping = "no" /\ Multi > 0
    /\ \E sel \in {Chosen(a)} :
       /\ selected' = sel
       /\ version' = (version \/ sel # selected)
       /\ cy' = IF sel = selected THEN cy ELSE Towards(a)
       /\ requests' = IF sel = selected /\ a \in Toggles \cup {"select", "deselect"}
                      THEN requests ELSE requests \cup {"list"}
    /\ UNCHANGED <<input, list, offset, track, jumping, rows, height, undrawn, focused, previewed,
                   output>>

\* doAction: tracking.
SetTrack(a) ==
    /\ Key /\ jumping = "no"
    /\ track' = CASE a = "toggle-track" /\ track # "current" ->
                         IF track = "on" THEN "off" ELSE "on"
                  [] a = "toggle-track-current" /\ track # "on" ->
                         IF track = "current" THEN "off" ELSE "current"
                  [] a = "track-current" /\ track = "off" -> "current"
                  [] a = "untrack-current" /\ track = "current" -> "off"
                  [] OTHER -> track
    /\ UNCHANGED <<input, list, cy, offset, selected, version, jumping, rows, height, undrawn,
                   requests, focused, previewed, output>>

\* accept, accept-or-print-query.
Accept(a) ==
    /\ Key /\ jumping = "no"
    /\ requests' = requests \cup
           {IF a = "accept" \/ selected # <<>> \/ Count(list) > 0 THEN "close" ELSE "print"}
    /\ UNCHANGED <<input, list, cy, offset, track, selected, version, jumping, rows, height, undrawn,
                   focused, previewed, output>>

\* jump, jump-accept: the next key is a label, or ends it.
StartJump(mode) ==
    /\ Key /\ jumping = "no"
    /\ jumping' = mode
    /\ requests' = requests \cup {"jump"}
    /\ UNCHANGED <<input, list, cy, offset, track, selected, version, rows, height, undrawn, focused,
                   previewed, output>>

EndJump ==
    /\ Key /\ jumping # "no"
    /\ jumping' = "no"
    /\ \/ \E label \in 0..(JumpLabels - 1) :
            /\ label < height /\ label < Count(list)
            /\ cy' = label + offset
            /\ requests' = requests \cup {"list"}
                   \cup (IF jumping = "accept" THEN {"close"} ELSE {})
       \/ requests' = requests \cup {"list"} /\ UNCHANGED cy
    /\ UNCHANGED <<input, list, offset, track, selected, version, rows, height, undrawn, focused,
                   previewed, output>>

\* A click on a row that is not empty, once or twice.
Click(r) ==
    /\ Key /\ jumping = "no" /\ r < height /\ rows[r].kind # "empty"
    /\ cy' = Vset(rows[r].cy)
    /\ requests' = requests \cup {"list"}
    /\ UNCHANGED <<input, list, offset, track, selected, version, jumping, rows, height, undrawn,
                   focused, previewed, output>>

\* Bound to accept.
DoubleClick(r) ==
    /\ Key /\ jumping = "no" /\ r < height /\ rows[r].kind # "empty"
    /\ cy' = Vset(rows[r].cy)
    /\ requests' = IF cy' = rows[r].cy /\ cy' < Count(list) THEN requests \cup {"close"}
                   ELSE requests
    /\ undrawn' = undrawn \cup (IF cy' # cy THEN {"screen", "preview"} ELSE {})
    /\ UNCHANGED <<input, list, offset, track, selected, version, jumping, rows, height,
                   focused, previewed, output>>

\* The scrollbar is dragged to a row.
Drag(r) ==
    /\ Key /\ jumping = "no" /\ r < height /\ Count(list) > 0
    /\ \E avg \in {AvgLines} :
       \E bar \in {BarOf(Count(list), avg,
                         Max({1, (height * height) \div (Count(list) * avg)}))} :
       \E o \in {Dragged(bar, Constrain(r - bar.length \div 2, 0, height - bar.length), avg)} :
           IF o = offset THEN UNCHANGED <<cy, offset, requests, output>>
           ELSE MoveTo(Place(o + cy - offset, o))
    /\ MoveFrame

\* SIGWINCH.
Resize ==
    /\ Event
    /\ requests' = requests \cup {"resize"}
    /\ UNCHANGED <<input, list, cy, offset, track, selected, version, jumping, rows, height, undrawn,
                   focused, previewed, output>>

(***************************************************************************)
(* The coordinator                                                         *)
(***************************************************************************)

\* More items, with --tail fewer of the old ones, or a new load.
Arrives(in) ==
    LET to == {n \in (in.to)..MaxIndex : n <= in.to + 2} IN
    {IF n - in.from + 1 > MaxInput
     THEN [in EXCEPT !.to = n, !.from = n - MaxInput + 1, !.trims = @ + 1]
     ELSE [in EXCEPT !.to = n] : n \in to}
    \cup {[load |-> in.load + 1, from |-> 0, to |-> n, trims |-> 0] :
              n \in IF in.load < MaxLoads THEN {MaxIndex - 1} ELSE {}}

\* (Variant: the first item goes, too.)
FilteredAfter(new) == Kept(selected, {s \in ToSet(selected) : Index(s) > new.min})

\* The selection is filtered by index when items were dropped (minIndex).
Filtered(new) ==
    Kept(selected, {s \in ToSet(selected) :
                        Count(new) = 0 \/ Index(s) \in new.min..(new.min + Count(new) - 1)})

\* The item that the cursor should stay on.
Anchor(new) ==
    CASE list.load # new.load \/ track = "off" -> NoIndex
      [] Count(list) > 0 -> Index(Current)
      [] Count(list) = 0 /\ Count(new) > 0 -> Index(First(new))
      [] OTHER -> NoIndex

\* (Variant: the window moves, the cursor does not.)
FollowWindow(new, pos, i) == Place(cy, i - pos)

\* The cursor and the window move to it.
Follow(new, pos, i) == Place(i, i - pos)

Placed(new, pos, i, lost) ==
    CASE i >= 0 -> Follow(new, pos, i)
      [] lost /\ track = "current" -> Place(pos, 0)
      [] lost /\ track = "on" /\ cy > Count(new) ->
             Place(Count(new) - Min({Count(new), height}) + pos, offset)
      [] OTHER -> Place(cy, offset)

UpdateList ==
    /\ output = NoOutput /\ lists < MaxLists /\ lists' = lists + 1 /\ UNCHANGED keys
    /\ \E in \in Arrives(input) : \E new \in ListsOf(in) :
       \E anchor \in {Anchor(new)} :
       \E i \in {IF anchor = NoIndex THEN -1 ELSE FindIndex(new, anchor)} :
       \E p \in {Placed(new, cy - offset, i, anchor # NoIndex /\ i < 0)} :
           /\ input' = in /\ list' = new
           /\ cy' = p.cy /\ offset' = p.offset
           /\ track' = IF anchor # NoIndex /\ i < 0 /\ track = "current" THEN "off" ELSE track
           /\ selected' = CASE list.load # new.load -> <<>>
                            [] list.load = new.load /\ list.trims # new.trims -> Filtered(new)
                            [] OTHER -> selected
           /\ version' = (version \/ <<list.load, list.trims>> # <<new.load, new.trims>>)
    /\ requests' = requests \cup {"list"}
    /\ UNCHANGED <<jumping, rows, height, undrawn, focused, previewed, output>>

(***************************************************************************)
(* The render loop                                                         *)
(***************************************************************************)

\* (Variant: the preview is refreshed when the focus changes.)
RefreshFocus(index) == index # focused

\* Is the preview outdated?
Refresh(index) == index # focused \/ version

\* reqList: the list is drawn, tracking ends when the focus has changed.
DrawList(item) ==
    /\ track' = IF Index(item) # focused /\ track = "current" THEN "off" ELSE track
    /\ IF Refresh(Index(item))
       THEN focused' = Index(item) /\ version' = FALSE /\ previewed' = <<item, selected>>
       ELSE UNCHANGED <<focused, version, previewed>>

\* reqClose, reqPrintQuery: what is printed.
Printed(item) ==
    CASE "print" \in requests -> <<"query">>
      [] requests \cap {"close", "print"} = {} -> NoOutput
      [] OTHER -> IF selected # <<>> THEN selected
                  ELSE IF item = NoItem THEN <<>> ELSE <<item>>

\* The list is drawn with p, then the window gets its new height.
DrawAll(p, jump, before, h) ==
    \E q \in {IF h = height THEN p ELSE ConstrainTo(h, list, ScrollOff, p.cy, p.offset)} :
        /\ cy' = q.cy /\ offset' = q.offset
        /\ rows' = PrintList(list, q, selected, jump, h, before)
        /\ output' = Printed(ItemAt(list, q.cy))

\* Requests are done in the order of their numbers: list, jump, resize, close.
Render ==
    /\ requests # {} /\ output = NoOutput
    /\ height' \in IF "resize" \in requests THEN Heights ELSE {height}
    /\ jumping' = IF "jump" \in requests /\ Count(list) = 0 THEN "no" ELSE jumping
    /\ IF requests \cap {"list", "jump", "resize"} = {}
       THEN /\ UNCHANGED <<cy, offset, rows, undrawn, track, version, focused, previewed>>
            /\ output' = Printed(Current)
       ELSE \E p \in {Visible(cy, offset)} :
            /\ DrawAll(p, jumping', IF "resize" \in requests THEN NoRows ELSE rows, height')
            /\ IF "list" \in requests THEN DrawList(ItemAt(list, p.cy))
               ELSE UNCHANGED <<track, version, focused, previewed>>
            /\ undrawn' = undrawn \ ({"screen"} \cup (IF "list" \in requests THEN {"preview"} ELSE {}))
    /\ requests' = {}
    /\ UNCHANGED <<input, list, selected, keys, lists>>

Next ==
    \/ \E a \in Acts \cap {"up", "down", "first", "last", "pos"} : Move(a)
    \/ \E a \in Acts \cap PageMovements : Page(a)
    \/ \E a \in Acts \cap {"offset-up", "offset-down"} : MoveOffset(a)
    \/ \E a \in Acts \cap {"next-selected", "prev-selected"} : MoveToSelected(a)
    \/ \E a \in Acts \cap Selections : Select(a)
    \/ \E a \in Acts \cap {"toggle-track", "toggle-track-current", "track-current",
                           "untrack-current"} : SetTrack(a)
    \/ \E a \in Acts \cap {"accept", "accept-or-print-query"} : Accept(a)
    \/ "offset-middle" \in Acts /\ OffsetMiddle
    \/ "jump" \in Acts /\ StartJump("yes")
    \/ "jump-accept" \in Acts /\ StartJump("accept")
    \/ EndJump
    \/ "click" \in Acts /\ \E r \in DOMAIN rows : Click(r) \/ DoubleClick(r) \/ Drag(r)
    \/ Resize \/ UpdateList \/ Render

Spec == Init /\ [][Next]_vars

(***************************************************************************)
(* Properties                                                              *)
(***************************************************************************)

\* The selection is made of items of the current load, at most --multi, none
\* twice; the cursor is never further below the list than vset puts it.
TypeOK ==
    /\ IsInjective(selected) /\ Len(selected) <= Multi
    /\ \A i \in DOMAIN selected : selected[i][1] = list.load
    /\ track \in {"off", "on", "current"} /\ jumping \in {"no", "yes", "accept"}
    /\ DOMAIN rows = DOMAIN NoRows
    /\ requests \subseteq {"list", "jump", "resize", "close", "print"}

\* The render loop has nothing to do, and the cursor did not move without it.
Drawn == requests = {} /\ "screen" \notin undrawn /\ rows # NoRows /\ output = NoOutput

\* The rows that are not drawn again because they look the same
\* (terminal.go:2647-2666) do show what they should: the screen is as if it had
\* been drawn on an empty window.
ScreenExact ==
    Drawn =>
        LET fresh == PrintList(list, Place(cy, offset), selected, jumping, height, NoRows)
        IN  \A r \in 0..(height - 1) : SameLook(rows[r], fresh[r])

\* After all the adjustments (terminal.go:5790-5890) the current item is
\* visible, with all its lines when the window is high enough, and no rows are
\* wasted that the item above would fit in.
CursorShown ==
    Drawn /\ Count(list) > 0 =>
        /\ Current # NoItem
        /\ Cardinality({r \in 0..(height - 1) : rows[r].item = Current})
               >= Min({Lines(Index(Current)), height})
        /\ offset > 0 =>
               Cardinality({r \in 0..(height - 1) : rows[r].kind = "empty"})
                   < Lines(Index(Get(list, offset - 1))) + Gap

\* With --track the cursor stays on its item as long as it is in the list,
\* wherever it has moved to (terminal.go:1414-1469, 4403-4425), and drawing the
\* list never moves the cursor to another item.
TrackKeeps ==
    [][/\ list' # list /\ list'.load = list.load /\ track # "off" /\ Current # NoItem
          /\ Contains(list'.seq, Current) => ItemAt(list', cy') = Current
       /\ requests' = {} /\ requests # {} /\ Current # NoItem => ItemAt(list', cy') = Current]_vars

\* The preview is not left on another item or for another selection
\* (terminal.go:4422-4426): every change asks for the list to be drawn and is
\* seen by the focus or the version.  Not so a double click on a row that moved
\* the cursor elsewhere (terminal.go:5555).
PreviewFresh ==
    Drawn /\ "preview" \notin undrawn => previewed = <<Current, selected>>

\* When --tail drops items from a list that is not searched, the selection
\* loses those and no other (terminal.go:1429-1446).
TailExact ==
    [][list'.load = list.load /\ list'.trims # list.trims /\ list'.all =>
          selected' = Kept(selected, ToSet(list'.seq))]_vars

\* Merger.Get has an "Index out of bounds" panic (merger.go:137, 168), so the
\* loop should never ask for an item outside of the list.
NoPanic == output # Panic

\* A click goes to the item on the row ("Mouse: scroll, click, double-click",
\* README.md:307).
ClickExact ==
    Drawn => \A r \in 0..(height - 1) :
        rows[r].kind = "item" => ItemAt(list, rows[r].cy) = rows[r].item

=============================================================================
