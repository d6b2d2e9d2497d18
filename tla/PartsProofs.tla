---------------------------- MODULE PartsProofs ----------------------------
(*****************************************************************************)
(* What four parts of fzf guarantee, each by itself and whatever its         *)
(* parameters: the event box never loses a wakeup and implements Mailbox; the*)
(* windows of the terminal fit in it and cover no other; the merge of sorted *)
(* slices answers as one sorted list would; and once --nth has changed, the  *)
(* caches of a search hold nothing of other fields unless a search or a      *)
(* reload overlapped the change.                                             *)
(*****************************************************************************)
EXTENDS EventBox, Layout, Rank, Scan,
        SequenceTheorems, FiniteSetTheorems, WellFoundedInduction, TLAPS

(*****************************************************************************)
(* EventBox.  Everything rests on the invariant Inv, whose last conjunct says*)
(* why a callback never sees an empty map: only Set wakes the consumer, and  *)
(* only the consumer empties the map.                                        *)
(*****************************************************************************)

WokenHasEvent == waiter = "woken" => Pending # {}

Inv == TypeOK /\ NoLostWakeup /\ WokenHasEvent

\* Both halves of the wakeup invariant and the types hold initially.
LEMMA InitInv == Init => Inv
  BY ValueAssumption DEF Init, Inv, TypeOK, NoLostWakeup, WokenHasEvent, NoEvents

\* After Set(e, v) exactly e has been added to the pending events.
LEMMA SetPending ==
  ASSUME TypeOK, NEW e \in Events, NEW v \in Values, Set(e, v)
  PROVE  /\ Pending' = Pending \cup {e}
         /\ events' \in [Events -> Values \cup {Absent}]
  BY ValueAssumption DEF TypeOK, Set, Pending

\* No step of the box breaks the wakeup invariant.
LEMMA StepInv == Inv /\ [Next]_vars => Inv'
<1> SUFFICES ASSUME Inv, [Next]_vars PROVE Inv'
  OBVIOUS
<1> USE DEF Inv, TypeOK, NoLostWakeup, WokenHasEvent
<1>1. CASE \E e \in Events, v \in Values : Set(e, v)
  <2> PICK e \in Events, v \in Values : Set(e, v)
    BY <1>1
  <2>1. /\ Pending' = Pending \cup {e}
        /\ events' \in [Events -> Values \cup {Absent}]
    BY SetPending
  <2>2. TypeOK'
    BY <2>1 DEF Set
  <2>3. NoLostWakeup'
    BY <2>1 DEF Set
  <2>4. WokenHasEvent'
    BY <2>1 DEF Set
  <2> QED
    BY <2>2, <2>3, <2>4
<1>2. CASE \E e \in Events : Watch(e) \/ Unwatch(e)
  BY <1>2 DEF Watch, Unwatch, Pending
<1>3. CASE \E e \in Events : CallWaitFor(e)
  BY <1>3 DEF CallWaitFor, Pending
<1>4. CASE Park
  BY <1>4 DEF Park, Pending
<1>5. CASE Consume
  BY <1>5 DEF Consume, NoEvents
<1>6. CASE Look
  BY <1>6 DEF Look, Pending
<1>7. CASE UNCHANGED vars
  BY <1>7 DEF vars, Pending
<1> QED
  BY <1>1, <1>2, <1>3, <1>4, <1>5, <1>6, <1>7 DEF Next, Consumer

\* Type correctness of EventBox (eventbox.go:12-16), for any events.
THEOREM TypeCorrect == Spec => []TypeOK
<1>1. Inv => TypeOK
  BY DEF Inv
<1> QED
  BY InitInv, StepInv, <1>1, PTL DEF Spec

\* A parked consumer has nothing but ignored events to miss: testing the map
\* once before cond.Wait (eventbox.go:30-32) is enough because Set broadcasts
\* under the same mutex.
THEOREM WakeupSafety == Spec => []NoLostWakeup
<1>1. Inv => NoLostWakeup
  BY DEF Inv
<1> QED
  BY InitInv, StepInv, <1>1, PTL DEF Spec

\* Every step of the box is a Put, a Take or invisible to a Mailbox.
LEMMA StepRefines == Inv /\ [Next]_vars => [MB!Next]_(MB!vars)
<1> SUFFICES ASSUME Inv, [Next]_vars PROVE [MB!Next]_(MB!vars)
  OBVIOUS
<1> USE DEF MB!Next, MB!vars
<1>1. CASE \E e \in Events, v \in Values : Set(e, v)
  BY <1>1 DEF Set, MB!Put
<1>2. CASE \E e \in Events : Watch(e) \/ Unwatch(e) \/ CallWaitFor(e)
  BY <1>2 DEF Watch, Unwatch, CallWaitFor
<1>3. CASE Park
  BY <1>3 DEF Park
<1>4. CASE Consume
  <2>1. Pending # {}
    BY <1>4 DEF Consume, CanCallBack, Inv, WokenHasEvent
  <2>2. MB!Present(events) # {}
    BY <2>1 DEF Pending, MB!Present
  <2> QED
    BY <1>4, <2>2 DEF Consume, NoEvents, MB!Take, MB!Empty
<1>5. CASE Look
  BY <1>5 DEF Look
<1>6. CASE UNCHANGED vars
  BY <1>6 DEF vars
<1> QED
  BY <1>1, <1>2, <1>3, <1>4, <1>5, <1>6 DEF Next, Consumer

\* util.EventBox implements a mailbox with one slot per event: parking,
\* waking, ignoring and looking never lose or invent what producers set.
THEOREM ImplementsMailbox == Spec => MailboxSpec
<1>1. Init => MB!Init
  BY DEF Init, NoEvents, MB!Init, MB!Empty
<1> QED
  BY <1>1, InitInv, StepInv, StepRefines, PTL DEF Spec, MailboxSpec, MB!Spec

(*****************************************************************************)
(* Layout.  The four panes a screen can have (the list alone, or a preview   *)
(* above, below or beside it) are reduced to one statement about a pane of   *)
(* the list; the windows of a pane are stacked, so that they neither overlap *)
(* nor leave it, whatever the heights of the header, the input and the       *)
(* borders.                                                                  *)
(*****************************************************************************)

\* The cardinality that borderLines and borderColumns count side by side.
LEMMA TwoSides ==
  ASSUME NEW b, NEW x, NEW y, x # y
  PROVE  Cardinality(b \cap {x, y}) = One(x \in b) + One(y \in b)
<1>1. CASE x \in b /\ y \in b
  <2>1. b \cap {x, y} = {x} \cup {y}
    BY <1>1
  <2>2. IsFiniteSet({x}) /\ Cardinality({x}) = 1
    BY FS_Singleton
  <2>3. Cardinality({x} \cup {y}) = 2
    BY <2>2, FS_AddElement
  <2> QED
    BY <1>1, <2>1, <2>3 DEF One
<1>2. CASE x \in b /\ y \notin b
  <2>1. b \cap {x, y} = {x}
    BY <1>2
  <2> QED
    BY <1>2, <2>1, FS_Singleton DEF One
<1>3. CASE x \notin b /\ y \in b
  <2>1. b \cap {x, y} = {y}
    BY <1>3
  <2> QED
    BY <1>3, <2>1, FS_Singleton DEF One
<1>4. CASE x \notin b /\ y \notin b
  <2>1. b \cap {x, y} = {}
    BY <1>4
  <2> QED
    BY <1>4, <2>1, FS_EmptySet DEF One
<1> QED
  BY <1>1, <1>2, <1>3, <1>4

\* borderLines: a line for each of two sides.
LEMMA BorderLinesAre ==
  ASSUME NEW b
  PROVE  BorderLines(b) = One("top" \in b) + One("bottom" \in b)
  BY TwoSides DEF BorderLines

\* borderColumns: 1 + bw columns for each of two sides.
LEMMA BorderColumnsAre ==
  ASSUME NEW b, NEW bw \in Nat
  PROVE  BorderColumns(b, bw) \in Nat
<1>1. Cardinality(b \cap {"left", "right"}) = One("left" \in b) + One("right" \in b)
  BY TwoSides
<1>2. Cardinality(b \cap {"left", "right"}) \in 0..2
  BY <1>1 DEF One
<1> QED
  BY <1>2 DEF BorderColumns

\* What the size of the preview is at least and at most (calculateSize).
LEMMA SizeBounds ==
  ASSUME NEW base \in Int, NEW p, IsOptions(p), NEW occupied \in Int, NEW min \in Int
  PROVE  /\ CalculateSize(base, p, occupied, min) \in Int
         /\ min <= CalculateSize(base, p, occupied, min)
         /\ CalculateSize(base, p, occupied, min) <= Max2(base - occupied, min)
<1>1. (base * p.size) \div 100 \in Int /\ p.size + min - 1 \in Int
  BY DEF IsOptions
<1>2. \A n \in Int, low, high \in Int : low <= high =>
          Constrain(n, low, high) \in Int /\ low <= Constrain(n, low, high) /\ Constrain(n, low, high) <= high
  BY DEF Constrain
<1>3. Max2(base - occupied, min) \in Int /\ min <= Max2(base - occupied, min)
  BY DEF Max2
<1> QED
  BY <1>1, <1>2, <1>3 DEF CalculateSize

\* The greatest of nothing and of one number.
LEMMA MaxOfOne ==
  /\ Max({0} \cup {}) = 0
  /\ \A n \in Nat : Max({0} \cup {n}) = n
<1>1. Max({0} \cup {}) = 0
  BY DEF Max
<1>2. ASSUME NEW n \in Nat PROVE Max({0} \cup {n}) = n
  BY DEF Max
<1> QED
  BY <1>1, <1>2

\* The preview takes at least a column and a line.
LEMMA MinPreview ==
  ASSUME NEW k, IsConfiguration(k), NEW p, IsOptions(p)
  PROVE  /\ MinPreviewWidth(k, p) \in Nat \ {0}
         /\ MinPreviewHeight(p) \in Nat \ {0}
<1>1. BorderColumns(p.border, k.bw) \in Nat
  BY BorderColumnsAre DEF IsConfiguration
<1>2. BorderLines(p.border) \in Nat
  BY BorderLinesAre DEF One
<1> QED
  BY <1>1, <1>2 DEF MinPreviewWidth, MinPreviewHeight, One

\* A set of options that is empty or has one element.
Some(P) == P = {} \/ \E p : P = {p} /\ IsOptions(p)

LEMMA WidestOfSome ==
  ASSUME NEW k, IsConfiguration(k), NEW P, Some(P)
  PROVE  /\ Widest(k, P) \in Nat /\ Highest(P) \in Nat
         /\ \A p \in P : Widest(k, P) = MinPreviewWidth(k, p)
<1>1. CASE P = {}
  <2>1. {MinPreviewWidth(k, p) : p \in P} = {} /\ {MinPreviewHeight(p) : p \in P} = {}
    BY <1>1
  <2> QED
    BY <1>1, <2>1, MaxOfOne DEF Widest, Highest
<1>2. ASSUME NEW p, P = {p}, IsOptions(p)
      PROVE  /\ Widest(k, P) = MinPreviewWidth(k, p) /\ MinPreviewWidth(k, p) \in Nat
             /\ Highest(P) \in Nat
  <2>1. {MinPreviewWidth(k, q) : q \in P} = {MinPreviewWidth(k, p)}
    BY <1>2
  <2>2. {MinPreviewHeight(q) : q \in P} = {MinPreviewHeight(p)}
    BY <1>2
  <2>3. MinPreviewWidth(k, p) \in Nat /\ MinPreviewHeight(p) \in Nat
    BY <1>2, MinPreview
  <2> QED
    BY <2>1, <2>2, <2>3, MaxOfOne DEF Widest, Highest
<1> QED
  BY <1>1, <1>2 DEF Some

\* Of the options of the preview, or of none, at most one is used.
LEMMA PreviewedSome ==
  ASSUME NEW k, IsConfiguration(k), NEW positions
  PROVE  Some(Previewed(k, positions))
  BY DEF Previewed, IsConfiguration, ArePreviewOptions, AtMostOne, Some

LEMMA ActiveSome ==
  ASSUME NEW k, IsConfiguration(k), NEW area
  PROVE  Some(Active(k, k.preview, area))
<1>1. ArePreviewOptions(k.preview)
  BY DEF IsConfiguration
<1>2. CASE k.preview = {}
  BY <1>2 DEF Active, Sized, Some
<1>3. CASE k.preview # {}
  <2> PICK p \in k.preview : TRUE
    BY <1>3
  <2>1. k.preview = {p} /\ IsOptions(p) /\ AtMostOne(p.alternative)
        /\ \A q \in p.alternative : IsOptions(q)
    BY <1>1 DEF ArePreviewOptions, AtMostOne
  <2>2. Sized(k.preview) = {} \/ Sized(k.preview) = {p}
    BY <2>1 DEF Sized
  <2>3. CASE Sized(k.preview) = {}
    BY <2>3 DEF Active, Sized, Some
  <2>4. CASE Sized(k.preview) = {p}
    <3> DEFINE chosen == IF TooSmall(k, p, area) THEN p.alternative ELSE {p}
    <3>1. Active(k, k.preview, area) = Sized(chosen)
      BY <2>4 DEF Active
    <3>2. AtMostOne(chosen) /\ \A q \in chosen : IsOptions(q)
      BY <2>1 DEF AtMostOne
    <3> HIDE DEF chosen
    <3>3. Some(Sized(chosen))
      BY <3>2 DEF Sized, AtMostOne, Some
    <3> QED
      BY <3>1, <3>3
  <2> QED
    BY <2>2, <2>3, <2>4
<1> QED
  BY <1>2, <1>3

LEMMA ShownSome ==
  ASSUME NEW k, IsConfiguration(k), NEW positions
  PROVE  Some(Shown(k, positions))
  BY ActiveSome DEF Shown, Some

(***************************************************************************)
(* The area                                                                *)
(***************************************************************************)

\* A margin that has shrunk is no less than its border, and no padding is negative.
LEMMA AdjustedBounds ==
  ASSUME NEW k, NEW i, NEW j, NEW max \in Nat, NEW min \in Int,
         ExtraMargin(k, i) \in Nat, Margin(k, i) \in Nat, Margin(k, j) \in Nat,
         Margin(k, i) >= ExtraMargin(k, i), k.padding[i] \in Nat, k.padding[j] \in Nat
  PROVE  /\ Adjusted(k, i, j, max, min).margin \in Nat
         /\ Adjusted(k, i, j, max, min).margin >= ExtraMargin(k, i)
         /\ Adjusted(k, i, j, max, min).padding \in Nat
<1> DEFINE both == Both(k, i, j)
           room == max - Min2(min, max)
<1>1. both \in Nat
  BY DEF Both
<1>2. room \in Nat
  BY DEF Min2
<1>3. CASE ~Shrinks(k, i, j, max, min)
  BY <1>3 DEF Adjusted
<1>4. CASE Shrinks(k, i, j, max, min)
  <2>1. both \in Nat \ {0}
    BY <1>1, <1>4 DEF Shrinks, Min2
  <2>2. \A n \in Nat : Desired(n, max, min, both) \in Nat
    <3> SUFFICES ASSUME NEW n \in Nat PROVE Desired(n, max, min, both) \in Nat
      OBVIOUS
    <3> HIDE DEF both, room
    <3>1. room * n \in Nat
      BY <1>2
    <3>2. (room * n) \div both \in Nat
      BY <3>1, <2>1
    <3> QED
      BY <3>2 DEF Desired, room
  <2>3. /\ Adjusted(k, i, j, max, min).margin = Max2(ExtraMargin(k, i), Desired(Margin(k, i), max, min, both))
        /\ Adjusted(k, i, j, max, min).padding = Desired(k.padding[i], max, min, both)
    BY <1>4 DEF Adjusted
  <2> QED
    BY <2>2, <2>3 DEF Max2
<1> QED
  BY <1>3, <1>4

\* The windows stay on the screen: there is room for the border on each side.
LEMMA Insets ==
  ASSUME NEW k, IsConfiguration(k)
  PROVE  /\ Inset(k, 1) \in Nat /\ Inset(k, 2) \in Nat /\ Inset(k, 3) \in Nat /\ Inset(k, 4) \in Nat
         /\ "right" \in k.border => Inset(k, 2) >= 1
<1>1. \A i \in 1..4 : /\ ExtraMargin(k, i) \in Nat /\ Margin(k, i) \in Nat
                      /\ Margin(k, i) >= ExtraMargin(k, i) /\ k.padding[i] \in Nat
  BY DEF ExtraMargin, Margin, IsConfiguration
<1>2. Some(Previewed(k, {"left", "right"})) /\ Some(Previewed(k, {"up", "down"}))
  BY PreviewedSome
<1>3. MinAreaWidth(k) \in Int
  BY <1>2, WidestOfSome DEF MinAreaWidth, MinWidth, Max2
<1>4. MinAreaHeight(k) \in Int
  BY <1>2, WidestOfSome DEF MinAreaHeight, MinHeight, Max2, One
<1>5. \A i \in 1..4 : Adjust(k, i).margin \in Nat /\ Adjust(k, i).padding \in Nat
                      /\ Adjust(k, i).margin >= ExtraMargin(k, i)
  <2> SUFFICES ASSUME NEW i \in 1..4
               PROVE  Adjust(k, i).margin \in Nat /\ Adjust(k, i).padding \in Nat
                      /\ Adjust(k, i).margin >= ExtraMargin(k, i)
    OBVIOUS
  <2>1. CASE i % 2 = 1
    <3>1. 4 - i \in 1..4
      BY <2>1
    <3>2. Adjust(k, i) = Adjusted(k, i, 4 - i, k.height, MinAreaHeight(k))
      BY <2>1 DEF Adjust
    <3> QED
      BY <1>1, <1>4, <3>1, <3>2, AdjustedBounds DEF IsConfiguration
  <2>2. CASE i % 2 # 1
    <3>1. 6 - i \in 1..4
      BY <2>2
    <3>2. Adjust(k, i) = Adjusted(k, i, 6 - i, k.width, MinAreaWidth(k))
      BY <2>2 DEF Adjust
    <3> QED
      BY <1>1, <1>3, <3>1, <3>2, AdjustedBounds DEF IsConfiguration
  <2> QED
    BY <2>1, <2>2
<1>6. "right" \in k.border => ExtraMargin(k, 2) >= 1
  BY DEF ExtraMargin, Side, IsConfiguration
<1>7. \A i \in 1..4 : Inset(k, i) \in Nat /\ Inset(k, i) >= ExtraMargin(k, i)
  BY <1>1, <1>5 DEF Inset
<1>8. ExtraMargin(k, 2) \in Nat
  BY <1>1
<1> QED
  BY <1>6, <1>7, <1>8

(***************************************************************************)
(* The heights                                                             *)
(***************************************************************************)

\* The lines that the windows ask for.
WantedInput(k) == IF HasInputWindow(k) THEN BorderLines(k.inputBorder) + 1 + One(k.separator) ELSE 0
WantedHeader(k) ==
    IF HasHeaderWindow(k)
    THEN BorderLines(k.headerBorder) + k.header + (IF HasLinesWindow(k) THEN 0 ELSE k.headerLines) ELSE 0
WantedLines(k) == IF HasLinesWindow(k) THEN BorderLines(k.linesBorder) + k.headerLines ELSE 0
Wanted(k) == WantedInput(k) + WantedHeader(k) + WantedLines(k)

LEMMA WantedTyped ==
  ASSUME NEW k, IsConfiguration(k)
  PROVE  WantedInput(k) \in Nat /\ WantedHeader(k) \in Nat /\ WantedLines(k) \in Nat
<1>1. \A b : BorderLines(b) \in Nat
  BY BorderLinesAre DEF One
<1> QED
  BY <1>1 DEF WantedInput, WantedHeader, WantedLines, One, IsConfiguration

\* They get what they ask for when there is room; else they take every line.
LEMMA HeightsAre ==
  ASSUME NEW k, IsConfiguration(k), NEW height \in Int,
         NEW h, h = Heights(k, height)
  PROVE  /\ h.input \in Int /\ h.header \in Int /\ h.lines \in Int /\ Total(h) \in Int
         /\ ~HasInputWindow(k) => h.input = 0 /\ h.header = 0 /\ h.lines = 0
         /\ ~HasHeaderWindow(k) => h.header = 0
         /\ ~HasLinesWindow(k) => h.lines = 0
         /\ height >= 0 => h.input >= 0 /\ h.header >= 0 /\ h.lines >= 0 /\ Total(h) <= height
         /\ height < 0 => h.input <= 0 /\ h.header <= 0 /\ h.lines <= 0 /\ Total(h) >= height
         /\ Wanted(k) <= height => /\ h.input = WantedInput(k) /\ h.header = WantedHeader(k)
                                   /\ h.lines = WantedLines(k)
         /\ Wanted(k) > height /\ height >= 0 => Total(h) = height
<1> DEFINE input == InputHeight(k, height)
           header == HeaderHeight(k, height - input)
           lines == LinesHeight(k, height - input - header)
           Fits(n, room) == IF n <= room THEN n ELSE room
<1>1. h = [input |-> input, header |-> header, lines |-> lines]
  BY DEF Heights
<1>2. HasHeaderWindow(k) \/ HasLinesWindow(k) => HasInputWindow(k)
  BY DEF HasInputWindow
<1>3. input = IF HasInputWindow(k) THEN Fits(WantedInput(k), height) ELSE 0
  BY WantedTyped DEF InputHeight, WantedInput, Min2
<1>4. input \in Int
  BY <1>3, WantedTyped
<1>5. header = IF HasHeaderWindow(k) THEN Fits(WantedHeader(k), height - input) ELSE 0
  <2> HIDE DEF input
  <2> QED
    BY <1>4, WantedTyped DEF HeaderHeight, WantedHeader, Min2
<1>6. header \in Int
  <2> HIDE DEF input
  <2> QED
    BY <1>4, <1>5, WantedTyped
<1>7. lines = IF HasLinesWindow(k) THEN Fits(WantedLines(k), height - input - header) ELSE 0
  <2> HIDE DEF input, header
  <2> QED
    BY <1>4, <1>6, WantedTyped DEF LinesHeight, WantedLines, Min2
<1>8. /\ ~HasInputWindow(k) => WantedInput(k) = 0
      /\ ~HasHeaderWindow(k) => WantedHeader(k) = 0
      /\ ~HasLinesWindow(k) => WantedLines(k) = 0
  BY DEF WantedInput, WantedHeader, WantedLines
<1>9. h.input = input /\ h.header = header /\ h.lines = lines
  BY <1>1
<1> HIDE DEF input, header, lines
<1>10. lines \in Int
  BY <1>4, <1>6, <1>7, WantedTyped
<1>11. Total(h) = input + header + lines /\ Total(h) \in Int
  BY <1>4, <1>6, <1>9, <1>10 DEF Total
<1>12. Wanted(k) = WantedInput(k) + WantedHeader(k) + WantedLines(k)
  BY DEF Wanted
<1>13. /\ ~HasInputWindow(k) => input = 0 /\ header = 0 /\ lines = 0
       /\ ~HasHeaderWindow(k) => header = 0
       /\ ~HasLinesWindow(k) => lines = 0
  BY <1>2, <1>3, <1>5, <1>7
<1>14. height >= 0 => /\ 0 <= input /\ input <= height
                      /\ 0 <= header /\ input + header <= height
                      /\ 0 <= lines /\ input + header + lines <= height
  BY <1>3, <1>4, <1>5, <1>6, <1>7, <1>10, WantedTyped
<1>15. height < 0 => /\ input <= 0 /\ header <= 0 /\ lines <= 0 /\ input + header + lines >= height
  BY <1>3, <1>4, <1>5, <1>6, <1>7, <1>10, WantedTyped
<1>16. Wanted(k) <= height =>
           input = WantedInput(k) /\ header = WantedHeader(k) /\ lines = WantedLines(k)
  <2> SUFFICES ASSUME Wanted(k) <= height
               PROVE  input = WantedInput(k) /\ header = WantedHeader(k) /\ lines = WantedLines(k)
    OBVIOUS
  <2>1. input = WantedInput(k)
    BY <1>3, <1>8, <1>12, WantedTyped
  <2>2. header = WantedHeader(k)
    BY <2>1, <1>5, <1>8, <1>12, WantedTyped
  <2> QED
    BY <2>1, <2>2, <1>7, <1>8, <1>12, WantedTyped
<1>17. Wanted(k) > height /\ height >= 0 => input + header + lines = height
  <2> SUFFICES ASSUME Wanted(k) > height, height >= 0, input + header + lines < height
               PROVE  FALSE
    BY <1>14, <1>4, <1>6, <1>10
  <2>1. input = WantedInput(k)
    BY <1>3, <1>4, <1>6, <1>8, <1>10, <1>14, WantedTyped
  <2>2. header = WantedHeader(k)
    BY <1>4, <1>5, <1>6, <1>8, <1>10, <1>14, WantedTyped
  <2>3. lines = WantedLines(k)
    BY <1>4, <1>6, <1>7, <1>8, <1>10, <1>14, WantedTyped
  <2> QED
    BY <2>1, <2>2, <2>3, <1>12, WantedTyped
<1> QED
  BY <1>4, <1>6, <1>9, <1>10, <1>11, <1>13, <1>14, <1>15, <1>16, <1>17

(***************************************************************************)
(* Windows                                                                 *)
(***************************************************************************)

IsWindow(w) == w.top \in Int /\ w.left \in Int /\ w.width \in Int /\ w.height \in Int

Under(v, w) == v.top + v.height <= w.top
LeftOf(v, w) == v.left + v.width <= w.left

LEMMA ApartIf ==
  ASSUME NEW v, NEW w, IsWindow(v), IsWindow(w),
         \/ Under(v, w) \/ Under(w, v) \/ LeftOf(v, w) \/ LeftOf(w, v)
         \/ v.height <= 0 \/ w.height <= 0
  PROVE  Apart(v, w)
  BY DEF Apart, Rows, Columns, Below, Under, LeftOf, IsWindow

\* Five sets of windows, two by two.
LEMMA Pairs ==
  ASSUME NEW all,
         \A v \in {all.frame}, w \in all.preview \cup all.input \cup all.header \cup all.lines : Apart(v, w),
         \A v \in all.preview, w \in all.input \cup all.header \cup all.lines : Apart(v, w),
         \A v \in all.input, w \in all.header \cup all.lines : Apart(v, w),
         \A v \in all.header, w \in all.lines : Apart(v, w)
  PROVE  NothingCovered(all)
<1> SUFFICES ASSUME NEW i \in 1..5, NEW j \in 1..5, i < j,
                    NEW v \in Parts(all)[i], NEW w \in Parts(all)[j]
             PROVE  Apart(v, w)
  BY DEF NothingCovered
<1>1. /\ Parts(all)[1] = {all.frame} /\ Parts(all)[2] = all.preview /\ Parts(all)[3] = all.input
      /\ Parts(all)[4] = all.header /\ Parts(all)[5] = all.lines
  BY DEF Parts
<1>2. CASE i = 1
  <2>1. j = 2 \/ j = 3 \/ j = 4 \/ j = 5
    BY <1>2
  <2> QED
    BY <1>1, <1>2, <2>1
<1>3. CASE i = 2
  <2>1. j = 3 \/ j = 4 \/ j = 5
    BY <1>3
  <2> QED
    BY <1>1, <1>3, <2>1
<1>4. CASE i = 3
  <2>1. j = 4 \/ j = 5
    BY <1>4
  <2> QED
    BY <1>1, <1>4, <2>1
<1>5. CASE i = 4
  <2>1. j = 5
    BY <1>5
  <2> QED
    BY <1>1, <1>5, <2>1
<1>6. i = 1 \/ i = 2 \/ i = 3 \/ i = 4
  OBVIOUS
<1> QED
  BY <1>2, <1>3, <1>4, <1>5, <1>6

(***************************************************************************)
(* The list and the preview                                                *)
(***************************************************************************)

\* extraLines counts the lines of all windows, and what is in the list itself.
LEMMA ExtraLinesAre ==
  ASSUME NEW k, IsConfiguration(k)
  PROVE  /\ ExtraLines(k) = BorderLines(k.listBorder) + Wanted(k) + HeaderInList(k) + PromptLines(k)
         /\ HeaderInList(k) \in Nat /\ PromptLines(k) \in Nat
         /\ HasInputWindow(k) \/ PromptLines(k) >= 1
<1>1. \A b : BorderLines(b) \in Nat /\ (b = {} => BorderLines(b) = 0)
  BY BorderLinesAre DEF One
<1>2. One(k.separator) \in Nat /\ k.header \in Nat /\ k.headerLines \in Nat
  BY DEF One, IsConfiguration
<1>3. PromptLines(k) \in Nat /\ HeaderInList(k) \in Nat /\ (HasInputWindow(k) \/ PromptLines(k) >= 1)
  BY <1>2 DEF PromptLines, HeaderInList
<1>4. BorderLines(k.inputBorder) + 1 + One(k.separator) = WantedInput(k) + PromptLines(k)
  BY <1>1, <1>2 DEF WantedInput, PromptLines, HasInputWindow, Visible
<1>5. (IF HasHeaderWindow(k) THEN BorderLines(k.headerBorder) ELSE 0)
        + (IF HasLinesWindow(k) THEN BorderLines(k.linesBorder) ELSE 0) + k.header + k.headerLines
      = WantedHeader(k) + WantedLines(k) + HeaderInList(k)
  <2>1. HasLinesWindow(k) /\ ~HasHeaderWindow(k) => k.header = 0
    BY <1>2 DEF HasHeaderWindow, IsConfiguration
  <2> QED
    BY <1>1, <1>2, <2>1 DEF WantedHeader, WantedLines, HeaderInList
<1> QED
  BY <1>1, <1>2, <1>3, <1>4, <1>5, WantedTyped DEF ExtraLines, Wanted

\* The list and the preview in the area: the list has the rectangle at top, left,
\* but for gap.left columns, and gap.right columns more.
AreaOf(k, area) == area = Area(k) /\ area.width \in Int /\ area.height \in Int
                   /\ area.top \in Int /\ area.left \in Int
Stick(k) == One("right" \in k.border)

\* What is known of the rectangle of the list.
ListPane(k, area, h, top, left, width, height, gap) ==
    /\ top \in Int /\ left \in Int /\ width \in Int /\ height \in Int /\ Total(h) \in Int
    /\ gap.left \in {0, 1} /\ gap.right \in {0, Stick(k)}
    /\ Visible(k.listBorder) => gap.left = 0 /\ gap.right = 0
    /\ area.left <= left /\ left + width + gap.right <= area.left + area.width + Stick(k)
    /\ area.height >= 0 => /\ height >= Total(h) /\ area.top <= top
                           /\ top + height <= area.top + area.height
    /\ area.height < 0 => height - Total(h) <= 0
    /\ Roomy(k) => /\ height >= Total(h) + BorderLines(k.listBorder) + 1
                   /\ width >= 1 + gap.left + (IF "left" \in k.listBorder THEN 2 ELSE 0)
                                  + One("right" \in k.listBorder)

\* What is known of the window of the preview: it is above, below or beside.
PreviewPane(k, area, v, top, left, width, height, gap) ==
    /\ IsWindow(v)
    /\ area.height >= 0 => area.top <= v.top /\ v.top + v.height <= area.top + area.height
    /\ area.height < 0 => v.height <= 0
    /\ area.width >= Widest(k, Shown(k, {"left", "right"})) =>
           area.left <= v.left /\ v.left + v.width <= area.left + area.width + Stick(k)
    /\ \/ v.top + v.height <= top
       \/ top + height <= v.top
       \/ v.left + v.width <= left
       \/ left + width + gap.right <= v.left
    /\ Roomy(k) => v.width >= 1 /\ v.height >= 1

LEMMA AreaIs ==
  ASSUME NEW k, IsConfiguration(k)
  PROVE  /\ AreaOf(k, Area(k))
         /\ Area(k).top = Inset(k, 1) /\ Area(k).left = Inset(k, 4)
         /\ Area(k).width = k.width - Inset(k, 2) - Inset(k, 4)
         /\ Area(k).height = k.height - Inset(k, 1) - Inset(k, 3)
         /\ MaxFit(k) = Area(k).height - ExtraLines(k)
<1>1. k.width \in Int /\ k.height \in Int
  BY DEF IsConfiguration
<1>2. /\ Inset(k, 1) \in Int /\ Inset(k, 4) \in Int
      /\ k.width - Inset(k, 2) - Inset(k, 4) \in Int
      /\ k.height - Inset(k, 1) - Inset(k, 3) \in Int
  BY <1>1, Insets
<1>3. /\ IsWindow(Area(k)) /\ Area(k).top = Inset(k, 1) /\ Area(k).left = Inset(k, 4)
      /\ Area(k).width = k.width - Inset(k, 2) - Inset(k, 4)
      /\ Area(k).height = k.height - Inset(k, 1) - Inset(k, 3)
  BY <1>2 DEF Area, Window, IsWindow
<1>4. MaxFit(k) = Area(k).height - ExtraLines(k)
  BY <1>3 DEF MaxFit
<1> QED
  BY <1>3, <1>4 DEF AreaOf, IsWindow

\* With room everything gets the lines it asks for.
LEMMA RoomyLines ==
  ASSUME NEW k, IsConfiguration(k), Roomy(k), Asked(k) \in Nat,
         NEW h, h = Heights(k, Area(k).height)
  PROVE  Area(k).height >= Total(h) + BorderLines(k.listBorder) + 1 + Asked(k)
<1>1. Area(k).height \in Int /\ Area(k).height - ExtraLines(k) >= 1 + Asked(k)
  BY AreaIs DEF Roomy, AreaOf
<1>2. BorderLines(k.listBorder) \in Nat
  BY BorderLinesAre DEF One
<1>3. Wanted(k) \in Nat /\ Wanted(k) = WantedInput(k) + WantedHeader(k) + WantedLines(k)
  BY WantedTyped DEF Wanted
<1>4. Wanted(k) + BorderLines(k.listBorder) + 1 + Asked(k) <= Area(k).height
  BY <1>1, <1>2, <1>3, ExtraLinesAre
<1>5. Total(h) = Wanted(k)
  BY <1>1, <1>2, <1>3, <1>4, HeightsAre DEF Total
<1> QED
  BY <1>4, <1>5

\* Without a preview, the list has the whole area.
LEMMA PaneAlone ==
  ASSUME NEW k, IsConfiguration(k), NEW area, AreaOf(k, area), NEW h, h = Heights(k, area.height),
         Active(k, k.preview, area) = {}
  PROVE  \E top, left, width, height, gap :
             /\ Panes(k, area, h) = [lists |-> Lists(k, h, top, left, width, height, gap), preview |-> {}]
             /\ ListPane(k, area, h, top, left, width, height, gap) /\ height = area.height
<1> DEFINE stick == One(SticksToRight(k))
<1>1. Panes(k, area, h) = [lists |-> Lists(k, h, area.top, area.left, area.width + stick, area.height, NoGap),
                           preview |-> {}]
  BY DEF Panes
<1>2. stick \in {0, Stick(k)} /\ Stick(k) \in {0, 1}
  BY DEF SticksToRight, Stick, One
<1>3. Shown(k, {"left", "right"}) = {} /\ Shown(k, {"up", "down"}) = {}
  BY DEF Shown, AreaOf
<1>4. Asked(k) = 0
  <2>1. {PreviewSize(k, p, Area(k)) : p \in Shown(k, {"up", "down"})} = {}
    BY <1>3
  <2> QED
    BY <2>1, MaxOfOne DEF Asked
<1>5. Widest(k, Shown(k, {"left", "right"})) = 0
  <2>1. {MinPreviewWidth(k, p) : p \in Shown(k, {"left", "right"})} = {}
    BY <1>3
  <2> QED
    BY <2>1, MaxOfOne DEF Widest
<1>6. Roomy(k) => area.height >= Total(h) + BorderLines(k.listBorder) + 1 /\ area.width >= 7
  <2> SUFFICES ASSUME Roomy(k)
               PROVE  area.height >= Total(h) + BorderLines(k.listBorder) + 1 /\ area.width >= 7
    OBVIOUS
  <2>1. area.height >= Total(h) + BorderLines(k.listBorder) + 1 + 0
    BY <1>4, RoomyLines DEF AreaOf
  <2>2. Total(h) \in Int /\ BorderLines(k.listBorder) \in Int
    BY HeightsAre, BorderLinesAre DEF AreaOf, One
  <2> QED
    BY <1>5, <2>1, <2>2 DEF Roomy, MinWidth, AreaOf
<1>7. ListPane(k, area, h, area.top, area.left, area.width + stick, area.height, NoGap)
  <2> HIDE DEF stick
  <2>1. Total(h) \in Int /\ (area.height >= 0 => Total(h) <= area.height)
        /\ (area.height < 0 => Total(h) >= area.height)
    BY HeightsAre DEF AreaOf
  <2>2. NoGap.left = 0 /\ NoGap.right = 0
    BY DEF NoGap
  <2> QED
    BY <1>2, <1>6, <2>1, <2>2 DEF ListPane, AreaOf, One
<1> QED
  BY <1>1, <1>7

\* With a preview above or below, the list has the lines that are left.
LEMMA PaneAbove ==
  ASSUME NEW k, IsConfiguration(k), NEW area, AreaOf(k, area), NEW h, h = Heights(k, area.height),
         NEW p, IsOptions(p), Active(k, k.preview, area) = {p}, p.position \in {"up", "down"}
  PROVE  \E top, left, width, height, gap, v :
             /\ Panes(k, area, h) = [lists |-> Lists(k, h, top, left, width, height, gap), preview |-> {v}]
             /\ ListPane(k, area, h, top, left, width, height, gap)
             /\ PreviewPane(k, area, v, top, left, width, height, gap)
<1> DEFINE stick == One(Stuck(k, p))
           asked == PreviewSize(k, p, area)
           size == PreviewLines(k, p, area, h)
           top == IF p.position = "up" THEN area.top + size ELSE area.top
           v == Window(IF p.position = "up" THEN area.top ELSE area.top + area.height - size,
                       area.left, area.width + stick, size)
<1>1. Panes(k, area, h)
        = [lists |-> Lists(k, h, top, area.left, area.width + stick, area.height - size, NoGap), preview |-> {v}]
  <2>1. (CHOOSE q \in {p} : TRUE) = p
    OBVIOUS
  <2>2. Panes(k, area, h) = PreviewAbove(k, p, area, h, area.width + stick, size)
    BY <2>1 DEF Panes
  <2> QED
    BY <2>2 DEF PreviewAbove
<1>2. stick \in {0, Stick(k)} /\ Stick(k) \in {0, 1}
  BY DEF Stuck, SticksToRight, Stick, One
<1>3. asked \in Nat \ {0}
  <2>1. MinPreviewHeight(p) \in Nat \ {0} /\ MinHeight - One(~k.separator) \in Int /\ area.height \in Int
    BY MinPreview DEF MinHeight, One, AreaOf
  <2>2. asked = CalculateSize(area.height, p, MinHeight - One(~k.separator), MinPreviewHeight(p))
    BY DEF PreviewSize
  <2> HIDE DEF asked
  <2> QED
    BY <2>1, <2>2, SizeBounds
<1>4. Shown(k, {"left", "right"}) = {} /\ Shown(k, {"up", "down"}) = {p}
  BY DEF Shown, AreaOf
<1>5. Asked(k) = asked
  <2>1. {PreviewSize(k, q, Area(k)) : q \in Shown(k, {"up", "down"})} = {asked}
    BY <1>4 DEF AreaOf
  <2> HIDE DEF asked
  <2> QED
    BY <1>3, <2>1, MaxOfOne DEF Asked
<1>6. Widest(k, Shown(k, {"left", "right"})) = 0
  <2>1. {MinPreviewWidth(k, q) : q \in Shown(k, {"left", "right"})} = {}
    BY <1>4
  <2> QED
    BY <2>1, MaxOfOne DEF Widest
<1>7. Total(h) \in Int /\ (area.height >= 0 => Total(h) <= area.height)
      /\ (area.height < 0 => Total(h) >= area.height /\ Total(h) <= 0) /\ (area.height >= 0 => Total(h) >= 0)
  BY HeightsAre DEF AreaOf, Total
<1>8. BorderLines(k.listBorder) \in Nat
  BY BorderLinesAre DEF One
<1>9. /\ size \in Int /\ size <= area.height - Total(h)
      /\ area.height >= 0 => size >= 0
      /\ area.height < 0 => size = area.height - Total(h)
      /\ area.height >= Total(h) + BorderLines(k.listBorder) + 1 + asked => size = asked
  <2> DEFINE left == area.height - BorderLines(k.listBorder) - asked - Total(h)
  <2>1. size = Min2(asked, area.height - Total(h) - Max2(0, left))
    BY DEF PreviewLines
  <2>2. left \in Int /\ area.height \in Int
    BY <1>3, <1>7, <1>8 DEF AreaOf
  <2>3. size = IF asked <= area.height - Total(h) - (IF 0 >= left THEN 0 ELSE left) THEN asked
               ELSE area.height - Total(h) - (IF 0 >= left THEN 0 ELSE left)
    BY <2>1 DEF Min2, Max2
  <2> HIDE DEF asked, size
  <2> QED
    BY <2>2, <2>3, <1>3, <1>7, <1>8
<1>10. Roomy(k) => area.height >= Total(h) + BorderLines(k.listBorder) + 1 + asked /\ area.width >= 7
  <2> SUFFICES ASSUME Roomy(k)
               PROVE  area.height >= Total(h) + BorderLines(k.listBorder) + 1 + asked /\ area.width >= 7
    OBVIOUS
  <2>1. area.height >= Total(h) + BorderLines(k.listBorder) + 1 + asked
    BY <1>3, <1>5, RoomyLines DEF AreaOf
  <2> QED
    BY <1>6, <2>1 DEF Roomy, MinWidth, AreaOf
<1>11. IsWindow(v) /\ v.top = (IF p.position = "up" THEN area.top ELSE area.top + area.height - size)
       /\ v.left = area.left /\ v.width = area.width + stick /\ v.height = size
  BY <1>2, <1>9 DEF Window, IsWindow, AreaOf
<1>12. NoGap.left = 0 /\ NoGap.right = 0
  BY DEF NoGap
<1>13. area.top \in Int /\ area.left \in Int /\ area.width \in Int /\ area.height \in Int
  BY DEF AreaOf
<1>14. top \in Int /\ (p.position = "up" => top = area.top + size) /\ (p.position # "up" => top = area.top)
  BY <1>9, <1>13
<1> HIDE DEF v, stick, asked, size, top
<1>15. ListPane(k, area, h, top, area.left, area.width + stick, area.height - size, NoGap)
  <2>1. area.height >= 0 => /\ area.height - size >= Total(h) /\ area.top <= top
                            /\ top + (area.height - size) <= area.top + area.height
    BY <1>7, <1>9, <1>13, <1>14
  <2>2. area.height < 0 => (area.height - size) - Total(h) <= 0
    BY <1>7, <1>9, <1>13
  <2> QED
    BY <1>2, <1>3, <1>7, <1>8, <1>9, <1>10, <1>12, <1>13, <1>14, <2>1, <2>2 DEF ListPane, One
<1>16. PreviewPane(k, area, v, top, area.left, area.width + stick, area.height - size, NoGap)
  <2>1. v.top + v.height <= top \/ top + (area.height - size) <= v.top
    BY <1>9, <1>11, <1>13, <1>14
  <2> QED
    BY <1>2, <1>3, <1>7, <1>9, <1>10, <1>11, <1>12, <1>13, <2>1 DEF PreviewPane
<1> QED
  BY <1>1, <1>15, <1>16

\* With a preview beside it, the list has the columns that are left.
LEMMA PaneBeside ==
  ASSUME NEW k, IsConfiguration(k), NEW area, AreaOf(k, area), NEW h, h = Heights(k, area.height),
         NEW p, IsOptions(p), Active(k, k.preview, area) = {p}, p.position \in {"left", "right"}
  PROVE  \E top, left, width, height, gap, v :
             /\ Panes(k, area, h) = [lists |-> Lists(k, h, top, left, width, height, gap), preview |-> {v}]
             /\ ListPane(k, area, h, top, left, width, height, gap)
             /\ PreviewPane(k, area, v, top, left, width, height, gap)
<1> DEFINE stick == One(Stuck(k, p))
           size == PreviewSize(k, p, area)
           least == MinPreviewWidth(k, p)
           border == (IF "left" \in k.listBorder THEN 2 ELSE 0) + One("right" \in k.listBorder)
           left == IF p.position = "left" THEN area.left + size ELSE area.left
           gap == IF p.position = "left" THEN LeftGap(k) ELSE NoGap
           v == Window(area.top, IF p.position = "left" THEN area.left ELSE area.left + (area.width + stick) - size,
                       size, area.height)
<1>1. Panes(k, area, h)
        = [lists |-> Lists(k, h, area.top, left, (area.width + stick) - size, area.height, gap), preview |-> {v}]
  <2>1. (CHOOSE q \in {p} : TRUE) = p
    OBVIOUS
  <2>2. Panes(k, area, h) = PreviewBeside(k, p, area, h, area.width + stick, size)
    BY <2>1 DEF Panes
  <2> QED
    BY <2>2 DEF PreviewBeside
<1>2. /\ stick \in {0, Stick(k)} /\ Stick(k) \in {0, 1}
      /\ p.position = "left" => stick = 0
  BY DEF Stuck, Stick, One
<1>3. area.top \in Int /\ area.left \in Int /\ area.width \in Int /\ area.height \in Int
  BY DEF AreaOf
<1>4. least \in Nat \ {0} /\ border \in 0..3
  BY MinPreview DEF One
<1>5. size \in Int /\ least <= size /\ size <= Max2(area.width - (4 + border), least)
  <2>1. size = CalculateSize(area.width, p, MinWidth + (IF "left" \in k.listBorder THEN 2 ELSE 0)
                                              + One("right" \in k.listBorder), least)
    BY DEF PreviewSize
  <2>2. MinWidth + (IF "left" \in k.listBorder THEN 2 ELSE 0) + One("right" \in k.listBorder) = 4 + border
    BY DEF MinWidth, One
  <2> HIDE DEF size, border, least
  <2> QED
    BY <1>3, <1>4, <2>1, <2>2, SizeBounds
<1>6. Shown(k, {"left", "right"}) = {p} /\ Shown(k, {"up", "down"}) = {}
  BY DEF Shown, AreaOf
<1>7. Widest(k, Shown(k, {"left", "right"})) = least
  <2>1. {MinPreviewWidth(k, q) : q \in Shown(k, {"left", "right"})} = {least}
    BY <1>6
  <2> HIDE DEF least
  <2> QED
    BY <1>4, <2>1, MaxOfOne DEF Widest
<1>8. Asked(k) = 0
  <2>1. {PreviewSize(k, q, Area(k)) : q \in Shown(k, {"up", "down"})} = {}
    BY <1>6
  <2> QED
    BY <2>1, MaxOfOne DEF Asked
<1>9. Total(h) \in Int /\ (area.height >= 0 => Total(h) <= area.height)
      /\ (area.height < 0 => Total(h) >= area.height)
  BY HeightsAre DEF AreaOf
<1>10. BorderLines(k.listBorder) \in Nat
  BY BorderLinesAre DEF One
<1>11. Roomy(k) => area.height >= Total(h) + BorderLines(k.listBorder) + 1 /\ area.width >= 7 + least
  <2> SUFFICES ASSUME Roomy(k)
               PROVE  area.height >= Total(h) + BorderLines(k.listBorder) + 1 /\ area.width >= 7 + least
    OBVIOUS
  <2>1. area.height >= Total(h) + BorderLines(k.listBorder) + 1 + 0
    BY <1>8, RoomyLines DEF AreaOf
  <2>2. area.width >= 4 + 3 + Widest(k, Shown(k, {"left", "right"}))
    BY DEF Roomy, MinWidth, AreaOf
  <2> HIDE DEF least
  <2> QED
    BY <1>3, <1>4, <1>7, <1>9, <1>10, <2>1, <2>2
<1>12. IsWindow(v) /\ v.top = area.top /\ v.width = size /\ v.height = area.height
       /\ v.left = (IF p.position = "left" THEN area.left ELSE area.left + (area.width + stick) - size)
  BY <1>2, <1>3, <1>5 DEF Window, IsWindow
<1>13. /\ gap.left \in {0, 1} /\ gap.right \in {0, Stick(k)}
       /\ p.position = "right" => gap.left = 0 /\ gap.right = 0
       /\ Visible(k.listBorder) => gap.left = 0 /\ gap.right = 0
  BY DEF LeftGap, NoGap, Stick, One
<1>14. left \in Int /\ (p.position = "left" => left = area.left + size)
       /\ (p.position = "right" => left = area.left)
  BY <1>3, <1>5
<1>15. /\ area.width >= least => size <= area.width
       /\ area.width >= 7 + least => size <= area.width - (4 + border)
  <2> HIDE DEF size, border, least
  <2> QED
    BY <1>3, <1>4, <1>5 DEF Max2
<1>16. p.position = "left" \/ p.position = "right"
  OBVIOUS
<1>17. border = (IF "left" \in k.listBorder THEN 2 ELSE 0) + One("right" \in k.listBorder)
  OBVIOUS
<1> HIDE DEF v, stick, size, least, border, left, gap
<1>18. ListPane(k, area, h, area.top, left, (area.width + stick) - size, area.height, gap)
  <2>1. area.left <= left /\ left + ((area.width + stick) - size) + gap.right <= area.left + area.width + Stick(k)
    BY <1>2, <1>3, <1>4, <1>5, <1>13, <1>14, <1>16
  <2>2. Roomy(k) => (area.width + stick) - size >= 1 + gap.left + border
    BY <1>2, <1>3, <1>4, <1>5, <1>11, <1>13, <1>15
  <2>3. Roomy(k) => (area.width + stick) - size
                        >= 1 + gap.left + (IF "left" \in k.listBorder THEN 2 ELSE 0) + One("right" \in k.listBorder)
    BY <1>2, <1>3, <1>5, <1>13, <1>17, <2>2 DEF One
  <2> QED
    BY <1>2, <1>3, <1>5, <1>9, <1>10, <1>11, <1>13, <1>14, <2>1, <2>3 DEF ListPane
<1>19. PreviewPane(k, area, v, area.top, left, (area.width + stick) - size, area.height, gap)
  <2>1. v.left + v.width <= left \/ left + ((area.width + stick) - size) + gap.right <= v.left
    BY <1>2, <1>3, <1>5, <1>12, <1>13, <1>14, <1>16
  <2>2. area.width >= least => area.left <= v.left /\ v.left + v.width <= area.left + area.width + Stick(k)
    BY <1>2, <1>3, <1>4, <1>5, <1>12, <1>15, <1>16
  <2>3. Roomy(k) => v.width >= 1 /\ v.height >= 1
    <3>1. area.height >= 0 \/ area.height < 0
      BY <1>3
    <3>2. Roomy(k) => area.height >= 1
      <4>1. area.height >= 0 => Total(h) >= 0
        BY HeightsAre DEF AreaOf, Total
      <4> QED
        BY <1>3, <1>9, <1>10, <1>11, <3>1, <4>1
    <3> QED
      BY <1>4, <1>5, <1>12, <3>2
  <2> QED
    BY <1>3, <1>7, <1>12, <2>1, <2>2, <2>3 DEF PreviewPane
<1> QED
  BY <1>1, <1>18, <1>19

\* The other windows are aligned with the list, or with its border.
LEMMA FrameIs ==
  ASSUME NEW k, NEW area, NEW h, NEW top, NEW left, NEW width, NEW height, NEW gap,
         ListPane(k, area, h, top, left, width, height, gap)
  PROVE  LET lists == Lists(k, h, top, left, width, height, gap)
             w == Frame(k, lists)
         IN  /\ IsWindow(w)
             /\ w.top = top + (IF k.reverse THEN Total(h) ELSE 0) /\ w.height = height - Total(h)
             /\ w.left = left + gap.left /\ w.width = width - gap.left + gap.right
             /\ lists.list.height = height - Total(h) - BorderLines(k.listBorder)
             /\ Roomy(k) => /\ lists.list.height >= 1 /\ lists.list.width >= 1 /\ w.width >= 1
                            /\ Rows(lists.list) \subseteq Rows(w) /\ Columns(lists.list) \subseteq Columns(w)
<1> DEFINE lists == Lists(k, h, top, left, width, height, gap)
           w == Frame(k, lists)
           above == IF k.reverse THEN Total(h) ELSE 0
           outer == Window(top + above, left, width, height - Total(h))
           inner == Inner(k, outer)
           side == IF "left" \in k.listBorder THEN 2 ELSE 0
           lines == BorderLines(k.listBorder)
           list == lists.list
<1>0. w = Frame(k, lists)
  OBVIOUS
<1>1. /\ top \in Int /\ left \in Int /\ width \in Int /\ height \in Int /\ Total(h) \in Int
      /\ gap.left \in {0, 1} /\ gap.right \in {0, 1} /\ above \in Int
      /\ side \in {0, 2} /\ One("right" \in k.listBorder) \in {0, 1} /\ One("top" \in k.listBorder) \in {0, 1}
  BY DEF ListPane, Stick, One
<1>2. lines = One("top" \in k.listBorder) + One("bottom" \in k.listBorder) /\ One("bottom" \in k.listBorder) \in {0, 1}
  BY BorderLinesAre DEF One
<1>3. lists = [border |-> outer, list |-> [inner EXCEPT !.left = @ + gap.left, !.width = @ - gap.left + gap.right]]
  BY DEF Lists
<1> HIDE DEF lists, w
<1>4. inner = Window((top + above) + One("top" \in k.listBorder), left + side,
                     (width - side) - One("right" \in k.listBorder), (height - Total(h)) - lines)
  BY DEF Inner, Window
<1> HIDE DEF above, side, lines
<1>5. /\ list.top = (top + above) + One("top" \in k.listBorder)
      /\ list.left = (left + side) + gap.left
      /\ list.width = ((width - side) - One("right" \in k.listBorder)) - gap.left + gap.right
      /\ list.height = (height - Total(h)) - lines
  <2>1. list = [inner EXCEPT !.left = @ + gap.left, !.width = @ - gap.left + gap.right]
    BY <1>3
  <2>2. inner = [top |-> (top + above) + One("top" \in k.listBorder), left |-> left + side,
                 width |-> (width - side) - One("right" \in k.listBorder), height |-> (height - Total(h)) - lines]
    BY <1>4 DEF Window
  <2> HIDE DEF outer, inner, list
  <2> QED
    BY <2>1, <2>2
<1>6. outer.top = top + above /\ outer.left = left /\ outer.width = width /\ outer.height = height - Total(h)
  BY DEF Window
<1> HIDE DEF outer, inner
<1>7. /\ IsWindow(w) /\ w.top = top + above /\ w.height = height - Total(h)
      /\ w.left = left + gap.left /\ w.width = width - gap.left + gap.right
  <2>1. CASE Visible(k.listBorder)
    <3>1. w = outer
      BY <1>0, <1>3, <2>1 DEF Frame
    <3>2. gap.left = 0 /\ gap.right = 0
      BY <2>1 DEF ListPane
    <3> QED
      BY <1>1, <1>6, <3>1, <3>2 DEF IsWindow
  <2>2. CASE ~Visible(k.listBorder)
    <3>1. w = list
      BY <1>0, <2>2 DEF Frame
    <3>2. side = 0 /\ lines = 0 /\ One("right" \in k.listBorder) = 0 /\ One("top" \in k.listBorder) = 0
      BY <1>2, <2>2 DEF side, One, Visible
    <3> QED
      BY <1>1, <1>5, <3>1, <3>2 DEF IsWindow
  <2> QED
    BY <2>1, <2>2
<1>8. Roomy(k) => height >= Total(h) + lines + 1 /\ width >= 1 + gap.left + side + One("right" \in k.listBorder)
  BY DEF ListPane, side, lines
<1>9. Roomy(k) => list.height >= 1 /\ list.width >= 1 /\ w.width >= 1
  BY <1>1, <1>2, <1>5, <1>7, <1>8
<1>10. list.top >= w.top /\ list.top + list.height <= w.top + w.height
  BY <1>1, <1>2, <1>5, <1>7
<1>11. list.left >= w.left /\ list.left + list.width <= w.left + w.width
  BY <1>1, <1>5, <1>7
<1>12. list.top \in Int /\ list.left \in Int /\ list.height \in Int /\ list.width \in Int
  BY <1>1, <1>2, <1>5
<1>13. Rows(list) \subseteq Rows(w) /\ Columns(list) \subseteq Columns(w)
  <2> HIDE DEF list
  <2> QED
    BY <1>7, <1>10, <1>11, <1>12 DEF Rows, Columns, Below, IsWindow
<1>14. above = IF k.reverse THEN Total(h) ELSE 0
  BY DEF above
<1>15. lists.list.height = height - Total(h) - BorderLines(k.listBorder)
  BY <1>5 DEF lines
<1> QED
  BY <1>7, <1>9, <1>13, <1>14, <1>15 DEF lists, w

\* Each has the lines of its own between the list and the end of its rectangle,
\* in the order that --header-first and --layout ask for (resizeWindows).
LEMMA Stacked ==
  ASSUME NEW k, NEW h, NEW w, IsWindow(w), NEW top \in Int,
         h.input \in Nat, h.header \in Nat, h.lines \in Nat, w.height >= 0,
         w.top = top + (IF k.reverse THEN Total(h) ELSE 0),
         ~HasHeaderWindow(k) => h.header = 0
  PROVE  LET input == InputTop(k, h, w)
             header == HeaderTop(k, h, w)
             lines == LinesTop(k, h, w)
             end == top + Total(h) + w.height
         IN  /\ input \in Int /\ top <= input /\ input + h.input <= end
             /\ lines \in Int /\ top <= lines /\ lines + h.lines <= end
             /\ input + h.input <= w.top \/ w.top + w.height <= input
             /\ lines + h.lines <= w.top \/ w.top + w.height <= lines
             /\ input + h.input <= lines \/ lines + h.lines <= input
             /\ HasHeaderWindow(k) =>
                    /\ header \in Int /\ top <= header /\ header + h.header <= end
                    /\ header + h.header <= w.top \/ w.top + w.height <= header
                    /\ input + h.input <= header \/ header + h.header <= input
                    /\ header + h.header <= lines \/ lines + h.lines <= header
<1> DEFINE a == h.input  b == h.header  c == h.lines  n == w.height
           first == HasHeaderWindow(k) /\ k.headerFirst
           input == InputTop(k, h, w)
           header == HeaderTop(k, h, w)
           lines == LinesTop(k, h, w)
           end == top + Total(h) + w.height
<1>1. a \in Nat /\ b \in Nat /\ c \in Nat /\ n \in Nat /\ Total(h) = a + b + c
  BY DEF Total, IsWindow
<1>2. end = top + (a + b + c) + n
  BY <1>1
<1>3. CASE k.reverse
  <2>1. w.top = top + (a + b + c)
    BY <1>1, <1>3
  <2>2. input = IF first THEN w.top - a - c ELSE w.top - (a + b + c)
    BY <1>1, <1>3 DEF InputTop
  <2>3. HasHeaderWindow(k) => header = IF first THEN w.top - (a + b + c) ELSE w.top - b - c
    BY <1>1, <1>3 DEF HeaderTop
  <2>4. lines = w.top - c
    BY <1>3 DEF LinesTop
  <2> HIDE DEF a, b, c, n, first, input, header, lines, end
  <2>5. /\ input \in Int /\ top <= input /\ input + a <= end /\ input + a <= w.top
        /\ lines \in Int /\ top <= lines /\ lines + c <= end /\ lines + c <= w.top /\ input + a <= lines
    BY <1>1, <1>2, <2>1, <2>2, <2>4
  <2>6. HasHeaderWindow(k) => /\ header \in Int /\ top <= header /\ header + b <= end /\ header + b <= w.top
                              /\ input + a <= header \/ header + b <= input
                              /\ header + b <= lines
    BY <1>1, <1>2, <2>1, <2>2, <2>3, <2>4
  <2> QED
    BY <2>5, <2>6 DEF a, b, c, n, input, header, lines, end
<1>4. CASE ~k.reverse
  <2>1. w.top = top
    BY <1>4
  <2>2. input = IF first THEN w.top + n + c ELSE w.top + n + b + c
    BY <1>4 DEF InputTop, Below
  <2>3. HasHeaderWindow(k) => header = IF first THEN w.top + n + a + c ELSE w.top + n + c
    BY <1>4 DEF HeaderTop, Below
  <2>4. lines = w.top + n
    BY <1>4 DEF LinesTop, Below
  <2> HIDE DEF a, b, c, n, first, input, header, lines, end
  <2>5. ~HasHeaderWindow(k) => b = 0
    BY DEF b
  <2>6. HasHeaderWindow(k) \/ ~first
    BY DEF first
  <2>7. /\ input \in Int /\ top <= input /\ input + a <= end /\ w.top + n <= input
        /\ lines \in Int /\ top <= lines /\ lines + c <= end /\ w.top + n <= lines /\ lines + c <= input
    BY <1>1, <1>2, <2>1, <2>2, <2>4, <2>5, <2>6
  <2>8. HasHeaderWindow(k) => /\ header \in Int /\ top <= header /\ header + b <= end /\ w.top + n <= header
                              /\ input + a <= header \/ header + b <= input
                              /\ lines + c <= header
    BY <1>1, <1>2, <2>1, <2>2, <2>3, <2>4
  <2> QED
    BY <2>7, <2>8 DEF a, b, c, n, input, header, lines, end
<1> QED
  BY <1>3, <1>4

\* The list and the windows next to it.
Stack(all) == {all.frame} \cup all.input \cup all.header \cup all.lines

\* They have the columns of the list, and the lines of its rectangle.
StackPlaced(area, all, top, left, width, height, gap) ==
    /\ \A s \in Stack(all) :
           /\ IsWindow(s) /\ s.left = left + gap.left /\ s.width = width - gap.left + gap.right
           /\ area.height >= 0 => top <= s.top /\ s.top + s.height <= top + height
           /\ area.height < 0 => s.height <= 0
    /\ \A v \in {all.frame}, s \in all.input \cup all.header \cup all.lines : Apart(v, s)
    /\ \A v \in all.input, s \in all.header \cup all.lines : Apart(v, s)
    /\ \A v \in all.header, s \in all.lines : Apart(v, s)

LEMMA StackIs ==
  ASSUME NEW k, IsConfiguration(k), NEW area, AreaOf(k, area), NEW h, h = Heights(k, area.height),
         NEW top, NEW left, NEW width, NEW height, NEW gap, ListPane(k, area, h, top, left, width, height, gap),
         NEW panes, panes.lists = Lists(k, h, top, left, width, height, gap)
  PROVE  StackPlaced(area, WindowsIn(k, h, panes, Frame(k, panes.lists)), top, left, width, height, gap)
<1> DEFINE w == Frame(k, panes.lists)
           all == WindowsIn(k, h, panes, w)
           input == Window(InputTop(k, h, w), w.left, w.width, h.input)
           header == Window(HeaderTop(k, h, w), w.left, w.width, h.header)
           lines == Window(LinesTop(k, h, w), w.left, w.width, h.lines)
<1>1. /\ all.frame = w /\ all.input = (IF HasInputWindow(k) THEN {input} ELSE {})
      /\ all.header = (IF HasHeaderWindow(k) THEN {header} ELSE {})
      /\ all.lines = (IF HasLinesWindow(k) THEN {lines} ELSE {})
  BY DEF WindowsIn, Aligned
<1>0. w = Frame(k, Lists(k, h, top, left, width, height, gap))
  OBVIOUS
<1> SUFFICES StackPlaced(area, all, top, left, width, height, gap)
  OBVIOUS
<1> HIDE DEF w, all
<1>2. /\ IsWindow(w) /\ w.height = height - Total(h)
      /\ w.top = top + (IF k.reverse THEN Total(h) ELSE 0)
      /\ w.left = left + gap.left /\ w.width = width - gap.left + gap.right
  <2>1. w = Frame(k, Lists(k, h, top, left, width, height, gap))
    BY <1>0
  <2> HIDE DEF input, header, lines
  <2>2. LET lists == Lists(k, h, top, left, width, height, gap)
            x == Frame(k, lists)
        IN  /\ IsWindow(x) /\ x.height = height - Total(h)
            /\ x.top = top + (IF k.reverse THEN Total(h) ELSE 0)
            /\ x.left = left + gap.left /\ x.width = width - gap.left + gap.right
    BY FrameIs
  <2> QED
    BY <2>1, <2>2
<1>3. /\ h.input \in Int /\ h.header \in Int /\ h.lines \in Int /\ Total(h) = h.input + h.header + h.lines
      /\ Total(h) \in Int /\ (~HasHeaderWindow(k) => h.header = 0)
      /\ area.height >= 0 => h.input >= 0 /\ h.header >= 0 /\ h.lines >= 0
      /\ area.height < 0 => h.input <= 0 /\ h.header <= 0 /\ h.lines <= 0
  BY HeightsAre DEF AreaOf, Total
<1>4. /\ top \in Int /\ height \in Int /\ area.height \in Int
      /\ area.height >= 0 => height >= Total(h)
      /\ area.height < 0 => height - Total(h) <= 0
  BY DEF ListPane, AreaOf
<1>5. InputTop(k, h, w) \in Int /\ LinesTop(k, h, w) \in Int /\ HeaderTop(k, h, w) \in Int
  BY <1>2, <1>3 DEF InputTop, HeaderTop, LinesTop, Below, IsWindow
<1>6. /\ IsWindow(input) /\ input.top = InputTop(k, h, w) /\ input.height = h.input
      /\ input.left = w.left /\ input.width = w.width
      /\ IsWindow(header) /\ header.top = HeaderTop(k, h, w) /\ header.height = h.header
      /\ header.left = w.left /\ header.width = w.width
      /\ IsWindow(lines) /\ lines.top = LinesTop(k, h, w) /\ lines.height = h.lines
      /\ lines.left = w.left /\ lines.width = w.width
  BY <1>2, <1>3, <1>5 DEF Window, IsWindow
<1> HIDE DEF input, header, lines
<1>7. CASE area.height < 0
  <2>1. \A s \in Stack(all) : s \in {w, input, header, lines}
    BY <1>1 DEF Stack
  <2>2. w.height <= 0 /\ input.height <= 0 /\ header.height <= 0 /\ lines.height <= 0
    BY <1>2, <1>3, <1>4, <1>6, <1>7
  <2>3. \A s \in Stack(all) : /\ IsWindow(s) /\ s.height <= 0 /\ s.left = left + gap.left
                              /\ s.width = width - gap.left + gap.right
    BY <1>2, <1>6, <2>1, <2>2
  <2>4. \A v, s \in Stack(all) : Apart(v, s)
    BY <2>3, ApartIf
  <2>5. area.height >= 0 => FALSE
    BY <1>4, <1>7
  <2> QED
    BY <2>3, <2>4, <2>5 DEF Stack, StackPlaced
<1>8. CASE area.height >= 0
  <2> DEFINE end == top + Total(h) + w.height
  <2>1. h.input \in Nat /\ h.header \in Nat /\ h.lines \in Nat /\ w.height >= 0
    BY <1>2, <1>3, <1>4, <1>8 DEF IsWindow
  <2>2. /\ top <= input.top /\ input.top + input.height <= end
        /\ top <= lines.top /\ lines.top + lines.height <= end
        /\ Under(input, w) \/ Under(w, input)
        /\ Under(lines, w) \/ Under(w, lines)
        /\ Under(input, lines) \/ Under(lines, input)
        /\ HasHeaderWindow(k) =>
               /\ top <= header.top /\ header.top + header.height <= end
               /\ Under(header, w) \/ Under(w, header)
               /\ Under(input, header) \/ Under(header, input)
               /\ Under(header, lines) \/ Under(lines, header)
    BY <2>1, <1>2, <1>3, <1>4, <1>6, Stacked DEF Under
  <2>3. end = top + height /\ top <= w.top /\ w.top + w.height <= end
    BY <1>2, <1>3, <1>4, <2>1
  <2> HIDE DEF end
  <2>4. \A s \in Stack(all) :
           /\ IsWindow(s) /\ s.left = left + gap.left /\ s.width = width - gap.left + gap.right
           /\ top <= s.top /\ s.top + s.height <= top + height
    <3> SUFFICES ASSUME NEW s \in Stack(all)
                 PROVE  /\ IsWindow(s) /\ s.left = left + gap.left /\ s.width = width - gap.left + gap.right
                        /\ top <= s.top /\ s.top + s.height <= top + height
      OBVIOUS
    <3>1. CASE s = w
      BY <3>1, <1>2, <2>3
    <3>2. CASE s = input
      BY <3>2, <1>2, <1>6, <2>2, <2>3
    <3>3. CASE s = lines
      BY <3>3, <1>2, <1>6, <2>2, <2>3
    <3>4. CASE s = header /\ HasHeaderWindow(k)
      BY <3>4, <1>2, <1>6, <2>2, <2>3
    <3>5. s = w \/ s = input \/ s = lines \/ (s = header /\ HasHeaderWindow(k))
      <4>1. s = w \/ s \in all.input \/ s \in all.header \/ s \in all.lines
        BY <1>1 DEF Stack
      <4>2. s \in all.header => s = header /\ HasHeaderWindow(k)
        BY <1>1
      <4>3. (s \in all.input => s = input) /\ (s \in all.lines => s = lines)
        BY <1>1
      <4> QED
        BY <4>1, <4>2, <4>3
    <3> QED
      BY <3>1, <3>2, <3>3, <3>4, <3>5
  <2>5. \A s \in all.input \cup all.header \cup all.lines : Apart(w, s)
    <3>1. Apart(w, input) /\ Apart(w, lines) /\ (HasHeaderWindow(k) => Apart(w, header))
      BY <1>2, <1>6, <2>2, ApartIf
    <3> QED
      BY <1>1, <3>1
  <2>6. \A v \in all.input, s \in all.header \cup all.lines : Apart(v, s)
    <3>1. Apart(input, lines) /\ (HasHeaderWindow(k) => Apart(input, header))
      BY <1>6, <2>2, ApartIf
    <3> QED
      BY <1>1, <3>1
  <2>7. \A v \in all.header, s \in all.lines : Apart(v, s)
    <3>1. HasHeaderWindow(k) => Apart(header, lines)
      BY <1>6, <2>2, ApartIf
    <3> QED
      BY <1>1, <3>1
  <2>8. area.height < 0 => FALSE
    BY <1>4, <1>8
  <2> QED
    BY <1>1, <2>4, <2>5, <2>6, <2>7, <2>8 DEF StackPlaced
<1> QED
  BY <1>4, <1>7, <1>8

\* Whatever stays in the area stays inside the margins.
LEMMA InsideIf ==
  ASSUME NEW k, IsConfiguration(k), NEW area, area = Area(k), NEW w, IsWindow(w),
         area.height >= 0 => area.top <= w.top /\ w.top + w.height <= area.top + area.height,
         area.height < 0 => w.height <= 0,
         area.left <= w.left, w.left + w.width <= area.left + area.width + Stick(k)
  PROVE  Inside(k, w)
<1>1. /\ area.top = Inset(k, 1) /\ area.left = Inset(k, 4)
      /\ area.width = k.width - Inset(k, 2) - Inset(k, 4)
      /\ area.height = k.height - Inset(k, 1) - Inset(k, 3)
      /\ area.top \in Int /\ area.left \in Int /\ area.width \in Int /\ area.height \in Int
  BY AreaIs DEF AreaOf
<1>2. /\ Inset(k, 1) \in Int /\ Inset(k, 2) \in Int /\ Inset(k, 3) \in Int /\ Inset(k, 4) \in Int
      /\ k.width \in Int /\ k.height \in Int
  BY Insets DEF IsConfiguration
<1>3. Rows(w) \subseteq Inset(k, 1)..(k.height - Inset(k, 3) - 1)
  BY <1>1, <1>2 DEF Rows, Below, IsWindow
<1>4. Columns(w) \subseteq Inset(k, 4)..(k.width - Inset(k, 2) - 1 + One("right" \in k.border))
  BY <1>1, <1>2 DEF Columns, IsWindow, Stick, One
<1> QED
  BY <1>3, <1>4 DEF Inside

\* A list and the windows next to it, with a preview or none, are where they should be.
LEMMA Placed ==
  ASSUME NEW k, IsConfiguration(k), NEW area, area = Area(k), AreaOf(k, area),
         NEW h, h = Heights(k, area.height),
         NEW top, NEW left, NEW width, NEW height, NEW gap, ListPane(k, area, h, top, left, width, height, gap),
         NEW panes, panes.lists = Lists(k, h, top, left, width, height, gap),
         \A v \in panes.preview : PreviewPane(k, area, v, top, left, width, height, gap),
         NEW w, w = Frame(k, panes.lists), NEW all, all = WindowsIn(k, h, panes, w)
  PROVE  NothingCovered(all) /\ NothingOutside(k, all) /\ NothingSqueezed(k, all)
<1>1. /\ \A s \in Stack(all) :
             /\ IsWindow(s) /\ s.left = left + gap.left /\ s.width = width - gap.left + gap.right
             /\ area.height >= 0 => top <= s.top /\ s.top + s.height <= top + height
             /\ area.height < 0 => s.height <= 0
      /\ \A v \in {all.frame}, s \in all.input \cup all.header \cup all.lines : Apart(v, s)
      /\ \A v \in all.input, s \in all.header \cup all.lines : Apart(v, s)
      /\ \A v \in all.header, s \in all.lines : Apart(v, s)
  <2>1. StackPlaced(area, WindowsIn(k, h, panes, Frame(k, panes.lists)), top, left, width, height, gap)
    BY StackIs
  <2> QED
    BY <2>1 DEF StackPlaced
<1>2. all.preview = panes.preview /\ all.frame = w /\ all.list = panes.lists.list
  BY DEF WindowsIn
<1>3. /\ area.top \in Int /\ area.left \in Int /\ area.width \in Int /\ area.height \in Int
      /\ top \in Int /\ left \in Int /\ width \in Int /\ height \in Int
      /\ gap.left \in {0, 1} /\ gap.right \in {0, 1} /\ Stick(k) \in {0, 1}
  BY DEF AreaOf, ListPane, Stick, One
<1>4. /\ area.left <= left /\ left + width + gap.right <= area.left + area.width + Stick(k)
      /\ area.height >= 0 => area.top <= top /\ top + height <= area.top + area.height
  BY DEF ListPane
<1>5. \A v \in all.preview :
         /\ IsWindow(v)
         /\ area.height >= 0 => area.top <= v.top /\ v.top + v.height <= area.top + area.height
         /\ area.height < 0 => v.height <= 0
         /\ area.width >= Widest(k, Shown(k, {"left", "right"})) =>
                area.left <= v.left /\ v.left + v.width <= area.left + area.width + Stick(k)
         /\ \/ v.top + v.height <= top
            \/ top + height <= v.top
            \/ v.left + v.width <= left
            \/ left + width + gap.right <= v.left
         /\ Roomy(k) => v.width >= 1 /\ v.height >= 1
  BY <1>2 DEF PreviewPane
<1>6. \A v \in all.preview, s \in Stack(all) : Apart(v, s) /\ Apart(s, v)
  <2> SUFFICES ASSUME NEW v \in all.preview, NEW s \in Stack(all)
               PROVE  Apart(v, s) /\ Apart(s, v)
    OBVIOUS
  <2>1. IsWindow(v) /\ IsWindow(s)
    BY <1>1, <1>5
  <2>2. area.height < 0 => v.height <= 0
    BY <1>5
  <2>3. area.height >= 0 => Under(v, s) \/ Under(s, v) \/ LeftOf(v, s) \/ LeftOf(s, v)
    <3> SUFFICES ASSUME area.height >= 0
                 PROVE  Under(v, s) \/ Under(s, v) \/ LeftOf(v, s) \/ LeftOf(s, v)
      OBVIOUS
    <3>1. top <= s.top /\ s.top + s.height <= top + height /\ s.left = left + gap.left
          /\ s.width = width - gap.left + gap.right
      BY <1>1
    <3>2. \/ v.top + v.height <= top \/ top + height <= v.top
          \/ v.left + v.width <= left \/ left + width + gap.right <= v.left
      BY <1>5
    <3> QED
      BY <1>3, <2>1, <3>1, <3>2 DEF Under, LeftOf, IsWindow
  <2> QED
    BY <1>3, <2>1, <2>2, <2>3, ApartIf
<1>7. NothingCovered(all)
  <2>1. /\ \A s \in all.preview : Apart(all.frame, s)
        /\ \A v \in all.preview, s \in all.input \cup all.header \cup all.lines : Apart(v, s)
    BY <1>6 DEF Stack
  <2> QED
    BY <1>1, <2>1, Pairs
<1>8. \A i \in 1..5 : \A s \in Parts(all)[i] : s \in Stack(all) \/ s \in all.preview
  <2>1. /\ Parts(all)[1] = {all.frame} /\ Parts(all)[2] = all.preview /\ Parts(all)[3] = all.input
        /\ Parts(all)[4] = all.header /\ Parts(all)[5] = all.lines
    BY DEF Parts
  <2>2. \A i \in 1..5 : i = 1 \/ i = 2 \/ i = 3 \/ i = 4 \/ i = 5
    OBVIOUS
  <2> QED
    BY <2>1, <2>2 DEF Stack
<1>9. NothingOutside(k, all)
  <2> SUFFICES ASSUME area.width >= Widest(k, Shown(k, {"left", "right"})),
                      NEW s, s \in Stack(all) \/ s \in all.preview
               PROVE  Inside(k, s)
    BY <1>8 DEF NothingOutside
  <2>1. CASE s \in Stack(all)
    <3>1. /\ IsWindow(s)
          /\ area.height >= 0 => area.top <= s.top /\ s.top + s.height <= area.top + area.height
          /\ area.height < 0 => s.height <= 0
      BY <1>1, <1>3, <1>4, <2>1 DEF IsWindow
    <3>2. area.left <= s.left /\ s.left + s.width <= area.left + area.width + Stick(k)
      BY <1>1, <1>3, <1>4, <2>1
    <3> QED
      BY <3>1, <3>2, InsideIf
  <2>2. CASE s \in all.preview
    BY <1>5, <2>2, InsideIf
  <2> QED
    BY <2>1, <2>2
<1>10. NothingSqueezed(k, all)
  <2> SUFFICES ASSUME Roomy(k)
               PROVE  /\ all.list.height >= 1 /\ all.list.width >= 1
                      /\ Rows(all.list) \subseteq Rows(all.frame)
                      /\ Columns(all.list) \subseteq Columns(all.frame)
                      /\ \A i \in 1..5 : \A s \in Parts(all)[i] : s.width >= 1
                      /\ \A s \in all.input \cup all.lines \cup all.preview : s.height >= 1
    BY DEF NothingSqueezed
  <2>1. /\ all.list.height >= 1 /\ all.list.width >= 1 /\ w.width >= 1 /\ w.width = width - gap.left + gap.right
        /\ Rows(all.list) \subseteq Rows(all.frame) /\ Columns(all.list) \subseteq Columns(all.frame)
    <3>1. LET lists == Lists(k, h, top, left, width, height, gap)
              x == Frame(k, lists)
          IN  /\ x.width = width - gap.left + gap.right
              /\ lists.list.height >= 1 /\ lists.list.width >= 1 /\ x.width >= 1
              /\ Rows(lists.list) \subseteq Rows(x) /\ Columns(lists.list) \subseteq Columns(x)
      BY FrameIs
    <3> QED
      BY <1>2, <3>1
  <2>2. \A i \in 1..5 : \A s \in Parts(all)[i] : s.width >= 1
    BY <1>1, <1>5, <1>8, <2>1
  <2>3. \A s \in all.preview : s.height >= 1
    BY <1>5
  <2>4. \A s \in all.input \cup all.lines : s.height >= 1
    <3>1. Asked(k) \in Nat
      <4>1. Some(Shown(k, {"up", "down"}))
        BY ShownSome
      <4>2. CASE Shown(k, {"up", "down"}) = {}
        <5>1. {PreviewSize(k, p, Area(k)) : p \in Shown(k, {"up", "down"})} = {}
          BY <4>2
        <5> QED
          BY <5>1, MaxOfOne DEF Asked
      <4>3. ASSUME NEW p, Shown(k, {"up", "down"}) = {p}, IsOptions(p)
            PROVE  Asked(k) \in Nat
        <5>1. {PreviewSize(k, q, Area(k)) : q \in Shown(k, {"up", "down"})} = {PreviewSize(k, p, Area(k))}
          BY <4>3
        <5>2. PreviewSize(k, p, Area(k)) \in Nat
          <6>1. MinPreviewHeight(p) \in Nat /\ MinHeight - One(~k.separator) \in Int /\ area.height \in Int
            BY <4>3, MinPreview DEF MinHeight, One, AreaOf
          <6>2. p.position \in {"up", "down"}
            BY <4>3 DEF Shown
          <6>3. PreviewSize(k, p, Area(k))
                  = CalculateSize(area.height, p, MinHeight - One(~k.separator), MinPreviewHeight(p))
            BY <6>2 DEF PreviewSize
          <6> QED
            BY <4>3, <6>1, <6>3, SizeBounds
        <5> QED
          BY <5>1, <5>2, MaxOfOne DEF Asked
      <4> QED
        BY <4>1, <4>2, <4>3 DEF Some
    <3>2. Wanted(k) <= area.height
      <4>1. area.height - ExtraLines(k) >= 1 + Asked(k)
        BY AreaIs DEF Roomy
      <4>2. BorderLines(k.listBorder) \in Nat /\ Wanted(k) \in Nat
        BY WantedTyped, BorderLinesAre DEF Wanted, One
      <4> QED
        BY <1>3, <3>1, <4>1, <4>2, ExtraLinesAre
    <3>3. h.input = WantedInput(k) /\ h.lines = WantedLines(k)
      BY <1>3, <3>2, HeightsAre
    <3>4. /\ HasInputWindow(k) => WantedInput(k) >= 1
          /\ HasLinesWindow(k) => WantedLines(k) >= 1
      <4>1. BorderLines(k.inputBorder) \in Nat /\ BorderLines(k.linesBorder) \in Nat
        BY BorderLinesAre DEF One
      <4> QED
        BY <4>1 DEF WantedInput, WantedLines, HasLinesWindow, One, IsConfiguration
    <3>5. /\ \A s \in all.input : HasInputWindow(k) /\ s.height = h.input
          /\ \A s \in all.lines : HasLinesWindow(k) /\ s.height = h.lines
      BY DEF WindowsIn, Aligned, Window
    <3> QED
      BY <3>3, <3>4, <3>5
  <2> QED
    BY <2>1, <2>2, <2>3, <2>4
<1> QED
  BY <1>7, <1>9, <1>10

\* The windows of fzf for every configuration and every size of the screen.
THEOREM LayoutIsExact ==
  ASSUME NEW k, IsConfiguration(k)
  PROVE  LayoutExact(k)
<1> DEFINE area == Area(k)
           h == Heights(k, area.height)
           panes == Panes(k, area, h)
           w == Frame(k, panes.lists)
           all == WindowsIn(k, h, panes, w)
<1>1. AreaOf(k, area)
  BY AreaIs
<1>2. ResizeWindows(k) = all
  BY DEF ResizeWindows
<1> HIDE DEF area, h, panes, w, all
<1>3. /\ IsConfiguration(k) /\ area = Area(k) /\ h = Heights(k, area.height)
      /\ panes = Panes(k, area, h) /\ w = Frame(k, panes.lists) /\ all = WindowsIn(k, h, panes, w)
  BY DEF area, h, panes, w, all
<1>4. \E top, left, width, height, gap :
         /\ panes.lists = Lists(k, h, top, left, width, height, gap)
         /\ ListPane(k, area, h, top, left, width, height, gap)
         /\ \A v \in panes.preview : PreviewPane(k, area, v, top, left, width, height, gap)
         /\ k.preview = {} => height = area.height
  <2>1. CASE Active(k, k.preview, area) = {}
    BY <1>1, <1>3, <2>1, PaneAlone
  <2>2. ASSUME NEW p, IsOptions(p), Active(k, k.preview, area) = {p}, p.position \in {"up", "down"}
        PROVE  \E top, left, width, height, gap :
                  /\ panes.lists = Lists(k, h, top, left, width, height, gap)
                  /\ ListPane(k, area, h, top, left, width, height, gap)
                  /\ \A v \in panes.preview : PreviewPane(k, area, v, top, left, width, height, gap)
    BY <1>1, <1>3, <2>2, PaneAbove
  <2>3. ASSUME NEW p, IsOptions(p), Active(k, k.preview, area) = {p}, p.position \in {"left", "right"}
        PROVE  \E top, left, width, height, gap :
                  /\ panes.lists = Lists(k, h, top, left, width, height, gap)
                  /\ ListPane(k, area, h, top, left, width, height, gap)
                  /\ \A v \in panes.preview : PreviewPane(k, area, v, top, left, width, height, gap)
    BY <1>1, <1>3, <2>3, PaneBeside
  <2>4. k.preview = {} => Active(k, k.preview, area) = {}
    BY DEF Active, Sized
  <2>5. CASE k.preview # {}
    <3>1. Some(Active(k, k.preview, area))
      BY ActiveSome
    <3>2. CASE \E p : Active(k, k.preview, area) = {p} /\ IsOptions(p)
      <4> PICK p : Active(k, k.preview, area) = {p} /\ IsOptions(p)
        BY <3>2
      <4>1. p.position \in {"up", "down"} \/ p.position \in {"left", "right"}
        BY DEF IsOptions
      <4> QED
        BY <2>2, <2>3, <2>5, <4>1
    <3> QED
      BY <2>1, <3>1, <3>2 DEF Some
  <2> QED
    BY <2>1, <2>4, <2>5
<1>5. PICK top, left, width, height, gap :
         /\ panes.lists = Lists(k, h, top, left, width, height, gap)
         /\ ListPane(k, area, h, top, left, width, height, gap)
         /\ \A v \in panes.preview : PreviewPane(k, area, v, top, left, width, height, gap)
         /\ k.preview = {} => height = area.height
  BY <1>4
<1>6. NothingCovered(all) /\ NothingOutside(k, all) /\ NothingSqueezed(k, all)
  BY <1>1, <1>3, <1>5, Placed
<1>7. FitsExactly(k)
  <2> SUFFICES ASSUME k.preview = {}
               PROVE  MaxItems(k) = Max2(0, MaxFit(k))
    BY DEF FitsExactly
  <2>1. all.list.height = area.height - Total(h) - BorderLines(k.listBorder)
    <3>1. LET lists == Lists(k, h, top, left, width, height, gap)
          IN  lists.list.height = height - Total(h) - BorderLines(k.listBorder)
      BY <1>5, FrameIs
    <3>2. all.list = panes.lists.list
      BY <1>3 DEF WindowsIn
    <3> QED
      BY <1>5, <3>1, <3>2
  <2>2. MaxItems(k) = Max2(0, all.list.height - HeaderInList(k) - PromptLines(k))
    BY <1>2 DEF MaxItems
  <2>3. MaxFit(k) = area.height - ExtraLines(k) /\ area.height \in Int
    BY <1>3, AreaIs DEF AreaOf
  <2>4. /\ ExtraLines(k) = BorderLines(k.listBorder) + Wanted(k) + HeaderInList(k) + PromptLines(k)
        /\ HeaderInList(k) \in Nat /\ PromptLines(k) \in Nat
        /\ BorderLines(k.listBorder) \in Nat /\ Wanted(k) \in Nat
    BY ExtraLinesAre, BorderLinesAre, WantedTyped DEF One, Wanted
  <2>5. /\ Total(h) \in Int
        /\ Wanted(k) <= area.height => Total(h) = Wanted(k)
        /\ Wanted(k) > area.height /\ area.height >= 0 => Total(h) = area.height
        /\ area.height < 0 => Total(h) >= area.height
    BY <1>3, <2>3, HeightsAre DEF Total, Wanted
  <2> QED
    BY <2>1, <2>2, <2>3, <2>4, <2>5 DEF Max2
<1> QED
  BY <1>2, <1>6, <1>7 DEF LayoutExact

(*****************************************************************************)
(* Rank.  compareRanks orders the matches of a scan, so that an item is known*)
(* by the number of those before it; what Merger has merged at any time are  *)
(* the first of all matches; and the slices of a scan, flattened, are the    *)
(* scan.  Recursive functions are shown to exist, and are then followed step *)
(* by step, by induction on a set (SetInduction).                            *)
(*****************************************************************************)

\* A set of natural numbers that is not empty has a least element.
LEMMA LeastElement ==
  ASSUME NEW T, T \subseteq Nat, T # {}
  PROVE  \E m \in T : \A k \in T : m <= k
<1> DEFINE R == OpToRel(<, Nat)
<1>1. \A x, y \in Nat : <<x, y>> \in R <=> x < y
  BY DEF OpToRel
<1> HIDE DEF R
<1>2. IsWellFoundedOn(R, Nat)
  BY NatLessThanWellFounded DEF R
<1>3. PICK x \in T : \A y \in T : ~ (<<y, x>> \in R)
  BY <1>2, WFMin
<1>4. \A y \in T : ~ (y < x)
  BY <1>1, <1>3
<1>5. \A y \in T : x <= y
  BY <1>4
<1> QED
  BY <1>5

\* Induction, for a set in place of a predicate.
LEMMA SetInduction ==
  ASSUME NEW S, 0 \in S, \A n \in Nat : n \in S => n + 1 \in S
  PROVE  Nat \subseteq S
<1> SUFFICES ASSUME Nat \ S # {} PROVE FALSE
  OBVIOUS
<1>1. PICK m \in Nat \ S : \A k \in Nat \ S : m <= k
  BY LeastElement
<1>2. m # 0 /\ m - 1 \in Nat
  BY <1>1
<1>3. m - 1 \in S
  BY <1>1, <1>2
<1> QED
  BY <1>1, <1>2, <1>3

(***************************************************************************)
(* The order of matches                                                    *)
(***************************************************************************)

\* Matches of one scan: as many points for each, and no item twice.
AreResults(all) ==
    /\ \A r, s \in all : /\ r.points \in Seq(Nat) /\ r.index \in Nat
                         /\ Len(r.points) = Len(s.points)
                         /\ r.index = s.index => r = s

Precedes(r, s, tac) == r # s /\ CompareRanks(r, s, tac)

\* The first criterion that makes a difference decides.
Agree(r, s, d) == \A i \in 1..(d - 1) : r.points[i] = s.points[i]

LEMMA ComparedAt ==
  ASSUME NEW all, AreResults(all), NEW r \in all, NEW s \in all, NEW tac \in BOOLEAN
  PROVE  \/ /\ \A i \in 1..Len(r.points) : r.points[i] = s.points[i]
            /\ CompareRanks(r, s, tac) <=> (r.index <= s.index) # tac
         \/ \E d \in 1..Len(r.points) :
               /\ Agree(r, s, d) /\ r.points[d] # s.points[d]
               /\ CompareRanks(r, s, tac) <=> r.points[d] < s.points[d]
<1> DEFINE differ == {i \in 1..Len(r.points) : r.points[i] # s.points[i]}
<1>0. DOMAIN r.points = 1..Len(r.points)
  BY DEF AreResults
<1>1. CASE differ = {}
  BY <1>0, <1>1 DEF CompareRanks
<1>2. CASE differ # {}
  <2>1. differ \subseteq Nat
    BY DEF AreResults
  <2>2. PICK d \in differ : \A i \in differ : d <= i
    <3> HIDE DEF differ
    <3> QED
      BY <1>2, <2>1, LeastElement
  <2>3. Min(differ) = d
    BY <2>1, <2>2 DEF Min
  <2>4. CompareRanks(r, s, tac) <=> r.points[d] < s.points[d]
    BY <1>0, <1>2, <2>3 DEF CompareRanks
  <2>5. Agree(r, s, d)
    <3>1. \A i \in 1..(d - 1) : i \in 1..Len(r.points) /\ ~(d <= i)
      BY <2>2 DEF AreResults
    <3> QED
      BY <2>2, <3>1 DEF Agree
  <2> QED
    BY <2>2, <2>4, <2>5
<1> QED
  BY <1>1, <1>2

\* compareRanks orders the matches of a scan: of two one is first, and what is
\* before another is before what comes after that (result.go).
LEMMA FirstDifference ==
  ASSUME NEW n \in Nat, NEW d \in 1..n, NEW e \in 1..n, NEW r, NEW s, Agree(r, s, d), Agree(r, s, e),
         r.points[d] # s.points[d], r.points[e] # s.points[e]
  PROVE  d = e
  BY DEF Agree

LEMMA Ordered ==
  ASSUME NEW all, AreResults(all), NEW tac \in BOOLEAN
  PROVE  /\ \A r, s \in all : r # s => Precedes(r, s, tac) \/ Precedes(s, r, tac)
         /\ \A r, s \in all : ~(Precedes(r, s, tac) /\ Precedes(s, r, tac))
         /\ \A r, s, t \in all : Precedes(r, s, tac) /\ Precedes(s, t, tac) => Precedes(r, t, tac)
<1>1. \A r, s \in all : /\ Len(r.points) = Len(s.points) /\ Len(r.points) \in Nat
                        /\ r.index \in Int
                        /\ \A i \in 1..Len(r.points) : r.points[i] \in Int
                        /\ r.index = s.index => r = s
  BY DEF AreResults
<1>2. ASSUME NEW r \in all, NEW s \in all, r # s
      PROVE  CompareRanks(r, s, tac) <=> ~CompareRanks(s, r, tac)
  <2>1. CASE \A i \in 1..Len(r.points) : r.points[i] = s.points[i]
    <3>1. /\ CompareRanks(r, s, tac) <=> (r.index <= s.index) # tac
          /\ CompareRanks(s, r, tac) <=> (s.index <= r.index) # tac
      BY <1>1, <2>1, ComparedAt
    <3>2. r.index # s.index
      BY <1>1, <1>2
    <3>3. r.index <= s.index <=> ~(s.index <= r.index)
      BY <1>1, <3>2
    <3> QED
      BY <3>1, <3>3
  <2>2. CASE ~\A i \in 1..Len(r.points) : r.points[i] = s.points[i]
    <3>1. PICK d \in 1..Len(r.points) : Agree(r, s, d) /\ r.points[d] # s.points[d]
                                       /\ (CompareRanks(r, s, tac) <=> r.points[d] < s.points[d])
      BY <2>2, ComparedAt
    <3>2. PICK e \in 1..Len(s.points) : Agree(s, r, e) /\ s.points[e] # r.points[e]
                                       /\ (CompareRanks(s, r, tac) <=> s.points[e] < r.points[e])
      BY <1>1, <2>2, ComparedAt
    <3>3. d = e
      <4>1. Agree(r, s, e)
        BY <1>1, <3>2 DEF Agree
      <4> QED
        BY <1>1, <3>1, <3>2, <4>1, FirstDifference
    <3> QED
      BY <1>1, <3>1, <3>2, <3>3
  <2> QED
    BY <2>1, <2>2
<1>3. ASSUME NEW r \in all, NEW s \in all, NEW t \in all, Precedes(r, s, tac), Precedes(s, t, tac), r # t
      PROVE  CompareRanks(r, t, tac)
  <2>1. CompareRanks(r, s, tac) /\ CompareRanks(s, t, tac) /\ r # s /\ s # t
    BY <1>3 DEF Precedes
  <2>2. CASE \A i \in 1..Len(r.points) : r.points[i] = s.points[i]
    <3>1. (r.index <= s.index) # tac
      BY <1>1, <2>1, <2>2, ComparedAt
    <3>2. CASE \A i \in 1..Len(s.points) : s.points[i] = t.points[i]
      <4>1. (s.index <= t.index) # tac
        BY <1>1, <2>1, <3>2, ComparedAt
      <4>2. \A i \in 1..Len(r.points) : r.points[i] = t.points[i]
        BY <1>1, <2>2, <3>2
      <4>3. CompareRanks(r, t, tac) <=> (r.index <= t.index) # tac
        BY <4>2, ComparedAt
      <4>4. r.index # t.index /\ r.index # s.index /\ s.index # t.index
        BY <1>1, <1>3, <2>1
      <4>5. (r.index <= t.index) # tac
        <5>1. CASE tac
          <6>1. ~(r.index <= s.index) /\ ~(s.index <= t.index)
            BY <3>1, <4>1, <5>1
          <6>2. ~(r.index <= t.index)
            BY <1>1, <6>1
          <6> QED
            BY <5>1, <6>2
        <5>2. CASE ~tac
          <6>1. r.index <= s.index /\ s.index <= t.index
            BY <3>1, <4>1, <5>2
          <6>2. r.index <= t.index
            BY <1>1, <6>1
          <6> QED
            BY <5>2, <6>2
        <5> QED
          BY <5>1, <5>2
      <4> QED
        BY <4>3, <4>5
    <3>3. CASE ~\A i \in 1..Len(s.points) : s.points[i] = t.points[i]
      <4>1. PICK e \in 1..Len(s.points) : Agree(s, t, e) /\ s.points[e] < t.points[e]
        BY <2>1, <3>3, ComparedAt
      <4>2. PICK d \in 1..Len(r.points) : Agree(r, t, d) /\ r.points[d] # t.points[d]
                                         /\ (CompareRanks(r, t, tac) <=> r.points[d] < t.points[d])
        <5>1. e \in 1..Len(r.points) /\ r.points[e] # t.points[e]
          BY <1>1, <2>2, <4>1
        <5> QED
          BY <5>1, ComparedAt
      <4>3. d = e
        <5>1. /\ Agree(r, t, e) /\ r.points[e] = s.points[e] /\ s.points[e] # t.points[e]
              /\ e \in 1..Len(r.points)
          <6>1. Len(s.points) = Len(r.points) /\ Len(r.points) \in Nat /\ e \in 1..Len(r.points)
            BY <1>1
          <6>2. \A i \in 1..(e - 1) : i \in 1..Len(r.points) /\ r.points[i] = s.points[i]
            BY <2>2, <6>1
          <6>3. Agree(r, t, e)
            BY <4>1, <6>2 DEF Agree
          <6>4. r.points[e] = s.points[e]
            BY <2>2, <6>1
          <6>5. s.points[e] # t.points[e]
            BY <1>1, <4>1
          <6> QED
            BY <6>1, <6>3, <6>4, <6>5
        <5> QED
          BY <1>1, <4>2, <5>1, FirstDifference
      <4> QED
        BY <1>1, <2>2, <4>1, <4>2, <4>3
    <3> QED
      BY <3>2, <3>3
  <2>3. CASE ~\A i \in 1..Len(r.points) : r.points[i] = s.points[i]
    <3>1. PICK d \in 1..Len(r.points) : Agree(r, s, d) /\ r.points[d] < s.points[d]
      BY <2>1, <2>3, ComparedAt
    <3>2. PICK f \in 1..Len(r.points) : r.points[f] < t.points[f] /\ Agree(r, t, f)
      <4>0. d \in 1..Len(s.points) /\ d \in Int /\ r.points[d] \in Int /\ s.points[d] \in Int /\ t.points[d] \in Int
        BY <1>1
      <4>1. CASE \A i \in 1..Len(s.points) : s.points[i] = t.points[i]
        <5>1. r.points[d] < t.points[d] /\ Agree(r, t, d)
          BY <1>1, <3>1, <4>0, <4>1 DEF Agree
        <5> QED
          BY <5>1
      <4>2. CASE ~\A i \in 1..Len(s.points) : s.points[i] = t.points[i]
        <5>1. PICK e \in 1..Len(s.points) : Agree(s, t, e) /\ s.points[e] < t.points[e]
          BY <2>1, <4>2, ComparedAt
        <5>2. e \in 1..Len(r.points) /\ e \in Int /\ r.points[e] \in Int /\ s.points[e] \in Int /\ t.points[e] \in Int
          BY <1>1
        <5>3. CASE d < e
          <6>1. s.points[d] = t.points[d] /\ Agree(s, t, d)
            BY <4>0, <5>1, <5>2, <5>3 DEF Agree
          <6>2. Agree(r, t, d) /\ r.points[d] < t.points[d]
            BY <3>1, <6>1 DEF Agree
          <6> QED
            BY <6>2
        <5>4. CASE d = e
          <6>1. r.points[d] < t.points[d] /\ Agree(r, t, d)
            BY <3>1, <4>0, <5>1, <5>4 DEF Agree
          <6> QED
            BY <6>1
        <5>5. CASE d > e
          <6>1. s.points[e] = r.points[e] /\ Agree(r, s, e)
            BY <3>1, <4>0, <5>2, <5>5 DEF Agree
          <6>2. Agree(r, t, e) /\ r.points[e] < t.points[e]
            BY <5>1, <6>1 DEF Agree
          <6> QED
            BY <5>2, <6>2
        <5> QED
          BY <4>0, <5>2, <5>3, <5>4, <5>5
      <4> QED
        BY <4>1, <4>2
    <3>3. PICK g \in 1..Len(r.points) : Agree(r, t, g) /\ r.points[g] # t.points[g]
                                       /\ (CompareRanks(r, t, tac) <=> r.points[g] < t.points[g])
      <4>1. f \in 1..Len(r.points) /\ r.points[f] # t.points[f]
        BY <1>1, <3>2
      <4> QED
        BY <4>1, ComparedAt
    <3>4. f = g
      <4>1. r.points[f] # t.points[f]
        BY <1>1, <3>2
      <4> QED
        BY <1>1, <3>2, <3>3, <4>1, FirstDifference
    <3> QED
      BY <3>2, <3>3, <3>4
  <2> QED
    BY <2>2, <2>3
<1>4. \A r, s \in all : r # s => Precedes(r, s, tac) \/ Precedes(s, r, tac)
  BY <1>2 DEF Precedes
<1>5. \A r, s \in all : ~(Precedes(r, s, tac) /\ Precedes(s, r, tac))
  BY <1>2 DEF Precedes
<1>6. \A r, s, t \in all : Precedes(r, s, tac) /\ Precedes(s, t, tac) => Precedes(r, t, tac)
  BY <1>3, <1>5 DEF Precedes
<1> QED
  BY <1>4, <1>5, <1>6

\* The number of those before a match grows with the order.
LEMMA Fewer ==
  ASSUME NEW all, IsFiniteSet(all), AreResults(all), NEW tac \in BOOLEAN
  PROVE  /\ \A r \in all : /\ Cardinality(Before(all, r, tac)) \in Nat
                           /\ Cardinality(Before(all, r, tac)) < Cardinality(all)
         /\ \A r, s \in all : Precedes(r, s, tac) =>
                Cardinality(Before(all, r, tac)) < Cardinality(Before(all, s, tac))
         /\ \A r, s \in all : Cardinality(Before(all, r, tac)) = Cardinality(Before(all, s, tac)) => r = s
<1>1. \A r \in all : Before(all, r, tac) = {s \in all : Precedes(s, r, tac)}
  BY DEF Before, Precedes
<1>2. ASSUME NEW S \in SUBSET all, NEW T \in SUBSET all, S \subseteq T, S # T
      PROVE  Cardinality(S) < Cardinality(T)
  <2>1. IsFiniteSet(T) /\ Cardinality(T) \in Nat /\ IsFiniteSet(S) /\ Cardinality(S) \in Nat
    BY FS_Subset, FS_CardinalityType
  <2>2. Cardinality(S) <= Cardinality(T) /\ (Cardinality(T) = Cardinality(S) => T = S)
    BY <1>2, <2>1, FS_Subset
  <2> QED
    BY <1>2, <2>1, <2>2
<1>3. \A r \in all : Before(all, r, tac) \in SUBSET all /\ r \notin Before(all, r, tac)
  BY DEF Before
<1>4. ASSUME NEW r \in all
      PROVE  /\ Cardinality(Before(all, r, tac)) \in Nat
             /\ Cardinality(Before(all, r, tac)) < Cardinality(all)
  <2>1. IsFiniteSet(Before(all, r, tac))
    BY <1>3, FS_Subset
  <2>2. Before(all, r, tac) # all
    BY <1>3
  <2> QED
    BY <1>2, <1>3, <2>1, <2>2, FS_CardinalityType
<1>5. ASSUME NEW r \in all, NEW s \in all, Precedes(r, s, tac)
      PROVE  Cardinality(Before(all, r, tac)) < Cardinality(Before(all, s, tac))
  <2>1. Before(all, r, tac) \subseteq Before(all, s, tac)
    BY <1>1, <1>5, Ordered
  <2>2. r \in Before(all, s, tac)
    BY <1>1, <1>5
  <2>3. Before(all, r, tac) # Before(all, s, tac)
    BY <1>3, <2>2
  <2> QED
    BY <1>2, <1>3, <2>1, <2>3
<1>6. ASSUME NEW r \in all, NEW s \in all,
             Cardinality(Before(all, r, tac)) = Cardinality(Before(all, s, tac)), r # s
      PROVE  FALSE
  <2>1. Precedes(r, s, tac) \/ Precedes(s, r, tac)
    BY <1>6, Ordered
  <2> QED
    BY <1>4, <1>5, <1>6, <2>1
<1> QED
  BY <1>4, <1>5, <1>6

\* A sequence in order.
Increasing(seq, tac) == \A i, j \in DOMAIN seq : i < j => Precedes(seq[i], seq[j], tac)

\* A sequence without an item twice has as many items as places.
LEMMA RangeCount ==
  ASSUME NEW T, NEW seq \in Seq(T), \A i, j \in DOMAIN seq : seq[i] = seq[j] => i = j
  PROVE  IsFiniteSet(Range(seq)) /\ Cardinality(Range(seq)) = Len(seq)
<1>1. DOMAIN seq = 1..Len(seq) /\ Len(seq) \in Nat
  OBVIOUS
<1>2. seq \in Bijection(1..Len(seq), Range(seq))
  BY <1>1 DEF Bijection, Injection, Surjection, IsInjective, Range
<1>3. ExistsBijection(1..Len(seq), Range(seq))
  BY <1>2 DEF ExistsBijection
<1>4. IsFiniteSet(1..Len(seq)) /\ Cardinality(1..Len(seq)) = Len(seq)
  BY <1>1, FS_Interval
<1> QED
  BY <1>3, <1>4, FS_Bijection

\* What sort.Sort makes of it: the same items, in order.
LEMMA SortedIs ==
  ASSUME NEW all, IsFiniteSet(all), AreResults(all), NEW tac \in BOOLEAN,
         NEW seq \in Seq(all), \A i, j \in DOMAIN seq : seq[i] = seq[j] => i = j
  PROVE  LET sorted == Sorted(seq, tac)
         IN  /\ sorted \in Seq(all) /\ Len(sorted) = Len(seq) /\ Range(sorted) = Range(seq)
             /\ Increasing(sorted, tac)
             /\ \A n \in DOMAIN seq : /\ sorted[n] \in Range(seq)
                                      /\ Cardinality(Before(Range(seq), sorted[n], tac)) = n - 1
<1> DEFINE own == Range(seq)
           n == Len(seq)
           count == [r \in own |-> Cardinality(Before(own, r, tac))]
           sorted == Sorted(seq, tac)
<1>1. IsFiniteSet(own) /\ Cardinality(own) = n /\ n \in Nat /\ DOMAIN seq = 1..n /\ own \subseteq all
  <2>1. IsFiniteSet(own) /\ Cardinality(own) = n
    BY RangeCount
  <2> QED
    BY <2>1 DEF Range
<1>2. AreResults(own)
  BY <1>1 DEF AreResults
<1> HIDE DEF own
<1>3. count \in [own -> 0..(n - 1)]
  BY <1>1, <1>2, Fewer
<1>4. count \in Injection(own, 0..(n - 1))
  BY <1>1, <1>2, <1>3, Fewer DEF Injection, IsInjective
<1>5. IsFiniteSet(0..(n - 1)) /\ Cardinality(0..(n - 1)) = n
  <2> HIDE DEF n
  <2>1. n \in Nat /\ n - 1 \in Int
    BY <1>1
  <2>2. Cardinality(0..(n - 1)) = IF 0 > n - 1 THEN 0 ELSE (n - 1) - 0 + 1
    BY <2>1, FS_Interval
  <2> QED
    BY <2>1, <2>2, FS_Interval
<1>6. count \in Surjection(own, 0..(n - 1))
  BY <1>1, <1>4, <1>5, FS_Injection
<1>7. \A i \in 1..n : \E r \in own : Cardinality(Before(own, r, tac)) = i - 1
  <2> SUFFICES ASSUME NEW i \in 1..n
               PROVE  \E r \in own : Cardinality(Before(own, r, tac)) = i - 1
    OBVIOUS
  <2>1. i - 1 \in 0..(n - 1)
    BY <1>1
  <2> QED
    BY <1>6, <2>1 DEF Surjection
<1>8. sorted = [i \in 1..n |-> CHOOSE r \in own : Cardinality(Before(own, r, tac)) = i - 1]
  BY <1>1 DEF Sorted, own
<1>9. \A i \in 1..n : sorted[i] \in own /\ Cardinality(Before(own, sorted[i], tac)) = i - 1
  BY <1>7, <1>8
<1>10. DOMAIN sorted = 1..n /\ sorted \in [1..n -> all]
  BY <1>1, <1>8, <1>9
<1>11. sorted \in Seq(all) /\ Len(sorted) = n
  BY <1>1, <1>10
<1> HIDE DEF sorted, n, count
<1>12. Range(sorted) = own
  <2>1. Range(sorted) \subseteq own
    BY <1>9, <1>10 DEF Range
  <2>2. ASSUME NEW r \in own
        PROVE  r \in Range(sorted)
    <3>1. Cardinality(Before(own, r, tac)) \in 0..(n - 1)
      BY <1>3 DEF count
    <3>2. PICK i \in 1..n : Cardinality(Before(own, r, tac)) = i - 1
      BY <1>1, <3>1
    <3>3. sorted[i] = r
      BY <1>1, <1>2, <1>9, <3>2, Fewer
    <3> QED
      BY <1>10, <3>3 DEF Range
  <2> QED
    BY <2>1, <2>2
<1>13. Increasing(sorted, tac)
  <2> SUFFICES ASSUME NEW i \in 1..n, NEW j \in 1..n, i < j
               PROVE  Precedes(sorted[i], sorted[j], tac)
    BY <1>10 DEF Increasing
  <2>1. i - 1 < j - 1
    BY <1>1
  <2>2. /\ sorted[i] \in own /\ sorted[j] \in own
        /\ Cardinality(Before(own, sorted[i], tac)) < Cardinality(Before(own, sorted[j], tac))
    BY <1>9, <2>1
  <2>3. sorted[i] # sorted[j] /\ ~Precedes(sorted[j], sorted[i], tac)
    <3>1. Cardinality(Before(own, sorted[i], tac)) = i - 1 /\ Cardinality(Before(own, sorted[j], tac)) = j - 1
      BY <1>9
    <3>2. Precedes(sorted[j], sorted[i], tac) =>
              Cardinality(Before(own, sorted[j], tac)) < Cardinality(Before(own, sorted[i], tac))
      BY <1>1, <1>2, <2>2, Fewer
    <3>3. ~(j - 1 < i - 1) /\ i - 1 # j - 1
      BY <1>1
    <3> QED
      BY <3>1, <3>2, <3>3
  <2> QED
    BY <1>2, <2>2, <2>3, Ordered
<1> QED
  BY <1>1, <1>9, <1>11, <1>12, <1>13 DEF own, n, sorted

(***************************************************************************)
(* The merge                                                               *)
(***************************************************************************)

\* The beginning of all matches in order.
Leading(seq, all, tac) ==
    /\ seq \in Seq(all) /\ Increasing(seq, tac)
    /\ \A i \in DOMAIN seq, y \in all \ Range(seq) : Precedes(seq[i], y, tac)

\* Its item n has n - 1 others before it.
LEMMA LeadingCount ==
  ASSUME NEW all, IsFiniteSet(all), AreResults(all), NEW tac \in BOOLEAN,
         NEW seq, Leading(seq, all, tac), NEW n \in DOMAIN seq
  PROVE  seq[n] \in all /\ Cardinality(Before(all, seq[n], tac)) = n - 1
<1>1. DOMAIN seq = 1..Len(seq) /\ Len(seq) \in Nat /\ \A i \in 1..Len(seq) : seq[i] \in all
  BY DEF Leading
<1>2. \A i, j \in 1..Len(seq) : i < j => Precedes(seq[i], seq[j], tac)
  BY <1>1 DEF Leading, Increasing
<1> DEFINE first == [i \in 1..(n - 1) |-> seq[i]]
<1>3. Before(all, seq[n], tac) = Range(first)
  <2>1. ASSUME NEW i \in 1..(n - 1)
        PROVE  seq[i] \in Before(all, seq[n], tac)
    <3>1. i \in 1..Len(seq) /\ n \in 1..Len(seq) /\ i < n
      BY <1>1
    <3> QED
      BY <1>1, <1>2, <3>1 DEF Before, Precedes
  <2>2. ASSUME NEW y \in Before(all, seq[n], tac)
        PROVE  \E i \in 1..(n - 1) : y = seq[i]
    <3>1. y \in all /\ Precedes(y, seq[n], tac)
      BY DEF Before, Precedes
    <3>2. ~Precedes(seq[n], y, tac)
      BY <1>1, <3>1, Ordered
    <3>3. y \in Range(seq)
      BY <3>1, <3>2 DEF Leading
    <3>4. PICK i \in 1..Len(seq) : y = seq[i]
      BY <1>1, <3>3 DEF Range
    <3>5. i # n /\ ~(n < i)
      BY <1>1, <1>2, <3>1, <3>2, <3>4 DEF Precedes
    <3> QED
      BY <1>1, <3>4, <3>5
  <2> QED
    BY <2>1, <2>2 DEF Range
<1>4. first \in Seq(all) /\ Len(first) = n - 1
  <2>1. n - 1 \in Nat /\ \A i \in 1..(n - 1) : i \in 1..Len(seq)
    BY <1>1
  <2> QED
    BY <1>1, <2>1
<1>5. \A i, j \in DOMAIN first : first[i] = first[j] => i = j
  <2> SUFFICES ASSUME NEW i \in 1..(n - 1), NEW j \in 1..(n - 1), seq[i] = seq[j], i # j
               PROVE  FALSE
    OBVIOUS
  <2>1. i \in 1..Len(seq) /\ j \in 1..Len(seq) /\ (i < j \/ j < i)
    BY <1>1
  <2> QED
    BY <1>2, <2>1 DEF Precedes
<1> HIDE DEF first
<1> QED
  BY <1>1, <1>3, <1>4, <1>5, RangeCount

\* Sorted lists without a match in two places; together they are all matches.
AreLists(lists, all, tac) ==
    /\ DOMAIN lists = 1..Len(lists) /\ Len(lists) \in Nat
    /\ \A l \in 1..Len(lists) : lists[l] \in Seq(all) /\ Increasing(lists[l], tac)
    /\ \A k, l \in 1..Len(lists) : \A i \in 1..Len(lists[k]), j \in 1..Len(lists[l]) :
           lists[k][i] = lists[l][j] => k = l
    /\ \A r \in all : \E l \in 1..Len(lists) : \E i \in 1..Len(lists[l]) : r = lists[l][i]

\* The merger of such lists at any time: what is merged leads, the rest is unread.
Merging(mg, lists, all, tac) ==
    /\ mg = [lists |-> mg.lists, merged |-> mg.merged, cursors |-> mg.cursors,
             sorted |-> mg.sorted, tac |-> mg.tac]
    /\ mg.lists = lists /\ mg.sorted = TRUE /\ mg.tac = tac
    /\ mg.cursors \in [1..Len(lists) -> Nat \ {0}]
    /\ Leading(mg.merged, all, tac)
    /\ all \ Range(mg.merged)
          = {r \in all : \E l \in 1..Len(lists) : \E i \in 1..Len(lists[l]) :
                             i >= mg.cursors[l] /\ r = lists[l][i]}

\* mergedGet finds one head that is before the others.
LEMMA BestIs ==
  ASSUME NEW all, IsFiniteSet(all), AreResults(all), NEW tac \in BOOLEAN,
         NEW lists, AreLists(lists, all, tac), NEW mg, Merging(mg, lists, all, tac), Left(mg) # {}
  PROVE  /\ BestOf(mg) \in Left(mg)
         /\ \A k \in Left(mg) \ {BestOf(mg)} : Precedes(At(mg, BestOf(mg)), At(mg, k), tac)
<1>1. Left(mg) = {l \in 1..Len(lists) : mg.cursors[l] <= Len(lists[l])} /\ mg.tac = tac
  BY DEF Left, Merging, AreLists
<1>2. \A l \in Left(mg) : /\ l \in 1..Len(lists) /\ mg.cursors[l] \in 1..Len(lists[l])
                          /\ At(mg, l) = lists[l][mg.cursors[l]] /\ At(mg, l) \in all
  <2> SUFFICES ASSUME NEW l \in Left(mg)
               PROVE  /\ l \in 1..Len(lists) /\ mg.cursors[l] \in 1..Len(lists[l])
                      /\ At(mg, l) = lists[l][mg.cursors[l]] /\ At(mg, l) \in all
    OBVIOUS
  <2>1. l \in 1..Len(lists) /\ mg.cursors[l] <= Len(lists[l]) /\ mg.cursors[l] \in Nat \ {0}
    BY <1>1 DEF Merging
  <2>2. lists[l] \in Seq(all)
    BY <2>1 DEF AreLists
  <2>3. mg.cursors[l] \in 1..Len(lists[l])
    BY <2>1, <2>2
  <2> QED
    BY <2>1, <2>2, <2>3 DEF At, Merging
<1>3. \A k, l \in Left(mg) : k # l => At(mg, k) # At(mg, l)
  <2> SUFFICES ASSUME NEW k \in Left(mg), NEW l \in Left(mg), At(mg, k) = At(mg, l)
               PROVE  k = l
    OBVIOUS
  <2>1. /\ k \in 1..Len(lists) /\ l \in 1..Len(lists)
        /\ mg.cursors[k] \in 1..Len(lists[k]) /\ mg.cursors[l] \in 1..Len(lists[l])
        /\ lists[k][mg.cursors[k]] = lists[l][mg.cursors[l]]
    BY <1>2
  <2>2. \A i \in 1..Len(lists[k]), j \in 1..Len(lists[l]) : lists[k][i] = lists[l][j] => k = l
    BY <2>1 DEF AreLists
  <2> QED
    BY <2>1, <2>2
<1> DEFINE count(l) == Cardinality(Before(all, At(mg, l), tac))
           counts == {count(l) : l \in Left(mg)}
<1>4. PICK l \in Left(mg) : \A k \in Left(mg) : count(l) <= count(k)
  <2>1. counts \subseteq Nat /\ counts # {}
    BY <1>2, Fewer
  <2>2. PICK c \in counts : \A d \in counts : c <= d
    <3> HIDE DEF counts
    <3> QED
      BY <2>1, LeastElement
  <2> QED
    BY <2>2
<1>5. \A k \in Left(mg) \ {l} : Precedes(At(mg, l), At(mg, k), tac)
  <2> SUFFICES ASSUME NEW k \in Left(mg) \ {l}, ~Precedes(At(mg, l), At(mg, k), tac)
               PROVE  FALSE
    OBVIOUS
  <2>1. Precedes(At(mg, k), At(mg, l), tac)
    BY <1>2, <1>3, Ordered
  <2>2. count(k) < count(l) /\ count(k) \in Nat /\ count(l) \in Nat
    BY <1>2, <2>1, Fewer
  <2> QED
    BY <1>4, <2>2
<1> HIDE DEF count, counts
<1>6. \E m \in Left(mg) : \A k \in Left(mg) \ {m} : CompareRanks(At(mg, m), At(mg, k), mg.tac)
  BY <1>1, <1>5 DEF Precedes
<1>7. /\ BestOf(mg) \in Left(mg)
      /\ \A k \in Left(mg) \ {BestOf(mg)} : CompareRanks(At(mg, BestOf(mg)), At(mg, k), tac)
  BY <1>1, <1>6 DEF BestOf
<1> QED
  BY <1>3, <1>7 DEF Precedes

\* A result is read: the merger goes on as it should.
LEMMA StepIs ==
  ASSUME NEW all, IsFiniteSet(all), AreResults(all), NEW tac \in BOOLEAN,
         NEW lists, AreLists(lists, all, tac), NEW mg, Merging(mg, lists, all, tac), Left(mg) # {}
  PROVE  /\ Merging(Step(mg, BestOf(mg)), lists, all, tac)
         /\ Len(Step(mg, BestOf(mg)).merged) = Len(mg.merged) + 1
<1> DEFINE l == BestOf(mg)
           r == At(mg, l)
           c == mg.cursors[l]
           next == Step(mg, l)
           rest == all \ Range(mg.merged)
           merged == Append(mg.merged, r)
<1>1. /\ l \in Left(mg) /\ \A k \in Left(mg) \ {l} : Precedes(r, At(mg, k), tac)
  BY BestIs
<1>2. /\ mg.lists = lists /\ mg.sorted = TRUE /\ mg.tac = tac
      /\ mg.cursors \in [1..Len(lists) -> Nat \ {0}] /\ mg.merged \in Seq(all)
      /\ mg = [lists |-> mg.lists, merged |-> mg.merged, cursors |-> mg.cursors,
               sorted |-> mg.sorted, tac |-> mg.tac]
  BY DEF Merging, Leading
<1>3. \A k \in 1..Len(lists) : lists[k] \in Seq(all) /\ Len(lists[k]) \in Nat /\ mg.cursors[k] \in Nat \ {0}
  BY <1>2 DEF AreLists
<1>4. l \in 1..Len(lists) /\ c \in 1..Len(lists[l]) /\ r = lists[l][c] /\ r \in all
  <2>1. l \in 1..Len(lists) /\ c <= Len(lists[l])
    BY <1>1, <1>2 DEF Left, AreLists
  <2> HIDE DEF l
  <2>2. c \in 1..Len(lists[l])
    BY <1>3, <2>1
  <2>3. r = lists[l][c]
    BY <1>2 DEF At
  <2> QED
    BY <1>3, <2>1, <2>2, <2>3
<1>5. /\ next.lists = lists /\ next.sorted = TRUE /\ next.tac = tac
      /\ next.merged = merged /\ next.cursors = [mg.cursors EXCEPT ![l] = c + 1]
      /\ next = [lists |-> next.lists, merged |-> next.merged, cursors |-> next.cursors,
                 sorted |-> next.sorted, tac |-> next.tac]
  <2> DEFINE lists_ == mg.lists  merged_ == mg.merged  cursors_ == mg.cursors  sorted_ == mg.sorted  tac_ == mg.tac
  <2>1. mg = [lists |-> lists_, merged |-> merged_, cursors |-> cursors_, sorted |-> sorted_, tac |-> tac_]
    BY <1>2
  <2>2. next = [mg EXCEPT !.merged = Append(@, r), !.cursors[l] = @ + 1]
    BY DEF Step
  <2>3. next = [lists |-> lists_, merged |-> Append(merged_, r),
                cursors |-> [cursors_ EXCEPT ![l] = cursors_[l] + 1], sorted |-> sorted_, tac |-> tac_]
    <3> HIDE DEF l, r, next, lists_, merged_, cursors_, sorted_, tac_
    <3> QED
      BY <2>1, <2>2
  <2> QED
    BY <1>2, <2>3
<1> HIDE DEF l, r, c, next
<1>6. rest = {y \in all : \E k \in 1..Len(lists) : \E i \in 1..Len(lists[k]) :
                              i >= mg.cursors[k] /\ y = lists[k][i]}
  BY DEF Merging
<1>7. \A k \in 1..Len(lists) : \A i, j \in 1..Len(lists[k]) : i < j => Precedes(lists[k][i], lists[k][j], tac)
  <2>1. \A k \in 1..Len(lists) : Increasing(lists[k], tac) /\ DOMAIN lists[k] = 1..Len(lists[k])
    BY <1>3 DEF AreLists
  <2> QED
    BY <2>1 DEF Increasing
<1>8. r \in rest
  BY <1>4, <1>6 DEF c
<1>9. ASSUME NEW y \in rest, y # r
      PROVE  Precedes(r, y, tac)
  <2>1. PICK k \in 1..Len(lists) : \E i \in 1..Len(lists[k]) : i >= mg.cursors[k] /\ y = lists[k][i]
    BY <1>6
  <2> PICK i \in 1..Len(lists[k]) : i >= mg.cursors[k] /\ y = lists[k][i]
    BY <2>1
  <2>2. k \in Left(mg) /\ At(mg, k) = lists[k][mg.cursors[k]] /\ mg.cursors[k] \in 1..Len(lists[k])
    <3>1. i \in Nat /\ mg.cursors[k] \in Nat \ {0} /\ Len(lists[k]) \in Nat /\ mg.cursors[k] <= i /\ i <= Len(lists[k])
      BY <1>3
    <3>2. mg.cursors[k] <= Len(lists[k])
      BY <3>1
    <3>3. k \in DOMAIN mg.lists /\ mg.lists[k] = lists[k]
      BY <1>2 DEF AreLists
    <3> QED
      BY <3>1, <3>2, <3>3 DEF Left, At
  <2>3. y = At(mg, k) \/ Precedes(At(mg, k), y, tac)
    <3>1. i = mg.cursors[k] \/ mg.cursors[k] < i
      BY <2>1, <2>2
    <3> QED
      BY <1>7, <2>1, <2>2, <3>1
  <2>4. CASE k = l
    <3>1. At(mg, k) = r
      BY <2>4 DEF r
    <3> QED
      BY <1>9, <2>3, <3>1
  <2>5. CASE k # l
    <3>1. Precedes(r, At(mg, k), tac)
      BY <1>1, <2>2, <2>5
    <3>2. At(mg, k) \in all
      BY <1>3, <2>2
    <3> QED
      BY <1>4, <2>3, <3>1, <3>2, Ordered
  <2> QED
    BY <2>4, <2>5
<1>10. /\ DOMAIN mg.merged = 1..Len(mg.merged) /\ Len(mg.merged) \in Nat
       /\ \A i \in 1..Len(mg.merged) : mg.merged[i] \in all
  BY <1>2
<1>11. /\ merged \in Seq(all) /\ Len(merged) = Len(mg.merged) + 1 /\ DOMAIN merged = 1..(Len(mg.merged) + 1)
       /\ \A i \in 1..Len(mg.merged) : merged[i] = mg.merged[i]
       /\ merged[Len(mg.merged) + 1] = r
  BY <1>2, <1>4, AppendProperties
<1> HIDE DEF merged
<1>12. Range(merged) = Range(mg.merged) \cup {r}
  BY <1>10, <1>11 DEF Range
<1>13. Leading(merged, all, tac)
  <2>1. \A i \in 1..Len(mg.merged), y \in rest : Precedes(mg.merged[i], y, tac)
    BY <1>10 DEF Merging, Leading
  <2>2. \A i, j \in 1..Len(mg.merged) : i < j => Precedes(mg.merged[i], mg.merged[j], tac)
    BY <1>10 DEF Merging, Leading, Increasing
  <2>3. Increasing(merged, tac)
    <3> SUFFICES ASSUME NEW i \in 1..(Len(mg.merged) + 1), NEW j \in 1..(Len(mg.merged) + 1), i < j
                 PROVE  Precedes(merged[i], merged[j], tac)
      BY <1>11 DEF Increasing
    <3>1. i \in 1..Len(mg.merged)
      BY <1>10
    <3>2. CASE j = Len(mg.merged) + 1
      BY <1>8, <1>11, <2>1, <3>1, <3>2
    <3>3. CASE j # Len(mg.merged) + 1
      <4>1. j \in 1..Len(mg.merged)
        BY <1>10, <3>3
      <4> QED
        BY <1>11, <2>2, <3>1, <4>1
    <3> QED
      BY <3>2, <3>3
  <2>4. ASSUME NEW i \in 1..(Len(mg.merged) + 1), NEW y \in all \ Range(merged)
        PROVE  Precedes(merged[i], y, tac)
    <3>1. y \in rest /\ y # r
      BY <1>12
    <3>2. CASE i = Len(mg.merged) + 1
      BY <1>9, <1>11, <3>1, <3>2
    <3>3. CASE i # Len(mg.merged) + 1
      <4>1. i \in 1..Len(mg.merged)
        BY <1>10, <3>3
      <4> QED
        BY <1>11, <2>1, <3>1, <4>1
    <3> QED
      BY <3>2, <3>3
  <2> QED
    BY <1>11, <2>3, <2>4 DEF Leading
<1>14. next.cursors \in [1..Len(lists) -> Nat \ {0}]
       /\ \A k \in 1..Len(lists) : next.cursors[k] = IF k = l THEN c + 1 ELSE mg.cursors[k]
  BY <1>2, <1>4, <1>5
<1>15. all \ Range(merged) = {y \in all : \E k \in 1..Len(lists) : \E i \in 1..Len(lists[k]) :
                                              i >= next.cursors[k] /\ y = lists[k][i]}
  <2>1. ASSUME NEW y \in all \ Range(merged)
        PROVE  \E k \in 1..Len(lists) : \E i \in 1..Len(lists[k]) : i >= next.cursors[k] /\ y = lists[k][i]
    <3>1. y \in rest /\ y # r
      BY <1>12
    <3>2. PICK k \in 1..Len(lists) : \E i \in 1..Len(lists[k]) : i >= mg.cursors[k] /\ y = lists[k][i]
      BY <1>6, <3>1
    <3> PICK i \in 1..Len(lists[k]) : i >= mg.cursors[k] /\ y = lists[k][i]
      BY <3>2
    <3>3. i >= next.cursors[k]
      <4>1. CASE k = l
        <5>1. i # c /\ i >= c /\ i \in Int /\ c \in Int
          <6>1. r = lists[k][c] /\ mg.cursors[k] = c
            BY <1>4, <4>1 DEF c
          <6>2. Len(lists[k]) \in Nat /\ c \in 1..Len(lists[k])
            BY <1>3, <1>4, <4>1
          <6> QED
            BY <3>1, <6>1, <6>2
        <5> QED
          BY <1>14, <4>1, <5>1
      <4>2. CASE k # l
        BY <1>14, <3>2, <4>2
      <4> QED
        BY <4>1, <4>2
    <3> QED
      BY <3>2, <3>3
  <2>2. ASSUME NEW k \in 1..Len(lists), NEW i \in 1..Len(lists[k]), i >= next.cursors[k]
        PROVE  lists[k][i] \in all \ Range(merged)
    <3>1. lists[k][i] \in all /\ i >= mg.cursors[k] /\ (k = l => i > c)
      <4>1. lists[k][i] \in all
        BY <1>3
      <4>2. CASE k = l
        <5>1. i >= c + 1 /\ c \in Int /\ i \in Int
          BY <1>4, <1>14, <2>2, <4>2
        <5> QED
          BY <4>1, <4>2, <5>1 DEF c
      <4>3. CASE k # l
        BY <1>14, <2>2, <4>1, <4>3
      <4> QED
        BY <4>2, <4>3
    <3>2. lists[k][i] \in rest
      BY <1>6, <3>1
    <3>3. lists[k][i] # r
      <4>1. CASE k = l
        <5>1. Precedes(lists[k][c], lists[k][i], tac)
          BY <1>4, <1>7, <3>1, <4>1
        <5> QED
          BY <1>4, <4>1, <5>1 DEF Precedes
      <4>2. CASE k # l
        BY <1>4, <4>2 DEF AreLists
      <4> QED
        BY <4>1, <4>2
    <3> QED
      BY <1>12, <3>2, <3>3
  <2> QED
    BY <2>1, <2>2
<1> QED
  BY <1>5, <1>11, <1>13, <1>14, <1>15 DEF Merging, next, l

\* There is something to read until everything is merged.
LEMMA LeftSome ==
  ASSUME NEW all, IsFiniteSet(all), AreResults(all), NEW tac \in BOOLEAN,
         NEW lists, AreLists(lists, all, tac), NEW mg, Merging(mg, lists, all, tac),
         Len(mg.merged) < Cardinality(all)
  PROVE  Left(mg) # {}
<1>1. mg.merged \in Seq(all) /\ DOMAIN mg.merged = 1..Len(mg.merged) /\ Len(mg.merged) \in Nat
  BY DEF Merging, Leading
<1>2. \A i, j \in DOMAIN mg.merged : mg.merged[i] = mg.merged[j] => i = j
  <2> SUFFICES ASSUME NEW i \in DOMAIN mg.merged, NEW j \in DOMAIN mg.merged,
                      mg.merged[i] = mg.merged[j], i # j
               PROVE  FALSE
    OBVIOUS
  <2>1. i < j \/ j < i
    BY <1>1
  <2> QED
    BY <2>1 DEF Merging, Leading, Increasing, Precedes
<1>3. Cardinality(Range(mg.merged)) = Len(mg.merged)
  BY <1>1, <1>2, RangeCount
<1>4. Range(mg.merged) # all
  BY <1>1, <1>3
<1>5. PICK y \in all : y \notin Range(mg.merged)
  BY <1>1, <1>4 DEF Range
<1>6. PICK k \in 1..Len(lists) : \E i \in 1..Len(lists[k]) : i >= mg.cursors[k] /\ y = lists[k][i]
  BY <1>5 DEF Merging
<1> PICK i \in 1..Len(lists[k]) : i >= mg.cursors[k]
  BY <1>6
<1>7. lists[k] \in Seq(all) /\ mg.cursors[k] \in Nat \ {0} /\ k \in DOMAIN mg.lists /\ mg.lists[k] = lists[k]
  BY DEF Merging, AreLists
<1>8. mg.cursors[k] <= Len(lists[k])
  BY <1>7
<1> QED
  BY <1>7, <1>8 DEF Left

\* The loop of mergedGet.
IsLoop(f, mg, n) ==
    f = [i \in 0..n |-> IF i <= Len(mg.merged) THEN mg
                        ELSE LET before == f[i - 1] IN Step(before, BestOf(before))]

LEMMA LoopExists ==
  ASSUME NEW mg, NEW n \in Nat, Len(mg.merged) \in Nat
  PROVE  \E f : IsLoop(f, mg, n)
<1> DEFINE Next1(f, i) == LET before == f[i - 1] IN Step(before, BestOf(before))
           S == {m \in Nat : \E f : IsLoop(f, mg, m)}
<1>1. 0 \in S
  <2> DEFINE f == [i \in 0..0 |-> mg]
  <2>1. f = [i \in 0..0 |-> IF i <= Len(mg.merged) THEN mg
                            ELSE LET before == f[i - 1] IN Step(before, BestOf(before))]
    <3>1. \A i \in 0..0 : i <= Len(mg.merged)
      OBVIOUS
    <3> QED
      BY <3>1
  <2>2. IsLoop(f, mg, 0)
    BY <2>1 DEF IsLoop
  <2> QED
    BY <2>2
<1>2. ASSUME NEW m \in Nat, m \in S
      PROVE  m + 1 \in S
  <2>1. PICK f : IsLoop(f, mg, m)
    BY <1>2
  <2>2. \A i \in 0..m : f[i] = IF i <= Len(mg.merged) THEN mg ELSE Next1(f, i)
    BY <2>1 DEF IsLoop
  <2> DEFINE last == IF m + 1 <= Len(mg.merged) THEN mg ELSE Next1(f, m + 1)
             h == [i \in 0..(m + 1) |-> IF i = m + 1 THEN last ELSE f[i]]
  <2>3. h = [i \in 0..(m + 1) |-> h[i]]
    OBVIOUS
  <2>4. h[m + 1] = last /\ \A i \in 0..m : h[i] = f[i]
    OBVIOUS
  <2> HIDE DEF h, Next1
  <2>5. \A i \in 1..(m + 1) : Next1(h, i) = Next1(f, i)
    <3> SUFFICES ASSUME NEW i \in 1..(m + 1)
                 PROVE  Next1(h, i) = Next1(f, i)
      OBVIOUS
    <3>1. h[i - 1] = f[i - 1]
      <4>1. i - 1 \in 0..m
        OBVIOUS
      <4> QED
        BY <2>4, <4>1
    <3> QED
      BY <3>1 DEF Next1
  <2>6. ASSUME NEW i \in 0..(m + 1)
        PROVE  h[i] = IF i <= Len(mg.merged) THEN mg ELSE Next1(h, i)
    <3>1. CASE i <= Len(mg.merged)
      BY <2>2, <2>4, <3>1
    <3>2. CASE ~(i <= Len(mg.merged))
      <4>1. i \in 1..(m + 1)
        BY <3>2
      <4>2. CASE i = m + 1
        BY <2>4, <2>5, <3>2, <4>1, <4>2
      <4>3. CASE i # m + 1
        <5>1. i \in 0..m
          BY <4>3
        <5> QED
          BY <2>2, <2>4, <2>5, <3>2, <4>1, <5>1
      <4> QED
        BY <4>2, <4>3
    <3> QED
      BY <3>1, <3>2
  <2>7. IsLoop(h, mg, m + 1)
    BY <2>3, <2>6 DEF IsLoop, Next1
  <2> QED
    BY <2>7
<1>3. Nat \subseteq S
  <2> HIDE DEF S
  <2> QED
    BY <1>1, <1>2, SetInduction
<1> QED
  BY <1>3

\* So after mergedGet(n) item n is merged, and the merger is as it should be.
LEMMA MergedToIs ==
  ASSUME NEW all, IsFiniteSet(all), AreResults(all), NEW tac \in BOOLEAN,
         NEW lists, AreLists(lists, all, tac), NEW mg, Merging(mg, lists, all, tac),
         NEW n \in 1..Cardinality(all)
  PROVE  Merging(MergedTo(mg, n), lists, all, tac) /\ n <= Len(MergedTo(mg, n).merged)
<1>1. Len(mg.merged) \in Nat /\ Cardinality(all) \in Nat /\ n \in Nat
  BY FS_CardinalityType DEF Merging, Leading
<1> DEFINE f == CHOOSE g : IsLoop(g, mg, n)
<1>2. IsLoop(f, mg, n)
  BY <1>1, LoopExists
<1>3. MergedTo(mg, n) = f[n]
  BY DEF MergedTo, IsLoop
<1> HIDE DEF f
<1>4. \A i \in 0..n : f[i] = IF i <= Len(mg.merged) THEN mg ELSE Step(f[i - 1], BestOf(f[i - 1]))
  BY <1>2 DEF IsLoop
<1> DEFINE Good(i) == Merging(f[i], lists, all, tac) /\ (IF i <= Len(mg.merged) THEN f[i] = mg ELSE Len(f[i].merged) = i)
           S == {i \in Nat : i <= n => Good(i)}
<1>5. 0 \in S
  BY <1>1, <1>4
<1>6. ASSUME NEW i \in Nat, i \in S
      PROVE  i + 1 \in S
  <2> SUFFICES ASSUME i + 1 <= n
               PROVE  Good(i + 1)
    OBVIOUS
  <2>1. Good(i) /\ i \in 0..n /\ i + 1 \in 0..n /\ (i + 1) - 1 = i
    BY <1>1, <1>6
  <2>2. CASE i + 1 <= Len(mg.merged)
    BY <1>4, <2>1, <2>2
  <2>3. CASE ~(i + 1 <= Len(mg.merged))
    <3>1. f[i + 1] = Step(f[i], BestOf(f[i]))
      BY <1>4, <2>1, <2>3
    <3>2. Len(f[i].merged) = i /\ i < Cardinality(all)
      BY <1>1, <2>1, <2>3
    <3>3. Merging(f[i], lists, all, tac)
      BY <2>1
    <3> HIDE DEF Good
    <3>4. Left(f[i]) # {}
      BY <3>2, <3>3, LeftSome
    <3>5. Merging(Step(f[i], BestOf(f[i])), lists, all, tac) /\ Len(Step(f[i], BestOf(f[i])).merged) = i + 1
      BY <3>2, <3>3, <3>4, StepIs
    <3> QED
      BY <2>3, <3>1, <3>5 DEF Good
  <2> QED
    BY <2>2, <2>3
<1>7. Nat \subseteq S
  <2> HIDE DEF S
  <2> QED
    BY <1>5, <1>6, SetInduction
<1>8. Good(n)
  BY <1>1, <1>7
<1> QED
  BY <1>1, <1>3, <1>8

(***************************************************************************)
(* FlattenSeq                                                              *)
(***************************************************************************)

IsFlat(g, seqs, n) ==
    g = [i \in 1..n |-> IF i = 1 THEN seqs[i] ELSE g[i - 1] \o seqs[i]]

\* The recursion in FlattenSeq does define a function.
LEMMA FlatExists ==
  ASSUME NEW seqs, NEW n \in Nat
  PROVE  \E g : IsFlat(g, seqs, n)
<1> DEFINE S == {m \in Nat : \E g : IsFlat(g, seqs, m)}
<1>1. 0 \in S
  <2>1. IsFlat(<<>>, seqs, 0)
    BY DEF IsFlat
  <2> QED
    BY <2>1
<1>2. ASSUME NEW m \in Nat, m \in S
      PROVE  m + 1 \in S
  <2>1. PICK g : IsFlat(g, seqs, m)
    BY <1>2
  <2> DEFINE h == [i \in 1..m+1 |->
                     IF i = m + 1 THEN IF i = 1 THEN seqs[i] ELSE g[m] \o seqs[i] ELSE g[i]]
  <2>2. \A i \in 1..m : h[i] = IF i = 1 THEN seqs[i] ELSE h[i-1] \o seqs[i]
    <3> TAKE i \in 1..m
    <3>1. h[i] = g[i] /\ (i # 1 => i - 1 \in 1..m /\ h[i-1] = g[i-1])
      OBVIOUS
    <3>2. g[i] = IF i = 1 THEN seqs[i] ELSE g[i-1] \o seqs[i]
      BY <2>1 DEF IsFlat
    <3> QED
      BY <3>1, <3>2
  <2>3. h[m+1] = IF m + 1 = 1 THEN seqs[m+1] ELSE h[m] \o seqs[m+1]
    OBVIOUS
  <2>5. h = [i \in 1..m+1 |-> h[i]]
    OBVIOUS
  <2> HIDE DEF h
  <2>4. ASSUME NEW i \in 1..m+1
        PROVE  h[i] = IF i = 1 THEN seqs[i] ELSE h[i-1] \o seqs[i]
    <3>1. CASE i = m + 1
      <4>1. i - 1 = m
        BY <3>1
      <4> QED
        BY <2>3, <3>1, <4>1
    <3>2. CASE i # m + 1
      <4>1. i \in 1..m
        BY <3>2
      <4> QED
        BY <2>2, <4>1
    <3> QED
      BY <3>1, <3>2
  <2>6. IsFlat(h, seqs, m + 1)
    BY <2>4, <2>5 DEF IsFlat
  <2> QED
    BY <2>6
<1>3. Nat \subseteq S
  <2> HIDE DEF S
  <2> QED
    BY <1>1, <1>2, SetInduction
<1> QED
  BY <1>3

\* The first n sequences in one.
Flat(seqs, n) == FlattenSeq([i \in 1..n |-> seqs[i]])

\* It grows by one sequence at a time.
LEMMA FlatStep ==
  ASSUME NEW T, NEW seqs, NEW n \in Nat, \A i \in 1..n : seqs[i] \in Seq(T)
  PROVE  /\ Flat(seqs, 0) = <<>>
         /\ \A k \in 0..n : Flat(seqs, k) \in Seq(T)
         /\ \A k \in 0..(n - 1) : Flat(seqs, k + 1) = Flat(seqs, k) \o seqs[k + 1]
<1> DEFINE first(k) == [i \in 1..k |-> seqs[i]]
           f(k) == CHOOSE g : IsFlat(g, first(k), k)
<1>1. \A k \in 0..n : first(k) \in Seq(Seq(T)) /\ Len(first(k)) = k
  OBVIOUS
<1>2. Flat(seqs, 0) = <<>>
  BY <1>1 DEF Flat, FlattenSeq
<1>3. ASSUME NEW k \in 1..n
      PROVE  /\ Flat(seqs, k) = f(k)[k]
             /\ \A i \in 1..k : f(k)[i] = IF i = 1 THEN seqs[i] ELSE f(k)[i - 1] \o seqs[i]
  <2>1. Len(first(k)) = k /\ k # 0
    BY <1>1
  <2>2. Flat(seqs, k) = f(k)[k]
    BY <2>1 DEF Flat, FlattenSeq, IsFlat
  <2>3. IsFlat(f(k), first(k), k)
    <3>1. \E g : IsFlat(g, first(k), k)
      <4>1. k \in Nat
        OBVIOUS
      <4> HIDE DEF first
      <4> QED
        BY <4>1, FlatExists
    <3> QED
      BY <3>1
  <2> HIDE DEF f
  <2>4. \A i \in 1..k : f(k)[i] = IF i = 1 THEN first(k)[i] ELSE f(k)[i - 1] \o first(k)[i]
    BY <2>3 DEF IsFlat
  <2> QED
    BY <2>2, <2>4
<1> HIDE DEF f
\* Longer and shorter ones begin alike.
<1>4. ASSUME NEW k \in 1..n, NEW l \in 1..n
      PROVE  \A i \in 1..n : i <= k /\ i <= l => f(k)[i] = f(l)[i]
  <2> DEFINE S == {i \in Nat : i + 1 <= k /\ i + 1 <= l => f(k)[i + 1] = f(l)[i + 1]}
  <2>1. 0 \in S
    BY <1>3
  <2>2. ASSUME NEW i \in Nat, i \in S
        PROVE  i + 1 \in S
    <3> SUFFICES ASSUME (i + 1) + 1 <= k, (i + 1) + 1 <= l
                 PROVE  f(k)[(i + 1) + 1] = f(l)[(i + 1) + 1]
      OBVIOUS
    <3>1. f(k)[i + 1] = f(l)[i + 1]
      BY <2>2
    <3>2. (i + 1) + 1 \in 1..k /\ (i + 1) + 1 \in 1..l /\ (i + 1) + 1 # 1 /\ ((i + 1) + 1) - 1 = i + 1
      OBVIOUS
    <3> QED
      BY <1>3, <3>1, <3>2
  <2>3. Nat \subseteq S
    <3> HIDE DEF S
    <3> QED
      BY <2>1, <2>2, SetInduction
  <2> TAKE i \in 1..n
  <2>4. i - 1 \in Nat /\ (i - 1) + 1 = i
    OBVIOUS
  <2>5. i - 1 \in S
    <3> HIDE DEF S
    <3> QED
      BY <2>3, <2>4
  <2> QED
    BY <2>4, <2>5
<1>5. ASSUME NEW k \in 0..(n - 1)
      PROVE  Flat(seqs, k + 1) = Flat(seqs, k) \o seqs[k + 1]
  <2>1. k + 1 \in 1..n /\ k + 1 \in 1..(k + 1) /\ (k + 1) - 1 = k
    OBVIOUS
  <2>2. Flat(seqs, k + 1) = IF k = 0 THEN seqs[k + 1] ELSE f(k + 1)[k] \o seqs[k + 1]
    <3>1. Flat(seqs, k + 1) = f(k + 1)[k + 1]
      BY <1>3, <2>1
    <3>2. f(k + 1)[k + 1] = IF k + 1 = 1 THEN seqs[k + 1] ELSE f(k + 1)[(k + 1) - 1] \o seqs[k + 1]
      BY <1>3, <2>1
    <3> QED
      BY <2>1, <3>1, <3>2
  <2>3. CASE k = 0
    <3>1. seqs[k + 1] \in Seq(T)
      BY <2>1
    <3>2. <<>> \o seqs[k + 1] = seqs[k + 1]
      BY <3>1
    <3> QED
      BY <1>2, <2>2, <2>3, <3>2
  <2>4. CASE k # 0
    <3>1. k \in 1..n
      BY <2>4
    <3>2. Flat(seqs, k) = f(k)[k] /\ f(k + 1)[k] = f(k)[k]
      BY <1>3, <1>4, <2>1, <3>1
    <3> QED
      BY <2>2, <2>4, <3>2
  <2> QED
    BY <2>3, <2>4
<1> HIDE DEF first
<1> DEFINE S == {k \in Nat : k <= n => Flat(seqs, k) \in Seq(T)}
<1>6. 0 \in S
  <2>1. Flat(seqs, 0) \in Seq(T)
    BY <1>2, EmptySeq
  <2> QED
    BY <2>1
<1>7. ASSUME NEW k \in Nat, k \in S
      PROVE  k + 1 \in S
  <2> SUFFICES ASSUME k + 1 <= n
               PROVE  Flat(seqs, k + 1) \in Seq(T)
    OBVIOUS
  <2>1. k \in 0..(n - 1) /\ k + 1 \in 1..n /\ Flat(seqs, k) \in Seq(T)
    BY <1>7
  <2>2. Flat(seqs, k + 1) = Flat(seqs, k) \o seqs[k + 1] /\ seqs[k + 1] \in Seq(T)
    BY <1>5, <2>1
  <2>3. Flat(seqs, k) \o seqs[k + 1] \in Seq(T)
    BY <2>1, <2>2, ConcatProperties
  <2> QED
    BY <2>2, <2>3
<1>8. Nat \subseteq S
  <2> HIDE DEF S
  <2> QED
    BY <1>6, <1>7, SetInduction
<1> QED
  BY <1>2, <1>5, <1>8

\* All of a sequence is the first Len of it.
LEMMA FlatAll ==
  ASSUME NEW T, NEW seqs \in Seq(T)
  PROVE  FlattenSeq(seqs) = Flat(seqs, Len(seqs))
<1>1. seqs = [i \in 1..Len(seqs) |-> seqs[i]]
  OBVIOUS
<1> QED
  BY <1>1 DEF Flat

\* Up to b is up to a and then what is between.
LEMMA FlatBetween ==
  ASSUME NEW T, NEW seqs \in Seq(Seq(T)), NEW a \in 0..Len(seqs), NEW b \in a..Len(seqs)
  PROVE  Flat(seqs, b) = Flat(seqs, a) \o FlattenSeq(SubSeq(seqs, a + 1, b))
<1> DEFINE n == Len(seqs)
           part(k) == [i \in 1..k |-> seqs[a + i]]
<1>1. n \in Nat /\ a \in Nat /\ \A i \in 1..n : seqs[i] \in Seq(T)
  OBVIOUS
<1>2. \A k \in 0..(n - a) : SubSeq(seqs, a + 1, a + k) = part(k)
  <2> TAKE k \in 0..(n - a)
  <2>1. (a + k) - (a + 1) + 1 = k
    BY <1>1
  <2>2. SubSeq(seqs, a + 1, a + k) = [i \in 1..k |-> seqs[(a + 1) + i - 1]]
    BY <1>1, <2>1
  <2>3. \A i \in 1..k : (a + 1) + i - 1 = a + i
    BY <1>1
  <2> QED
    BY <2>2, <2>3
<1> DEFINE rest == [i \in 1..(n - a) |-> seqs[a + i]]
<1>3. \A k \in 0..(n - a) : FlattenSeq(part(k)) = Flat(rest, k)
  <2> TAKE k \in 0..(n - a)
  <2>1. \A i \in 1..k : i \in 1..(n - a)
    BY <1>1
  <2>2. part(k) = [i \in 1..k |-> rest[i]]
    BY <2>1
  <2> HIDE DEF part, rest
  <2> QED
    BY <2>2 DEF Flat
<1>4. n - a \in Nat /\ \A i \in 1..(n - a) : rest[i] \in Seq(T) /\ rest[i] = seqs[a + i]
  <2>1. \A i \in 1..(n - a) : a + i \in 1..n
    BY <1>1
  <2> QED
    BY <1>1, <2>1
<1> HIDE DEF part, rest, n
<1>5. /\ Flat(rest, 0) = <<>>
      /\ \A k \in 0..(n - a) : Flat(rest, k) \in Seq(T)
      /\ \A k \in 0..((n - a) - 1) : Flat(rest, k + 1) = Flat(rest, k) \o rest[k + 1]
  BY <1>4, FlatStep
<1>6. /\ \A k \in 0..n : Flat(seqs, k) \in Seq(T)
      /\ \A k \in 0..(n - 1) : Flat(seqs, k + 1) = Flat(seqs, k) \o seqs[k + 1]
  BY <1>1, FlatStep
<1> DEFINE S == {k \in Nat : k <= n - a => Flat(seqs, a + k) = Flat(seqs, a) \o Flat(rest, k)}
<1>7. 0 \in S
  <2>1. Flat(seqs, a) \in Seq(T) /\ a + 0 = a
    BY <1>1, <1>6 DEF n
  <2> QED
    BY <1>5, <2>1
<1>8. ASSUME NEW k \in Nat, k \in S
      PROVE  k + 1 \in S
  <2> SUFFICES ASSUME k + 1 <= n - a
               PROVE  Flat(seqs, a + (k + 1)) = Flat(seqs, a) \o Flat(rest, k + 1)
    OBVIOUS
  <2>1. Flat(seqs, a + k) = Flat(seqs, a) \o Flat(rest, k)
    BY <1>4, <1>8
  <2>2. /\ a \in 0..n /\ a + k \in 0..(n - 1) /\ (a + k) + 1 = a + (k + 1)
        /\ k \in 0..((n - a) - 1) /\ k \in 0..(n - a) /\ k + 1 \in 1..(n - a)
    <3> HIDE DEF S
    <3>1. n \in Nat /\ a \in Nat /\ a <= n
      BY <1>1
    <3> QED
      BY <3>1
  <2>3. Flat(seqs, a + (k + 1)) = (Flat(seqs, a) \o Flat(rest, k)) \o seqs[a + (k + 1)]
    BY <1>6, <2>1, <2>2
  <2>4. Flat(rest, k + 1) = Flat(rest, k) \o seqs[a + (k + 1)]
    BY <1>4, <1>5, <2>2
  <2>5. Flat(seqs, a) \in Seq(T) /\ Flat(rest, k) \in Seq(T) /\ seqs[a + (k + 1)] \in Seq(T)
    BY <1>4, <1>5, <1>6, <2>2
  <2> DEFINE x == Flat(seqs, a)
             y == Flat(rest, k)
             z == seqs[a + (k + 1)]
  <2> HIDE DEF x, y, z
  <2>6. (x \o y) \o z = x \o (y \o z)
    <3>1. x \in Seq(T) /\ y \in Seq(T) /\ z \in Seq(T)
      BY <2>5 DEF x, y, z
    <3> QED
      BY <3>1
  <2> QED
    BY <2>3, <2>4, <2>6 DEF x, y, z
<1>9. Nat \subseteq S
  <2> HIDE DEF S
  <2> QED
    BY <1>7, <1>8, SetInduction
<1>10. b - a \in 0..(n - a) /\ b - a \in Nat /\ a + (b - a) = b
  BY <1>1 DEF n
<1>11. Flat(seqs, b) = Flat(seqs, a) \o Flat(rest, b - a)
  BY <1>9, <1>10
<1>12. SubSeq(seqs, a + 1, b) = part(b - a)
  BY <1>2, <1>10
<1> QED
  BY <1>3, <1>10, <1>11, <1>12

\* Where a list begins in the whole, and that its matches are there.
Start(seqs, k) == Len(Flat(seqs, k - 1))
Holds(whole, start, seq) ==
    \A i \in 1..Len(seq) : start + i \in 1..Len(whole) /\ whole[start + i] = seq[i]

\* The lists are one after the other in the whole, and it has nothing else.
LEMMA FlatPlaces ==
  ASSUME NEW T, NEW seqs \in Seq(Seq(T))
  PROVE  LET whole == FlattenSeq(seqs)
         IN  /\ whole \in Seq(T)
             /\ \A k \in 1..Len(seqs) : Start(seqs, k) \in Nat /\ Holds(whole, Start(seqs, k), seqs[k])
             /\ \A k, l \in 1..Len(seqs) : k < l => Start(seqs, k) + Len(seqs[k]) <= Start(seqs, l)
             /\ \A p \in 1..Len(whole) : \E k \in 1..Len(seqs) : \E i \in 1..Len(seqs[k]) : whole[p] = seqs[k][i]
<1> DEFINE n == Len(seqs)
           whole == FlattenSeq(seqs)
<1>1. n \in Nat /\ \A k \in 1..n : seqs[k] \in Seq(T) /\ Len(seqs[k]) \in Nat
  OBVIOUS
<1>2. /\ \A k \in 0..n : Flat(seqs, k) \in Seq(T) /\ Len(Flat(seqs, k)) \in Nat
      /\ \A k \in 0..(n - 1) : Flat(seqs, k + 1) = Flat(seqs, k) \o seqs[k + 1]
      /\ Flat(seqs, 0) = <<>> /\ whole = Flat(seqs, n)
  <2>1. whole = Flat(seqs, n)
    BY FlatAll
  <2>2. /\ \A k \in 0..n : Flat(seqs, k) \in Seq(T)
        /\ \A k \in 0..(n - 1) : Flat(seqs, k + 1) = Flat(seqs, k) \o seqs[k + 1]
        /\ Flat(seqs, 0) = <<>>
    BY <1>1, FlatStep
  <2>3. \A k \in 0..n : Len(Flat(seqs, k)) \in Nat
    BY <2>2
  <2> QED
    BY <2>1, <2>2, <2>3
<1>3. \A a \in 0..n : \A b \in a..n :
         /\ Len(Flat(seqs, a)) <= Len(Flat(seqs, b))
         /\ \A p \in 1..Len(Flat(seqs, a)) : Flat(seqs, b)[p] = Flat(seqs, a)[p]
  <2> SUFFICES ASSUME NEW a \in 0..n, NEW b \in a..n
               PROVE  /\ Len(Flat(seqs, a)) <= Len(Flat(seqs, b))
                      /\ \A p \in 1..Len(Flat(seqs, a)) : Flat(seqs, b)[p] = Flat(seqs, a)[p]
    OBVIOUS
  <2>1. a \in Nat /\ b \in Nat /\ a <= b /\ b \in 0..n
    BY <1>1
  <2> DEFINE x == Flat(seqs, a)
             y == FlattenSeq(SubSeq(seqs, a + 1, b))
  <2>2. Flat(seqs, b) = x \o y
    BY FlatBetween
  <2>3. y \in Seq(T)
    <3>1. SubSeq(seqs, a + 1, b) \in Seq(Seq(T))
      BY <1>1, <2>1
    <3> DEFINE part == SubSeq(seqs, a + 1, b)
    <3> HIDE DEF part
    <3>2. part \in Seq(Seq(T)) /\ Len(part) \in Nat /\ \A i \in 1..Len(part) : part[i] \in Seq(T)
      BY <3>1 DEF part
    <3>3. Flat(part, Len(part)) \in Seq(T)
      <4>1. \A k \in 0..Len(part) : Flat(part, k) \in Seq(T)
        BY <3>2, FlatStep
      <4>2. Len(part) \in 0..Len(part)
        BY <3>2
      <4> QED
        BY <4>1, <4>2
    <3>4. FlattenSeq(part) = Flat(part, Len(part))
      BY <3>2, FlatAll
    <3> QED
      BY <3>3, <3>4 DEF part
  <2>4. x \in Seq(T)
    BY <1>2, <2>1
  <2> HIDE DEF x, y
  <2>5. Len(x \o y) = Len(x) + Len(y) /\ Len(x) \in Nat /\ Len(y) \in Nat
        /\ \A p \in 1..Len(x) : (x \o y)[p] = x[p]
    BY <2>3, <2>4
  <2> QED
    BY <2>2, <2>5 DEF x
<1> HIDE DEF n, whole
<1>4. ASSUME NEW k \in 1..n
      PROVE  /\ Len(Flat(seqs, k)) = Len(Flat(seqs, k - 1)) + Len(seqs[k])
             /\ \A i \in 1..Len(seqs[k]) : Flat(seqs, k)[Len(Flat(seqs, k - 1)) + i] = seqs[k][i]
             /\ Range(Flat(seqs, k)) = Range(Flat(seqs, k - 1)) \cup Range(seqs[k])
  <2> DEFINE x == Flat(seqs, k - 1)
             y == seqs[k]
             z == Flat(seqs, k)
  <2>1. k - 1 \in 0..(n - 1) /\ k - 1 \in 0..n /\ (k - 1) + 1 = k
    BY <1>1
  <2>2. z = x \o y /\ x \in Seq(T) /\ y \in Seq(T)
    BY <1>1, <1>2, <2>1
  <2> HIDE DEF x, y, z
  <2>3. /\ Len(z) = Len(x) + Len(y) /\ Len(x) \in Nat /\ Len(y) \in Nat
        /\ \A p \in 1..(Len(x) + Len(y)) : z[p] = IF p <= Len(x) THEN x[p] ELSE y[p - Len(x)]
        /\ DOMAIN x = 1..Len(x) /\ DOMAIN y = 1..Len(y) /\ DOMAIN z = 1..Len(z)
    BY <2>2
  <2>4. \A i \in 1..Len(y) : Len(x) + i \in 1..Len(z) /\ z[Len(x) + i] = y[i]
    <3> TAKE i \in 1..Len(y)
    <3>1. Len(x) + i \in 1..(Len(x) + Len(y)) /\ ~(Len(x) + i <= Len(x)) /\ (Len(x) + i) - Len(x) = i
      BY <2>3
    <3> QED
      BY <2>3, <3>1
  <2>5. \A i \in 1..Len(x) : i \in 1..Len(z) /\ z[i] = x[i]
    BY <2>3
  <2>6. Range(z) = Range(x) \cup Range(y)
    <3>1. \A p \in 1..Len(z) : z[p] \in Range(x) \cup Range(y)
      <4> TAKE p \in 1..Len(z)
      <4>1. CASE p <= Len(x)
        <5>1. p \in 1..Len(x)
          BY <2>3, <4>1
        <5> QED
          BY <2>3, <2>5, <5>1 DEF Range
      <4>2. CASE ~(p <= Len(x))
        <5>1. p - Len(x) \in 1..Len(y) /\ z[p] = y[p - Len(x)]
          BY <2>3, <4>2
        <5> QED
          BY <2>3, <5>1 DEF Range
      <4> QED
        BY <4>1, <4>2
    <3>2. \A p \in 1..Len(x) : x[p] \in Range(z)
      BY <2>3, <2>5 DEF Range
    <3>3. \A p \in 1..Len(y) : y[p] \in Range(z)
      BY <2>3, <2>4 DEF Range
    <3> QED
      BY <2>3, <3>1, <3>2, <3>3 DEF Range
  <2> QED
    BY <2>3, <2>4, <2>6 DEF x, y, z
<1>5. \A k \in 1..n : \A i \in 1..Len(seqs[k]) :
         /\ Len(Flat(seqs, k - 1)) + i \in 1..Len(whole)
         /\ whole[Len(Flat(seqs, k - 1)) + i] = seqs[k][i]
  <2> SUFFICES ASSUME NEW k \in 1..n, NEW i \in 1..Len(seqs[k])
               PROVE  /\ Len(Flat(seqs, k - 1)) + i \in 1..Len(whole)
                      /\ whole[Len(Flat(seqs, k - 1)) + i] = seqs[k][i]
    OBVIOUS
  <2>1. k \in 0..n /\ n \in k..n /\ k - 1 \in 0..n
    BY <1>1
  <2> DEFINE p == Len(Flat(seqs, k - 1)) + i
  <2>2. /\ Len(Flat(seqs, k - 1)) \in Nat /\ Len(seqs[k]) \in Nat
        /\ Len(Flat(seqs, k)) = Len(Flat(seqs, k - 1)) + Len(seqs[k])
    BY <1>1, <1>2, <1>4, <2>1
  <2>3. p \in 1..Len(Flat(seqs, k)) /\ p \in Nat
    BY <2>2
  <2>4. Flat(seqs, k)[p] = seqs[k][i]
    BY <1>4
  <2> HIDE DEF p
  <2>5. Len(Flat(seqs, k)) <= Len(Flat(seqs, n)) /\ Flat(seqs, n)[p] = Flat(seqs, k)[p]
    BY <1>3, <2>1, <2>3
  <2>6. Len(Flat(seqs, n)) \in Nat /\ Len(Flat(seqs, k)) \in Nat
    BY <1>1, <1>2, <2>1
  <2>7. p \in 1..Len(Flat(seqs, n))
    <3> DEFINE a == Len(Flat(seqs, k))
               b == Len(Flat(seqs, n))
    <3> HIDE DEF a, b
    <3>1. a \in Nat /\ b \in Nat /\ a <= b /\ p \in 1..a
      BY <2>3, <2>5, <2>6 DEF a, b
    <3>2. p \in 1..b
      BY <3>1
    <3> QED
      BY <3>2 DEF b
  <2>8. p \in 1..Len(whole) /\ whole[p] = seqs[k][i]
    BY <1>2, <2>4, <2>5, <2>7
  <2> QED
    BY <2>8 DEF p
<1>6. \A k, l \in 1..n : k < l => Len(Flat(seqs, k - 1)) + Len(seqs[k]) <= Len(Flat(seqs, l - 1))
  <2> SUFFICES ASSUME NEW k \in 1..n, NEW l \in 1..n, k < l
               PROVE  Len(Flat(seqs, k - 1)) + Len(seqs[k]) <= Len(Flat(seqs, l - 1))
    OBVIOUS
  <2>1. k \in 0..n /\ l - 1 \in k..n
    BY <1>1
  <2> QED
    BY <1>3, <1>4, <2>1
<1> DEFINE Found(r) == \E k \in 1..n : \E i \in 1..Len(seqs[k]) : r = seqs[k][i]
           S == {k \in Nat : k <= n => \A r \in Range(Flat(seqs, k)) : Found(r)}
<1> HIDE DEF Found
<1>7. 0 \in S
  BY <1>2 DEF Range
<1>8. ASSUME NEW k \in Nat, k \in S
      PROVE  k + 1 \in S
  <2> SUFFICES ASSUME k + 1 <= n
               PROVE  \A r \in Range(Flat(seqs, k + 1)) : Found(r)
    OBVIOUS
  <2> TAKE r \in Range(Flat(seqs, k + 1))
  <2>1. k + 1 \in 1..n /\ (k + 1) - 1 = k
    BY <1>1
  <2>2. r \in Range(Flat(seqs, k)) \/ r \in Range(seqs[k + 1])
    BY <1>4, <2>1
  <2>3. CASE r \in Range(Flat(seqs, k))
    BY <1>1, <1>8, <2>1, <2>3
  <2>4. CASE r \in Range(seqs[k + 1])
    <3>1. seqs[k + 1] \in Seq(T)
      BY <1>1, <2>1
    <3>2. PICK i \in 1..Len(seqs[k + 1]) : r = seqs[k + 1][i]
      BY <2>4, <3>1 DEF Range
    <3> QED
      BY <2>1, <3>2 DEF Found
  <2> QED
    BY <2>2, <2>3, <2>4
<1>9. Nat \subseteq S
  <2> HIDE DEF S
  <2> QED
    BY <1>7, <1>8, SetInduction
<1>10. whole \in Seq(T) /\ \A p \in 1..Len(whole) : Found(whole[p])
  <2>1. n \in Nat /\ n \in 0..n /\ n <= n
    BY <1>1
  <2>2. whole \in Seq(T)
    BY <1>2, <2>1
  <2>3. \A r \in Range(whole) : Found(r)
    BY <1>2, <1>9, <2>1
  <2>4. \A p \in 1..Len(whole) : whole[p] \in Range(whole)
    BY <2>2 DEF Range
  <2> QED
    BY <2>2, <2>3, <2>4
<1>11. \A k \in 1..n : Start(seqs, k) \in Nat /\ Holds(whole, Start(seqs, k), seqs[k])
  <2>1. \A k \in 1..n : k - 1 \in 0..n
    BY <1>1
  <2>2. \A k \in 1..n : Start(seqs, k) \in Nat
    BY <1>2, <2>1 DEF Start
  <2>3. \A k \in 1..n : Holds(whole, Start(seqs, k), seqs[k])
    BY <1>5 DEF Start, Holds
  <2> QED
    BY <2>2, <2>3
<1>12. \A k, l \in 1..n : k < l => Start(seqs, k) + Len(seqs[k]) <= Start(seqs, l)
  BY <1>6 DEF Start
<1>13. \A p \in 1..Len(whole) : \E k \in 1..n : \E i \in 1..Len(seqs[k]) : whole[p] = seqs[k][i]
  BY <1>10 DEF Found
<1> QED
  BY <1>10, <1>11, <1>12, <1>13 DEF whole, n

\* Chunks split in slices, and the slices flattened: nothing is lost, and the
\* order is that of the chunks (sliceChunks, matcher.go).
LEMMA SlicesAre ==
  ASSUME NEW T, NEW chunks \in Seq(Seq(T)), NEW partitions \in Nat \ {0}
  PROVE  LET slices == SliceChunks(chunks, partitions)
             lists == [i \in DOMAIN slices |-> FlattenSeq(slices[i])]
         IN  lists \in Seq(Seq(T)) /\ FlattenSeq(lists) = FlattenSeq(chunks)
<1> DEFINE n == Len(chunks)
           per == n \div partitions
           parts == IF per = 0 THEN n ELSE partitions
           width == IF per = 0 THEN 1 ELSE per
           end(i) == IF i = parts THEN n ELSE i * width
           slices == SliceChunks(chunks, partitions)
           lists == [i \in DOMAIN slices |-> FlattenSeq(slices[i])]
<1>1. /\ n \in Nat /\ partitions \in Nat \ {0} /\ per \in Nat /\ partitions * per <= n
  <2> HIDE DEF n
  <2>1. n \in Nat
    BY DEF n
  <2> QED
    BY <2>1
<1>2. parts \in Nat /\ width \in Nat \ {0} /\ parts * width <= n /\ (parts = 0 => n = 0)
  <2> HIDE DEF n, per
  <2>1. CASE per = 0
    BY <1>1, <2>1
  <2>2. CASE per # 0
    BY <1>1, <2>2
  <2> QED
    BY <2>1, <2>2
<1>3. \A i \in 1..parts : slices[i] = SubSeq(chunks, (i - 1) * width + 1, IF i = parts THEN n ELSE i * width)
  BY DEF SliceChunks, Slice
<1>4. slices = [i \in 1..parts |-> slices[i]] /\ DOMAIN slices = 1..parts
  BY DEF SliceChunks
<1> HIDE DEF n, per, parts, width, slices
<1>5. \A i \in 0..parts : end(i) \in 0..n
  <2> SUFFICES ASSUME NEW i \in 0..parts, i # parts
               PROVE  i * width \in 0..n
    BY <1>1
  <2>1. i \in Nat /\ parts - i \in Nat /\ i * width \in Nat /\ (parts - i) * width \in Nat
    BY <1>2
  <2>2. parts * width = i * width + (parts - i) * width
    BY <1>2, <2>1
  <2> QED
    BY <1>1, <1>2, <2>1, <2>2
<1>6. \A i \in 1..parts : /\ end(i - 1) = (i - 1) * width /\ end(i) \in end(i - 1)..n
                          /\ i - 1 \in 0..parts
  <2> SUFFICES ASSUME NEW i \in 1..parts
               PROVE  /\ end(i - 1) = (i - 1) * width /\ end(i) \in end(i - 1)..n
                      /\ i - 1 \in 0..parts
    OBVIOUS
  <2>1. i - 1 \in 0..parts /\ i - 1 # parts /\ i \in 0..parts
    BY <1>2
  <2>2. end(i - 1) = (i - 1) * width
    BY <2>1
  <2>3. end(i - 1) \in 0..n /\ end(i) \in 0..n
    BY <1>5, <2>1
  <2>4. end(i - 1) <= end(i)
    <3>1. CASE i = parts
      BY <2>3, <3>1, <1>1
    <3>2. CASE i # parts
      <4>1. i * width = (i - 1) * width + width
        BY <1>2, <2>1
      <4>2. end(i) = i * width
        BY <3>2
      <4>3. (i - 1) * width \in Nat
        BY <2>2, <2>3, <1>1
      <4> QED
        BY <1>2, <2>2, <4>1, <4>2, <4>3
    <3> QED
      BY <3>1, <3>2
  <2> QED
    BY <1>1, <2>1, <2>2, <2>3, <2>4
<1>7. \A i \in 1..parts : slices[i] = SubSeq(chunks, end(i - 1) + 1, end(i))
  BY <1>3, <1>6
<1>8. /\ \A k \in 0..n : Flat(chunks, k) \in Seq(T)
      /\ Flat(chunks, 0) = <<>> /\ FlattenSeq(chunks) = Flat(chunks, n)
  <2>1. \A i \in 1..n : chunks[i] \in Seq(T)
    BY DEF n
  <2>2. FlattenSeq(chunks) = Flat(chunks, n)
    BY FlatAll DEF n
  <2> QED
    BY <1>1, <2>1, <2>2, FlatStep
<1>9. \A i \in 1..parts : /\ lists[i] \in Seq(T)
                          /\ Flat(chunks, end(i)) = Flat(chunks, end(i - 1)) \o lists[i]
  <2> SUFFICES ASSUME NEW i \in 1..parts
               PROVE  /\ FlattenSeq(slices[i]) \in Seq(T)
                      /\ Flat(chunks, end(i)) = Flat(chunks, end(i - 1)) \o FlattenSeq(slices[i])
    BY <1>4
  <2>1. end(i - 1) \in 0..n /\ end(i) \in end(i - 1)..n
    BY <1>5, <1>6
  <2>2. slices[i] = SubSeq(chunks, end(i - 1) + 1, end(i))
    BY <1>7
  <2> HIDE DEF end
  <2>3. Flat(chunks, end(i)) = Flat(chunks, end(i - 1)) \o FlattenSeq(slices[i])
    BY <2>1, <2>2, FlatBetween DEF n
  <2>4. slices[i] \in Seq(Seq(T))
    BY <1>1, <2>1, <2>2 DEF n
  <2>5. FlattenSeq(slices[i]) \in Seq(T)
    BY <2>4, FlatPlaces
  <2> QED
    BY <2>3, <2>5
<1>10. lists = [i \in 1..parts |-> lists[i]] /\ DOMAIN lists = 1..parts
  BY <1>4
<1> HIDE DEF lists, end
<1>11. lists \in Seq(Seq(T)) /\ Len(lists) = parts
  <2>1. lists \in [1..parts -> Seq(T)]
    BY <1>9, <1>10
  <2> QED
    BY <1>2, <2>1
<1>12. /\ Flat(lists, 0) = <<>> /\ FlattenSeq(lists) = Flat(lists, parts)
       /\ \A i \in 0..(parts - 1) : Flat(lists, i + 1) = Flat(lists, i) \o lists[i + 1]
  <2>1. FlattenSeq(lists) = Flat(lists, parts)
    BY <1>11, FlatAll
  <2>2. \A i \in 1..parts : lists[i] \in Seq(T)
    BY <1>9
  <2>3. /\ Flat(lists, 0) = <<>>
        /\ \A i \in 0..(parts - 1) : Flat(lists, i + 1) = Flat(lists, i) \o lists[i + 1]
    BY <1>2, <2>2, FlatStep
  <2> QED
    BY <2>1, <2>3
<1> DEFINE S == {i \in Nat : i <= parts => Flat(lists, i) = Flat(chunks, end(i))}
<1>13. end(parts) = n /\ (0 \in 0..parts => end(0) = 0)
  BY <1>1, <1>2 DEF end
<1>14. 0 \in S
  BY <1>2, <1>8, <1>12, <1>13
<1>15. ASSUME NEW i \in Nat, i \in S
       PROVE  i + 1 \in S
  <2> SUFFICES ASSUME i + 1 <= parts
               PROVE  Flat(lists, i + 1) = Flat(chunks, end(i + 1))
    OBVIOUS
  <2>1. i \in 0..(parts - 1) /\ i + 1 \in 1..parts /\ (i + 1) - 1 = i /\ i <= parts
    BY <1>2
  <2>2. Flat(lists, i) = Flat(chunks, end(i))
    BY <1>15, <2>1
  <2>3. Flat(chunks, end(i + 1)) = Flat(chunks, end(i)) \o lists[i + 1]
    BY <1>9, <2>1
  <2> QED
    BY <1>12, <2>1, <2>2, <2>3
<1>16. Nat \subseteq S
  <2> HIDE DEF S
  <2> QED
    BY <1>14, <1>15, SetInduction
<1>17. Flat(lists, parts) = Flat(chunks, n)
  BY <1>2, <1>13, <1>16
<1> QED
  BY <1>8, <1>11, <1>12, <1>17 DEF lists, slices

(***************************************************************************)
(* The results of a scan                                                   *)
(***************************************************************************)

\* Nothing is in two lists, or twice in one.
LEMMA PlacedOnce ==
  ASSUME NEW T, NEW seqs \in Seq(Seq(T)), NEW whole, whole = FlattenSeq(seqs),
         \A i, j \in 1..Len(whole) : whole[i] = whole[j] => i = j,
         NEW k \in 1..Len(seqs), NEW l \in 1..Len(seqs),
         NEW i \in 1..Len(seqs[k]), NEW j \in 1..Len(seqs[l]), seqs[k][i] = seqs[l][j]
  PROVE  k = l /\ i = j
<1> DEFINE a == Start(seqs, k)
           b == Start(seqs, l)
<1>1. /\ a \in Nat /\ b \in Nat
      /\ Holds(whole, a, seqs[k]) /\ Holds(whole, b, seqs[l])
      /\ k < l => a + Len(seqs[k]) <= b
      /\ l < k => b + Len(seqs[l]) <= a
  BY FlatPlaces
<1>2. Len(seqs) \in Nat /\ Len(seqs[k]) \in Nat /\ Len(seqs[l]) \in Nat
  <2>1. Len(seqs) \in Nat /\ seqs[k] \in Seq(T) /\ seqs[l] \in Seq(T)
    OBVIOUS
  <2>2. ASSUME NEW s \in Seq(T)
        PROVE  Len(s) \in Nat
    OBVIOUS
  <2> QED
    BY <2>1, <2>2
<1> HIDE DEF a, b
<1>3. a + i = b + j
  <2>1. a + i \in 1..Len(whole) /\ whole[a + i] = seqs[k][i]
    BY <1>1 DEF Holds
  <2>2. b + j \in 1..Len(whole) /\ whole[b + j] = seqs[l][j]
    BY <1>1 DEF Holds
  <2> QED
    BY <2>1, <2>2
<1>4. k = l
  <2>1. ~(k < l)
    BY <1>1, <1>2, <1>3
  <2>2. ~(l < k)
    BY <1>1, <1>2, <1>3
  <2> QED
    BY <1>2, <2>1, <2>2
<1>5. a = b
  BY <1>4 DEF a, b
<1>6. i \in Nat /\ j \in Nat
  BY <1>2
<1>7. i = j
  BY <1>1, <1>3, <1>5, <1>6
<1> QED
  BY <1>4, <1>7

\* The matches of a scan are results that can be ordered.
LEMMA ScanIs ==
  ASSUME NEW T, NEW chunks \in Seq(Seq(T)), IsScan(chunks)
  PROVE  LET whole == FlattenSeq(chunks)
             all == Range(whole)
         IN  /\ whole \in Seq(T) /\ whole \in Seq(all)
             /\ IsFiniteSet(all) /\ Cardinality(all) = Len(whole) /\ AreResults(all)
             /\ \A i, j \in DOMAIN whole : whole[i] = whole[j] => i = j
<1> DEFINE whole == FlattenSeq(chunks)
           all == Range(whole)
<1>1. whole \in Seq(T)
  BY FlatPlaces
<1>2. /\ \A i \in DOMAIN whole : /\ whole[i].points \in Seq(Nat) /\ whole[i].index \in Nat
                                 /\ Len(whole[i].points) = Len(whole[1].points)
      /\ \A i, j \in DOMAIN whole : whole[i].index = whole[j].index => i = j
  BY DEF IsScan
<1> HIDE DEF whole
<1>3. DOMAIN whole = 1..Len(whole) /\ Len(whole) \in Nat
  BY <1>1
<1>4. \A i, j \in DOMAIN whole : whole[i] = whole[j] => i = j
  BY <1>2
<1>5. IsFiniteSet(all) /\ Cardinality(all) = Len(whole)
  BY <1>1, <1>4, RangeCount
<1>6. AreResults(all)
  BY <1>2 DEF AreResults, Range
<1>7. whole \in Seq(all)
  <2>1. whole \in [1..Len(whole) -> all]
    BY <1>1, <1>3 DEF Range
  <2> QED
    BY <1>3, <2>1
<1> QED
  BY <1>1, <1>4, <1>5, <1>6, <1>7 DEF whole

\* The new merger has the sorted slices, and nothing is merged yet.
LEMMA NewMergerIs ==
  ASSUME NEW T, NEW chunks \in Seq(Seq(T)), IsScan(chunks),
         NEW partitions \in Nat \ {0}, NEW tac \in BOOLEAN
  PROVE  LET mg == NewMerger(chunks, partitions, TRUE, tac)
             all == Range(FlattenSeq(chunks))
         IN  AreLists(mg.lists, all, tac) /\ Merging(mg, mg.lists, all, tac)
<1> DEFINE whole == FlattenSeq(chunks)
           all == Range(whole)
           slices == SliceChunks(chunks, partitions)
           parts == [i \in DOMAIN slices |-> FlattenSeq(slices[i])]
           mg == NewMerger(chunks, partitions, TRUE, tac)
           lists == mg.lists
<1>1. /\ whole \in Seq(T) /\ whole \in Seq(all)
      /\ IsFiniteSet(all) /\ Cardinality(all) = Len(whole) /\ AreResults(all)
      /\ \A i, j \in DOMAIN whole : whole[i] = whole[j] => i = j
  BY ScanIs
<1>2. parts \in Seq(Seq(T)) /\ FlattenSeq(parts) = whole
  BY SlicesAre
<1>3. /\ lists = [i \in DOMAIN slices |-> Sorted(FlattenSeq(slices[i]), tac)]
      /\ mg = [lists |-> lists, merged |-> <<>>, cursors |-> [i \in DOMAIN slices |-> 1],
               sorted |-> TRUE, tac |-> tac]
  BY DEF NewMerger, Matches
<1>4. DOMAIN slices = 1..Len(parts) /\ Len(parts) \in Nat
  BY <1>2
<1> DEFINE n == Len(parts)
<1>5. \A i \in 1..n : parts[i] = FlattenSeq(slices[i])
  BY <1>4
<1>6. /\ lists = [i \in 1..n |-> Sorted(parts[i], tac)]
      /\ mg = [lists |-> lists, merged |-> <<>>, cursors |-> [i \in 1..n |-> 1],
               sorted |-> TRUE, tac |-> tac]
  <2>1. [i \in DOMAIN slices |-> Sorted(FlattenSeq(slices[i]), tac)] = [i \in 1..n |-> Sorted(parts[i], tac)]
    BY <1>4, <1>5
  <2> QED
    BY <1>3, <1>4, <2>1
<1>7. whole = FlattenSeq(parts)
  BY <1>2
<1> HIDE DEF slices, parts, mg, lists, whole, n
<1>8. DOMAIN whole = 1..Len(whole)
  BY <1>1
<1>9. \A k \in 1..n : parts[k] \in Seq(T) /\ DOMAIN parts[k] = 1..Len(parts[k]) /\ Len(parts[k]) \in Nat
  BY <1>2 DEF n
<1>10. \A k, l \in 1..n : \A i \in 1..Len(parts[k]) : \A j \in 1..Len(parts[l]) :
          parts[k][i] = parts[l][j] => k = l /\ i = j
  BY <1>1, <1>2, <1>7, <1>8, PlacedOnce DEF n
<1>10a. /\ \A k \in 1..n : Holds(whole, Start(parts, k), parts[k])
        /\ \A p \in 1..Len(whole) : \E k \in 1..n : \E i \in 1..Len(parts[k]) : whole[p] = parts[k][i]
  <2>1. \A k \in 1..Len(parts) : Holds(FlattenSeq(parts), Start(parts, k), parts[k])
    BY <1>2, FlatPlaces
  <2>2. \A p \in 1..Len(FlattenSeq(parts)) :
           \E k \in 1..Len(parts) : \E i \in 1..Len(parts[k]) : FlattenSeq(parts)[p] = parts[k][i]
    BY <1>2, FlatPlaces
  <2> QED
    BY <1>7, <2>1, <2>2 DEF n
<1>11. \A k \in 1..n : \A i \in 1..Len(parts[k]) : parts[k][i] \in all
  <2> SUFFICES ASSUME NEW k \in 1..n, NEW i \in 1..Len(parts[k])
               PROVE  parts[k][i] \in all
    OBVIOUS
  <2>1. \E p \in 1..Len(whole) : whole[p] = parts[k][i]
    BY <1>10a DEF Holds
  <2> QED
    BY <1>8, <2>1 DEF Range
<1>12. \A r \in all : \E k \in 1..n : \E i \in 1..Len(parts[k]) : r = parts[k][i]
  <2> TAKE r \in all
  <2>1. \E p \in 1..Len(whole) : r = whole[p]
    BY <1>8 DEF Range
  <2>2. \A p \in 1..Len(whole) : \E k \in 1..n : \E i \in 1..Len(parts[k]) : whole[p] = parts[k][i]
    BY <1>10a
  <2> QED
    BY <2>1, <2>2
<1>13. ASSUME NEW k \in 1..n
       PROVE  /\ lists[k] \in Seq(all) /\ Increasing(lists[k], tac)
              /\ Range(lists[k]) = Range(parts[k])
              /\ DOMAIN lists[k] = 1..Len(lists[k]) /\ Len(lists[k]) \in Nat
  <2>1. parts[k] \in Seq(all)
    <3>1. parts[k] \in [1..Len(parts[k]) -> all] /\ Len(parts[k]) \in Nat
      BY <1>9, <1>11
    <3>2. ASSUME NEW m \in Nat, NEW s \in [1..m -> all]
          PROVE  s \in Seq(all)
      OBVIOUS
    <3> QED
      BY <3>1, <3>2
  <2>2. \A i, j \in DOMAIN parts[k] : parts[k][i] = parts[k][j] => i = j
    <3>1. \A i \in 1..Len(parts[k]) : \A j \in 1..Len(parts[k]) :
             parts[k][i] = parts[k][j] => k = k /\ i = j
      BY <1>10
    <3> QED
      BY <1>9, <3>1
  <2>3. lists[k] = Sorted(parts[k], tac)
    BY <1>6
  <2>4. Sorted(parts[k], tac) \in Seq(all) /\ Increasing(Sorted(parts[k], tac), tac)
        /\ Range(Sorted(parts[k], tac)) = Range(parts[k])
    BY <1>1, <2>1, <2>2, SortedIs
  <2>5. lists[k] \in Seq(all)
    BY <2>3, <2>4
  <2>6. DOMAIN lists[k] = 1..Len(lists[k]) /\ Len(lists[k]) \in Nat
    BY <2>5
  <2> QED
    BY <2>3, <2>4, <2>5, <2>6
<1>14. DOMAIN lists = 1..n /\ Len(lists) = n
  BY <1>4, <1>6 DEF n
<1>15. \A k, l \in 1..n : \A i \in 1..Len(lists[k]), j \in 1..Len(lists[l]) : lists[k][i] = lists[l][j] => k = l
  <2> SUFFICES ASSUME NEW k \in 1..n, NEW l \in 1..n, NEW i \in 1..Len(lists[k]), NEW j \in 1..Len(lists[l]),
                      lists[k][i] = lists[l][j]
               PROVE  k = l
    OBVIOUS
  <2>1. lists[k][i] \in Range(parts[k]) /\ lists[l][j] \in Range(parts[l])
    BY <1>13 DEF Range
  <2>2. PICK a \in 1..Len(parts[k]) : lists[k][i] = parts[k][a]
    BY <1>9, <2>1 DEF Range
  <2>3. PICK b \in 1..Len(parts[l]) : lists[l][j] = parts[l][b]
    BY <1>9, <2>1 DEF Range
  <2>4. parts[k][a] = parts[l][b]
    BY <2>2, <2>3
  <2> QED
    BY <1>10, <2>4
<1>16. \A r \in all : \E k \in 1..n : \E i \in 1..Len(lists[k]) : r = lists[k][i]
  <2> SUFFICES ASSUME NEW r \in all
               PROVE  \E k \in 1..n : \E i \in 1..Len(lists[k]) : r = lists[k][i]
    OBVIOUS
  <2>1. PICK k \in 1..n : \E i \in 1..Len(parts[k]) : r = parts[k][i]
    BY <1>12
  <2>2. r \in Range(lists[k])
    <3>1. r \in Range(parts[k])
      BY <1>9, <2>1 DEF Range
    <3> QED
      BY <1>13, <3>1
  <2>3. \E i \in 1..Len(lists[k]) : r = lists[k][i]
    BY <1>13, <2>2 DEF Range
  <2> QED
    BY <2>3
<1>17. AreLists(lists, all, tac)
  <2>1. n \in Nat
    BY <1>4 DEF n
  <2> QED
    BY <1>13, <1>14, <1>15, <1>16, <2>1 DEF AreLists
<1>18. Merging(mg, lists, all, tac)
  <2>1. /\ mg.lists = lists /\ mg.merged = <<>> /\ mg.cursors = [i \in 1..n |-> 1]
        /\ mg.sorted = TRUE /\ mg.tac = tac
        /\ mg = [lists |-> mg.lists, merged |-> mg.merged, cursors |-> mg.cursors,
                 sorted |-> mg.sorted, tac |-> mg.tac]
    BY <1>6
  <2>2. Leading(mg.merged, all, tac) /\ Range(mg.merged) = {}
    <3>1. <<>> \in Seq(all) /\ DOMAIN <<>> = {}
      BY EmptySeq
    <3>2. Range(<<>>) = {}
      BY <3>1 DEF Range
    <3> QED
      BY <2>1, <3>1, <3>2 DEF Leading, Increasing
  <2>3. all = {r \in all : \E l \in 1..Len(lists) : \E i \in 1..Len(lists[l]) :
                               i >= mg.cursors[l] /\ r = lists[l][i]}
    <3>1. \A l \in 1..n : mg.cursors[l] = 1 /\ \A i \in 1..Len(lists[l]) : i >= mg.cursors[l]
      BY <1>13, <2>1
    <3> QED
      BY <1>14, <1>16, <3>1
  <2>4. mg.cursors \in [1..Len(lists) -> Nat \ {0}]
    BY <1>14, <2>1
  <2> QED
    BY <2>1, <2>2, <2>3, <2>4 DEF Merging
<1>19. AreLists(mg.lists, all, tac) /\ Merging(mg, mg.lists, all, tac)
  <2>1. lists = mg.lists
    BY <1>6
  <2> QED
    BY <1>17, <1>18, <2>1
<1> QED
  BY <1>19 DEF mg, whole

(***************************************************************************)
(* The calls                                                               *)
(***************************************************************************)

\* An answer of a sorted merger: the item with n - 1 others before it.
LEMMA GetIs ==
  ASSUME NEW all, IsFiniteSet(all), AreResults(all), NEW tac \in BOOLEAN,
         NEW lists, AreLists(lists, all, tac), NEW mg, Merging(mg, lists, all, tac),
         NEW n \in 1..Cardinality(all)
  PROVE  /\ Merging(Get(mg, n)[1], lists, all, tac)
         /\ Get(mg, n)[2] \in all
         /\ Cardinality(Before(all, Get(mg, n)[2], tac)) = n - 1
<1> DEFINE next == MergedTo(mg, n)
<1>1. Get(mg, n)[1] = next /\ Get(mg, n)[2] = next.merged[n]
  BY DEF Get, Merging
<1>2. Merging(next, lists, all, tac) /\ n <= Len(next.merged)
  BY MergedToIs
<1> HIDE DEF next
<1>3. Leading(next.merged, all, tac) /\ n \in DOMAIN next.merged
  <2>1. next.merged \in Seq(all) /\ Leading(next.merged, all, tac)
    BY <1>2 DEF Merging, Leading
  <2>2. DOMAIN next.merged = 1..Len(next.merged) /\ Len(next.merged) \in Nat
    BY <2>1
  <2>3. n \in Nat \ {0}
    BY FS_CardinalityType
  <2> QED
    BY <1>2, <2>1, <2>2, <2>3
<1> QED
  BY <1>1, <1>2, <1>3, LeadingCount

IsAfter(f, mg, calls, n) ==
    f = [i \in 0..n |-> IF i = 0 THEN mg ELSE Get(f[i - 1], calls[i])[1]]

\* The calls one after the other: each finds the merger that the one before left.
LEMMA AfterIs ==
  ASSUME NEW mg, NEW calls, Len(calls) \in Nat
  PROVE  /\ After(mg, calls)[0] = mg
         /\ \A i \in 1..Len(calls) : After(mg, calls)[i] = Get(After(mg, calls)[i - 1], calls[i])[1]
<1> DEFINE S == {m \in Nat : \E f : IsAfter(f, mg, calls, m)}
<1>1. 0 \in S
  <2> DEFINE f == [i \in 0..0 |-> mg]
  <2>1. f = [i \in 0..0 |-> IF i = 0 THEN mg ELSE Get(f[i - 1], calls[i])[1]]
    OBVIOUS
  <2>2. IsAfter(f, mg, calls, 0)
    BY <2>1 DEF IsAfter
  <2> QED
    BY <2>2
<1>2. ASSUME NEW m \in Nat, m \in S
      PROVE  m + 1 \in S
  <2>1. PICK f : IsAfter(f, mg, calls, m)
    BY <1>2
  <2>2. \A i \in 0..m : f[i] = IF i = 0 THEN mg ELSE Get(f[i - 1], calls[i])[1]
    BY <2>1 DEF IsAfter
  <2> DEFINE last == Get(f[m], calls[m + 1])[1]
             h == [i \in 0..(m + 1) |-> IF i = m + 1 THEN last ELSE f[i]]
  <2>3. h = [i \in 0..(m + 1) |-> h[i]]
    OBVIOUS
  <2>4. h[m + 1] = last /\ \A i \in 0..m : h[i] = f[i]
    OBVIOUS
  <2> HIDE DEF h, last
  <2>5. ASSUME NEW i \in 0..(m + 1)
        PROVE  h[i] = IF i = 0 THEN mg ELSE Get(h[i - 1], calls[i])[1]
    <3>1. CASE i = 0
      <4>1. 0 \in 0..m
        OBVIOUS
      <4> QED
        BY <2>2, <2>4, <3>1, <4>1
    <3>2. CASE i = m + 1
      <4>1. i - 1 = m /\ m \in 0..m /\ i # 0
        BY <3>2
      <4> QED
        BY <2>4, <3>2, <4>1 DEF last
    <3>3. CASE i # 0 /\ i # m + 1
      <4>1. i \in 0..m /\ i - 1 \in 0..m
        BY <3>3
      <4> QED
        BY <2>2, <2>4, <3>3, <4>1
    <3> QED
      BY <3>1, <3>2, <3>3
  <2>6. IsAfter(h, mg, calls, m + 1)
    BY <2>3, <2>5 DEF IsAfter
  <2> QED
    BY <2>6
<1>3. Nat \subseteq S
  <2> HIDE DEF S
  <2> QED
    BY <1>1, <1>2, SetInduction
<1> DEFINE f == CHOOSE g : IsAfter(g, mg, calls, Len(calls))
<1>4. IsAfter(f, mg, calls, Len(calls))
  BY <1>3
<1>5. After(mg, calls) = f
  BY DEF After, IsAfter
<1> HIDE DEF f
<1>6. \A i \in 0..Len(calls) : f[i] = IF i = 0 THEN mg ELSE Get(f[i - 1], calls[i])[1]
  BY <1>4 DEF IsAfter
<1>7. 0 \in 0..Len(calls) /\ \A i \in 1..Len(calls) : i \in 0..Len(calls) /\ i # 0
  OBVIOUS
<1> QED
  BY <1>5, <1>6, <1>7

\* With sorting.
LEMMA SortedAnswers ==
  ASSUME NEW T, NEW chunks \in Seq(Seq(T)), IsScan(chunks),
         NEW partitions \in Nat \ {0}, NEW tac \in BOOLEAN,
         NEW calls \in Seq(1..Len(FlattenSeq(chunks)))
  PROVE  MergeExact(chunks, partitions, TRUE, tac, calls)
<1> DEFINE whole == FlattenSeq(chunks)
           all == Range(whole)
           mg == NewMerger(chunks, partitions, TRUE, tac)
           m == After(mg, calls)
<1>1. /\ whole \in Seq(T) /\ whole \in Seq(all)
      /\ IsFiniteSet(all) /\ Cardinality(all) = Len(whole) /\ AreResults(all)
      /\ \A i, j \in DOMAIN whole : whole[i] = whole[j] => i = j
  BY ScanIs
<1>2. AreLists(mg.lists, all, tac) /\ Merging(mg, mg.lists, all, tac)
  BY NewMergerIs
<1>3. /\ calls \in Seq(1..Len(whole)) /\ Len(calls) \in Nat /\ DOMAIN calls = 1..Len(calls)
      /\ \A i \in 1..Len(calls) : calls[i] \in 1..Len(whole)
  OBVIOUS
<1>4. m[0] = mg /\ \A i \in 1..Len(calls) : m[i] = Get(m[i - 1], calls[i])[1]
  <2> HIDE DEF mg, whole
  <2>1. Len(calls) \in Nat
    BY <1>3
  <2> QED
    BY <2>1, AfterIs
<1>5. Expected(chunks, TRUE, tac) = Sorted(whole, tac)
  BY DEF Expected
<1>6. MergeExact(chunks, partitions, TRUE, tac, calls)
         = \A i \in DOMAIN calls : Get(m[i - 1], calls[i])[2] = Expected(chunks, TRUE, tac)[calls[i]]
  BY DEF MergeExact
<1> HIDE DEF whole, all, mg, m
<1> DEFINE S == {i \in Nat : i <= Len(calls) => Merging(m[i], mg.lists, all, tac)}
<1>7. 0 \in S
  BY <1>2, <1>4
<1>8. ASSUME NEW i \in Nat, i \in S
      PROVE  i + 1 \in S
  <2> SUFFICES ASSUME i + 1 <= Len(calls)
               PROVE  Merging(m[i + 1], mg.lists, all, tac)
    OBVIOUS
  <2>1. i + 1 \in 1..Len(calls) /\ (i + 1) - 1 = i /\ i <= Len(calls)
    BY <1>3
  <2>2. Merging(m[i], mg.lists, all, tac) /\ calls[i + 1] \in 1..Cardinality(all)
    BY <1>1, <1>3, <1>8, <2>1
  <2>3. Merging(Get(m[i], calls[i + 1])[1], mg.lists, all, tac)
    BY <1>1, <1>2, <2>2, GetIs
  <2> QED
    BY <1>4, <2>1, <2>3
<1>9. Nat \subseteq S
  <2> HIDE DEF S
  <2> QED
    BY <1>7, <1>8, SetInduction
<1>10. ASSUME NEW i \in DOMAIN calls
       PROVE  Get(m[i - 1], calls[i])[2] = Sorted(whole, tac)[calls[i]]
  <2> DEFINE n == calls[i]
             answer == Get(m[i - 1], n)[2]
             item == Sorted(whole, tac)[n]
  <2>1. i - 1 \in Nat /\ i - 1 <= Len(calls) /\ n \in 1..Cardinality(all) /\ n \in DOMAIN whole
    BY <1>1, <1>3
  <2>2. Merging(m[i - 1], mg.lists, all, tac)
    BY <1>9, <2>1
  <2> HIDE DEF n
  <2>3. answer \in all /\ Cardinality(Before(all, answer, tac)) = n - 1
    BY <1>1, <1>2, <2>1, <2>2, GetIs
  <2>4. item \in Range(whole) /\ Cardinality(Before(Range(whole), item, tac)) = n - 1
    BY <1>1, <2>1, SortedIs
  <2>5. item \in all /\ Cardinality(Before(all, item, tac)) = n - 1
    BY <2>4 DEF all
  <2> HIDE DEF answer, item
  <2>6. answer = item
    BY <1>1, <2>3, <2>5, Fewer
  <2> QED
    BY <2>6 DEF answer, item, n
<1> QED
  BY <1>5, <1>6, <1>10

\* Without sorting.
LEMMA UnsortedAnswers ==
  ASSUME NEW T, NEW chunks \in Seq(Seq(T)), NEW partitions \in Nat \ {0}, NEW tac \in BOOLEAN,
         NEW calls \in Seq(1..Len(FlattenSeq(chunks)))
  PROVE  MergeExact(chunks, partitions, FALSE, tac, calls)
<1> DEFINE whole == FlattenSeq(chunks)
           slices == SliceChunks(chunks, partitions)
           mg == NewMerger(chunks, partitions, FALSE, tac)
           m == After(mg, calls)
<1>1. mg.sorted = FALSE /\ mg.tac = tac /\ mg.lists = [i \in DOMAIN slices |-> FlattenSeq(slices[i])]
  BY DEF NewMerger, Matches
<1>2. FlattenSeq(mg.lists) = whole
  BY <1>1, SlicesAre
<1>3. whole \in Seq(T)
  BY FlatPlaces
<1>4. /\ Len(calls) \in Nat /\ DOMAIN calls = 1..Len(calls)
      /\ \A i \in 1..Len(calls) : calls[i] \in 1..Len(whole)
  OBVIOUS
<1>5. m[0] = mg /\ \A i \in 1..Len(calls) : m[i] = Get(m[i - 1], calls[i])[1]
  <2> HIDE DEF mg, whole
  <2>1. Len(calls) \in Nat
    BY <1>4
  <2> QED
    BY <2>1, AfterIs, SMTT(30)
<1>6. Expected(chunks, FALSE, tac) = IF tac THEN Reverse(whole) ELSE whole
  BY DEF Expected
<1>7. MergeExact(chunks, partitions, FALSE, tac, calls)
         = \A i \in DOMAIN calls : Get(m[i - 1], calls[i])[2] = Expected(chunks, FALSE, tac)[calls[i]]
  BY DEF MergeExact
<1> HIDE DEF whole, mg, m
<1>8. \A n : Get(mg, n) = <<mg, whole[IF tac THEN Len(whole) - n + 1 ELSE n]>>
  BY <1>1, <1>2 DEF Get
<1> DEFINE S == {i \in Nat : i <= Len(calls) => m[i] = mg}
<1>9. 0 \in S
  BY <1>5
<1>10. ASSUME NEW i \in Nat, i \in S
       PROVE  i + 1 \in S
  <2> SUFFICES ASSUME i + 1 <= Len(calls)
               PROVE  m[i + 1] = mg
    OBVIOUS
  <2>1. i + 1 \in 1..Len(calls) /\ (i + 1) - 1 = i /\ i <= Len(calls)
    BY <1>4
  <2>2. m[i] = mg
    BY <1>10, <2>1
  <2>3. m[i + 1] = Get(mg, calls[i + 1])[1]
    BY <1>5, <2>1, <2>2
  <2> QED
    BY <1>8, <2>3
<1>11. Nat \subseteq S
  <2> HIDE DEF S
  <2> QED
    BY <1>9, <1>10, SetInduction
<1>12. ASSUME NEW i \in DOMAIN calls
       PROVE  Get(m[i - 1], calls[i])[2] = (IF tac THEN Reverse(whole) ELSE whole)[calls[i]]
  <2> DEFINE n == calls[i]
  <2>1. i - 1 \in Nat /\ i - 1 <= Len(calls) /\ n \in 1..Len(whole)
    BY <1>4
  <2>2. m[i - 1] = mg
    BY <1>11, <2>1
  <2> HIDE DEF n
  <2>3. Get(mg, n)[2] = whole[IF tac THEN Len(whole) - n + 1 ELSE n]
    BY <1>8
  <2>4. Reverse(whole)[n] = whole[(Len(whole) - n) + 1]
    BY <2>1 DEF Reverse
  <2>5. Get(mg, n)[2] = (IF tac THEN Reverse(whole) ELSE whole)[n]
    BY <2>3, <2>4
  <2> QED
    BY <2>2, <2>5 DEF n
<1> QED
  BY <1>6, <1>7, <1>12

\* However the scan is split in slices, sorted or not and in whatever order the
\* screen asks for items, item n that Merger.Get answers is item n of all
\* matches in order (sliceChunks, matcher.go; Get and mergedGet, merger.go).
THEOREM MergeIsExact ==
  ASSUME NEW T, NEW chunks \in Seq(Seq(T)), IsScan(chunks),
         NEW partitions \in Nat \ {0}, NEW sorted \in BOOLEAN, NEW tac \in BOOLEAN,
         NEW calls \in Seq(1..Len(FlattenSeq(chunks)))
  PROVE  MergeExact(chunks, partitions, sorted, tac, calls)
<1>1. CASE sorted = TRUE
  BY <1>1, SortedAnswers
<1>2. CASE sorted = FALSE
  BY <1>2, UnsortedAnswers
<1> QED
  BY <1>1, <1>2

(***************************************************************************)
(* Scan.                                                                   *)
(***************************************************************************)

\* Search answers with all items, or with what a part of the query matched.
LEMMA SpaceIs ==
  ASSUME NEW q \in Queries, NEW c \in Chunks,
         cache \in [Chunks -> [Queries -> (SUBSET Items) \cup {None}]]
  PROVE  \/ Space(q, c) = Items
         \/ \E i \in DOMAIN SubKeys[q] :
                cache[c][SubKeys[q][i]] # None /\ Space(q, c) = cache[c][SubKeys[q][i]]
<1> DEFINE cached == PartsCached(q, c)
           first == CHOOSE i \in cached : \A j \in cached : i <= j
<1>1. CASE cached = {}
  BY <1>1 DEF Space
<1>2. CASE cached # {}
  <2>1. SubKeys[q] \in Seq(Queries)
    BY KeyAssumption
  <2>2. DOMAIN SubKeys[q] \subseteq Nat
    BY <2>1
  <2>3. cached \subseteq DOMAIN SubKeys[q]
    BY DEF PartsCached
  <2>4. \E i \in cached : \A j \in cached : i <= j
    BY <1>2, <2>2, <2>3, LeastElement
  <2>5. first \in cached
    BY <2>4
  <2>6. Space(q, c) = cache[c][SubKeys[q][first]]
    BY <1>2 DEF Space
  <2> QED
    BY <2>3, <2>5, <2>6 DEF PartsCached
<1> QED
  BY <1>1, <1>2

LEMMA SpaceTyped ==
  ASSUME NEW q \in Queries, NEW c \in Chunks,
         cache \in [Chunks -> [Queries -> (SUBSET Items) \cup {None}]]
  PROVE  Space(q, c) \in SUBSET Items
<1>1. CASE Space(q, c) = Items
  BY <1>1
<1>2. ASSUME NEW i \in DOMAIN SubKeys[q], cache[c][SubKeys[q][i]] # None,
             Space(q, c) = cache[c][SubKeys[q][i]]
      PROVE  Space(q, c) \in SUBSET Items
  <2>1. SubKeys[q][i] \in Queries
    BY KeyAssumption
  <2> QED
    BY <1>2, <2>1
<1> QED
  BY <1>1, <1>2, SpaceIs

\* The request that Reset sends.
LEMMA ResetTyped ==
  ASSUME ScanTypeOK, NEW event \in {"retry", "reset"}, NEW final \in BOOLEAN,
         NEW patterns \in [Queries -> Nths \cup {None}],
         nth' \in Nths, snapshotRevision' \in Nat, Reset(event, final, patterns)
  PROVE  /\ reqBox' \in [retry : Requests \cup {None}, reset : Requests \cup {None}]
         /\ patternCache' \in [Queries -> Nths \cup {None}]
<1> DEFINE n == IF patterns[query] = None THEN nth' ELSE patterns[query]
           r == [query |-> query, nth |-> n, final |-> final, revision |-> snapshotRevision']
<1>1. n \in Nths /\ query \in Queries
  BY DEF ScanTypeOK
<1>2. r \in Requests
  BY <1>1 DEF Requests
<1>3. reqBox' = [reqBox EXCEPT ![event] = r] /\ patternCache' = [patterns EXCEPT ![query] = n]
  BY DEF Reset
<1> HIDE DEF n, r
<1> QED
  BY <1>1, <1>2, <1>3 DEF ScanTypeOK

LEMMA PatternsTyped ==
  ASSUME ScanTypeOK, NEW change \in BOOLEAN
  PROVE  PatternsLeft(change) \in [Queries -> Nths \cup {None}]
BY DEF ScanTypeOK, PatternsLeft, NoPatterns

LEMMA DeliverTyped ==
  ASSUME NEW merger \in Mergers, NEW mergers \in [Queries -> Mergers \cup {None}],
         Deliver(merger, mergers)
  PROVE  mergerCache' \in [Queries -> Mergers \cup {None}] /\ searchFin' \in Mergers
<1>1. merger.query \in Queries
  BY DEF Mergers
<1>2. [mergers EXCEPT ![merger.query] = merger] \in [Queries -> Mergers \cup {None}]
  BY <1>1
<1> QED
  BY <1>2 DEF Deliver

LEMMA MergersTyped ==
  ASSUME ScanTypeOK, NEW r
  PROVE  MergersFor(r) \in [Queries -> Mergers \cup {None}]
BY DEF ScanTypeOK, MergersFor, NoMergers

LEMMA EverythingTyped == Everything \in [Chunks -> SUBSET Items]
BY DEF Everything

\* The state of Scan has the types that its comments give.
LEMMA ScanInitTyped == ScanInit => ScanTypeOK
<1> SUFFICES ASSUME ScanInit PROVE ScanTypeOK
  OBVIOUS
<1>1. searchFin \in Mergers
  BY KeyAssumption, EverythingTyped DEF ScanInit, Mergers
<1>2. cache \in [Chunks -> [Queries -> (SUBSET Items) \cup {None}]]
  BY DEF ScanInit, NothingCached
<1>3. patternCache \in [Queries -> Nths \cup {None}]
  BY DEF ScanInit, NoPatterns
<1>4. mergerCache \in [Queries -> Mergers \cup {None}]
  BY DEF ScanInit, NoMergers
<1>5. reqBox \in [retry : Requests \cup {None}, reset : Requests \cup {None}]
  BY DEF ScanInit, NoRequests
<1>6. /\ at \in [Chunks -> {"todo", "matching", "matched", "sent"}]
      /\ matches \in [Chunks -> SUBSET Items] /\ received \in Nat
  BY ChunkAssumption, EverythingTyped DEF ScanInit
<1>7. /\ query \in Queries /\ nth \in Nths /\ nthCurrent \in Nths /\ searchNew = None
      /\ reading \in BOOLEAN /\ returned \subseteq Nat
  BY KeyAssumption DEF ScanInit
<1> QED
  BY <1>1, <1>2, <1>3, <1>4, <1>5, <1>6, <1>7 DEF ScanInit, ScanTypeOK

LEMMA ScanStepTyped ==
  ASSUME ScanTypeOK, [ScanNext]_scanVars
  PROVE  ScanTypeOK'
<1> USE DEF ScanTypeOK
<1>1. CASE User
  <2>1. PICK q \in Queries, n \in Nths \cup {None}, sync \in BOOLEAN : UserActs(q, n, sync)
    BY <1>1 DEF User
  <2>2. searchNew' \in Searches /\ nthCurrent' \in Nths /\ query' \in Queries /\ actions' \in Nat
    BY <2>1 DEF UserActs, Searches
  <2> QED
    BY <2>1, <2>2 DEF UserActs, ownVars, loopVars, workVars
<1>2. CASE HandleSearchNew
  <2> DEFINE change == searchNew.nth # None
  <2>1. searchNew \in Searches
    BY <1>2 DEF HandleSearchNew
  <2>2. /\ nth' \in Nths /\ nthRevision' \in Nat /\ useSnapshot' \in BOOLEAN /\ reading' \in BOOLEAN
        /\ searchNew' = None
    BY <1>2, <2>1 DEF HandleSearchNew, Searches
  <2>4. cache' \in [Chunks -> [Queries -> (SUBSET Items) \cup {None}]]
    <3>1. cache' = NothingCached \/ cache' = cache
      BY <1>2 DEF HandleSearchNew
    <3> QED
      BY <3>1 DEF NothingCached
  <2>5. overlapped' \in BOOLEAN
    BY <1>2, <2>2 DEF HandleSearchNew
  <2>3. /\ snapshotRevision' \in Nat /\ patternCache' \in [Queries -> Nths \cup {None}]
        /\ reqBox' \in [retry : Requests \cup {None}, reset : Requests \cup {None}]
    <3>1. CASE searchNew.changed
      <4>1. snapshotRevision' \in Nat /\ Reset("reset", ~reading', PatternsLeft(change))
        BY <1>2, <2>2, <3>1 DEF HandleSearchNew
      <4>2. PatternsLeft(change) \in [Queries -> Nths \cup {None}]
        BY PatternsTyped
      <4> QED
        BY <2>2, <4>1, <4>2, ResetTyped
    <3>2. CASE ~searchNew.changed
      BY <1>2, <3>2 DEF HandleSearchNew
    <3> QED
      BY <3>1, <3>2
  <2> QED
    BY <1>2, <2>2, <2>3, <2>4, <2>5 DEF HandleSearchNew, loopVars, workVars
<1>3. ASSUME NEW fin \in BOOLEAN, HandleRead(fin)
      PROVE  ScanTypeOK'
  <2>1. /\ nth' \in Nths /\ snapshotRevision' \in Nat /\ reading' \in BOOLEAN
        /\ Reset("retry", fin, patternCache)
    BY <1>3 DEF HandleRead
  <2>2. /\ patternCache' \in [Queries -> Nths \cup {None}]
        /\ reqBox' \in [retry : Requests \cup {None}, reset : Requests \cup {None}]
    BY <2>1, ResetTyped
  <2> QED
    BY <1>3, <2>1, <2>2 DEF HandleRead, userVars, loopVars, workVars
<1>4. ASSUME NEW r \in Requests, Take(r)
      PROVE  ScanTypeOK'
  <2> DEFINE mergers == MergersFor(r)
             hit == mergers[r.query] # None /\ mergers[r.query].final = r.final
  <2>1. r.query \in Queries /\ r.final \in BOOLEAN /\ r.revision \in Nat
    BY <1>4 DEF Requests
  <2>2. mergers \in [Queries -> Mergers \cup {None}]
    BY MergersTyped
  <2>3. /\ reqBox' = NoRequests /\ revision' = r.revision /\ doing = "wait"
        /\ UNCHANGED <<userVars, ownVars, cache>>
    BY <1>4 DEF Take
  <2>4. reqBox' \in [retry : Requests \cup {None}, reset : Requests \cup {None}]
    BY <2>3 DEF NoRequests
  <2>5. CASE hit /\ Deliver(mergers[r.query], mergers) /\ UNCHANGED <<doing, request, workVars>>
    <3>1. mergers[r.query] \in Mergers
      BY <2>1, <2>2, <2>5
    <3>2. mergerCache' \in [Queries -> Mergers \cup {None}] /\ searchFin' \in Mergers
      BY <2>2, <2>5, <3>1, DeliverTyped
    <3> QED
      BY <2>1, <2>3, <2>4, <2>5, <3>2 DEF userVars, ownVars, workVars
  <2>6. CASE /\ Deliver([query |-> r.query, final |-> r.final, found |-> Everything], mergers)
             /\ UNCHANGED <<doing, request, workVars>>
    <3>1. [query |-> r.query, final |-> r.final, found |-> Everything] \in Mergers
      BY <2>1, EverythingTyped DEF Mergers
    <3>2. mergerCache' \in [Queries -> Mergers \cup {None}] /\ searchFin' \in Mergers
      BY <2>2, <2>6, <3>1, DeliverTyped
    <3> QED
      BY <2>1, <2>3, <2>4, <2>6, <3>2 DEF userVars, ownVars, workVars
  <2>7. CASE /\ mergerCache' = mergers /\ request' = r /\ doing' = "scan"
             /\ at' = [c \in Chunks |-> "todo"] /\ matches' = Everything
             /\ received' = 0 /\ returned' = {} /\ UNCHANGED searchFin
    <3>1. mergerCache' \in [Queries -> Mergers \cup {None}]
      BY <2>2, <2>7
    <3>2. matches' \in [Chunks -> SUBSET Items]
      BY <2>7, EverythingTyped
    <3>3. request' # None
      BY <1>4, <2>7 DEF Take
    <3> HIDE DEF mergers
    <3> QED
      BY <2>1, <2>3, <2>4, <2>7, <3>1, <3>2, <3>3 DEF userVars, ownVars
  <2> QED
    BY <1>4, <2>5, <2>6, <2>7 DEF Take
<1>5. CASE Receive
  BY <1>5 DEF Receive, userVars, ownVars, loopVars
<1>6. CASE Collect
  <2>1. [query |-> request.query, final |-> request.final, found |-> matches] \in Mergers
    BY <1>6 DEF Collect, Mergers, Requests
  <2>2. mergerCache' \in [Queries -> Mergers \cup {None}] /\ searchFin' \in Mergers
    BY <1>6, <2>1, DeliverTyped DEF Collect
  <2> QED
    BY <1>6, <2>2 DEF Collect, userVars, ownVars, workVars
<1>7. CASE Abandon
  BY <1>7 DEF Abandon, userVars, ownVars, loopVars, workVars
<1>8. ASSUME NEW c \in Chunks, LookUp(c)
      PROVE  ScanTypeOK'
  <2>1. request.query \in Queries
    BY <1>8 DEF LookUp, Searching, Requests
  <2>2. Space(request.query, c) \in SUBSET Items
    BY <2>1, SpaceTyped
  <2>3. matches' \in [Chunks -> SUBSET Items]
    BY <1>8, <2>1, <2>2 DEF LookUp
  <2>4. at' \in [Chunks -> {"todo", "matching", "matched", "sent"}]
    BY <1>8 DEF LookUp
  <2> QED
    BY <1>8, <2>3, <2>4 DEF LookUp, userVars, ownVars, loopVars
<1>9. ASSUME NEW c \in Chunks, MatchChunk(c)
      PROVE  ScanTypeOK'
  <2> DEFINE found == matches[c] \cap MatchesIn[request.query][request.nth][c]
  <2>1. request.query \in Queries
    BY <1>9 DEF MatchChunk, Searching, Requests
  <2>2. found \in SUBSET Items
    OBVIOUS
  <2>3. matches' = [matches EXCEPT ![c] = found] /\ at' = [at EXCEPT ![c] = "matched"]
    BY <1>9 DEF MatchChunk
  <2>4. cache' = [cache EXCEPT ![c][request.query] = found] \/ cache' = cache
    BY <1>9 DEF MatchChunk
  <2> HIDE DEF found
  <2>5. cache' \in [Chunks -> [Queries -> (SUBSET Items) \cup {None}]]
    <3> DEFINE Slots == (SUBSET Items) \cup {None}
    <3>1. cache \in [Chunks -> [Queries -> Slots]] /\ found \in Slots
      BY <2>2
    <3> HIDE DEF Slots
    <3>2. cache[c] \in [Queries -> Slots]
      BY <3>1
    <3>3. [cache[c] EXCEPT ![request.query] = found] \in [Queries -> Slots]
      BY <2>1, <3>1, <3>2
    <3> QED
      BY <2>4, <3>1, <3>3 DEF Slots
  <2>6. /\ matches' \in [Chunks -> SUBSET Items]
        /\ at' \in [Chunks -> {"todo", "matching", "matched", "sent"}]
    BY <2>2, <2>3
  <2> QED
    BY <1>9, <2>5, <2>6 DEF MatchChunk, userVars, ownVars, loopVars
<1>10. ASSUME NEW c \in Chunks, Send(c)
       PROVE  ScanTypeOK'
  <2>1. SliceOf[c] \in Nat
    BY ChunkAssumption
  <2>2. returned' \subseteq Nat /\ at' \in [Chunks -> {"todo", "matching", "matched", "sent"}]
    BY <1>10, <2>1 DEF Send
  <2> QED
    BY <1>10, <2>2 DEF Send, userVars, ownVars, loopVars
<1>11. CASE UNCHANGED scanVars
  BY <1>11 DEF scanVars, userVars, ownVars, loopVars, workVars
<1>12. ASSUME NEW r, Take(r), r \in {reqBox.retry, reqBox.reset}
       PROVE  r \in Requests
  BY <1>12 DEF Take
<1> QED
  BY <1>1, <1>2, <1>3, <1>4, <1>5, <1>6, <1>7, <1>8, <1>9, <1>10, <1>11, <1>12
     DEF ScanNext, Coordinator, Matcher, Goroutines

\* A request has a revision that there has been.
RevisionKnown(r) == r # None => r.revision <= nthRevision

\* Revisions only grow, and a merger is kept under its query.
Known ==
    /\ searchNew # None /\ searchNew.nth # None => searchNew.changed
    /\ revision <= nthRevision /\ snapshotRevision <= nthRevision
    /\ RevisionKnown(reqBox.retry) /\ RevisionKnown(reqBox.reset)
    /\ \A q \in Queries : mergerCache[q] # None => mergerCache[q].query = q

\* A pattern is kept no longer than the fields it was built for.
PatternsFit == \A q \in Queries : patternCache[q] \in {None, nth}

\* A search is given up only for another one.
GivenUp == doing = "cancelled" => reqBox.reset # None

\* No chunk is received that was not sent.
Sent == {c \in Chunks : at[c] = "sent"}
Counted == doing = "scan" => received <= Cardinality(Sent)

\* Nothing is left of the fields before the last change of --nth.
RequestFits(r) == r # None => r.nth = nth /\ r.revision = snapshotRevision
RequestsFit == RequestFits(reqBox.retry) /\ RequestFits(reqBox.reset)
SearchFits == doing # "wait" => RequestFits(request) /\ revision = snapshotRevision
MergerFits(q) == mergerCache[q] # None => mergerCache[q].found = AllOf(q, nth)
MergersFit == revision = snapshotRevision => \A q \in Queries : MergerFits(q)
CacheFits ==
    \A c \in Chunks, q \in Queries : cache[c][q] # None => cache[c][q] = MatchesIn[q][nth][c]
ChunkFits(c) ==
    /\ at[c] = "matching" => MatchesIn[request.query][nth][c] \subseteq matches[c]
    /\ at[c] \in {"matched", "sent"} => matches[c] = MatchesIn[request.query][nth][c]
ChunksFit == doing # "wait" => \A c \in Chunks : ChunkFits(c)
ListFits == doing = "wait" /\ reqBox = NoRequests => ShowsFields

Fitting ==
    /\ snapshotRevision = nthRevision
    /\ RequestsFit /\ SearchFits /\ MergersFit /\ CacheFits /\ ChunksFit /\ ListFits

ScanInv ==
    /\ ScanTypeOK /\ Known /\ PatternsFit /\ GivenUp /\ Counted
    /\ ~overlapped => Fitting

\* All chunks are counted when all have been sent.
LEMMA SentIs ==
  ASSUME ScanTypeOK
  PROVE  /\ IsFiniteSet(Sent) /\ Cardinality(Sent) \in Nat
         /\ Cardinality(Sent) <= NumChunks
         /\ Cardinality(Sent) = NumChunks => Sent = Chunks
<1>1. IsFiniteSet(Chunks) /\ Cardinality(Chunks) = NumChunks
  BY ChunkAssumption, FS_Interval DEF Chunks
<1>2. Sent \subseteq Chunks
  BY DEF Sent
<1> QED
  BY <1>1, <1>2, FS_Subset, FS_CardinalityType

LEMMA ScanInitInv == ScanInit => ScanInv
<1> SUFFICES ASSUME ScanInit PROVE ScanInv
  OBVIOUS
<1>1. ScanTypeOK
  BY ScanInitTyped
<1>2. Known
  BY KeyAssumption DEF ScanInit, Known, RevisionKnown, NoRequests, NoMergers
<1>3. PatternsFit
  BY DEF ScanInit, PatternsFit, NoPatterns
<1>4. GivenUp /\ Counted
  BY DEF ScanInit, GivenUp, Counted
<1>5. RequestsFit
  BY DEF ScanInit, RequestsFit, RequestFits, NoRequests
<1>6. SearchFits /\ ChunksFit
  BY DEF ScanInit, SearchFits, ChunksFit
<1>7. MergersFit
  BY DEF ScanInit, MergersFit, MergerFits, NoMergers
<1>8. CacheFits
  BY DEF ScanInit, CacheFits, NothingCached
<1>9. ListFits
  BY NarrowAssumption, KeyAssumption DEF ScanInit, ListFits, ShowsFields, AllOf, Everything
<1> QED
  BY <1>1, <1>2, <1>3, <1>4, <1>5, <1>6, <1>7, <1>8, <1>9 DEF ScanInv, Fitting, ScanInit

\* Reset sends a request with the revision of the snapshot, for the fields that
\* the patterns it may use were built for.
LEMMA ResetIs ==
  ASSUME ScanTypeOK, NEW event \in {"retry", "reset"}, NEW final, NEW patterns,
         patterns \in [Queries -> Nths \cup {None}],
         \A q \in Queries : patterns[q] \in {None, nth'}, Reset(event, final, patterns)
  PROVE  /\ \A q \in Queries : patternCache'[q] \in {None, nth'}
         /\ reqBox'[event] = [query |-> query, nth |-> nth', final |-> final, revision |-> snapshotRevision']
         /\ \A other \in {"retry", "reset"} \ {event} : reqBox'[other] = reqBox[other]
<1> DEFINE n == IF patterns[query] = None THEN nth' ELSE patterns[query]
           r == [query |-> query, nth |-> n, final |-> final, revision |-> snapshotRevision']
<1>1. query \in Queries
  BY DEF ScanTypeOK
<1>2. n = nth'
  BY <1>1
<1>3. reqBox' = [reqBox EXCEPT ![event] = r] /\ patternCache' = [patterns EXCEPT ![query] = n]
  BY DEF Reset
<1>4. r = [query |-> query, nth |-> nth', final |-> final, revision |-> snapshotRevision']
  BY <1>2
<1> HIDE DEF n, r
<1>5. \A q \in Queries : patternCache'[q] \in {None, nth'}
  BY <1>1, <1>2, <1>3
<1>6. reqBox'[event] = r /\ \A other \in {"retry", "reset"} \ {event} : reqBox'[other] = reqBox[other]
  BY <1>3 DEF ScanTypeOK
<1> QED
  BY <1>4, <1>5, <1>6

\* What the matcher delivers fits when the merger and what it is kept with do.
LEMMA DeliverFits ==
  ASSUME NEW merger \in Mergers, NEW mergers \in [Queries -> Mergers \cup {None}], NEW n \in Nths,
         Deliver(merger, mergers),
         merger.found = AllOf(merger.query, n),
         \A q \in Queries :
             mergers[q] # None => mergers[q].found = AllOf(q, n)
  PROVE  /\ searchFin'.found = AllOf(searchFin'.query, n)
         /\ \A q \in Queries :
                mergerCache'[q] # None => mergerCache'[q].found = AllOf(q, n)
<1>1. searchFin' = merger /\ mergerCache' \in {mergers, [mergers EXCEPT ![merger.query] = merger]}
  BY DEF Deliver
<1>2. merger.query \in Queries
  BY DEF Mergers
<1>3. ASSUME NEW q \in Queries, mergerCache'[q] # None
      PROVE  mergerCache'[q].found = AllOf(q, n)
  <2>1. CASE mergerCache'[q] = mergers[q]
    BY <1>3, <2>1
  <2>2. CASE mergerCache'[q] = merger /\ q = merger.query
    BY <2>2
  <2> QED
    BY <1>1, <1>2, <2>1, <2>2
<1> QED
  BY <1>1, <1>3

LEMMA DeliverKnown ==
  ASSUME NEW merger \in Mergers, NEW mergers \in [Queries -> Mergers \cup {None}],
         Deliver(merger, mergers), \A q \in Queries : mergers[q] # None => mergers[q].query = q
  PROVE  \A q \in Queries : mergerCache'[q] # None => mergerCache'[q].query = q
<1>1. merger.query \in Queries
  BY DEF Mergers
<1>2. mergerCache' \in {mergers, [mergers EXCEPT ![merger.query] = merger]}
  BY DEF Deliver
<1> QED
  BY <1>1, <1>2

Rest == Known /\ PatternsFit /\ GivenUp /\ Counted /\ (~overlapped => Fitting)

LEMMA ScanUser ==
  ASSUME ScanInv, NEW q \in Queries, NEW n \in Nths \cup {None}, NEW sync \in BOOLEAN, UserActs(q, n, sync)
  PROVE  Rest'
<1> USE DEF UserActs, ownVars, loopVars, workVars
<1>1. Known'
  BY DEF ScanInv, Known, RevisionKnown
<1>2. PatternsFit' /\ GivenUp' /\ Counted'
  BY DEF ScanInv, PatternsFit, GivenUp, Counted, Sent
<1>3. RequestsFit' = RequestsFit /\ SearchFits' = SearchFits /\ CacheFits' = CacheFits
  BY DEF RequestsFit, RequestFits, SearchFits, CacheFits
<1>4. MergersFit' = MergersFit /\ ChunksFit' = ChunksFit /\ ListFits' = ListFits
  BY DEF MergersFit, MergerFits, ChunksFit, ChunkFits, ListFits, ShowsFields
<1> QED
  BY <1>1, <1>2, <1>3, <1>4 DEF ScanInv, Rest, Fitting

LEMMA ScanSearchNew ==
  ASSUME ScanInv, HandleSearchNew
  PROVE  Rest'
<1> DEFINE change == searchNew.nth # None
           r == [query |-> query, nth |-> nth', final |-> ~reading', revision |-> snapshotRevision']
<1>1. /\ searchNew \in Searches /\ searchNew # None /\ nthRevision \in Nat /\ snapshotRevision \in Nat
      /\ revision \in Nat /\ nth \in Nths /\ query \in Queries
  BY DEF HandleSearchNew, ScanInv, ScanTypeOK
<1>2. change => searchNew.changed
  BY <1>1 DEF ScanInv, Known
<1>3. /\ nth' = IF change THEN searchNew.nth ELSE nth
      /\ nthRevision' = IF change THEN nthRevision + 1 ELSE nthRevision
      /\ cache' = IF change THEN NothingCached ELSE cache
      /\ overlapped' = IF change THEN doing # "wait" \/ reqBox.retry # None \/ useSnapshot' ELSE overlapped
      /\ searchNew' = None
      /\ UNCHANGED <<query, doing, request, revision, mergerCache, searchFin, at, matches, received>>
  BY DEF HandleSearchNew, loopVars, workVars
<1>4. nth' \in Nths /\ nthRevision' >= nthRevision
  BY <1>1, <1>3 DEF Searches
<1>5. CASE searchNew.changed
  <2>1. /\ snapshotRevision' = IF useSnapshot' THEN snapshotRevision ELSE nthRevision'
        /\ Reset("reset", ~reading', PatternsLeft(change))
    BY <1>5 DEF HandleSearchNew
  <2>2. PatternsLeft(change) \in [Queries -> Nths \cup {None}]
    BY PatternsTyped DEF ScanInv
  <2>3. \A q \in Queries : PatternsLeft(change)[q] \in {None, nth'}
    BY <1>3 DEF PatternsLeft, NoPatterns, ScanInv, PatternsFit
  <2>4. /\ \A q \in Queries : patternCache'[q] \in {None, nth'}
        /\ reqBox'.reset = r /\ reqBox'.retry = reqBox.retry
    BY <2>1, <2>2, <2>3, ResetIs DEF ScanInv
  <2>5. snapshotRevision' \in Nat /\ snapshotRevision' <= nthRevision'
    BY <1>1, <1>3, <1>4, <2>1 DEF ScanInv, Known
  <2>6. r # None
    <3>1. r \in Requests
      BY <1>1, <1>4, <2>5, ScanStepTyped DEF Requests, ScanInv, ScanTypeOK, ScanNext, Coordinator
    <3> QED
      BY <3>1, NilAssumption
  <2>7. reqBox' # NoRequests
    BY <2>4, <2>6 DEF NoRequests
  <2>8. Known'
    <3>1. RevisionKnown(reqBox.retry)'
      <4>1. reqBox.retry # None => reqBox.retry.revision \in Nat
        BY DEF ScanInv, ScanTypeOK, Requests
      <4> QED
        BY <1>1, <1>3, <1>4, <2>4, <4>1 DEF ScanInv, Known, RevisionKnown
    <3>2. RevisionKnown(reqBox.reset)'
      BY <2>4, <2>5 DEF RevisionKnown
    <3>3. revision' <= nthRevision'
      BY <1>1, <1>3, <1>4 DEF ScanInv, Known
    <3> QED
      BY <1>3, <2>5, <3>1, <3>2, <3>3 DEF ScanInv, Known
  <2>9. PatternsFit' /\ GivenUp' /\ Counted'
    BY <1>3, <2>4, <2>6 DEF ScanInv, PatternsFit, GivenUp, Counted, Sent
  <2>10. ASSUME ~overlapped'
         PROVE  Fitting'
    <3>1. CASE change
      <4>1. doing = "wait" /\ reqBox.retry = None /\ ~useSnapshot'
        BY <1>3, <2>10, <3>1
      <4>2. snapshotRevision' = nthRevision' /\ nthRevision' = nthRevision + 1
        BY <1>3, <2>1, <3>1, <4>1
      <4>3. RequestsFit'
        BY <2>4, <4>1 DEF RequestsFit, RequestFits
      <4>4. SearchFits' /\ ChunksFit'
        BY <1>3, <4>1 DEF SearchFits, ChunksFit
      <4>5. MergersFit'
        BY <1>1, <1>3, <4>2 DEF MergersFit, ScanInv, Known
      <4>6. CacheFits'
        BY <1>3, <3>1 DEF CacheFits, NothingCached
      <4>7. ListFits'
        BY <2>7 DEF ListFits
      <4> QED
        BY <4>2, <4>3, <4>4, <4>5, <4>6, <4>7 DEF Fitting
    <3>2. CASE ~change
      <4>1. Fitting
        BY <1>3, <2>10, <3>2 DEF ScanInv
      <4>2. /\ nth' = nth /\ nthRevision' = nthRevision /\ cache' = cache
            /\ snapshotRevision' = snapshotRevision
        BY <1>3, <2>1, <3>2, <4>1 DEF Fitting
      <4>3. RequestsFit'
        BY <2>4, <4>1, <4>2 DEF RequestsFit, RequestFits, Fitting
      <4>4. SearchFits' /\ ChunksFit'
        BY <1>3, <4>1, <4>2 DEF SearchFits, RequestFits, ChunksFit, ChunkFits, Fitting
      <4>5. MergersFit' /\ CacheFits'
        BY <1>3, <4>1, <4>2 DEF MergersFit, MergerFits, CacheFits, Fitting
      <4>6. ListFits'
        BY <2>7 DEF ListFits
      <4> QED
        BY <4>1, <4>2, <4>3, <4>4, <4>5, <4>6 DEF Fitting
    <3> QED
      BY <3>1, <3>2
  <2> QED
    BY <2>8, <2>9, <2>10 DEF Rest
<1>6. CASE ~searchNew.changed
  <2>1. UNCHANGED <<snapshotRevision, reqBox, patternCache>>
    BY <1>6 DEF HandleSearchNew
  <2>2. /\ nth' = nth /\ nthRevision' = nthRevision /\ cache' = cache /\ overlapped' = overlapped
    BY <1>2, <1>3, <1>6
  <2>3. Known' /\ PatternsFit' /\ GivenUp' /\ Counted'
    BY <1>3, <2>1, <2>2 DEF ScanInv, Known, RevisionKnown, PatternsFit, GivenUp, Counted, Sent
  <2>4. RequestsFit' = RequestsFit /\ SearchFits' = SearchFits /\ CacheFits' = CacheFits
    BY <1>3, <2>1, <2>2 DEF RequestsFit, RequestFits, SearchFits, CacheFits
  <2>5. MergersFit' = MergersFit /\ ChunksFit' = ChunksFit /\ ListFits' = ListFits
    BY <1>3, <2>1, <2>2 DEF MergersFit, MergerFits, ChunksFit, ChunkFits, ListFits, ShowsFields
  <2> QED
    BY <2>1, <2>2, <2>3, <2>4, <2>5 DEF ScanInv, Rest, Fitting
<1> QED
  BY <1>5, <1>6

LEMMA ScanRead ==
  ASSUME ScanInv, NEW fin \in BOOLEAN, HandleRead(fin)
  PROVE  Rest'
<1> DEFINE r == [query |-> query, nth |-> nth', final |-> fin, revision |-> snapshotRevision']
<1>1. /\ nthRevision \in Nat /\ snapshotRevision \in Nat /\ nth \in Nths /\ query \in Queries
      /\ patternCache \in [Queries -> Nths \cup {None}]
  BY DEF ScanInv, ScanTypeOK
<1>2. /\ snapshotRevision' = IF useSnapshot THEN snapshotRevision ELSE nthRevision
      /\ nth' = nth /\ Reset("retry", fin, patternCache)
      /\ UNCHANGED <<query, searchNew, nthRevision, overlapped, cache, doing, request, revision,
                     mergerCache, searchFin, at, matches, received>>
  BY DEF HandleRead, userVars, loopVars, workVars
<1>3. /\ \A q \in Queries : patternCache'[q] \in {None, nth'}
      /\ reqBox'.retry = r /\ reqBox'.reset = reqBox.reset
  BY <1>1, <1>2, ResetIs DEF ScanInv, PatternsFit
<1>4. snapshotRevision' \in Nat /\ snapshotRevision' <= nthRevision'
  BY <1>1, <1>2 DEF ScanInv, Known
<1>5. r # None
  BY <1>1, <1>2, <1>4, NilAssumption DEF Requests
<1>6. reqBox' # NoRequests
  BY <1>3, <1>5 DEF NoRequests
<1>7. Known'
  BY <1>2, <1>3, <1>4 DEF ScanInv, Known, RevisionKnown
<1>8. PatternsFit' /\ GivenUp' /\ Counted'
  BY <1>2, <1>3 DEF ScanInv, PatternsFit, GivenUp, Counted, Sent
<1>9. ASSUME ~overlapped'
      PROVE  Fitting'
  <2>1. Fitting
    BY <1>2, <1>9 DEF ScanInv
  <2>2. snapshotRevision' = snapshotRevision
    BY <1>2, <2>1 DEF Fitting
  <2>3. RequestsFit'
    BY <1>2, <1>3, <2>1, <2>2 DEF RequestsFit, RequestFits, Fitting
  <2>4. SearchFits' /\ ChunksFit'
    BY <1>2, <2>1, <2>2 DEF SearchFits, RequestFits, ChunksFit, ChunkFits, Fitting
  <2>5. MergersFit' /\ CacheFits'
    BY <1>2, <2>1, <2>2 DEF MergersFit, MergerFits, CacheFits, Fitting
  <2>6. ListFits'
    BY <1>6 DEF ListFits
  <2> QED
    BY <1>2, <2>1, <2>2, <2>3, <2>4, <2>5, <2>6 DEF Fitting
<1> QED
  BY <1>7, <1>8, <1>9 DEF Rest

LEMMA ScanTake ==
  ASSUME ScanInv, NEW r, r \in {reqBox.retry, reqBox.reset}, Take(r)
  PROVE  Rest'
<1> DEFINE mergers == MergersFor(r)
           hit == mergers[r.query] # None /\ mergers[r.query].final = r.final
           all == [query |-> r.query, final |-> r.final, found |-> Everything]
<1>1. r \in Requests /\ r # None
  BY DEF Take, ScanInv, ScanTypeOK
<1>2. r.query \in Queries /\ r.final \in BOOLEAN /\ r.revision \in Nat
  BY <1>1 DEF Requests
<1>3. /\ reqBox' = NoRequests /\ revision' = r.revision
      /\ UNCHANGED <<searchNew, nth, nthRevision, snapshotRevision, patternCache, overlapped, cache>>
  BY DEF Take, userVars, ownVars
<1>4. mergers \in [Queries -> Mergers \cup {None}]
  BY MergersTyped DEF ScanInv
<1>5. \A q \in Queries : mergers[q] # None => mergers[q].query = q
  BY DEF MergersFor, NoMergers, ScanInv, Known
<1>6. all \in Mergers
  BY <1>2, EverythingTyped DEF Mergers
<1>7. hit => mergers[r.query] \in Mergers /\ mergers[r.query].query = r.query
  BY <1>2, <1>4, <1>5
<1>8. \/ /\ hit /\ Deliver(mergers[r.query], mergers)
         /\ UNCHANGED <<doing, request, workVars>>
      \/ /\ r.query = EmptyQuery /\ Deliver(all, mergers)
         /\ UNCHANGED <<doing, request, workVars>>
      \/ /\ mergerCache' = mergers /\ request' = r /\ doing' = "scan"
         /\ at' = [c \in Chunks |-> "todo"] /\ received' = 0
  BY DEF Take
<1>9. doing = "wait"
  BY DEF Take
<1> HIDE DEF mergers, all
<1>10. \A q \in Queries : mergerCache'[q] # None => mergerCache'[q].query = q
  BY <1>4, <1>5, <1>6, <1>7, <1>8, DeliverKnown
<1>11. Known'
  BY <1>1, <1>3, <1>10 DEF ScanInv, Known, RevisionKnown, NoRequests
<1>12. PatternsFit' /\ GivenUp'
  BY <1>3, <1>8, <1>9 DEF ScanInv, PatternsFit, GivenUp
<1>13. Counted'
  <2>1. CASE doing' = doing
    BY <1>9, <2>1 DEF Counted
  <2>2. CASE at' = [c \in Chunks |-> "todo"] /\ received' = 0
    <3>1. Sent' = {}
      BY <2>2 DEF Sent
    <3> QED
      BY <2>2, <3>1, FS_EmptySet DEF Counted
  <2> QED
    BY <1>8, <2>1, <2>2
<1>14. ASSUME ~overlapped'
       PROVE  Fitting'
  <2>1. Fitting
    BY <1>3, <1>14 DEF ScanInv
  <2>2. r.nth = nth /\ r.revision = snapshotRevision
    BY <1>1, <2>1 DEF Fitting, RequestsFit, RequestFits
  <2>3. nth \in Nths
    BY DEF ScanInv, ScanTypeOK
  <2>4. \A q \in Queries : mergers[q] # None => mergers[q].found = AllOf(q, nth)
    BY <2>1, <2>2 DEF mergers, MergersFor, NoMergers, Fitting, MergersFit, MergerFits
  <2>5. RequestsFit' /\ CacheFits'
    BY <1>3, <2>1 DEF RequestsFit, RequestFits, NoRequests, CacheFits, Fitting
  <2>6. SearchFits'
    BY <1>3, <1>8, <1>9, <2>2 DEF SearchFits, RequestFits
  <2>7. ChunksFit'
    BY <1>8, <1>9 DEF ChunksFit, ChunkFits
  <2>8. CASE hit /\ Deliver(mergers[r.query], mergers)
    <3>1. mergers[r.query].found = AllOf(r.query, nth)
      BY <1>2, <2>4, <2>8
    <3>2. /\ searchFin'.found = AllOf(searchFin'.query, nth)
          /\ \A q \in Queries :
                mergerCache'[q] # None => mergerCache'[q].found = AllOf(q, nth)
      BY <1>4, <1>7, <2>3, <2>4, <2>8, <3>1, DeliverFits
    <3> QED
      BY <1>3, <2>1, <2>5, <2>6, <2>7, <3>2
         DEF Fitting, MergersFit, MergerFits, ListFits, ShowsFields
  <2>9. CASE r.query = EmptyQuery /\ Deliver(all, mergers)
    <3>1. all.found = AllOf(all.query, nth)
      BY <1>2, <2>3, <2>9, NarrowAssumption DEF all, AllOf, Everything
    <3>2. /\ searchFin'.found = AllOf(searchFin'.query, nth)
          /\ \A q \in Queries :
                mergerCache'[q] # None => mergerCache'[q].found = AllOf(q, nth)
      BY <1>4, <1>6, <2>3, <2>4, <2>9, <3>1, DeliverFits
    <3> QED
      BY <1>3, <2>1, <2>5, <2>6, <2>7, <3>2
         DEF Fitting, MergersFit, MergerFits, ListFits, ShowsFields
  <2>10. CASE mergerCache' = mergers /\ doing' = "scan"
    BY <1>3, <2>1, <2>4, <2>5, <2>6, <2>7, <2>10 DEF Fitting, MergersFit, MergerFits, ListFits
  <2> QED
    BY <1>8, <2>8, <2>9, <2>10
<1> QED
  BY <1>11, <1>12, <1>13, <1>14 DEF Rest

LEMMA ScanReceive ==
  ASSUME ScanInv, Receive
  PROVE  Rest'
<1>1. /\ doing = "scan" /\ doing' # "wait" /\ (doing' = "cancelled" => reqBox.reset # None)
      /\ received < Cardinality(Sent) /\ received' = received + 1
      /\ UNCHANGED <<searchNew, nth, nthRevision, snapshotRevision, patternCache, overlapped, cache,
                     reqBox, request, revision, mergerCache, searchFin, at, matches>>
  BY DEF Receive, userVars, ownVars, loopVars, Sent
<1>2. Known' /\ PatternsFit' /\ GivenUp'
  BY <1>1 DEF ScanInv, Known, RevisionKnown, PatternsFit, GivenUp
<1>3. Counted'
  <2>1. Cardinality(Sent) \in Nat /\ received \in Nat
    BY SentIs DEF ScanInv, ScanTypeOK
  <2>2. Sent' = Sent
    BY <1>1 DEF Sent
  <2> QED
    BY <1>1, <2>1, <2>2 DEF Counted
<1>4. RequestsFit' = RequestsFit /\ SearchFits' = SearchFits /\ CacheFits' = CacheFits
  BY <1>1 DEF RequestsFit, RequestFits, SearchFits, CacheFits
<1>5. MergersFit' = MergersFit /\ ChunksFit' = ChunksFit
  BY <1>1 DEF MergersFit, MergerFits, ChunksFit, ChunkFits
<1>6. ListFits'
  BY <1>1 DEF ListFits
<1> QED
  BY <1>1, <1>2, <1>3, <1>4, <1>5, <1>6 DEF ScanInv, Rest, Fitting

LEMMA ScanCollect ==
  ASSUME ScanInv, Collect
  PROVE  Rest'
<1> DEFINE merger == [query |-> request.query, final |-> request.final, found |-> matches]
<1>1. /\ doing = "scan" /\ received = NumChunks /\ Deliver(merger, mergerCache) /\ doing' = "wait"
      /\ UNCHANGED <<searchNew, nth, nthRevision, snapshotRevision, patternCache, overlapped, cache,
                     reqBox, revision>>
  BY DEF Collect, userVars, ownVars
<1>2. /\ mergerCache \in [Queries -> Mergers \cup {None}] /\ merger \in Mergers /\ nth \in Nths
      /\ request \in Requests /\ request # None /\ matches \in [Chunks -> SUBSET Items]
  BY <1>1 DEF ScanInv, ScanTypeOK, Requests, Mergers
<1>3. Sent = Chunks
  BY <1>1, SentIs, ChunkAssumption DEF ScanInv, Counted
<1>4. \A q \in Queries : mergerCache'[q] # None => mergerCache'[q].query = q
  BY <1>1, <1>2, DeliverKnown DEF ScanInv, Known
<1>5. Known'
  BY <1>1, <1>4 DEF ScanInv, Known, RevisionKnown
<1>6. PatternsFit' /\ GivenUp' /\ Counted'
  BY <1>1 DEF ScanInv, PatternsFit, GivenUp, Counted
<1>7. ASSUME ~overlapped'
      PROVE  Fitting'
  <2>1. Fitting
    BY <1>1, <1>7 DEF ScanInv
  <2>2. revision = snapshotRevision /\ \A c \in Chunks : matches[c] = MatchesIn[request.query][nth][c]
    BY <1>1, <1>3, <2>1 DEF Fitting, SearchFits, ChunksFit, ChunkFits, Sent
  <2>3. merger.found = AllOf(merger.query, nth)
    BY <1>2, <2>2 DEF AllOf
  <2>4. \A q \in Queries :
            mergerCache[q] # None => mergerCache[q].found = AllOf(q, nth)
    BY <2>1, <2>2 DEF Fitting, MergersFit, MergerFits
  <2> HIDE DEF merger
  <2>5. /\ searchFin'.found = AllOf(searchFin'.query, nth)
        /\ \A q \in Queries :
              mergerCache'[q] # None => mergerCache'[q].found = AllOf(q, nth)
    BY <1>1, <1>2, <2>3, <2>4, DeliverFits
  <2>6. MergersFit' /\ ListFits'
    BY <1>1, <2>5 DEF MergersFit, MergerFits, ListFits, ShowsFields
  <2>7. RequestsFit' /\ CacheFits'
    BY <1>1, <2>1 DEF RequestsFit, RequestFits, CacheFits, Fitting
  <2>8. SearchFits' /\ ChunksFit'
    BY <1>1 DEF SearchFits, ChunksFit
  <2> QED
    BY <1>1, <2>1, <2>6, <2>7, <2>8 DEF Fitting
<1> QED
  BY <1>5, <1>6, <1>7 DEF Rest

LEMMA ScanAbandon ==
  ASSUME ScanInv, Abandon
  PROVE  Rest'
<1>1. /\ doing = "cancelled" /\ doing' = "wait"
      /\ UNCHANGED <<searchNew, nth, nthRevision, snapshotRevision, patternCache, overlapped, cache,
                     reqBox, request, revision, mergerCache, searchFin>>
  BY DEF Abandon, userVars, ownVars, loopVars
<1>2. Known' /\ PatternsFit' /\ GivenUp' /\ Counted'
  BY <1>1 DEF ScanInv, Known, RevisionKnown, PatternsFit, GivenUp, Counted
<1>3. RequestsFit' = RequestsFit /\ CacheFits' = CacheFits /\ MergersFit' = MergersFit
  BY <1>1 DEF RequestsFit, RequestFits, CacheFits, MergersFit, MergerFits
<1>4. SearchFits' /\ ChunksFit'
  BY <1>1 DEF SearchFits, ChunksFit
<1>5. ListFits'
  BY <1>1 DEF ScanInv, GivenUp, ListFits, NoRequests
<1> QED
  BY <1>1, <1>2, <1>3, <1>4, <1>5 DEF ScanInv, Rest, Fitting

\* A goroutine changes only the chunk it is at, and the cache.
LEMMA ChunkStep ==
  ASSUME ScanInv, NEW c \in Chunks, doing # "wait",
         UNCHANGED <<searchNew, nth, nthRevision, snapshotRevision, patternCache, overlapped, reqBox, doing,
                     request, revision, mergerCache, searchFin, received>>,
         \A d \in Chunks \ {c} : at'[d] = at[d] /\ matches'[d] = matches[d],
         at[c] # "sent",
         ~overlapped /\ Fitting => CacheFits' /\ ChunkFits(c)'
  PROVE  Rest'
<1>1. Known' /\ PatternsFit' /\ GivenUp'
  BY DEF ScanInv, Known, RevisionKnown, PatternsFit, GivenUp
<1>2. Counted'
  <2>1. Sent' \in {Sent, Sent \cup {c}}
    BY DEF Sent
  <2>2. c \notin Sent
    BY DEF Sent
  <2>3. Cardinality(Sent) \in Nat /\ Cardinality(Sent \cup {c}) = Cardinality(Sent) + 1
    BY <2>2, SentIs, FS_AddElement DEF ScanInv
  <2>4. received \in Nat
    BY DEF ScanInv, ScanTypeOK
  <2> QED
    BY <2>1, <2>3, <2>4 DEF ScanInv, Counted
<1>3. RequestsFit' = RequestsFit /\ SearchFits' = SearchFits /\ MergersFit' = MergersFit
  BY DEF RequestsFit, RequestFits, SearchFits, MergersFit, MergerFits
<1>4. ListFits'
  BY DEF ListFits
<1>5. ASSUME ~overlapped, Fitting
      PROVE  ChunksFit'
  <2>1. \A d \in Chunks \ {c} : ChunkFits(d)'
    BY <1>5 DEF Fitting, ChunksFit, ChunkFits
  <2> QED
    BY <1>5, <2>1 DEF ChunksFit
<1> QED
  BY <1>1, <1>2, <1>3, <1>4, <1>5 DEF ScanInv, Rest, Fitting

LEMMA ScanLookUp ==
  ASSUME ScanInv, NEW c \in Chunks, LookUp(c)
  PROVE  Rest'
<1> DEFINE q == request.query
           hit == q \in Cacheable /\ cache[c][q] # None
<1>1. /\ doing # "wait" /\ at[c] = "todo"
      /\ at' = [at EXCEPT ![c] = IF hit THEN "matched" ELSE "matching"]
      /\ matches' = [matches EXCEPT ![c] = IF hit THEN cache[c][q] ELSE Space(q, c)]
      /\ UNCHANGED <<searchNew, nth, nthRevision, snapshotRevision, patternCache, overlapped, reqBox, doing,
                     request, revision, mergerCache, searchFin, received, cache>>
  BY DEF LookUp, Searching, userVars, ownVars, loopVars
<1>2. /\ q \in Queries /\ nth \in Nths /\ request # None
      /\ at \in [Chunks -> {"todo", "matching", "matched", "sent"}]
      /\ matches \in [Chunks -> SUBSET Items]
      /\ cache \in [Chunks -> [Queries -> (SUBSET Items) \cup {None}]]
  BY <1>1 DEF ScanInv, ScanTypeOK, Requests
<1>3. \A d \in Chunks \ {c} : at'[d] = at[d] /\ matches'[d] = matches[d]
  BY <1>1, <1>2
<1>4. ASSUME Fitting
      PROVE  CacheFits' /\ ChunkFits(c)'
  <2>1. CacheFits'
    BY <1>1, <1>4 DEF Fitting, CacheFits
  <2>2. CASE hit
    <3>1. cache[c][q] = MatchesIn[q][nth][c]
      BY <1>2, <1>4, <2>2 DEF Fitting, CacheFits
    <3>2. at'[c] = "matched" /\ matches'[c] = cache[c][q]
      BY <1>1, <1>2, <2>2
    <3> QED
      BY <1>1, <2>1, <3>1, <3>2 DEF ChunkFits
  <2>3. CASE ~hit
    <3>1. at'[c] = "matching" /\ matches'[c] = Space(q, c)
      BY <1>1, <1>2, <2>3
    <3>2. MatchesIn[q][nth][c] \subseteq Space(q, c)
      <4>1. CASE Space(q, c) = Items
        BY <1>2, <4>1, FitAssumption
      <4>2. ASSUME NEW i \in DOMAIN SubKeys[q], cache[c][SubKeys[q][i]] # None,
                   Space(q, c) = cache[c][SubKeys[q][i]]
            PROVE  MatchesIn[q][nth][c] \subseteq Space(q, c)
        <5>1. SubKeys[q][i] \in Queries
          BY <1>2, KeyAssumption
        <5>2. Space(q, c) = MatchesIn[SubKeys[q][i]][nth][c]
          BY <1>4, <4>2, <5>1 DEF Fitting, CacheFits
        <5> QED
          BY <1>2, <5>2, NarrowAssumption
      <4> QED
        BY <1>2, <4>1, <4>2, SpaceIs
    <3> QED
      BY <1>1, <2>1, <3>1, <3>2 DEF ChunkFits
  <2> QED
    BY <2>2, <2>3
<1> QED
  BY <1>1, <1>3, <1>4, ChunkStep

LEMMA ScanMatchChunk ==
  ASSUME ScanInv, NEW c \in Chunks, MatchChunk(c)
  PROVE  Rest'
<1> DEFINE q == request.query
           found == matches[c] \cap MatchesIn[q][request.nth][c]
<1>1. /\ doing # "wait" /\ at[c] = "matching"
      /\ at' = [at EXCEPT ![c] = "matched"] /\ matches' = [matches EXCEPT ![c] = found]
      /\ cache' \in {cache, [cache EXCEPT ![c][q] = found]}
      /\ UNCHANGED <<searchNew, nth, nthRevision, snapshotRevision, patternCache, overlapped, reqBox, doing,
                     request, revision, mergerCache, searchFin, received>>
  BY DEF MatchChunk, Searching, userVars, ownVars, loopVars
<1>2. /\ q \in Queries /\ nth \in Nths /\ request # None
      /\ at \in [Chunks -> {"todo", "matching", "matched", "sent"}]
      /\ matches \in [Chunks -> SUBSET Items]
      /\ cache \in [Chunks -> [Queries -> (SUBSET Items) \cup {None}]]
  BY <1>1 DEF ScanInv, ScanTypeOK, Requests
<1>3. \A d \in Chunks \ {c} : at'[d] = at[d] /\ matches'[d] = matches[d]
  BY <1>1, <1>2
<1>4. ASSUME Fitting
      PROVE  CacheFits' /\ ChunkFits(c)'
  <2>1. request.nth = nth /\ MatchesIn[q][nth][c] \subseteq matches[c]
    BY <1>1, <1>2, <1>4 DEF Fitting, SearchFits, RequestFits, ChunksFit, ChunkFits
  <2>2. found = MatchesIn[q][nth][c]
    BY <2>1
  <2> HIDE DEF found
  <2>3. at'[c] = "matched" /\ matches'[c] = found
    BY <1>1, <1>2
  <2>4. ChunkFits(c)'
    BY <1>1, <2>2, <2>3 DEF ChunkFits
  <2>5. ASSUME NEW d \in Chunks, NEW p \in Queries, cache'[d][p] # None
        PROVE  cache'[d][p] = MatchesIn[p][nth][d]
    <3>1. cache'[d][p] = cache[d][p] \/ (d = c /\ p = q /\ cache'[d][p] = found)
      BY <1>1, <1>2
    <3> QED
      BY <1>4, <2>2, <2>5, <3>1 DEF Fitting, CacheFits
  <2> QED
    BY <1>1, <2>4, <2>5 DEF CacheFits
<1> QED
  BY <1>1, <1>3, <1>4, ChunkStep

LEMMA ScanSend ==
  ASSUME ScanInv, NEW c \in Chunks, Send(c)
  PROVE  Rest'
<1>1. /\ doing # "wait" /\ at[c] = "matched" /\ at' \in {at, [at EXCEPT ![c] = "sent"]}
      /\ UNCHANGED <<searchNew, nth, nthRevision, snapshotRevision, patternCache, overlapped, reqBox, doing,
                     request, revision, mergerCache, searchFin, received, cache, matches>>
  BY DEF Send, Searching, userVars, ownVars, loopVars
<1>2. at \in [Chunks -> {"todo", "matching", "matched", "sent"}]
  BY DEF ScanInv, ScanTypeOK
<1>3. \A d \in Chunks \ {c} : at'[d] = at[d] /\ matches'[d] = matches[d]
  BY <1>1, <1>2
<1>4. at'[c] \in {"matched", "sent"}
  BY <1>1, <1>2
<1>5. ASSUME Fitting
      PROVE  CacheFits' /\ ChunkFits(c)'
  BY <1>1, <1>4, <1>5 DEF Fitting, CacheFits, ChunksFit, ChunkFits
<1> QED
  BY <1>1, <1>3, <1>5, ChunkStep

LEMMA ScanStill ==
  ASSUME ScanInv, UNCHANGED scanVars
  PROVE  Rest'
<1> USE DEF scanVars, userVars, ownVars, loopVars, workVars
<1>1. Known' /\ PatternsFit' /\ GivenUp' /\ Counted'
  BY DEF ScanInv, Known, RevisionKnown, PatternsFit, GivenUp, Counted, Sent
<1>2. RequestsFit' = RequestsFit /\ SearchFits' = SearchFits /\ CacheFits' = CacheFits
  BY DEF RequestsFit, RequestFits, SearchFits, CacheFits
<1>3. MergersFit' = MergersFit /\ ChunksFit' = ChunksFit /\ ListFits' = ListFits
  BY DEF MergersFit, MergerFits, ChunksFit, ChunkFits, ListFits, ShowsFields
<1> QED
  BY <1>1, <1>2, <1>3 DEF ScanInv, Rest, Fitting

LEMMA ScanStep == ScanInv /\ [ScanNext]_scanVars => ScanInv'
<1> SUFFICES ASSUME ScanInv, [ScanNext]_scanVars PROVE ScanInv'
  OBVIOUS
<1>1. ScanTypeOK'
  BY ScanStepTyped DEF ScanInv
<1>2. Rest'
  <2>1. CASE User
    BY <2>1, ScanUser DEF User
  <2>2. CASE Coordinator
    BY <2>2, ScanSearchNew, ScanRead DEF Coordinator
  <2>3. CASE Matcher
    BY <2>3, ScanTake, ScanReceive, ScanCollect, ScanAbandon DEF Matcher
  <2>4. CASE Goroutines
    BY <2>4, ScanLookUp, ScanMatchChunk, ScanSend DEF Goroutines
  <2> QED
    BY <2>1, <2>2, <2>3, <2>4, ScanStill DEF ScanNext
<1> QED
  BY <1>1, <1>2 DEF ScanInv, Rest

\* The state of Scan has the types that ScanTypeOK gives (core.go, matcher.go,
\* cache.go).
THEOREM ScanTypeCorrect == ScanSpec => []ScanTypeOK
<1>1. ScanInit => ScanTypeOK
  BY ScanInitTyped
<1>2. ScanTypeOK /\ [ScanNext]_scanVars => ScanTypeOK'
  BY ScanStepTyped
<1> QED
  BY <1>1, <1>2, PTL DEF ScanSpec

\* Unless a search or a reload overlapped the last change of --nth, the list that
\* is shown in the end has exactly the items that match in its fields, whatever
\* the three caches hold (core.go, matcher.go, pattern.go, cache.go).
THEOREM FieldsAreExact == ScanSpec => []FieldsExactAlone
<1>1. ScanInit => ScanInv
  BY ScanInitInv
<1>2. ScanInv /\ [ScanNext]_scanVars => ScanInv'
  BY ScanStep
<1>3. ScanInv => FieldsExactAlone
  BY DEF ScanInv, Fitting, ListFits, FieldsExactAlone, FieldsExact, Settled
<1> QED
  BY <1>1, <1>2, <1>3, PTL DEF ScanSpec

=============================================================================
