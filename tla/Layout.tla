------------------------------- MODULE Layout -------------------------------
(***************************************************************************)
(* Where the windows of the finder are: adjustMarginAndPadding,            *)
(* resizeWindows and extraLines of terminal.go.  A window is [top, left,   *)
(* width, height].  A border is the set of its sides; the one that is      *)
(* there without a side is {"phantom"}.  The configuration is a record k:  *)
(*   width, height         the screen                                      *)
(*   margin, padding       for top, right, bottom, left                    *)
(*   border, listBorder, inputBorder, headerBorder, linesBorder            *)
(*   shown, header, headerLines   is the header shown, and how many lines  *)
(*                         of it there are (none when it is hidden)        *)
(*   separator, reverse, headerFirst, scrollbar, bw                        *)
(*   preview               a set with its options or nothing when it is    *)
(*                         hidden: [position, size, percent, border,       *)
(*                         threshold, alternative]                         *)
(*   active                a set with activePreviewOpts, the options that  *)
(*                         the last call used, or nothing when there is no *)
(*                         preview to make room for                        *)
(***************************************************************************)
EXTENDS Integers, Sequences, FiniteSets, SequencesExt, FiniteSetsExt

MinWidth == 4
MinHeight == 3

Max2(a, b) == IF a >= b THEN a ELSE b
Min2(a, b) == IF a <= b THEN a ELSE b
Constrain(n, low, high) == IF n < low THEN low ELSE IF n > high THEN high ELSE n
One(condition) == IF condition THEN 1 ELSE 0

Window(top, left, width, height) == [top |-> top, left |-> left, width |-> width, height |-> height]

Visible(border) == border # {}
BorderLines(border) == Cardinality(border \cap {"top", "bottom"})
BorderColumns(border, bw) == (1 + bw) * Cardinality(border \cap {"left", "right"})

(***************************************************************************)
(* Margin and padding                                                      *)
(***************************************************************************)

Side == <<"top", "right", "bottom", "left">>

\* The border takes a line, or two columns, of the margin.
ExtraMargin(k, i) == IF Side[i] \in k.border THEN IF i % 2 = 1 THEN 1 ELSE 1 + k.bw ELSE 0
Margin(k, i) == k.margin[i] + ExtraMargin(k, i)

MinPreviewWidth(k, p) ==
    1 + BorderColumns(p.border, k.bw)
      + One(p.position \in {"left", "right"} /\ k.scrollbar /\ "right" \notin p.border)
MinPreviewHeight(p) == 1 + BorderLines(p.border)

Previewed(k, positions) == {p \in k.active : p.position \in positions}
Widest(k, P) == Max({0} \cup {MinPreviewWidth(k, p) : p \in P})
Highest(P) == Max({0} \cup {MinPreviewHeight(p) : p \in P})

MinAreaWidth(k) ==
    Max2(MinWidth + Widest(k, Previewed(k, {"left", "right"})), Widest(k, Previewed(k, {"up", "down"})))
MinAreaHeight(k) ==
    Max2(MinHeight - One(~k.separator) + Highest(Previewed(k, {"up", "down"})),
         Highest(Previewed(k, {"left", "right"})))

\* Margins and paddings shrink together when the area would get too small.
Both(k, i, j) == Margin(k, i) + Margin(k, j) + k.padding[i] + k.padding[j]
Shrinks(k, i, j, max, min) == max - Both(k, i, j) < Min2(min, max)
Desired(n, max, min, both) == ((max - Min2(min, max)) * n) \div both

Adjusted(k, i, j, max, min) ==
    IF Shrinks(k, i, j, max, min)
    THEN [margin |-> Max2(ExtraMargin(k, i), Desired(Margin(k, i), max, min, Both(k, i, j))),
          padding |-> Desired(k.padding[i], max, min, Both(k, i, j))]
    ELSE [margin |-> Margin(k, i), padding |-> k.padding[i]]

Adjust(k, i) ==
    IF i % 2 = 1 THEN Adjusted(k, i, 4 - i, k.height, MinAreaHeight(k))
    ELSE Adjusted(k, i, 6 - i, k.width, MinAreaWidth(k))

Inset(k, i) == Adjust(k, i).margin + Adjust(k, i).padding

\* Inside the margin and the padding.
Area(k) == Window(Inset(k, 1), Inset(k, 4), k.width - Inset(k, 2) - Inset(k, 4),
                  k.height - Inset(k, 1) - Inset(k, 3))

(***************************************************************************)
(* The lines above or below the list                                       *)
(***************************************************************************)

HasLinesWindow(k) == k.headerLines > 0 /\ Visible(k.linesBorder)
HasHeaderWindow(k) ==
    /\ k.shown
    /\ IF HasLinesWindow(k) THEN k.header > 0
       ELSE IF Visible(k.headerBorder) THEN k.header + k.headerLines > 0
       ELSE Visible(k.inputBorder)
HasInputWindow(k) == Visible(k.inputBorder) \/ HasHeaderWindow(k) \/ HasLinesWindow(k)

InputHeight(k, lines) ==
    IF HasInputWindow(k) THEN Min2(lines, BorderLines(k.inputBorder) + 1 + One(k.separator)) ELSE 0
HeaderHeight(k, lines) ==
    IF HasHeaderWindow(k)
    THEN Min2(lines, BorderLines(k.headerBorder) + k.header
                         + IF HasLinesWindow(k) THEN 0 ELSE k.headerLines)
    ELSE 0
LinesHeight(k, lines) ==
    IF HasLinesWindow(k) THEN Min2(lines, BorderLines(k.linesBorder) + k.headerLines) ELSE 0

\* The heights of the three windows, in this order of precedence.
Heights(k, height) ==
    LET input == InputHeight(k, height)
        header == HeaderHeight(k, height - input)
    IN  [input |-> input, header |-> header, lines |-> LinesHeight(k, height - input - header)]
Total(h) == h.input + h.header + h.lines

(***************************************************************************)
(* The list and the preview window                                         *)
(***************************************************************************)

CalculateSize(base, p, occupied, min) ==
    LET max == Max2(base - occupied, min)
    IN  IF p.percent THEN Constrain((base * p.size) \div 100, min, max)
        ELSE Constrain(p.size + min - 1, min, max)

PreviewSize(k, p, area) ==
    IF p.position \in {"up", "down"}
    THEN CalculateSize(area.height, p, MinHeight - One(~k.separator), MinPreviewHeight(p))
    ELSE CalculateSize(area.width, p, MinWidth + (IF "left" \in k.listBorder THEN 2 ELSE 0)
                                           + One("right" \in k.listBorder), MinPreviewWidth(k, p))

\* resizePreviewWindows: the options that are used, the alternative ones when
\* the window would be smaller than the threshold.  Size 0 is no window.  An
\* alternative has no alternative (parsePreviewWindowImpl).
Sized(P) == {p \in P : p.size # 0}
TooSmall(k, p, area) == p.threshold > 0 /\ p.alternative # {} /\ PreviewSize(k, p, area) < p.threshold
Active(k, P, area) ==
    Sized(UNION {IF TooSmall(k, p, area) THEN p.alternative ELSE {p} : p \in Sized(P)})

\* Next to the right border, when nothing else has one, the list is a column wider.
SticksToRight(k) ==
    /\ "right" \in k.border \ (k.listBorder \cup k.inputBorder)
    /\ "right" \notin k.headerBorder \/ k.header + k.headerLines = 0
Stuck(k, p) ==
    CASE p.position = "right" -> "right" \in k.border \ p.border
      [] p.position = "left" -> FALSE
      [] OTHER -> SticksToRight(k) /\ "right" \notin p.border

\* What the borders of the list take from it.
Inner(k, w) ==
    Window(w.top + One("top" \in k.listBorder), w.left + (IF "left" \in k.listBorder THEN 2 ELSE 0),
           w.width - (IF "left" \in k.listBorder THEN 2 ELSE 0) - One("right" \in k.listBorder),
           w.height - BorderLines(k.listBorder))

\* The list and its border, in what the preview leaves: from top and left on.
Lists(k, h, top, left, width, height, gap) ==
    LET outer == Window(top + (IF k.reverse THEN Total(h) ELSE 0), left, width, height - Total(h))
        inner == Inner(k, outer)
    IN  [border |-> outer,
         list |-> [inner EXCEPT !.left = @ + gap.left, !.width = @ - gap.left + gap.right]]

\* The preview does not take more lines than the list can give away.
PreviewLines(k, p, area, h) ==
    LET size == PreviewSize(k, p, area)
        inner == area.height - BorderLines(k.listBorder)
    IN  Min2(size, area.height - Total(h) - Max2(0, inner - size - Total(h)))

NoGap == [left |-> 0, right |-> 0]

\* Without a border the list is a column away from a preview on its left, and
\* next to the border on its right.
LeftGap(k) == [left |-> One(~Visible(k.listBorder)),
               right |-> One("right" \in k.border /\ ~Visible(k.listBorder))]

PreviewAbove(k, p, area, h, width, size) ==
    [lists |-> IF p.position = "up"
               THEN Lists(k, h, area.top + size, area.left, width, area.height - size, NoGap)
               ELSE Lists(k, h, area.top, area.left, width, area.height - size, NoGap),
     preview |-> {Window(IF p.position = "up" THEN area.top ELSE area.top + area.height - size,
                         area.left, width, size)}]
PreviewBeside(k, p, area, h, width, size) ==
    [lists |-> IF p.position = "left"
               THEN Lists(k, h, area.top, area.left + size, width - size, area.height, LeftGap(k))
               ELSE Lists(k, h, area.top, area.left, width - size, area.height, NoGap),
     preview |-> {Window(area.top, IF p.position = "left" THEN area.left ELSE area.left + width - size,
                         size, area.height)}]

Panes(k, area, h) ==
    LET active == Active(k, k.preview, area)
    IN  IF active = {}
        THEN [lists |-> Lists(k, h, area.top, area.left, area.width + One(SticksToRight(k)),
                              area.height, NoGap), preview |-> {}]
        ELSE LET p == CHOOSE q \in active : TRUE
                 width == area.width + One(Stuck(k, p))
             IN  IF p.position \in {"up", "down"}
                 THEN PreviewAbove(k, p, area, h, width, PreviewLines(k, p, area, h))
                 ELSE PreviewBeside(k, p, area, h, width, PreviewSize(k, p, area))

\* The window that the others are aligned with.
Frame(k, lists) == IF Visible(k.listBorder) THEN lists.border ELSE lists.list

(***************************************************************************)
(* The input, the header and the header lines                              *)
(***************************************************************************)

Below(w) == w.top + w.height

InputTop(k, h, w) ==
    IF HasHeaderWindow(k) /\ k.headerFirst
    THEN IF k.reverse THEN w.top - h.input - h.lines ELSE Below(w) + h.lines
    ELSE IF k.reverse THEN w.top - Total(h) ELSE Below(w) + h.header + h.lines

\* (Variant: the header lines are forgotten.)
HeaderTopOnList(k, h, w) ==
    IF k.headerFirst
    THEN IF k.reverse THEN w.top - Total(h) ELSE Below(w) + h.input + h.lines
    ELSE IF k.reverse THEN w.top - h.header ELSE Below(w)

HeaderTop(k, h, w) ==
    IF k.headerFirst
    THEN IF k.reverse THEN w.top - Total(h) ELSE Below(w) + h.input + h.lines
    ELSE IF k.reverse THEN w.top - h.header - h.lines ELSE Below(w) + h.lines

LinesTop(k, h, w) == IF k.reverse THEN w.top - h.lines ELSE Below(w)

Aligned(has, top, w, height) == IF has THEN {Window(top, w.left, w.width, height)} ELSE {}

\* All windows; those that need not be there are sets.
WindowsIn(k, h, panes, w) ==
    [list |-> panes.lists.list, frame |-> w, preview |-> panes.preview,
     input |-> Aligned(HasInputWindow(k), InputTop(k, h, w), w, h.input),
     header |-> Aligned(HasHeaderWindow(k), HeaderTop(k, h, w), w, h.header),
     lines |-> Aligned(HasLinesWindow(k), LinesTop(k, h, w), w, h.lines)]
ResizeWindows(k) ==
    LET area == Area(k)
        h == Heights(k, area.height)
        panes == Panes(k, area, h)
    IN  WindowsIn(k, h, panes, Frame(k, panes.lists))

\* Without a window of their own, the prompt and the header are in the list.
PromptLines(k) == IF HasInputWindow(k) THEN 0 ELSE 1 + One(k.separator)
HeaderInList(k) ==
    IF HasHeaderWindow(k) \/ HasLinesWindow(k) THEN 0 ELSE k.header + k.headerLines
MaxItems(k) == Max2(0, ResizeWindows(k).list.height - HeaderInList(k) - PromptLines(k))

\* extraLines and MaxFitAndPad, for --height with a tilde.
ExtraLines(k) ==
    1 + BorderLines(k.inputBorder) + BorderLines(k.listBorder)
      + (IF HasHeaderWindow(k) THEN BorderLines(k.headerBorder) ELSE 0)
      + (IF HasLinesWindow(k) THEN BorderLines(k.linesBorder) ELSE 0)
      + k.header + k.headerLines + One(k.separator)
MaxFit(k) == k.height - Inset(k, 1) - Inset(k, 3) - ExtraLines(k)

(***************************************************************************)
(* Properties                                                              *)
(***************************************************************************)

Shapes == SUBSET {"top", "right", "bottom", "left", "phantom"}
AtMostOne(S) == \A x, y \in S : x = y

IsOptions(p) ==
    /\ p.position \in {"up", "down", "left", "right"}
    /\ p.size \in Nat /\ p.percent \in BOOLEAN /\ p.border \in Shapes /\ p.threshold \in Nat
ArePreviewOptions(P) ==
    /\ AtMostOne(P)
    /\ \A p \in P : /\ IsOptions(p) /\ AtMostOne(p.alternative)
                    /\ \A q \in p.alternative : IsOptions(q) /\ q.alternative = {}

\* The type of a configuration.
IsConfiguration(k) ==
    /\ k.width \in Nat /\ k.height \in Nat /\ k.bw \in Nat
    /\ k.margin \in [1..4 -> Nat] /\ k.padding \in [1..4 -> Nat]
    /\ k.border \in Shapes /\ k.listBorder \in Shapes /\ k.inputBorder \in Shapes
    /\ k.headerBorder \in Shapes /\ k.linesBorder \in Shapes
    /\ k.header \in Nat /\ k.headerLines \in Nat
    /\ k.shown \in BOOLEAN /\ (~k.shown => k.header + k.headerLines = 0)
    /\ k.separator \in BOOLEAN /\ k.reverse \in BOOLEAN /\ k.headerFirst \in BOOLEAN
    /\ k.scrollbar \in BOOLEAN
    /\ ArePreviewOptions(k.preview) /\ ArePreviewOptions(k.active)

Rows(w) == (w.top)..(Below(w) - 1)
Columns(w) == (w.left)..(w.left + w.width - 1)
Apart(v, w) == Rows(v) \cap Rows(w) = {} \/ Columns(v) \cap Columns(w) = {}
Inside(k, w) ==
    /\ Rows(w) \subseteq Inset(k, 1)..(k.height - Inset(k, 3) - 1)
    /\ Columns(w) \subseteq Inset(k, 4)..(k.width - Inset(k, 2) - 1 + One("right" \in k.border))

Parts(all) == <<{all.frame}, all.preview, all.input, all.header, all.lines>>

\* No window covers another, however small the screen is.
NothingCovered(all) ==
    \A i, j \in 1..5 : i < j => \A v \in Parts(all)[i], w \in Parts(all)[j] : Apart(v, w)

\* No window leaves the area inside the margins, unless the preview beside the
\* list is wider than all of it.
Shown(k, positions) == {p \in Active(k, k.preview, Area(k)) : p.position \in positions}
NothingOutside(k, all) ==
    Area(k).width >= Widest(k, Shown(k, {"left", "right"})) =>
        \A i \in 1..5 : \A w \in Parts(all)[i] : Inside(k, w)

\* Without a preview the list has exactly the lines that --height=~N counts on.
FitsExactly(k) == k.preview = {} => MaxItems(k) = Max2(0, MaxFit(k))

\* A screen with room for what was asked for: a line for an item and the preview
\* above or below it, or the preview beside it.
Asked(k) == Max({0} \cup {PreviewSize(k, p, Area(k)) : p \in Shown(k, {"up", "down"})})
Roomy(k) ==
    /\ MaxFit(k) >= 1 + Asked(k)
    /\ Area(k).width >= MinWidth + 3 + Widest(k, Shown(k, {"left", "right"}))

\* With room the list is not squeezed out, and neither is another window.
NothingSqueezed(k, all) ==
    Roomy(k) =>
        /\ all.list.height >= 1 /\ all.list.width >= 1
        /\ Rows(all.list) \subseteq Rows(all.frame) /\ Columns(all.list) \subseteq Columns(all.frame)
        /\ \A i \in 1..5 : \A w \in Parts(all)[i] : w.width >= 1
        /\ \A w \in all.input \cup all.lines \cup all.preview : w.height >= 1

LayoutExact(k) ==
    LET all == ResizeWindows(k)
    IN  NothingCovered(all) /\ NothingOutside(k, all) /\ FitsExactly(k) /\ NothingSqueezed(k, all)

=============================================================================
