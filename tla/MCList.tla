------------------------------- MODULE MCList -------------------------------
(* Model-checking instance of List: the item 1 has two lines. *)
EXTENDS List

MCLines(i) == IF i = 1 THEN 2 ELSE 1

MCActs ==
    Selections \cup PageMovements
    \cup {"toggle-track", "toggle-track-current", "track-current", "untrack-current",
          "up", "down", "first", "last", "pos", "offset-up", "offset-down", "next-selected",
          "prev-selected", "accept", "accept-or-print-query", "jump", "jump-accept", "click", "offset-middle"}
=============================================================================
