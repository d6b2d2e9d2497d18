-------------------------------- MODULE Line --------------------------------
(***************************************************************************)
(* What the query line promises: a text with a cursor and one killed text. *)
(* Each action changes the text only next to the cursor, or replaces it as *)
(* a whole; a kill keeps what it takes away, and nothing else changes the  *)
(* killed text.  Implemented by Prompt.                                    *)
(***************************************************************************)
EXTENDS Naturals, Sequences

CONSTANT Runes

VARIABLES text, cur, killed

vars == <<text, cur, killed>>

Left  == SubSeq(text, 1, cur)
Right == SubSeq(text, cur + 1, Len(text))

Init == text = <<>> /\ cur = 0 /\ killed = <<>>

\* The cursor moves.
Move ==
    /\ cur' \in 0..Len(text)
    /\ UNCHANGED <<text, killed>>

\* A text appears before the cursor.
Insert ==
    /\ cur' >= cur /\ Len(text') = Len(text) + cur' - cur
    /\ SubSeq(text', 1, cur) = Left
    /\ SubSeq(text', cur' + 1, Len(text')) = Right
    /\ UNCHANGED killed

\* The runes from `from' to `to' go, and the cursor is where they were.
Cut(from, to) ==
    /\ text' = SubSeq(text, 1, from - 1) \o SubSeq(text, to + 1, Len(text))
    /\ cur' = from - 1

\* A rune next to the cursor goes, or what is right of it for good.
Delete ==
    /\ \E from \in {cur, cur + 1} \cap (1..Len(text)) : Cut(from, from)
    /\ UNCHANGED killed

\* A part of the text that ends or starts at the cursor goes and is kept.
Kill ==
    \E from \in 1..(cur + 1), to \in cur..Len(text) :
        /\ from = cur + 1 \/ to = cur
        /\ Cut(from, to)
        /\ killed' = SubSeq(text, from, to)

\* All of it goes and is kept.
Cancel ==
    /\ killed' = text
    /\ text' = <<>> /\ cur' = 0

\* Another text comes in its place.
Replace ==
    /\ cur' = Len(text')
    /\ UNCHANGED killed

\* The end of a text that is too long goes, and the cursor stays inside.
Truncate ==
    /\ Len(text') <= Len(text) /\ text' = SubSeq(text, 1, Len(text'))
    /\ cur' = IF cur <= Len(text') THEN cur ELSE Len(text')
    /\ UNCHANGED killed

Next ==
    \/ Move \/ Insert \/ Delete \/ Kill \/ Cancel \/ Replace \/ Truncate

Spec == Init /\ [][Next]_vars

=============================================================================
