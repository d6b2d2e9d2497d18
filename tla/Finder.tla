------------------------------- MODULE Finder -------------------------------
(***************************************************************************)
(* What the finder promises about the list it shows, without its threads:  *)
(* commands produce input one after the other, never two at once; the list *)
(* shown never goes back to the input of an earlier command, never shows   *)
(* what has not been read, and is called final only when it accounts for   *)
(* all the input of its command.                                           *)
(*                                                                         *)
(* A list is identified by what it was made from: the generation of the    *)
(* input, how many items of it, and the query.                             *)
(***************************************************************************)
EXTENDS Integers

CONSTANT Queries

VARIABLES
    gen,     \* the generation of the input: how many commands came before
    pushed,  \* the items read of it
    done,    \* the command has ended
    list     \* the list shown

vars == <<gen, pushed, done, list>>

Lists == [gen : Nat, count : Nat, query : Queries, final : BOOLEAN]

Init ==
    /\ gen = 0 /\ pushed = 0 /\ done = FALSE
    /\ list \in [gen : {0}, count : {0}, query : Queries, final : {FALSE}]

Read ==
    /\ ~done
    /\ pushed' = pushed + 1
    /\ UNCHANGED <<gen, done, list>>

End ==
    /\ ~done
    /\ done' = TRUE
    /\ UNCHANGED <<gen, pushed, list>>

Restart ==
    /\ done
    /\ gen' = gen + 1 /\ pushed' = 0 /\ done' = FALSE
    /\ UNCHANGED list

Show ==
    /\ list' \in Lists
    /\ list'.gen \in list.gen..gen
    /\ list'.gen = gen =>
           /\ list'.count <= pushed
           /\ list'.final => (done /\ list'.count = pushed)
    /\ UNCHANGED <<gen, pushed, done>>

Next == Read \/ End \/ Restart \/ Show

Spec == Init /\ [][Next]_vars

=============================================================================
