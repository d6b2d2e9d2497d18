------------------------------ MODULE Mailbox ------------------------------
(***************************************************************************)
(* What the goroutines of fzf expect of a util.EventBox: a mailbox with    *)
(* one slot per event type.  A producer overwrites the slot of its event,  *)
(* the single consumer takes every occupied slot at once, and nothing      *)
(* else ever empties a slot.                                               *)
(***************************************************************************)
CONSTANTS
    Events,   \* the event types
    Values,   \* the payloads an event can carry
    Absent    \* the content of an empty slot

VARIABLES
    slots,    \* slots[e]: the newest value set for e and not yet taken
    batch     \* the slots of the last batch the consumer took

vars == <<slots, batch>>

Empty == [e \in Events |-> Absent]

Present(s) == {e \in Events : s[e] # Absent}

Init == slots = Empty /\ batch = Empty

\* A producer publishes v for e; an untaken value of e is superseded.
Put(e, v) ==
    /\ slots' = [slots EXCEPT ![e] = v]
    /\ UNCHANGED batch

\* The consumer takes all occupied slots, and there is at least one.
Take ==
    /\ Present(slots) # {}
    /\ batch' = slots
    /\ slots' = Empty

Next == (\E e \in Events, v \in Values : Put(e, v)) \/ Take

Spec == Init /\ [][Next]_vars
=============================================================================
