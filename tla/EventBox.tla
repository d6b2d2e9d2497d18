------------------------------ MODULE EventBox ------------------------------
(***************************************************************************)
(* util.EventBox (util/eventbox.go): a map of pending events guarded by a  *)
(* sync.Cond.  The mutex makes every method body atomic except Wait, which *)
(* releases it while parked in cond.Wait, so a parked consumer is a state  *)
(* of its own.  Every box of the program has many producers (Set) and one  *)
(* consumer goroutine, the only one to call Wait, WaitFor, Watch and       *)
(* Unwatch (core.go:237-260,285,327; matcher.go:66; terminal.go:4177,4183, *)
(* 4363).                                                                  *)
(*                                                                         *)
(* The callbacks given to Wait all read the whole map and clear it; the    *)
(* one WaitFor gives only looks for its event.                             *)
(***************************************************************************)
CONSTANTS
    Events,   \* event types
    Values,   \* payloads
    Absent,   \* marks an event that is not in the map
    NoEvent   \* value of target while the consumer is not inside WaitFor

ASSUME ValueAssumption == Absent \notin Values
ASSUME EventAssumption == NoEvent \notin Events

VARIABLES
    events,   \* EventBox.events, a total function with Absent for no entry
    ignore,   \* EventBox.ignore
    waiter,   \* the consumer: "running", "parked" in cond.Wait, or "woken"
    target,   \* the event the consumer's WaitFor loop looks for, or NoEvent
    batch     \* the events the last clearing callback saw

vars == <<events, ignore, waiter, target, batch>>

NoEvents == [e \in Events |-> Absent]

Pending == {e \in Events : events[e] # Absent}

TypeOK ==
    /\ events \in [Events -> Values \cup {Absent}]
    /\ ignore \in SUBSET Events
    /\ waiter \in {"running", "parked", "woken"}
    /\ target \in Events \cup {NoEvent}
    /\ batch \in [Events -> Values \cup {Absent}]

Init ==
    /\ events = NoEvents
    /\ ignore = {}
    /\ waiter = "running"
    /\ target = NoEvent
    /\ batch = NoEvents

\* (Variant: broadcast only when the map was empty.)
SetOnEdge(e, v) ==
    /\ events' = [events EXCEPT ![e] = v]
    /\ waiter' = IF waiter = "parked" /\ e \notin ignore /\ Pending = {}
                 THEN "woken" ELSE waiter
    /\ UNCHANGED <<ignore, target, batch>>

\* Set: store the value, and broadcast unless the event is ignored.
Set(e, v) ==
    /\ events' = [events EXCEPT ![e] = v]
    /\ waiter' = IF waiter = "parked" /\ e \notin ignore THEN "woken" ELSE waiter
    /\ UNCHANGED <<ignore, target, batch>>

\* Watch and Unwatch, called by the consumer between two waits.
Watch(e) ==
    /\ waiter = "running" /\ target = NoEvent
    /\ ignore' = ignore \ {e}
    /\ UNCHANGED <<events, waiter, target, batch>>

Unwatch(e) ==
    /\ waiter = "running" /\ target = NoEvent
    /\ ignore' = ignore \cup {e}
    /\ UNCHANGED <<events, waiter, target, batch>>

\* WaitFor(e) is called: its loop starts.
CallWaitFor(e) ==
    /\ waiter = "running" /\ target = NoEvent
    /\ target' = e
    /\ UNCHANGED <<events, ignore, waiter, batch>>

\* (Variant: Wait parks without testing the map.)
ParkUntested ==
    /\ waiter = "running"
    /\ waiter' = "parked"
    /\ UNCHANGED <<events, ignore, target, batch>>

\* Wait finds the map empty and parks.  It tests once: there is no loop
\* around cond.Wait.
Park ==
    /\ waiter = "running"
    /\ Pending = {}
    /\ waiter' = "parked"
    /\ UNCHANGED <<events, ignore, target, batch>>

\* Wait can run its callback: the map was not empty, or a broadcast came.
CanCallBack ==
    \/ waiter = "woken"
    \/ waiter = "running" /\ Pending # {}

\* The callback of a plain Wait: consume everything, then events.Clear().
Consume ==
    /\ CanCallBack
    /\ target = NoEvent
    /\ batch' = events
    /\ events' = NoEvents
    /\ waiter' = "running"
    /\ UNCHANGED <<ignore, target>>

\* (Variants: WaitFor clears the map as the other callbacks do; WaitFor
\* returns only when its event is alone in the map.)
LookAndClear ==
    /\ CanCallBack
    /\ target # NoEvent
    /\ target' = IF target \in Pending THEN NoEvent ELSE target
    /\ waiter' = "running"
    /\ events' = NoEvents
    /\ UNCHANGED <<ignore, batch>>

LookForOnly ==
    /\ CanCallBack
    /\ target # NoEvent
    /\ target' = IF Pending = {target} THEN NoEvent ELSE target
    /\ waiter' = "running"
    /\ UNCHANGED <<events, ignore, batch>>

\* The callback of WaitFor: leave the loop if the event is there; the map is
\* left as it is either way.
Look ==
    /\ CanCallBack
    /\ target # NoEvent
    /\ target' = IF target \in Pending THEN NoEvent ELSE target
    /\ waiter' = "running"
    /\ UNCHANGED <<events, ignore, batch>>

Consumer == Park \/ Consume \/ Look

Next ==
    \/ \E e \in Events, v \in Values : Set(e, v)
    \/ \E e \in Events : Watch(e) \/ Unwatch(e) \/ CallWaitFor(e)
    \/ Consumer

Spec == Init /\ [][Next]_vars

\* The consumer goroutines loop on Wait forever, and the Go scheduler runs
\* every runnable goroutine.
FairSpec == Spec /\ WF_vars(Consume) /\ WF_vars(Look)

(***************************************************************************)
(* Properties                                                              *)
(***************************************************************************)

\* No lost wakeup (eventbox.go:27-46): while the consumer is parked, nothing
\* but ignored events can be in the map, so it never sleeps on an event it
\* should handle.
NoLostWakeup == waiter = "parked" => Pending \subseteq ignore

\* The box is a Mailbox: parking, waking, ignoring and WaitFor never lose,
\* duplicate or reorder what a producer set, and no callback runs on an empty
\* map although cond.Wait is not in a loop (eventbox.go:33).
MB == INSTANCE Mailbox WITH slots <- events
MailboxSpec == MB!Spec

\* A watched event is eventually consumed, unless the consumer has gone into
\* WaitFor, which consumes nothing (eventbox.go:83-96).
WatchedIsConsumed ==
    \A e \in Events :
        (e \in Pending /\ e \notin ignore) ~> (e \notin Pending \/ target # NoEvent)

\* WaitFor returns once its event is in the map, even if it is ignored
\* events that arrived before it (core.go:237-238, 258-259).
WaitForReturns ==
    \A e \in Events :
        (target = e /\ e \in Pending /\ e \notin ignore) ~> (target = NoEvent)

=============================================================================
