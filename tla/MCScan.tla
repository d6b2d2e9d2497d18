------------------------------- MODULE MCScan -------------------------------
(* Model-checking instances of Scan: the queries a, ab and the one with an     *)
(* inverse term, ab !c.                                                        *)
EXTENDS Scan

MCTwoSlices == <<1, 2>>
MCItems == {1, 2, 3}
MCQueries == {"", "a", "ab", "ab !c"}
MCCacheable == {"", "a", "ab"}
MCSubKeys == [q \in MCQueries |-> IF q \in {"ab", "ab !c"} THEN <<"a">> ELSE <<>>]

\* In the first field a matches items 1 and 2, in the second 2 and 3, or all
\* items of chunk 2, which are too many for the cache.
MCFits ==
    [q \in MCQueries |-> [n \in {1, 2} |-> [c \in 1..2 |->
        CASE q = "" -> MCItems
          [] q = "a" -> IF n = 1 THEN {1, 2} ELSE IF c = 2 THEN MCItems ELSE {2, 3}
          [] q = "ab" -> {n, 2}
          [] q = "ab !c" -> {n}]]]

\* A key edits the query, changes --nth or reloads.
Once(b) == IF b THEN 1 ELSE 0
OneThing(q, n, sync) == Once(q # query) + Once(n # None) + Once(sync) = 1

MCNext ==
    \/ \E q \in (Queries \ {EmptyQuery}) \cup {query}, n \in Nths \cup {None}, sync \in BOOLEAN :
           OneThing(q, n, sync) /\ UserActs(q, n, sync)
    \/ Coordinator \/ Matcher \/ Goroutines

MCSpec == ScanInit /\ [][MCNext]_scanVars

\* The input is complete.
MCLoaded == ScanInit /\ ~reading /\ [][MCNext /\ ~reading']_scanVars

\* The matcher has nothing to do whenever --nth changes.
MCAtRest == ScanInit /\ [][MCNext /\ (nth' # nth => doing = "wait" /\ reqBox = NoRequests)]_scanVars
=============================================================================
