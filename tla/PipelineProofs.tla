--------------------------- MODULE PipelineProofs ---------------------------
(***************************************************************************)
(* Theorems about Pipeline, for any number of items, keys and reloads.     *)
(***************************************************************************)
EXTENDS Pipeline, TLAPS

\* Setting and clearing the events of the box.
LEMMA BoxFlags ==
    ASSUME NEW b \in Boxes, NEW v \in BOOLEAN
    PROVE  /\ [b EXCEPT !.new = v] \in Boxes
           /\ [b EXCEPT !.fin = v] \in Boxes
           /\ b.new \in BOOLEAN /\ b.fin \in BOOLEAN
BY DEF Boxes

LEMMA BoxValues ==
    ASSUME NEW b \in Boxes, NEW s \in Searches \cup {None}, NEW r \in Results \cup {None}
    PROVE  /\ [b EXCEPT !.search = s] \in Boxes
           /\ [b EXCEPT !.found = r] \in Boxes
           /\ b.search \in Searches \cup {None} /\ b.found \in Results \cup {None}
BY DEF Boxes

LEMMA BoxBoth ==
    ASSUME NEW b \in Boxes, NEW v \in BOOLEAN, NEW w \in BOOLEAN
    PROVE  [b EXCEPT !.new = v, !.fin = w] \in Boxes
BY DEF Boxes

LEMMA NoEventsTyped == NoEvents \in Boxes
BY DEF NoEvents, Boxes

\* A request is well formed.
LEMMA RequestTyped ==
    ASSUME reading \in BOOLEAN, query \in Queries, NEW s \in [gen : Nat, count : Nat]
    PROVE  RequestFor(s) \in Results
<1> DEFINE f == ~reading
<1>1. f \in BOOLEAN
  OBVIOUS
<1>2. RequestFor(s) = [gen |-> s.gen, count |-> s.count, query |-> query, final |-> f]
  BY DEF RequestFor
<1> HIDE DEF f
<1> QED
  BY <1>1, <1>2 DEF Results

LEMMA TypeInit == Init => TypeOK
<1> SUFFICES ASSUME Init PROVE TypeOK
  OBVIOUS
<1>1. box \in Boxes
  BY NoEventsTyped DEF Init
<1>2. command \in Commands
  BY BoundAssumption DEF Init, Commands
<1>3. /\ mbox \in [retry : Results \cup {None}, reset : Results \cup {None}]
      /\ mergerCache \in [Queries -> Results \cup {None}]
  BY DEF Init, NoRequests, NoMergers
<1>4. list \in Results
  BY QueryAssumption DEF Init, Results
<1>5. /\ killed \in BOOLEAN /\ reading \in BOOLEAN /\ useSnapshot \in BOOLEAN
      /\ treading \in BOOLEAN /\ triggerLoad \in BOOLEAN
  BY DEF Init
<1> QED
  BY <1>1, <1>2, <1>3, <1>4, <1>5, QueryAssumption, BoundAssumption DEF Init, TypeOK

LEMMA TypeStep == TypeOK /\ [Next]_vars => TypeOK'
<1> SUFFICES ASSUME TypeOK, [Next]_vars PROVE TypeOK'
  OBVIOUS
<1> USE BoundAssumption DEF TypeOK
<1>1. CASE Push
  BY <1>1 DEF Push, coordVars, matcherVars, screenVars, userVars
<1>2. CASE EndOfInput
  BY <1>2 DEF EndOfInput, inputVars, coordVars, matcherVars, screenVars, userVars
<1>3. CASE Fin
  <2>1. box' \in Boxes
    BY <1>3, BoxFlags DEF Fin
  <2> QED
    BY <1>3, <2>1 DEF Fin, inputVars, coordVars, matcherVars, screenVars, userVars, BoxFree
<1>4. CASE PollNew
  BY <1>4 DEF PollNew, inputVars, coordVars, matcherVars, screenVars, userVars
<1>5. CASE PollSet
  <2>1. box' \in Boxes
    BY <1>5, BoxFlags DEF PollSet
  <2> QED
    BY <1>5, <2>1 DEF PollSet, inputVars, coordVars, matcherVars, screenVars, userVars, BoxFree
<1>6. CASE PollFin
  BY <1>6 DEF PollFin, inputVars, coordVars, matcherVars, screenVars, userVars
<1>7. CASE Wake
  <2>1. box' \in Boxes
    <3> DEFINE v == box.new /\ ~box.fin
    <3>1. v \in BOOLEAN
      OBVIOUS
    <3>2. box' = [box EXCEPT !.new = v]
      BY <1>7 DEF Wake
    <3> HIDE DEF v
    <3> QED
      BY <3>1, <3>2, BoxFlags
  <2> QED
    BY <1>7, <2>1 DEF Wake, readerVars, inputVars, matcherVars, screenVars, userVars
<1>8. CASE HandleFinNext
  <2>1. box' \in Boxes
    BY <1>8, BoxFlags DEF HandleFinNext, Handled
  <2>2. pc' \in {"wait", "handle"}
    BY <1>8 DEF HandleFinNext, Handled
  <2>3. reading' \in BOOLEAN /\ killed' \in BOOLEAN
    BY <1>8 DEF HandleFinNext, Restart, RestartReader
  <2> QED
    BY <1>8, <2>1, <2>2, <2>3
    DEF HandleFinNext, Restart, RestartReader, matcherVars, screenVars, userVars
<1>9. ASSUME NEW fin \in BOOLEAN, HandleRead(fin) PROVE TypeOK'
  <2>1. box' \in Boxes
    <3> DEFINE v == box.new /\ fin
               w == box.fin /\ ~fin
    <3>1. v \in BOOLEAN /\ w \in BOOLEAN
      OBVIOUS
    <3>2. box' = [box EXCEPT !.new = v, !.fin = w]
      BY <1>9 DEF HandleRead
    <3> HIDE DEF v, w
    <3> QED
      BY <3>1, <3>2, BoxBoth
  <2>2. /\ reading' \in BOOLEAN /\ useSnapshot' \in BOOLEAN
        /\ triggerLoad' \in BOOLEAN /\ treading' \in BOOLEAN
    BY <1>9 DEF HandleRead, UpdateCount, KeepSnapshot
  <2>3. snapshot' \in [gen : Nat, count : Nat]
    BY <1>9 DEF HandleRead
  <2> QED
    BY <1>9, <2>1, <2>2, <2>3
    DEF HandleRead, UpdateCount, readerVars, inputVars, matcherVars, userVars
<1>10. CASE SendRetry
  <2>1. pc' \in {"wait", "handle"} /\ box' = box
    BY <1>10 DEF SendRetry, Handled
  <2>2. mbox' \in [retry : Results \cup {None}, reset : Results \cup {None}]
    BY <1>10, RequestTyped DEF SendRetry
  <2> QED
    BY <1>10, <2>1, <2>2 DEF SendRetry, readerVars, inputVars, screenVars, userVars
<1>11. CASE HandleSearch
  <2> DEFINE c == box.search.command
  <2>1. box.search \in Searches
    BY <1>11, BoxValues DEF HandleSearch
  <2>2. c \in Commands \cup {None}
    BY <2>1 DEF Searches
  <2>3. c # None => c.sync \in BOOLEAN
    BY <2>2 DEF Commands
  <2>4. /\ box' \in Boxes /\ pc' \in {"wait", "handle", "search"}
        /\ pc' = "search" => box' = box
    BY <1>11, BoxValues DEF HandleSearch, Handled
  <2> HIDE DEF c
  <2>5. CASE StartCommand(c) /\ useSnapshot' = c.sync
    <3>1. reading' \in BOOLEAN /\ killed' \in BOOLEAN /\ useSnapshot' \in BOOLEAN
      BY <2>3, <2>5 DEF StartCommand, Restart, RestartReader, Terminate
    <3> QED
      BY <1>11, <2>2, <2>4, <2>5, <3>1
      DEF HandleSearch, StartCommand, Restart, RestartReader, Terminate, inputVars,
          matcherVars, screenVars, userVars
  <2>6. CASE UNCHANGED <<readerVars, inputVars, reading, nextCommand, useSnapshot>>
    BY <1>11, <2>4, <2>6 DEF HandleSearch, readerVars, inputVars, matcherVars, screenVars, userVars
  <2> QED
    BY <1>11, <2>5, <2>6 DEF HandleSearch, c
<1>12. CASE SendReset
  <2>1. pc' \in {"wait", "handle"} /\ box' \in Boxes
    BY <1>12, BoxValues DEF SendReset, Handled
  <2>2. snapshot' \in [gen : Nat, count : Nat]
    BY <1>12 DEF SendReset
  <2>3. mbox' \in [retry : Results \cup {None}, reset : Results \cup {None}]
    BY <1>12, <2>2, RequestTyped DEF SendReset
  <2> QED
    BY <1>12, <2>1, <2>2, <2>3 DEF SendReset, readerVars, inputVars, screenVars, userVars
<1>13. CASE HandleFound
  <2>1. box' \in Boxes /\ pc' \in {"wait", "handle"}
    BY <1>13, BoxValues DEF HandleFound, Handled
  <2>2. list' \in Results
    BY <1>13, BoxValues DEF HandleFound
  <2>3. triggerLoad' \in BOOLEAN
    BY <1>13 DEF HandleFound
  <2> QED
    BY <1>13, <2>1, <2>2, <2>3 DEF HandleFound, readerVars, inputVars, matcherVars, userVars
<1>14. ASSUME NEW r \in {mbox.retry, mbox.reset}, TakeRequest(r) PROVE TypeOK'
  BY <1>14 DEF TakeRequest, KeepsCache, Usable, NoRequests, NoMergers, Results, readerVars, inputVars, coordVars, screenVars, userVars
<1>15. CASE FinishScan
  BY <1>15 DEF FinishScan, Results, readerVars, inputVars, coordVars, screenVars, userVars
<1>16. CASE CancelScan
  BY <1>16 DEF CancelScan, readerVars, inputVars, coordVars, screenVars, userVars
<1>17. CASE SetFound
  BY <1>17 DEF SetFound, readerVars, inputVars, coordVars, screenVars, userVars, Boxes
<1>18. ASSUME NEW q \in Queries, Type(q) PROVE TypeOK'
  BY <1>18 DEF Type, Searches, readerVars, inputVars, coordVars, matcherVars, screenVars
<1>19. ASSUME NEW q \in Queries, NEW sync \in BOOLEAN, Reload(q, sync) PROVE TypeOK'
  BY <1>19 DEF Reload, Searches, Commands, readerVars, inputVars, coordVars, matcherVars
<1>20. CASE Post
  BY <1>20 DEF Post, readerVars, inputVars, coordVars, matcherVars, screenVars, Boxes
<1>21. CASE UNCHANGED vars
  BY <1>21 DEF vars, readerVars, inputVars, coordVars, matcherVars, screenVars, userVars
<1> QED
  BY <1>1, <1>2, <1>3, <1>4, <1>5, <1>6, <1>7, <1>8, <1>9, <1>10, <1>11, <1>12, <1>13, <1>14,
     <1>15, <1>16, <1>17, <1>18, <1>19, <1>20, <1>21
  DEF Next, Poller, Coordinator, Matcher, User

\* Every variable of the pipeline keeps its type (core.go:280-313, reader.go,
\* matcher.go, terminal.go).
THEOREM TypeCorrect == Spec => []TypeOK
<1>1. Init => TypeOK
  BY TypeInit
<1>2. TypeOK /\ [Next]_vars => TypeOK'
  BY TypeStep
<1> QED
  BY <1>1, <1>2, PTL DEF Spec

(***************************************************************************)
(* The coordinator's flag and the reader                                   *)
(***************************************************************************)

\* ReadingExact with what it needs to be inductive: EvtReadFin comes from a
\* reader that is done, and a reader that waits for finChan has stored
\* EvtReadFin, so that its poller can only return.
ReadingInv ==
    /\ ReadingExact
    /\ box.fin => reader = "done"
    /\ reader = "fin" => event = "ReadFin"

LEMMA ReadingInit == Init => ReadingInv
BY DEF Init, ReadingInv, ReadingExact, NoEvents

LEMMA ReadingStep == TypeOK /\ ReadingInv /\ [Next]_vars => ReadingInv'
<1> SUFFICES ASSUME TypeOK, ReadingInv, [Next]_vars PROVE ReadingInv'
  OBVIOUS
<1> USE DEF ReadingInv, ReadingExact
<1>0. box \in Boxes /\ reading \in BOOLEAN
  BY DEF TypeOK
<1>1. CASE Push
  BY <1>1 DEF Push, coordVars
<1>2. CASE EndOfInput
  BY <1>2 DEF EndOfInput, coordVars
<1>3. CASE Fin
  BY <1>0, <1>3 DEF Fin, coordVars, Boxes
<1>4. CASE PollNew
  BY <1>4 DEF PollNew, coordVars
<1>5. CASE PollSet
  BY <1>0, <1>5 DEF PollSet, coordVars, Boxes
<1>6. CASE PollFin
  BY <1>6 DEF PollFin, coordVars
<1>7. CASE Wake
  BY <1>0, <1>7 DEF Wake, readerVars, Boxes
<1>8. CASE HandleFinNext
  BY <1>0, <1>8 DEF HandleFinNext, Handled, Restart, RestartReader, Boxes
<1>9. ASSUME NEW fin \in BOOLEAN, HandleRead(fin) PROVE ReadingInv'
  BY <1>0, <1>9 DEF HandleRead, readerVars, Boxes
<1>10. CASE SendRetry
  BY <1>10 DEF SendRetry, Handled, readerVars
<1>11. CASE HandleSearch
  BY <1>0, <1>11
  DEF HandleSearch, StartCommand, Restart, RestartReader, Terminate, Handled, readerVars, Boxes
<1>12. CASE SendReset
  BY <1>0, <1>12 DEF SendReset, Handled, readerVars, Boxes
<1>13. CASE HandleFound
  BY <1>0, <1>13 DEF HandleFound, Handled, readerVars, Boxes
<1>14. ASSUME NEW r \in {mbox.retry, mbox.reset}, TakeRequest(r) PROVE ReadingInv'
  BY <1>14 DEF TakeRequest, readerVars, coordVars
<1>15. CASE FinishScan
  BY <1>15 DEF FinishScan, readerVars, coordVars
<1>16. CASE CancelScan
  BY <1>16 DEF CancelScan, readerVars, coordVars
<1>17. CASE SetFound
  BY <1>0, <1>17 DEF SetFound, readerVars, coordVars, Boxes
<1>18. ASSUME NEW q \in Queries, Type(q) PROVE ReadingInv'
  BY <1>18 DEF Type, readerVars, coordVars
<1>19. ASSUME NEW q \in Queries, NEW sync \in BOOLEAN, Reload(q, sync) PROVE ReadingInv'
  BY <1>19 DEF Reload, readerVars, coordVars
<1>20. CASE Post
  BY <1>0, <1>20 DEF Post, readerVars, coordVars, Boxes
<1>21. CASE UNCHANGED vars
  BY <1>21 DEF vars, readerVars, coordVars
<1> QED
  BY <1>1, <1>2, <1>3, <1>4, <1>5, <1>6, <1>7, <1>8, <1>9, <1>10, <1>11, <1>12, <1>13, <1>14,
     <1>15, <1>16, <1>17, <1>18, <1>19, <1>20, <1>21
  DEF Next, Poller, Coordinator, Matcher, User

\* The coordinator's `reading` (core.go:281) is exact, and a reader that is
\* done has no poller left (reader.go:50-88): whatever the number of reloads,
\* a restart never finds the previous reader alive.
THEOREM ReadingIsExact == Spec => []ReadingExact
<1>1. Init => TypeOK /\ ReadingInv
  BY TypeInit, ReadingInit
<1>2. TypeOK /\ ReadingInv /\ [Next]_vars => TypeOK' /\ ReadingInv'
  BY TypeStep, ReadingStep
<1>3. ReadingInv => ReadingExact
  BY DEF ReadingInv
<1> QED
  BY <1>1, <1>2, <1>3, PTL DEF Spec

(***************************************************************************)
(* The last reload                                                         *)
(***************************************************************************)

\* As long as the query is left alone every event for a new search carries a
\* command, and the last reload asked for is on its way: the loop is about to
\* set it, or it is in the box, or it waits for the reader, or it runs.  What
\* comes later on this way makes what is earlier on it obsolete.
IsReload(s) == s # None => s.command # None /\ ~s.changed
ReloadOnItsWay ==
    IF post # None THEN post.command.id = reloads
    ELSE IF box.search # None THEN box.search.command.id = reloads
    ELSE IF nextCommand # None THEN nextCommand.id = reloads
    ELSE command.id = reloads
ReloadInv ==
    /\ nextCommand # None => reading
    /\ keys = 0 => /\ pc # "search"
                   /\ IsReload(post) /\ IsReload(box.search)
                   /\ ReloadOnItsWay

LEMMA ReloadInit == Init => ReloadInv
BY DEF Init, ReloadInv, IsReload, ReloadOnItsWay, NoEvents

LEMMA ReloadStep == TypeOK /\ ReloadInv /\ [Next]_vars => ReloadInv'
<1> SUFFICES ASSUME TypeOK, ReloadInv, [Next]_vars PROVE ReloadInv'
  OBVIOUS
<1> USE DEF ReloadInv, IsReload, ReloadOnItsWay
<1>0. box \in Boxes /\ reading \in BOOLEAN /\ keys \in 0..MaxKeys /\ reloads \in Nat
  BY BoundAssumption DEF TypeOK
<1>1. CASE Push
  BY <1>1 DEF Push, coordVars, readerVars, userVars
<1>2. CASE EndOfInput
  BY <1>2 DEF EndOfInput, coordVars, userVars
<1>3. CASE Fin
  BY <1>0, <1>3 DEF Fin, coordVars, userVars, Boxes
<1>4. CASE PollNew
  BY <1>4 DEF PollNew, coordVars, userVars
<1>5. CASE PollSet
  BY <1>0, <1>5 DEF PollSet, coordVars, userVars, Boxes
<1>6. CASE PollFin
  BY <1>6 DEF PollFin, coordVars, userVars
<1>7. CASE Wake
  BY <1>0, <1>7 DEF Wake, readerVars, userVars, Boxes
<1>8. CASE HandleFinNext
  BY <1>0, <1>8 DEF HandleFinNext, Handled, Restart, RestartReader, userVars, Boxes
<1>9. ASSUME NEW fin \in BOOLEAN, HandleRead(fin) PROVE ReloadInv'
  BY <1>0, <1>9 DEF HandleRead, readerVars, userVars, Boxes
<1>10. CASE SendRetry
  BY <1>10 DEF SendRetry, Handled, readerVars, userVars
<1>11. CASE HandleSearch
  BY <1>0, <1>11
  DEF HandleSearch, StartCommand, Restart, RestartReader, Terminate, Handled, readerVars,
      userVars, Boxes
<1>12. CASE SendReset
  BY <1>0, <1>12 DEF SendReset, Handled, readerVars, userVars, Boxes
<1>13. CASE HandleFound
  BY <1>0, <1>13 DEF HandleFound, Handled, readerVars, userVars, Boxes
<1>14. ASSUME NEW r \in {mbox.retry, mbox.reset}, TakeRequest(r) PROVE ReloadInv'
  BY <1>14 DEF TakeRequest, readerVars, coordVars, userVars
<1>15. CASE FinishScan
  BY <1>15 DEF FinishScan, readerVars, coordVars, userVars
<1>16. CASE CancelScan
  BY <1>16 DEF CancelScan, readerVars, coordVars, userVars
<1>17. CASE SetFound
  BY <1>0, <1>17 DEF SetFound, readerVars, coordVars, userVars, Boxes
<1>18. ASSUME NEW q \in Queries, Type(q) PROVE ReloadInv'
  BY <1>0, <1>18 DEF Type, readerVars, coordVars
<1>19. ASSUME NEW q \in Queries, NEW sync \in BOOLEAN, Reload(q, sync) PROVE ReloadInv'
  <2>1. keys' = 0 => keys = 0 /\ q = query
    BY <1>0, <1>19 DEF Reload
  <2> DEFINE c == [id |-> reloads', sync |-> sync]
  <2>2. reloads' \in 0..MaxReloads
    BY <1>0, <1>19, BoundAssumption DEF Reload
  <2>3. c \in Commands
    BY <2>2 DEF Commands
  <2>4. [command |-> c, changed |-> q # query] \in Searches
    <3> DEFINE changed == q # query
    <3>1. changed \in BOOLEAN
      OBVIOUS
    <3> HIDE DEF changed, c
    <3>2. [command |-> c, changed |-> changed] \in Searches
      BY <2>3, <3>1 DEF Searches
    <3> QED
      BY <3>2 DEF changed
  <2>5. c # None /\ post' # None
    BY <1>19, <2>3, <2>4, NoneAssumption DEF Reload
  <2>6. post'.command.id = reloads' /\ (keys' = 0 => ~post'.changed)
    BY <1>19, <2>1 DEF Reload
  <2>7. post'.command # None
    BY <1>19, <2>5 DEF Reload
  <2> QED
    BY <1>0, <1>19, <2>1, <2>5, <2>6, <2>7 DEF Reload, readerVars, coordVars
<1>20. CASE Post
  BY <1>0, <1>20 DEF Post, readerVars, coordVars, Boxes
<1>21. CASE UNCHANGED vars
  BY <1>21 DEF vars, readerVars, coordVars, userVars
<1> QED
  BY <1>1, <1>2, <1>3, <1>4, <1>5, <1>6, <1>7, <1>8, <1>9, <1>10, <1>11, <1>12, <1>13, <1>14,
     <1>15, <1>16, <1>17, <1>18, <1>19, <1>20, <1>21
  DEF Next, Poller, Coordinator, Matcher, User

\* The slot of EvtSearchNew, the one of nextCommand and the killing of a command
\* that still reads (core.go:381-404) never run an older reload than the last
\* one asked for, nor forget it, unless a key comes in between.
THEOREM LastReloadIsRun == Spec => []LastReloadWins
<1>1. Init => TypeOK /\ ReadingInv /\ ReloadInv
  BY TypeInit, ReadingInit, ReloadInit
<1>2. TypeOK /\ ReadingInv /\ ReloadInv /\ [Next]_vars => TypeOK' /\ ReadingInv' /\ ReloadInv'
  BY TypeStep, ReadingStep, ReloadStep
<1>3. ReadingInv /\ ReloadInv => LastReloadWins
  BY DEF ReadingInv, ReadingExact, ReloadInv, ReloadOnItsWay, LastReloadWins, LastReloadRuns,
         Quiet, NoEvents
<1> QED
  BY <1>1, <1>2, <1>3, PTL DEF Spec

(***************************************************************************)
(* Pipeline implements Finder, for any number of items, keys and reloads:  *)
(* what the threads hand to each other along                               *)
(*    snapshot - request of the matcher - result - list on the screen      *)
(* is never ahead of the input, and never overtakes.                       *)
(***************************************************************************)

\* The input as the result r may see it: generation g, p items, d: the
\* command is done.
Sound(r, g, p, d) ==
    /\ r.gen <= g
    /\ r.gen = g => r.count <= p /\ (r.final => (d /\ r.count = p))

\* The snapshot of the coordinator; once it no longer reads, it is complete.
SnapshotSound ==
    /\ snapshot.gen <= gen
    /\ snapshot.gen = gen => snapshot.count <= pushed
    /\ ~reading => snapshot.gen = gen /\ snapshot.count = pushed

\* Every result and request there is, None included.
InFlight ==
    {list, box.found, request, merger, mbox.retry, mbox.reset}
        \cup {mergerCache[q] : q \in Queries}

AllSound == \A r \in InFlight : r # None => Sound(r, gen, pushed, reader = "done")

\* Along the way from the snapshot to the screen generations only get older.
InOrder ==
    /\ list.gen <= snapshot.gen
    /\ \A r \in {box.found, request, mbox.retry, mbox.reset} :
           r # None => r.gen <= snapshot.gen
    /\ \A r \in {box.found, request, mbox.retry, mbox.reset} :
           r # None => list.gen <= r.gen
    /\ \A r \in {request, mbox.retry, mbox.reset} :
           r # None /\ box.found # None => box.found.gen <= r.gen
    /\ \A r \in {mbox.retry, mbox.reset} :
           r # None /\ request # None => request.gen <= r.gen

\* The matcher answers a request, and its cache holds what it announced, of
\* the revision it works on.
SameRevision ==
    /\ mpc # "wait" => request.gen = mRevision
    /\ mpc = "found" => merger.gen = mRevision
    /\ \A q \in Queries : mergerCache[q] # None => mergerCache[q].gen = mRevision

FlowInv == SnapshotSound /\ AllSound /\ InOrder /\ SameRevision

(***************************************************************************)
(* What a step does to the input                                           *)
(***************************************************************************)

\* A step reads an item, ends the command, starts the next one, or leaves the
\* input alone.
InputStep ==
    \/ UNCHANGED <<gen, pushed, reader>>
    \/ reader = "reading" /\ reader' = "reading" /\ gen' = gen /\ pushed' = pushed + 1
    \/ reader # "done" /\ UNCHANGED <<gen, pushed>>
    \/ gen' = gen + 1

LEMMA StepsOfInput == TypeOK /\ [Next]_vars => InputStep
<1> SUFFICES ASSUME TypeOK, [Next]_vars PROVE InputStep
  OBVIOUS
<1> USE DEF InputStep
<1>1. CASE Push
  BY <1>1 DEF Push
<1>2. CASE EndOfInput \/ Fin
  BY <1>2 DEF EndOfInput, Fin, inputVars
<1>3. CASE Poller
  BY <1>3 DEF Poller, PollNew, PollSet, PollFin, inputVars
<1>4. CASE Wake \/ SendRetry \/ SendReset \/ HandleFound
  BY <1>4 DEF Wake, SendRetry, SendReset, HandleFound, readerVars, inputVars
<1>5. CASE HandleFinNext
  BY <1>5 DEF HandleFinNext, Restart
<1>6. CASE HandleSearch
  BY <1>6 DEF HandleSearch, StartCommand, Terminate, Restart, readerVars, inputVars
<1>7. ASSUME NEW fin \in BOOLEAN, HandleRead(fin) PROVE InputStep
  BY <1>7 DEF HandleRead, readerVars, inputVars
<1>8. CASE Matcher
  BY <1>8 DEF Matcher, TakeRequest, FinishScan, CancelScan, SetFound, readerVars, inputVars
<1>9. CASE User \/ Post
  BY <1>9 DEF User, Type, Reload, Post, readerVars, inputVars
<1>10. CASE UNCHANGED vars
  BY <1>10 DEF vars, readerVars, inputVars
<1> QED
  BY <1>1, <1>2, <1>3, <1>4, <1>5, <1>6, <1>7, <1>8, <1>9, <1>10 DEF Next, Coordinator

\* Whatever happens to the input, a sound result stays sound.
LEMMA SoundKept ==
    ASSUME TypeOK, InputStep, NEW r \in Results, Sound(r, gen, pushed, reader = "done")
    PROVE  Sound(r, gen', pushed', reader' = "done")
BY DEF TypeOK, InputStep, Sound, Results

\* If a step creates no result, all results stay sound.
LEMMA AllSoundKept ==
    ASSUME TypeOK, InputStep, AllSound, InFlight' \subseteq InFlight \cup {None}
    PROVE  AllSound'
<1>1. ASSUME NEW r \in InFlight, r # None PROVE r \in Results
  BY <1>1 DEF TypeOK, InFlight, Boxes
<1>2. ASSUME NEW r \in InFlight', r # None PROVE Sound(r, gen', pushed', reader' = "done")
  BY <1>1, <1>2, SoundKept DEF AllSound
<1> QED
  BY <1>2 DEF AllSound

\* A request that the coordinator makes is sound.
LEMMA RequestSound ==
    ASSUME TypeOK, ReadingInv, NEW s \in [gen : Nat, count : Nat],
           s.gen <= gen, s.gen = gen => s.count <= pushed,
           ~reading => s.gen = gen /\ s.count = pushed
    PROVE  Sound(RequestFor(s), gen, pushed, reader = "done")
<1> DEFINE f == ~reading
<1>1. /\ RequestFor(s).gen = s.gen /\ RequestFor(s).count = s.count
      /\ RequestFor(s).final = f
  BY DEF RequestFor
<1>2. f => reader = "done"
  BY DEF ReadingInv, ReadingExact
<1>3. f => s.gen = gen /\ s.count = pushed
  OBVIOUS
<1> HIDE DEF f
<1> QED
  BY <1>1, <1>2, <1>3 DEF Sound, TypeOK

(***************************************************************************)
(* The snapshot                                                            *)
(***************************************************************************)

\* A step that leaves the snapshot and `reading` alone, while the input only
\* grows as long as the coordinator reads.
LEMMA SnapshotKept ==
    ASSUME TypeOK, ReadingInv, SnapshotSound, InputStep, UNCHANGED <<snapshot, reading, gen>>
    PROVE  SnapshotSound'
BY DEF TypeOK, ReadingInv, ReadingExact, SnapshotSound, InputStep

LEMMA SnapshotSoundStep ==
    TypeOK /\ ReadingInv /\ SnapshotSound /\ [Next]_vars => SnapshotSound'
<1> SUFFICES ASSUME TypeOK, ReadingInv, SnapshotSound, [Next]_vars PROVE SnapshotSound'
  OBVIOUS
<1>0. InputStep
  BY StepsOfInput
<1>1. CASE Push \/ EndOfInput \/ Fin
  BY <1>0, <1>1, SnapshotKept DEF Push, EndOfInput, Fin, inputVars, coordVars
<1>2. CASE Poller
  BY <1>0, <1>2, SnapshotKept DEF Poller, PollNew, PollSet, PollFin, inputVars, coordVars
<1>3. CASE Wake \/ SendRetry \/ HandleFound
  BY <1>0, <1>3, SnapshotKept DEF Wake, SendRetry, HandleFound, inputVars
<1>4. CASE HandleFinNext
  BY <1>4 DEF HandleFinNext, Restart, SnapshotSound, TypeOK
<1>5. CASE HandleSearch
  BY <1>5 DEF HandleSearch, StartCommand, Terminate, Restart, inputVars, SnapshotSound, TypeOK
<1>6. ASSUME NEW fin \in BOOLEAN, HandleRead(fin) PROVE SnapshotSound'
  <2>1. UNCHANGED <<gen, pushed>> /\ reading' = (reading /\ ~fin)
    BY <1>6 DEF HandleRead, inputVars
  <2>2. CASE useSnapshot'
    <3>1. snapshot' = snapshot /\ ~fin
      BY <1>6, <2>2 DEF HandleRead, KeepSnapshot
    <3> QED
      BY <2>1, <3>1 DEF SnapshotSound, TypeOK
  <2>3. CASE ~useSnapshot'
    <3>1. snapshot' = [gen |-> gen, count |-> pushed]
      BY <1>6, <2>3 DEF HandleRead
    <3> QED
      BY <2>1, <3>1 DEF SnapshotSound, TypeOK
  <2> QED
    BY <2>2, <2>3
<1>7. CASE SendReset
  BY <1>7 DEF SendReset, inputVars, SnapshotSound, TypeOK
<1>8. CASE Matcher
  BY <1>0, <1>8, SnapshotKept
  DEF Matcher, TakeRequest, FinishScan, CancelScan, SetFound, inputVars, coordVars
<1>9. CASE User \/ Post
  BY <1>0, <1>9, SnapshotKept DEF User, Type, Reload, Post, inputVars, coordVars
<1>10. CASE UNCHANGED vars
  BY <1>0, <1>10, SnapshotKept DEF vars, inputVars, coordVars
<1> QED
  BY <1>1, <1>2, <1>3, <1>4, <1>5, <1>6, <1>7, <1>8, <1>9, <1>10 DEF Next, Coordinator

(***************************************************************************)
(* Requests and results                                                    *)
(***************************************************************************)

\* A new request r joins the results in flight.
LEMMA AllSoundJoined ==
    ASSUME TypeOK, InputStep, AllSound, NEW r, Sound(r, gen, pushed, reader = "done"),
           UNCHANGED <<gen, pushed, reader>>, InFlight' \subseteq InFlight \cup {None, r}
    PROVE  AllSound'
<1>1. ASSUME NEW x \in InFlight', x # None PROVE Sound(x, gen', pushed', reader' = "done")
  <2>1. CASE x = r
    BY <2>1
  <2>2. CASE x \in InFlight
    BY <1>1, <2>2 DEF AllSound
  <2> QED
    BY <1>1, <2>1, <2>2
<1> QED
  BY <1>1 DEF AllSound

\* No step but a request of the coordinator creates a result.
LEMMA ResultsKept ==
    ASSUME TypeOK, [Next]_vars, ~SendRetry, ~SendReset
    PROVE  InFlight' \subseteq InFlight \cup {None}
<1>0. box \in Boxes
  BY DEF TypeOK
<1>a. ASSUME UNCHANGED <<list, request, merger, mbox, mergerCache>>,
             box'.found \in {box.found, None}
      PROVE  InFlight' \subseteq InFlight \cup {None}
  BY <1>a DEF InFlight
<1>1. CASE Push \/ EndOfInput \/ PollNew \/ PollFin
  BY <1>a, <1>1 DEF Push, EndOfInput, PollNew, PollFin, matcherVars, screenVars
<1>2. CASE Fin \/ PollSet \/ Wake
  BY <1>0, <1>a, <1>2 DEF Fin, PollSet, Wake, matcherVars, screenVars, Boxes
<1>3. CASE HandleFinNext
  BY <1>0, <1>a, <1>3 DEF HandleFinNext, Handled, matcherVars, screenVars, Boxes
<1>4. CASE HandleSearch
  <2>1. box'.found = box.found
    BY <1>0, <1>4 DEF HandleSearch, Handled, Boxes
  <2> QED
    BY <1>a, <1>4, <2>1 DEF HandleSearch, matcherVars, screenVars
<1>5. ASSUME NEW fin \in BOOLEAN, HandleRead(fin)
      PROVE  InFlight' \subseteq InFlight \cup {None}
  <2>1. box'.found = box.found
    BY <1>0, <1>5 DEF HandleRead, Boxes
  <2> QED
    BY <1>a, <1>5, <2>1 DEF HandleRead, UpdateCount, matcherVars
<1>6. CASE HandleFound
  <2>1. box'.found = None
    BY <1>0, <1>6 DEF HandleFound, Handled, Boxes
  <2> QED
    BY <1>6, <2>1 DEF HandleFound, matcherVars, InFlight
<1>7. ASSUME NEW r \in {mbox.retry, mbox.reset}, TakeRequest(r)
      PROVE  InFlight' \subseteq InFlight \cup {None}
  <2>1. merger' \in {None, mergerCache[r.query]}
    <3> DEFINE cached == mergerCache[r.query]
    <3>1. r \in Results /\ cached \in Results \cup {None}
      BY <1>7 DEF TakeRequest, TypeOK, Results
    <3>2. \/ merger' = None
          \/ cached # None /\ cached.final = r.final /\ merger' = [cached EXCEPT !.final = r.final]
      BY <1>7 DEF TakeRequest, Usable
    <3> HIDE DEF cached
    <3>3. ASSUME cached \in Results, cached.final = r.final
          PROVE  [cached EXCEPT !.final = r.final] = cached
      BY <3>3 DEF Results
    <3>4. merger' = None \/ merger' = cached
      BY <3>1, <3>2, <3>3
    <3> QED
      BY <3>4 DEF cached
  <2>2. r.query \in Queries
    BY <1>7 DEF TakeRequest, TypeOK, Results
  <2>3. /\ mbox'.retry = None /\ mbox'.reset = None /\ request' = r
        /\ UNCHANGED <<list, box>>
        /\ \A q \in Queries : mergerCache'[q] \in {None, mergerCache[q]}
    BY <1>7 DEF TakeRequest, NoRequests, NoMergers, screenVars
  <2>4. r \in InFlight /\ mergerCache[r.query] \in InFlight
    BY <1>7, <2>2 DEF InFlight
  <2> QED
    BY <2>1, <2>3, <2>4 DEF InFlight
<1>8. CASE FinishScan
  <2>1. \A q \in Queries : mergerCache'[q] \in {request, mergerCache[q]}
    BY <1>8 DEF FinishScan, TypeOK
  <2> QED
    BY <1>8, <2>1 DEF FinishScan, screenVars, InFlight
<1>9. CASE CancelScan
  BY <1>9 DEF CancelScan, screenVars, InFlight
<1>10. CASE SetFound
  <2>1. box'.found = merger
    BY <1>0, <1>10 DEF SetFound, Boxes
  <2> QED
    BY <1>10, <2>1 DEF SetFound, screenVars, InFlight
<1>11. CASE User
  BY <1>a, <1>11 DEF User, Type, Reload, matcherVars, screenVars
<1>12. CASE Post
  BY <1>0, <1>a, <1>12 DEF Post, matcherVars, screenVars, Boxes
<1>13. CASE UNCHANGED vars
  BY <1>a, <1>13 DEF vars, matcherVars, screenVars
<1> QED
  BY <1>1, <1>2, <1>3, <1>4, <1>5, <1>6, <1>7, <1>8, <1>9, <1>10, <1>11, <1>12, <1>13
  DEF Next, Poller, Coordinator, Matcher

\* The two requests create one each.
LEMMA RetryJoins ==
    ASSUME TypeOK, SendRetry
    PROVE  InFlight' \subseteq InFlight \cup {None, RequestFor(snapshot)}
<1> DEFINE r == RequestFor(snapshot)
<1>1. /\ mbox'.reset = mbox.reset /\ mbox'.retry = r
      /\ UNCHANGED <<box, list, request, merger, mergerCache>>
  BY DEF SendRetry, Handled, TypeOK, screenVars
<1> HIDE DEF r
<1>2. InFlight' \subseteq InFlight \cup {None, r}
  BY <1>1 DEF InFlight
<1> QED
  BY <1>2 DEF r

LEMMA ResetJoins ==
    ASSUME TypeOK, SendReset
    PROVE  InFlight' \subseteq InFlight \cup {None, RequestFor(snapshot')}
<1> DEFINE r == RequestFor(snapshot')
<1>1. /\ mbox'.retry = mbox.retry /\ mbox'.reset = r
      /\ UNCHANGED <<list, request, merger, mergerCache>>
  BY DEF SendReset, TypeOK, screenVars
<1>2. box'.found = box.found
  BY DEF SendReset, Handled, TypeOK, Boxes
<1> HIDE DEF r
<1>3. InFlight' \subseteq InFlight \cup {None, r}
  BY <1>1, <1>2 DEF InFlight
<1> QED
  BY <1>3 DEF r

LEMMA AllSoundStep ==
    TypeOK /\ ReadingInv /\ SnapshotSound /\ AllSound /\ [Next]_vars => AllSound'
<1> SUFFICES ASSUME TypeOK, ReadingInv, SnapshotSound, AllSound, [Next]_vars PROVE AllSound'
  OBVIOUS
<1>0. InputStep
  BY StepsOfInput
<1>1. CASE ~SendRetry /\ ~SendReset
  BY <1>0, <1>1, ResultsKept, AllSoundKept
<1>2. CASE SendRetry
  <2>1. Sound(RequestFor(snapshot), gen, pushed, reader = "done")
    BY RequestSound DEF SnapshotSound, TypeOK
  <2>2. UNCHANGED <<gen, pushed, reader>>
    BY <1>2 DEF SendRetry, readerVars, inputVars
  <2> QED
    BY <1>0, <1>2, <2>1, <2>2, RetryJoins, AllSoundJoined
<1>3. CASE SendReset
  <2>1. snapshot' = snapshot \/ snapshot' = [gen |-> gen, count |-> pushed]
    BY <1>3 DEF SendReset
  <2>2. /\ snapshot' \in [gen : Nat, count : Nat]
        /\ snapshot'.gen <= gen
        /\ snapshot'.gen = gen => snapshot'.count <= pushed
        /\ ~reading => snapshot'.gen = gen /\ snapshot'.count = pushed
    BY <2>1 DEF SnapshotSound, TypeOK
  <2>3. Sound(RequestFor(snapshot'), gen, pushed, reader = "done")
    BY <2>2, RequestSound
  <2>4. UNCHANGED <<gen, pushed, reader>>
    BY <1>3 DEF SendReset, readerVars, inputVars
  <2> QED
    BY <1>0, <1>3, <2>3, <2>4, ResetJoins, AllSoundJoined
<1> QED
  BY <1>1, <1>2, <1>3

(***************************************************************************)
(* Their order                                                             *)
(***************************************************************************)

LEMMA SameRevisionStep == TypeOK /\ SameRevision /\ [Next]_vars => SameRevision'
<1> SUFFICES ASSUME TypeOK, SameRevision, [Next]_vars PROVE SameRevision'
  OBVIOUS
<1> USE DEF SameRevision
<1>1. CASE UNCHANGED matcherVars
  BY <1>1 DEF matcherVars
<1>2. CASE SendRetry \/ SendReset
  BY <1>2 DEF SendRetry, SendReset
<1>3. ASSUME NEW r \in {mbox.retry, mbox.reset}, TakeRequest(r) PROVE SameRevision'
  <2>1. r.query \in Queries
    BY <1>3 DEF TakeRequest, TypeOK, Results
  <2>2. request' = r /\ mRevision' = r.gen
    BY <1>3 DEF TakeRequest
  <2>3. CASE KeepsCache(r)
    <3>1. mRevision' = mRevision /\ mergerCache' = mergerCache
      BY <1>3, <2>3 DEF TakeRequest, KeepsCache
    <3>2. mpc' = "found" => merger'.gen = mRevision
      <4> DEFINE cached == mergerCache[r.query]
      <4>1. mpc' = "found" => cached # None /\ merger' = [cached EXCEPT !.final = r.final]
        BY <1>3 DEF TakeRequest, Usable
      <4>2. cached \in Results \cup {None}
        BY <2>1 DEF TypeOK
      <4>3. cached # None => cached.gen = mRevision
        BY <2>1
      <4> HIDE DEF cached
      <4>4. cached \in Results => [cached EXCEPT !.final = r.final].gen = cached.gen
        BY DEF Results
      <4> QED
        BY <4>1, <4>2, <4>3, <4>4
    <3> QED
      BY <2>2, <3>1, <3>2
  <2>4. CASE ~KeepsCache(r)
    <3>1. mergerCache' = NoMergers /\ mpc' = "scan"
      BY <1>3, <2>4 DEF TakeRequest
    <3> QED
      BY <2>2, <3>1 DEF NoMergers
  <2> QED
    BY <2>3, <2>4
<1>4. CASE FinishScan
  BY <1>4 DEF FinishScan, TypeOK
<1>5. CASE CancelScan \/ SetFound
  BY <1>5 DEF CancelScan, SetFound
<1>6. CASE UNCHANGED vars
  BY <1>1, <1>6 DEF vars
<1> QED
  BY <1>1, <1>2, <1>3, <1>4, <1>5, <1>6
  DEF Next, Push, EndOfInput, Fin, Poller, PollNew, PollSet, PollFin, Coordinator, Wake,
      HandleFinNext, HandleRead, HandleSearch, HandleFound, Matcher, User, Type, Reload, Post

LEMMA InOrderStep ==
    TypeOK /\ SnapshotSound /\ SameRevision /\ InOrder /\ [Next]_vars => InOrder'
<1> SUFFICES ASSUME TypeOK, SnapshotSound, SameRevision, InOrder, [Next]_vars PROVE InOrder'
  OBVIOUS
<1> USE DEF InOrder
<1>0. /\ box \in Boxes /\ snapshot.gen \in Nat /\ gen \in Nat
      /\ list.gen \in Nat
      /\ \A r \in {box.found, request, merger, mbox.retry, mbox.reset} :
             r # None => r.gen \in Nat
  BY DEF TypeOK, Boxes, Results
<1>a. ASSUME UNCHANGED <<snapshot, list, request, mbox>>, box'.found = box.found
      PROVE  InOrder'
  BY <1>a
<1>1. CASE Push \/ EndOfInput \/ PollNew \/ PollFin
  BY <1>a, <1>1 DEF Push, EndOfInput, PollNew, PollFin, coordVars, matcherVars, screenVars
<1>2. CASE Fin \/ PollSet \/ Wake
  BY <1>0, <1>a, <1>2 DEF Fin, PollSet, Wake, coordVars, matcherVars, screenVars, Boxes
<1>3. CASE HandleFinNext
  BY <1>0, <1>a, <1>3 DEF HandleFinNext, Handled, matcherVars, screenVars, Boxes
<1>4. CASE HandleSearch
  <2>1. box'.found = box.found
    BY <1>0, <1>4 DEF HandleSearch, Handled, Boxes
  <2> QED
    BY <1>a, <1>4, <2>1 DEF HandleSearch, matcherVars, screenVars
<1>5. ASSUME NEW fin \in BOOLEAN, HandleRead(fin) PROVE InOrder'
  <2>1. box'.found = box.found
    BY <1>0, <1>5 DEF HandleRead, Boxes
  <2>2. UNCHANGED <<list, request, mbox>>
    BY <1>5 DEF HandleRead, UpdateCount, matcherVars
  <2>3. snapshot'.gen \in Nat /\ snapshot.gen <= snapshot'.gen
    BY <1>0, <1>5 DEF HandleRead, SnapshotSound
  <2> QED
    BY <1>0, <2>1, <2>2, <2>3
<1>6. CASE SendRetry
  <2>1. mbox'.retry.gen = snapshot.gen /\ mbox'.reset = mbox.reset
    BY <1>6 DEF SendRetry, RequestFor, TypeOK
  <2>2. UNCHANGED <<list, request, box, snapshot>>
    BY <1>6 DEF SendRetry, Handled, screenVars
  <2> QED
    BY <1>0, <2>1, <2>2
<1>7. CASE SendReset
  <2>1. mbox'.reset.gen = snapshot'.gen /\ mbox'.retry = mbox.retry
    BY <1>7 DEF SendReset, RequestFor, TypeOK
  <2>2. UNCHANGED <<list, request>> /\ box'.found = box.found
    BY <1>0, <1>7 DEF SendReset, Handled, screenVars, Boxes
  <2>3. snapshot'.gen \in Nat /\ snapshot.gen <= snapshot'.gen
    BY <1>0, <1>7 DEF SendReset, SnapshotSound
  <2> QED
    BY <1>0, <2>1, <2>2, <2>3
<1>8. CASE HandleFound
  <2>1. list' = box.found /\ box.found # None /\ box'.found = None
    BY <1>0, <1>8 DEF HandleFound, Handled, Boxes
  <2>2. UNCHANGED <<request, mbox, snapshot>>
    BY <1>8 DEF HandleFound, matcherVars
  <2> QED
    BY <1>0, <2>1, <2>2
<1>9. ASSUME NEW r \in {mbox.retry, mbox.reset}, TakeRequest(r) PROVE InOrder'
  <2>1. /\ request' = r /\ r # None /\ mbox'.retry = None /\ mbox'.reset = None
        /\ UNCHANGED <<list, box, snapshot>>
    BY <1>9 DEF TakeRequest, NoRequests, coordVars, screenVars
  <2> QED
    BY <1>0, <1>9, <2>1
<1>10. CASE FinishScan
  BY <1>a, <1>10 DEF FinishScan, coordVars, screenVars
<1>11. CASE CancelScan
  BY <1>0, <1>11 DEF CancelScan, coordVars, screenVars
<1>12. CASE SetFound
  <2>1. box'.found = merger /\ request' = None /\ UNCHANGED <<list, mbox, snapshot>>
    BY <1>0, <1>12 DEF SetFound, Boxes, coordVars, screenVars
  <2>2. merger # None /\ request # None /\ merger.gen = request.gen
    BY <1>12 DEF SetFound, SameRevision, TypeOK
  <2> QED
    BY <1>0, <2>1, <2>2
<1>13. CASE User
  BY <1>a, <1>13 DEF User, Type, Reload, coordVars, matcherVars, screenVars
<1>14. CASE Post
  BY <1>0, <1>a, <1>14 DEF Post, coordVars, matcherVars, screenVars, Boxes
<1>15. CASE UNCHANGED vars
  BY <1>a, <1>15 DEF vars, coordVars, matcherVars, screenVars
<1> QED
  BY <1>1, <1>2, <1>3, <1>4, <1>5, <1>6, <1>7, <1>8, <1>9, <1>10, <1>11, <1>12, <1>13, <1>14,
     <1>15
  DEF Next, Poller, Coordinator, Matcher

(***************************************************************************)
(* The refinement                                                          *)
(***************************************************************************)

LEMMA FlowInit == Init => FlowInv
BY QueryAssumption
DEF Init, FlowInv, SnapshotSound, AllSound, InFlight, Sound, InOrder, SameRevision,
    NoEvents, NoRequests, NoMergers

LEMMA FinderInit == Init => FinderView!Init
BY QueryAssumption DEF Init, FinderView!Init

LEMMA FinderStep ==
    TypeOK /\ ReadingInv /\ FlowInv /\ [Next]_vars => [FinderView!Next]_(FinderView!vars)
<1> SUFFICES ASSUME TypeOK, ReadingInv, FlowInv, [Next]_vars
             PROVE  FinderView!Next \/ UNCHANGED FinderView!vars
  OBVIOUS
<1> USE DEF FinderView!Next, FinderView!vars
<1>1. CASE Push
  BY <1>1 DEF Push, screenVars, FinderView!Read
<1>2. CASE Fin
  BY <1>2 DEF Fin, inputVars, screenVars, FinderView!End
<1>3. ASSUME NEW c, Restart(c), UNCHANGED list, reader = "done" PROVE FinderView!Restart
  BY <1>3 DEF Restart, RestartReader, FinderView!Restart
<1>4. CASE HandleFinNext
  BY <1>3, <1>4 DEF HandleFinNext, ReadingInv, screenVars
<1>5. CASE HandleSearch
  <2>1. UNCHANGED list
    BY <1>5 DEF HandleSearch, screenVars
  <2>2. CASE StartCommand(box.search.command)
    BY <1>3, <2>1, <2>2
    DEF StartCommand, Terminate, inputVars, ReadingInv, ReadingExact
  <2>3. CASE UNCHANGED <<readerVars, inputVars>>
    BY <2>1, <2>3 DEF readerVars, inputVars
  <2> QED
    BY <1>5, <2>2, <2>3 DEF HandleSearch
<1>6. CASE HandleFound
  <2>1. /\ list' = box.found /\ box.found # None
        /\ UNCHANGED <<gen, pushed, reader>>
    BY <1>6 DEF HandleFound, readerVars, inputVars
  <2>2. box.found \in Results
    BY <2>1 DEF TypeOK, Boxes
  <2>3. Sound(box.found, gen, pushed, reader = "done")
    BY <2>1 DEF FlowInv, AllSound, InFlight
  <2>4. list.gen <= box.found.gen
    BY <2>1 DEF FlowInv, InOrder
  <2>5. list.gen \in Nat /\ gen \in Nat
    BY DEF TypeOK, Results
  <2> QED
    BY <2>1, <2>2, <2>3, <2>4, <2>5 DEF Sound, Results, FinderView!Show, FinderView!Lists
<1>7. CASE EndOfInput
  BY <1>7 DEF EndOfInput, inputVars, screenVars
<1>8. CASE Poller
  BY <1>8 DEF Poller, PollNew, PollSet, PollFin, inputVars, screenVars
<1>9. CASE Wake \/ SendRetry \/ SendReset
  BY <1>9 DEF Wake, SendRetry, SendReset, readerVars, inputVars, screenVars
<1>10. ASSUME NEW fin \in BOOLEAN, HandleRead(fin) PROVE UNCHANGED FinderView!vars
  BY <1>10 DEF HandleRead, UpdateCount, readerVars, inputVars
<1>11. CASE Matcher
  BY <1>11 DEF Matcher, TakeRequest, FinishScan, CancelScan, SetFound, readerVars, inputVars,
               screenVars
<1>12. CASE User \/ Post
  BY <1>12 DEF User, Type, Reload, Post, readerVars, inputVars, screenVars
<1>13. CASE UNCHANGED vars
  BY <1>13 DEF vars, readerVars, inputVars, screenVars
<1> QED
  BY <1>1, <1>2, <1>4, <1>5, <1>6, <1>7, <1>8, <1>9, <1>10, <1>11, <1>12, <1>13
  DEF Next, Coordinator

\* The pipeline keeps the promises of Finder: a reload never overlaps another
\* (core.go:304-313), and whatever is late, cancelled, cached or replaced in a
\* box, the list (terminal.go:1412) never goes back to the input of an earlier
\* command, never shows unread items, and is final only when it is complete.
THEOREM ImplementsFinder == Spec => FinderSpec
<1>1. Init => TypeOK /\ ReadingInv /\ FlowInv
  BY TypeInit, ReadingInit, FlowInit
<1>2. TypeOK /\ ReadingInv /\ FlowInv /\ [Next]_vars => TypeOK' /\ ReadingInv' /\ FlowInv'
  BY TypeStep, ReadingStep, SnapshotSoundStep, AllSoundStep, InOrderStep, SameRevisionStep
  DEF FlowInv
<1> QED
  BY <1>1, <1>2, FinderInit, FinderStep, PTL DEF Spec, FinderSpec, FinderView!Spec

(***************************************************************************)
(* reload-sync                                                             *)
(***************************************************************************)

\* The input is that of a reload-sync, and no other reload waits.
SyncRuns == command.sync /\ nextCommand = None

\* SyncAtomic with what it needs to be inductive: from the reload-sync being
\* asked for to the end of its input the snapshot is frozen, so no snapshot of
\* its generation, no request and no result is made before that end.
SyncInv ==
    /\ nextCommand # None => reading /\ (nextCommand.sync => useSnapshot)
    /\ SyncRuns /\ reading => useSnapshot
    /\ SyncRuns /\ snapshot.gen = gen => ~reading
    /\ SyncRuns => \A r \in InFlight : r # None /\ r.gen = gen => r.final
    /\ SyncAtomic

LEMMA SyncInit == Init => SyncInv
BY DEF Init, SyncInv, SyncRuns, SyncAtomic

\* A step that makes no result and leaves the commands alone.
LEMMA SyncKept ==
    ASSUME SyncInv, UNCHANGED <<command, nextCommand, useSnapshot, snapshot, gen, reading, list>>,
           InFlight' \subseteq InFlight \cup {None}
    PROVE  SyncInv'
BY DEF SyncInv, SyncRuns, SyncAtomic

\* A step that starts command c.
LEMMA SyncRestarted ==
    ASSUME TypeOK, FlowInv, NEW c \in Commands, Restart(c), nextCommand' = None,
           c.sync => useSnapshot', UNCHANGED <<snapshot, list>>,
           InFlight' \subseteq InFlight \cup {None}
    PROVE  SyncInv'
<1>1. gen \in Nat /\ gen' = gen + 1 /\ command' = c /\ list.gen \in Nat /\ snapshot.gen \in Nat
  BY DEF TypeOK, Restart, RestartReader, Results
<1>2. ASSUME NEW r \in InFlight', r # None PROVE r.gen \in Nat /\ r.gen <= gen
  <2>1. r \in Results
    BY <1>2 DEF TypeOK, InFlight, Boxes
  <2> QED
    BY <1>2, <2>1 DEF FlowInv, AllSound, Sound, Results
<1>3. snapshot.gen <= gen /\ list.gen <= gen
  BY <1>1 DEF FlowInv, SnapshotSound, InOrder, TypeOK
<1>4. \A r \in InFlight' : r # None => r.gen # gen'
  BY <1>1, <1>2
<1>5. list'.gen # gen' /\ snapshot'.gen # gen'
  BY <1>1, <1>3
<1> QED
  BY <1>1, <1>4, <1>5 DEF SyncInv, SyncRuns, SyncAtomic

\* A step that sends a request r for the snapshot.
LEMMA SyncRequested ==
    ASSUME SyncInv, NEW r,
           UNCHANGED <<command, nextCommand, useSnapshot, gen, reading, list>>,
           SyncRuns /\ snapshot'.gen = gen => ~reading,
           SyncRuns /\ r.gen = gen => r.final,
           InFlight' \subseteq InFlight \cup {None, r}
    PROVE  SyncInv'
BY DEF SyncInv, SyncRuns, SyncAtomic

\* A request is final if its snapshot was taken after the end of the input.
LEMMA RequestFinal ==
    ASSUME NEW s, SyncRuns /\ s.gen = gen => ~reading
    PROVE  SyncRuns /\ RequestFor(s).gen = gen => RequestFor(s).final
<1> DEFINE f == ~reading
<1>1. RequestFor(s).gen = s.gen /\ RequestFor(s).final = f
  BY DEF RequestFor
<1> HIDE DEF f
<1>2. SyncRuns /\ s.gen = gen => f
  BY DEF f
<1> QED
  BY <1>1, <1>2

LEMMA SyncRead ==
    ASSUME TypeOK, SyncInv, NEW fin \in BOOLEAN, HandleRead(fin),
           InFlight' \subseteq InFlight \cup {None}
    PROVE  SyncInv'
<1>1. /\ UNCHANGED <<command, nextCommand, gen, list>>
      /\ reading \in BOOLEAN /\ useSnapshot \in BOOLEAN
      /\ reading' = (reading /\ ~fin) /\ useSnapshot' = (useSnapshot /\ ~fin)
      /\ fin => nextCommand = None
      /\ useSnapshot' => snapshot' = snapshot
  BY DEF HandleRead, KeepSnapshot, UpdateCount, readerVars, inputVars, TypeOK
<1>2. SyncRuns' = SyncRuns /\ SyncAtomic' = SyncAtomic
  BY <1>1 DEF SyncRuns, SyncAtomic
<1>3. SyncRuns /\ reading' => useSnapshot' /\ snapshot' = snapshot
  BY <1>1 DEF SyncInv
<1>4. SyncRuns /\ snapshot'.gen = gen => ~reading'
  BY <1>1, <1>3 DEF SyncInv
<1>5. SyncRuns => \A r \in InFlight' : r # None /\ r.gen = gen => r.final
  BY DEF SyncInv
<1> QED
  BY <1>1, <1>2, <1>3, <1>4, <1>5 DEF SyncInv

LEMMA SyncSearch ==
    ASSUME TypeOK, FlowInv, SyncInv, HandleSearch,
           InFlight' \subseteq InFlight \cup {None}
    PROVE  SyncInv'
<1> DEFINE c == box.search.command
<1>0. UNCHANGED <<snapshot, list>>
  BY DEF HandleSearch, screenVars
<1>1. CASE c = None
  <2>1. UNCHANGED <<command, nextCommand, useSnapshot, gen, reading>>
    BY <1>1 DEF HandleSearch, StartCommand, readerVars, inputVars
  <2> QED
    BY <1>0, <2>1, SyncKept
<1>2. CASE c # None
  <2>1. StartCommand(c) /\ useSnapshot' = c.sync /\ c \in Commands
    BY <1>2 DEF HandleSearch, TypeOK, Boxes, Searches
  <2>2. CASE reading
    <3>1. nextCommand' = c /\ reading'
      BY <2>1, <2>2 DEF StartCommand
    <3> QED
      BY <1>2, <2>1, <3>1 DEF SyncInv, SyncRuns, SyncAtomic
  <2>3. CASE ~reading
    <3>1. Restart(c) /\ nextCommand' = nextCommand /\ nextCommand = None
      BY <2>1, <2>3 DEF StartCommand, SyncInv
    <3> QED
      BY <1>0, <2>1, <3>1, SyncRestarted
  <2> QED
    BY <2>2, <2>3
<1> QED
  BY <1>1, <1>2

LEMMA SyncStep == TypeOK /\ FlowInv /\ SyncInv /\ [Next]_vars => SyncInv'
<1> SUFFICES ASSUME TypeOK, FlowInv, SyncInv, [Next]_vars PROVE SyncInv'
  OBVIOUS
<1>1. CASE SendRetry
  <2>1. /\ UNCHANGED <<command, nextCommand, useSnapshot, snapshot, gen, reading, list>>
        /\ SyncRuns /\ snapshot.gen = gen => ~reading
    BY <1>1 DEF SendRetry, SyncInv, readerVars, inputVars, screenVars
  <2>2. SyncRuns /\ RequestFor(snapshot).gen = gen => RequestFor(snapshot).final
    BY <2>1, RequestFinal
  <2> QED
    BY <1>1, <2>1, <2>2, RetryJoins, SyncRequested
<1>2. CASE SendReset
  <2>1. /\ UNCHANGED <<command, nextCommand, useSnapshot, gen, reading, list>>
        /\ useSnapshot => snapshot' = snapshot
    BY <1>2 DEF SendReset, readerVars, inputVars, screenVars
  <2>2. SyncRuns /\ snapshot'.gen = gen => ~reading
    BY <2>1 DEF SyncInv
  <2>3. SyncRuns /\ RequestFor(snapshot').gen = gen => RequestFor(snapshot').final
    BY <2>2, RequestFinal
  <2> QED
    BY <1>2, <2>1, <2>2, <2>3, ResetJoins, SyncRequested
<1>3. CASE ~SendRetry /\ ~SendReset
  <2>0. InFlight' \subseteq InFlight \cup {None}
    BY <1>3, ResultsKept
  <2>a. ASSUME UNCHANGED <<command, nextCommand, useSnapshot, snapshot, gen, reading, list>>
        PROVE  SyncInv'
    BY <2>0, <2>a, SyncKept
  <2>1. CASE Push \/ EndOfInput \/ Fin \/ Poller
    BY <2>1, <2>a
    DEF Push, EndOfInput, Fin, Poller, PollNew, PollSet, PollFin, inputVars, coordVars,
        screenVars
  <2>2. CASE Wake \/ User \/ Post \/ UNCHANGED vars
    BY <2>2, <2>a
    DEF Wake, User, Type, Reload, Post, vars, readerVars, inputVars, coordVars, screenVars
  <2>3. CASE Matcher
    BY <2>3, <2>a
    DEF Matcher, TakeRequest, FinishScan, CancelScan, SetFound, readerVars, inputVars,
        coordVars, screenVars
  <2>4. CASE HandleFinNext
    <3>1. /\ nextCommand \in Commands /\ Restart(nextCommand) /\ nextCommand' = None
          /\ UNCHANGED <<useSnapshot, snapshot, list>>
          /\ nextCommand.sync => useSnapshot
      BY <2>4 DEF HandleFinNext, TypeOK, SyncInv, screenVars
    <3> QED
      BY <2>0, <3>1, SyncRestarted
  <2>5. CASE HandleSearch
    BY <2>0, <2>5, SyncSearch
  <2>6. ASSUME NEW fin \in BOOLEAN, HandleRead(fin) PROVE SyncInv'
    BY <2>0, <2>6, SyncRead
  <2>7. CASE HandleFound
    <3>1. /\ UNCHANGED <<command, nextCommand, useSnapshot, snapshot, gen, reading>>
          /\ list' = box.found /\ box.found # None
      BY <2>7 DEF HandleFound, readerVars, inputVars
    <3>2. SyncRuns => (list'.gen = gen => list'.final)
      BY <3>1 DEF SyncInv, InFlight
    <3> QED
      BY <2>0, <3>1, <3>2 DEF SyncInv, SyncRuns, SyncAtomic
  <2> QED
    BY <1>3, <2>1, <2>2, <2>3, <2>4, <2>5, <2>6, <2>7 DEF Next, Coordinator
<1> QED
  BY <1>1, <1>2, <1>3

\* "reload-sync ... replaces the list only when the command is complete"
\* (man/man1/fzf.1:1738), for any number of reloads: useSnapshot (core.go:354, 406)
\* keeps every partial list of the new input from the matcher, and so every
\* result of it that is late or comes from the cache is a final one.
THEOREM SyncIsAtomic == Spec => []SyncAtomic
<1>1. Init => TypeOK /\ ReadingInv /\ FlowInv /\ SyncInv
  BY TypeInit, ReadingInit, FlowInit, SyncInit
<1>2. TypeOK /\ ReadingInv /\ FlowInv /\ SyncInv /\ [Next]_vars
          => TypeOK' /\ ReadingInv' /\ FlowInv' /\ SyncInv'
  BY TypeStep, ReadingStep, SnapshotSoundStep, AllSoundStep, InOrderStep, SameRevisionStep,
     SyncStep
  DEF FlowInv
<1>3. SyncInv => SyncAtomic
  BY DEF SyncInv
<1> QED
  BY <1>1, <1>2, <1>3, PTL DEF Spec

=============================================================================
