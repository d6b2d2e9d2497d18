------------------------------ MODULE Pipeline ------------------------------
(***************************************************************************)
(* How input and keys become the list on the screen: the Reader and its    *)
(* event poller (reader.go), the coordinator loop (core.go:317-477), the   *)
(* Matcher (matcher.go) and the Terminal's side of it (terminal.go).  The  *)
(* threads meet in two event boxes (module EventBox): the coordinator's    *)
(* and the matcher's.                                                      *)
(*                                                                         *)
(* A box holds one value per event type, so a newer value replaces an      *)
(* older one, and a consumer sees the pending events in any order.  The    *)
(* coordinator handles a whole batch inside the callback of Wait, where it *)
(* holds the lock of its box: nobody can Set an event there meanwhile.     *)
(*                                                                         *)
(* Data: an item is counted, not stored; the result of a search is the     *)
(* request it answers (which input, how much of it, which query).  Fixed   *)
(* here: no --tail, --sync, --select-1 or --exit-0, search not paused, the *)
(* same sort order and nth throughout, lists below mergerCacheMax.         *)
(***************************************************************************)
EXTENDS Integers, FiniteSets

CONSTANTS
    Queries,     \* the queries the user types
    EmptyQuery,  \* the one that matches everything without a search
    None,        \* an empty slot, a nil pointer
    MaxItems,    \* bound on the items of a command
    MaxKeys,     \* bound on the changes of the query
    MaxReloads   \* bound on the reload actions

ASSUME QueryAssumption == EmptyQuery \in Queries
ASSUME BoundAssumption == MaxItems \in Nat /\ MaxKeys \in Nat /\ MaxReloads \in Nat

VARIABLES
    \* Reader, its poller, and what it pushes into
    event,        \* Reader.event: "Ready", "ReadNew" or "ReadFin"
    reader,       \* "reading", "fin" (waits for finChan) or "done"
    poller,       \* "poll", "set" (about to set EvtReadNew) or "done"
    killed,       \* Reader.killed
    command,      \* Reader.command
    gen,          \* inputRevision, bumped by every restart
    pushed,       \* number of items in the ChunkList
    \* the coordinator and its box
    box,          \* eventBox: EvtReadNew, EvtReadFin, EvtSearchNew, EvtSearchFin
    pc,           \* "wait"; in the callback "handle", "retry" or "search"
    reading, nextCommand, useSnapshot,
    snapshot,     \* snapshot, with snapshotRevision
    \* the matcher
    mbox,         \* Matcher.reqBox: reqRetry and reqReset
    mpc,          \* "wait", "scan" or "found"
    request,      \* the request in progress
    merger,       \* its result
    prevCount, mergerCache,
    mRevision,    \* Matcher.revision
    \* the terminal
    query,        \* Terminal.input
    post,         \* a searchRequest its loop is about to set
    list,         \* Terminal.merger
    treading,     \* Terminal.reading
    triggerLoad,
    \* bounds
    keys, reloads

readerVars  == <<event, reader, poller, killed, command>>
inputVars   == <<gen, pushed>>
coordVars   == <<pc, reading, nextCommand, useSnapshot, snapshot>>
matcherVars == <<mbox, mpc, request, merger, prevCount, mergerCache, mRevision>>
screenVars  == <<list, treading, triggerLoad>>
userVars    == <<query, post, keys, reloads>>
vars == <<readerVars, inputVars, box, coordVars, matcherVars, screenVars, userVars>>

\* A command: the id-th reload action, or 0 for the initial command.
Commands == [id : 0..MaxReloads, sync : BOOLEAN]

\* MatchRequest and Merger.
Results == [gen : Nat, count : Nat, query : Queries, final : BOOLEAN]

\* searchRequest.
Searches == [command : Commands \cup {None}, changed : BOOLEAN]

\* A nil pointer is none of these.
ASSUME NoneAssumption == None \notin Commands \cup Searches

Boxes == [new : BOOLEAN, fin : BOOLEAN,
          search : Searches \cup {None}, found : Results \cup {None}]

NoEvents   == [new |-> FALSE, fin |-> FALSE, search |-> None, found |-> None]
NoRequests == [retry |-> None, reset |-> None]
NoMergers  == [q \in Queries |-> None]

TypeOK ==
    /\ event \in {"Ready", "ReadNew", "ReadFin"}
    /\ reader \in {"reading", "fin", "done"}
    /\ poller \in {"poll", "set", "done"}
    /\ killed \in BOOLEAN
    /\ command \in Commands
    /\ gen \in Nat /\ pushed \in Nat
    /\ box \in Boxes
    /\ pc \in {"wait", "handle", "retry", "search"}
    /\ pc = "search" => box.search # None
    /\ reading \in BOOLEAN /\ useSnapshot \in BOOLEAN
    /\ nextCommand \in Commands \cup {None}
    /\ snapshot \in [gen : Nat, count : Nat]
    /\ mbox \in [retry : Results \cup {None}, reset : Results \cup {None}]
    /\ mpc \in {"wait", "scan", "found"}
    /\ request \in Results \cup {None} /\ (mpc # "wait" => request # None)
    /\ merger \in Results \cup {None} /\ (mpc = "found" => merger # None)
    /\ prevCount \in Nat /\ mRevision \in Nat
    /\ mergerCache \in [Queries -> Results \cup {None}]
    /\ query \in Queries
    /\ post \in Searches \cup {None}
    /\ list \in Results
    /\ treading \in BOOLEAN /\ triggerLoad \in BOOLEAN
    /\ keys \in 0..MaxKeys /\ reloads \in 0..MaxReloads

Init ==
    /\ event = "Ready" /\ reader = "reading" /\ poller = "poll" /\ killed = FALSE
    /\ command = [id |-> 0, sync |-> FALSE]
    /\ gen = 0 /\ pushed = 0
    /\ box = NoEvents
    /\ pc = "wait" /\ reading = TRUE /\ nextCommand = None /\ useSnapshot = FALSE
    /\ snapshot = [gen |-> 0, count |-> 0]
    /\ mbox = NoRequests /\ mpc = "wait" /\ request = None /\ merger = None
    /\ prevCount = 0 /\ mergerCache = NoMergers /\ mRevision = 0
    /\ query = EmptyQuery /\ post = None
    /\ list = [gen |-> 0, count |-> 0, query |-> EmptyQuery, final |-> FALSE]
    /\ treading = TRUE /\ triggerLoad = FALSE
    /\ keys = 0 /\ reloads = 0

\* The lock of the coordinator's box is free.
BoxFree == pc = "wait"

(***************************************************************************)
(* The reader and its event poller                                         *)
(***************************************************************************)

\* feed pushes an item and flags it.  (The two happen one after the other;
\* a poller that is late to look cannot tell.)
Push ==
    /\ reader = "reading"
    /\ pushed < MaxItems
    /\ pushed' = pushed + 1
    /\ event' = "ReadNew"
    /\ UNCHANGED <<reader, poller, killed, command, gen, box, coordVars, matcherVars,
                   screenVars, userVars>>

\* The command has ended or was killed: fin stores EvtReadFin.
EndOfInput ==
    /\ reader = "reading"
    /\ event' = "ReadFin"
    /\ reader' = "fin"
    /\ UNCHANGED <<poller, killed, command, inputVars, box, coordVars, matcherVars,
                   screenVars, userVars>>

\* The poller takes EvtReadNew out of Reader.event.
PollNew ==
    /\ poller = "poll" /\ event = "ReadNew"
    /\ event' = "Ready"
    /\ poller' = "set"
    /\ UNCHANGED <<reader, killed, command, inputVars, box, coordVars, matcherVars,
                   screenVars, userVars>>

PollSet ==
    /\ poller = "set" /\ BoxFree
    /\ box' = [box EXCEPT !.new = TRUE]
    /\ poller' = "poll"
    /\ UNCHANGED <<event, reader, killed, command, inputVars, coordVars, matcherVars,
                   screenVars, userVars>>

\* The poller sees EvtReadFin, sends on finChan and returns.
PollFin ==
    /\ poller = "poll" /\ event = "ReadFin"
    /\ poller' = "done"
    /\ UNCHANGED <<event, reader, killed, command, inputVars, box, coordVars, matcherVars,
                   screenVars, userVars>>

\* (Variant: fin does not wait for finChan.)
FinUnsynced ==
    /\ reader = "fin" /\ BoxFree
    /\ box' = [box EXCEPT !.fin = TRUE]
    /\ reader' = "done"
    /\ UNCHANGED <<event, poller, killed, command, inputVars, coordVars, matcherVars,
                   screenVars, userVars>>

\* fin has received from finChan and sets EvtReadFin.
Fin ==
    /\ reader = "fin" /\ poller = "done" /\ BoxFree
    /\ box' = [box EXCEPT !.fin = TRUE]
    /\ reader' = "done"
    /\ UNCHANGED <<event, poller, killed, command, inputVars, coordVars, matcherVars,
                   screenVars, userVars>>

\* (Variant: the command is not killed.)
TerminateNothing == UNCHANGED readerVars

\* Reader.terminate.
Terminate ==
    /\ killed' = TRUE
    /\ UNCHANGED <<event, reader, poller, command>>

\* Reader.restart, up to the signal on readyChan.
RestartReader(c) ==
    /\ event' = "Ready" /\ reader' = "reading" /\ poller' = "poll"
    /\ killed' = FALSE /\ command' = c

(***************************************************************************)
(* The coordinator                                                         *)
(***************************************************************************)

\* The callback of Wait starts; EvtReadFin makes EvtReadNew redundant.
Wake ==
    /\ pc = "wait" /\ box # NoEvents
    /\ pc' = "handle"
    /\ box' = [box EXCEPT !.new = box.new /\ ~box.fin]
    /\ UNCHANGED <<readerVars, inputVars, reading, nextCommand, useSnapshot, snapshot,
                   matcherVars, screenVars, userVars>>

\* (Variant: the batch is over with its first event.)
HandledFirst(b) ==
    /\ box' = NoEvents
    /\ pc' = "wait"

\* An event has been handled: b is what is left of the batch.
Handled(b) ==
    /\ box' = b
    /\ pc' = IF b = NoEvents THEN "wait" ELSE "handle"

\* The restart closure.
Restart(c) ==
    /\ reading' = TRUE
    /\ gen' = gen + 1 /\ pushed' = 0
    /\ RestartReader(c)

\* EvtReadFin of a command that was killed for the next one.
HandleFinNext ==
    /\ pc = "handle" /\ box.fin /\ nextCommand # None
    /\ Restart(nextCommand)
    /\ nextCommand' = None
    /\ Handled([box EXCEPT !.fin = FALSE])
    /\ UNCHANGED <<useSnapshot, snapshot, matcherVars, screenVars, userVars>>

\* Terminal.UpdateCount(.., final, ..).
UpdateCount(final) ==
    /\ triggerLoad' = (triggerLoad \/ (treading /\ final))
    /\ treading' = ~final
    /\ UNCHANGED list

\* (Variant: any read event ends a reload-sync.)
EndSyncEarly(fin) == FALSE

\* The snapshot is frozen by a reload-sync until EvtReadFin.
KeepSnapshot(fin) == useSnapshot /\ ~fin

\* EvtReadNew or EvtReadFin: take a snapshot and tell the terminal.
HandleRead(fin) ==
    /\ pc = "handle"
    /\ IF fin THEN box.fin /\ nextCommand = None ELSE box.new
    /\ reading' = (reading /\ ~fin)
    /\ useSnapshot' = KeepSnapshot(fin)
    /\ snapshot' = IF useSnapshot' THEN snapshot ELSE [gen |-> gen, count |-> pushed]
    /\ UpdateCount(~reading')
    /\ pc' = "retry"
    /\ box' = [box EXCEPT !.new = box.new /\ fin, !.fin = box.fin /\ ~fin]
    /\ UNCHANGED <<readerVars, inputVars, nextCommand, matcherVars, userVars>>

\* The request for snapshot s: the query is read from the terminal now.
RequestFor(s) == [gen |-> s.gen, count |-> s.count, query |-> query, final |-> ~reading]

\* The rest of that case: Reset without cancel.
SendRetry ==
    /\ pc = "retry"
    /\ mbox' = [mbox EXCEPT !.retry = RequestFor(snapshot)]
    /\ Handled(box)
    /\ UNCHANGED <<readerVars, inputVars, reading, nextCommand, useSnapshot, snapshot,
                   mpc, request, merger, prevCount, mergerCache, mRevision,
                   screenVars, userVars>>

\* (Variant: a reload does not wait for the reader of the last command.)
StartCommandAtOnce(c) ==
    /\ c # None
    /\ Restart(c)
    /\ UNCHANGED nextCommand

\* (Variant: a command that waits is not replaced by a later one.)
StartFirstCommand(c) ==
    /\ c # None
    /\ \/ /\ reading
          /\ Terminate
          /\ nextCommand' = IF nextCommand = None THEN c ELSE nextCommand
          /\ UNCHANGED <<inputVars, reading>>
       \/ /\ ~reading
          /\ Restart(c)
          /\ UNCHANGED nextCommand

\* EvtSearchNew with a command: run it now, or after the one that is running.
StartCommand(c) ==
    /\ c # None
    /\ \/ /\ reading
          /\ Terminate
          /\ nextCommand' = c
          /\ UNCHANGED <<inputVars, reading>>
       \/ /\ ~reading
          /\ Restart(c)
          /\ UNCHANGED nextCommand

\* EvtSearchNew, the part about the command.
HandleSearch ==
    /\ pc = "handle" /\ box.search # None
    /\ LET c == box.search.command IN
       \/ /\ StartCommand(c)
          /\ useSnapshot' = c.sync
       \/ /\ c = None
          /\ UNCHANGED <<readerVars, inputVars, reading, nextCommand, useSnapshot>>
    /\ IF box.search.changed
       THEN pc' = "search" /\ UNCHANGED box
       ELSE Handled([box EXCEPT !.search = None])
    /\ UNCHANGED <<snapshot, matcherVars, screenVars, userVars>>

\* The rest of that case when the query has changed: a new snapshot, unless a
\* reload-sync is under way or a reload has nothing to show yet, and Reset.
SendReset ==
    /\ pc = "search"
    /\ snapshot' = IF ~useSnapshot /\ (box.search.command = None \/ pushed > 0)
                   THEN [gen |-> gen, count |-> pushed] ELSE snapshot
    /\ mbox' = [mbox EXCEPT !.reset = RequestFor(snapshot')]
    /\ Handled([box EXCEPT !.search = None])
    /\ UNCHANGED <<readerVars, inputVars, reading, nextCommand, useSnapshot,
                   mpc, request, merger, prevCount, mergerCache, mRevision,
                   screenVars, userVars>>

\* (Variant: triggerLoad is not reset.)
HandleFoundNoReset ==
    /\ pc = "handle" /\ box.found # None
    /\ list' = box.found
    /\ Handled([box EXCEPT !.found = None])
    /\ UNCHANGED <<readerVars, inputVars, reading, nextCommand, useSnapshot, snapshot,
                   matcherVars, treading, triggerLoad, userVars>>

\* EvtSearchFin: Terminal.UpdateList.
HandleFound ==
    /\ pc = "handle" /\ box.found # None
    /\ list' = box.found
    /\ triggerLoad' = FALSE
    /\ Handled([box EXCEPT !.found = None])
    /\ UNCHANGED <<readerVars, inputVars, reading, nextCommand, useSnapshot, snapshot,
                   matcherVars, treading, userVars>>

(***************************************************************************)
(* The matcher                                                             *)
(***************************************************************************)

\* May the result in the cache answer r, and may the cache be kept?
Usable(r, cached) == cached # None /\ cached.final = r.final
KeepsCache(r) == r.gen = mRevision /\ r.count = prevCount

\* Loop takes all pending requests and keeps the one it happens to see last.
\* It forgets the results of another revision or another count, or else finds
\* a result for the same query.
TakeRequest(r) ==
    /\ mpc = "wait"
    /\ r # None /\ r \in {mbox.retry, mbox.reset}
    /\ mbox' = NoRequests
    /\ request' = r
    /\ LET cached == mergerCache[r.query]
           hit    == KeepsCache(r) /\ Usable(r, cached)
       IN  /\ mRevision' = r.gen
           /\ prevCount' = IF r.gen = mRevision THEN r.count ELSE prevCount
           /\ mergerCache' = IF KeepsCache(r) THEN mergerCache ELSE NoMergers
           /\ merger' = IF hit THEN [cached EXCEPT !.final = r.final] ELSE None
           /\ mpc' = IF hit THEN "found" ELSE "scan"
    /\ UNCHANGED <<readerVars, inputVars, box, coordVars, screenVars, userVars>>

\* scan is over: its result goes into the cache.
FinishScan ==
    /\ mpc = "scan"
    /\ merger' = request
    /\ mergerCache' = [mergerCache EXCEPT ![request.query] = request]
    /\ mpc' = "found"
    /\ UNCHANGED <<readerVars, inputVars, box, coordVars, mbox, request, prevCount,
                   mRevision, screenVars, userVars>>

\* scan notices reqReset between two chunks (here, two items), and gives up.
CancelScan ==
    /\ mpc = "scan"
    /\ mbox.reset # None
    /\ request.query # EmptyQuery /\ request.count > 1
    /\ mpc' = "wait" /\ request' = None
    /\ UNCHANGED <<readerVars, inputVars, box, coordVars, mbox, merger, prevCount,
                   mergerCache, mRevision, screenVars, userVars>>

\* The result is announced.
SetFound ==
    /\ mpc = "found" /\ BoxFree
    /\ box' = [box EXCEPT !.found = merger]
    /\ mpc' = "wait" /\ request' = None /\ merger' = None
    /\ UNCHANGED <<readerVars, inputVars, coordVars, mbox, prevCount, mergerCache,
                   mRevision, screenVars, userVars>>

(***************************************************************************)
(* The terminal's loop                                                     *)
(***************************************************************************)

\* A key changes the query to q.
Type(q) ==
    /\ post = None /\ keys < MaxKeys /\ q # query
    /\ query' = q
    /\ post' = [command |-> None, changed |-> TRUE]
    /\ keys' = keys + 1
    /\ UNCHANGED <<readerVars, inputVars, box, coordVars, matcherVars, screenVars, reloads>>

\* A reload or reload-sync action, perhaps with a new query.
Reload(q, sync) ==
    /\ post = None /\ reloads < MaxReloads
    /\ keys' = keys + (IF q = query THEN 0 ELSE 1) /\ keys' <= MaxKeys
    /\ reloads' = reloads + 1
    /\ query' = q
    /\ treading' = TRUE
    /\ post' = [command |-> [id |-> reloads', sync |-> sync], changed |-> q # query]
    /\ UNCHANGED <<readerVars, inputVars, box, coordVars, matcherVars, list, triggerLoad>>

\* The loop has released the terminal's mutex and sets EvtSearchNew.
Post ==
    /\ post # None /\ BoxFree
    /\ box' = [box EXCEPT !.search = post]
    /\ post' = None
    /\ UNCHANGED <<readerVars, inputVars, coordVars, matcherVars, screenVars,
                   query, keys, reloads>>

(***************************************************************************)
(* The specification                                                       *)
(***************************************************************************)

Poller == PollNew \/ PollSet \/ PollFin

Coordinator ==
    \/ Wake \/ HandleFinNext \/ SendRetry \/ HandleSearch \/ SendReset \/ HandleFound
    \/ \E fin \in BOOLEAN : HandleRead(fin)

Matcher ==
    \/ \E r \in {mbox.retry, mbox.reset} : TakeRequest(r)
    \/ FinishScan \/ CancelScan \/ SetFound

User ==
    \/ \E q \in Queries : Type(q)
    \/ \E q \in Queries, sync \in BOOLEAN : Reload(q, sync)

Next == Push \/ EndOfInput \/ Fin \/ Poller \/ Coordinator \/ Matcher \/ User \/ Post

Spec == Init /\ [][Next]_vars

\* Every thread that can go on does.  A command may run forever, unless it is
\* killed; the user may stop.
FairSpec ==
    /\ Spec
    /\ WF_vars(killed /\ EndOfInput) /\ WF_vars(Fin) /\ WF_vars(Poller)
    /\ WF_vars(Coordinator) /\ WF_vars(Matcher) /\ WF_vars(Post)

(***************************************************************************)
(* Properties                                                              *)
(***************************************************************************)

\* The coordinator's flag `reading` (core.go:281) is exact, whatever was in
\* the batch it has just handled: it is false when the reader has set
\* EvtReadFin and the event was consumed, and then neither the reader nor its
\* poller can touch the list, Reader.event or the box again.
ReadingExact ==
    /\ reading <=> (reader # "done" \/ box.fin)
    /\ reader = "done" => (poller = "done" /\ event = "ReadFin")

\* The threads together keep the promises of Finder: restarts of the reader
\* (core.go:304-313) never overlap, and no late or cached result takes the
\* list (terminal.go:1412) back to an earlier command, shows unread items, or
\* is called final without being complete.
FinderView == INSTANCE Finder WITH done <- (reader = "done")
FinderSpec == FinderView!Spec

\* "reload-sync ... replaces the list only when the command is complete"
\* (man/man1/fzf.1:1738): of the input of a reload-sync, and as long as no
\* other reload waits, only final lists are shown.
SyncAtomic ==
    command.sync /\ nextCommand = None /\ list.gen = gen => list.final

\* A reload that waits for the running command to end is run (or replaced by
\* a later one): terminate, fin and the poller cannot keep each other waiting.
ReloadStarts ==
    \A i \in 1..MaxReloads :
        (nextCommand # None /\ nextCommand.id = i) ~> command.id >= i

\* The load event is not forgotten once the reader is done: a list always
\* follows (terminal.go:1364, 1450).
LoadFires == triggerLoad ~> ~triggerLoad

\* The list is final and for the query on the screen.
Complete == list.final /\ list.gen = gen /\ list.query = query

\* Whenever input has ended, the complete list for the current query is
\* eventually shown.
EventuallyComplete == []<>(reader # "done" \/ Complete)

\* The same while the query changes, unless the matcher ever finds a retry and
\* a reset request together: it then drops one of the two (matcher.go:66-79,
\* and see QuietList).
CompleteUnlessBoth ==
    [](mbox.retry = None \/ mbox.reset = None) => EventuallyComplete

\* Nothing is left to do.
Quiet ==
    /\ reader = "done" /\ box = NoEvents /\ pc = "wait"
    /\ mbox = NoRequests /\ mpc = "wait" /\ post = None

\* "Reset is called to interrupt/signal the ongoing search" (matcher.go:242),
\* and the result event comes "when the filtering for the current query is
\* complete" (man/man1/fzf.1:1439): when nothing is left to do, the list is the
\* one for the current query.
QuietList == Quiet => list.query = query

\* A reload binding "runs `date; ps -ef`, so we can update the list of the
\* processes by pressing CTRL-R" (ADVANCED.md:190-192): when nothing is left to
\* do, the last reload asked for is the one that ran.
LastReloadRuns == Quiet => command.id = reloads

\* The same as long as the query is left alone: a key can take the place of the
\* request that carries the command.
LastReloadWins == keys = 0 => LastReloadRuns

\* "Fixed a race condition which would cause fzf to present stale results
\* after `reload`" (CHANGELOG.md:153): what the matcher announces was made
\* from the snapshot it was asked to search.
DeliveredFresh == mpc = "found" => merger = request

\* The load event is "Triggered when the input stream is complete and the
\* initial processing of the list is complete" (man/man1/fzf.1:1421-1422).
LoadComplete == [][triggerLoad /\ ~triggerLoad' => list'.final]_vars

=============================================================================
