-------------------------------- MODULE Scan --------------------------------
(***************************************************************************)
(* A search by many goroutines, its three caches, and what change-nth does *)
(* to them: the coordinator's EvtSearchNew (core.go), Matcher.Loop and     *)
(* scan (matcher.go), Pattern.Match (pattern.go) and ChunkCache (cache.go).*)
(*                                                                         *)
(* The coordinator works while the goroutines of a scan do, and shares the *)
(* ChunkCache with them.  Only one scan runs at a time, and no two of its  *)
(* goroutines search the same chunk.                                       *)
(*                                                                         *)
(* Data: what matches in a chunk is a set of items, and the matching itself*)
(* the constant MatchesIn.  The chunks are the full ones, which all the    *)
(* snapshots share; the last one is a copy in every snapshot and found in  *)
(* no cache.  Fixed here: the list (so prevCount is its count, and of the  *)
(* revisions of the input only the changes of --nth are left), the sort    *)
(* order, and the search is not paused.  A reload-sync does not end within *)
(* a behavior.                                                             *)
(***************************************************************************)
EXTENDS Integers, Sequences, FiniteSets

CONSTANTS
    NumChunks,       \* len(request.chunks)
    SliceOf,         \* which goroutine searches a chunk
    Items,           \* the items of a chunk
    Queries,         \* the queries the user types; each is its own cache key
    EmptyQuery,      \* the one that matches everything without a search
    Cacheable,       \* queries whose results can be cached
    SubKeys,         \* the prefixes and suffixes of a query that Search tries, in order
    Nths,            \* the values of --nth
    MatchesIn,       \* MatchesIn[q][n][c]: the items of chunk c that match q in the fields n
    None,            \* an empty slot, a nil pointer
    QueryCacheMax,   \* queryCacheMax
    MergerCacheMax,  \* mergerCacheMax
    MaxActions       \* bound on the actions of the user

Chunks == 1..NumChunks

ASSUME ChunkAssumption == NumChunks \in Nat \ {0} /\ SliceOf \in [Chunks -> Nat]
ASSUME KeyAssumption ==
    /\ EmptyQuery \in Queries /\ Cacheable \subseteq Queries
    /\ SubKeys \in [Queries -> Seq(Queries)]
ASSUME FitAssumption == MatchesIn \in [Queries -> [Nths -> [Chunks -> SUBSET Items]]]

\* A longer query matches less than a part of it, and the empty one everything.
ASSUME NarrowAssumption ==
    \A q \in Queries, n \in Nths, c \in Chunks :
        /\ \A i \in DOMAIN SubKeys[q] : MatchesIn[q][n][c] \subseteq MatchesIn[SubKeys[q][i]][n][c]
        /\ MatchesIn[EmptyQuery][n][c] = Items
ASSUME MaxAssumption == MaxActions \in Nat

VARIABLES
    \* the terminal, and its event in the box of the coordinator
    query,             \* Terminal.input
    nthCurrent,        \* Terminal.nthCurrent
    searchNew,         \* the pending searchRequest
    actions,           \* number of actions of the user
    \* the coordinator
    nth, nthRevision,
    snapshotRevision,
    useSnapshot, reading,
    patternCache,      \* the nth of the pattern built for a query
    \* the cache of results of chunks
    cache,
    \* the matcher
    reqBox,            \* reqRetry and reqReset
    doing,             \* "wait", "scan", or "cancelled" when scan waits for its goroutines
    request,
    revision,          \* Matcher.revision
    mergerCache,
    searchFin,         \* the merger of the last EvtSearchFin
    \* the goroutines of the scan
    at,                \* of a chunk: "todo", "matching", "matched" or "sent"
    matches,           \* of a chunk: what is left to match, then what does
    received,          \* number of chunks received from countChan
    returned,          \* the goroutines that returned because of the cancellation
    \* history
    overlapped         \* did a search or a reload overlap the last change of nth?

userVars == <<query, nthCurrent, searchNew, actions>>
ownVars == <<nth, nthRevision, snapshotRevision, useSnapshot, reading, patternCache, overlapped>>
loopVars == <<request, revision, mergerCache, searchFin>>
workVars == <<at, matches, received, returned>>
scanVars == <<userVars, ownVars, cache, reqBox, doing, loopVars, workVars>>

NoPatterns == [q \in Queries |-> None]
NothingCached == [c \in Chunks |-> [q \in Queries |-> None]]
NoMergers == [q \in Queries |-> None]
NoRequests == [retry |-> None, reset |-> None]

Requests == [query : Queries, nth : Nths, final : BOOLEAN, revision : Nat]
Mergers == [query : Queries, final : BOOLEAN, found : [Chunks -> SUBSET Items]]
Searches == [nth : Nths \cup {None}, sync : BOOLEAN, changed : BOOLEAN]

\* A nil pointer is none of these.
ASSUME NilAssumption == None \notin Nths /\ None \notin Requests

ScanTypeOK ==
    /\ query \in Queries /\ nthCurrent \in Nths
    /\ searchNew \in Searches \cup {None}
    /\ actions \in Nat
    /\ nth \in Nths /\ nthRevision \in Nat /\ snapshotRevision \in Nat
    /\ useSnapshot \in BOOLEAN /\ reading \in BOOLEAN
    /\ patternCache \in [Queries -> Nths \cup {None}]
    /\ cache \in [Chunks -> [Queries -> (SUBSET Items) \cup {None}]]
    /\ reqBox \in [retry : Requests \cup {None}, reset : Requests \cup {None}]
    /\ doing \in {"wait", "scan", "cancelled"}
    /\ request \in Requests \cup {None} /\ (doing # "wait" => request # None)
    /\ revision \in Nat
    /\ mergerCache \in [Queries -> Mergers \cup {None}]
    /\ searchFin \in Mergers
    /\ at \in [Chunks -> {"todo", "matching", "matched", "sent"}]
    /\ matches \in [Chunks -> SUBSET Items]
    /\ received \in Nat
    /\ returned \subseteq Nat
    /\ overlapped \in BOOLEAN

Everything == [c \in Chunks |-> Items]

\* The list is on the screen, complete or still growing, and nothing is typed yet.
ScanInit ==
    /\ query = EmptyQuery /\ nth \in Nths /\ nthCurrent = nth /\ searchNew = None /\ actions = 0
    /\ nthRevision = 0 /\ snapshotRevision = 0
    /\ useSnapshot = FALSE /\ reading \in BOOLEAN
    /\ patternCache = [NoPatterns EXCEPT ![EmptyQuery] = nth]
    /\ cache = NothingCached
    /\ reqBox = NoRequests /\ doing = "wait" /\ request = None /\ revision = 0
    /\ mergerCache = NoMergers
    /\ searchFin = [query |-> EmptyQuery, final |-> ~reading, found |-> Everything]
    /\ at = [c \in Chunks |-> "sent"] /\ matches = Everything /\ received = NumChunks
    /\ returned = {}
    /\ overlapped = FALSE

(***************************************************************************)
(* The terminal                                                            *)
(***************************************************************************)

\* A key or its actions edit the query to q, change nth to n and reload with
\* reload-sync.  The request replaces one that is pending.
UserActs(q, n, sync) ==
    /\ actions < MaxActions
    /\ q # query \/ n # None \/ sync
    /\ query' = q
    /\ nthCurrent' = IF n = None THEN nthCurrent ELSE n
    /\ searchNew' = [nth |-> n, sync |-> sync, changed |-> q # query \/ n # None]
    /\ actions' = actions + 1
    /\ UNCHANGED <<ownVars, cache, reqBox, doing, loopVars, workVars>>

(***************************************************************************)
(* The coordinator                                                         *)
(***************************************************************************)

\* (Variant: the patterns built for the old nth are kept.)
KeptPatterns(change) == patternCache

\* The patterns that are left when nth changes or does not.
PatternsLeft(change) == IF change THEN NoPatterns ELSE patternCache

\* BuildPattern and Matcher.Reset: the pattern for the query on the screen.
Reset(event, final, patterns) ==
    LET n == IF patterns[query] = None THEN nth' ELSE patterns[query]
    IN  /\ patternCache' = [patterns EXCEPT ![query] = n]
        /\ reqBox' = [reqBox EXCEPT ![event] =
               [query |-> query, nth |-> n, final |-> final, revision |-> snapshotRevision']]

\* EvtSearchNew.  The lock of the box is held throughout, but the matcher takes
\* requests and its goroutines use the cache meanwhile; for them it is as if all
\* happened when the cache is cleared.
HandleSearchNew ==
    /\ searchNew # None
    /\ LET change == searchNew.nth # None IN
           /\ nth' = IF change THEN searchNew.nth ELSE nth
           /\ nthRevision' = IF change THEN nthRevision + 1 ELSE nthRevision
           /\ cache' = IF change THEN NothingCached ELSE cache
           /\ useSnapshot' = (useSnapshot \/ searchNew.sync)
           /\ reading' = (reading \/ searchNew.sync)
           /\ overlapped' = IF change THEN doing # "wait" \/ reqBox.retry # None \/ useSnapshot'
                            ELSE overlapped
           /\ IF searchNew.changed
              THEN /\ snapshotRevision' = IF useSnapshot' THEN snapshotRevision ELSE nthRevision'
                   /\ Reset("reset", ~reading', PatternsLeft(change))
              ELSE UNCHANGED <<snapshotRevision, reqBox, patternCache>>
    /\ searchNew' = None
    /\ UNCHANGED <<query, nthCurrent, actions, doing, loopVars, workVars>>

\* EvtReadNew or EvtReadFin: search the list again, without a hurry.
HandleRead(fin) ==
    /\ reading
    /\ fin => ~useSnapshot
    /\ reading' = ~fin
    /\ snapshotRevision' = IF useSnapshot THEN snapshotRevision ELSE nthRevision
    /\ nth' = nth
    /\ Reset("retry", fin, patternCache)
    /\ UNCHANGED <<userVars, nthRevision, useSnapshot, overlapped, cache, doing, loopVars, workVars>>

(***************************************************************************)
(* The matcher                                                             *)
(***************************************************************************)

Size(found) == [c \in Chunks |-> Cardinality(found[c])]
Length(found) == LET sum[i \in 0..NumChunks] == IF i = 0 THEN 0 ELSE sum[i - 1] + Size(found)[i]
                 IN  sum[NumChunks]

\* The end of Matcher.Loop.
Deliver(merger, mergers) ==
    /\ mergerCache' = IF Length(merger.found) < MergerCacheMax
                      THEN [mergers EXCEPT ![merger.query] = merger] ELSE mergers
    /\ searchFin' = merger

\* The mergers that are good for request r.
MergersFor(r) == IF r.revision = revision THEN mergerCache ELSE NoMergers

\* Matcher.Loop takes what is in its box; of two requests either may be the one
\* it keeps.  (The test for m.cache.Clear compares the revision with itself.)
Take(r) ==
    /\ doing = "wait"
    /\ r # None
    /\ reqBox' = NoRequests
    /\ revision' = r.revision
    /\ LET mergers == MergersFor(r)
           hit == mergers[r.query] # None /\ mergers[r.query].final = r.final
       IN  \/ /\ hit
              /\ Deliver(mergers[r.query], mergers)
              /\ UNCHANGED <<doing, request, workVars>>
           \/ /\ ~hit /\ r.query = EmptyQuery
              /\ Deliver([query |-> r.query, final |-> r.final, found |-> Everything], mergers)
              /\ UNCHANGED <<doing, request, workVars>>
           \/ /\ ~hit /\ r.query # EmptyQuery
              /\ mergerCache' = mergers
              /\ request' = r /\ doing' = "scan"
              /\ at' = [c \in Chunks |-> "todo"]
              /\ matches' = Everything
              /\ received' = 0 /\ returned' = {}
              /\ UNCHANGED searchFin
    /\ UNCHANGED <<userVars, ownVars, cache>>

\* A chunk has been counted.  Only then, and not after the last one, scan looks
\* whether the search is to be given up.
Receive ==
    /\ doing = "scan"
    /\ received < Cardinality({c \in Chunks : at[c] = "sent"})
    /\ received' = received + 1
    /\ doing' = IF received' < NumChunks /\ reqBox.reset # None THEN "cancelled" ELSE "scan"
    /\ UNCHANGED <<userVars, ownVars, cache, reqBox, loopVars, at, matches, returned>>

\* All partial results have been received.
Collect ==
    /\ doing = "scan" /\ received = NumChunks
    /\ Deliver([query |-> request.query, final |-> request.final, found |-> matches], mergerCache)
    /\ doing' = "wait"
    /\ UNCHANGED <<userVars, ownVars, cache, reqBox, request, revision, workVars>>

\* The goroutines of a search that was given up have returned.
Abandon ==
    /\ doing = "cancelled"
    /\ \A c \in Chunks : SliceOf[c] \in returned \/ at[c] = "sent"
    /\ doing' = "wait"
    /\ UNCHANGED <<userVars, ownVars, cache, reqBox, loopVars, workVars>>

(***************************************************************************)
(* The goroutines: Pattern.Match of a chunk after the other                *)
(***************************************************************************)

Searching(c) ==
    /\ doing # "wait"
    /\ SliceOf[c] \notin returned
    /\ \A d \in 1..(c - 1) : SliceOf[d] = SliceOf[c] => at[d] = "sent"

\* ChunkCache.Search: the results of the first part of the query that has any.
PartsCached(q, c) == {i \in DOMAIN SubKeys[q] : cache[c][SubKeys[q][i]] # None}
Space(q, c) ==
    LET cached == PartsCached(q, c)
        first == CHOOSE i \in cached : \A j \in cached : i <= j
    IN  IF cached = {} THEN Items ELSE cache[c][SubKeys[q][first]]

\* Lookup and Search.  (They lock the cache one after the other; only a Clear
\* can come between them, and then it is as if it had come first.)
LookUp(c) ==
    /\ Searching(c) /\ at[c] = "todo"
    /\ LET q == request.query
           hit == q \in Cacheable /\ cache[c][q] # None
       IN  /\ at' = [at EXCEPT ![c] = IF hit THEN "matched" ELSE "matching"]
           /\ matches' = [matches EXCEPT ![c] = IF hit THEN cache[c][q] ELSE Space(q, c)]
    /\ UNCHANGED <<userVars, ownVars, cache, reqBox, doing, loopVars, received, returned>>

\* matchChunk and Add.
MatchChunk(c) ==
    /\ Searching(c) /\ at[c] = "matching"
    /\ LET q == request.query
           found == matches[c] \cap MatchesIn[q][request.nth][c]
       IN  /\ matches' = [matches EXCEPT ![c] = found]
           /\ cache' = IF q \in Cacheable /\ Cardinality(found) <= QueryCacheMax
                       THEN [cache EXCEPT ![c][q] = found] ELSE cache
    /\ at' = [at EXCEPT ![c] = "matched"]
    /\ UNCHANGED <<userVars, ownVars, reqBox, doing, loopVars, received, returned>>

\* The goroutine sends the count, or returns when the search has been given up.
Send(c) ==
    /\ Searching(c) /\ at[c] = "matched"
    /\ \/ doing = "cancelled" /\ returned' = returned \cup {SliceOf[c]} /\ UNCHANGED at
       \/ doing = "scan" /\ at' = [at EXCEPT ![c] = "sent"] /\ UNCHANGED returned
    /\ UNCHANGED <<userVars, ownVars, cache, reqBox, doing, loopVars, matches, received>>

User == \E q \in Queries, n \in Nths \cup {None}, sync \in BOOLEAN : UserActs(q, n, sync)
Coordinator == HandleSearchNew \/ \E fin \in BOOLEAN : HandleRead(fin)
Matcher == Take(reqBox.retry) \/ Take(reqBox.reset) \/ Receive \/ Collect \/ Abandon
Goroutines == \E c \in Chunks : LookUp(c) \/ MatchChunk(c) \/ Send(c)

ScanNext == User \/ Coordinator \/ Matcher \/ Goroutines

ScanSpec == ScanInit /\ [][ScanNext]_scanVars

(***************************************************************************)
(* Properties                                                              *)
(***************************************************************************)

\* Nothing is left to do.
Settled == searchNew = None /\ reqBox = NoRequests /\ doing = "wait"

\* All that matches q in the fields n.
AllOf(q, n) == [c \in Chunks |-> MatchesIn[q][n][c]]
ShowsFields == searchFin.found = AllOf(searchFin.query, nth)

\* When nothing is left to do, the list has exactly the items that match in the
\* fields of --nth, which all caches are cleared for when it changes (core.go).
FieldsExact == Settled => ShowsFields

\* That holds unless a search or a reload overlapped the last change of --nth: no
\* result for other fields is left in a cache (core.go, matcher.go, cache.go).
FieldsExactAlone == ~overlapped => FieldsExact

\* A change of --nth that the terminal shows is one that the search knows of
\* (terminal.go, core.go).
NthKept == searchNew = None => nth = nthCurrent

=============================================================================
