# A TLA+ model of fzf as vendored in this repository

The repository is a personal terminal setup: zsh, tmux and Neovim settings, the
plugins they load, and the source of the plugin that does the real work, the
fuzzy finder fzf (`src/nvim/plugged/fzf`, Go). The settings and the other
plugins are configuration, user interface or third-party scripts that react to
one event at a time. fzf is a concurrent program of five to ten goroutines, and
it is what these modules are about. Paths below are relative to
`src/nvim/plugged/fzf/src` unless they start with another directory.

## 1. Inventory

| component | state it keeps | operations | hard parts | modules |
|---|---|---|---|---|
| event box (`util/eventbox.go`) | map of pending events, ignored types, a condition variable | Set, Wait, WaitFor, Peek, Watch, Unwatch, Clear | lost wakeups; a newer value replaces an older one | EventBox, Mailbox |
| item list (`chunklist.go`), its cache (`cache.go`) | chunks of 100 items shared by pointer with snapshots and cache | Push, Clear, Snapshot (with `--tail`), Add, Lookup, Search, retire | readers without a lock; trimming of shared chunks | ChunkList, Query |
| result view (`merger.go`) | a snapshot, or sorted partial results and cursors | Get, FindIndex, mergedGet | index arithmetic over partly filled chunks; laziness | ChunkList, List, Rank |
| reader (`reader.go`) | `event`, `killed`, `command`, `finChan`; one poller goroutine per command | feed, fin, terminate, restart | order of EvtReadNew and EvtReadFin; killing and restarting | Pipeline |
| matcher (`matcher.go`) | pending requests, revision, cache of results, prevCount; the goroutines of a scan | Reset, Loop, scan | cancelling; several pending requests; valid cache entries; caches that are cleared during a scan | Pipeline, Scan, Rank |
| coordinator (`core.go`) | reading, nextCommand, useSnapshot, snapshot, revisions, deferred | one case per event type, restart, determine | events of a batch in random order; reload during a reload; change-nth during a search; when to start, when to leave | Pipeline, Scan, Session |
| query line and history (`terminal.go`, `history.go`) | three slices that share arrays, cursor; lines, edits, a file | 26 editing actions, override, previous, next, append | aliasing; bound `change` events; edits of old lines | Prompt, Line |
| list on the screen (`terminal.go`) | list, cursor, offset, selection, tracking, the rows last drawn | actions, mouse, UpdateList, constrain, printList | a list that changes under cursor and selection; rows that are not drawn again | List |
| previewer (`terminal.go`) | version, killChan, four goroutines, the window last drawn | enqueue, cancel, kill, display, scroll | a cancel that nobody receives; what is taken to be drawn | Preview |
| start and exit (`core.go`, `terminal.go`) | startChan, eventChan, reqBox, exit status | determine, Loop, activate, exit | deferred start and activation; requests to leave that meet | Session |
| locks of all these | mutex, uiMutex, ChunkList.mutex, the boxes' locks, eventChan | lock, unlock, send | nested locks; a channel whose receiver needs the sender's mutex | Locks |
| windows (`terminal.go`) | none | adjustMarginAndPadding, resizeWindows | seven windows placed by sums of heights | Layout |
| matching (`algo/`), queries (`pattern.go`), fields (`tokenizer.go`), ranking (`result.go`), escape sequences (`ansi.go`) | slab, cache | pure functions but for these | scores, boundaries, stale cells, keys of the cache | Match, Query, Tokens, Rank, Ansi |
| HTTP server (`server.go`) | none besides the connection | GET status, POST actions | requests in pieces; a loop that is busy | Server |

How they interact: the reader pushes items into the list and tells the
coordinator through its event box (EvtReadNew via the poller, EvtReadFin). The
terminal's loop sets EvtSearchNew there for each change of the query and each
reload. The coordinator takes a snapshot of the list, gives the count to the
terminal and sends a request to the matcher's own box; the matcher sets
EvtSearchFin with the result, which the coordinator hands to the terminal
(UpdateList), which in turn requests rendering through reqBox. The render loop
draws the list, notices that the current item has changed and asks the previewer
for a new preview through previewBox. The coordinator works inside the callback
of `Wait`, so it holds the lock of its box while it calls into the list, the
terminal and the matcher.

`PROJECT.json` lists every component with its status, and under `hazards` what
can go wrong at which line, with the properties that would notice.

## 2. Modules

    Mailbox   <- implemented by -  EventBox   <- MCEventBox,  PartsProofs
                                   ChunkList  <- MCChunkList, ChunkListProofs
    Finder    <- implemented by -  Pipeline   <- MCPipeline,  PipelineProofs
                                   Scan       <- MCScan,      PartsProofs
                                   Locks      <- LocksProofs
    Line      <- implemented by -  Prompt     <- MCPrompt,    PromptProofs
                                   List       <- MCList,      ListProofs
                                   Preview    <- MCPreview,   PreviewProofs
                                   Session    <- MCSession,   SessionProofs
                                   Rank, Layout  <- MCAlgorithms, PartsProofs
                    Match, Tokens  <- Query, Ansi, Server  <- MCAlgorithms

**EventBox** (`util/eventbox.go`). State: `events`, `ignore`, where the consumer
is (`waiter`), which event its WaitFor looks for (`target`), and what the last
clearing callback saw (`batch`). The mutex makes a method atomic; only
`cond.Wait` splits one in two, so Wait is Park plus Consume (or Look, inside
WaitFor). All boxes have one consumer goroutine. **Mailbox** is the promise: put
replaces, take empties, and a take never finds the box empty.

**ChunkList** (`chunklist.go`, the pass view of `merger.go`, the keys of
`cache.go`). Chunks are cells of a heap with garbage collection, because who
shares a pointer with whom is the point. Push (of an item, or of a header line
that leaves an empty chunk), Clear (a restart), Snapshot (trimming for `--tail`
and duplicating), CacheAdd, CacheClear. A holder keeps its snapshot while
everything else goes on. `CountItems`, `Get` and `FindIndex` are the code's
formulas.

**Pipeline** (`reader.go`, `core.go`, `matcher.go`, the terminal's side of it).
One action per step of a goroutine between two points where another can
intervene: the reader and its poller, the coordinator (`Wake`, then one action
per event of the batch in any order, split where it reads the query), the
matcher (take, scan, cancel, announce), the terminal's loop (type, reload,
post). `pc # "wait"` means that the coordinator holds the lock of its box.
Items are counted, a result is the request it answers. **Finder** is the
promise: commands run one after the other, the list shown never goes back to an
earlier command, never shows what has not been read, and is final only when it
is complete.

**Scan** (`matcher.go`, `pattern.go`, `cache.go`, and what `core.go` and the
terminal do for change-nth). A search seen from inside: one action per call of a
goroutine that can meet another (look up a chunk, match it and add the result,
send the count), the matcher's loop that counts, gives up or collects, and the
coordinator, which meanwhile changes `nth` and clears the caches. The three
things that outlive a search are there as the code has them: the patterns by
query, the results by chunk and key, the mergers by query, valid for one
revision. What matches where is the constant `MatchesIn`, of which only
`NarrowAssumption` is assumed: a longer query matches less than a part of it
(which QueryExact is about). `overlapped` is history: whether, when `--nth`
changed last, a search was running or waiting or a reload-sync was under way
(MCScanFields.cfg and MCScanSync.cfg show what then happens).

**Locks**. The same threads seen as the sequence of locks they take and events
they send, for deadlocks only: reader, coordinator, the terminal's loop and the
render loop. The constants switch the features that add operations:
`--header-lines`, bindings to load/one/zero/result/focus/resize, and
`--info-command`.

**Prompt** (the editing actions of `Terminal.Loop`, `history.go`). The query, the
yank buffer and the query of the last key are Go slices, so the state has their
arrays (`memory`): an append writes in place when there is room. A key runs its
actions (`DoAction`), then come the bound events change and backward-eof, then
the decision whether to post a search. Sessions share the history file. **Line**
is the promise: a text, a cursor and a killed text that only editing changes.

**List** (`terminal.go`: UpdateList, constrain, the actions on cursor and
selection, the mouse, printList). An item has an index and a number of lines;
`rows` is what `prevLines` remembers and what is on the screen; `requests` is
reqBox, so that drawing comes later than the change it shows.

**Preview** (`terminal.go`: previewer, printPreview, cancelPreview). One action
per step of the goroutine that runs commands and of the three that read its
output, ask for drawing and kill it; the command is the environment. `screen`
is what is in the window, next to what `previewed` believes. `Show` makes a
request only if the template can be filled in (buildPlusList); `unasked`
remembers that it did not.

**Session** (`core.go`, `terminal.go`). A run of the finder as a whole: options,
start, activation, and the ways to leave, with the coordinator, the loop, the
render loop and the delay timer. The input is two counters, items read and items that
match.

**Match**, **Query**, **Rank**, **Tokens**, **Layout**, **Ansi**, **Server** hold
what keeps no state between events: the algorithms as operators, and next to
each the definition it is checked against. Match: the four algorithms, with the
slab of FuzzyMatchV2, from which it falls back to FuzzyMatchV1 when the matrix
does not fit. Query: terms, cache keys, Pattern.Match with the chunk
cache. Rank: buildResult, the comparison, slices and lazy merge (a sorted list has
n - 1 matches before its item n; that is all sort.Sort is needed for). Tokens: ranges and fields.
Layout: the place of every window. Ansi: escape sequences and colors. Server: a
connection as a sequence of fragments, read into a buffer of the size of
bufio.Scanner's. **MCAlgorithms** evaluates them on sets of
samples: a behavior chooses an algorithm, then a sample.

The operators marked "(Variant: ...)" are plausible bugs; no specification uses
them. Each property of a passing run is violated when one of them replaces the
definition it varies (`mutants` in `PROJECT.json`).

## 3. Runs

| run | instance | what it shows |
|---|---|---|
| eventbox | 3 events, 2 values | no lost wakeup, implements Mailbox, watched events are consumed, WaitFor returns |
| chunklist | chunks of 2, 1 header line, `--tail=3`, 5 items, 2 holders | snapshots immutable and exact while the list is pushed to, trimmed and cleared; pass view exact |
| pipeline | 2 queries; with 1 or 2 items, and reloads and keys that together stay small (`Within` in MCPipeline); fair | implements Finder, `reading` exact, reload-sync atomic; every reload starts and the last one wins; load is announced; the complete list for the last query is shown |
| scan | 2 full chunks with a goroutine each, 3 items, 4 queries (one not cacheable, one too long for the cache), 2 values of `--nth`; 3 actions of the user | the list is that of the new fields unless something overlapped their change |
| locks | header lines, all bindings, an info command, a channel of 1 | the mutexes alone never form a circle |
| prompt | a letter, a mark, a space; 3 keys in each of 2 sessions; 26 actions | slices stay inside their arrays; implements Line; a query of another length is searched for; the history file and the edits of its lines |
| list | 4 items, one of two lines; `--tail=3`, `--multi=2`, 2 keys of 29 actions and the mouse, 2 new lists, windows of 2 and 3 lines | rows that are not drawn again are right; the current item is visible, stays tracked and previewed; what --tail takes from the selection |
| preview | 2 requests, 2 lines of output, a clear code, a window of 2 lines, 2 keys that scroll, hide, show, rewrap or resize; fair | the last request is started; its output is what the window shows |
| session | 11 command lines, 2 items, 2 keys, posts or signals; fair | leaves by itself only on a complete input; right height; gets active; ends once, restored |
| algorithms | see MCAlgorithms | the functions agree with their definitions |

Bounds. Chunks of 2 instead of 100 keep what the arithmetic distinguishes: an
empty, a partial and a full chunk; 4 and 5 items give up to three chunks, so
that there is a first, an inner and a last one; `--tail=3` is not a multiple of
2, so both whole and partial chunks go; the first three items show the list
untrimmed. Two holders are the coordinator and the list on the screen. Two items
are what it takes for a scan that can be cancelled between chunks; two reloads,
for a reload that replaces one that waits; two keys, for a query that changes
during the search for the last one. Three keys are what it takes to make a
slice, share its array and write behind it; two sessions, to read back what was
written. In Scan three actions are a query, the change
of `--nth` and a reload or another query; a goroutine per chunk lets one be done
while the other still matches, and 2 of 3 items, or fewer than 6 of all, are what
the caches take. In List two actions between two lists move the cursor away from an item
that is tracked or selected before the next list comes. In Preview the second
request comes while the first is started, running, ending or drawn; two keys hide
the window and show it again while output is on its way. MaxItems,
MaxKeys, MaxActions, MaxReloads, MaxSessions, MaxLists, MaxRequests, MaxLines, MaxClears and
MaxCached bound the environment only. In `locks` the channel has one slot: the
property is about mutexes, and a send that blocks earlier only makes threads
hold them longer. The samples of `algorithms` are all texts of up to four
characters over alphabets that have one character of each class the code tells
apart; in `Match` also texts with accents and a slab that is too small, in `Server`
bodies as long as the buffer and longer (200 instead of 64 K). Deadlock is not checked where the system may rest when all is done, or is
known to block (`locks`).

Fairness. Weak fairness of each goroutine that can go on (poller, fin,
coordinator, matcher, loop, render loop, previewer and its three helpers, the
delay timer): the Go scheduler runs every goroutine that can run. No fairness
for the user, nor for a command or a preview to end by itself; a command that
was killed ends (`killed /\ EndOfInput`, `Kill`), since its pipe is closed. The
event box is fair in its consumer only.

## 4. Disagreements with the documentation

Two runs expect a violation; `findings` in `PROJECT.json` has the lines.

- `locks_header`: a header line announced under the list's mutex, against a
  snapshot taken under the box's lock: a deadlock.
- `session_hang`: while the start is deferred, lists without a match fill
  eventChan when result is bound; UpdateList then keeps the mutex that the start
  needs. In `session` two items are too few to fill its six slots.

More of them, each with a configuration that exhibits it:

| configuration | module | what happens |
|---|---|---|
| MCPipelineQuiet.cfg | MCPipeline | of a retry and a reset request pending together the matcher keeps whichever the iteration of the map yields last, and the retry may carry the query from before the key: the list can stay on an old query (matcher.go:67), against matcher.go:242 and man/man1/fzf.1:1439; `CompleteUnlessBoth` excepts exactly this |
| MCScanFields.cfg | MCScan | a scan that runs when `--nth` changes adds its results to the chunk cache after it was cleared (core.go:387, pattern.go:288-292), and the search for the new fields finds them under the same key; or a waiting request of the old fields is taken after the new one. The list stays on the old fields, against core.go:383 ("Change nth and clear caches") |
| MCScanSync.cfg | MCScan | during a reload-sync snapshotRevision is not advanced (core.go:406), so that for a query searched for earlier in the same reload the merger of the old fields is shown until the reload ends (matcher.go:102-106) |
| MCPipelineLastReload.cfg | MCPipeline | a key typed right after a reload replaces the pending EvtSearchNew with the command (util/eventbox.go:41, terminal.go:5781): the reload is lost, against ADVANCED.md:190-192 |
| MCPipelineFresh.cfg | MCPipeline | prevCount survives a change of revision (matcher.go:102-112): a later snapshot of the new command can be answered with the result of an earlier one, against CHANGELOG.md:153 |
| MCPipelineLoad.cfg | MCPipeline | load is announced for a list that is not final (terminal.go:1450), against man/man1/fzf.1:1421 |
| MCLocksBindings.cfg | Locks | with the loop running, too: eventChan fills up while its only receiver waits for the mutex of the sender (terminal.go:1488) |
| MCPromptChange.cfg | MCPrompt | a key that deletes a character and puts another writes into the array of previousInput; the query changes, but no search is made and change is not triggered (terminal.go:5736), against man/man1/fzf.1:1446 |
| MCPreviewStale.cfg | MCPreview | lines drawn early under the version of the next command are taken for those of that command, and never drawn again (terminal.go:3446; comments at terminal.go:1717 and 4749) |
| MCSessionOne.cfg | MCSession | one is sent for a list that was searched before the input was complete (terminal.go:1471-1486), against man/man1/fzf.1:1473 |

Some are exceptions that a property of a passing run spells out, or definitions
that no run checks because they do not hold:

- `Prompt!SizePosted`: only without a binding of backward-eof, whose actions edit
  the query after it was compared (terminal.go:5740): with backward-eof:put a
  backspace on an empty query leaves a query that is not searched.
- `Scan!NthKept` (as INVARIANT of MCScan.cfg): a key that edits the query right
  after change-nth replaces its event (util/eventbox.go:41), and the search keeps
  the old fields (core.go:382), while the terminal colors by the new ones and
  exports them as the "Current --nth option" (man/man1/fzf.1:1215).
- `Match!Optimal`: FuzzyMatchV2 "guarantees ... optimal score" (algo.go:24-27)
  up to the greedy choice of consecutive matches: pattern `aab` in `aa_aab`.
- `Match!FuzzyExact`: the second loop of FuzzyMatchV1 does not normalize
  (algo.go:760-779), although the first does. "aáb" is matched by `ab` as a whole,
  where algo.go:9-11 promises "a shorter substring that matches the pattern".
  Backward (`--tiebreak=end`, `--scheme=path`) the window can then end behind the last
  character, and calculateScore reads the pattern behind its end (algo.go:674): a
  panic, for `ab` in "ább". It takes `--algo=v1`, or an item so long that
  FuzzyMatchV2 falls back to it (algo.go:448). FuzzyExact excepts both.
- Match: a boundary match read backward never finds a pattern of more than one
  character (the cause is in exactMatchNaive).
- `Rank!Pathname`: the last delimiter is a byte offset, the begin of a match a
  character offset (result.go:75-85); equal only for ASCII text, which is what
  the samples contain.
- `Tokens!RoundTrip`: RangesToString writes `-1..-2` as `-1`.
- `Ansi!ColorsExact`: a line that ends with a sequence, while a color is on,
  never ends its last span and so loses the color (ansi.go:308).
- `Server!ServerExact`: a header line that is torn between two reads is taken
  for the last token, and a valid request is answered 400 (server.go:155); a
  body that ends with CRLF makes the answer wait for the client to close, or for
  the read deadline; a body with a line longer than 64 K is refused as incomplete
  (400), since the scanner's buffer has no room for it, although `maxContentLength` is 1 MB.
- `Layout!Roomy`: on a screen too small for what is asked, a list with a border
  next to a preview above or below can be left without a line.
- `List!NoPanic`: offset-down at the end of the list, then a page up, asks the
  merger for item -1 (merger.go:137). `List!ClickExact`: a row that is not drawn
  again because it looks the same keeps the place its item had in an earlier
  list (terminal.go:2651-2666), and a click goes there
  (README.md:307). A double click on such a row can move the cursor without
  asking for anything to be drawn (terminal.go:5555): until the list is drawn
  the screen and the preview stay on another item, against man/man1/fzf.1:697.
  `ScreenExact` and `PreviewFresh` except what `undrawn` records.
- `Preview!NoPanic`: a window that is hidden and shown again has no lines; with
  cycle, scrolling it divides by zero (terminal.go:4646). `AlwaysStarted`: a
  preview that never ends is not killed when the cancellation found no receiver.
  `Discarded`: lines that arrive while the window is hidden are kept, although
  they are to be discarded "so that it won't accidentally appear" (terminal.go:4738);
  shown again with nothing to preview (terminal.go:4730-4736), the window is
  blank first, and has them as soon as it is resized. PreviewExact
  excepts the blank window.

## 5. Proofs

All theorems hold for every value of the constants (under the named
assumptions of the modules) and need no bound. Each is proved from an inductive
invariant that TLC checked first; the invariants and what makes them inductive:

- **PartsProofs** holds four parts that depend on no other. EventBox:
  `TypeCorrect`; `WakeupSafety`; `ImplementsMailbox`, which
  rests on the invariant that a woken consumer finds the map non-empty.
  Layout: `LayoutIsExact`, for every configuration (`IsConfiguration`), screen and
  pair of preview options, not only the samples on which MCAlgorithms checks
  LayoutExact. What there is
  room for is shared out so that the heights of input, header and header lines
  never exceed the area (`HeightsAre`). Without a preview, with one above or below
  and with one beside it, the list and its stack get one pane of the area
  (`PaneAlone`, `PaneAbove`, `PaneBeside`), and whatever the pane, the windows of
  the stack follow one another in it for either order of the three options
  (`StackIs`, `Placed`).
  Rank: `MergeIsExact`, the first half of RankExact for any matches, any number of
  slices and any calls.
  compareRanks is a strict total order of the matches of a scan (`Ordered`),
  hence a match is known by the number of those before it (`Fewer`). The
  slices of a scan, one after the other, are the scan (`SlicesAre`), so their
  sorted lists have every match once (`NewMergerIs`). While the merger reads
  them, what is merged comes before all that is unread (`Merging`): the best head
  is before every other unread match since its own list is sorted and each other head
  is before the rest of its list (`BestIs`, `StepIs`); something is left to read
  until all is merged (`LeftSome`). So item n of the merged has n - 1 others before
  it (`GetIs`), like item n of the sorted whole. Its one hypothesis is that a scan has
  no item twice and that all matches have as many points (`IsScan`), which TLC
  checks of the samples.
  Scan: `ScanTypeCorrect`; `FieldsAreExact`, for any number of chunks, any division
  among goroutines, any queries, fields and limits of the caches. The invariant
  `ScanInv` says where something of the old fields could be: patterns are of the
  current ones always (`PatternsFit`); and unless the change was overlapped the
  revision of the snapshot is the newest, so that mergers of an earlier one do not
  count (`MergersFit`), and the requests, the search, the results of chunks and the
  list are of the new fields (`Fitting`). `RevisionKnown` makes the next revision
  one that no request or merger has. A search that was given up leaves nothing
  behind, because another request is there to replace it (`GivenUp`); one that is
  collected has all chunks, because a count is received only after its chunk was
  done (`Counted`). TLC checked ScanInv on the instance of `scan` first.
- **ChunkListProofs**: `TypeCorrect`, with the cells a snapshot allocates;
  `FullInside`, because a cut replaces only the first chunk of what is left and
  a push only opens a chunk when the last one is full; `ImmutableSnapshots`: the
  last chunk of the list, the only one Push writes to, is in no snapshot (the
  invariant `LastIsPrivate`), and cells are allocated outside what is live.
  `SnapshotsExact`: the items of the list are the last of those pushed, in
  order, and Snapshot keeps a suffix of them; `PassViewsExact`: the chunk that
  Get and FindIndex compute is right because only end chunks are partial. Both
  reason about FlattenSeq, a recursive function, by induction over a set of
  numbers (WFMin of WellFoundedInduction, applied to a set instead of an operator).
- **PipelineProofs**: `TypeCorrect`; `ReadingIsExact`, from the invariant that
  EvtReadFin is in the box only when its reader is done and that a reader which
  waits for finChan has stored EvtReadFin, so that its poller can only return.
  `LastReloadIsRun`: as long as no key is typed, the newest reload is in the box,
  or pending in the coordinator, or running. `ImplementsFinder`: every step of
  Pipeline is a step of Finder or leaves the input and the list alone. UpdateList
  is the step that needs an invariant, `FlowInv`: the snapshot is never ahead of the input, and is
  all of it once `reading` is false (`SnapshotSound`); the same for every request
  and result there is, those in the boxes and the cache included (`AllSound`);
  from the snapshot over the requests and the result to the list, generations
  only get older (`InOrder`); the matcher's cache and result are of the
  revision of its request (`SameRevision`), so that a cached result cannot
  overtake. `SyncIsAtomic` adds `SyncInv`: from the moment a reload-sync is
  asked for, `useSnapshot` keeps the snapshot frozen until its input has ended,
  so all requests and results of its generation are final.
- **LocksProofs**: `LocksTyped`; `NoLockCircle`. The mutexes are ranked; the
  invariant `Ordered` says that a thread waits only for a mutex of a higher rank
  than those it holds. It is kept because of what each thread still has to do:
  the program of every thread goes on along one of a few paths.
- **SessionProofs**: `ItLeavesExactly`, `ItsHeightIsExact`, `ItExitsExactly`, from
  `SessionInv`: a list that is called final was made from the whole input
  (`WholeInput`), the height that is sent is that of the input or all that fits
  (`Heights`), the loop runs only after the screen was set up (`Started`), and
  what was asked for first decides how the render loop ends (`Quits`, `Prints`).
- **PromptProofs**: `PromptIsLine`, the refinement of Line. Its invariant,
  `Memory`, has every slice inside its array and the query in another array than
  the yank buffer; nothing is said of previousInput, which does share the array
  of the query. Each action is a chain of appends, and `AppendShows` is the
  lemma all of them rest on: an append makes the text of its slice longer and
  changes neither the yank buffer nor the length of previousInput, as long as
  what it appends was copied before. `SizeIsPosted` uses just this: the text of
  previousInput may change before it is compared, its length cannot (`Sized`).
  `FileChangesExactly` and `HistoryEditsStay`: until a session is over, its lines
  are those of the file and one more, and only the last is edited in place.
  `PromptTyped` follows from the same invariant.
- **PreviewProofs**: `PreviewIsExact`. What printPreview leaves undrawn is right
  because of three facts. Outputs reach the window in order (`Running`,
  `Ordered`): what is shown is of an earlier command than what waits to be drawn
  and what the command has put out, or, with the same version, the beginning of
  it. When the version drawn is not 0, `previewed` tells the truth about the
  lines on the screen (`Matches`), so that a window that was filled, or a result
  of the same length, needs no drawing. And after the window was made again
  nothing is right until something is drawn, but then output is on its way
  (`Outstanding`), whose version is not 0; or it was shown with nothing to preview,
  and stays blank until something is drawn (`Bare`, with `unasked`). Lines of
  another version, `alias`, break the second fact. The theorem excepts both as
  PreviewExact does.

- **ListProofs**: `ListTypeCorrect`; `ScreenIsExact`. printItem may leave rows
  alone because of the invariant `WellDrawn`: where the first row of an item is on
  the screen, its other rows and the gap follow. It is kept while the list is
  drawn because what is above the line that is drawn next is complete
  (`Closed`); by the same argument a drawing over old rows and one over an empty
  window look alike line by line (`PrintListSame`). Everything else that changes
  the list, the cursor, the selection or the labels asks for it to be drawn
  (`Quiet`). `PreviewIsFresh`: as long as the version is unchanged, the
  focus is the index of the item that was previewed, of the same load, and the
  selection is the one it was previewed with; and the cursor is in the list, so
  that drawing does not move it (`Previewed`). `TrackingKeeps`: FindIndex is
  right for every list there can be (`FindIndexRight`), and constrain never moves
  a cursor that is in the list, however it moves the window
  (`ConstrainToTyped`). `TailIsExact`: the indices kept are those of the new list,
  which is full. `CursorIsShown` is about the search of constrain, which changes
  the offset at most once for each line of the window; nothing in the code says
  that this is enough. With P[k] the lines of the first k items (`IsSum`), the
  loop that counts the items that fit counts them (`FitExact`), so the bounds of
  the offset say which offsets hide the cursor or waste rows (`FrameRight`), and
  the two loops of --scroll-off end where the margins are even or at a bound,
  without hiding the cursor (`NudgesSettle`, `ScrolledSettles`). Then an offset
  with nothing left to do (`Calm`) stays so, and a round that begins with
  another one ends with such an offset or with a greater one (`RoundCalms`). As
  no offset is more than the height before the cursor after the first round, the
  last round ends with one (`Nearing`, `ConstrainToShows`). `ShownRows` is what
  printList then draws. The loops of the code are folds here (`Repeated`, a recursive
  function); `ChainExists` says that they have values, and `ChainStays` that what
  every round keeps holds in the end.

Only model-checked: everything under fairness (WatchedIsConsumed, WaitForReturns,
ReloadStarts, LoadFires, CompleteUnlessBoth, LastStarted, GetsActive), which the
prover does not do; and, of the functions, MatchExact, QueryExact, TokenExact,
AnsiExact and ServerExact, whose modules are built of RECURSIVE operators, and
the second half of RankExact (the criteria), which holds of texts short enough
that no 16-bit point saturates and no two quotients of the criterion end round to
the same number, as the samples are.

## 6. Not modelled

In fzf: options (`options.go` parses flags into a record), the screen drivers
(`tui/`), the tmux popup and the proxies (I/O), the templates of commands
(replacePlaceholder), the text and the colors of a row (wrapping, tabs, labels),
images in the preview, the file walker. Inside the modelled parts: toggle-sort,
exclude and `--disabled`; the progress events of a scan; in Scan the end of a
reload and items that arrive (Pipeline has them, with a scan as one result);
execute and become except for the locks they release.
The keyboard goroutine and its barrier (terminal.go:4563) are part of Session
only as keys that arrive between two rounds of the loop. Outside fzf: the
settings and scripts named at the top.

## 7. Plan

1. done: EventBox and Mailbox, ChunkList, Pipeline and Finder, Locks, with the
   theorems above.
2. done: Prompt and Line, List, Preview, Session, and the functions: Match,
   Query, Rank, Tokens, Layout, Ansi, Server.
3. done: the proofs of Locks, Session, Prompt, Preview and List, and what was left
   of ChunkList and Pipeline.
4. done: the theorems about Layout and about the merge of Rank.
5. done: change-nth with the caches and a scan in one module, and its theorem.
6. Open: the end of a reload in Scan, and what is left out above.
