------------------------------ MODULE ChunkList ------------------------------
(***************************************************************************)
(* The list of input items (chunklist.go) with the snapshots taken of it,  *)
(* the view that reads a snapshot (Merger in pass mode, merger.go) and     *)
(* which chunks the result cache refers to (cache.go).                     *)
(*                                                                         *)
(* A chunk is shared by pointer between the list, any number of snapshots  *)
(* and the cache, and only the list takes ChunkList.mutex: whatever reads  *)
(* a snapshot relies on no chunk it can reach being written again.  So the *)
(* chunks are cells of a heap, and the ones nothing refers to are          *)
(* collected.  An item is its index (item.text.Index).                     *)
(***************************************************************************)
EXTENDS Integers, Sequences, SequencesExt, FiniteSetsExt, Functions

CONSTANTS
    Cells,        \* addresses of chunks
    Holders,      \* who keeps a snapshot: the coordinator, the terminal's list
    ChunkSize,    \* chunkSize
    HeaderLines,  \* opts.HeaderLines: so many first lines are no items
    TailSize,     \* opts.Tail: items to keep, 0 for all
    MaxItems,     \* bound on the items of one generation of the list
    MaxCached     \* bound on the chunks with cached results

ASSUME SizeAssumption ==
    /\ ChunkSize \in Nat \ {0}
    /\ HeaderLines \in Nat /\ TailSize \in Nat /\ MaxItems \in Nat

VARIABLES
    heap,       \* heap[c]: the items of chunk c (items[:count])
    chunks,     \* ChunkList.chunks
    headers,    \* length of the header slice of core.go
    itemIndex,  \* core.go's itemIndex: the index of the next item
    held,       \* held[o]: o's snapshot, and itemIndex when it was taken
    cached      \* the chunks with an entry in ChunkCache.cache

vars == <<heap, chunks, headers, itemIndex, held, cached>>

HeldCells == UNION {Range(held[o].chunks) : o \in Holders}

\* What the garbage collector must keep.
Live == Range(chunks) \cup HeldCells \cup cached

\* A cell to allocate while those of used are taken.  Cells are
\* interchangeable, so one candidate is enough.
Alloc(used) ==
    IF Cells \subseteq used THEN {} ELSE {CHOOSE c \in Cells : c \notin used}

\* After a step: heap h without the cells that have become unreachable.
Collected(h) == [c \in Cells |-> IF c \in Live' THEN h[c] ELSE <<>>]

IsFull(c) == Len(heap[c]) = ChunkSize

\* CountItems: only the first and the last chunk may be partly filled.
CountItems(cs) ==
    CASE Len(cs) = 0 -> 0
      [] Len(cs) = 1 -> Len(heap[cs[1]])
      [] OTHER -> Len(heap[cs[1]]) + ChunkSize * (Len(cs) - 2) + Len(heap[cs[Len(cs)]])

\* All items of a list of chunks, in order.
Items(cs) == FlattenSeq([i \in DOMAIN cs |-> heap[cs[i]]])

TypeOK ==
    /\ heap \in [Cells -> Seq(Nat)]
    /\ chunks \in Seq(Cells)
    /\ headers \in 0..HeaderLines
    /\ itemIndex \in Nat
    /\ held \in [Holders -> [chunks : Seq(Cells), until : Nat]]
    /\ cached \in SUBSET Cells

Init ==
    /\ heap = [c \in Cells |-> <<>>]
    /\ chunks = <<>>
    /\ headers = 0 /\ itemIndex = 0
    /\ held = [o \in Holders |-> [chunks |-> <<>>, until |-> 0]]
    /\ cached = {}

(***************************************************************************)
(* Push                                                                    *)
(***************************************************************************)

\* (Variant: a chunk counts as full one item early.)
NeedsChunkEarly ==
    chunks = <<>> \/ Len(heap[chunks[Len(chunks)]]) >= ChunkSize - 1

NeedsChunk == chunks = <<>> \/ IsFull(chunks[Len(chunks)])

\* Where Push puts the next line: a new chunk, or the last one.
Targets == IF NeedsChunk THEN Alloc(Live) ELSE {chunks[Len(chunks)]}

WithTarget(c) == IF NeedsChunk THEN Append(chunks, c) ELSE chunks

\* What the target holds before the push.
Before(c) == IF NeedsChunk THEN <<>> ELSE heap[c]

\* Push, the item builder keeping the line for the header (core.go:101-105):
\* a chunk made for it stays, empty.
PushHeader ==
    /\ headers < HeaderLines
    /\ headers' = headers + 1
    /\ \E c \in Targets :
        /\ chunks' = WithTarget(c)
        /\ heap' = [heap EXCEPT ![c] = Before(c)]
    /\ UNCHANGED <<itemIndex, held, cached>>

\* Push, the line becoming an item (core.go:106-109).
PushItem ==
    /\ headers = HeaderLines
    /\ itemIndex < MaxItems
    /\ itemIndex' = itemIndex + 1
    /\ \E c \in Targets :
        /\ chunks' = WithTarget(c)
        /\ heap' = [heap EXCEPT ![c] = Append(Before(c), itemIndex)]
    /\ UNCHANGED <<headers, held, cached>>

\* The restart closure of the coordinator (core.go:304-309): the next reader
\* starts on an empty list.  The old chunks live on in the snapshots.
Clear ==
    /\ chunks' = <<>>
    /\ headers' = 0 /\ itemIndex' = 0
    /\ UNCHANGED <<held, cached>>
    /\ heap' = Collected(heap)

(***************************************************************************)
(* Snapshot                                                                *)
(***************************************************************************)

\* Snapshot drops items, and reports the list as changed.
Trims == TailSize > 0 /\ CountItems(chunks) > TailSize

From(i) == SubSeq(chunks, i, Len(chunks))

\* The first chunk to keep is the latest from which Tail items are left.
\* (The code adds up the counts from the end; by CountExact CountItems gives
\* the same for every suffix of the list.)
FirstKept(i) ==
    IF Trims
    THEN /\ i \in DOMAIN chunks
         /\ i = 1 \/ CountItems(From(i)) >= TailSize
         /\ \A j \in i+1..Len(chunks)+1 : CountItems(From(j)) < TailSize
    ELSE i = 1

\* (Variant: one item too many stays.)
RoomOffByOne(i) == TailSize - CountItems(From(i + 1)) + 1

\* The items that may stay in chunk i, the first one kept.
Room(i) == TailSize - CountItems(From(i + 1))

IsCut(i) == Trims /\ Len(heap[chunks[i]]) > Room(i)

Newest(s, n) == SubSeq(s, Len(s) - n + 1, Len(s))

\* The list that stays when i is the first chunk kept: if some of its items
\* go, it is replaced by a chunk c with the newest of them, since snapshots
\* may share it.
Remaining(i, c) == IF IsCut(i) THEN <<c>> \o From(i + 1) ELSE From(i)

CutHeap(i, c) ==
    IF IsCut(i) THEN [heap EXCEPT ![c] = Newest(heap[chunks[i]], Room(i))] ELSE heap

\* (Variant: the snapshot shares all its chunks with the list.)
Undup(cs, f, l) == cs

\* The snapshot of cs: its last chunk is replaced by the copy l and, with
\* Tail set, its first by the copy f.
Dup(cs, f, l) ==
    IF cs = <<>> THEN <<>>
    ELSE IF TailSize > 0 /\ Len(cs) > 1
         THEN [cs EXCEPT ![1] = f, ![Len(cs)] = l]
         ELSE [cs EXCEPT ![Len(cs)] = l]

DupHeap(h, cs, f, l) ==
    IF cs = <<>> THEN h
    ELSE [h EXCEPT ![f] = h[cs[1]], ![l] = h[cs[Len(cs)]]]

\* Snapshot(opts.Tail) for holder o, who drops the snapshot it had.  What is
\* cut off is retired from the cache.
Snapshot(o) ==
    \E i \in 1..Len(chunks)+1, c \in Alloc(Live) :
    \E f \in Alloc(Live \cup {c}) : \E l \in Alloc(Live \cup {c, f}) :
        /\ FirstKept(i)
        /\ LET cs == Remaining(i, c) IN
           /\ chunks' = cs
           /\ cached' = cached \ (Range(chunks) \ Range(cs))
           /\ held' = [held EXCEPT ![o] = [chunks |-> Dup(cs, f, l), until |-> itemIndex]]
           /\ UNCHANGED <<headers, itemIndex>>
           /\ heap' = Collected(DupHeap(CutHeap(i, c), cs, f, l))

(***************************************************************************)
(* The result cache                                                        *)
(***************************************************************************)

\* Add: the matcher has searched chunk c of o's snapshot.
CacheAdd(o, c) ==
    /\ c \in Range(held[o].chunks)
    /\ IsFull(c)
    /\ Cardinality(cached \cup {c}) <= MaxCached
    /\ cached' = cached \cup {c}
    /\ UNCHANGED <<heap, chunks, headers, itemIndex, held>>

\* ChunkCache.Clear, when change-nth makes the results obsolete (core.go:387).
CacheClear ==
    /\ cached' = {}
    /\ UNCHANGED <<chunks, headers, itemIndex, held>>
    /\ heap' = Collected(heap)

Next ==
    \/ PushHeader \/ PushItem \/ Clear \/ CacheClear
    \/ \E o \in Holders : Snapshot(o) \/ \E c \in Cells : CacheAdd(o, c)

Spec == Init /\ [][Next]_vars

(***************************************************************************)
(* The view of a snapshot: PassMerger                                      *)
(***************************************************************************)

\* Get(idx), idx from 0.
Get(cs, tac, idx) ==
    LET i     == IF tac THEN CountItems(cs) - idx - 1 ELSE idx
        first == Len(heap[cs[1]])
    IN  IF first < ChunkSize /\ i >= first
        THEN heap[cs[((i - first) \div ChunkSize) + 2]][((i - first) % ChunkSize) + 1]
        ELSE heap[cs[(i \div ChunkSize) + 1]][(i % ChunkSize) + 1]

\* (Variant: tac is counted from one past the end.)
FindIndexOffByOne(cs, tac, item) ==
    LET i == item - heap[cs[1]][1]
    IN  IF tac THEN CountItems(cs) - i ELSE i

\* FindIndex(item): minIndex is the index of the snapshot's first item.
FindIndex(cs, tac, item) ==
    LET i == item - heap[cs[1]][1]
    IN  IF tac THEN CountItems(cs) - i - 1 ELSE i

(***************************************************************************)
(* Properties                                                              *)
(***************************************************************************)

\* Only the first and the last chunk of the list or of a snapshot are partly
\* filled: what CountItems and Get rely on (chunklist.go:57, merger.go:113).
OnlyEndsPartial ==
    /\ \A i \in 2..Len(chunks)-1 : IsFull(chunks[i])
    /\ \A o \in Holders :
            \A i \in 2..Len(held[o].chunks)-1 : IsFull(held[o].chunks[i])

\* CountItems is the number of items, for every snapshot and every suffix of
\* the list (chunklist.go:49-59; --tail adds up the same counts at 88-93).
CountExact ==
    \A cs \in {From(i) : i \in 1..Len(chunks)+1} \cup {held[o].chunks : o \in Holders} :
        CountItems(cs) = Len(Items(cs))

\* At any later time, whatever has been pushed, cut or cleared since, a
\* snapshot reads as the last Tail items there were when it was taken, in
\* order ("Snapshot returns immutable snapshot of the ChunkList",
\* chunklist.go:81).
SnapshotExact ==
    \A o \in Holders :
        LET n    == held[o].until
            kept == IF TailSize > 0 /\ n > TailSize THEN TailSize ELSE n
        IN  Items(held[o].chunks) = [k \in 1..kept |-> n - kept + k - 1]

\* No step writes to a chunk that a snapshot holds (chunklist.go:101-130).
SnapshotStable ==
    [][\A o \in Holders : held'[o] = held[o] =>
            \A c \in Range(held[o].chunks) : heap'[c] = heap[c]]_vars

\* The list a PassMerger shows is the snapshot, reversed by --tac, and
\* FindIndex is where an item is shown (merger.go:88-121).
PassViewExact ==
    \A o \in Holders, tac \in BOOLEAN :
        LET cs == held[o].chunks
            s  == Items(cs)
        IN  \A k \in 1..Len(s) :
                /\ Get(cs, tac, k - 1) = IF tac THEN s[Len(s) - k + 1] ELSE s[k]
                /\ FindIndex(cs, tac, Get(cs, tac, k - 1)) = k - 1

=============================================================================
