--------------------------- MODULE ChunkListProofs ---------------------------
(***************************************************************************)
(* Why readers of a snapshot need no lock, for any chunk size, any --tail, *)
(* any number of header lines and of snapshots: the only chunk Push writes *)
(* is the last one of the list, and no snapshot ever holds that one.       *)
(* And what they read: the items of a list are consecutive numbers that,   *)
(* counted from the end, have no gap (Content), so a snapshot is the newest *)
(* items there were, and the merger's arithmetic finds each of them.       *)
(***************************************************************************)
EXTENDS ChunkList, SequenceTheorems, WellFoundedInduction, TLAPS

\* No chunk is overfull.
Small == \A c \in Cells : Len(heap[c]) <= ChunkSize

\* The list has no chunk twice.
Distinct == \A i, j \in 1..Len(chunks) : chunks[i] = chunks[j] => i = j

\* The chunk the next push may write to belongs to the list alone.
LastPrivate == chunks # <<>> => chunks[Len(chunks)] \notin HeldCells

Inv == TypeOK /\ Small /\ OnlyEndsPartial /\ Distinct /\ LastPrivate

\* Allocation yields a cell that was not taken.
LEMMA AllocFresh ==
  ASSUME NEW used, NEW c \in Alloc(used)
  PROVE  c \in Cells /\ c \notin used
  BY DEF Alloc

\* Chunks of the list and of the snapshots are cells in use.
LEMMA LiveCells ==
  ASSUME TypeOK
  PROVE  /\ \A k \in 1..Len(chunks) : chunks[k] \in Live /\ chunks[k] \in Cells
         /\ \A o \in Holders : \A k \in 1..Len(held[o].chunks) :
                held[o].chunks[k] \in HeldCells /\ held[o].chunks[k] \in Live
         /\ HeldCells \subseteq Live
  BY DEF TypeOK, Live, HeldCells, Range

LEMMA InitInv == Init => Inv
  BY SizeAssumption
  DEF Init, Inv, TypeOK, Small, OnlyEndsPartial, Distinct, LastPrivate, IsFull

\* What both kinds of push have in common: line is what they append.
LEMMA PushInv ==
  ASSUME Inv, NEW c \in Targets, NEW line \in {<<>>, <<itemIndex>>},
         chunks' = WithTarget(c),
         heap' = [heap EXCEPT ![c] = Before(c) \o line],
         UNCHANGED held
  PROVE  /\ chunks' \in Seq(Cells)
         /\ heap' \in [Cells -> Seq(Nat)]
         /\ Small' /\ OnlyEndsPartial' /\ Distinct' /\ LastPrivate'
         /\ \A x \in HeldCells : heap'[x] = heap[x]
<1> USE SizeAssumption DEF Inv
<1> DEFINE n == Len(chunks)
<1>1. n \in Nat /\ chunks \in Seq(Cells)
  BY DEF TypeOK
<1>2. c \in Cells /\ c \notin HeldCells
  <2>1. CASE NeedsChunk
    BY <2>1, AllocFresh, LiveCells DEF Targets
  <2>2. CASE ~NeedsChunk
    BY <2>2, <1>1 DEF Targets, NeedsChunk, LastPrivate
  <2> QED
    BY <2>1, <2>2
<1>3. \A x \in Cells : x # c => heap'[x] = heap[x]
  BY <1>2 DEF TypeOK
<1>4. \A x \in HeldCells : heap'[x] = heap[x]
  BY <1>2, <1>3 DEF TypeOK, HeldCells, Range
<1>5. Before(c) \in Seq(Nat) /\ Len(Before(c)) < ChunkSize
  <2>1. CASE NeedsChunk
    BY <2>1 DEF Before
  <2>2. CASE ~NeedsChunk
    <3>1. c = chunks[n] /\ Len(heap[c]) # ChunkSize
      BY <2>2 DEF Targets, NeedsChunk, IsFull
    <3> QED
      BY <3>1, <2>2, <1>2 DEF Before, Small, TypeOK
  <2> QED
    BY <2>1, <2>2
<1>6. /\ heap' \in [Cells -> Seq(Nat)]
      /\ heap'[c] = Before(c) \o line /\ Len(heap'[c]) <= ChunkSize
  <2>1. line \in Seq(Nat) /\ Len(line) <= 1
    <3>1. itemIndex \in Nat
      BY DEF TypeOK
    <3>2. CASE line = <<>>
      BY <3>2
    <3>3. CASE line = <<itemIndex>>
      BY <3>1, <3>3
    <3> QED
      BY <3>2, <3>3
  <2>2. Before(c) \o line \in Seq(Nat) /\ Len(Before(c) \o line) = Len(Before(c)) + Len(line)
    BY <1>5, <2>1
  <2>3. heap'[c] = Before(c) \o line
    BY <1>2 DEF TypeOK
  <2>4. heap' \in [Cells -> Seq(Nat)]
    BY <1>2, <2>2 DEF TypeOK
  <2> QED
    BY <1>5, <2>1, <2>2, <2>3, <2>4
<1>7. Small'
  BY <1>3, <1>6 DEF Small
<1>10. \A o \in Holders : \A k \in 2..Len(held[o].chunks)-1 :
          Len(heap'[held[o].chunks[k]]) = ChunkSize
  <2> SUFFICES ASSUME NEW o \in Holders, NEW k \in 2..Len(held[o].chunks)-1
               PROVE  Len(heap'[held[o].chunks[k]]) = ChunkSize
    OBVIOUS
  <2>1. held[o].chunks \in Seq(Cells)
    BY DEF TypeOK
  <2>2. k \in 1..Len(held[o].chunks)
    BY <2>1
  <2>3. heap'[held[o].chunks[k]] = heap[held[o].chunks[k]]
    BY <1>4, <2>2, LiveCells
  <2> QED
    BY <2>3 DEF OnlyEndsPartial, IsFull
<1>8. CASE NeedsChunk
  <2>1. /\ chunks' = Append(chunks, c) /\ chunks' \in Seq(Cells)
        /\ Len(chunks') = n + 1 /\ chunks'[n + 1] = c
        /\ \A k \in 1..n : chunks'[k] = chunks[k]
    BY <1>8, <1>1, <1>2 DEF WithTarget
  <2>2. \A k \in 1..n : chunks[k] # c /\ chunks[k] \in Cells
    BY <1>8, AllocFresh, LiveCells DEF Targets
  <2>3. \A k \in 2..n : Len(heap[chunks[k]]) = ChunkSize
    <3>1. n # 0 => Len(heap[chunks[n]]) = ChunkSize
      BY <1>8, <1>1 DEF NeedsChunk, IsFull
    <3>2. \A k \in 2..n-1 : Len(heap[chunks[k]]) = ChunkSize
      BY DEF OnlyEndsPartial, IsFull
    <3> QED
      BY <1>1, <3>1, <3>2
  <2>4. \A k \in 2..Len(chunks')-1 : Len(heap'[chunks'[k]]) = ChunkSize
    BY <1>1, <1>3, <2>1, <2>2, <2>3
  <2>5. OnlyEndsPartial'
    BY <1>10, <2>4 DEF OnlyEndsPartial, IsFull
  <2>6. Distinct'
    BY <1>1, <2>1, <2>2 DEF Distinct
  <2>7. LastPrivate'
    BY <1>1, <1>2, <2>1 DEF LastPrivate, HeldCells
  <2> QED
    BY <1>4, <1>6, <1>7, <2>1, <2>5, <2>6, <2>7
<1>9. CASE ~NeedsChunk
  <2>1. chunks' = chunks /\ c = chunks[n] /\ n # 0
    BY <1>9, <1>1 DEF WithTarget, Targets, NeedsChunk
  <2>2. \A k \in 2..n-1 : Len(heap'[chunks[k]]) = ChunkSize
    BY <1>1, <1>3, <2>1, LiveCells DEF OnlyEndsPartial, IsFull, Distinct
  <2>4. OnlyEndsPartial'
    BY <1>10, <2>1, <2>2 DEF OnlyEndsPartial, IsFull
  <2>5. Distinct' /\ LastPrivate'
    BY <2>1 DEF Distinct, LastPrivate, HeldCells
  <2> QED
    BY <1>1, <1>4, <1>6, <1>7, <2>1, <2>4, <2>5
<1> QED
  BY <1>8, <1>9

\* cs and H are what is left of the list from its i-th chunk on, and the heap
\* it is in: the chunk may have been replaced by c with the newest of its
\* items.
CutOf(cs, H, i, c) ==
    /\ Len(chunks) \in Nat
    /\ cs \in Seq(Cells) /\ Len(cs) = Len(chunks) - i + 1
    /\ \A k \in 2..Len(cs) : cs[k] = chunks[i + k - 1] /\ i + k - 1 \in 2..Len(chunks)
    /\ H \in [Cells -> Seq(Nat)]
    /\ \A x \in Cells : x # c => H[x] = heap[x]
    /\ IsCut(i) => /\ i \in 1..Len(chunks) /\ Len(cs) >= 1 /\ cs[1] = c
                   /\ Room(i) \in Int /\ Room(i) >= 1 /\ Room(i) < Len(heap[chunks[i]])
                   /\ Len(H[c]) = Room(i)
                   /\ \A p \in 1..Room(i) :
                         H[c][p] = heap[chunks[i]][Len(heap[chunks[i]]) - Room(i) + p]
    /\ ~IsCut(i) => /\ H = heap /\ cs = From(i)
                    /\ \A k \in 1..Len(cs) : cs[k] = chunks[i + k - 1]

\* Cutting the list leaves that.
LEMMA CutShape ==
  ASSUME Inv, NEW i \in 1..Len(chunks)+1, FirstKept(i),
         NEW c \in Alloc(Live), NEW cs, cs = Remaining(i, c), NEW H, H = CutHeap(i, c)
  PROVE  CutOf(cs, H, i, c)
<1> USE SizeAssumption DEF Inv
<1> DEFINE n == Len(chunks)
<1>1. n \in Nat /\ chunks \in Seq(Cells)
  BY DEF TypeOK
<1>2. c \in Cells /\ c \notin Live
  BY AllocFresh
<1>3. \A j \in 1..n+1 : /\ From(j) \in Seq(Cells)
                        /\ Len(From(j)) = n - j + 1
                        /\ \A k \in 1..n-j+1 : From(j)[k] = chunks[j + k - 1]
  BY <1>1 DEF From
<1>4. \A k \in 1..n : chunks[k] \in Cells
  BY <1>1
<1>8. CASE ~IsCut(i)
  <2>1. cs = From(i) /\ H = heap
    BY <1>8 DEF Remaining, CutHeap
  <2>2. Len(cs) = n - i + 1 /\ cs \in Seq(Cells)
    BY <1>3, <2>1
  <2>3. ASSUME NEW k \in 1..Len(cs)
        PROVE  cs[k] = chunks[i + k - 1]
    <3>1. i \in 1..n+1 /\ k \in 1..n-i+1
      BY <2>2
    <3> QED
      BY <1>3, <2>1, <3>1
  <2>4. \A k \in 2..Len(cs) : k \in 1..Len(cs) /\ i + k - 1 \in 2..n
    BY <1>1, <2>2
  <2> QED
    BY <1>1, <1>8, <2>1, <2>2, <2>3, <2>4 DEF TypeOK, CutOf
<1>9. CASE IsCut(i)
  <2>1. i \in 1..n
    BY <1>1, <1>9 DEF IsCut, FirstKept
  <2>2. cs = <<c>> \o From(i + 1)
    BY <1>9 DEF Remaining
  <2> DEFINE r == From(i + 1)
  <2>20. i + 1 \in 1..n+1
    BY <1>1, <2>1
  <2>21. /\ r \in Seq(Cells) /\ Len(r) = n - i
         /\ \A k \in 1..n-i : r[k] = chunks[i + k]
    <3>1. /\ r \in Seq(Cells) /\ Len(r) = n - (i + 1) + 1
          /\ \A k \in 1..n-(i + 1)+1 : r[k] = chunks[(i + 1) + k - 1]
      BY <1>3, <2>20
    <3> QED
      BY <1>1, <2>1, <3>1
  <2> HIDE DEF r
  <2>3. /\ Len(cs) = n - i + 1 /\ cs \in Seq(Cells) /\ cs[1] = c
        /\ \A k \in 2..n-i+1 : cs[k] = r[k - 1]
    <3>1. <<c>> \in Seq(Cells) /\ Len(<<c>>) = 1 /\ <<c>>[1] = c
      BY <1>2
    <3>2. cs = <<c>> \o r
      BY <2>2 DEF r
    <3> HIDE DEF n
    <3>3. cs \in Seq(Cells) /\ Len(cs) = 1 + Len(r)
      BY <2>21, <3>1, <3>2
    <3>4. Len(r) \in Nat /\ n \in Nat /\ i \in Nat
      BY <1>1, <2>1, <2>21
    <3>5. ASSUME NEW k \in 1..1 + Len(r)
          PROVE  cs[k] = IF k <= 1 THEN <<c>>[k] ELSE r[k - 1]
      BY <2>21, <3>1, <3>2
    <3>6. cs[1] = c
      BY <3>1, <3>4, <3>5
    <3>7. \A k \in 2..n-i+1 : cs[k] = r[k - 1]
      BY <2>21, <3>4, <3>5
    <3> QED
      BY <2>21, <3>3, <3>4, <3>6, <3>7
  <2>4. ASSUME NEW k \in 2..Len(cs)
        PROVE  cs[k] = chunks[i + k - 1] /\ i + k - 1 \in 2..n
    <3>1. k \in 2..n-i+1 /\ k - 1 \in 1..n-i
      BY <1>1, <2>1, <2>3
    <3>2. cs[k] = r[k - 1]
      BY <2>3, <3>1
    <3>3. r[k - 1] = chunks[i + (k - 1)]
      BY <2>21, <3>1
    <3>4. i + (k - 1) = i + k - 1
      BY <1>1, <2>1, <3>1
    <3> QED
      BY <1>1, <2>1, <3>1, <3>2, <3>3, <3>4
  <2> DEFINE s == heap[chunks[i]]
             m == Room(i)
             w == Newest(s, m)
  <2>5. s \in Seq(Nat) /\ Len(s) \in Nat
    BY <1>4, <2>1 DEF TypeOK
  <2>6. m \in Int /\ m >= 1 /\ m < Len(s)
    <3>2. CountItems(From(i + 1)) < TailSize
      BY <1>1, <1>9, <2>1 DEF IsCut, FirstKept
    <3>3. CountItems(From(i + 1)) \in Int
      <4>1. \A k \in 1..Len(From(i + 1)) : Len(heap[From(i + 1)[k]]) \in Nat
        BY <1>1, <1>3, <1>4, <2>1 DEF TypeOK
      <4>2. Len(From(i + 1)) \in Nat
        BY <1>1, <1>3, <2>1
      <4> QED
        BY <4>1, <4>2 DEF CountItems
    <3> QED
      BY <1>9, <3>2, <3>3 DEF Room, IsCut
  <2>7. /\ w \in Seq(Nat) /\ Len(w) = m
        /\ \A p \in 1..m : w[p] = s[Len(s) - m + p]
    <3> HIDE DEF s, m
    <3> DEFINE b == Len(s) - m + 1
    <3>1. b \in 1..Len(s)+1 /\ Len(s) - b + 1 = m
      BY <2>5, <2>6
    <3>2. w = SubSeq(s, b, Len(s))
      BY DEF Newest
    <3> HIDE DEF b, w
    <3>3. /\ w \in Seq(Nat) /\ Len(w) = Len(s) - b + 1
          /\ \A p \in 1..Len(s) - b + 1 : w[p] = s[b + p - 1]
      BY <2>5, <3>1, <3>2
    <3>4. \A p \in 1..m : b + p - 1 = Len(s) - m + p
      BY <2>5, <2>6 DEF b
    <3> QED
      BY <3>1, <3>3, <3>4
  <2>8. /\ H \in [Cells -> Seq(Nat)]
        /\ \A x \in Cells : x # c => H[x] = heap[x]
        /\ H[c] = w
    BY <1>2, <1>9, <2>7 DEF CutHeap, TypeOK
  <2>9. Len(cs) >= 1
    BY <1>1, <2>1, <2>3
  <2> QED
    BY <1>1, <1>9, <2>1, <2>3, <2>4, <2>6, <2>7, <2>8, <2>9 DEF CutOf
<1> QED
  BY <1>8, <1>9

\* A cut list: cs starts with a private chunk, or is the rest of the list.
LEMMA CutFacts ==
  ASSUME Inv, NEW i \in 1..Len(chunks)+1, FirstKept(i),
         NEW c \in Alloc(Live), NEW cs, cs = Remaining(i, c), NEW H, H = CutHeap(i, c)
  PROVE  /\ cs \in Seq(Cells)
         /\ H \in [Cells -> Seq(Nat)]
         /\ \A x \in Cells : x # c => H[x] = heap[x]
         /\ \A x \in Cells : Len(H[x]) <= ChunkSize
         /\ \A k \in 1..Len(cs) : cs[k] = c \/ cs[k] \in Range(chunks)
         /\ \A j, k \in 1..Len(cs) : cs[j] = cs[k] => j = k
         /\ \A k \in 2..Len(cs)-1 : cs[k] # c /\ Len(H[cs[k]]) = ChunkSize
         /\ cs # <<>> => cs[Len(cs)] \notin HeldCells
<1> DEFINE n == Len(chunks)
<1>0. CutOf(cs, H, i, c)
  BY CutShape
<1>1. /\ n \in Nat /\ cs \in Seq(Cells) /\ Len(cs) = n - i + 1
      /\ \A k \in 2..Len(cs) : cs[k] = chunks[i + k - 1] /\ i + k - 1 \in 2..n
      /\ H \in [Cells -> Seq(Nat)]
      /\ \A x \in Cells : x # c => H[x] = heap[x]
      /\ IsCut(i) => /\ i \in 1..n /\ Len(cs) >= 1 /\ cs[1] = c
                     /\ Room(i) < Len(heap[chunks[i]]) /\ Room(i) \in Int
                     /\ Len(H[c]) = Room(i)
      /\ ~IsCut(i) => H = heap /\ \A k \in 1..Len(cs) : cs[k] = chunks[i + k - 1]
  BY <1>0 DEF CutOf
<1> USE SizeAssumption DEF Inv
<1>2. c \in Cells /\ c \notin Live /\ c \notin HeldCells
  BY AllocFresh, LiveCells
<1>3. \A k \in 1..n : chunks[k] # c /\ chunks[k] \in Cells /\ chunks[k] \in Range(chunks)
  <2>1. chunks \in Seq(Cells)
    BY DEF TypeOK
  <2> QED
    BY <1>1, <1>2, <2>1, LiveCells DEF Range
<1>4. \A k \in 2..n-1 : Len(heap[chunks[k]]) = ChunkSize
  BY DEF OnlyEndsPartial, IsFull
<1>5. ASSUME NEW k \in 1..Len(cs)
      PROVE  (cs[k] = c /\ k = 1) \/ (i + k - 1 \in 1..n /\ cs[k] = chunks[i + k - 1])
  <2>1. CASE k \in 2..Len(cs)
    BY <1>1, <2>1
  <2>2. CASE k = 1 /\ IsCut(i)
    BY <1>1, <2>2
  <2>3. CASE k = 1 /\ ~IsCut(i)
    <3>1. i + k - 1 \in 1..n
      BY <1>1, <2>3
    <3> QED
      BY <1>1, <2>3, <3>1
  <2> QED
    BY <1>1, <2>1, <2>2, <2>3
<1>6. \A x \in Cells : Len(H[x]) <= ChunkSize
  <2>1. CASE IsCut(i)
    <3>1. Len(heap[chunks[i]]) <= ChunkSize /\ Len(heap[chunks[i]]) \in Nat
      <4>1. chunks[i] \in Cells /\ heap \in [Cells -> Seq(Nat)]
        BY <1>1, <1>3, <2>1 DEF TypeOK
      <4> QED
        BY <4>1 DEF Small
    <3>2. Len(H[c]) <= ChunkSize
      BY <1>1, <2>1, <3>1
    <3> QED
      BY <1>1, <3>2 DEF Small
  <2>2. CASE ~IsCut(i)
    BY <1>1, <2>2 DEF Small
  <2> QED
    BY <2>1, <2>2
<1>7. ASSUME NEW j \in 1..Len(cs), NEW k \in 1..Len(cs), cs[j] = cs[k]
      PROVE  j = k
  <2>1. CASE cs[j] = c
    <3>1. j = 1 /\ k = 1
      BY <1>3, <1>5, <1>7, <2>1
    <3> QED
      BY <3>1
  <2>2. CASE cs[j] # c
    <3>1. /\ i + j - 1 \in 1..n /\ i + k - 1 \in 1..n
          /\ chunks[i + j - 1] = chunks[i + k - 1]
      BY <1>5, <1>7, <2>2
    <3>2. i + j - 1 = i + k - 1
      BY <3>1 DEF Distinct
    <3> QED
      BY <1>1, <3>2
  <2> QED
    BY <2>1, <2>2
<1>8. ASSUME NEW k \in 2..Len(cs)-1
      PROVE  cs[k] # c /\ Len(H[cs[k]]) = ChunkSize
  <2>1. k \in 2..Len(cs) /\ i + k - 1 \in 2..n-1 /\ i + k - 1 \in 1..n
    BY <1>1
  <2>2. cs[k] = chunks[i + k - 1] /\ cs[k] # c /\ cs[k] \in Cells
    BY <1>1, <1>3, <2>1
  <2> QED
    BY <1>1, <1>4, <2>1, <2>2
<1>9. ASSUME cs # <<>>
      PROVE  cs[Len(cs)] \notin HeldCells
  <2>1. Len(cs) \in 1..Len(cs) /\ i + Len(cs) - 1 = n
    BY <1>1, <1>9
  <2>2. CASE cs[Len(cs)] = c
    BY <1>2, <2>2
  <2>3. CASE cs[Len(cs)] # c
    <3>1. n \in 1..n /\ cs[Len(cs)] = chunks[n]
      BY <1>5, <2>1, <2>3
    <3> QED
      BY <1>1, <3>1 DEF LastPrivate
  <2> QED
    BY <2>2, <2>3
<1>10. \A k \in 1..Len(cs) : cs[k] = c \/ cs[k] \in Range(chunks)
  BY <1>3, <1>5
<1> QED
  BY <1>1, <1>6, <1>7, <1>8, <1>9, <1>10

\* Collecting cells keeps what is in use and stores nothing new.
LEMMA CollectedFacts ==
  ASSUME NEW H \in [Cells -> Seq(Nat)], heap' = Collected(H),
         \A x \in Cells : Len(H[x]) <= ChunkSize
  PROVE  /\ heap' \in [Cells -> Seq(Nat)]
         /\ \A x \in Cells : Len(heap'[x]) <= ChunkSize
         /\ \A x \in Cells : x \in Live' => heap'[x] = H[x]
  BY SizeAssumption DEF Collected

\* Neither f nor l is in cs, and no chunk of H is overfull.
Avoids(cs, f, l) == \A k \in 1..Len(cs) : cs[k] # f /\ cs[k] # l /\ cs[k] \in Cells

Bounded(H) == \A x \in Cells : Len(H[x]) <= ChunkSize

\* D and s are H and cs after the chunks at the ends of cs, the last one at
\* any rate, have been replaced by copies f and l.
CopyOf(D, s, H, cs, f, l) ==
    /\ s \in Seq(Cells) /\ Len(s) = Len(cs)
    /\ D \in [Cells -> Seq(Nat)] /\ Bounded(D)
    /\ \A x \in Cells : x # f /\ x # l => D[x] = H[x]
    /\ \A k \in 2..Len(cs)-1 : s[k] = cs[k]
    /\ \A k \in 1..Len(cs) :
          s[k] = f \/ s[k] = l \/ (s[k] = cs[k] /\ k # Len(cs))

\* What Snapshot does to a list and the heap is such a replacement.
LEMMA DupFacts ==
  ASSUME NEW cs \in Seq(Cells), NEW H \in [Cells -> Seq(Nat)],
         NEW f \in Cells, NEW l \in Cells, f # l,
         Bounded(H), Avoids(cs, f, l)
  PROVE  CopyOf(DupHeap(H, cs, f, l), Dup(cs, f, l), H, cs, f, l)
<1> USE DEF Avoids, Bounded
<1> DEFINE D == DupHeap(H, cs, f, l)
           snap == Dup(cs, f, l)
<1>1. Len(cs) \in Nat
  OBVIOUS
<1>2. CASE cs = <<>>
  BY <1>2 DEF Dup, DupHeap, CopyOf
<1>3. CASE cs # <<>>
  <2>1. Len(cs) >= 1 /\ cs[1] \in Cells /\ cs[Len(cs)] \in Cells
    BY <1>1, <1>3
  <2>2. D = [H EXCEPT ![f] = H[cs[1]], ![l] = H[cs[Len(cs)]]]
    BY <1>3 DEF DupHeap
  <2>3. D \in [Cells -> Seq(Nat)] /\ \A x \in Cells : Len(D[x]) <= ChunkSize
    <3>1. D \in [Cells -> Seq(Nat)]
      <4>1. H[cs[1]] \in Seq(Nat) /\ H[cs[Len(cs)]] \in Seq(Nat)
        BY <2>1
      <4> QED
        BY <2>2, <4>1
    <3>2. \A x \in Cells : D[x] = H[x] \/ D[x] = H[cs[1]] \/ D[x] = H[cs[Len(cs)]]
      BY <2>1, <2>2
    <3> QED
      BY <2>1, <3>1, <3>2
  <2>4. \A x \in Cells : x # f /\ x # l => D[x] = H[x]
    BY <2>2
  <2>5. snap = [cs EXCEPT ![1] = f, ![Len(cs)] = l] \/ snap = [cs EXCEPT ![Len(cs)] = l]
    BY <1>3 DEF Dup
  <2>6. snap \in Seq(Cells) /\ Len(snap) = Len(cs)
    <3>1. [cs EXCEPT ![1] = f] \in Seq(Cells) /\ Len([cs EXCEPT ![1] = f]) = Len(cs)
      BY <1>1, <2>1, ExceptSeq
    <3>2. [cs EXCEPT ![1] = f, ![Len(cs)] = l] = [[cs EXCEPT ![1] = f] EXCEPT ![Len(cs)] = l]
      OBVIOUS
    <3>5. Len(cs) \in 1..Len(cs)
      BY <1>1, <2>1
    <3>3. CASE snap = [[cs EXCEPT ![1] = f] EXCEPT ![Len(cs)] = l]
      <4> DEFINE q == [cs EXCEPT ![1] = f]
      <4>1. q \in Seq(Cells) /\ Len(q) = Len(cs)
        BY <3>1
      <4>2. snap = [q EXCEPT ![Len(cs)] = l]
        BY <3>3
      <4> HIDE DEF q
      <4> QED
        BY <3>5, <4>1, <4>2, ExceptSeq
    <3>4. CASE snap = [cs EXCEPT ![Len(cs)] = l]
      BY <3>4, <3>5, ExceptSeq
    <3> QED
      BY <2>5, <3>2, <3>3, <3>4
  <2>7. \A k \in 1..Len(cs) :
            snap[k] = f \/ snap[k] = l \/ (snap[k] = cs[k] /\ k # Len(cs))
    BY <1>1, <2>5
  <2>8. \A k \in 2..Len(cs)-1 : snap[k] = cs[k]
    BY <1>1, <2>5
  <2> QED
    BY <2>3, <2>4, <2>6, <2>7, <2>8 DEF CopyOf
<1> QED
  BY <1>2, <1>3

\* The list cs that remains and the snapshot s of it are made of chunks of the
\* list and of the new cells c, f and l.
LEMMA SnapshotCells ==
  ASSUME Inv, NEW i \in 1..Len(chunks)+1, FirstKept(i), NEW c \in Alloc(Live),
         NEW f \in Alloc(Live \cup {c}), NEW l \in Alloc(Live \cup {c, f}),
         NEW cs, cs = Remaining(i, c), NEW H, H = CutHeap(i, c)
  PROVE  /\ c \in Cells /\ f \in Cells /\ l \in Cells /\ f # l
         /\ c \notin Live /\ f \notin Live /\ l \notin Live
         /\ Avoids(cs, f, l)
<1>1. /\ c \in Cells /\ f \in Cells /\ l \in Cells
      /\ c \notin Live /\ f \notin Live /\ l \notin Live
      /\ c # f /\ c # l /\ f # l
  BY AllocFresh
<1>2. /\ cs \in Seq(Cells)
      /\ \A k \in 1..Len(cs) : cs[k] = c \/ cs[k] \in Range(chunks)
  BY CutFacts
<1>3. Range(chunks) \subseteq Live
  BY DEF Live
<1>4. ASSUME NEW k \in 1..Len(cs)
      PROVE  cs[k] # f /\ cs[k] # l /\ cs[k] \in Cells
  BY <1>1, <1>2, <1>3
<1> QED
  BY <1>1, <1>4 DEF Avoids

\* Taking a snapshot keeps the invariant and writes to no chunk that another
\* snapshot holds.
LEMMA SnapshotInv ==
  ASSUME Inv, NEW o \in Holders, Snapshot(o)
  PROVE  /\ Inv'
         /\ \A p \in Holders : held'[p] = held[p] =>
                \A x \in Range(held[p].chunks) : heap'[x] = heap[x]
<1> USE SizeAssumption
<1>1. PICK i \in 1..Len(chunks)+1, c \in Alloc(Live) :
      \E f \in Alloc(Live \cup {c}) : \E l \in Alloc(Live \cup {c, f}) :
        /\ FirstKept(i)
        /\ chunks' = Remaining(i, c)
        /\ cached' = cached \ (Range(chunks) \ Range(chunks'))
        /\ held' = [held EXCEPT ![o] = [chunks |-> Dup(Remaining(i, c), f, l), until |-> itemIndex]]
        /\ UNCHANGED <<headers, itemIndex>>
        /\ heap' = Collected(DupHeap(CutHeap(i, c), Remaining(i, c), f, l))
  BY DEF Snapshot
<1>3. PICK f \in Alloc(Live \cup {c}) :
      \E l \in Alloc(Live \cup {c, f}) :
        /\ FirstKept(i)
        /\ chunks' = Remaining(i, c)
        /\ cached' = cached \ (Range(chunks) \ Range(chunks'))
        /\ held' = [held EXCEPT ![o] = [chunks |-> Dup(Remaining(i, c), f, l), until |-> itemIndex]]
        /\ UNCHANGED <<headers, itemIndex>>
        /\ heap' = Collected(DupHeap(CutHeap(i, c), Remaining(i, c), f, l))
  BY <1>1
<1>2. PICK l \in Alloc(Live \cup {c, f}) :
        /\ FirstKept(i)
        /\ chunks' = Remaining(i, c)
        /\ cached' = cached \ (Range(chunks) \ Range(chunks'))
        /\ held' = [held EXCEPT ![o] = [chunks |-> Dup(Remaining(i, c), f, l), until |-> itemIndex]]
        /\ UNCHANGED <<headers, itemIndex>>
        /\ heap' = Collected(DupHeap(CutHeap(i, c), Remaining(i, c), f, l))
  BY <1>3
<1>20. PICK cs, H : cs = Remaining(i, c) /\ H = CutHeap(i, c)
  OBVIOUS
<1>21. PICK D, s : D = DupHeap(H, cs, f, l) /\ s = Dup(cs, f, l)
  OBVIOUS
<1>5. Range(chunks) \subseteq Live /\ HeldCells \subseteq Live
  BY DEF Live
<1>4. /\ cs \in Seq(Cells)
      /\ H \in [Cells -> Seq(Nat)]
      /\ \A x \in Cells : x # c => H[x] = heap[x]
      /\ \A x \in Cells : Len(H[x]) <= ChunkSize
      /\ \A k \in 1..Len(cs) : cs[k] = c \/ cs[k] \in Range(chunks)
      /\ \A j, k \in 1..Len(cs) : cs[j] = cs[k] => j = k
      /\ \A k \in 2..Len(cs)-1 : cs[k] # c /\ Len(H[cs[k]]) = ChunkSize
      /\ cs # <<>> => cs[Len(cs)] \notin HeldCells
  BY <1>2, <1>20, CutFacts
<1>6. /\ c \in Cells /\ f \in Cells /\ l \in Cells /\ f # l
      /\ c \notin Live /\ f \notin Live /\ l \notin Live
      /\ Avoids(cs, f, l)
  BY <1>2, <1>20, SnapshotCells
<1>7. CopyOf(D, s, H, cs, f, l)
  <2>1. cs \in Seq(Cells) /\ H \in [Cells -> Seq(Nat)]
    BY <1>4
  <2>2. Bounded(H)
    BY <1>4 DEF Bounded
  <2>3. f \in Cells /\ l \in Cells /\ f # l
    BY <1>6
  <2>4. Avoids(cs, f, l)
    BY <1>6
  <2> QED
    BY <1>21, <2>1, <2>2, <2>3, <2>4, DupFacts
<1>8. chunks' = cs /\ heap' = Collected(D)
  BY <1>2, <1>20, <1>21
<1>19. held' = [held EXCEPT ![o] = [chunks |-> s, until |-> itemIndex]]
  BY <1>2, <1>20, <1>21
<1>9. /\ held' \in [Holders -> [chunks : Seq(Cells), until : Nat]]
      /\ held'[o].chunks = s
      /\ \A p \in Holders \ {o} : held'[p] = held[p]
  BY <1>7, <1>19 DEF Inv, TypeOK, CopyOf
<1>10. /\ heap' \in [Cells -> Seq(Nat)]
       /\ \A x \in Cells : Len(heap'[x]) <= ChunkSize
       /\ \A x \in Cells : x \in Live' => heap'[x] = D[x]
  BY <1>7, <1>8, CollectedFacts DEF Bounded, CopyOf
<1>11. TypeOK' /\ Small'
  BY <1>2, <1>4, <1>8, <1>9, <1>10 DEF Inv, TypeOK, Small
<1>12. /\ \A k \in 1..Len(cs) : cs[k] \in Live' /\ heap'[cs[k]] = H[cs[k]]
       /\ HeldCells' \subseteq Live'
  <2>1. HeldCells' \subseteq Live'
    BY DEF Live
  <2>2. ASSUME NEW k \in 1..Len(cs)
        PROVE  cs[k] \in Live'
    <3>1. cs[k] \in Range(cs)
      BY <1>4 DEF Range
    <3> QED
      BY <1>8, <3>1 DEF Live
  <2>3. ASSUME NEW k \in 1..Len(cs)
        PROVE  heap'[cs[k]] = H[cs[k]]
    BY <1>6, <1>7, <1>10, <2>2 DEF Avoids, CopyOf
  <2> QED
    BY <2>1, <2>2, <2>3
<1>13. ASSUME NEW p \in Holders \ {o}, NEW x \in Range(held[p].chunks)
       PROVE  heap'[x] = heap[x]
  <2>1. x \in HeldCells /\ x \in Cells
    BY DEF Inv, TypeOK, HeldCells, Range
  <2>2. x # c /\ x # f /\ x # l
    BY <1>5, <1>6, <2>1
  <2>3. x \in Live'
    BY <1>9, <1>12 DEF HeldCells
  <2> QED
    BY <1>4, <1>7, <1>10, <2>1, <2>2, <2>3 DEF CopyOf
<1>14. OnlyEndsPartial'
  <2>1. ASSUME NEW k \in 2..Len(chunks')-1
        PROVE  Len(heap'[chunks'[k]]) = ChunkSize
    <3>1. Len(cs) \in Nat /\ k \in 2..Len(cs)-1
      BY <1>4, <1>8
    <3>2. k \in 1..Len(cs)
      BY <3>1
    <3> QED
      BY <1>4, <1>8, <1>12, <3>1, <3>2
  <2>2. ASSUME NEW k \in 2..Len(held'[o].chunks)-1
        PROVE  Len(heap'[held'[o].chunks[k]]) = ChunkSize
    <3>1. /\ held'[o].chunks = s /\ Len(s) = Len(cs) /\ Len(cs) \in Nat
          /\ \A j \in 2..Len(cs)-1 : s[j] = cs[j]
      BY <1>4, <1>7, <1>9 DEF CopyOf
    <3>4. k \in 2..Len(cs)-1 /\ k \in 1..Len(cs)
      BY <3>1
    <3>2. k \in 1..Len(cs) /\ held'[o].chunks[k] = cs[k]
      BY <3>1, <3>4
    <3> QED
      BY <1>4, <1>12, <3>4, <3>2
  <2>3. ASSUME NEW p \in Holders \ {o}, NEW k \in 2..Len(held'[p].chunks)-1
        PROVE  Len(heap'[held'[p].chunks[k]]) = ChunkSize
    <3>1. held'[p] = held[p] /\ held[p].chunks \in Seq(Cells)
      BY <1>9 DEF Inv, TypeOK
    <3>2. k \in 1..Len(held[p].chunks) /\ held[p].chunks[k] \in Range(held[p].chunks)
      BY <3>1 DEF Range
    <3>3. Len(heap[held[p].chunks[k]]) = ChunkSize
      BY <3>1 DEF Inv, OnlyEndsPartial, IsFull
    <3> QED
      BY <1>13, <3>1, <3>2, <3>3
  <2> QED
    BY <2>1, <2>2, <2>3 DEF OnlyEndsPartial, IsFull
<1>15. Distinct'
  BY <1>4, <1>8 DEF Distinct
<1>16. LastPrivate'
  <2> SUFFICES ASSUME cs # <<>>, NEW p \in Holders,
                      NEW k \in 1..Len(held'[p].chunks), held'[p].chunks[k] = cs[Len(cs)]
               PROVE  FALSE
    <3>1. \A p \in Holders : DOMAIN held'[p].chunks = 1..Len(held'[p].chunks)
      BY <1>11 DEF TypeOK
    <3> QED
      BY <1>8, <3>1 DEF LastPrivate, HeldCells, Range
  <2>1. Len(cs) \in 1..Len(cs) /\ Len(cs) \in Nat
    BY <1>4
  <2>2. CASE p = o
    <3>1. k \in 1..Len(cs) /\ s[k] = cs[Len(cs)]
      BY <1>7, <1>9, <2>2 DEF CopyOf
    <3>2. s[k] # f /\ s[k] # l
      BY <1>6, <2>1, <3>1 DEF Avoids
    <3>3. cs[k] = cs[Len(cs)] /\ k # Len(cs)
      BY <1>7, <3>1, <3>2 DEF CopyOf
    <3> QED
      BY <1>4, <2>1, <3>1, <3>3
  <2>3. CASE p # o
    <3>1. held[p].chunks \in Seq(Cells) /\ held[p].chunks[k] = cs[Len(cs)]
          /\ k \in 1..Len(held[p].chunks)
      BY <1>9, <2>3 DEF Inv, TypeOK
    <3>2. cs[Len(cs)] \in HeldCells
      BY <3>1 DEF HeldCells, Range
    <3> QED
      BY <1>4, <3>2
  <2> QED
    BY <2>2, <2>3
<1>22. ASSUME held'[o] = held[o], NEW x \in Range(held[o].chunks)
       PROVE  FALSE
  <2>1. s \in Seq(Cells) /\ held[o].chunks = s /\ Len(s) = Len(cs)
    BY <1>7, <1>9, <1>22 DEF CopyOf
  <2>2. Len(cs) \in 1..Len(cs)
    BY <1>4, <2>1 DEF Range
  <2>3. s[Len(cs)] = f \/ s[Len(cs)] = l
    BY <1>7, <2>2 DEF CopyOf
  <2>4. s[Len(cs)] \in HeldCells
    BY <2>1, <2>2 DEF HeldCells, Range
  <2> QED
    BY <1>5, <1>6, <2>3, <2>4
<1> QED
  <2>1. Inv'
    BY <1>11, <1>14, <1>15, <1>16 DEF Inv
  <2>2. ASSUME NEW p \in Holders, held'[p] = held[p],
               NEW x \in Range(held[p].chunks)
        PROVE  heap'[x] = heap[x]
    BY <1>13, <1>22, <2>2
  <2> QED
    BY <2>1, <2>2

\* What a push may write to is never part of a snapshot; Before of a target.
LEMMA TargetFacts ==
  ASSUME Inv, NEW c \in Targets
  PROVE  Before(c) \in Seq(Nat)
<1>1. CASE NeedsChunk
  BY <1>1 DEF Before
<1>2. CASE ~NeedsChunk
  <2>1. c \in Cells
    BY <1>2 DEF Targets, NeedsChunk, Inv, TypeOK
  <2> QED
    BY <1>2, <2>1 DEF Before, Inv, TypeOK
<1> QED
  BY <1>1, <1>2

\* Every step keeps the invariant, and leaves the chunks of the snapshots that
\* stay held as they are.
LEMMA StepInv ==
  ASSUME Inv, [Next]_vars
  PROVE  /\ Inv'
         /\ \A p \in Holders : held'[p] = held[p] =>
                \A x \in Range(held[p].chunks) : heap'[x] = heap[x]
<1> USE SizeAssumption
<1> DEFINE Stable(p) == \A x \in Range(held[p].chunks) : heap'[x] = heap[x]
<1>1. \A p \in Holders : \A x \in Range(held[p].chunks) : x \in HeldCells /\ x \in Cells
  BY DEF HeldCells, Range, Inv, TypeOK
<1>2. CASE PushHeader
  <2> PICK c \in Targets :
        chunks' = WithTarget(c) /\ heap' = [heap EXCEPT ![c] = Before(c)]
    BY <1>2 DEF PushHeader
  <2>1. Before(c) = Before(c) \o <<>>
    BY TargetFacts
  <2>2. heap' = [heap EXCEPT ![c] = Before(c) \o <<>>] /\ UNCHANGED held
    BY <1>2, <2>1 DEF PushHeader
  <2>3. /\ chunks' \in Seq(Cells) /\ heap' \in [Cells -> Seq(Nat)]
        /\ Small' /\ OnlyEndsPartial' /\ Distinct' /\ LastPrivate'
        /\ \A x \in HeldCells : heap'[x] = heap[x]
    BY <2>2, PushInv
  <2>4. TypeOK'
    BY <1>2, <2>3 DEF PushHeader, Inv, TypeOK
  <2> QED
    BY <1>1, <2>3, <2>4 DEF Inv
<1>3. CASE PushItem
  <2> PICK c \in Targets :
        chunks' = WithTarget(c) /\ heap' = [heap EXCEPT ![c] = Append(Before(c), itemIndex)]
    BY <1>3 DEF PushItem
  <2>1. Append(Before(c), itemIndex) = Before(c) \o <<itemIndex>>
    BY TargetFacts DEF Inv, TypeOK
  <2>2. heap' = [heap EXCEPT ![c] = Before(c) \o <<itemIndex>>] /\ UNCHANGED held
    BY <1>3, <2>1 DEF PushItem
  <2>3. /\ chunks' \in Seq(Cells) /\ heap' \in [Cells -> Seq(Nat)]
        /\ Small' /\ OnlyEndsPartial' /\ Distinct' /\ LastPrivate'
        /\ \A x \in HeldCells : heap'[x] = heap[x]
    BY <2>2, PushInv
  <2>4. TypeOK'
    BY <1>3, <2>3 DEF PushItem, Inv, TypeOK
  <2> QED
    BY <1>1, <2>3, <2>4 DEF Inv
<1>4. ASSUME heap' = Collected(heap), UNCHANGED held, chunks' = <<>> \/ UNCHANGED chunks,
             headers' \in 0..HeaderLines, itemIndex' \in Nat, cached' \in SUBSET Cells
      PROVE  Inv' /\ \A p \in Holders : Stable(p)
  <2>1. /\ heap' \in [Cells -> Seq(Nat)]
        /\ \A x \in Cells : Len(heap'[x]) <= ChunkSize
        /\ \A x \in Cells : x \in Live' => heap'[x] = heap[x]
    BY <1>4, CollectedFacts DEF Inv, TypeOK, Small
  <2>2. HeldCells' = HeldCells /\ HeldCells \subseteq Live'
    BY <1>4 DEF HeldCells, Live
  <2>3. \A p \in Holders : Stable(p)
    BY <1>1, <2>1, <2>2
  <2>4. TypeOK' /\ Small'
    <3>1. chunks' \in Seq(Cells)
      <4>1. chunks \in Seq(Cells) /\ <<>> \in Seq(Cells)
        BY DEF Inv, TypeOK
      <4> QED
        BY <1>4, <4>1
    <3>2. held' \in [Holders -> [chunks : Seq(Cells), until : Nat]]
      BY <1>4 DEF Inv, TypeOK
    <3> QED
      BY <1>4, <2>1, <3>1, <3>2 DEF TypeOK, Small
  <2>5. Distinct' /\ LastPrivate'
    BY <1>4, <2>2 DEF Inv, Distinct, LastPrivate
  <2>6. ASSUME NEW p \in Holders, NEW k \in 2..Len(held[p].chunks)-1
        PROVE  Len(heap'[held[p].chunks[k]]) = ChunkSize
    <3>1. held[p].chunks \in Seq(Cells)
      BY DEF Inv, TypeOK
    <3>2. held[p].chunks[k] \in Range(held[p].chunks)
      BY <3>1 DEF Range
    <3> QED
      BY <2>3, <3>2 DEF Inv, OnlyEndsPartial, IsFull
  <2>7. ASSUME NEW k \in 2..Len(chunks')-1
        PROVE  Len(heap'[chunks'[k]]) = ChunkSize
    <3>1. chunks' = chunks /\ chunks \in Seq(Cells)
      BY <1>4 DEF Inv, TypeOK
    <3>2. k \in 1..Len(chunks) /\ chunks[k] \in Cells
      BY <3>1
    <3>3. chunks[k] \in Live'
      BY <3>1, <3>2 DEF Live, Range
    <3> QED
      BY <2>1, <3>1, <3>2, <3>3 DEF Inv, OnlyEndsPartial, IsFull
  <2> QED
    BY <1>4, <2>3, <2>4, <2>5, <2>6, <2>7 DEF Inv, OnlyEndsPartial, IsFull
<1>5. CASE Clear
  BY <1>4, <1>5 DEF Clear, Inv, TypeOK
<1>6. CASE CacheClear
  BY <1>4, <1>6 DEF CacheClear, Inv, TypeOK
<1>7. CASE \E o \in Holders : Snapshot(o)
  <2> PICK o \in Holders : Snapshot(o)
    BY <1>7
  <2>1. /\ Inv'
        /\ \A p \in Holders : held'[p] = held[p] =>
               \A x \in Range(held[p].chunks) : heap'[x] = heap[x]
    BY SnapshotInv
  <2> QED
    BY <2>1
<1>8. CASE \E o \in Holders : \E c \in Cells : CacheAdd(o, c)
  BY <1>8 DEF CacheAdd, Inv, TypeOK, Small, OnlyEndsPartial, IsFull, Distinct,
              LastPrivate, HeldCells
<1>9. CASE UNCHANGED vars
  BY <1>9 DEF vars, Inv, TypeOK, Small, OnlyEndsPartial, IsFull, Distinct,
              LastPrivate, HeldCells
<1> QED
  BY <1>2, <1>3, <1>5, <1>6, <1>7, <1>8, <1>9 DEF Next

\* Type correctness of the chunk list (chunklist.go:5-20).
THEOREM TypeCorrect == Spec => []TypeOK
<1>1. Inv => TypeOK
  BY DEF Inv
<1>2. Inv /\ [Next]_vars => Inv'
  BY StepInv
<1> QED
  BY InitInv, <1>1, <1>2, PTL DEF Spec

\* Only the chunks at the ends of the list and of every snapshot are partly
\* filled, which CountItems and the pass merger's Get depend on
\* (chunklist.go:57, merger.go:113).
THEOREM FullInside == Spec => []OnlyEndsPartial
<1>1. Inv => OnlyEndsPartial
  BY DEF Inv
<1>2. Inv /\ [Next]_vars => Inv'
  BY StepInv
<1> QED
  BY InitInv, <1>1, <1>2, PTL DEF Spec

\* "Snapshot returns immutable snapshot of the ChunkList" (chunklist.go:81):
\* whatever the reader pushes and the coordinator cuts or clears, no chunk of
\* a snapshot somebody holds is written to.
THEOREM ImmutableSnapshots == Spec => SnapshotStable
<1>1. Inv /\ [Next]_vars => Inv'
  BY StepInv
<1>2. Inv /\ [Next]_vars =>
        [\A o \in Holders : held'[o] = held[o] =>
            \A c \in Range(held[o].chunks) : heap'[c] = heap[c]]_vars
  BY StepInv
<1> QED
  BY InitInv, <1>1, <1>2, PTL DEF Spec, SnapshotStable

(***************************************************************************)
(* Induction                                                               *)
(***************************************************************************)

\* A set of natural numbers that is not empty has a least element.
LEMMA LeastElement ==
  ASSUME NEW T, T \subseteq Nat, T # {}
  PROVE  \E m \in T : \A k \in T : m <= k
<1> DEFINE R == OpToRel(<, Nat)
<1>1. \A x, y \in Nat : <<x, y>> \in R <=> x < y
  BY DEF OpToRel
<1> HIDE DEF R
<1>2. IsWellFoundedOn(R, Nat)
  BY NatLessThanWellFounded DEF R
<1>3. PICK x \in T : \A y \in T : ~ (<<y, x>> \in R)
  BY <1>2, WFMin
<1>4. \A y \in T : ~ (y < x)
  BY <1>1, <1>3
<1>5. \A y \in T : x <= y
  BY <1>4
<1> QED
  BY <1>5

\* Induction, for a set in place of a predicate.
LEMMA SetInduction ==
  ASSUME NEW S, 0 \in S, \A n \in Nat : n \in S => n + 1 \in S
  PROVE  Nat \subseteq S
<1> SUFFICES ASSUME Nat \ S # {} PROVE FALSE
  OBVIOUS
<1>1. PICK m \in Nat \ S : \A k \in Nat \ S : m <= k
  BY LeastElement
<1>2. m # 0 /\ m - 1 \in Nat
  BY <1>1
<1>3. m - 1 \in S
  BY <1>1, <1>2
<1> QED
  BY <1>1, <1>2, <1>3

(***************************************************************************)
(* FlattenSeq                                                              *)
(***************************************************************************)

\* The recursion in FlattenSeq does define a function.
IsFlat(g, seqs, n) ==
    g = [i \in 1..n |-> IF i = 1 THEN seqs[i] ELSE g[i-1] \o seqs[i]]

LEMMA FlatExists ==
  ASSUME NEW seqs, NEW n \in Nat
  PROVE  \E g : IsFlat(g, seqs, n)
<1> DEFINE S == {m \in Nat : \E g : IsFlat(g, seqs, m)}
<1>1. 0 \in S
  <2>1. IsFlat(<<>>, seqs, 0)
    BY DEF IsFlat
  <2> QED
    BY <2>1
<1>2. ASSUME NEW m \in Nat, m \in S
      PROVE  m + 1 \in S
  <2>1. PICK g : IsFlat(g, seqs, m)
    BY <1>2
  <2> DEFINE h == [i \in 1..m+1 |->
                     IF i = m + 1 THEN IF i = 1 THEN seqs[i] ELSE g[m] \o seqs[i] ELSE g[i]]
  <2>2. \A i \in 1..m : h[i] = IF i = 1 THEN seqs[i] ELSE h[i-1] \o seqs[i]
    <3> TAKE i \in 1..m
    <3>1. h[i] = g[i] /\ (i # 1 => i - 1 \in 1..m /\ h[i-1] = g[i-1])
      OBVIOUS
    <3>2. g[i] = IF i = 1 THEN seqs[i] ELSE g[i-1] \o seqs[i]
      BY <2>1 DEF IsFlat
    <3> QED
      BY <3>1, <3>2
  <2>3. h[m+1] = IF m + 1 = 1 THEN seqs[m+1] ELSE h[m] \o seqs[m+1]
    OBVIOUS
  <2>5. h = [i \in 1..m+1 |-> h[i]]
    OBVIOUS
  <2> HIDE DEF h
  <2>4. ASSUME NEW i \in 1..m+1
        PROVE  h[i] = IF i = 1 THEN seqs[i] ELSE h[i-1] \o seqs[i]
    <3>1. CASE i = m + 1
      <4>1. i - 1 = m
        BY <3>1
      <4> QED
        BY <2>3, <3>1, <4>1
    <3>2. CASE i # m + 1
      <4>1. i \in 1..m
        BY <3>2
      <4> QED
        BY <2>2, <4>1
    <3> QED
      BY <3>1, <3>2
  <2>6. IsFlat(h, seqs, m + 1)
    BY <2>4, <2>5 DEF IsFlat
  <2> QED
    BY <2>6
<1>3. Nat \subseteq S
  <2> HIDE DEF S
  <2> QED
    BY <1>1, <1>2, SetInduction
<1> QED
  BY <1>3

\* Consecutive numbers from a on.
IsRun(r, a) == r \in Seq(Int) /\ \A p \in 1..Len(r) : r[p] = a + p - 1

\* A run continued by a run is a run.
LEMMA RunConcat ==
  ASSUME NEW a \in Int, NEW r, IsRun(r, a), NEW s, IsRun(s, a + Len(r))
  PROVE  IsRun(r \o s, a) /\ Len(r \o s) = Len(r) + Len(s)
<1>1. /\ r \in Seq(Int) /\ s \in Seq(Int) /\ Len(r) \in Nat /\ Len(s) \in Nat
      /\ \A p \in 1..Len(r) : r[p] = a + p - 1
      /\ \A p \in 1..Len(s) : s[p] = a + Len(r) + p - 1
  BY DEF IsRun
<1>2. /\ r \o s \in Seq(Int)
      /\ Len(r \o s) = Len(r) + Len(s)
      /\ \A p \in 1..Len(r) + Len(s) : (r \o s)[p] = IF p <= Len(r) THEN r[p] ELSE s[p - Len(r)]
  BY <1>1, ConcatProperties
<1>3. ASSUME NEW p \in 1..Len(r) + Len(s)
      PROVE  (r \o s)[p] = a + p - 1
  <2>1. CASE p <= Len(r)
    BY <1>1, <1>2, <2>1
  <2>2. CASE ~(p <= Len(r))
    <3>1. p - Len(r) \in 1..Len(s)
      BY <1>1, <2>2
    <3>2. (r \o s)[p] = s[p - Len(r)]
      BY <1>2, <2>2
    <3> QED
      BY <1>1, <3>1, <3>2
  <2> QED
    BY <2>1, <2>2
<1> QED
  BY <1>2, <1>3 DEF IsRun

\* The n runs of seqs continue one another from a on; ends[i] is the length of
\* the first i of them together.
Continue(seqs, n, ends, a) ==
    /\ \A i \in 1..n : ends[i] \in Int /\ IsRun(seqs[i], a + ends[i] - Len(seqs[i]))
    /\ ends[1] = Len(seqs[1])
    /\ \A i \in 2..n : ends[i] = ends[i-1] + Len(seqs[i])

\* So FlattenSeq makes one run of them.
LEMMA FlattenRuns ==
  ASSUME NEW seqs, NEW n \in Nat, Len(seqs) = n, n > 0, NEW a \in Int,
         NEW ends, Continue(seqs, n, ends, a)
  PROVE  FlattenSeq(seqs) = [p \in 1..ends[n] |-> a + p - 1]
<1> USE DEF Continue
<1> DEFINE flatten == CHOOSE g : IsFlat(g, seqs, n)
<1>2. FlattenSeq(seqs) = flatten[n]
  <2>1. seqs # <<>>
    OBVIOUS
  <2> QED
    BY <2>1 DEF FlattenSeq, IsFlat
<1>3. IsFlat(flatten, seqs, n)
  BY FlatExists
<1> HIDE DEF flatten
<1>4. \A i \in 1..n : flatten[i] = IF i = 1 THEN seqs[i] ELSE flatten[i-1] \o seqs[i]
  BY <1>3 DEF IsFlat
<1>5. \A i \in 1..n : Len(seqs[i]) \in Nat
  BY DEF IsRun
<1> DEFINE S == {k \in Nat : k + 1 \in 1..n =>
                    IsRun(flatten[k+1], a) /\ Len(flatten[k+1]) = ends[k+1]}
<1>6. 0 \in S
  <2>1. 1 \in 1..n /\ flatten[1] = seqs[1]
    BY <1>4
  <2>2. a + ends[1] - Len(seqs[1]) = a
    BY <1>5, <2>1
  <2>3. IsRun(seqs[1], a)
    BY <2>1, <2>2
  <2> QED
    BY <2>1, <2>3
<1>7. ASSUME NEW k \in Nat, k \in S
      PROVE  k + 1 \in S
  <2> SUFFICES ASSUME k + 2 \in 1..n
               PROVE  IsRun(flatten[k+2], a) /\ Len(flatten[k+2]) = ends[k+2]
    OBVIOUS
  <2>1. k + 1 \in 1..n /\ k + 2 \in 2..n /\ k + 2 # 1 /\ (k + 2) - 1 = k + 1
    OBVIOUS
  <2>2. IsRun(flatten[k+1], a) /\ Len(flatten[k+1]) = ends[k+1]
    BY <1>7, <2>1
  <2>3. flatten[k+2] = flatten[k+1] \o seqs[k+2]
    BY <1>4, <2>1
  <2>4. ends[k+2] = ends[k+1] + Len(seqs[k+2])
    BY <2>1
  <2>5. a + ends[k+2] - Len(seqs[k+2]) = a + ends[k+1]
    BY <1>5, <2>1, <2>4
  <2>6. IsRun(seqs[k+2], a + Len(flatten[k+1]))
    BY <2>1, <2>2, <2>5
  <2>7. /\ IsRun(flatten[k+1] \o seqs[k+2], a)
        /\ Len(flatten[k+1] \o seqs[k+2]) = Len(flatten[k+1]) + Len(seqs[k+2])
    <3> DEFINE r == flatten[k+1]
               s == seqs[k+2]
    <3>1. IsRun(r, a) /\ IsRun(s, a + Len(r))
      BY <2>2, <2>6
    <3> HIDE DEF r, s
    <3>2. IsRun(r \o s, a) /\ Len(r \o s) = Len(r) + Len(s)
      BY <3>1, RunConcat
    <3> QED
      BY <3>2 DEF r, s
  <2> QED
    BY <2>2, <2>3, <2>4, <2>7
<1>8. Nat \subseteq S
  <2> HIDE DEF S
  <2> QED
    BY <1>6, <1>7, SetInduction
<1>9. IsRun(flatten[n], a) /\ Len(flatten[n]) = ends[n]
  <2>1. n - 1 \in Nat /\ (n - 1) + 1 = n /\ n \in 1..n
    OBVIOUS
  <2>2. n - 1 \in S
    BY <1>8, <2>1
  <2> QED
    BY <2>1, <2>2
<1>10. flatten[n] = [p \in 1..ends[n] |-> a + p - 1]
  <2>1. flatten[n] = [p \in 1..ends[n] |-> flatten[n][p]]
    BY <1>9 DEF IsRun
  <2>2. \A p \in 1..ends[n] : flatten[n][p] = a + p - 1
    BY <1>9 DEF IsRun
  <2> QED
    BY <2>1, <2>2
<1> QED
  BY <1>2, <1>10

(***************************************************************************)
(* What a list of chunks holds                                             *)
(***************************************************************************)

\* The items behind chunk k of m chunks, the last of which has e items.
After(m, e, k) == IF k = m THEN 0 ELSE ChunkSize * (m - k - 1) + e

Rest(h, cs, k) == After(Len(cs), Len(h[cs[Len(cs)]]), k)

\* CountItems, in any heap.
Total(h, cs) ==
    CASE Len(cs) = 0 -> 0
      [] Len(cs) = 1 -> Len(h[cs[1]])
      [] OTHER -> Len(h[cs[1]]) + ChunkSize * (Len(cs) - 2) + Len(h[cs[Len(cs)]])

Inside(h, cs) == \A k \in 2..Len(cs)-1 : Len(h[cs[k]]) = ChunkSize

\* Counting from the end, the chunks hold n-1, n-2, ... without a gap.
Holds(h, cs, n) ==
    \A k \in 1..Len(cs) : IsRun(h[cs[k]], n - Rest(h, cs, k) - Len(h[cs[k]]))

\* Only a list of one chunk may start with an empty one.
FirstFilled(h, cs) == Len(cs) > 1 => Len(h[cs[1]]) > 0

\* The number of the newest n items that Tail keeps.
Kept(n) == IF TailSize > 0 /\ n > TailSize THEN TailSize ELSE n

\* The list holds the newest items, and at least those it must keep; a
\* snapshot, exactly those.
Content ==
    /\ Holds(heap, chunks, itemIndex) /\ FirstFilled(heap, chunks)
    /\ Kept(itemIndex) <= Total(heap, chunks) /\ Total(heap, chunks) <= itemIndex
    /\ \A o \in Holders :
          /\ Holds(heap, held[o].chunks, held[o].until)
          /\ FirstFilled(heap, held[o].chunks)
          /\ Total(heap, held[o].chunks) = Kept(held[o].until)

LEMMA Sizes ==
  ASSUME NEW h \in [Cells -> Seq(Nat)], NEW cs \in Seq(Cells)
  PROVE  /\ Len(cs) \in Nat
         /\ \A k \in 1..Len(cs) : /\ cs[k] \in Cells /\ h[cs[k]] \in Seq(Nat)
                                  /\ Len(h[cs[k]]) \in Nat
                                  /\ Rest(h, cs, k) \in Int /\ Rest(h, cs, k) >= 0
         /\ Total(h, cs) \in Int
<1> USE SizeAssumption
<1>1. Len(cs) \in Nat
  OBVIOUS
<1>2. \A k \in 1..Len(cs) : cs[k] \in Cells /\ h[cs[k]] \in Seq(Nat) /\ Len(h[cs[k]]) \in Nat
  OBVIOUS
<1>3. ASSUME NEW k \in 1..Len(cs)
      PROVE  Rest(h, cs, k) \in Int /\ Rest(h, cs, k) >= 0
  <2>1. Len(h[cs[Len(cs)]]) \in Nat
    BY <1>1, <1>2
  <2>2. CASE k = Len(cs)
    BY <2>2 DEF Rest, After
  <2>3. CASE k # Len(cs)
    <3> DEFINE d == Len(cs) - k - 1
               e == Len(h[cs[Len(cs)]])
    <3>1. d \in Nat /\ e \in Nat
      BY <1>1, <2>1, <2>3
    <3>2. Rest(h, cs, k) = ChunkSize * d + e
      BY <2>3 DEF Rest, After
    <3> HIDE DEF d, e
    <3>3. ChunkSize * d \in Nat
      BY <3>1
    <3> DEFINE x == ChunkSize * d
    <3>4. x \in Nat /\ Rest(h, cs, k) = x + e
      BY <3>2, <3>3
    <3> HIDE DEF x
    <3> QED
      BY <3>1, <3>4
  <2> QED
    BY <2>2, <2>3
<1>4. Total(h, cs) \in Int
  <2>1. CASE Len(cs) = 0
    BY <2>1 DEF Total
  <2>2. CASE Len(cs) = 1
    BY <1>2, <2>2 DEF Total
  <2>3. CASE Len(cs) # 0 /\ Len(cs) # 1
    <3>1. 1 \in 1..Len(cs) /\ Len(cs) \in 1..Len(cs) /\ ChunkSize * (Len(cs) - 2) \in Int
      BY <1>1, <2>3
    <3> QED
      BY <1>2, <2>3, <3>1 DEF Total
  <2> QED
    BY <2>1, <2>2, <2>3
<1> QED
  BY <1>1, <1>2, <1>3, <1>4

\* Chunk k + 1 is the first of what is behind chunk k.
LEMMA RestStep ==
  ASSUME NEW h \in [Cells -> Seq(Nat)], NEW cs \in Seq(Cells), Inside(h, cs),
         NEW k \in 1..Len(cs)-1
  PROVE  Rest(h, cs, k) = Len(h[cs[k+1]]) + Rest(h, cs, k+1)
<1> USE SizeAssumption
<1> DEFINE m == Len(cs)
           e == Len(h[cs[m]])
<1>1. m \in Nat /\ e \in Nat /\ k \in Nat /\ k < m
  <2>1. Len(cs) \in 1..Len(cs)
    OBVIOUS
  <2> QED
    BY <2>1, Sizes
<1>2. Rest(h, cs, k) = ChunkSize * (m - k - 1) + e
  <2>1. k # m
    BY <1>1
  <2> QED
    BY <2>1 DEF Rest, After
<1>3. CASE k + 1 = m
  <2>1. Rest(h, cs, k + 1) = 0 /\ Len(h[cs[k+1]]) = e
    BY <1>3 DEF Rest, After
  <2> HIDE DEF m, e
  <2>2. m - k - 1 = 0 /\ ChunkSize * 0 = 0
    BY <1>1, <1>3
  <2>3. Rest(h, cs, k) = 0 + e
    BY <1>2, <2>2
  <2> QED
    BY <1>1, <2>1, <2>3
<1>4. CASE k + 1 # m
  <2>1. k + 1 \in 2..m-1
    BY <1>1, <1>4
  <2>2. Len(h[cs[k+1]]) = ChunkSize
    BY <2>1 DEF Inside
  <2>3. Rest(h, cs, k + 1) = ChunkSize * (m - (k + 1) - 1) + e
    BY <1>4 DEF Rest, After
  <2> HIDE DEF m, e
  <2> DEFINE d == m - (k + 1) - 1
  <2>4. d \in Int /\ m - k - 1 = d + 1
    BY <1>1
  <2> HIDE DEF d
  <2>5. ChunkSize * (d + 1) = ChunkSize + ChunkSize * d /\ ChunkSize * d \in Int
    BY <2>4
  <2>6. Rest(h, cs, k) = ChunkSize + ChunkSize * d + e
    BY <1>2, <2>4, <2>5
  <2>7. Rest(h, cs, k + 1) = ChunkSize * d + e
    BY <2>3 DEF d
  <2> DEFINE x == ChunkSize * d
  <2> HIDE DEF x
  <2>8. x \in Int
    BY <2>5 DEF x
  <2>9. Rest(h, cs, k) = ChunkSize + x + e /\ Rest(h, cs, k + 1) = x + e
    BY <2>6, <2>7 DEF x
  <2> QED
    BY <1>1, <2>2, <2>8, <2>9
<1> QED
  BY <1>3, <1>4

LEMMA TotalRest ==
  ASSUME NEW h \in [Cells -> Seq(Nat)], NEW cs \in Seq(Cells), cs # <<>>
  PROVE  Total(h, cs) = Len(h[cs[1]]) + Rest(h, cs, 1)
<1> USE SizeAssumption
<1>1. Len(cs) \in Nat /\ Len(cs) # 0 /\ 1 \in 1..Len(cs) /\ Len(cs) \in 1..Len(cs)
  OBVIOUS
<1>2. Len(h[cs[1]]) \in Nat /\ Len(h[cs[Len(cs)]]) \in Nat
  BY <1>1, Sizes
<1>3. CASE Len(cs) = 1
  BY <1>2, <1>3 DEF Total, Rest, After
<1>4. CASE Len(cs) # 1
  <2>1. Total(h, cs) = Len(h[cs[1]]) + ChunkSize * (Len(cs) - 2) + Len(h[cs[Len(cs)]])
    BY <1>1, <1>4 DEF Total
  <2>2. Rest(h, cs, 1) = ChunkSize * (Len(cs) - 1 - 1) + Len(h[cs[Len(cs)]])
    BY <1>4 DEF Rest, After
  <2> DEFINE x == ChunkSize * (Len(cs) - 2)
  <2>3. Len(cs) - 1 - 1 = Len(cs) - 2 /\ x \in Int
    BY <1>1
  <2>4. /\ Total(h, cs) = Len(h[cs[1]]) + x + Len(h[cs[Len(cs)]])
        /\ Rest(h, cs, 1) = x + Len(h[cs[Len(cs)]])
    BY <2>1, <2>2, <2>3
  <2> DEFINE first == Len(h[cs[1]])
             last  == Len(h[cs[Len(cs)]])
  <2>5. first \in Nat /\ last \in Nat
    BY <1>2
  <2>6. Total(h, cs) = first + x + last /\ Rest(h, cs, 1) = x + last
    BY <2>4
  <2> HIDE DEF x, first, last
  <2>7. Total(h, cs) = first + Rest(h, cs, 1)
    BY <2>3, <2>5, <2>6
  <2> QED
    BY <2>7 DEF first
<1> QED
  BY <1>3, <1>4

\* Read as a whole, such a list is a run of consecutive items.
LEMMA ItemsRun ==
  ASSUME NEW h \in [Cells -> Seq(Nat)], NEW cs \in Seq(Cells), NEW n \in Int,
         Inside(h, cs), Holds(h, cs, n)
  PROVE  FlattenSeq([i \in DOMAIN cs |-> h[cs[i]]])
             = [p \in 1..Total(h, cs) |-> n - Total(h, cs) + p - 1]
<1> DEFINE seqs == [i \in DOMAIN cs |-> h[cs[i]]]
           m == Len(cs)
           T == Total(h, cs)
           a == n - T
           ends == [i \in 1..m |-> T - Rest(h, cs, i)]
<1>1. m \in Nat /\ DOMAIN cs = 1..m /\ Len(seqs) = m
  OBVIOUS
<1>2. CASE m = 0
  <2>1. seqs = <<>> /\ T = 0
    BY <1>1, <1>2 DEF Total
  <2>2. FlattenSeq(seqs) = <<>>
    BY <2>1 DEF FlattenSeq
  <2> QED
    BY <2>1, <2>2
<1>3. CASE m # 0
  <2>1. /\ a \in Int /\ T \in Int /\ cs # <<>> /\ 1 \in 1..m
        /\ \A i \in 1..m : /\ seqs[i] = h[cs[i]]
                           /\ ends[i] = T - Rest(h, cs, i)
                           /\ Rest(h, cs, i) \in Int /\ Len(seqs[i]) \in Nat
    BY <1>1, <1>3, Sizes
  <2> HIDE DEF T
  <2>2. ends[1] = Len(seqs[1])
    <3>1. Total(h, cs) = Len(h[cs[1]]) + Rest(h, cs, 1)
      BY <2>1, TotalRest
    <3>2. T = Len(seqs[1]) + Rest(h, cs, 1)
      BY <2>1, <3>1 DEF T
    <3>3. ends[1] = T - Rest(h, cs, 1) /\ Rest(h, cs, 1) \in Int /\ Len(seqs[1]) \in Nat
      BY <2>1
    <3> HIDE DEF ends, seqs
    <3> QED
      BY <2>1, <3>2, <3>3
  <2>3. ASSUME NEW i \in 2..m
        PROVE  ends[i] = ends[i-1] + Len(seqs[i])
    <3>1. i - 1 \in 1..m-1 /\ i \in 1..m /\ i - 1 \in 1..m /\ (i - 1) + 1 = i
      BY <1>1
    <3>2. Rest(h, cs, i - 1) = Len(h[cs[(i-1)+1]]) + Rest(h, cs, (i-1)+1)
      BY <3>1, RestStep
    <3>3. Rest(h, cs, i - 1) = Len(seqs[i]) + Rest(h, cs, i)
      BY <2>1, <3>1, <3>2
    <3>4. /\ ends[i] = T - Rest(h, cs, i) /\ ends[i-1] = T - Rest(h, cs, i-1)
          /\ Rest(h, cs, i) \in Int /\ Len(seqs[i]) \in Nat
      BY <2>1, <3>1
    <3> HIDE DEF ends, seqs
    <3> QED
      BY <2>1, <3>3, <3>4
  <2>4. ASSUME NEW i \in 1..m
        PROVE  IsRun(seqs[i], a + ends[i] - Len(seqs[i]))
    <3>1. /\ ends[i] = T - Rest(h, cs, i) /\ seqs[i] = h[cs[i]]
          /\ Rest(h, cs, i) \in Int /\ Len(seqs[i]) \in Nat
      BY <2>1
    <3>2. IsRun(seqs[i], n - Rest(h, cs, i) - Len(seqs[i]))
      BY <3>1 DEF Holds
    <3> HIDE DEF ends, seqs
    <3>3. a + ends[i] - Len(seqs[i]) = n - Rest(h, cs, i) - Len(seqs[i])
      BY <2>1, <3>1
    <3> QED
      BY <3>2, <3>3
  <2>5. ends[m] = T
    <3>1. Rest(h, cs, m) = 0
      BY DEF Rest, After
    <3>2. ends[m] = T - Rest(h, cs, m)
      BY <1>1, <1>3
    <3> QED
      BY <2>1, <3>1, <3>2
  <2>6. ASSUME NEW i \in 1..m
        PROVE  ends[i] \in Int
    <3>1. ends[i] = T - Rest(h, cs, i) /\ Rest(h, cs, i) \in Int
      BY <2>1
    <3> HIDE DEF ends
    <3> QED
      BY <2>1, <3>1
  <2> HIDE DEF ends, seqs, a, m
  <2>7. FlattenSeq(seqs) = [p \in 1..ends[m] |-> a + p - 1]
    <3>1. m > 0
      BY <1>1, <1>3
    <3>2. /\ \A i \in 1..m : ends[i] \in Int
          /\ \A i \in 2..m : ends[i] = ends[i-1] + Len(seqs[i])
          /\ \A i \in 1..m : IsRun(seqs[i], a + ends[i] - Len(seqs[i]))
      BY <2>3, <2>4, <2>6
    <3>3. m \in Nat /\ Len(seqs) = m /\ a \in Int
      BY <1>1, <2>1
    <3>4. Continue(seqs, m, ends, a)
      BY <2>2, <3>1, <3>2, <3>3 DEF Continue
    <3> QED
      BY <3>1, <3>3, <3>4, FlattenRuns
  <2> QED
    BY <2>5, <2>7 DEF seqs, a, T
<1> QED
  BY <1>2, <1>3

\* Lists that are made of the same chunks hold the same.
LEMMA SameContent ==
  ASSUME NEW h, NEW cs, NEW h2, NEW cs2, NEW n,
         Len(cs) \in Nat, Len(cs2) = Len(cs),
         \A k \in 1..Len(cs) : h2[cs2[k]] = h[cs[k]]
  PROVE  /\ Total(h2, cs2) = Total(h, cs)
         /\ \A k \in 1..Len(cs) : Rest(h2, cs2, k) = Rest(h, cs, k)
         /\ Holds(h, cs, n) => Holds(h2, cs2, n)
         /\ FirstFilled(h, cs) => FirstFilled(h2, cs2)
<1>1. Len(cs) # 0 => 1 \in 1..Len(cs) /\ Len(cs) \in 1..Len(cs)
  OBVIOUS
<1>2. Len(cs) # 0 => h2[cs2[1]] = h[cs[1]] /\ h2[cs2[Len(cs)]] = h[cs[Len(cs)]]
  BY <1>1
<1>3. Total(h2, cs2) = Total(h, cs)
  <2>1. CASE Len(cs) = 0
    BY <2>1 DEF Total
  <2>2. CASE Len(cs) = 1
    BY <1>2, <2>2 DEF Total
  <2>3. CASE Len(cs) # 0 /\ Len(cs) # 1
    BY <1>2, <2>3 DEF Total
  <2> QED
    BY <2>1, <2>2, <2>3
<1>4. \A k \in 1..Len(cs) : Rest(h2, cs2, k) = Rest(h, cs, k)
  BY <1>2 DEF Rest
<1>5. FirstFilled(h, cs) => FirstFilled(h2, cs2)
  BY <1>2 DEF FirstFilled
<1>6. Holds(h, cs, n) => Holds(h2, cs2, n)
  BY <1>4 DEF Holds
<1> QED
  BY <1>3, <1>4, <1>5, <1>6

\* The suffix of the list from chunk i on, and what CountItems gives for it
\* and for the suffix behind it.
LEMMA SuffixFacts ==
  ASSUME Inv, NEW i \in 1..Len(chunks)
  PROVE  /\ Len(From(i)) = Len(chunks) - i + 1
         /\ \A k \in 1..Len(From(i)) :
               From(i)[k] = chunks[i + k - 1] /\ i + k - 1 \in 1..Len(chunks)
         /\ CountItems(From(i)) = Len(heap[chunks[i]]) + Rest(heap, chunks, i)
         /\ CountItems(From(i + 1)) = Rest(heap, chunks, i)
<1> USE SizeAssumption
<1> DEFINE n == Len(chunks)
<1>1. n \in Nat /\ chunks \in Seq(Cells) /\ heap \in [Cells -> Seq(Nat)] /\ Inside(heap, chunks)
  BY DEF Inv, TypeOK, OnlyEndsPartial, IsFull, Inside
<1>2. \A j \in 1..n+1 : /\ From(j) \in Seq(Cells)
                        /\ Len(From(j)) = n - j + 1
                        /\ \A k \in 1..n-j+1 : From(j)[k] = chunks[j + k - 1]
  BY <1>1 DEF From
<1>3. ASSUME NEW j \in 1..n
      PROVE  /\ \A k \in 1..Len(From(j)) : From(j)[k] = chunks[j + k - 1] /\ j + k - 1 \in 1..n
             /\ CountItems(From(j)) = Len(heap[chunks[j]]) + Rest(heap, chunks, j)
  <2> DEFINE cs == From(j)
  <2>1. cs \in Seq(Cells) /\ Len(cs) = n - j + 1 /\ cs # <<>>
    BY <1>1, <1>2
  <2>2. ASSUME NEW k \in 1..Len(cs)
        PROVE  cs[k] = chunks[j + k - 1] /\ j + k - 1 \in 1..n
    <3>1. j \in 1..n+1 /\ k \in 1..n-j+1
      BY <1>1, <2>1
    <3> QED
      BY <1>1, <1>2, <3>1
  <2>3. CountItems(cs) = Total(heap, cs)
    BY DEF CountItems, Total
  <2>4. Total(heap, cs) = Len(heap[cs[1]]) + Rest(heap, cs, 1)
    <3> HIDE DEF cs
    <3> QED
      BY <1>1, <2>1, TotalRest
  <2>5. cs[1] = chunks[j] /\ cs[Len(cs)] = chunks[n]
    <3>1. 1 \in 1..Len(cs) /\ Len(cs) \in 1..Len(cs) /\ j + 1 - 1 = j /\ j + Len(cs) - 1 = n
      BY <1>1, <2>1
    <3> HIDE DEF cs
    <3> QED
      BY <2>2, <3>1
  <2>6. Rest(heap, cs, 1) = Rest(heap, chunks, j)
    <3>1. (1 = Len(cs)) <=> (j = n)
      BY <1>1, <2>1
    <3>2. Len(cs) - 1 - 1 = n - j - 1
      BY <1>1, <2>1
    <3> HIDE DEF cs
    <3> QED
      BY <2>5, <3>1, <3>2 DEF Rest, After
  <2> QED
    BY <2>2, <2>3, <2>4, <2>5, <2>6
<1>4. CountItems(From(i + 1)) = Rest(heap, chunks, i)
  <2>1. CASE i = n
    <3>1. i + 1 \in 1..n+1 /\ n - (i + 1) + 1 = 0
      BY <1>1, <2>1
    <3>2. Len(From(i + 1)) = 0
      BY <1>2, <3>1
    <3>3. CountItems(From(i + 1)) = 0
      BY <3>2 DEF CountItems
    <3> QED
      BY <2>1, <3>3 DEF Rest, After
  <2>2. CASE i # n
    <3>1. i + 1 \in 1..n /\ i \in 1..n-1
      BY <1>1, <2>2
    <3>2. CountItems(From(i + 1)) = Len(heap[chunks[i+1]]) + Rest(heap, chunks, i + 1)
      BY <1>3, <3>1
    <3> QED
      BY <1>1, <3>1, <3>2, RestStep
  <2> QED
    BY <2>1, <2>2
<1> QED
  BY <1>1, <1>2, <1>3, <1>4

\* What stays of the list is exactly what Tail keeps.
LEMMA CutContent ==
  ASSUME Inv, Content, NEW i \in 1..Len(chunks)+1, FirstKept(i),
         NEW c \in Alloc(Live), NEW cs, cs = Remaining(i, c), NEW H, H = CutHeap(i, c)
  PROVE  /\ Holds(H, cs, itemIndex) /\ FirstFilled(H, cs)
         /\ Total(H, cs) = Kept(itemIndex)
<1> DEFINE n == Len(chunks)
<1>0. CutOf(cs, H, i, c)
  BY CutShape
<1>1. /\ n \in Nat
      /\ cs \in Seq(Cells) /\ Len(cs) = n - i + 1
      /\ \A k \in 2..Len(cs) : cs[k] = chunks[i + k - 1] /\ i + k - 1 \in 2..n
      /\ H \in [Cells -> Seq(Nat)]
      /\ \A x \in Cells : x # c => H[x] = heap[x]
      /\ IsCut(i) => /\ i \in 1..n /\ Len(cs) >= 1 /\ cs[1] = c
                     /\ Room(i) \in Int /\ Room(i) >= 1 /\ Room(i) < Len(heap[chunks[i]])
                     /\ Len(H[c]) = Room(i)
                     /\ \A p \in 1..Room(i) :
                           H[c][p] = heap[chunks[i]][Len(heap[chunks[i]]) - Room(i) + p]
      /\ ~IsCut(i) => /\ H = heap /\ cs = From(i)
                      /\ \A k \in 1..Len(cs) : cs[k] = chunks[i + k - 1]
  BY <1>0 DEF CutOf
<1> DEFINE T == Total(heap, chunks)
<1>2. /\ chunks \in Seq(Cells) /\ heap \in [Cells -> Seq(Nat)]
      /\ Inside(heap, chunks) /\ itemIndex \in Nat
  BY DEF Inv, TypeOK, OnlyEndsPartial, IsFull, Inside
<1>3. /\ Holds(heap, chunks, itemIndex) /\ FirstFilled(heap, chunks)
      /\ Kept(itemIndex) <= T /\ T <= itemIndex /\ T \in Int
  BY <1>2, Sizes DEF Content
<1>4. CountItems(chunks) = T
  BY DEF CountItems, Total
<1>5. From(1) = chunks
  BY <1>2 DEF From
<1> USE SizeAssumption
<1>6. CASE ~Trims
  <2>1. ~IsCut(i) /\ i = 1
    BY <1>6 DEF IsCut, FirstKept
  <2>2. cs = chunks /\ H = heap
    BY <1>1, <1>5, <2>1
  <2>3. T = Kept(itemIndex)
    <3>1. TailSize = 0 \/ T <= TailSize
      BY <1>3, <1>4, <1>6 DEF Trims
    <3> HIDE DEF T
    <3> QED
      BY <1>2, <1>3, <3>1 DEF Kept
  <2> QED
    BY <1>3, <2>2, <2>3
<1>7. CASE Trims
  <2> DEFINE L == Len(heap[chunks[i]])
             R == Rest(heap, chunks, i)
  <2>1. i \in 1..n /\ TailSize > 0 /\ T > TailSize
    BY <1>4, <1>7 DEF Trims, FirstKept
  <2>2. L \in Nat /\ R \in Int /\ R >= 0 /\ chunks[i] \in Cells /\ heap[chunks[i]] \in Seq(Nat)
    BY <1>2, <2>1, Sizes
  <2>3. CountItems(From(i)) = L + R /\ CountItems(From(i + 1)) = R
    BY <2>1, SuffixFacts
  <2>4. L + R >= TailSize /\ R < TailSize
    <3>1. i + 1 \in i+1..n+1
      BY <1>1, <2>1
    <3>2. R < TailSize
      BY <1>7, <2>3, <3>1 DEF FirstKept
    <3>3. i = 1 \/ CountItems(From(i)) >= TailSize
      BY <1>7 DEF FirstKept
    <3>4. i = 1 => CountItems(From(i)) = T
      BY <1>4, <1>5
    <3> HIDE DEF L, R, T
    <3> QED
      BY <1>3, <2>1, <2>2, <2>3, <3>2, <3>3, <3>4
  <2>5. Kept(itemIndex) = TailSize
    <3> HIDE DEF T
    <3> QED
      BY <1>2, <1>3, <2>1 DEF Kept
  <2>6. Room(i) = TailSize - R
    BY <2>3 DEF Room
  <2>7. ASSUME NEW k \in 1..Len(cs), k # 1 \/ ~IsCut(i)
        PROVE  cs[k] = chunks[i + k - 1] /\ i + k - 1 \in 1..n /\ H[cs[k]] = heap[chunks[i + k - 1]]
    <3>1. cs[k] = chunks[i + k - 1] /\ i + k - 1 \in 1..n
      <4>1. i + k - 1 \in 1..n
        <5>1. n \in Nat /\ Len(cs) = n - i + 1 /\ i \in 1..n
          BY <1>1, <2>1
        <5> QED
          BY <5>1
      <4>2. CASE k = 1
        BY <1>1, <2>7, <4>1, <4>2
      <4>3. CASE k # 1
        <5>1. k \in 2..Len(cs)
          BY <1>1, <4>3
        <5> QED
          BY <1>1, <4>1, <5>1
      <4> QED
        BY <4>2, <4>3
    <3>2. chunks[i + k - 1] \in Live /\ chunks[i + k - 1] \in Cells
      BY <3>1, LiveCells DEF Inv
    <3>3. c \notin Live
      BY AllocFresh
    <3> QED
      BY <1>1, <3>1, <3>2, <3>3
  <2>8. ASSUME NEW k \in 1..Len(cs)
        PROVE  Rest(H, cs, k) = Rest(heap, chunks, i + k - 1)
    <3>1. (k = Len(cs)) <=> (i + k - 1 = n)
      BY <1>1, <2>1
    <3>2. CASE k = Len(cs)
      BY <3>1, <3>2 DEF Rest, After
    <3>3. CASE k # Len(cs)
      <4>1. Len(cs) \in 1..Len(cs) /\ Len(cs) # 1 /\ i + Len(cs) - 1 = n
        BY <1>1, <2>1, <3>3
      <4>2. H[cs[Len(cs)]] = heap[chunks[n]]
        BY <2>7, <4>1
      <4>3. Len(cs) - k - 1 = n - (i + k - 1) - 1
        BY <1>1, <2>1
      <4> QED
        BY <3>1, <3>3, <4>2, <4>3 DEF Rest, After
    <3> QED
      BY <3>2, <3>3
  <2>9. ASSUME NEW k \in 1..Len(cs), k # 1 \/ ~IsCut(i)
        PROVE  IsRun(H[cs[k]], itemIndex - Rest(H, cs, k) - Len(H[cs[k]]))
    <3>1. i + k - 1 \in 1..n /\ H[cs[k]] = heap[chunks[i + k - 1]]
      BY <2>7, <2>9
    <3>2. IsRun(heap[chunks[i + k - 1]],
                itemIndex - Rest(heap, chunks, i + k - 1) - Len(heap[chunks[i + k - 1]]))
      BY <1>3, <3>1 DEF Holds
    <3> QED
      BY <2>8, <3>1, <3>2
  <2>10. /\ Len(cs) \in Nat /\ cs # <<>> /\ 1 \in 1..Len(cs)
         /\ Rest(H, cs, 1) = R
         /\ Total(H, cs) = Len(H[cs[1]]) + Rest(H, cs, 1)
    <3>1. Len(cs) \in Nat /\ cs # <<>> /\ 1 \in 1..Len(cs) /\ i + 1 - 1 = i
      BY <1>1, <2>1
    <3>2. Rest(H, cs, 1) = R
      BY <2>8, <3>1
    <3> QED
      BY <1>1, <3>1, <3>2, TotalRest
  <2>11. CASE ~IsCut(i)
    <3>1. Len(H[cs[1]]) = L
      <4>1. i + 1 - 1 = i
        BY <2>1
      <4> QED
        BY <2>7, <2>10, <2>11, <4>1
    <3>2. L <= Room(i)
      <4>1. ~(L > Room(i))
        BY <1>7, <2>11 DEF IsCut
      <4> HIDE DEF L, R
      <4> QED
        BY <2>2, <2>6, <4>1
    <3>3. Holds(H, cs, itemIndex)
      BY <2>9, <2>11 DEF Holds
    <3> HIDE DEF L, R
    <3>4. L + R = TailSize /\ L > 0
      BY <2>2, <2>4, <2>6, <3>2
    <3> QED
      BY <2>5, <2>10, <3>1, <3>3, <3>4 DEF FirstFilled
  <2>12. CASE IsCut(i)
    <3>1. /\ cs[1] = c /\ Room(i) \in Int /\ Room(i) >= 1 /\ Room(i) < L
          /\ Len(H[c]) = Room(i)
          /\ \A p \in 1..Room(i) : H[c][p] = heap[chunks[i]][L - Room(i) + p]
      BY <1>1, <2>12
    <3>2. Total(H, cs) = TailSize
      <4>1. Total(H, cs) = Room(i) + R
        BY <2>10, <3>1
      <4> HIDE DEF R, L
      <4> QED
        BY <2>2, <2>6, <3>1, <4>1
    <3>3. FirstFilled(H, cs)
      BY <3>1 DEF FirstFilled
    <3>4. IsRun(H[c], itemIndex - R - Room(i))
      <4>1. IsRun(heap[chunks[i]], itemIndex - R - L)
        BY <1>3, <2>1 DEF Holds
      <4>2. c \in Cells
        BY AllocFresh
      <4>3. H[c] \in Seq(Int)
        <5>1. H[c] \in Seq(Nat)
          BY <1>1, <4>2
        <5> QED
          BY <5>1
      <4>4. ASSUME NEW p \in 1..Room(i)
            PROVE  H[c][p] = (itemIndex - R - Room(i)) + p - 1
        <5>1. H[c][p] = heap[chunks[i]][L - Room(i) + p]
          BY <3>1
        <5>2. \A q \in 1..L : heap[chunks[i]][q] = (itemIndex - R - L) + q - 1
          BY <4>1 DEF IsRun
        <5> HIDE DEF L, R
        <5>3. L - Room(i) + p \in 1..L
          BY <2>2, <3>1
        <5>4. heap[chunks[i]][L - Room(i) + p] = (itemIndex - R - L) + (L - Room(i) + p) - 1
          BY <5>2, <5>3
        <5> QED
          BY <1>2, <2>2, <3>1, <5>1, <5>4
      <4> QED
        BY <3>1, <4>3, <4>4 DEF IsRun
    <3>5. Holds(H, cs, itemIndex)
      <4> SUFFICES ASSUME NEW k \in 1..Len(cs)
                   PROVE  IsRun(H[cs[k]], itemIndex - Rest(H, cs, k) - Len(H[cs[k]]))
        BY DEF Holds
      <4>1. CASE k = 1
        BY <2>10, <3>1, <3>4, <4>1
      <4>2. CASE k # 1
        BY <2>9, <4>2
      <4> QED
        BY <4>1, <4>2
    <3> QED
      BY <2>5, <3>2, <3>3, <3>5
  <2> QED
    BY <2>11, <2>12
<1> QED
  BY <1>6, <1>7

\* The copies hold what the chunks they replace hold.
LEMMA DupSame ==
  ASSUME NEW cs \in Seq(Cells), NEW H \in [Cells -> Seq(Nat)],
         NEW f \in Cells, NEW l \in Cells, f # l, Avoids(cs, f, l),
         NEW k \in 1..Len(cs)
  PROVE  DupHeap(H, cs, f, l)[Dup(cs, f, l)[k]] = H[cs[k]]
<1> DEFINE D == DupHeap(H, cs, f, l)
           s == Dup(cs, f, l)
<1>1. Len(cs) \in Nat /\ cs # <<>> /\ Len(cs) \in 1..Len(cs) /\ 1 \in 1..Len(cs)
  OBVIOUS
<1>2. D = [H EXCEPT ![f] = H[cs[1]], ![l] = H[cs[Len(cs)]]]
  BY <1>1 DEF DupHeap
<1>3. D[f] = H[cs[1]] /\ D[l] = H[cs[Len(cs)]]
  BY <1>2
<1>4. cs[k] \in Cells /\ cs[k] # f /\ cs[k] # l
  BY DEF Avoids
<1>5. D[cs[k]] = H[cs[k]]
  BY <1>2, <1>4
<1>6. s = [cs EXCEPT ![1] = f, ![Len(cs)] = l] \/ s = [cs EXCEPT ![Len(cs)] = l]
  BY <1>1 DEF Dup
<1>7. \/ s[k] = cs[k]
      \/ s[k] = f /\ k = 1
      \/ s[k] = l /\ k = Len(cs)
  <2>1. CASE s = [cs EXCEPT ![Len(cs)] = l]
    BY <1>1, <2>1
  <2>2. CASE s = [cs EXCEPT ![1] = f, ![Len(cs)] = l]
    BY <1>1, <2>2
  <2> QED
    BY <1>6, <2>1, <2>2
<1> HIDE DEF D, s
<1>8. D[s[k]] = H[cs[k]]
  BY <1>3, <1>5, <1>7
<1> QED
  BY <1>8 DEF D, s

\* What a snapshot makes of the list and of the holder's chunks.
LEMMA SnapshotShape ==
  ASSUME Inv, NEW o \in Holders, Snapshot(o)
  PROVE  \E i \in 1..Len(chunks)+1, c \in Alloc(Live) :
           LET cs == Remaining(i, c)
               H  == CutHeap(i, c)
           IN  /\ FirstKept(i)
               /\ chunks' = cs /\ itemIndex' = itemIndex
               /\ \A k \in 1..Len(cs) : heap'[cs[k]] = H[cs[k]]
               /\ held'[o].until = itemIndex
               /\ Len(held'[o].chunks) = Len(cs)
               /\ \A k \in 1..Len(cs) : heap'[held'[o].chunks[k]] = H[cs[k]]
               /\ \A p \in Holders \ {o} : held'[p] = held[p]
<1>1. PICK i \in 1..Len(chunks)+1, c \in Alloc(Live) :
      \E f \in Alloc(Live \cup {c}) : \E l \in Alloc(Live \cup {c, f}) :
        /\ FirstKept(i)
        /\ chunks' = Remaining(i, c)
        /\ cached' = cached \ (Range(chunks) \ Range(chunks'))
        /\ held' = [held EXCEPT ![o] = [chunks |-> Dup(Remaining(i, c), f, l), until |-> itemIndex]]
        /\ UNCHANGED <<headers, itemIndex>>
        /\ heap' = Collected(DupHeap(CutHeap(i, c), Remaining(i, c), f, l))
  BY DEF Snapshot
<1>14. PICK f \in Alloc(Live \cup {c}) :
      \E l \in Alloc(Live \cup {c, f}) :
        /\ FirstKept(i)
        /\ chunks' = Remaining(i, c)
        /\ held' = [held EXCEPT ![o] = [chunks |-> Dup(Remaining(i, c), f, l), until |-> itemIndex]]
        /\ UNCHANGED <<headers, itemIndex>>
        /\ heap' = Collected(DupHeap(CutHeap(i, c), Remaining(i, c), f, l))
  BY <1>1
<1>2. PICK l \in Alloc(Live \cup {c, f}) :
        /\ FirstKept(i)
        /\ chunks' = Remaining(i, c)
        /\ held' = [held EXCEPT ![o] = [chunks |-> Dup(Remaining(i, c), f, l), until |-> itemIndex]]
        /\ UNCHANGED <<headers, itemIndex>>
        /\ heap' = Collected(DupHeap(CutHeap(i, c), Remaining(i, c), f, l))
  BY <1>14
<1>3. PICK cs, H : cs = Remaining(i, c) /\ H = CutHeap(i, c)
  OBVIOUS
<1>4. PICK D, s : D = DupHeap(H, cs, f, l) /\ s = Dup(cs, f, l)
  OBVIOUS
<1>5. /\ cs \in Seq(Cells) /\ Len(cs) \in Nat
      /\ H \in [Cells -> Seq(Nat)]
      /\ \A x \in Cells : Len(H[x]) <= ChunkSize
  BY <1>2, <1>3, CutFacts
<1>6. f \in Cells /\ l \in Cells /\ f # l /\ Avoids(cs, f, l)
  BY <1>2, <1>3, SnapshotCells
<1>7. CopyOf(D, s, H, cs, f, l)
  BY <1>4, <1>5, <1>6, DupFacts DEF Bounded
<1>8. /\ D \in [Cells -> Seq(Nat)] /\ s \in Seq(Cells) /\ Len(s) = Len(cs)
      /\ \A x \in Cells : Len(D[x]) <= ChunkSize
      /\ \A x \in Cells : x # f /\ x # l => D[x] = H[x]
  BY <1>7 DEF CopyOf, Bounded
<1>9. chunks' = cs /\ heap' = Collected(D) /\ itemIndex' = itemIndex
  BY <1>2, <1>3, <1>4
<1>10. held' = [held EXCEPT ![o] = [chunks |-> s, until |-> itemIndex]]
  BY <1>2, <1>3, <1>4
<1>11. /\ held'[o].chunks = s /\ held'[o].until = itemIndex
       /\ \A p \in Holders \ {o} : held'[p] = held[p]
  BY <1>10 DEF Inv, TypeOK
<1>12. \A x \in Cells : x \in Live' => heap'[x] = D[x]
  BY <1>8, <1>9, CollectedFacts
<1>13. ASSUME NEW k \in 1..Len(cs)
       PROVE  heap'[cs[k]] = H[cs[k]] /\ heap'[s[k]] = H[cs[k]]
  <2>1. cs[k] \in Cells /\ cs[k] \in Range(cs) /\ s[k] \in Cells /\ s[k] \in Range(s)
    BY <1>5, <1>8 DEF Range
  <2>2. cs[k] \in Live' /\ s[k] \in Live'
    BY <1>9, <1>11, <2>1 DEF Live, HeldCells
  <2>3. D[cs[k]] = H[cs[k]]
    BY <1>6, <1>8, <2>1 DEF Avoids
  <2>4. D[s[k]] = H[cs[k]]
    BY <1>4, <1>5, <1>6, DupSame
  <2> QED
    BY <1>12, <2>1, <2>2, <2>3, <2>4
<1> QED
  <2>1. /\ FirstKept(i)
        /\ chunks' = cs /\ itemIndex' = itemIndex
        /\ \A k \in 1..Len(cs) : heap'[cs[k]] = H[cs[k]]
        /\ held'[o].until = itemIndex
        /\ Len(held'[o].chunks) = Len(cs)
        /\ \A k \in 1..Len(cs) : heap'[held'[o].chunks[k]] = H[cs[k]]
        /\ \A p \in Holders \ {o} : held'[p] = held[p]
    BY <1>2, <1>8, <1>9, <1>11, <1>13
  <2> QED
    BY <1>3, <2>1

\* What a snapshot that stays held holds does not change.
LEMMA HeldContent ==
  ASSUME Inv, Content, NEW o \in Holders, held'[o] = held[o],
         \A x \in Range(held[o].chunks) : heap'[x] = heap[x]
  PROVE  /\ Holds(heap', held'[o].chunks, held'[o].until)
         /\ FirstFilled(heap', held'[o].chunks)
         /\ Total(heap', held'[o].chunks) = Kept(held'[o].until)
<1> DEFINE s == held[o].chunks
<1>1. s \in Seq(Cells) /\ Len(s) \in Nat
  BY DEF Inv, TypeOK
<1>2. \A k \in 1..Len(s) : heap'[s[k]] = heap[s[k]]
  BY <1>1 DEF Range
<1>3. /\ Holds(heap, s, held[o].until) /\ FirstFilled(heap, s)
      /\ Total(heap, s) = Kept(held[o].until)
  BY DEF Content
<1> HIDE DEF s
<1>4. /\ Holds(heap', s, held[o].until) /\ FirstFilled(heap', s)
      /\ Total(heap', s) = Kept(held[o].until)
  BY <1>1, <1>2, <1>3, SameContent
<1> QED
  BY <1>4 DEF s

LEMMA SnapshotContent ==
  ASSUME Inv, Content, NEW o \in Holders, Snapshot(o)
  PROVE  Content'
<1>1. PICK i \in 1..Len(chunks)+1, c \in Alloc(Live) :
        /\ FirstKept(i)
        /\ chunks' = Remaining(i, c) /\ itemIndex' = itemIndex
        /\ \A k \in 1..Len(Remaining(i, c)) :
              heap'[Remaining(i, c)[k]] = CutHeap(i, c)[Remaining(i, c)[k]]
        /\ held'[o].until = itemIndex
        /\ Len(held'[o].chunks) = Len(Remaining(i, c))
        /\ \A k \in 1..Len(Remaining(i, c)) :
              heap'[held'[o].chunks[k]] = CutHeap(i, c)[Remaining(i, c)[k]]
        /\ \A p \in Holders \ {o} : held'[p] = held[p]
  BY SnapshotShape
<1>2. PICK cs, H : cs = Remaining(i, c) /\ H = CutHeap(i, c)
  OBVIOUS
<1>3. cs \in Seq(Cells) /\ Len(cs) \in Nat
  BY <1>1, <1>2, CutFacts
<1>4. Holds(H, cs, itemIndex) /\ FirstFilled(H, cs) /\ Total(H, cs) = Kept(itemIndex)
  BY <1>1, <1>2, CutContent
<1>5. /\ chunks' = cs /\ itemIndex' = itemIndex
      /\ \A k \in 1..Len(cs) : heap'[cs[k]] = H[cs[k]]
      /\ held'[o].until = itemIndex
      /\ Len(held'[o].chunks) = Len(cs)
      /\ \A k \in 1..Len(cs) : heap'[held'[o].chunks[k]] = H[cs[k]]
      /\ \A p \in Holders \ {o} : held'[p] = held[p]
  BY <1>1, <1>2
<1>6. Holds(heap', cs, itemIndex) /\ FirstFilled(heap', cs) /\ Total(heap', cs) = Kept(itemIndex)
  BY <1>3, <1>4, <1>5, SameContent
<1>7. /\ Holds(heap', held'[o].chunks, itemIndex) /\ FirstFilled(heap', held'[o].chunks)
      /\ Total(heap', held'[o].chunks) = Kept(itemIndex)
  <2> DEFINE s == held'[o].chunks
  <2>1. Len(s) = Len(cs) /\ \A k \in 1..Len(cs) : heap'[s[k]] = H[cs[k]]
    BY <1>5
  <2> HIDE DEF s
  <2>2. Holds(heap', s, itemIndex) /\ FirstFilled(heap', s) /\ Total(heap', s) = Kept(itemIndex)
    BY <1>3, <1>4, <2>1, SameContent
  <2> QED
    BY <2>2 DEF s
<1>8. ASSUME NEW p \in Holders \ {o}
      PROVE  /\ Holds(heap', held'[p].chunks, held'[p].until)
             /\ FirstFilled(heap', held'[p].chunks)
             /\ Total(heap', held'[p].chunks) = Kept(held'[p].until)
  <2>1. held'[p] = held[p]
    BY <1>5
  <2>2. \A x \in Range(held[p].chunks) : heap'[x] = heap[x]
    BY <2>1, SnapshotInv
  <2> QED
    BY <2>1, <2>2, HeldContent
<1>9. Kept(itemIndex) <= itemIndex /\ Kept(itemIndex) \in Int
  BY SizeAssumption DEF Kept, Inv, TypeOK
<1>10. /\ Holds(heap', chunks', itemIndex') /\ FirstFilled(heap', chunks')
       /\ Kept(itemIndex') <= Total(heap', chunks') /\ Total(heap', chunks') <= itemIndex'
  BY <1>5, <1>6, <1>9
<1>11. ASSUME NEW p \in Holders
       PROVE  /\ Holds(heap', held'[p].chunks, held'[p].until)
              /\ FirstFilled(heap', held'[p].chunks)
              /\ Total(heap', held'[p].chunks) = Kept(held'[p].until)
  BY <1>5, <1>7, <1>8
<1> QED
  BY <1>10, <1>11 DEF Content

\* A push adds its line, if it is an item, behind what the list holds.
LEMMA PushContent ==
  ASSUME Inv, Content, NEW c \in Targets, NEW line \in {<<>>, <<itemIndex>>},
         chunks' = WithTarget(c),
         heap' = [heap EXCEPT ![c] = Before(c) \o line],
         itemIndex' = itemIndex + Len(line),
         UNCHANGED held
  PROVE  Content'
<1> DEFINE n == Len(chunks)
           e == Len(line)
<1>0. /\ heap' \in [Cells -> Seq(Nat)] /\ chunks' \in Seq(Cells)
      /\ \A x \in HeldCells : heap'[x] = heap[x]
  BY PushInv
<1>1. /\ n \in Nat /\ chunks \in Seq(Cells) /\ heap \in [Cells -> Seq(Nat)]
      /\ itemIndex \in Nat /\ Inside(heap, chunks)
  BY DEF Inv, TypeOK, OnlyEndsPartial, IsFull, Inside
<1>2. e \in {0, 1} /\ IsRun(line, itemIndex)
  <2>1. CASE line = <<>>
    BY <2>1 DEF IsRun
  <2>2. CASE line = <<itemIndex>>
    <3>1. Len(line) = 1 /\ line[1] = itemIndex /\ line \in Seq(Int)
      BY <1>1, <2>2
    <3> QED
      BY <1>1, <3>1 DEF IsRun
  <2> QED
    BY <2>1, <2>2
<1>3. /\ Holds(heap, chunks, itemIndex) /\ FirstFilled(heap, chunks)
      /\ Kept(itemIndex) <= Total(heap, chunks) /\ Total(heap, chunks) <= itemIndex
      /\ Total(heap, chunks) \in Int
  BY <1>1, Sizes DEF Content
<1>4. \A k \in 1..n : /\ chunks[k] \in Cells /\ chunks[k] \in Live
                      /\ heap[chunks[k]] \in Seq(Nat) /\ Len(heap[chunks[k]]) \in Nat
                      /\ Rest(heap, chunks, k) \in Int
  BY <1>1, Sizes, LiveCells DEF Inv
<1> USE SizeAssumption
\* The chunks but the last keep their items, and have as many more behind them.
<1>5. /\ Len(chunks') \in Nat \ {0}
      /\ Holds(heap', chunks', itemIndex') /\ FirstFilled(heap', chunks')
      /\ Total(heap', chunks') = Total(heap, chunks) + e
  <2>1. CASE NeedsChunk
    <3>1. /\ c \in Cells /\ \A k \in 1..n : chunks[k] # c
      BY <1>4, <2>1, AllocFresh DEF Targets
    <3>2. /\ chunks' = Append(chunks, c) /\ Len(chunks') = n + 1 /\ chunks'[n + 1] = c
          /\ \A k \in 1..n : chunks'[k] = chunks[k]
      BY <1>1, <2>1, <3>1 DEF WithTarget
    <3>3. heap'[c] = line
      <4>1. Before(c) = <<>>
        BY <2>1 DEF Before
      <4>2. <<>> \o line = line
        <5>1. line \in Seq(Int)
          BY <1>2 DEF IsRun
        <5> QED
          BY <5>1
      <4> QED
        BY <1>1, <3>1, <4>1, <4>2
    <3>4. \A k \in 1..n : heap'[chunks'[k]] = heap[chunks[k]]
      BY <1>1, <1>4, <3>1, <3>2
    <3>5. n # 0 => Len(heap[chunks[n]]) = ChunkSize
      BY <1>1, <2>1 DEF NeedsChunk, IsFull
    <3>6. ASSUME NEW k \in 1..n
          PROVE  Rest(heap', chunks', k) = Rest(heap, chunks, k) + e
      <4> DEFINE d == n - k
      <4>1. k # n + 1 /\ (n + 1) - k - 1 = d /\ d \in Nat
        BY <1>1
      <4>2. Rest(heap', chunks', k) = ChunkSize * d + e
        BY <3>2, <3>3, <4>1 DEF Rest, After
      <4>3. Rest(heap, chunks, k) = ChunkSize * d
        <5>1. CASE k = n
          <6>1. ChunkSize * d = 0
            BY <5>1, <1>1
          <6>2. Rest(heap, chunks, k) = 0
            BY <5>1 DEF Rest, After
          <6> QED
            BY <6>1, <6>2
        <5>2. CASE k # n
          <6>4. Len(heap[chunks[n]]) = ChunkSize
            BY <1>1, <3>5
          <6>1. Rest(heap, chunks, k) = ChunkSize * (n - k - 1) + ChunkSize
            BY <5>2, <6>4 DEF Rest, After
          <6> HIDE DEF n
          <6>2. n - k - 1 = d - 1
            BY <1>1
          <6> HIDE DEF d
          <6>3. ChunkSize * (d - 1) + ChunkSize = ChunkSize * d
            BY <4>1
          <6> QED
            BY <6>1, <6>2, <6>3
        <5> QED
          BY <5>1, <5>2
      <4> QED
        BY <4>2, <4>3
    <3>7. Rest(heap', chunks', n + 1) = 0
      BY <3>2 DEF Rest, After
    <3>8. Holds(heap', chunks', itemIndex')
      <4> SUFFICES ASSUME NEW k \in 1..n+1
                   PROVE  IsRun(heap'[chunks'[k]],
                                itemIndex' - Rest(heap', chunks', k) - Len(heap'[chunks'[k]]))
        BY <3>2 DEF Holds
      <4>1. CASE k = n + 1
        <5>1. heap'[chunks'[k]] = line /\ itemIndex' - Rest(heap', chunks', k) - e = itemIndex
          BY <1>1, <1>2, <3>2, <3>3, <3>7, <4>1
        <5> QED
          BY <1>2, <5>1
      <4>2. CASE k # n + 1
        <5>1. k \in 1..n
          BY <1>1, <4>2
        <5>2. IsRun(heap[chunks[k]], itemIndex - Rest(heap, chunks, k) - Len(heap[chunks[k]]))
          BY <1>3, <5>1 DEF Holds
        <5>3. Rest(heap', chunks', k) = Rest(heap, chunks, k) + e /\ Rest(heap, chunks, k) \in Int
          BY <1>4, <3>6, <5>1
        <5>4. itemIndex' - Rest(heap', chunks', k) = itemIndex - Rest(heap, chunks, k)
          BY <1>1, <1>2, <5>3
        <5>5. heap'[chunks'[k]] = heap[chunks[k]]
          BY <3>4, <5>1
        <5> QED
          BY <5>2, <5>4, <5>5
      <4> QED
        BY <4>1, <4>2
    <3>9. FirstFilled(heap', chunks')
      <4> SUFFICES ASSUME n + 1 > 1
                   PROVE  Len(heap'[chunks'[1]]) > 0
        BY <3>2 DEF FirstFilled
      <4>1. heap'[chunks'[1]] = heap[chunks[1]]
        <5>1. 1 \in 1..n
          BY <1>1
        <5> QED
          BY <3>4, <5>1
      <4>2. n = 1 => Len(heap[chunks[1]]) > 0
        BY <3>5
      <4>3. n > 1 => Len(heap[chunks[1]]) > 0
        BY <1>3 DEF FirstFilled
      <4>4. n = 1 \/ n > 1
        <5>1. n \in Nat /\ n + 1 > 1
          BY <1>1
        <5> HIDE DEF n
        <5> QED
          BY <5>1
      <4> QED
        BY <4>1, <4>2, <4>3, <4>4
    <3>10. Total(heap', chunks') = Total(heap, chunks) + e
      <4>1. Total(heap', chunks') = Len(heap'[chunks'[1]]) + Rest(heap', chunks', 1)
        <5>1. chunks' # <<>>
          BY <1>1, <3>2
        <5> QED
          BY <1>0, <5>1, TotalRest
      <4>2. CASE n = 0
        <5>1. Total(heap, chunks) = 0
          BY <4>2 DEF Total
        <5>2. Len(heap'[chunks'[1]]) = e /\ Rest(heap', chunks', 1) = 0
          BY <3>2, <3>3, <3>7, <4>2
        <5> QED
          BY <1>2, <4>1, <5>1, <5>2
      <4>3. CASE n # 0
        <5>1. 1 \in 1..n /\ chunks # <<>>
          BY <1>1, <4>3
        <5>2. Total(heap, chunks) = Len(heap[chunks[1]]) + Rest(heap, chunks, 1)
          BY <1>1, <5>1, TotalRest
        <5>3. heap'[chunks'[1]] = heap[chunks[1]]
          BY <3>4, <5>1
        <5>4. Rest(heap', chunks', 1) = Rest(heap, chunks, 1) + e
          BY <3>6, <5>1
        <5>5. Len(heap[chunks[1]]) \in Int /\ Rest(heap, chunks, 1) \in Int
          BY <1>4, <5>1
        <5> DEFINE q == Len(heap[chunks[1]])
        <5>6. /\ Total(heap', chunks') = q + Rest(heap', chunks', 1) /\ q \in Int
              /\ Total(heap, chunks) = q + Rest(heap, chunks, 1) /\ Rest(heap, chunks, 1) \in Int
          BY <4>1, <5>2, <5>3, <5>5
        <5> HIDE DEF e, q
        <5> QED
          BY <1>2, <5>4, <5>6
      <4> QED
        BY <4>2, <4>3
    <3> QED
      BY <1>1, <3>2, <3>8, <3>9, <3>10
  <2>2. CASE ~NeedsChunk
    <3>1. chunks' = chunks /\ c = chunks[n] /\ n # 0 /\ n \in 1..n /\ 1 \in 1..n
      BY <1>1, <2>2 DEF WithTarget, Targets, NeedsChunk
    <3>2. c \in Cells /\ heap[c] \in Seq(Nat) /\ Len(heap[c]) \in Nat
      BY <1>4, <3>1
    <3>3. heap'[c] = heap[c] \o line
      BY <1>1, <2>2, <3>2 DEF Before
    <3>4. \A k \in 1..n-1 : chunks[k] # c /\ heap'[chunks[k]] = heap[chunks[k]]
      <4>1. \A k \in 1..n-1 : chunks[k] # c
        BY <1>1, <3>1 DEF Inv, Distinct
      <4> QED
        BY <1>1, <1>4, <4>1
    <3>5. IsRun(heap[c], itemIndex - Len(heap[c]))
      <4>1. IsRun(heap[c], itemIndex - Rest(heap, chunks, n) - Len(heap[c]))
        BY <1>3, <3>1 DEF Holds
      <4>2. Rest(heap, chunks, n) = 0
        BY DEF Rest, After
      <4> QED
        BY <1>1, <4>1, <4>2
    <3>6. IsRun(heap'[c], itemIndex - Len(heap[c])) /\ Len(heap'[c]) = Len(heap[c]) + e
      <4> DEFINE a == itemIndex - Len(heap[c])
                 r == heap[c]
      <4>1. a \in Int /\ a + Len(r) = itemIndex
        BY <1>1, <3>2
      <4>2. IsRun(r, a) /\ IsRun(line, a + Len(r))
        BY <1>2, <3>5, <4>1
      <4> HIDE DEF a, r
      <4>3. IsRun(r \o line, a) /\ Len(r \o line) = Len(r) + Len(line)
        BY <4>1, <4>2, RunConcat
      <4> QED
        BY <3>3, <4>3 DEF a, r
    <3>7. ASSUME NEW k \in 1..n-1
          PROVE  Rest(heap', chunks', k) = Rest(heap, chunks, k) + e
      <4> DEFINE x == ChunkSize * (n - k - 1)
                 q == Len(heap[c])
      <4>1. k # n /\ x \in Int
        <5> HIDE DEF n
        <5> QED
          BY <1>1
      <4>2. Rest(heap', chunks', k) = x + Len(heap'[c])
        BY <3>1, <4>1 DEF Rest, After
      <4>3. Rest(heap, chunks, k) = x + q
        BY <3>1, <4>1 DEF Rest, After
      <4>4. Len(heap'[c]) = q + e /\ q \in Int
        BY <3>2, <3>6
      <4> HIDE DEF x, q, e, n
      <4> QED
        BY <1>2, <4>1, <4>2, <4>3, <4>4
    <3>8. Rest(heap', chunks', n) = 0 /\ Rest(heap, chunks, n) = 0
      BY <3>1 DEF Rest, After
    <3>9. Holds(heap', chunks', itemIndex')
      <4> SUFFICES ASSUME NEW k \in 1..n
                   PROVE  IsRun(heap'[chunks'[k]],
                                itemIndex' - Rest(heap', chunks', k) - Len(heap'[chunks'[k]]))
        BY <3>1 DEF Holds
      <4>1. CASE k = n
        <5>1. itemIndex' - Rest(heap', chunks', k) - Len(heap'[c]) = itemIndex - Len(heap[c])
          <6> DEFINE q == Len(heap[c])
                     w == Len(heap'[c])
          <6>1. w = q + e /\ q \in Int /\ Rest(heap', chunks', k) = 0 /\ itemIndex' = itemIndex + e
            BY <3>2, <3>6, <3>8, <4>1
          <6> HIDE DEF w, q, e
          <6>2. itemIndex' - Rest(heap', chunks', k) - w = itemIndex - q
            BY <1>1, <1>2, <6>1
          <6> QED
            BY <6>2 DEF w, q
        <5> QED
          BY <3>1, <3>6, <4>1, <5>1
      <4>2. CASE k # n
        <5>1. k \in 1..n-1
          BY <1>1, <4>2
        <5>2. IsRun(heap[chunks[k]], itemIndex - Rest(heap, chunks, k) - Len(heap[chunks[k]]))
          BY <1>3 DEF Holds
        <5>3. Rest(heap', chunks', k) = Rest(heap, chunks, k) + e /\ Rest(heap, chunks, k) \in Int
          BY <1>4, <3>7, <5>1
        <5>4. itemIndex' - Rest(heap', chunks', k) = itemIndex - Rest(heap, chunks, k)
          BY <1>1, <1>2, <5>3
        <5>5. heap'[chunks'[k]] = heap[chunks[k]]
          BY <3>1, <3>4, <5>1
        <5> QED
          BY <5>2, <5>4, <5>5
      <4> QED
        BY <4>1, <4>2
    <3>10. FirstFilled(heap', chunks')
      <4> SUFFICES ASSUME n > 1
                   PROVE  Len(heap'[chunks'[1]]) > 0
        BY <3>1 DEF FirstFilled
      <4>1. heap'[chunks'[1]] = heap[chunks[1]]
        BY <1>1, <3>1, <3>4
      <4> QED
        BY <1>3, <4>1 DEF FirstFilled
    <3>11. Total(heap', chunks') = Total(heap, chunks) + e
      <4>1. Total(heap', chunks') = Len(heap'[chunks'[1]]) + Rest(heap', chunks', 1)
        <5>1. chunks' # <<>>
          BY <1>1, <3>1
        <5> QED
          BY <1>0, <5>1, TotalRest
      <4>2. Total(heap, chunks) = Len(heap[chunks[1]]) + Rest(heap, chunks, 1)
        <5>1. chunks # <<>>
          BY <1>1, <3>1
        <5> QED
          BY <1>1, <5>1, TotalRest
      <4>3. Len(heap[chunks[1]]) \in Int /\ Rest(heap, chunks, 1) \in Int
        BY <1>4, <3>1
      <4>4. CASE n = 1
        <5>1. /\ chunks'[1] = c /\ chunks[1] = c
              /\ Rest(heap', chunks', 1) = 0 /\ Rest(heap, chunks, 1) = 0
              /\ Len(heap'[c]) = Len(heap[c]) + e
          BY <3>1, <3>6, <3>8, <4>4
        <5> HIDE DEF e
        <5> QED
          BY <1>2, <4>1, <4>2, <4>3, <5>1
      <4>5. CASE n # 1
        <5>1. 1 \in 1..n-1
          <6>1. n \in Nat /\ n # 0 /\ n # 1
            BY <1>1, <3>1, <4>5
          <6> HIDE DEF n
          <6> QED
            BY <6>1
        <5>2. heap'[chunks'[1]] = heap[chunks[1]]
          BY <3>1, <3>4, <5>1
        <5>3. Rest(heap', chunks', 1) = Rest(heap, chunks, 1) + e
          BY <3>7, <5>1
        <5> DEFINE q == Len(heap[chunks[1]])
        <5>4. /\ Total(heap', chunks') = q + Rest(heap', chunks', 1) /\ q \in Int
              /\ Total(heap, chunks) = q + Rest(heap, chunks, 1) /\ Rest(heap, chunks, 1) \in Int
          BY <4>1, <4>2, <4>3, <5>2
        <5> HIDE DEF e, q
        <5> QED
          BY <1>2, <5>3, <5>4
      <4> QED
        BY <4>4, <4>5
    <3> QED
      BY <1>1, <3>1, <3>9, <3>10, <3>11
  <2> QED
    BY <2>1, <2>2
<1>6. Kept(itemIndex') <= Total(heap', chunks') /\ Total(heap', chunks') <= itemIndex'
  <2> DEFINE T == Total(heap, chunks)
  <2>1. /\ Kept(itemIndex) <= T /\ T <= itemIndex /\ T \in Int
        /\ Total(heap', chunks') = T + e /\ itemIndex' = itemIndex + e
    BY <1>3, <1>5
  <2> HIDE DEF T, e
  <2>2. Kept(itemIndex + e) <= Kept(itemIndex) + e
    BY <1>1, <1>2 DEF Kept
  <2>3. Kept(itemIndex) \in Int /\ Kept(itemIndex + e) \in Int
    BY <1>1, <1>2 DEF Kept
  <2> QED
    BY <1>1, <1>2, <2>1, <2>2, <2>3
<1>7. ASSUME NEW o \in Holders
      PROVE  /\ Holds(heap', held'[o].chunks, held'[o].until)
             /\ FirstFilled(heap', held'[o].chunks)
             /\ Total(heap', held'[o].chunks) = Kept(held'[o].until)
  <2>1. Range(held[o].chunks) \subseteq HeldCells
    BY DEF HeldCells
  <2> QED
    BY <1>0, <2>1, HeldContent
<1> QED
  BY <1>5, <1>6, <1>7 DEF Content

LEMMA InitContent == Init => Content
<1> SUFFICES ASSUME Init PROVE Content
  OBVIOUS
<1>1. /\ chunks = <<>> /\ itemIndex = 0
      /\ \A o \in Holders : held[o].chunks = <<>> /\ held[o].until = 0
  BY DEF Init
<1>2. Len(<<>>) = 0 /\ \A h : Total(h, <<>>) = 0
  BY DEF Total
<1>3. \A h, n : Holds(h, <<>>, n) /\ FirstFilled(h, <<>>)
  BY <1>2 DEF Holds, FirstFilled
<1>4. Kept(0) = 0
  BY SizeAssumption DEF Kept
<1> QED
  BY <1>1, <1>2, <1>3, <1>4 DEF Content

LEMMA StepContent ==
  ASSUME Inv, Content, [Next]_vars
  PROVE  Content'
<1>1. \A p \in Holders : held'[p] = held[p] =>
          \A x \in Range(held[p].chunks) : heap'[x] = heap[x]
  BY StepInv
<1>2. CASE PushHeader
  <2> PICK c \in Targets :
        chunks' = WithTarget(c) /\ heap' = [heap EXCEPT ![c] = Before(c)]
    BY <1>2 DEF PushHeader
  <2>1. Before(c) = Before(c) \o <<>>
    BY TargetFacts
  <2>2. heap' = [heap EXCEPT ![c] = Before(c) \o <<>>] /\ UNCHANGED held
    BY <1>2, <2>1 DEF PushHeader
  <2>3. itemIndex' = itemIndex + Len(<<>>)
    BY <1>2 DEF PushHeader, Inv, TypeOK
  <2> QED
    BY <2>2, <2>3, PushContent
<1>3. CASE PushItem
  <2> PICK c \in Targets :
        chunks' = WithTarget(c) /\ heap' = [heap EXCEPT ![c] = Append(Before(c), itemIndex)]
    BY <1>3 DEF PushItem
  <2>1. Append(Before(c), itemIndex) = Before(c) \o <<itemIndex>>
    BY TargetFacts DEF Inv, TypeOK
  <2>2. heap' = [heap EXCEPT ![c] = Before(c) \o <<itemIndex>>] /\ UNCHANGED held
    BY <1>3, <2>1 DEF PushItem
  <2>3. itemIndex' = itemIndex + Len(<<itemIndex>>)
    BY <1>3 DEF PushItem
  <2> QED
    BY <2>2, <2>3, PushContent
<1>4. ASSUME UNCHANGED held,
             \/ chunks' = <<>> /\ itemIndex' = 0
             \/ /\ UNCHANGED <<chunks, itemIndex>>
                /\ \A k \in 1..Len(chunks) : heap'[chunks[k]] = heap[chunks[k]]
      PROVE  Content'
  <2>1. ASSUME NEW o \in Holders
        PROVE  /\ Holds(heap', held'[o].chunks, held'[o].until)
               /\ FirstFilled(heap', held'[o].chunks)
               /\ Total(heap', held'[o].chunks) = Kept(held'[o].until)
    BY <1>1, <1>4, HeldContent
  <2>2. /\ Holds(heap', chunks', itemIndex') /\ FirstFilled(heap', chunks')
        /\ Kept(itemIndex') <= Total(heap', chunks') /\ Total(heap', chunks') <= itemIndex'
    <3>1. CASE chunks' = <<>> /\ itemIndex' = 0
      <4>1. Len(<<>>) = 0 /\ Total(heap', <<>>) = 0
        BY DEF Total
      <4>2. Holds(heap', <<>>, 0) /\ FirstFilled(heap', <<>>)
        BY <4>1 DEF Holds, FirstFilled
      <4>3. Kept(0) = 0
        BY SizeAssumption DEF Kept
      <4> QED
        BY <3>1, <4>1, <4>2, <4>3
    <3>2. CASE /\ UNCHANGED <<chunks, itemIndex>>
               /\ \A k \in 1..Len(chunks) : heap'[chunks[k]] = heap[chunks[k]]
      <4>1. Len(chunks) \in Nat
        BY DEF Inv, TypeOK
      <4>2. /\ Holds(heap, chunks, itemIndex) /\ FirstFilled(heap, chunks)
            /\ Kept(itemIndex) <= Total(heap, chunks) /\ Total(heap, chunks) <= itemIndex
        BY DEF Content
      <4>3. /\ Holds(heap', chunks, itemIndex) /\ FirstFilled(heap', chunks)
            /\ Total(heap', chunks) = Total(heap, chunks)
        BY <3>2, <4>1, <4>2, SameContent
      <4> QED
        BY <3>2, <4>2, <4>3
    <3> QED
      BY <1>4, <3>1, <3>2
  <2> QED
    BY <2>1, <2>2 DEF Content
<1>5. CASE Clear
  BY <1>4, <1>5 DEF Clear
<1>6. CASE CacheClear
  <2>1. UNCHANGED <<chunks, itemIndex, held>> /\ heap' = Collected(heap)
    BY <1>6 DEF CacheClear
  <2>2. ASSUME NEW k \in 1..Len(chunks)
        PROVE  heap'[chunks[k]] = heap[chunks[k]]
    <3>1. chunks[k] \in Cells /\ chunks[k] \in Range(chunks)
      BY DEF Inv, TypeOK, Range
    <3>2. chunks[k] \in Live'
      BY <2>1, <3>1 DEF Live
    <3> QED
      BY <2>1, <3>1, <3>2 DEF Collected
  <2> QED
    BY <1>4, <2>1, <2>2
<1>7. CASE \E o \in Holders : Snapshot(o)
  BY <1>7, SnapshotContent
<1>8. CASE \E o \in Holders : \E c \in Cells : CacheAdd(o, c)
  BY <1>4, <1>8 DEF CacheAdd
<1>9. CASE UNCHANGED vars
  BY <1>4, <1>9 DEF vars
<1> QED
  BY <1>2, <1>3, <1>5, <1>6, <1>7, <1>8, <1>9 DEF Next

\* The items a snapshot holds are a run that ends where the list ended.
LEMMA HeldItems ==
  ASSUME Inv, Content, NEW o \in Holders,
         NEW cs, cs = held[o].chunks, NEW n, n = held[o].until,
         NEW T, T = Total(heap, cs)
  PROVE  /\ cs \in Seq(Cells) /\ n \in Nat /\ T \in Int
         /\ Inside(heap, cs) /\ Holds(heap, cs, n) /\ FirstFilled(heap, cs)
         /\ T = Kept(n) /\ CountItems(cs) = T
         /\ Items(cs) = [p \in 1..T |-> n - T + p - 1]
<1>1. cs \in Seq(Cells) /\ n \in Nat /\ heap \in [Cells -> Seq(Nat)]
  BY DEF Inv, TypeOK
<1>2. Inside(heap, cs)
  BY DEF Inv, OnlyEndsPartial, IsFull, Inside
<1>3. Holds(heap, cs, n) /\ FirstFilled(heap, cs) /\ T = Kept(n)
  BY DEF Content
<1>4. CountItems(cs) = T
  BY DEF CountItems, Total
<1>5. T \in Int
  BY <1>1, Sizes
<1>6. Items(cs) = [p \in 1..T |-> n - T + p - 1]
  <2>1. n \in Int
    BY <1>1
  <2>2. Items(cs) = [p \in 1..Total(heap, cs) |-> n - Total(heap, cs) + p - 1]
    BY <1>1, <1>2, <1>3, <2>1, ItemsRun DEF Items
  <2> QED
    BY <2>2
<1> QED
  BY <1>1, <1>2, <1>3, <1>4, <1>5, <1>6

\* "Snapshot returns immutable snapshot of the ChunkList" (chunklist.go:81):
\* it reads, whatever has happened since, as the last Tail items there were.
THEOREM SnapshotsExact == Spec => []SnapshotExact
<1>1. Inv /\ Content => SnapshotExact
  <2> SUFFICES ASSUME Inv, Content, NEW o \in Holders
               PROVE  Items(held[o].chunks)
                        = [k \in 1..Kept(held[o].until) |->
                             held[o].until - Kept(held[o].until) + k - 1]
    BY DEF SnapshotExact, Kept
  <2> QED
    BY HeldItems
<1>2. Inv /\ Content /\ [Next]_vars => Inv' /\ Content'
  BY StepInv, StepContent
<1> QED
  BY InitInv, InitContent, <1>1, <1>2, PTL DEF Spec

(***************************************************************************)
(* The view of a snapshot                                                  *)
(***************************************************************************)

\* The chunks cs of heap h can be read as the items up to n.
Readable(h, cs, n) ==
    /\ h \in [Cells -> Seq(Nat)] /\ Bounded(h)
    /\ cs \in Seq(Cells) /\ cs # <<>> /\ n \in Int
    /\ Inside(h, cs) /\ Holds(h, cs, n)

\* What is in place r of the d-th chunk behind the first.
LEMMA AtChunk ==
  ASSUME NEW h, NEW cs, NEW n, Readable(h, cs, n),
         NEW d \in Nat, NEW r \in 0..ChunkSize-1,
         NEW i \in Nat, i = ChunkSize * d + r, i < Rest(h, cs, 1)
  PROVE  h[cs[d+2]][r+1] = n - Rest(h, cs, 1) + i
<1> USE SizeAssumption
<1>0. /\ h \in [Cells -> Seq(Nat)] /\ Bounded(h)
      /\ cs \in Seq(Cells) /\ cs # <<>> /\ n \in Int
      /\ Inside(h, cs) /\ Holds(h, cs, n)
  BY DEF Readable
<1> DEFINE m == Len(cs)
           e == Len(h[cs[m]])
           R == Rest(h, cs, 1)
<1>1. m \in Nat /\ m >= 1 /\ m \in 1..m /\ e \in Nat /\ e <= ChunkSize
  <2>1. Len(cs) \in Nat /\ Len(cs) >= 1 /\ Len(cs) \in 1..Len(cs) /\ cs[Len(cs)] \in Cells
    BY <1>0
  <2> QED
    BY <1>0, <2>1, Sizes DEF Bounded
<1>2. m >= 2
  <2>1. CASE m = 1
    <3>1. Rest(h, cs, 1) = 0
      BY <2>1 DEF Rest, After
    <3>2. i \in Nat /\ i < 0
      BY <3>1
    <3> QED
      BY <3>2
  <2>2. CASE m # 1
    <3> HIDE DEF m
    <3> QED
      BY <1>1, <2>2
  <2> QED
    BY <2>1, <2>2
<1>3. R = ChunkSize * (m - 2) + e
  <2>1. m # 1 /\ m - 1 - 1 = m - 2
    <3> HIDE DEF m
    <3> QED
      BY <1>1, <1>2
  <2> QED
    BY <2>1 DEF Rest, After
<1> DEFINE x == ChunkSize * d
           y == ChunkSize * (m - 2)
<1>4. x \in Nat /\ y \in Nat /\ x + r < y + e /\ i = x + r
  <2>1. m - 2 \in Nat
    <3> HIDE DEF m
    <3> QED
      BY <1>1, <1>2
  <2>2. x + r < y + e
    BY <1>3
  <2> HIDE DEF m
  <2> QED
    BY <2>1, <2>2
<1>5. d <= m - 2
  <2> SUFFICES ASSUME d >= m - 1 PROVE FALSE
    <3> HIDE DEF m
    <3> QED
      BY <1>1
  <2> HIDE DEF m, e
  <2>1. ChunkSize * d >= ChunkSize * (m - 1)
    BY <1>1
  <2>2. ChunkSize * (m - 1) = ChunkSize * (m - 2) + ChunkSize
    BY <1>1
  <2>3. x >= y + ChunkSize
    BY <2>1, <2>2
  <2> HIDE DEF x, y
  <2> QED
    BY <1>1, <1>4, <2>3
<1>6. d + 2 \in 1..m
  <2> HIDE DEF m
  <2> QED
    BY <1>1, <1>5
<1>7. IsRun(h[cs[d+2]], n - Rest(h, cs, d + 2) - Len(h[cs[d+2]]))
  BY <1>0, <1>6 DEF Holds
<1>8. CASE d = m - 2
  <2>1. d + 2 = m
    <3> HIDE DEF m
    <3> QED
      BY <1>1, <1>8
  <2>2. Rest(h, cs, d + 2) = 0 /\ Len(h[cs[d+2]]) = e
    BY <2>1 DEF Rest, After
  <2>3. x = y
    BY <1>8
  <2> HIDE DEF x, y, m, e, R
  <2>4. r < e /\ r + 1 \in 1..e
    BY <1>1, <1>4, <2>3
  <2>5. h[cs[d+2]][r+1] = n - Rest(h, cs, d + 2) - e + (r + 1) - 1
    BY <1>7, <2>2, <2>4 DEF IsRun
  <2>6. n - 0 - e + (r + 1) - 1 = n - (y + e) + (x + r)
    BY <1>0, <1>1, <1>4, <2>3
  <2>7. h[cs[d+2]][r+1] = n - R + i
    BY <1>3, <1>4, <2>2, <2>5, <2>6 DEF y
  <2> QED
    BY <2>7 DEF R
<1>9. CASE d # m - 2
  <2>1. d + 2 \in 2..m-1 /\ d + 2 # m
    <3> HIDE DEF m
    <3> QED
      BY <1>1, <1>5, <1>9
  <2>2. Len(h[cs[d+2]]) = ChunkSize
    BY <1>0, <2>1 DEF Inside
  <2> DEFINE z == ChunkSize * (m - (d + 2) - 1)
  <2>3. Rest(h, cs, d + 2) = z + e
    BY <2>1 DEF Rest, After
  <2>4. y = x + z + ChunkSize /\ z \in Int
    <3> HIDE DEF m
    <3>1. ChunkSize * (m - 2) = ChunkSize * d + ChunkSize * (m - (d + 2) - 1) + ChunkSize
      BY <1>1
    <3> QED
      BY <1>1, <3>1
  <2>5. r + 1 \in 1..ChunkSize
    OBVIOUS
  <2>6. h[cs[d+2]][r+1] = n - Rest(h, cs, d + 2) - ChunkSize + (r + 1) - 1
    BY <1>7, <2>2, <2>5 DEF IsRun
  <2>8. R = y + e
    BY <1>3
  <2> HIDE DEF x, y, z, m, e, R
  <2>7. n - (z + e) - ChunkSize + (r + 1) - 1 = n - R + (x + r)
    BY <1>0, <1>1, <1>4, <2>4, <2>8
  <2>9. h[cs[d+2]][r+1] = n - R + i
    BY <1>4, <2>3, <2>6, <2>7
  <2> QED
    BY <2>9 DEF R
<1> QED
  BY <1>8, <1>9

\* Get finds the i-th item of the snapshot, counting from 0.
LEMMA GetAt ==
  ASSUME Inv, Content, NEW o \in Holders,
         NEW cs, cs = held[o].chunks, NEW n, n = held[o].until,
         NEW i \in 0..CountItems(cs)-1
  PROVE  Get(cs, FALSE, i) = n - CountItems(cs) + i
<1> USE SizeAssumption
<1> DEFINE T == Total(heap, cs)
           R == Rest(heap, cs, 1)
           first == Len(heap[cs[1]])
<1>1. /\ cs \in Seq(Cells) /\ n \in Int /\ T \in Int
      /\ Inside(heap, cs) /\ Holds(heap, cs, n)
      /\ CountItems(cs) = T
  BY HeldItems
<1>2. heap \in [Cells -> Seq(Nat)] /\ Bounded(heap)
  BY DEF Inv, TypeOK, Small, Bounded
<1>3. cs # <<>>
  <2>1. cs = <<>> => T = 0
    BY DEF Total
  <2> HIDE DEF T
  <2> QED
    BY <1>1, <2>1
<1>4. /\ 1 \in 1..Len(cs) /\ cs[1] \in Cells
      /\ first \in Nat /\ first <= ChunkSize /\ R \in Int /\ T = first + R
  <2>1. 1 \in 1..Len(cs) /\ cs[1] \in Cells
    BY <1>1, <1>3
  <2> QED
    BY <1>1, <1>2, <1>3, <2>1, Sizes, TotalRest DEF Bounded
<1>5. i \in Nat /\ i < first + R
  <2> HIDE DEF T, R, first
  <2> QED
    BY <1>1, <1>4
<1>6. Get(cs, FALSE, i) =
        IF first < ChunkSize /\ i >= first
        THEN heap[cs[((i - first) \div ChunkSize) + 2]][((i - first) % ChunkSize) + 1]
        ELSE heap[cs[(i \div ChunkSize) + 1]][(i % ChunkSize) + 1]
  BY DEF Get
<1>10. Readable(heap, cs, n)
  BY <1>1, <1>2, <1>3 DEF Readable
\* Division by the size of a chunk.
<1>7. ASSUME NEW v \in Nat
      PROVE  /\ v \div ChunkSize \in Nat /\ v % ChunkSize \in 0..ChunkSize-1
             /\ v = ChunkSize * (v \div ChunkSize) + (v % ChunkSize)
  OBVIOUS
<1>8. CASE first < ChunkSize /\ i >= first
  <2> DEFINE d == (i - first) \div ChunkSize
             r == (i - first) % ChunkSize
  <2>1. i - first \in Nat
    <3> HIDE DEF first
    <3> QED
      BY <1>4, <1>5, <1>8
  <2>2. d \in Nat /\ r \in 0..ChunkSize-1 /\ i - first = ChunkSize * d + r
    BY <1>7, <2>1
  <2>3. Get(cs, FALSE, i) = heap[cs[d+2]][r+1]
    BY <1>6, <1>8
  <2> HIDE DEF d, r
  <2>4. i - first < R
    <3> HIDE DEF first, R
    <3> QED
      BY <1>4, <1>5
  <2>5. heap[cs[d+2]][r+1] = n - R + (i - first)
    <3> DEFINE x == i - first
    <3>1. x \in Nat /\ x = ChunkSize * d + r /\ x < R
      BY <2>1, <2>2, <2>4
    <3> HIDE DEF x
    <3>2. heap[cs[d+2]][r+1] = n - R + x
      BY <1>10, <2>2, <3>1, AtChunk
    <3> QED
      BY <3>2 DEF x
  <2>6. n - R + (i - first) = n - T + i
    <3> HIDE DEF first, R, T
    <3> QED
      BY <1>1, <1>4, <1>5
  <2> QED
    BY <1>1, <2>2, <2>3, <2>5, <2>6
<1>9. CASE ~(first < ChunkSize /\ i >= first)
  <2> DEFINE d == i \div ChunkSize
             r == i % ChunkSize
  <2>1. d \in Nat /\ r \in 0..ChunkSize-1 /\ i = ChunkSize * d + r
    BY <1>5, <1>7
  <2>2. Get(cs, FALSE, i) = heap[cs[d+1]][r+1]
    BY <1>6, <1>9
  <2> HIDE DEF d, r
  <2>3. CASE i < first
    <3>1. d = 0
      <4> SUFFICES ASSUME d >= 1 PROVE FALSE
        BY <2>1
      <4>1. ChunkSize * d >= ChunkSize
        BY <2>1
      <4> DEFINE x == ChunkSize * d
      <4>2. x >= ChunkSize /\ i = x + r
        BY <2>1, <4>1
      <4> HIDE DEF x, first
      <4> QED
        BY <1>4, <1>5, <2>1, <2>3, <4>2
    <3>2. r = i
      BY <2>1, <3>1
    <3>3. i + 1 \in 1..first
      <4> HIDE DEF first
      <4> QED
        BY <1>4, <1>5, <2>3
    <3>4. IsRun(heap[cs[1]], n - R - first)
      BY <1>1, <1>4 DEF Holds
    <3>5. heap[cs[1]][i+1] = n - R - first + (i + 1) - 1
      BY <3>3, <3>4 DEF IsRun
    <3>6. n - R - first + (i + 1) - 1 = n - T + i
      <4> HIDE DEF first, R, T
      <4> QED
        BY <1>1, <1>4, <1>5
    <3>7. d + 1 = 1 /\ r + 1 = i + 1
      BY <3>1, <3>2
    <3> QED
      BY <1>1, <2>2, <3>5, <3>6, <3>7
  <2>4. CASE i >= first
    <3>1. first = ChunkSize
      <4> HIDE DEF first
      <4> QED
        BY <1>4, <1>9, <2>4
    <3>2. d >= 1
      <4> SUFFICES ASSUME d = 0 PROVE FALSE
        BY <2>1
      <4>1. i = r
        BY <2>1
      <4> HIDE DEF first
      <4> QED
        BY <2>1, <2>4, <3>1, <4>1
    <3> DEFINE k == d - 1
    <3>3. k \in Nat /\ k + 2 = d + 1
      BY <2>1, <3>2
    <3>4. ChunkSize * d = ChunkSize * k + ChunkSize
      BY <2>1
    <3> HIDE DEF k
    <3> DEFINE x == ChunkSize * k
    <3>5. i = x + ChunkSize + r /\ x \in Nat
      <4>1. x \in Nat
        BY <3>3
      <4> QED
        BY <2>1, <3>3, <3>4, <4>1
    <3>6. x + r < R
      <4> HIDE DEF x, first, R
      <4> QED
        BY <1>4, <1>5, <2>1, <3>1, <3>5
    <3>7. heap[cs[k+2]][r+1] = n - R + (x + r)
      <4> DEFINE q == x + r
      <4>1. q \in Nat /\ q = ChunkSize * k + r /\ q < R
        BY <2>1, <3>5, <3>6
      <4> HIDE DEF q
      <4>2. heap[cs[k+2]][r+1] = n - R + q
        BY <1>10, <2>1, <3>3, <4>1, AtChunk
      <4> QED
        BY <4>2 DEF q
    <3>8. n - R + (x + r) = n - T + i
      <4> HIDE DEF x, first, R, T
      <4> QED
        BY <1>1, <1>4, <2>1, <3>1, <3>5
    <3> QED
      BY <1>1, <2>2, <3>3, <3>7, <3>8
  <2>5. i < first \/ i >= first
    <3> HIDE DEF first
    <3> QED
      BY <1>4, <1>5
  <2> QED
    BY <2>3, <2>4, <2>5
<1> QED
  BY <1>8, <1>9

\* The pass merger shows the snapshot, reversed by --tac, and FindIndex is
\* where an item is shown (merger.go:88-121).
THEOREM PassViewsExact == Spec => []PassViewExact
<1>1. ASSUME Inv, Content
      PROVE  PassViewExact
  <2> SUFFICES ASSUME NEW o \in Holders, NEW tac \in BOOLEAN,
                      NEW k \in 1..Len(Items(held[o].chunks))
               PROVE  LET cs == held[o].chunks
                          s  == Items(cs)
                      IN  /\ Get(cs, tac, k - 1) = IF tac THEN s[Len(s) - k + 1] ELSE s[k]
                          /\ FindIndex(cs, tac, Get(cs, tac, k - 1)) = k - 1
    BY DEF PassViewExact
  <2> DEFINE cs == held[o].chunks
             n  == held[o].until
             T  == Total(heap, cs)
             s  == Items(cs)
             i  == IF tac THEN T - k ELSE k - 1
  <2>1. /\ cs \in Seq(Cells) /\ n \in Nat /\ T \in Int
        /\ Holds(heap, cs, n) /\ FirstFilled(heap, cs)
        /\ CountItems(cs) = T
        /\ s = [p \in 1..T |-> n - T + p - 1]
    <3>1. cs = held[o].chunks /\ n = held[o].until /\ T = Total(heap, cs)
      OBVIOUS
    <3> HIDE DEF cs, n, T
    <3>2. /\ cs \in Seq(Cells) /\ n \in Nat /\ T \in Int
          /\ Inside(heap, cs) /\ Holds(heap, cs, n) /\ FirstFilled(heap, cs)
          /\ T = Kept(n) /\ CountItems(cs) = T
          /\ Items(cs) = [p \in 1..T |-> n - T + p - 1]
      BY <1>1, <3>1, HeldItems
    <3> QED
      BY <3>2
  <2>11. heap \in [Cells -> Seq(Nat)]
    BY <1>1 DEF Inv, TypeOK
  <2>2. /\ Len(s) = T /\ k \in 1..T /\ T \in Nat
        /\ \A p \in 1..T : s[p] = n - T + p - 1
    <3>1. T \in Nat
      <4>1. T = Kept(n)
        BY <1>1, HeldItems
      <4> QED
        BY <2>1, <4>1, SizeAssumption DEF Kept
    <3> HIDE DEF T, n, s
    <3>2. Len(s) = T
      BY <2>1, <3>1
    <3>3. k \in 1..Len(s)
      BY DEF s
    <3> QED
      BY <2>1, <3>1, <3>2, <3>3
  <2>3. i \in 0..T-1
    <3> HIDE DEF T
    <3> QED
      BY <2>2
  <2>4. Get(cs, tac, k - 1) = Get(cs, FALSE, i)
    <3>1. CASE tac = FALSE
      BY <3>1
    <3>2. CASE tac = TRUE
      <4>1. CountItems(cs) - (k - 1) - 1 = i
        <5>1. i = T - k
          BY <3>2
        <5> HIDE DEF T, i
        <5> QED
          BY <2>1, <2>2, <5>1
      <4> QED
        BY <3>2, <4>1 DEF Get
    <3> QED
      BY <3>1, <3>2
  <2>5. Get(cs, FALSE, i) = n - T + i
    <3>1. i \in 0..CountItems(cs)-1
      BY <2>1, <2>3
    <3>2. cs = held[o].chunks /\ n = held[o].until
      OBVIOUS
    <3> HIDE DEF T, i, cs, n
    <3>3. Get(cs, FALSE, i) = n - CountItems(cs) + i
      BY <1>1, <3>1, <3>2, GetAt
    <3> QED
      BY <2>1, <3>3
  <2>6. n - T + i = IF tac THEN s[Len(s) - k + 1] ELSE s[k]
    <3>1. CASE tac = FALSE
      <4>1. s[k] = n - T + k - 1 /\ i = k - 1
        BY <2>2, <3>1
      <4> HIDE DEF T, n, s, i
      <4> QED
        BY <2>1, <2>2, <3>1, <4>1
    <3>2. CASE tac = TRUE
      <4>1. i = T - k
        BY <3>2
      <4> HIDE DEF T, n, s, i
      <4>2. T - k + 1 \in 1..T
        BY <2>2
      <4>3. s[T - k + 1] = n - T + (T - k + 1) - 1
        BY <2>2, <4>2
      <4> QED
        BY <2>1, <2>2, <3>2, <4>1, <4>3
    <3> QED
      BY <3>1, <3>2
  <2>7. heap[cs[1]][1] = n - T
    <3> DEFINE first == Len(heap[cs[1]])
               R == Rest(heap, cs, 1)
    <3>1. Len(cs) \in Nat /\ cs # <<>> /\ 1 \in 1..Len(cs)
      <4>1. Len(cs) = 0 => T = 0
        BY DEF Total
      <4>2. Len(cs) # 0
        <5> HIDE DEF T, cs
        <5> QED
          BY <2>2, <4>1
      <4> HIDE DEF T, cs
      <4> QED
        BY <2>1, <4>2
    <3>2. T = first + R /\ first \in Nat /\ R \in Int
      <4> HIDE DEF cs
      <4> QED
        BY <2>1, <2>11, <3>1, TotalRest, Sizes
    <3>3. first > 0
      <4>1. CASE Len(cs) = 1
        <5>1. R = 0
          BY <4>1 DEF Rest, After
        <5> HIDE DEF T, first, R
        <5> QED
          BY <2>2, <3>2, <5>1
      <4>2. CASE Len(cs) # 1
        <5>1. Len(cs) > 1
          <6> DEFINE m == Len(cs)
          <6>1. m \in Nat /\ m \in 1..m /\ m # 1
            BY <3>1, <4>2
          <6> HIDE DEF m
          <6>2. m > 1
            BY <6>1
          <6> QED
            BY <6>2 DEF m
        <5> QED
          BY <2>1, <5>1 DEF FirstFilled
      <4> QED
        BY <4>1, <4>2
    <3>4. IsRun(heap[cs[1]], n - R - first)
      BY <2>1, <3>1 DEF Holds
    <3>5. 1 \in 1..first
      <4> HIDE DEF first
      <4> QED
        BY <3>2, <3>3
    <3>6. heap[cs[1]][1] = n - R - first + 1 - 1
      BY <3>4, <3>5 DEF IsRun
    <3>7. n - R - first + 1 - 1 = n - T
      <4> HIDE DEF n, R, first, T
      <4> QED
        BY <2>1, <3>2
    <3> QED
      BY <3>6, <3>7
  <2>8. FindIndex(cs, tac, n - T + i) = k - 1
    <3> DEFINE j == (n - T + i) - heap[cs[1]][1]
    <3>1. j = i
      <4>1. j = (n - T + i) - (n - T)
        BY <2>7
      <4> HIDE DEF n, T, i, j
      <4> QED
        BY <2>1, <2>3, <4>1
    <3>2. FindIndex(cs, tac, n - T + i) = IF tac THEN CountItems(cs) - j - 1 ELSE j
      BY DEF FindIndex
    <3>3. FindIndex(cs, tac, n - T + i) = IF tac THEN T - i - 1 ELSE i
      BY <2>1, <3>1, <3>2
    <3>4. (IF tac THEN T - i - 1 ELSE i) = k - 1
      <4>1. CASE tac = TRUE
        <5>1. i = T - k
          BY <4>1
        <5> HIDE DEF T, i
        <5> QED
          BY <2>2, <4>1, <5>1
      <4>2. CASE tac = FALSE
        BY <4>2
      <4> QED
        BY <4>1, <4>2
    <3> QED
      BY <3>3, <3>4
  <2> HIDE DEF T, n, i, s
  <2> QED
    BY <2>4, <2>5, <2>6, <2>8 DEF s
<1>2. Inv /\ Content => PassViewExact
  BY <1>1
<1>3. Inv /\ Content /\ [Next]_vars => Inv' /\ Content'
  BY StepInv, StepContent
<1> QED
  BY InitInv, InitContent, <1>2, <1>3, PTL DEF Spec

=============================================================================
