----------------------------- MODULE LocksProofs -----------------------------
(***************************************************************************)
(* Why the locks of the coordinator, the terminal's loop and the render    *)
(* loop fit together, for every combination of options and any capacity of *)
(* the event channel: the mutexes have an order, and no routine takes one  *)
(* while it holds a later one.  That holds for the rest of a routine at    *)
(* every point of it (Path), so of the threads that wait in a circle the   *)
(* one that wants the last mutex could not be waiting.                     *)
(***************************************************************************)
EXTENDS Locks, SequenceTheorems, TLAPS

\* The order of the mutexes; the last three are never held together.
Rank(m) == CASE m = "eventBox" -> 0
             [] m = "reqBox"   -> 1
             [] m = "uiMutex"  -> 2
             [] m = "mutex"    -> 3
             [] OTHER          -> 4

\* Thread t, which holds the mutexes H, may do op, and holds H1 then.  Only the
\* reader takes a mutex (eventBox) out of the order.
Takes(t, H, op, H1) ==
    /\ op \in Ops
    /\ op.op = "lock" => /\ t # "reader" => \A m \in H : Rank(m) < Rank(op.on)
                         /\ H1 = H \cup {op.on}
    /\ op.op = "unlock" => op.on \in H /\ H1 = H \ {op.on}
    /\ op.op \in {"send", "restart"} => H1 = H

\* t, holding H, may do all of ops, and holds G in the end.
Path(t, H, ops, G) ==
    /\ ops \in Seq(Ops)
    /\ \E h : /\ h[1] = H /\ h[Len(ops) + 1] = G
              /\ \A k \in 1..Len(ops) : Takes(t, h[k], ops[k], h[k+1])

Held(t) == {m \in Mutexes : owner[m] = t}

\* What t may hold when it has nothing to do.
Home(t) == IF t = "coordinator" THEN {{}, {"eventBox"}} ELSE {{}}

Ordered == \A t \in Threads : \E G \in Home(t) : Path(t, Held(t), todo[t], G)

Inv == TypeOK /\ Ordered

(***************************************************************************)
(* Paths                                                                   *)
(***************************************************************************)

LEMMA PlainOps ==
  /\ Send \in Ops /\ Send.op = "send"
  /\ Rerun \in Ops /\ Rerun.op = "restart"
  BY DEF Send, Rerun, Ops

LEMMA MutexOps ==
  ASSUME NEW m \in Mutexes
  PROVE  /\ Lock(m) \in Ops /\ Lock(m).op = "lock" /\ Lock(m).on = m
         /\ Unlock(m) \in Ops /\ Unlock(m).op = "unlock" /\ Unlock(m).on = m
<1>1. Lock(m) \in Ops /\ Unlock(m) \in Ops
  BY DEF Ops
<1>2. /\ Lock(m).op = "lock" /\ Lock(m).on = m
      /\ Unlock(m).op = "unlock" /\ Unlock(m).on = m
  BY DEF Lock, Unlock
<1> QED
  BY <1>1, <1>2

LEMMA OpsCases ==
  ASSUME NEW o \in Ops
  PROVE  /\ o.op \in {"lock", "unlock", "send", "restart"}
         /\ o.op \in {"lock", "unlock"} => o.on \in Mutexes
<1>1. CASE \E m \in Mutexes : o = Lock(m)
  BY MutexOps, <1>1
<1>2. CASE \E m \in Mutexes : o = Unlock(m)
  BY MutexOps, <1>2
<1>3. CASE o = Send \/ o = Rerun
  BY PlainOps, <1>3
<1> QED
  BY <1>1, <1>2, <1>3 DEF Ops

LEMMA Ranks ==
  /\ Rank("eventBox") = 0 /\ Rank("reqBox") = 1 /\ Rank("uiMutex") = 2 /\ Rank("mutex") = 3
  /\ Rank("chunks") = 4 /\ Rank("matcherBox") = 4 /\ Rank("previewBox") = 4
  BY DEF Rank

LEMMA Appended ==
  ASSUME NEW p \in Seq(Ops), NEW z \in Ops, NEW c, c = p \o <<z>>
  PROVE  /\ c \in Seq(Ops) /\ Len(c) = Len(p) + 1 /\ c[Len(p) + 1] = z
         /\ \A i \in 1..Len(p) : c[i] = p[i]
<1> DEFINE l == <<z>>
<1>1. l \in Seq(Ops) /\ Len(l) = 1 /\ l[1] = z /\ c = p \o l
  OBVIOUS
<1> HIDE DEF l
<1>2. /\ c \in Seq(Ops) /\ Len(c) = Len(p) + 1
      /\ \A i \in 1..Len(p) + 1 : c[i] = IF i <= Len(p) THEN p[i] ELSE l[i - Len(p)]
  BY <1>1, ConcatProperties
<1>3. Len(p) \in Nat
  OBVIOUS
<1> QED
  BY <1>1, <1>2, <1>3

LEMMA Pairs ==
  ASSUME NEW x \in Ops, NEW y \in Ops
  PROVE  <<x>> \o <<y>> = <<x, y>>
<1> DEFINE p == <<x>>
           w == <<x, y>>
           c == p \o <<y>>
<1>1. p \in Seq(Ops) /\ Len(p) = 1 /\ p[1] = x
  OBVIOUS
<1>2. w \in Seq(Ops) /\ Len(w) = 2 /\ w[1] = x /\ w[2] = y
  OBVIOUS
<1> HIDE DEF p, w
<1>3. c = p \o <<y>>
  OBVIOUS
<1> HIDE DEF c
<1>4. c \in Seq(Ops) /\ Len(c) = 2 /\ c[1] = x /\ c[2] = y
  BY <1>1, <1>3, Appended
<1>5. c = w
  BY <1>2, <1>4, SeqEqual
<1> QED
  BY <1>5 DEF c, p, w

LEMMA Triples ==
  ASSUME NEW x \in Ops, NEW y \in Ops, NEW z \in Ops
  PROVE  <<x>> \o <<y>> \o <<z>> = <<x, y, z>>
<1> DEFINE p == <<x, y>>
           w == <<x, y, z>>
           c == p \o <<z>>
<1>1. p \in Seq(Ops) /\ Len(p) = 2 /\ p[1] = x /\ p[2] = y
  OBVIOUS
<1>2. w \in Seq(Ops) /\ Len(w) = 3 /\ w[1] = x /\ w[2] = y /\ w[3] = z
  OBVIOUS
<1> HIDE DEF p, w
<1>3. c = p \o <<z>>
  OBVIOUS
<1> HIDE DEF c
<1>4. c \in Seq(Ops) /\ Len(c) = 3 /\ c[1] = x /\ c[2] = y /\ c[3] = z
  BY <1>1, <1>3, Appended
<1>5. c = w
  BY <1>2, <1>4, SeqEqual
<1> QED
  BY <1>5, Pairs DEF c, p, w

LEMMA PathNone ==
  ASSUME NEW t, NEW H
  PROVE  Path(t, H, <<>>, H)
<1> DEFINE h == [k \in {1} |-> H]
<1>1. h[1] = H /\ h[Len(<<>>) + 1] = H /\ <<>> \in Seq(Ops) /\ 1..Len(<<>>) = {}
  OBVIOUS
<1> QED
  BY <1>1 DEF Path

\* When nothing is left to do, what is held stays.
LEMMA PathEnd ==
  ASSUME NEW t, NEW H, NEW G, Path(t, H, <<>>, G)
  PROVE  H = G
  BY DEF Path

LEMMA PathOne ==
  ASSUME NEW t, NEW H, NEW op, NEW G, Takes(t, H, op, G)
  PROVE  Path(t, H, <<op>>, G)
<1> DEFINE h == <<H, G>>
<1>1. op \in Ops
  BY DEF Takes
<1>2. <<op>> \in Seq(Ops) /\ Len(<<op>>) = 1 /\ <<op>>[1] = op
  BY <1>1
<1>3. h[1] = H /\ h[2] = G
  OBVIOUS
<1>4. \A k \in 1..1 : Takes(t, h[k], <<op>>[k], h[k+1])
  BY <1>2, <1>3
<1> HIDE DEF h
<1> QED
  BY <1>2, <1>3, <1>4 DEF Path

LEMMA PathConcat ==
  ASSUME NEW t, NEW H, NEW a, NEW G, Path(t, H, a, G), NEW b, NEW F, Path(t, G, b, F)
  PROVE  Path(t, H, a \o b, F)
<1>1. PICK f : /\ f[1] = H /\ f[Len(a) + 1] = G
               /\ \A k \in 1..Len(a) : Takes(t, f[k], a[k], f[k+1])
  BY DEF Path
<1>2. PICK g : /\ g[1] = G /\ g[Len(b) + 1] = F
               /\ \A k \in 1..Len(b) : Takes(t, g[k], b[k], g[k+1])
  BY DEF Path
<1>3. /\ a \in Seq(Ops) /\ b \in Seq(Ops) /\ Len(a) \in Nat /\ Len(b) \in Nat
      /\ a \o b \in Seq(Ops) /\ Len(a \o b) = Len(a) + Len(b)
      /\ \A k \in 1..Len(a) + Len(b) : (a \o b)[k] = IF k <= Len(a) THEN a[k] ELSE b[k - Len(a)]
  BY DEF Path
<1> DEFINE m == Len(a)
           n == Len(b)
           c == a \o b
<1> DEFINE h == [k \in 1..m + n + 1 |-> IF k <= m THEN f[k] ELSE g[k - m]]
<1>4. \A k \in 1..m + n + 1 : h[k] = IF k <= m THEN f[k] ELSE g[k - m]
  OBVIOUS
<1>5. /\ m \in Nat /\ n \in Nat /\ c \in Seq(Ops) /\ Len(c) = m + n
      /\ \A k \in 1..m + n : c[k] = IF k <= m THEN a[k] ELSE b[k - m]
      /\ f[1] = H /\ f[m + 1] = G /\ \A k \in 1..m : Takes(t, f[k], a[k], f[k+1])
      /\ g[1] = G /\ g[n + 1] = F /\ \A k \in 1..n : Takes(t, g[k], b[k], g[k+1])
  BY <1>1, <1>2, <1>3
<1> HIDE DEF m, n, c, h
<1>6. h[m + 1] = G
  <2>1. m + 1 \in 1..m + n + 1 /\ ~(m + 1 <= m) /\ (m + 1) - m = 1
    BY <1>5
  <2> QED
    BY <1>4, <1>5, <2>1
<1>7. h[1] = H
  <2>1. CASE m = 0
    <3>1. H = G
      BY <1>5, <2>1
    <3> QED
      BY <1>6, <2>1, <3>1
  <2>2. CASE m # 0
    <3>1. 1 \in 1..m + n + 1 /\ 1 <= m
      BY <1>5, <2>2
    <3> QED
      BY <1>4, <1>5, <3>1
  <2> QED
    BY <2>1, <2>2
<1>8. h[m + n + 1] = F
  <2>1. m + n + 1 \in 1..m + n + 1 /\ ~(m + n + 1 <= m) /\ (m + n + 1) - m = n + 1
    BY <1>5
  <2> QED
    BY <1>4, <1>5, <2>1
<1>9. ASSUME NEW k \in 1..m + n
      PROVE  Takes(t, h[k], c[k], h[k+1])
  <2>1. CASE k <= m
    <3>1. k \in 1..m /\ k \in 1..m + n + 1 /\ k + 1 \in 1..m + n + 1
      BY <1>5, <2>1
    <3>2. h[k] = f[k] /\ c[k] = a[k]
      BY <1>4, <1>5, <2>1, <3>1
    <3>3. h[k+1] = f[k+1]
      <4>1. CASE k = m
        BY <1>5, <1>6, <4>1
      <4>2. CASE k # m
        <5>1. k + 1 <= m
          BY <1>5, <2>1, <4>2
        <5> QED
          BY <1>4, <3>1, <5>1
      <4> QED
        BY <4>1, <4>2
    <3> QED
      BY <1>5, <3>1, <3>2, <3>3
  <2>2. CASE ~(k <= m)
    <3> DEFINE j == k - m
    <3>1. /\ j \in 1..n /\ k \in 1..m + n + 1 /\ k + 1 \in 1..m + n + 1
          /\ ~(k + 1 <= m) /\ (k + 1) - m = j + 1
      BY <1>5, <2>2
    <3>2. h[k] = g[j] /\ c[k] = b[j]
      BY <1>4, <1>5, <2>2, <3>1
    <3>3. h[k+1] = g[j+1]
      BY <1>4, <3>1
    <3> HIDE DEF j
    <3> QED
      BY <1>5, <3>1, <3>2, <3>3
  <2> QED
    BY <2>1, <2>2
<1>10. Path(t, H, c, F)
  BY <1>5, <1>7, <1>8, <1>9 DEF Path
<1> QED
  BY <1>10 DEF c

\* The first operation of a path, and what is left of it.
LEMMA PathStep ==
  ASSUME NEW t, NEW H, NEW ops, NEW G, Path(t, H, ops, G), ops # <<>>
  PROVE  \E H1 : Takes(t, H, Head(ops), H1) /\ Path(t, H1, Tail(ops), G)
<1>1. PICK f : /\ f[1] = H /\ f[Len(ops) + 1] = G
               /\ \A k \in 1..Len(ops) : Takes(t, f[k], ops[k], f[k+1])
  BY DEF Path
<1> DEFINE n == Len(ops)
           r == Tail(ops)
           g == [k \in 1..n |-> f[k+1]]
<1>2. /\ n \in Nat /\ n >= 1 /\ ops \in Seq(Ops) /\ Head(ops) = ops[1]
      /\ r \in Seq(Ops) /\ Len(r) = n - 1 /\ \A k \in 1..n-1 : r[k] = ops[k+1]
  BY DEF Path
<1>3. Takes(t, H, Head(ops), f[2])
  <2>1. 1 \in 1..n
    BY <1>2
  <2> QED
    BY <1>1, <1>2, <2>1
<1>4. Path(t, f[2], r, G)
  <2>1. \A k \in 1..n : g[k] = f[k+1]
    OBVIOUS
  <2>2. f[n+1] = G /\ \A k \in 1..n : Takes(t, f[k], ops[k], f[k+1])
    BY <1>1
  <2> HIDE DEF n, r, g
  <2>3. g[1] = f[2] /\ g[Len(r) + 1] = G
    BY <1>2, <2>1, <2>2
  <2>4. ASSUME NEW k \in 1..Len(r)
        PROVE  Takes(t, g[k], r[k], g[k+1])
    <3>1. k \in 1..n-1 /\ k \in 1..n /\ k + 1 \in 1..n
      BY <1>2
    <3>2. g[k] = f[k+1] /\ g[k+1] = f[(k+1)+1] /\ r[k] = ops[k+1]
      BY <1>2, <2>1, <3>1
    <3> QED
      BY <2>2, <3>1, <3>2
  <2> QED
    BY <1>2, <2>3, <2>4 DEF Path
<1> QED
  BY <1>3, <1>4

\* Taking a mutex that comes after all that are held, giving one back.
LEMMA PathLock ==
  ASSUME NEW t, NEW H, NEW m \in Mutexes, t # "reader" => \A x \in H : Rank(x) < Rank(m)
  PROVE  Path(t, H, <<Lock(m)>>, H \cup {m})
<1>1. Takes(t, H, Lock(m), H \cup {m})
  BY MutexOps, PlainOps DEF Takes
<1> QED
  BY <1>1, PathOne

LEMMA PathUnlock ==
  ASSUME NEW t, NEW H, NEW m \in H, m \in Mutexes
  PROVE  Path(t, H, <<Unlock(m)>>, H \ {m})
<1>1. Takes(t, H, Unlock(m), H \ {m})
  BY MutexOps, PlainOps DEF Takes
<1> QED
  BY <1>1, PathOne

\* A short critical section.
LEMMA PathWith ==
  ASSUME NEW t, NEW H, NEW m \in Mutexes, m \notin H,
         t # "reader" => \A x \in H : Rank(x) < Rank(m)
  PROVE  Path(t, H, With(m), H)
<1>1. Path(t, H, <<Lock(m)>>, H \cup {m})
  BY PathLock
<1>2. Path(t, H \cup {m}, <<Unlock(m)>>, (H \cup {m}) \ {m})
  BY PathUnlock
<1>3. (H \cup {m}) \ {m} = H
  OBVIOUS
<1>4. Path(t, H, <<Lock(m)>> \o <<Unlock(m)>>, H)
  BY <1>1, <1>2, <1>3, PathConcat
<1>5. <<Lock(m)>> \o <<Unlock(m)>> = With(m)
  BY MutexOps, PlainOps, Pairs DEF With
<1> QED
  BY <1>4, <1>5

\* A routine after which the same mutexes are held.
Keeps(t, H, ops) == Path(t, H, ops, H)

LEMMA KeepsConcat ==
  ASSUME NEW t, NEW H, NEW a, Keeps(t, H, a), NEW b, Keeps(t, H, b)
  PROVE  Keeps(t, H, a \o b)
  BY PathConcat DEF Keeps

LEMMA KeepsOne ==
  ASSUME NEW t, NEW H
  PROVE  Keeps(t, H, <<Send>>) /\ Keeps(t, H, <<Rerun>>) /\ Keeps(t, H, <<>>)
<1>1. Takes(t, H, Send, H) /\ Takes(t, H, Rerun, H)
  BY MutexOps, PlainOps DEF Takes
<1> QED
  BY <1>1, PathOne, PathNone DEF Keeps

LEMMA KeepsSends ==
  ASSUME NEW t, NEW H, NEW n \in Nat
  PROVE  Keeps(t, H, [i \in 1..n |-> Send])
<1> DEFINE s == [i \in 1..n |-> Send]
           h == [k \in 1..n + 1 |-> H]
<1>1. s \in Seq(Ops) /\ Len(s) = n /\ \A k \in 1..n : s[k] = Send
  BY MutexOps, PlainOps
<1>2. \A k \in 1..n + 1 : h[k] = H
  OBVIOUS
<1>3. Takes(t, H, Send, H)
  BY MutexOps, PlainOps DEF Takes
<1> HIDE DEF s, h
<1>4. h[1] = H /\ h[n + 1] = H
  BY <1>2
<1>5. ASSUME NEW k \in 1..n
      PROVE  Takes(t, h[k], s[k], h[k+1])
  <2>1. k \in 1..n + 1 /\ k + 1 \in 1..n + 1
    OBVIOUS
  <2> QED
    BY <1>1, <1>2, <1>3, <2>1
<1>6. Keeps(t, H, s)
  BY <1>1, <1>4, <1>5 DEF Keeps, Path
<1> QED
  BY <1>6 DEF s

(***************************************************************************)
(* The routines                                                            *)
(***************************************************************************)

Batch == {"eventBox"}

\* The coordinator in its batch takes other mutexes one at a time.
LEMMA BatchWith ==
  ASSUME NEW m \in Mutexes, m # "eventBox"
  PROVE  Keeps("coordinator", Batch, With(m))
<1>1. Rank("eventBox") < Rank(m)
  BY Ranks DEF Mutexes
<1>2. m \notin Batch /\ \A x \in Batch : Rank(x) < Rank(m)
  BY <1>1 DEF Batch
<1> QED
  BY <1>2, PathWith DEF Keeps

LEMMA BatchSections ==
  /\ Keeps("coordinator", Batch, With("chunks"))
  /\ Keeps("coordinator", Batch, With("matcherBox"))
  /\ Keeps("coordinator", Batch, With("mutex"))
  /\ Keeps("coordinator", Batch, With("reqBox"))
  BY BatchWith DEF Mutexes

LEMMA ReadKeeps ==
  \A r \in ReadRoutines : Keeps("coordinator", Batch, r)
<1> DEFINE a == With("mutex")
           b == With("reqBox")
           c == With("matcherBox")
           d == With("chunks")
<1>1. /\ Keeps("coordinator", Batch, a) /\ Keeps("coordinator", Batch, b)
      /\ Keeps("coordinator", Batch, c) /\ Keeps("coordinator", Batch, d)
  BY BatchSections
<1>2. ReadRoutines = {a \o b \o a \o c, d \o (a \o b \o a \o c)}
  BY DEF ReadRoutines
<1> HIDE DEF a, b, c, d
<1>3. Keeps("coordinator", Batch, a \o b)
  BY <1>1, KeepsConcat
<1>4. Keeps("coordinator", Batch, a \o b \o a)
  BY <1>1, <1>3, KeepsConcat
<1>5. Keeps("coordinator", Batch, a \o b \o a \o c)
  BY <1>1, <1>4, KeepsConcat
<1>6. Keeps("coordinator", Batch, d \o (a \o b \o a \o c))
  BY <1>1, <1>5, KeepsConcat
<1> QED
  BY <1>2, <1>5, <1>6

LEMMA ResetKeeps ==
  \A r \in ResetRoutines : Keeps("coordinator", Batch, r)
<1> DEFINE a == With("mutex")
           c == With("matcherBox")
           d == With("chunks")
<1>1. /\ Keeps("coordinator", Batch, a) /\ Keeps("coordinator", Batch, c)
      /\ Keeps("coordinator", Batch, d)
  BY BatchSections
<1>2. ResetRoutines = {a \o c, d \o (a \o c)}
  BY DEF ResetRoutines
<1> HIDE DEF a, c, d
<1>3. Keeps("coordinator", Batch, a \o c)
  BY <1>1, KeepsConcat
<1>4. Keeps("coordinator", Batch, d \o (a \o c))
  BY <1>1, <1>3, KeepsConcat
<1> QED
  BY <1>2, <1>3, <1>4

LEMMA RestartKeeps ==
  /\ Keeps("coordinator", Batch, RestartRoutine)
  /\ \A r \in {<<>>} \cup ResetRoutines : Keeps("coordinator", Batch, RestartRoutine \o r)
<1>1. Keeps("coordinator", Batch, RestartRoutine)
  BY BatchSections, KeepsOne, KeepsConcat DEF RestartRoutine
<1>2. \A r \in {<<>>} \cup ResetRoutines : Keeps("coordinator", Batch, r)
  BY ResetKeeps, KeepsOne
<1> QED
  BY <1>1, <1>2, KeepsConcat

LEMMA ShowKeeps ==
  Keeps("coordinator", Batch, ShowRoutine)
  BY BatchSections, KeepsConcat DEF ShowRoutine

LEMMA ListKeeps ==
  ASSUME NEW n \in Nat
  PROVE  Keeps("coordinator", Batch, ListRoutine(n))
<1> DEFINE H == Batch \cup {"mutex"}
           s == [i \in 1..n |-> Send]
<1>1. /\ "mutex" \in Mutexes /\ "mutex" \notin Batch /\ H \ {"mutex"} = Batch /\ "mutex" \in H
      /\ \A x \in Batch : Rank(x) < Rank("mutex")
  BY Ranks DEF Batch, Mutexes
<1>2. Path("coordinator", Batch, <<Lock("mutex")>>, H)
  BY <1>1, PathLock
<1>3. Path("coordinator", H, s, H)
  BY KeepsSends DEF Keeps
<1>4. Path("coordinator", H, <<Unlock("mutex")>>, H \ {"mutex"})
  BY <1>1, PathUnlock
<1>5. Path("coordinator", Batch, With("reqBox"), Batch)
  BY BatchSections DEF Keeps
<1>6. ListRoutine(n) = <<Lock("mutex")>> \o s \o <<Unlock("mutex")>> \o With("reqBox")
  BY DEF ListRoutine
<1> HIDE DEF s, H
<1>7. Path("coordinator", Batch, <<Lock("mutex")>> \o s, H)
  BY <1>2, <1>3, PathConcat
<1>8. Path("coordinator", Batch, <<Lock("mutex")>> \o s \o <<Unlock("mutex")>>, Batch)
  BY <1>1, <1>4, <1>7, PathConcat
<1> QED
  BY <1>5, <1>6, <1>8, PathConcat DEF Keeps

LEMMA BatchBounds ==
  /\ Path("coordinator", {}, <<Lock("eventBox")>>, Batch)
  /\ Path("coordinator", Batch, <<Unlock("eventBox")>>, {})
<1>1. "eventBox" \in Mutexes /\ {} \cup {"eventBox"} = Batch
      /\ "eventBox" \in Batch /\ Batch \ {"eventBox"} = {}
  BY DEF Batch, Mutexes
<1>2. Path("coordinator", {}, <<Lock("eventBox")>>, {} \cup {"eventBox"})
  BY <1>1, PathLock
<1>3. Path("coordinator", Batch, <<Unlock("eventBox")>>, Batch \ {"eventBox"})
  BY <1>1, PathUnlock
<1> QED
  BY <1>1, <1>2, <1>3

\* The reader sets its events with the item list locked.
LEMMA ReaderKeeps ==
  /\ Keeps("reader", {}, With("chunks"))
  /\ Keeps("reader", {}, With("eventBox"))
  /\ Keeps("reader", {}, <<Lock("chunks")>> \o With("eventBox") \o <<Unlock("chunks")>>)
<1>1. "chunks" \in Mutexes /\ "eventBox" \in Mutexes /\ "eventBox" \notin {"chunks"}
      /\ {} \cup {"chunks"} = {"chunks"} /\ {"chunks"} \ {"chunks"} = {}
  BY DEF Mutexes
<1>2. Keeps("reader", {}, With("chunks")) /\ Keeps("reader", {}, With("eventBox"))
  BY <1>1, PathWith DEF Keeps
<1>3. Path("reader", {}, <<Lock("chunks")>>, {} \cup {"chunks"})
  BY <1>1, PathLock
<1>4. Path("reader", {"chunks"}, With("eventBox"), {"chunks"})
  BY <1>1, PathWith
<1>5. Path("reader", {"chunks"}, <<Unlock("chunks")>>, {"chunks"} \ {"chunks"})
  BY <1>1, PathUnlock
<1>6. Path("reader", {}, <<Lock("chunks")>> \o With("eventBox"), {"chunks"})
  BY <1>1, <1>3, <1>4, PathConcat
<1>7. Path("reader", {}, <<Lock("chunks")>> \o With("eventBox") \o <<Unlock("chunks")>>, {})
  BY <1>1, <1>5, <1>6, PathConcat
<1> QED
  BY <1>2, <1>7 DEF Keeps

\* The info command runs without the mutex.
LEMMA InfoKeeps ==
  ASSUME NEW t, NEW H, "mutex" \notin H, \A x \in H : Rank(x) < 3,
         NEW i \in InfoRoutines
  PROVE  Keeps(t, H \cup {"mutex"}, i)
<1> DEFINE G == H \cup {"mutex"}
<1>1. "mutex" \in Mutexes /\ "mutex" \in G /\ G \ {"mutex"} = H
      /\ \A x \in H : Rank(x) < Rank("mutex")
  BY Ranks DEF Mutexes
<1>2. Path(t, G, <<Unlock("mutex")>>, G \ {"mutex"})
  BY <1>1, PathUnlock
<1>3. Path(t, H, <<Lock("mutex")>>, G)
  BY <1>1, PathLock
<1>4. Keeps(t, G, <<Unlock("mutex")>> \o <<Lock("mutex")>>)
  BY <1>1, <1>2, <1>3, PathConcat DEF Keeps
<1>5. <<Unlock("mutex")>> \o <<Lock("mutex")>> = <<Unlock("mutex"), Lock("mutex")>>
  BY <1>1, MutexOps, PlainOps, Pairs
<1>6. i = <<>> \/ i = <<Unlock("mutex"), Lock("mutex")>>
  BY DEF InfoRoutines
<1> QED
  BY <1>4, <1>5, <1>6, KeepsOne

\* The preview box comes last.
LEMMA PreviewKeeps ==
  ASSUME NEW t, NEW H, "previewBox" \notin H, \A x \in H : Rank(x) < 4
  PROVE  Keeps(t, H, With("previewBox"))
<1>1. "previewBox" \in Mutexes /\ \A x \in H : Rank(x) < Rank("previewBox")
  BY Ranks DEF Mutexes
<1> QED
  BY <1>1, PathWith DEF Keeps

\* A command locks the user interface with the mutex released.
LEMMA ExecuteKeeps ==
  ASSUME NEW i \in InfoRoutines
  PROVE  Keeps("loop", {"mutex"}, Execute(i))
<1> DEFINE u == {"uiMutex"}
           b == {"uiMutex", "mutex"}
           m == {"mutex"}
<1>1. /\ "mutex" \in Mutexes /\ "uiMutex" \in Mutexes
      /\ m \ {"mutex"} = {} /\ {} \cup {"uiMutex"} = u /\ u \cup {"mutex"} = b
      /\ b \ {"uiMutex"} = m
      /\ "mutex" \in m /\ "uiMutex" \in b /\ "mutex" \notin u
      /\ \A x \in u : Rank(x) < Rank("mutex") /\ Rank(x) < 3
  BY Ranks DEF Mutexes
<1> HIDE DEF u, b, m
<1>2. Path("loop", m, <<Unlock("mutex")>>, {})
  BY <1>1, PathUnlock
<1>3. Path("loop", {}, <<Lock("uiMutex")>>, u)
  <2>1. Path("loop", {}, <<Lock("uiMutex")>>, {} \cup {"uiMutex"})
    BY <1>1, PathLock
  <2> QED
    BY <1>1, <2>1
<1>4. Path("loop", u, <<Lock("mutex")>>, b)
  BY <1>1, PathLock
<1>5. Path("loop", b, i, b)
  BY <1>1, InfoKeeps DEF Keeps
<1>6. Path("loop", b, <<Unlock("uiMutex")>>, m)
  BY <1>1, PathUnlock
<1>7. Path("loop", m, <<Unlock("mutex")>> \o <<Lock("uiMutex")>>, u)
  BY <1>2, <1>3, PathConcat
<1>8. Path("loop", m, <<Unlock("mutex")>> \o <<Lock("uiMutex")>> \o <<Lock("mutex")>>, b)
  BY <1>4, <1>7, PathConcat
<1>9. <<Unlock("mutex")>> \o <<Lock("uiMutex")>> \o <<Lock("mutex")>>
        = <<Unlock("mutex"), Lock("uiMutex"), Lock("mutex")>>
  BY <1>1, MutexOps, PlainOps, Triples
<1>10. Path("loop", m, <<Unlock("mutex"), Lock("uiMutex"), Lock("mutex")>>, b)
  BY <1>8, <1>9
<1>11. Path("loop", m, <<Unlock("mutex"), Lock("uiMutex"), Lock("mutex")>> \o i, b)
  BY <1>5, <1>10, PathConcat
<1>12. Keeps("loop", m, Execute(i))
  BY <1>6, <1>11, PathConcat DEF Execute, Keeps
<1> QED
  BY <1>12 DEF m

LEMMA LoopKeeps ==
  ASSUME NEW a \in Actions, NEW s \in {<<>>, With("eventBox")}, NEW r \in {<<>>, With("reqBox")}
  PROVE  Keeps("loop", {}, <<Lock("mutex")>> \o a \o <<Unlock("mutex")>> \o s \o r)
<1>1. /\ "mutex" \in Mutexes /\ "eventBox" \in Mutexes /\ "reqBox" \in Mutexes
      /\ {} \cup {"mutex"} = {"mutex"} /\ {"mutex"} \ {"mutex"} = {}
      /\ "previewBox" \notin {"mutex"} /\ \A x \in {"mutex"} : Rank(x) < 4
  BY Ranks DEF Mutexes
<1>2. Path("loop", {}, <<Lock("mutex")>>, {"mutex"})
  <2>1. Path("loop", {}, <<Lock("mutex")>>, {} \cup {"mutex"})
    BY <1>1, PathLock
  <2> QED
    BY <1>1, <2>1
<1>3. Path("loop", {"mutex"}, a, {"mutex"})
  <2>1. CASE a = <<>>
    BY <2>1, KeepsOne DEF Keeps
  <2>2. CASE a = With("previewBox")
    BY <1>1, <2>2, PreviewKeeps DEF Keeps
  <2>3. CASE \E i \in InfoRoutines : a = Execute(i)
    BY <2>3, ExecuteKeeps DEF Keeps
  <2> QED
    BY <2>1, <2>2, <2>3 DEF Actions
<1>4. Path("loop", {"mutex"}, <<Unlock("mutex")>>, {})
  BY <1>1, PathUnlock
<1>5. Keeps("loop", {}, With("eventBox")) /\ Keeps("loop", {}, With("reqBox"))
  BY <1>1, PathWith DEF Keeps
<1>6. Keeps("loop", {}, s) /\ Keeps("loop", {}, r)
  BY <1>5, KeepsOne
<1>7. Path("loop", {}, <<Lock("mutex")>> \o a, {"mutex"})
  BY <1>2, <1>3, PathConcat
<1>8. Keeps("loop", {}, <<Lock("mutex")>> \o a \o <<Unlock("mutex")>>)
  BY <1>4, <1>7, PathConcat DEF Keeps
<1>9. Keeps("loop", {}, <<Lock("mutex")>> \o a \o <<Unlock("mutex")>> \o s)
  BY <1>6, <1>8, KeepsConcat
<1> QED
  BY <1>6, <1>9, KeepsConcat

LEMMA RenderKeeps ==
  ASSUME NEW d \in Drawings
  PROVE  Keeps("render", {}, RenderLocks \o d
                  \o <<Unlock("mutex"), Unlock("uiMutex"), Unlock("reqBox")>>)
<1> DEFINE q == {"reqBox"}
           u == {"reqBox", "uiMutex"}
           b == {"reqBox", "uiMutex", "mutex"}
<1>1. /\ "mutex" \in Mutexes /\ "uiMutex" \in Mutexes /\ "reqBox" \in Mutexes
      /\ {} \cup {"reqBox"} = q /\ q \cup {"uiMutex"} = u /\ u \cup {"mutex"} = b
      /\ b \ {"mutex"} = u /\ u \ {"uiMutex"} = q /\ q \ {"reqBox"} = {}
      /\ "mutex" \in b /\ "uiMutex" \in u /\ "reqBox" \in q
      /\ "mutex" \notin u /\ "previewBox" \notin b
      /\ \A x \in q : Rank(x) < Rank("uiMutex")
      /\ \A x \in u : Rank(x) < Rank("mutex") /\ Rank(x) < 3
      /\ \A x \in b : Rank(x) < 4
  BY Ranks DEF Mutexes
<1> HIDE DEF q, u, b
<1>2. Path("render", {}, RenderLocks, b)
  <2>1. Path("render", {}, <<Lock("reqBox")>>, {} \cup {"reqBox"})
    BY <1>1, PathLock
  <2>2. Path("render", q, <<Lock("uiMutex")>>, u)
    BY <1>1, PathLock
  <2>3. Path("render", u, <<Lock("mutex")>>, b)
    BY <1>1, PathLock
  <2>4. Path("render", {}, <<Lock("reqBox")>> \o <<Lock("uiMutex")>>, u)
    BY <1>1, <2>1, <2>2, PathConcat
  <2>5. Path("render", {}, <<Lock("reqBox")>> \o <<Lock("uiMutex")>> \o <<Lock("mutex")>>, b)
    BY <2>3, <2>4, PathConcat
  <2>6. <<Lock("reqBox")>> \o <<Lock("uiMutex")>> \o <<Lock("mutex")>> = RenderLocks
    BY <1>1, MutexOps, PlainOps, Triples DEF RenderLocks
  <2> QED
    BY <2>5, <2>6
<1>3. Path("render", b, <<Unlock("mutex"), Unlock("uiMutex"), Unlock("reqBox")>>, {})
  <2>1. Path("render", b, <<Unlock("mutex")>>, u)
    BY <1>1, PathUnlock
  <2>2. Path("render", u, <<Unlock("uiMutex")>>, q)
    BY <1>1, PathUnlock
  <2>3. Path("render", q, <<Unlock("reqBox")>>, {})
    BY <1>1, PathUnlock
  <2>4. Path("render", b, <<Unlock("mutex")>> \o <<Unlock("uiMutex")>>, q)
    BY <2>1, <2>2, PathConcat
  <2>5. Path("render", b, <<Unlock("mutex")>> \o <<Unlock("uiMutex")>> \o <<Unlock("reqBox")>>, {})
    BY <2>3, <2>4, PathConcat
  <2>6. <<Unlock("mutex")>> \o <<Unlock("uiMutex")>> \o <<Unlock("reqBox")>>
          = <<Unlock("mutex"), Unlock("uiMutex"), Unlock("reqBox")>>
    BY <1>1, MutexOps, PlainOps, Triples
  <2> QED
    BY <2>5, <2>6
<1>4. Path("render", b, d, b)
  <2>1. CASE d \in InfoRoutines
    BY <1>1, <2>1, InfoKeeps DEF Keeps
  <2>2. CASE d = With("previewBox")
    BY <1>1, <2>2, PreviewKeeps DEF Keeps
  <2>3. CASE d = <<Send>>
    BY <2>3, KeepsOne DEF Keeps
  <2> QED
    BY <2>1, <2>2, <2>3 DEF Drawings
<1>5. Path("render", {}, RenderLocks \o d, b)
  BY <1>2, <1>4, PathConcat
<1> QED
  BY <1>3, <1>5, PathConcat DEF Keeps

(***************************************************************************)
(* The invariant                                                           *)
(***************************************************************************)

\* What t has left to do is a path from what it holds to its home.
OnPath(t, H, ops) == \E G \in Home(t) : Path(t, H, ops, G)

LEMMA PathOps ==
  ASSUME NEW t, NEW H, NEW ops, OnPath(t, H, ops)
  PROVE  ops \in Seq(Ops)
  BY DEF OnPath, Path

LEMMA LocksInit ==
  Init => Inv
<1> SUFFICES ASSUME Init
             PROVE  Inv
  OBVIOUS
<1>1. TypeOK
  <2>1. owner \in [Mutexes -> Threads \cup {"free"}] /\ todo \in [Threads -> Seq(Ops)]
    BY DEF Init
  <2>2. queued \in 0..ChanCap
    BY ConfigAssumption DEF Init
  <2>3. input \in {"header", "items", "ended", "idle"} /\ load \in BOOLEAN
    BY DEF Init, FirstInput
  <2> QED
    BY <2>1, <2>2, <2>3 DEF TypeOK
<1>2. ASSUME NEW t \in Threads
      PROVE  \E G \in Home(t) : Path(t, Held(t), todo[t], G)
  <2>1. Held(t) = {} /\ todo[t] = <<>>
    BY DEF Held, Init, Threads
  <2>2. {} \in Home(t)
    BY DEF Home
  <2> QED
    BY <2>1, <2>2, PathNone
<1> QED
  BY <1>1, <1>2 DEF Inv, Ordered

\* An idle thread holds nothing; the coordinator may hold the event box.
LEMMA AtHome ==
  ASSUME Inv, NEW t \in Threads, Idle(t)
  PROVE  /\ t # "coordinator" => Held(t) = {}
         /\ t = "coordinator" => Held(t) = IF InBatch THEN Batch ELSE {}
<1>1. PICK G \in Home(t) : Path(t, Held(t), <<>>, G)
  BY DEF Inv, Ordered, Idle
<1>2. Held(t) \in Home(t)
  BY <1>1, PathEnd
<1>3. "eventBox" \in Held("coordinator") <=> InBatch
  BY DEF Held, InBatch, Mutexes
<1> QED
  BY <1>2, <1>3 DEF Home, Batch

\* A thread begins a routine.
LEMMA BeginStep ==
  ASSUME Inv, NEW t \in Threads, NEW ops, Begin(t, ops), UNCHANGED owner,
         OnPath(t, Held(t), ops)
  PROVE  Ordered' /\ todo' \in [Threads -> Seq(Ops)]
<1>1. ops \in Seq(Ops)
  BY PathOps
<1>2. todo \in [Threads -> Seq(Ops)] /\ todo' = [todo EXCEPT ![t] = ops]
  BY DEF Inv, TypeOK, Begin
<1>3. \A u \in Threads : Held(u)' = Held(u)
  BY DEF Held
<1>4. ASSUME NEW u \in Threads
      PROVE  (\E G \in Home(u) : Path(u, Held(u), todo[u], G))'
  <2>1. CASE u = t
    <3>1. todo'[u] = ops
      BY <1>2, <2>1
    <3>2. PICK G \in Home(t) : Path(t, Held(t), ops, G)
      BY DEF OnPath
    <3> QED
      BY <1>3, <2>1, <3>1, <3>2
  <2>2. CASE u # t
    <3>1. todo'[u] = todo[u]
      BY <1>2, <2>2
    <3>2. PICK G \in Home(u) : Path(u, Held(u), todo[u], G)
      BY DEF Inv, Ordered
    <3> QED
      BY <1>3, <3>1, <3>2
  <2> QED
    BY <2>1, <2>2
<1> QED
  BY <1>1, <1>2, <1>4 DEF Ordered

\* The coordinator handles an event of its batch.
LEMMA HandleStep ==
  ASSUME Inv, NEW ops, Begin("coordinator", ops), InBatch, UNCHANGED owner,
         Keeps("coordinator", Batch, ops)
  PROVE  Ordered' /\ todo' \in [Threads -> Seq(Ops)]
<1>1. "coordinator" \in Threads /\ Idle("coordinator")
  BY DEF Threads, Begin
<1>2. Held("coordinator") = Batch
  BY <1>1, AtHome
<1>3. Batch \in Home("coordinator")
  BY DEF Home, Batch
<1>4. OnPath("coordinator", Held("coordinator"), ops)
  BY <1>2, <1>3 DEF OnPath, Keeps
<1> QED
  BY <1>1, <1>4, BeginStep

\* Any other thread begins a routine.
LEMMA RoundStep ==
  ASSUME Inv, NEW t \in Threads, t # "coordinator", NEW ops, Begin(t, ops), UNCHANGED owner,
         Keeps(t, {}, ops)
  PROVE  Ordered' /\ todo' \in [Threads -> Seq(Ops)]
<1>1. Idle(t)
  BY DEF Begin
<1>2. Held(t) = {}
  BY <1>1, AtHome
<1>3. {} \in Home(t)
  BY DEF Home
<1>4. OnPath(t, Held(t), ops)
  BY <1>2, <1>3 DEF OnPath, Keeps
<1> QED
  BY <1>4, BeginStep

\* What a thread that takes the next step of its routine was up to.
LEMMA NextOp ==
  ASSUME Inv, NEW t \in Threads, ~Idle(t)
  PROVE  \E H1 : /\ Takes(t, Held(t), Op(t), H1)
                 /\ OnPath(t, H1, Tail(todo[t]))
<1>1. PICK G \in Home(t) : Path(t, Held(t), todo[t], G)
  BY DEF Inv, Ordered
<1>2. todo[t] # <<>>
  BY DEF Idle
<1>3. PICK H1 : Takes(t, Held(t), Head(todo[t]), H1) /\ Path(t, H1, Tail(todo[t]), G)
  BY <1>1, <1>2, PathStep
<1> QED
  BY <1>3 DEF OnPath, Op

\* It takes the step.
LEMMA DoneStep ==
  ASSUME Inv, NEW t \in Threads, Done(t), NEW H1, OnPath(t, H1, Tail(todo[t])),
         Held(t)' = H1, \A u \in Threads : u # t => Held(u)' = Held(u)
  PROVE  Ordered' /\ todo' \in [Threads -> Seq(Ops)]
<1>1. Tail(todo[t]) \in Seq(Ops)
  BY PathOps
<1>2. todo \in [Threads -> Seq(Ops)] /\ todo' = [todo EXCEPT ![t] = Tail(todo[t])]
  BY DEF Inv, TypeOK, Done
<1>3. ASSUME NEW u \in Threads
      PROVE  (\E G \in Home(u) : Path(u, Held(u), todo[u], G))'
  <2>1. CASE u = t
    <3>1. todo'[u] = Tail(todo[t])
      BY <1>2, <2>1
    <3>2. PICK G \in Home(t) : Path(t, H1, Tail(todo[t]), G)
      BY DEF OnPath
    <3> QED
      BY <2>1, <3>1, <3>2
  <2>2. CASE u # t
    <3>1. todo'[u] = todo[u] /\ Held(u)' = Held(u)
      BY <1>2, <2>2
    <3>2. PICK G \in Home(u) : Path(u, Held(u), todo[u], G)
      BY DEF Inv, Ordered
    <3> QED
      BY <3>1, <3>2
  <2> QED
    BY <2>1, <2>2
<1> QED
  BY <1>1, <1>2, <1>3 DEF Ordered

LEMMA Rest ==
  ASSUME Ordered', todo' \in [Threads -> Seq(Ops)],
         owner' \in [Mutexes -> Threads \cup {"free"}], queued' \in 0..ChanCap,
         input' \in {"header", "items", "ended", "idle"}, load' \in BOOLEAN
  PROVE  Inv'
  BY DEF Inv, TypeOK

LEMMA LocksStep ==
  Inv /\ [Next]_vars => Inv'
<1> SUFFICES ASSUME Inv, [Next]_vars
             PROVE  Inv'
  OBVIOUS
<1>0. /\ owner \in [Mutexes -> Threads \cup {"free"}] /\ queued \in 0..ChanCap
      /\ input \in {"header", "items", "ended", "idle"} /\ load \in BOOLEAN
      /\ HasBindings \in BOOLEAN /\ ChanCap \in Nat \ {0}
      /\ todo \in [Threads -> Seq(Ops)] /\ Ordered
  BY ConfigAssumption DEF Inv, TypeOK
<1>t. /\ "reader" \in Threads /\ "coordinator" \in Threads
      /\ "loop" \in Threads /\ "render" \in Threads
      /\ "reader" # "coordinator" /\ "loop" # "coordinator" /\ "render" # "coordinator"
  BY DEF Threads
<1>1. CASE PushItem
  <2>1. Ordered' /\ todo' \in [Threads -> Seq(Ops)]
    BY <1>1, <1>t, ReaderKeeps, RoundStep DEF PushItem
  <2> QED
    BY <1>0, <1>1, <2>1, Rest DEF PushItem
<1>2. CASE PushHeader
  <2>1. Ordered' /\ todo' \in [Threads -> Seq(Ops)]
    BY <1>2, <1>t, ReaderKeeps, RoundStep DEF PushHeader
  <2> QED
    BY <1>0, <1>2, <2>1, Rest DEF PushHeader
<1>3. CASE HeaderDone
  <2>1. Ordered'
    BY <1>0, <1>3 DEF HeaderDone, Ordered, Held
  <2> QED
    BY <1>0, <1>3, <2>1, Rest DEF HeaderDone
<1>4. CASE EndOfInput
  <2>1. Ordered' /\ todo' \in [Threads -> Seq(Ops)]
    BY <1>4, <1>t, ReaderKeeps, RoundStep DEF EndOfInput
  <2> QED
    BY <1>0, <1>4, <2>1, Rest DEF EndOfInput
<1>5. CASE BeginBatch
  <2>1. Held("coordinator") = {}
    BY <1>5, <1>t, AtHome DEF BeginBatch, Begin
  <2>2. Batch \in Home("coordinator")
    BY DEF Home, Batch
  <2>3. OnPath("coordinator", Held("coordinator"), <<Lock("eventBox")>>)
    BY <2>1, <2>2, BatchBounds DEF OnPath
  <2>4. Ordered' /\ todo' \in [Threads -> Seq(Ops)]
    BY <1>5, <1>t, <2>3, BeginStep DEF BeginBatch
  <2> QED
    BY <1>0, <1>5, <2>4, Rest DEF BeginBatch
<1>6. CASE EndBatch
  <2>1. Held("coordinator") = Batch
    BY <1>6, <1>t, AtHome DEF EndBatch, Begin
  <2>2. {} \in Home("coordinator")
    BY DEF Home
  <2>3. OnPath("coordinator", Held("coordinator"), <<Unlock("eventBox")>>)
    BY <2>1, <2>2, BatchBounds DEF OnPath
  <2>4. Ordered' /\ todo' \in [Threads -> Seq(Ops)]
    BY <1>6, <1>t, <2>3, BeginStep DEF EndBatch
  <2> QED
    BY <1>0, <1>6, <2>4, Rest DEF EndBatch
<1>7. CASE HandleRead
  <2>1. PICK r \in ReadRoutines : Begin("coordinator", r)
    BY <1>7 DEF HandleRead
  <2>2. Ordered' /\ todo' \in [Threads -> Seq(Ops)]
    BY <1>7, <2>1, ReadKeeps, HandleStep DEF HandleRead
  <2>3. input' \in {"header", "items", "ended", "idle"} /\ load' \in BOOLEAN
    BY <1>0, <1>7 DEF HandleRead
  <2> QED
    BY <1>0, <1>7, <2>2, <2>3, Rest DEF HandleRead
<1>8. CASE HandleRestart
  <2>1. PICK ops : Begin("coordinator", ops) /\ Keeps("coordinator", Batch, ops)
    BY <1>8, RestartKeeps DEF HandleRestart
  <2>2. Ordered' /\ todo' \in [Threads -> Seq(Ops)]
    BY <1>8, <2>1, HandleStep DEF HandleRestart
  <2> QED
    BY <1>0, <1>8, <2>2, Rest DEF HandleRestart
<1>9. CASE HandleSearch
  <2>1. PICK r \in ResetRoutines : Begin("coordinator", r)
    BY <1>9 DEF HandleSearch
  <2>2. Ordered' /\ todo' \in [Threads -> Seq(Ops)]
    BY <1>9, <2>1, ResetKeeps, HandleStep DEF HandleSearch
  <2> QED
    BY <1>0, <1>9, <2>2, Rest DEF HandleSearch
<1>10. CASE HandleShow
  <2>1. Ordered' /\ todo' \in [Threads -> Seq(Ops)]
    BY <1>10, ShowKeeps, HandleStep DEF HandleShow
  <2> QED
    BY <1>0, <1>10, <2>1, Rest DEF HandleShow
<1>11. CASE HandleList
  <2>1. PICK n \in Nat : Begin("coordinator", ListRoutine(n))
    <3>1. PICK n \in 0..2 : Begin("coordinator", ListRoutine(n + (IF load THEN 1 ELSE 0)))
      BY <1>11 DEF HandleList
    <3>2. n + (IF load THEN 1 ELSE 0) \in Nat
      OBVIOUS
    <3> QED
      BY <3>1, <3>2
  <2>2. Ordered' /\ todo' \in [Threads -> Seq(Ops)]
    BY <1>11, <2>1, ListKeeps, HandleStep DEF HandleList
  <2> QED
    BY <1>0, <1>11, <2>2, Rest DEF HandleList
<1>12. CASE LoopRound
  <2>1. PICK a \in Actions, s \in {<<>>, With("eventBox")}, r \in {<<>>, With("reqBox")} :
           Begin("loop", <<Lock("mutex")>> \o a \o <<Unlock("mutex")>> \o s \o r)
    BY <1>12 DEF LoopRound
  <2>2. Ordered' /\ todo' \in [Threads -> Seq(Ops)]
    BY <1>12, <1>t, <2>1, LoopKeeps, RoundStep DEF LoopRound
  <2> QED
    BY <1>0, <1>12, <2>2, Rest DEF LoopRound
<1>13. CASE Render
  <2>1. PICK d \in Drawings :
           Begin("render", RenderLocks \o d
                     \o <<Unlock("mutex"), Unlock("uiMutex"), Unlock("reqBox")>>)
    BY <1>13 DEF Render
  <2>2. Ordered' /\ todo' \in [Threads -> Seq(Ops)]
    BY <1>13, <1>t, <2>1, RenderKeeps, RoundStep DEF Render
  <2> QED
    BY <1>0, <1>13, <2>2, Rest DEF Render
<1>14. ASSUME NEW t \in Threads, DoLock(t)
       PROVE  Inv'
  <2>1. PICK H1 : Takes(t, Held(t), Op(t), H1) /\ OnPath(t, H1, Tail(todo[t]))
    BY <1>14, NextOp DEF DoLock
  <2>2. Op(t).on \in Mutexes /\ H1 = Held(t) \cup {Op(t).on}
    BY <1>14, <2>1, OpsCases DEF DoLock, Takes
  <2>3. owner[Op(t).on] = "free" /\ owner' = [owner EXCEPT ![Op(t).on] = t]
    BY <1>14 DEF DoLock
  <2> DEFINE m == Op(t).on
  <2>4. m \in Mutexes /\ owner[m] = "free" /\ owner' = [owner EXCEPT ![m] = t]
    BY <2>2, <2>3
  <2> HIDE DEF m
  <2>5. \A x \in Mutexes : owner'[x] = IF x = m THEN t ELSE owner[x]
    BY <1>0, <2>4
  <2>6. Held(t)' = Held(t) \cup {m}
    BY <2>4, <2>5 DEF Held
  <2>7. \A u \in Threads : u # t => Held(u)' = Held(u)
    BY <2>4, <2>5 DEF Held, Threads
  <2>8. Ordered' /\ todo' \in [Threads -> Seq(Ops)]
    <3>1. Held(t)' = H1
      BY <2>2, <2>6 DEF m
    <3> QED
      BY <1>14, <2>1, <2>7, <3>1, DoneStep DEF DoLock
  <2> QED
    BY <1>0, <1>14, <2>4, <2>8, Rest DEF DoLock
<1>15. ASSUME NEW t \in Threads, DoUnlock(t)
       PROVE  Inv'
  <2>1. PICK H1 : Takes(t, Held(t), Op(t), H1) /\ OnPath(t, H1, Tail(todo[t]))
    BY <1>15, NextOp DEF DoUnlock
  <2>2. Op(t).on \in Mutexes /\ Op(t).on \in Held(t) /\ H1 = Held(t) \ {Op(t).on}
    BY <1>15, <2>1, OpsCases DEF DoUnlock, Takes
  <2>3. owner' = [owner EXCEPT ![Op(t).on] = "free"]
    BY <1>15 DEF DoUnlock
  <2> DEFINE m == Op(t).on
  <2>4. m \in Mutexes /\ owner[m] = t /\ owner' = [owner EXCEPT ![m] = "free"]
    BY <2>2, <2>3 DEF Held
  <2> HIDE DEF m
  <2>5. \A x \in Mutexes : owner'[x] = IF x = m THEN "free" ELSE owner[x]
    BY <1>0, <2>4
  <2>6. Held(t)' = Held(t) \ {m}
    BY <2>4, <2>5 DEF Held, Threads
  <2>7. \A u \in Threads : u # t => Held(u)' = Held(u)
    BY <2>4, <2>5 DEF Held, Threads
  <2>8. Ordered' /\ todo' \in [Threads -> Seq(Ops)]
    <3>1. Held(t)' = H1
      BY <2>2, <2>6 DEF m
    <3> QED
      BY <1>15, <2>1, <2>7, <3>1, DoneStep DEF DoUnlock
  <2> QED
    BY <1>0, <1>15, <2>4, <2>8, Rest DEF DoUnlock
<1>16. ASSUME NEW t \in Threads, DoSend(t) \/ DoRestart(t)
       PROVE  Inv'
  <2>1. PICK H1 : Takes(t, Held(t), Op(t), H1) /\ OnPath(t, H1, Tail(todo[t]))
    BY <1>16, NextOp DEF DoSend, DoRestart
  <2>2. H1 = Held(t)
    BY <1>16, <2>1 DEF DoSend, DoRestart, Takes
  <2>3. \A u \in Threads : Held(u)' = Held(u)
    BY <1>16 DEF DoSend, DoRestart, Held
  <2>4. Ordered' /\ todo' \in [Threads -> Seq(Ops)]
    BY <1>16, <2>1, <2>2, <2>3, DoneStep DEF DoSend, DoRestart
  <2>5. queued' \in 0..ChanCap
    BY <1>0, <1>16 DEF DoSend, DoRestart
  <2>6. input' \in {"header", "items", "ended", "idle"}
    BY <1>0, <1>16 DEF DoSend, DoRestart, FirstInput
  <2> QED
    BY <1>0, <1>16, <2>4, <2>5, <2>6, Rest DEF DoSend, DoRestart
<1>17. CASE UNCHANGED vars
  <2>1. Ordered'
    BY <1>0, <1>17 DEF vars, Ordered, Held
  <2> QED
    BY <1>0, <1>17, <2>1, Rest DEF vars
<1> QED
  BY <1>1, <1>2, <1>3, <1>4, <1>5, <1>6, <1>7, <1>8, <1>9, <1>10, <1>11, <1>12, <1>13,
     <1>14, <1>15, <1>16, <1>17 DEF Next

\* Every state has its type: a thread only ever does what Ops lists, and no
\* more events are queued than the channel has room for.
THEOREM LocksTyped == Spec => []TypeOK
<1>1. Inv => TypeOK
  BY DEF Inv
<1> QED
  BY LocksInit, LocksStep, <1>1, PTL DEF Spec

(***************************************************************************)
(* No circle of threads that wait for locks                                *)
(***************************************************************************)

\* A thread that waits for a lock wants one that comes after all it holds.
LEMMA WantsLater ==
  ASSUME Inv, NEW t \in Threads, t # "reader", Blocked(t), Op(t).op = "lock"
  PROVE  /\ Op(t).on \in Mutexes
         /\ \A m \in Mutexes : owner[m] = t => Rank(m) < Rank(Op(t).on)
<1>1. PICK H1 : Takes(t, Held(t), Op(t), H1)
  BY NextOp DEF Blocked
<1>2. Op(t).on \in Mutexes
  BY <1>1, OpsCases DEF Takes
<1>3. \A m \in Held(t) : Rank(m) < Rank(Op(t).on)
  BY <1>1 DEF Takes
<1> QED
  BY <1>2, <1>3 DEF Held

LEMMA LocksOrdered ==
  Inv => LockOrder
<1> SUFFICES ASSUME Inv, NEW S \in SUBSET (Threads \ {"reader"}),
                    \A t \in S : Blocked(t) => Op(t).op = "lock",
                    Circle(S)
             PROVE  FALSE
  BY DEF LockOrder
<1> DEFINE r(t) == Rank(Op(t).on)
<1>1. \A t \in S : Blocked(t) /\ Op(t).op = "lock" /\ t \in Threads /\ t # "reader"
                   /\ WaitsFor(t) = owner[Op(t).on] /\ WaitsFor(t) \in S
  BY DEF Circle, WaitsFor
<1>2. ASSUME NEW t \in S
      PROVE  \E u \in S : r(t) < r(u)
  <2>1. Op(t).on \in Mutexes /\ owner[Op(t).on] \in S
    BY <1>1, WantsLater
  <2> DEFINE u == owner[Op(t).on]
  <2>2. Rank(Op(t).on) < Rank(Op(u).on)
    BY <1>1, <2>1, WantsLater
  <2> QED
    BY <2>1, <2>2
<1>3. \A t \in S : r(t) \in 0..4
  <2>1. \A m \in Mutexes : Rank(m) \in 0..4
    BY DEF Rank
  <2> QED
    BY <1>1, <2>1, WantsLater
<1>4. S # {}
  BY DEF Circle
<1> HIDE DEF r
<1>5. \A t \in S : r(t) < 4
  BY <1>2, <1>3
<1>6. \A t \in S : r(t) < 3
  BY <1>2, <1>3, <1>5
<1>7. \A t \in S : r(t) < 2
  BY <1>2, <1>3, <1>6
<1>8. \A t \in S : r(t) < 1
  BY <1>2, <1>3, <1>7
<1>9. \A t \in S : r(t) < 0
  BY <1>2, <1>3, <1>8
<1> QED
  BY <1>3, <1>4, <1>9

\* The coordinator (with the event box held for its whole batch), the loop of
\* the terminal and the render loop never wait for one another's locks in a
\* circle, whichever options are given.
THEOREM NoLockCircle == Spec => []LockOrder
  BY LocksInit, LocksStep, LocksOrdered, PTL DEF Spec

=============================================================================
