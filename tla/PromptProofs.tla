---------------------------- MODULE PromptProofs ----------------------------
(***************************************************************************)
(* The query line behaves like a text with a cursor, for all texts, keys   *)
(* and bindings, although its slices share arrays: the array of the query  *)
(* is never that of the yank buffer, an append writes only behind the      *)
(* slice it extends, and what it appends was copied before (ShowsLine).    *)
(* The history changes one line at a time, and its file only when a query  *)
(* is accepted.                                                            *)
(***************************************************************************)
EXTENDS Prompt, SequenceTheorems, WellFoundedInduction, TLAPS

Alphabet == Runes \cup {Tab, " ", Zero}
Strings  == Seq(Alphabet)

(***************************************************************************)
(* Numbers and strings                                                     *)
(***************************************************************************)

LEMMA LeastElement ==
  ASSUME NEW T, T \subseteq Nat, T # {}
  PROVE  \E m \in T : \A k \in T : m <= k
<1> DEFINE R == OpToRel(<, Nat)
<1>1. \A x, y \in Nat : <<x, y>> \in R <=> x < y
  BY DEF OpToRel
<1> HIDE DEF R
<1>2. IsWellFoundedOn(R, Nat)
  BY NatLessThanWellFounded DEF R
<1>3. PICK x \in T : \A y \in T : ~ (<<y, x>> \in R)
  BY <1>2, WFMin
<1>4. \A y \in T : ~ (y < x)
  BY <1>1, <1>3
<1> QED
  BY <1>4

LEMMA MinOf ==
  ASSUME NEW T, T \subseteq Nat, T # {}
  PROVE  Min(T) \in T /\ \A k \in T : Min(T) <= k
  BY LeastElement DEF Min

LEMMA MaxOf ==
  ASSUME NEW n \in Nat, NEW T, T \subseteq 0..n, T # {}
  PROVE  Max(T) \in T /\ \A k \in T : k <= Max(T)
<1> DEFINE R == {n - x : x \in T}
<1>1. R \subseteq Nat /\ R # {}
  OBVIOUS
<1>2. PICK m \in R : \A k \in R : m <= k
  BY <1>1, LeastElement
<1>3. PICK y \in T : m = n - y
  BY <1>2
<1>4. \A x \in T : x <= y
  <2> TAKE x \in T
  <2>1. n - x \in R
    OBVIOUS
  <2>2. n - y <= n - x
    BY <1>2, <1>3, <2>1
  <2> QED
    BY <2>2
<1>5. \E x \in T : \A k \in T : x >= k
  BY <1>4
<1> QED
  BY <1>5 DEF Max

LEMMA MinOfTwo ==
  ASSUME NEW a \in Nat, NEW b \in Nat
  PROVE  Min({a, b}) = IF a <= b THEN a ELSE b
<1>1. Min({a, b}) \in {a, b} /\ Min({a, b}) <= a /\ Min({a, b}) <= b
  BY MinOf
<1> QED
  BY <1>1

LEMMA Lengths ==
  ASSUME NEW s \in Strings
  PROVE  Len(s) \in Nat /\ DOMAIN s = 1..Len(s) /\ \A i \in 1..Len(s) : s[i] \in Alphabet
  BY DEF Strings

\* A part of a string.
LEMMA PartOf ==
  ASSUME NEW s \in Strings, NEW m \in Nat \ {0}, NEW n \in Nat, m <= n + 1, n <= Len(s)
  PROVE  /\ SubSeq(s, m, n) \in Strings /\ Len(SubSeq(s, m, n)) = n - m + 1
         /\ \A i \in 1..n - m + 1 : SubSeq(s, m, n)[i] = s[m + i - 1]
<1>1. \A i \in m..n : s[i] \in Alphabet
  BY DEF Strings
<1>2. /\ SubSeq(s, m, n) \in Seq(Alphabet)
      /\ Len(SubSeq(s, m, n)) = IF m <= n THEN n - m + 1 ELSE 0
      /\ \A i \in 1..n - m + 1 : SubSeq(s, m, n)[i] = s[m + i - 1]
  BY <1>1, SubSeqProperties
<1> QED
  BY <1>2 DEF Strings

IsPart(l, m, n) == m \in Nat \ {0} /\ n \in Nat /\ m <= n + 1 /\ n <= l

\* A part of a part.
LEMMA PartOfPart ==
  ASSUME NEW s \in Strings, NEW m, NEW n, IsPart(Len(s), m, n),
         NEW i, NEW j, IsPart(n - m + 1, i, j),
         NEW a, a = m + i - 1, NEW b, b = m + j - 1
  PROVE  SubSeq(SubSeq(s, m, n), i, j) = SubSeq(s, a, b)
<1> DEFINE p == SubSeq(s, m, n)
           q == SubSeq(p, i, j)
           r == SubSeq(s, a, b)
<1>0. /\ m \in Nat \ {0} /\ n \in Nat /\ m <= n + 1 /\ n <= Len(s)
      /\ i \in Nat \ {0} /\ j \in Nat /\ i <= j + 1 /\ j <= n - m + 1
      /\ a \in Nat /\ b \in Nat
  BY DEF IsPart
<1>1. p \in Strings /\ Len(p) = n - m + 1 /\ \A k \in 1..n - m + 1 : p[k] = s[m + k - 1]
  BY <1>0, PartOf
<1> HIDE DEF p
<1>2. q \in Strings /\ Len(q) = j - i + 1 /\ \A k \in 1..j - i + 1 : q[k] = p[i + k - 1]
  BY <1>0, <1>1, PartOf
<1> HIDE DEF q
<1>3. /\ r \in Strings /\ Len(r) = j - i + 1
      /\ \A k \in 1..j - i + 1 : r[k] = s[a + k - 1]
  <2>1. a \in Nat \ {0} /\ a <= b + 1 /\ b <= Len(s) /\ b - a + 1 = j - i + 1
    BY <1>0, Lengths
  <2> QED
    BY <1>0, <2>1, PartOf
<1> HIDE DEF r
<1>4. \A k \in 1..j - i + 1 : q[k] = r[k]
  <2> TAKE k \in 1..j - i + 1
  <2>1. i + k - 1 \in 1..n - m + 1
    BY <1>0
  <2>2. p[i + k - 1] = s[m + (i + k - 1) - 1]
    BY <1>1, <2>1
  <2>3. m + (i + k - 1) - 1 = a + k - 1
    BY <1>0
  <2> QED
    BY <1>2, <1>3, <2>2, <2>3
<1>5. q = r
  BY <1>0, <1>2, <1>3, <1>4, SeqEqual DEF Strings
<1> QED
  BY <1>5 DEF p, q, r

LEMMA Joined ==
  ASSUME NEW s \in Strings, NEW t \in Strings
  PROVE  /\ s \o t \in Strings /\ Len(s \o t) = Len(s) + Len(t)
         /\ \A i \in 1..Len(s) + Len(t) : (s \o t)[i] = IF i <= Len(s) THEN s[i] ELSE t[i - Len(s)]
  BY ConcatProperties DEF Strings

\* The part behind the first a elements, up to b.
LEMMA Middle ==
  ASSUME NEW s \in Strings, NEW a \in 0..Len(s), NEW b \in a..Len(s)
  PROVE  /\ SubSeq(s, a + 1, b) \in Strings /\ Len(SubSeq(s, a + 1, b)) = b - a
         /\ \A i \in 1..b - a : SubSeq(s, a + 1, b)[i] = s[a + i]
<1> DEFINE m == a + 1
           p == SubSeq(s, m, b)
<1>1. a \in Nat /\ b \in Nat /\ m \in Nat \ {0} /\ m <= b + 1 /\ b <= Len(s) /\ m = a + 1
  BY Lengths
<1> HIDE DEF m
<1>2. p \in Strings /\ Len(p) = b - m + 1 /\ \A i \in 1..b - m + 1 : p[i] = s[m + i - 1]
  BY <1>1, PartOf
<1> HIDE DEF p
<1>3. Len(p) = b - a
  BY <1>1, <1>2
<1>4. ASSUME NEW i \in 1..b - a
      PROVE  p[i] = s[a + i]
  <2>1. i \in 1..b - m + 1 /\ m + i - 1 = a + i
    BY <1>1
  <2> QED
    BY <1>2, <2>1
<1> QED
  BY <1>2, <1>3, <1>4 DEF p, m

LEMMA SameString ==
  ASSUME NEW s \in Strings, NEW t \in Strings, Len(s) = Len(t), \A i \in 1..Len(s) : s[i] = t[i]
  PROVE  s = t
  BY SeqEqual DEF Strings

LEMMA NoString == <<>> \in Strings /\ Len(<<>>) = 0
  BY DEF Strings

LEMMA RunesIn ==
  /\ \A r \in Runes : <<r>> \in Strings /\ Len(<<r>>) = 1
  /\ \A t \in Texts : t \in Strings
  /\ History \in Seq(Strings)
<1>1. ASSUME NEW r \in Runes
      PROVE  <<r>> \in Strings /\ Len(<<r>>) = 1
  <2>1. r \in Alphabet
    BY DEF Alphabet
  <2> QED
    BY <2>1 DEF Strings
<1>2. Runes \cup {Tab} \subseteq Alphabet
  BY DEF Alphabet
<1>3. Seq(Runes \cup {Tab}) \subseteq Strings
  BY <1>2, SeqMonotonic DEF Strings
<1>4. \A t \in Texts : t \in Strings
  BY <1>3, TextsAssumption
<1>5. History \in Seq(Strings)
  BY <1>3, SeqMonotonic, TextsAssumption
<1> QED
  BY <1>1, <1>4, <1>5

(***************************************************************************)
(* Slices                                                                  *)
(***************************************************************************)

Sound(mem) == mem \in [Arrays -> Strings] /\ mem[0] = <<>>
Inside(mem, s) == s \in Slices /\ s.from <= s.to + 1 /\ s.to <= Len(mem[s.arr])

LEMMA TextOfSlice ==
  ASSUME NEW mem, Sound(mem), NEW s, Inside(mem, s)
  PROVE  /\ TextIn(mem, s) \in Strings /\ Length(s) \in Nat /\ Len(TextIn(mem, s)) = Length(s)
         /\ mem[s.arr] \in Strings
         /\ \A i \in 1..Length(s) : TextIn(mem, s)[i] = mem[s.arr][s.from + i - 1]
<1>1. s.arr \in Arrays /\ s.from \in Nat \ {0} /\ s.to \in Nat /\ s.from <= s.to + 1
      /\ s.to <= Len(mem[s.arr])
  BY DEF Inside, Slices
<1>2. mem[s.arr] \in Strings
  BY <1>1 DEF Sound
<1> DEFINE t == TextIn(mem, s)
<1>3. t \in Strings /\ Len(t) = s.to - s.from + 1
      /\ \A i \in 1..s.to - s.from + 1 : t[i] = mem[s.arr][s.from + i - 1]
  BY <1>1, <1>2, PartOf DEF TextIn
<1> HIDE DEF t
<1> QED
  BY <1>1, <1>2, <1>3 DEF t, Length

\* A slice of array 0 is empty.
LEMMA NilText ==
  ASSUME NEW mem, Sound(mem), NEW s, Inside(mem, s), s.arr = 0
  PROVE  Length(s) = 0 /\ TextIn(mem, s) = <<>> /\ s.to = 0
<1>1. s.to = 0 /\ s.from = 1
  BY NoString DEF Inside, Slices, Sound
<1>2. Length(s) = 0
  BY <1>1 DEF Length
<1>3. TextIn(mem, s) = <<>>
  BY <1>2, TextOfSlice, NoString DEF Strings
<1> QED
  BY <1>1, <1>2, <1>3

LEMMA Prefix ==
  ASSUME NEW mem, Sound(mem), NEW s, Inside(mem, s), NEW n \in 0..Length(s)
  PROVE  /\ Inside(mem, Upto(s, n)) /\ Upto(s, n).arr = s.arr /\ Length(Upto(s, n)) = n
         /\ TextIn(mem, Upto(s, n)) = SubSeq(TextIn(mem, s), 1, n)
<1> DEFINE u == Upto(s, n)
           array == mem[s.arr]
           from == s.from
           to == s.to
           end == u.to
<1>1. /\ array \in Strings /\ from \in Nat \ {0} /\ to \in Nat /\ from <= to + 1
      /\ to <= Len(array) /\ n \in Nat /\ n <= to - from + 1
  BY DEF Inside, Slices, Length, Sound
<1>2. u \in Slices /\ u.arr = s.arr /\ u.from = from /\ end = from + n - 1
  BY <1>1 DEF Upto, Inside, Slices
<1> HIDE DEF u, array, from, to, end
<1>3. IsPart(Len(array), from, to) /\ IsPart(to - from + 1, 1, n)
  BY <1>1 DEF IsPart
<1>4. from = from + 1 - 1
  BY <1>1
<1>5. SubSeq(SubSeq(array, from, to), 1, n) = SubSeq(array, from, end)
  BY <1>1, <1>2, <1>3, <1>4, PartOfPart
<1>6. TextIn(mem, u) = SubSeq(TextIn(mem, s), 1, n)
  BY <1>2, <1>5 DEF TextIn, array, from, to, end
<1>7. Inside(mem, u) /\ Length(u) = n
  BY <1>1, <1>2 DEF Inside, Length, array, end
<1> QED
  BY <1>2, <1>6, <1>7 DEF u

LEMMA Suffix ==
  ASSUME NEW mem, Sound(mem), NEW s, Inside(mem, s), NEW n \in 0..Length(s)
  PROVE  /\ Inside(mem, After(s, n)) /\ After(s, n).arr = s.arr
         /\ Length(After(s, n)) = Length(s) - n
         /\ TextIn(mem, After(s, n)) = SubSeq(TextIn(mem, s), n + 1, Length(s))
<1> DEFINE u == After(s, n)
           array == mem[s.arr]
           from == s.from
           to == s.to
           begin == u.from
           l == Length(s)
           m == n + 1
<1>1. /\ array \in Strings /\ from \in Nat \ {0} /\ to \in Nat /\ from <= to + 1
      /\ to <= Len(array) /\ n \in Nat /\ n <= l /\ l = to - from + 1 /\ m = n + 1
  BY DEF Inside, Slices, Length, Sound
<1>2. u \in Slices /\ u.arr = s.arr /\ begin = from + n /\ u.to = to
  BY <1>1 DEF After, Inside, Slices
<1> HIDE DEF u, array, from, to, begin, l, m
<1>3. IsPart(Len(array), from, to) /\ IsPart(to - from + 1, m, l)
  BY <1>1 DEF IsPart
<1>4. begin = from + m - 1 /\ to = from + l - 1
  BY <1>1, <1>2
<1>5. SubSeq(SubSeq(array, from, to), m, l) = SubSeq(array, begin, to)
  BY <1>1, <1>3, <1>4, PartOfPart
<1>6. TextIn(mem, u) = SubSeq(TextIn(mem, s), m, l)
  BY <1>2, <1>5 DEF TextIn, array, from, to, begin
<1>7. Inside(mem, u) /\ Length(u) = l - n
  BY <1>1, <1>2 DEF Inside, Length, array, begin
<1> QED
  BY <1>2, <1>6, <1>7 DEF u, l, m

(***************************************************************************)
(* Arrays                                                                  *)
(***************************************************************************)

Reached == {0, input.arr, yanked.arr, previousInput.arr}

AtMostOne(live) == \E l : live \subseteq {l}

\* r is a new array for text, and everything else is as in mem.
IsNew(r, mem, live, text) ==
    /\ r.slice.arr \in Arrays /\ r.slice.arr \notin Reached \cup live
    /\ Sound(r.mem) /\ Inside(r.mem, r.slice) /\ TextIn(r.mem, r.slice) = text
    /\ \A b \in Arrays : b # r.slice.arr => r.mem[b] = mem[b]

\* A new array is nobody's.
LEMMA NewArray ==
  ASSUME NEW mem, Sound(mem), NEW live, AtMostOne(live), NEW text \in Strings, NEW spare \in Nat
  PROVE  IsNew(New(mem, live, text, spare), mem, live, text)
<1> DEFINE F == Arrays \ (Reached \cup live)
           a == Min(F)
           z == [i \in 1..spare |-> Zero]
           array == text \o z
           r == New(mem, live, text, spare)
<1>1. F \subseteq Nat /\ F # {}
  <2>1. PICK l : live \subseteq {l}
    BY DEF AtMostOne
  <2>2. \E x \in 1..5 : x \notin {input.arr, yanked.arr, previousInput.arr, l}
    <3>1. \A p, q, s, t : ~ (1 \in {p, q, s, t} /\ 2 \in {p, q, s, t} /\ 3 \in {p, q, s, t}
                             /\ 4 \in {p, q, s, t} /\ 5 \in {p, q, s, t})
      OBVIOUS
    <3> QED
      BY <3>1
  <2> QED
    BY <2>1, <2>2 DEF Arrays, Reached
<1>2. a \in F
  BY <1>1, MinOf
<1>3. z \in Strings /\ Len(z) = spare
  <2>1. Zero \in Alphabet
    BY DEF Alphabet
  <2> QED
    BY <2>1 DEF Strings
<1>4. r = On([mem EXCEPT ![a] = array], [arr |-> a, from |-> 1, to |-> Len(text)])
  BY DEF New, Reached
<1>5. array = text \o z
  OBVIOUS
<1> HIDE DEF F, a, z, array, r
<1>6. /\ array \in Strings /\ Len(array) = Len(text) + spare /\ Len(text) \in Nat
      /\ \A i \in 1..Len(text) : array[i] = text[i]
  <2>1. /\ array \in Strings /\ Len(array) = Len(text) + Len(z)
        /\ \A i \in 1..Len(text) + Len(z) : array[i] = IF i <= Len(text) THEN text[i]
                                                       ELSE z[i - Len(text)]
    BY <1>3, <1>5, Joined
  <2>2. Len(text) \in Nat
    BY Lengths
  <2> QED
    BY <1>3, <2>1, <2>2
<1>7. /\ r.mem = [mem EXCEPT ![a] = array] /\ r.slice.arr = a /\ r.slice.from = 1
      /\ r.slice.to = Len(text) /\ a \in Arrays /\ a # 0
      /\ r.slice = [arr |-> a, from |-> 1, to |-> Len(text)]
  BY <1>2, <1>4 DEF On, F, Reached
<1>8. /\ Sound(r.mem) /\ r.mem[a] = array
      /\ \A b \in Arrays : b # a => r.mem[b] = mem[b]
  BY <1>6, <1>7 DEF Sound, Arrays
<1>9. Inside(r.mem, r.slice) /\ Length(r.slice) = Len(text)
  BY <1>6, <1>7, <1>8 DEF Inside, Slices, Length
<1>10. TextIn(r.mem, r.slice) = text
  <2> DEFINE t == TextIn(r.mem, r.slice)
             l == Len(text)
  <2>1. /\ t \in Strings /\ Len(t) = Length(r.slice)
        /\ \A i \in 1..Length(r.slice) : t[i] = r.mem[r.slice.arr][r.slice.from + i - 1]
    BY <1>8, <1>9, TextOfSlice
  <2>2. /\ t \in Strings /\ Len(t) = l /\ l \in Nat
        /\ \A i \in 1..l : t[i] = array[1 + i - 1]
        /\ \A i \in 1..l : array[i] = text[i]
    BY <1>6, <1>7, <1>8, <1>9, <2>1
  <2> HIDE DEF t, l
  <2>3. \A i \in 1..l : t[i] = text[i]
    <3> TAKE i \in 1..l
    <3>1. 1 + i - 1 = i
      BY <2>2
    <3> QED
      BY <2>2, <3>1
  <2>4. t = text
    BY <2>2, <2>3, SameString DEF l
  <2> QED
    BY <2>4 DEF t
<1>11. IsNew(r, mem, live, text)
  BY <1>2, <1>7, <1>8, <1>9, <1>10 DEF F, IsNew
<1> QED
  BY <1>11 DEF r

\* m shows text, in an array that is not that of the yank buffer (unless both
\* are nil), and the other slices are as they were.
ShowsLine(m, text) ==
    /\ Sound(m.mem) /\ Inside(m.mem, m.slice) /\ TextIn(m.mem, m.slice) = text
    /\ m.mem[yanked.arr] = memory[yanked.arr]
    /\ Len(m.mem[previousInput.arr]) = Len(memory[previousInput.arr])
    /\ m.slice.arr # 0 => m.slice.arr # yanked.arr

\* The memory between two actions.
Memory ==
    /\ Sound(memory)
    /\ Inside(memory, input) /\ Inside(memory, yanked) /\ Inside(memory, previousInput)
    /\ input.arr # 0 => input.arr # yanked.arr

LEMMA ArraysOf ==
  ASSUME Memory
  PROVE  yanked.arr \in Arrays /\ previousInput.arr \in Arrays /\ input.arr \in Arrays
  BY DEF Memory, Inside, Slices

LEMMA OnFields ==
  ASSUME NEW mem, NEW s
  PROVE  On(mem, s).mem = mem /\ On(mem, s).slice = s
  BY DEF On

LEMMA LineHere ==
  ASSUME Memory, NEW n \in 0..Length(input)
  PROVE  /\ Text(input) \in Strings /\ Len(Text(input)) = Length(input) /\ Length(input) \in Nat
         /\ ShowsLine(On(memory, input), Text(input))
         /\ ShowsLine(On(memory, Upto(input, n)), SubSeq(Text(input), 1, n))
         /\ ShowsLine(On(memory, After(input, n)), SubSeq(Text(input), n + 1, Length(input)))
         /\ Text(Upto(input, n)) = SubSeq(Text(input), 1, n)
         /\ Text(After(input, n)) = SubSeq(Text(input), n + 1, Length(input))
<1>1. Sound(memory) /\ Inside(memory, input) /\ (input.arr # 0 => input.arr # yanked.arr)
  BY DEF Memory
<1>2. /\ Inside(memory, Upto(input, n)) /\ Upto(input, n).arr = input.arr
      /\ TextIn(memory, Upto(input, n)) = SubSeq(TextIn(memory, input), 1, n)
  BY <1>1, Prefix
<1>3. /\ Inside(memory, After(input, n)) /\ After(input, n).arr = input.arr
      /\ TextIn(memory, After(input, n)) = SubSeq(TextIn(memory, input), n + 1, Length(input))
  BY <1>1, Suffix
<1>4. /\ TextIn(memory, input) \in Strings /\ Len(TextIn(memory, input)) = Length(input)
      /\ Length(input) \in Nat
  BY <1>1, TextOfSlice
<1>5. ASSUME NEW s, Inside(memory, s), s.arr = input.arr
      PROVE  ShowsLine(On(memory, s), TextIn(memory, s))
  BY <1>1, <1>5, OnFields DEF ShowsLine
<1>6. /\ ShowsLine(On(memory, input), TextIn(memory, input))
      /\ ShowsLine(On(memory, Upto(input, n)), TextIn(memory, Upto(input, n)))
      /\ ShowsLine(On(memory, After(input, n)), TextIn(memory, After(input, n)))
  BY <1>1, <1>2, <1>3, <1>5
<1> QED
  BY <1>2, <1>3, <1>4, <1>6 DEF Text

LEMMA CopyShows ==
  ASSUME Memory, NEW text \in Strings
  PROVE  /\ ShowsLine(CopyOf(text), text)
         /\ IsNew(CopyOf(text), memory, {}, text)
<1> DEFINE r == CopyOf(text)
<1>1. Sound(memory) /\ AtMostOne({}) /\ r = New(memory, {}, text, 0)
  BY DEF Memory, CopyOf, AtMostOne
<1> HIDE DEF r
<1>2. IsNew(r, memory, {}, text)
  BY <1>1, NewArray
<1>3. ShowsLine(r, text)
  BY <1>2, ArraysOf DEF ShowsLine, Reached, IsNew
<1> QED
  BY <1>2, <1>3 DEF r

\* Writing behind a slice.
LEMMA WrittenBehind ==
  ASSUME NEW array \in Strings, NEW text \in Strings, NEW to \in Nat, to + Len(text) <= Len(array),
         NEW w, w = Overwritten(array, to + 1, text)
  PROVE  /\ w \in Strings /\ Len(w) = Len(array)
         /\ \A k \in 1..to : w[k] = array[k]
         /\ \A k \in 1..Len(text) : w[to + k] = text[k]
<1> DEFINE n == Len(array)
           l == Len(text)
<1>1. /\ n \in Nat /\ l \in Nat /\ to + l <= n /\ DOMAIN array = 1..n
      /\ \A k \in 1..n : array[k] \in Alphabet
      /\ \A k \in 1..l : text[k] \in Alphabet
  BY Lengths
<1>2. w = [k \in 1..n |-> IF k \in (to + 1)..(to + 1 + l - 1) THEN text[k - (to + 1) + 1]
                                                            ELSE array[k]]
  BY <1>1 DEF Overwritten
<1> HIDE DEF n, l
<1>3. \A k \in 1..n : w[k] = IF k \in (to + 1)..(to + 1 + l - 1) THEN text[k - (to + 1) + 1]
                                                               ELSE array[k]
  BY <1>2
<1>4. \A k \in 1..n : w[k] \in Alphabet
  <2> TAKE k \in 1..n
  <2>1. CASE k \in (to + 1)..(to + 1 + l - 1)
    <3>1. k - (to + 1) + 1 \in 1..l
      BY <1>1, <2>1
    <3> QED
      BY <1>1, <1>3, <2>1, <3>1
  <2>2. CASE k \notin (to + 1)..(to + 1 + l - 1)
    BY <1>1, <1>3, <2>2
  <2> QED
    BY <2>1, <2>2
<1>5. w \in Strings /\ Len(w) = n
  <2>1. w = [k \in 1..n |-> w[k]]
    BY <1>2
  <2>2. w \in [1..n -> Alphabet]
    BY <1>4, <2>1
  <2> QED
    BY <1>1, <2>2 DEF Strings
<1>6. \A k \in 1..to : w[k] = array[k]
  BY <1>1, <1>3
<1>7. ASSUME NEW k \in 1..l
      PROVE  w[to + k] = text[k]
  <2>1. to + k \in 1..n /\ to + k \in (to + 1)..(to + 1 + l - 1) /\ to + k - (to + 1) + 1 = k
    BY <1>1
  <2> QED
    BY <1>3, <2>1
<1> QED
  BY <1>5, <1>6, <1>7 DEF n, l

\* append: the text of the slice, and of nothing else, gets longer.
LEMMA AppendShows ==
  ASSUME Memory, NEW m, NEW a, ShowsLine(m, a), NEW text \in Strings
  PROVE  ShowsLine(AppendTo(m, text), a \o text)
<1> DEFINE s == m.slice
           mem == m.mem
           r == AppendTo(m, text)
           from == s.from
           to == s.to
           n == Len(text)
<1>1. /\ Sound(mem) /\ Inside(mem, s) /\ TextIn(mem, s) = a
      /\ mem[yanked.arr] = memory[yanked.arr]
      /\ Len(mem[previousInput.arr]) = Len(memory[previousInput.arr])
      /\ s.arr # 0 => s.arr # yanked.arr
  BY DEF ShowsLine
<1>2. /\ s \in Slices /\ s.arr \in Arrays /\ mem[s.arr] \in Strings /\ a \in Strings
      /\ Length(s) \in Nat /\ Len(a) = Length(s)
      /\ \A i \in 1..Length(s) : a[i] = mem[s.arr][s.from + i - 1]
  BY <1>1, TextOfSlice DEF Inside, Slices
<1>3. /\ a \o text \in Strings /\ n \in Nat /\ Len(a \o text) = Len(a) + n
      /\ \A i \in 1..Len(a) + n : (a \o text)[i] = IF i <= Len(a) THEN a[i] ELSE text[i - Len(a)]
  BY <1>2, Joined, Lengths
<1>4. CASE ~ (s.to + Len(text) <= Len(mem[s.arr]))
  <2> DEFINE c == a \o text
             live == {s.arr}
  <2>1. r = New(mem, live, c, Spare) /\ AtMostOne(live) /\ Spare \in Nat /\ c \in Strings
    BY <1>1, <1>3, <1>4, SizeAssumption DEF AppendTo, AtMostOne
  <2> HIDE DEF r, c, live, mem
  <2>2. IsNew(r, mem, live, c)
    BY <1>1, <2>1, NewArray
  <2>3. /\ r.slice.arr \in Arrays /\ r.slice.arr \notin Reached
        /\ Sound(r.mem) /\ Inside(r.mem, r.slice) /\ TextIn(r.mem, r.slice) = a \o text
        /\ \A b \in Arrays : b # r.slice.arr => r.mem[b] = mem[b]
    BY <2>2 DEF IsNew, c
  <2>4. ShowsLine(r, a \o text)
    BY <1>1, <2>3, ArraysOf DEF ShowsLine, Reached
  <2> QED
    BY <2>4 DEF r
<1>5. CASE s.to + Len(text) <= Len(mem[s.arr])
  <2> DEFINE w == Overwritten(mem[s.arr], s.to + 1, text)
  <2>1. r = On([mem EXCEPT ![s.arr] = w], [s EXCEPT !.to = s.to + n])
    BY <1>5 DEF AppendTo
  <2>2. s.to \in Nat
    BY <1>2 DEF Slices
  <2>3. /\ w \in Strings /\ Len(w) = Len(mem[s.arr])
        /\ \A k \in 1..s.to : w[k] = mem[s.arr][k]
        /\ \A k \in 1..n : w[s.to + k] = text[k]
    <3> DEFINE array == mem[s.arr]
               e == s.to
    <3>1. array \in Strings /\ e \in Nat /\ e + Len(text) <= Len(array)
          /\ w = Overwritten(array, e + 1, text)
      BY <1>2, <1>5, <2>2
    <3> HIDE DEF w, array, e
    <3>2. /\ w \in Strings /\ Len(w) = Len(array)
          /\ \A k \in 1..e : w[k] = array[k]
          /\ \A k \in 1..Len(text) : w[e + k] = text[k]
      BY <3>1, WrittenBehind
    <3> QED
      BY <3>2 DEF array, e
  <2> HIDE DEF w, r
  <2>4. /\ r.mem = [mem EXCEPT ![s.arr] = w] /\ r.slice.arr = s.arr /\ r.slice.from = s.from
        /\ r.slice.to = s.to + n /\ r.slice \in Slices
    BY <1>2, <1>3, <2>1, <2>2 DEF On, Slices
  <2>5. mem \in [Arrays -> Strings] /\ mem[0] = <<>>
    BY <1>1 DEF Sound
  <2>6. r.mem \in [Arrays -> Strings] /\ r.mem[s.arr] = w
        /\ \A b \in Arrays : b # s.arr => r.mem[b] = mem[b]
    BY <1>2, <2>3, <2>4, <2>5
  <2>7. ASSUME s.arr = 0
        PROVE  w = <<>>
    <3>1. Len(w) = 0
      BY <2>3, <2>5, <2>7, NoString
    <3> QED
      BY <2>3, <3>1 DEF Strings
  <2>8. Sound(r.mem)
    BY <2>5, <2>6, <2>7 DEF Sound, Arrays
  <2>9. r.mem[yanked.arr] = memory[yanked.arr]
    <3>1. CASE yanked.arr = s.arr
      BY <1>1, <2>5, <2>6, <2>7, <3>1
    <3>2. CASE yanked.arr # s.arr
      BY <1>1, <2>6, <3>2, ArraysOf
    <3> QED
      BY <3>1, <3>2
  <2>10. Len(r.mem[previousInput.arr]) = Len(memory[previousInput.arr])
    BY <1>1, <2>3, <2>6, ArraysOf
  <2>11. from \in Nat \ {0} /\ to \in Nat /\ from <= to + 1 /\ to <= Len(mem[s.arr])
         /\ Length(s) = to - from + 1
    BY <1>1, <1>2 DEF Inside, Slices, Length
  <2>12. Inside(r.mem, r.slice)
    BY <1>3, <1>5, <2>3, <2>4, <2>6, <2>11 DEF Inside
  <2>13. TextIn(r.mem, r.slice) = a \o text
    <3> DEFINE t == TextIn(r.mem, r.slice)
               l == Len(a)
               c == a \o text
    <3>1. /\ t \in Strings /\ Len(t) = Length(r.slice)
          /\ \A i \in 1..Length(r.slice) : t[i] = r.mem[r.slice.arr][r.slice.from + i - 1]
      BY <2>8, <2>12, TextOfSlice
    <3>2. Length(r.slice) = l + n /\ l \in Nat /\ l = to - from + 1
      BY <1>2, <1>3, <2>4, <2>11 DEF Length
    <3>3. \A i \in 1..l + n : t[i] = w[from + i - 1]
      BY <2>4, <2>6, <3>1, <3>2
    <3>4. \A i \in 1..l : a[i] = mem[s.arr][from + i - 1]
      BY <1>2, <3>2, <2>11
    <3>5. /\ \A k \in 1..to : w[k] = mem[s.arr][k]
          /\ \A k \in 1..n : w[to + k] = text[k]
      BY <2>3
    <3>6. c \in Strings /\ Len(c) = l + n
          /\ \A i \in 1..l + n : c[i] = IF i <= l THEN a[i] ELSE text[i - l]
      BY <1>3
    <3>7. n \in Nat
      BY <1>3
    <3> HIDE DEF t, l, c, n, from, to
    <3>8. ASSUME NEW i \in 1..l + n
          PROVE  t[i] = c[i]
      <4>1. CASE i <= l
        <5>1. i \in 1..l /\ from + i - 1 \in 1..to
          BY <2>11, <3>2, <4>1
        <5> QED
          BY <3>3, <3>4, <3>5, <3>6, <4>1, <5>1
      <4>2. CASE ~(i <= l)
        <5>1. i - l \in 1..n /\ from + i - 1 = to + (i - l)
          BY <2>11, <3>2, <3>7, <4>2
        <5> QED
          BY <3>3, <3>5, <3>6, <4>2, <5>1
      <4> QED
        BY <4>1, <4>2
    <3>9. t = c
      BY <3>1, <3>2, <3>6, <3>8, SameString
    <3> QED
      BY <3>9 DEF t, c
  <2>14. ShowsLine(r, a \o text)
    BY <1>1, <2>4, <2>8, <2>9, <2>10, <2>12, <2>13 DEF ShowsLine
  <2> QED
    BY <2>14 DEF r
<1> QED
  BY <1>4, <1>5

(***************************************************************************)
(* The line after an action                                                *)
(***************************************************************************)

\* The next state shows the text t with the cursor at c, and k was killed.
Becomes(t, c, k) ==
    /\ t \in Strings /\ c \in 0..Len(t)
    /\ Text(input)' = t /\ Length(input)' = Len(t) /\ cx' = c /\ Text(yanked)' = k

\* The line is what m shows; the yank buffer is y.
LEMMA SetLineStep ==
  ASSUME Memory, NEW m, NEW t, ShowsLine(m, t), NEW c \in 0..Len(t), NEW y, SetLine(m, c, y),
         Inside(m.mem, y), m.slice.arr # 0 => m.slice.arr # y.arr,
         UNCHANGED previousInput
  PROVE  Memory' /\ Becomes(t, c, TextIn(m.mem, y))
<1> DEFINE mem == m.mem
           s == m.slice
           p == previousInput
<1>1. /\ Sound(mem) /\ Inside(mem, s) /\ TextIn(mem, s) = t
      /\ Len(mem[p.arr]) = Len(memory[p.arr])
  BY DEF ShowsLine
<1>2. /\ input' = s /\ cx' = c /\ yanked' = y
      /\ memory' = [a \in Arrays |-> IF a \in {s.arr, y.arr, p.arr} THEN mem[a] ELSE <<>>]
  BY DEF SetLine
<1>3. s.arr \in Arrays /\ y.arr \in Arrays /\ p.arr \in Arrays
  BY <1>1, ArraysOf DEF Inside, Slices
<1>4. Inside(mem, y) /\ (s.arr # 0 => s.arr # y.arr) /\ previousInput' = p
  OBVIOUS
<1> HIDE DEF mem, s, p
<1>5. /\ memory'[s.arr] = mem[s.arr] /\ memory'[y.arr] = mem[y.arr] /\ memory'[p.arr] = mem[p.arr]
  BY <1>2, <1>3
<1>6. Sound(memory')
  BY <1>1, <1>2, NoString DEF Sound, Arrays
<1>7. Inside(memory', s) /\ Inside(memory', y)
  BY <1>1, <1>4, <1>5 DEF Inside
<1>8. Inside(memory', p)
  BY <1>1, <1>5 DEF Inside, Memory, p
<1>9. Memory'
  BY <1>2, <1>4, <1>6, <1>7, <1>8 DEF Memory, Sound, Inside
<1>10. TextIn(memory', s) = t /\ TextIn(memory', y) = TextIn(mem, y)
  BY <1>1, <1>5 DEF TextIn
<1>11. t \in Strings /\ Length(s) = Len(t)
  BY <1>1, TextOfSlice
<1>12. Text(input)' = t /\ Text(yanked)' = TextIn(mem, y) /\ Length(input)' = Len(t)
  BY <1>2, <1>10, <1>11 DEF Text, TextIn, Length
<1>13. Becomes(t, c, TextIn(mem, y))
  BY <1>2, <1>11, <1>12 DEF Becomes
<1> QED
  BY <1>9, <1>13 DEF mem

\* The yank buffer stays.
LEMMA KeepsKilled ==
  ASSUME Memory, NEW m, NEW t, ShowsLine(m, t), NEW c \in 0..Len(t), SetLine(m, c, yanked),
         UNCHANGED previousInput
  PROVE  Memory' /\ Becomes(t, c, Text(yanked))
<1>1. Inside(memory, yanked) /\ m.mem[yanked.arr] = memory[yanked.arr]
  BY DEF Memory, ShowsLine
<1>2. Inside(m.mem, yanked) /\ TextIn(m.mem, yanked) = Text(yanked)
  BY <1>1 DEF Inside, Text, TextIn
<1>3. m.slice.arr # 0 => m.slice.arr # yanked.arr
  BY DEF ShowsLine
<1> QED
  BY <1>2, <1>3, SetLineStep

\* The killed part goes into a new array.
LEMMA YankingStep ==
  ASSUME Memory, NEW m, NEW t, ShowsLine(m, t), NEW c \in 0..Len(t),
         NEW from \in 0..Length(input), NEW to \in from..Length(input), Yanking(from, to, m, c),
         UNCHANGED previousInput
  PROVE  Memory' /\ Becomes(t, c, SubSeq(Text(input), from + 1, to))
<1> DEFINE k == SubSeq(Text(input), from + 1, to)
           live == {m.slice.arr}
           y == New(m.mem, live, k, 0)
<1>1. k \in Strings
  <2>1. Text(input) \in Strings /\ Len(Text(input)) = Length(input) /\ Length(input) \in Nat
    BY TextOfSlice DEF Memory, Text
  <2> QED
    BY <2>1, Middle
<1>2. SetLine(On(y.mem, m.slice), c, y.slice)
  BY DEF Yanking
<1> HIDE DEF k
<1>3. Sound(m.mem) /\ AtMostOne(live)
  BY DEF ShowsLine, AtMostOne
<1>4. IsNew(y, m.mem, live, k)
  BY <1>1, <1>3, NewArray
<1> HIDE DEF y
<1>5. /\ y.slice.arr \notin Reached /\ y.slice.arr # m.slice.arr
      /\ Sound(y.mem) /\ Inside(y.mem, y.slice) /\ TextIn(y.mem, y.slice) = k
      /\ \A b \in Arrays : b # y.slice.arr => y.mem[b] = m.mem[b]
  BY <1>4 DEF IsNew, live
<1>6. m.slice.arr \in Arrays
  BY DEF ShowsLine, Inside, Slices
<1> DEFINE w == On(y.mem, m.slice)
<1>7. w.mem = y.mem /\ w.slice = m.slice
  BY OnFields
<1> HIDE DEF w
<1>8. /\ w.mem[m.slice.arr] = m.mem[m.slice.arr]
      /\ w.mem[yanked.arr] = m.mem[yanked.arr]
      /\ w.mem[previousInput.arr] = m.mem[previousInput.arr]
  BY <1>5, <1>6, <1>7, ArraysOf DEF Reached
<1>9. ShowsLine(w, t)
  BY <1>5, <1>7, <1>8 DEF ShowsLine, Inside, TextIn
<1>10. SetLine(w, c, y.slice)
  BY <1>2 DEF w
<1>11. Memory' /\ Becomes(t, c, TextIn(w.mem, y.slice))
  BY <1>5, <1>7, <1>9, <1>10, SetLineStep
<1> QED
  BY <1>5, <1>7, <1>11 DEF k

\* cancel: the query itself becomes the yank buffer.
LEMMA CancelStep ==
  ASSUME Memory, Cancel, UNCHANGED previousInput
  PROVE  Memory' /\ Becomes(<<>>, 0, Text(input))
<1> DEFINE m == CopyOf(<<>>)
<1>1. SetLine(m, 0, input)
  BY DEF Cancel
<1>2. ShowsLine(m, <<>>) /\ IsNew(m, memory, {}, <<>>)
  BY NoString, CopyShows
<1> HIDE DEF m
<1>3. m.slice.arr # input.arr /\ m.mem[input.arr] = memory[input.arr]
  BY <1>2, ArraysOf DEF IsNew, Reached
<1>4. Inside(m.mem, input) /\ TextIn(m.mem, input) = Text(input)
  BY <1>3 DEF Memory, Inside, Text, TextIn
<1>5. 0 \in 0..Len(<<>>)
  BY NoString
<1> QED
  BY <1>1, <1>2, <1>3, <1>4, <1>5, SetLineStep

LEMMA InsertedShows ==
  ASSUME Memory, cx \in 0..Length(input), NEW x \in Strings
  PROVE  ShowsLine(Inserted(x), SubSeq(Text(input), 1, cx) \o x
                                  \o SubSeq(Text(input), cx + 1, Length(input)))
<1> DEFINE l == SubSeq(Text(input), 1, cx)
           r == SubSeq(Text(input), cx + 1, Length(input))
           m == On(memory, Upto(input, cx))
<1>1. /\ ShowsLine(m, l) /\ Text(After(input, cx)) = r
      /\ Text(input) \in Strings /\ Len(Text(input)) = Length(input) /\ Length(input) \in Nat
  BY LineHere
<1>2. r \in Strings
  BY <1>1, Middle
<1>3. Inserted(x) = AppendTo(AppendTo(m, x), r)
  BY <1>1 DEF Inserted
<1> HIDE DEF l, r, m
<1>4. ShowsLine(AppendTo(m, x), l \o x)
  BY <1>1, AppendShows
<1>5. ShowsLine(AppendTo(AppendTo(m, x), r), l \o x \o r)
  BY <1>2, <1>4, AppendShows
<1> QED
  BY <1>3, <1>5 DEF l, r

LEMMA RemovedShows ==
  ASSUME Memory, NEW from \in 0..Length(input), NEW to \in 0..Length(input)
  PROVE  ShowsLine(Removed(from, to), SubSeq(Text(input), 1, from)
                                        \o SubSeq(Text(input), to + 1, Length(input)))
<1> DEFINE l == SubSeq(Text(input), 1, from)
           r == SubSeq(Text(input), to + 1, Length(input))
           m == On(memory, Upto(input, from))
<1>1. ShowsLine(m, l)
  BY LineHere
<1>2. /\ Text(After(input, to)) = r
      /\ Text(input) \in Strings /\ Len(Text(input)) = Length(input) /\ Length(input) \in Nat
  BY LineHere
<1>3. r \in Strings
  BY <1>2, Middle
<1>4. Removed(from, to) = AppendTo(m, r)
  BY <1>2 DEF Removed
<1> HIDE DEF l, r, m
<1>5. ShowsLine(AppendTo(m, r), l \o r)
  BY <1>1, <1>3, AppendShows
<1> QED
  BY <1>4, <1>5 DEF l, r


(***************************************************************************)
(* Each action is a step of Line                                           *)
(***************************************************************************)

\* s with x behind its first c elements.
With(s, c, x) == SubSeq(s, 1, c) \o x \o SubSeq(s, c + 1, Len(s))

\* s without the elements from + 1..to.
Without(s, from, to) == SubSeq(s, 1, from) \o SubSeq(s, to + 1, Len(s))

\* In t, the text x lies between c and d, what was before and behind it in s
\* is beside it.
Around(s, c, x, t, d) ==
    /\ t \in Strings /\ Len(t) = Len(s) + Len(x) /\ d \in 0..Len(t)
    /\ SubSeq(t, 1, c) = SubSeq(s, 1, c)
    /\ SubSeq(t, d + 1, Len(t)) = SubSeq(s, c + 1, Len(s))

LEMMA Concat3 ==
  ASSUME NEW s \in Strings, NEW c \in 0..Len(s), NEW x \in Strings,
         NEW t, t = With(s, c, x), NEW d, d = c + Len(x)
  PROVE  Around(s, c, x, t, d)
<1> DEFINE l == SubSeq(s, 1, c)
           n == Len(s)
           r == SubSeq(s, c + 1, n)
           e == Len(x)
           u == l \o x
           f == Len(t)
<1>1. n \in Nat /\ e \in Nat /\ c \in Nat /\ c <= n /\ d = c + e /\ d \in Nat /\ n = Len(s)
      /\ e = Len(x)
  BY Lengths
<1>2. l \in Strings /\ Len(l) = c /\ \A i \in 1..c : l[i] = s[i]
  <2>1. 1 \in Nat \ {0} /\ c \in Nat /\ 1 <= c + 1 /\ c <= Len(s)
    BY <1>1
  <2>2. /\ l \in Strings /\ Len(l) = c - 1 + 1
        /\ \A i \in 1..c - 1 + 1 : l[i] = s[1 + i - 1]
    BY <2>1, PartOf
  <2> HIDE DEF l
  <2>3. c - 1 + 1 = c /\ \A i \in 1..c : 1 + i - 1 = i
    BY <1>1
  <2> QED
    BY <2>2, <2>3
<1>3. t = u \o r
  BY DEF With
<1> HIDE DEF l, n, e, f
<1>4. n \in c..Len(s) /\ c \in 0..Len(s)
  BY <1>1
<1>5. r \in Strings /\ Len(r) = n - c
  BY <1>4, Middle
<1> HIDE DEF r
<1>6. /\ u \in Strings /\ Len(u) = d
      /\ \A i \in 1..d : u[i] = IF i <= c THEN l[i] ELSE x[i - c]
  <2>1. /\ u \in Strings /\ Len(u) = Len(l) + Len(x)
        /\ \A i \in 1..Len(l) + Len(x) : u[i] = IF i <= Len(l) THEN l[i] ELSE x[i - Len(l)]
    BY <1>2, Joined
  <2>2. Len(l) + Len(x) = d
    BY <1>1, <1>2
  <2> HIDE DEF u
  <2> QED
    BY <1>2, <2>1, <2>2
<1> HIDE DEF u
<1>7. /\ t \in Strings /\ Len(t) = d + (n - c)
      /\ \A i \in 1..d + (n - c) : t[i] = IF i <= d THEN u[i] ELSE r[i - d]
  <2>1. /\ u \o r \in Strings /\ Len(u \o r) = Len(u) + Len(r)
        /\ \A i \in 1..Len(u) + Len(r) :
               (u \o r)[i] = IF i <= Len(u) THEN u[i] ELSE r[i - Len(u)]
    BY <1>5, <1>6, Joined
  <2> QED
    BY <1>3, <1>5, <1>6, <2>1
<1>8. f = n + e /\ f \in Nat /\ d \in 0..f /\ f - d = n - c /\ f = Len(t) /\ c <= f /\ d <= f
  BY <1>1, <1>7 DEF f
<1>9. SubSeq(t, 1, c) = l
  <2> DEFINE p == SubSeq(t, 1, c)
  <2>1. 1 \in Nat \ {0} /\ c \in Nat /\ 1 <= c + 1 /\ c <= Len(t)
    BY <1>1, <1>8
  <2>2. p \in Strings /\ Len(p) = c - 1 + 1 /\ \A i \in 1..c - 1 + 1 : p[i] = t[1 + i - 1]
    BY <1>7, <2>1, PartOf
  <2> HIDE DEF p
  <2>3. ASSUME NEW i \in 1..c
        PROVE  p[i] = l[i]
    <3>1. i \in 1..d + (n - c) /\ i <= d /\ i \in 1..d /\ 1 + i - 1 = i /\ i \in 1..c - 1 + 1
          /\ i <= c
      BY <1>1
    <3>2. p[i] = t[i]
      BY <2>2, <3>1
    <3> QED
      BY <1>6, <1>7, <3>1, <3>2
  <2>4. Len(p) = c
    BY <1>1, <2>2
  <2>5. p = l
    BY <1>2, <2>2, <2>3, <2>4, SameString
  <2> QED
    BY <2>5 DEF p
<1>10. SubSeq(t, d + 1, f) = r
  <2> DEFINE p == SubSeq(t, d + 1, f)
  <2>1. f \in d..Len(t) /\ d \in 0..Len(t)
    BY <1>1, <1>8
  <2>2. p \in Strings /\ Len(p) = f - d /\ \A i \in 1..f - d : p[i] = t[d + i]
    BY <1>7, <2>1, Middle
  <2> HIDE DEF p
  <2>3. ASSUME NEW i \in 1..n - c
        PROVE  p[i] = r[i]
    <3>1. d + i \in 1..d + (n - c) /\ ~ (d + i <= d) /\ d + i - d = i /\ i \in 1..f - d
      BY <1>1, <1>8
    <3>2. p[i] = t[d + i]
      BY <2>2, <3>1
    <3> QED
      BY <1>7, <3>1, <3>2
  <2>4. Len(p) = n - c
    BY <1>8, <2>2
  <2>5. p = r
    BY <1>5, <2>2, <2>3, <2>4, SameString
  <2> QED
    BY <2>5 DEF p
<1> QED
  BY <1>7, <1>8, <1>9, <1>10 DEF l, r, n, e, f, Around

LEMMA WithoutPart ==
  ASSUME NEW s \in Strings, NEW from \in 0..Len(s), NEW to \in from..Len(s),
         NEW t, t = Without(s, from, to)
  PROVE  t \in Strings /\ from \in 0..Len(t)
<1> DEFINE l == SubSeq(s, 1, from)
           r == SubSeq(s, to + 1, Len(s))
           n == Len(s)
           zero == 0
<1>1. n \in Nat /\ from \in Nat /\ from <= n /\ to \in Nat /\ to <= n
  BY Lengths
<1>2. l \in Strings /\ Len(l) = from
  <2>1. zero \in 0..Len(s) /\ from \in zero..Len(s)
    BY <1>1
  <2>2. SubSeq(s, zero + 1, from) \in Strings /\ Len(SubSeq(s, zero + 1, from)) = from - zero
    <3> HIDE DEF zero
    <3> QED
      BY <2>1, Middle
  <2>3. zero + 1 = 1 /\ from - zero = from
    BY <1>1
  <2> QED
    BY <2>2, <2>3
<1>3. r \in Strings /\ Len(r) \in Nat
  <2>1. n \in to..Len(s) /\ to \in 0..Len(s)
    BY <1>1
  <2>2. r \in Strings
    <3> HIDE DEF n
    <3>1. SubSeq(s, to + 1, n) \in Strings
      BY <2>1, Middle
    <3> QED
      BY <3>1 DEF n
  <2> QED
    BY <2>2, Lengths
<1> HIDE DEF l, r
<1>4. l \o r \in Strings /\ Len(l \o r) = from + Len(r)
  BY <1>2, <1>3, Joined
<1>5. t = l \o r
  BY DEF l, r, Without
<1> HIDE DEF n
<1>6. t \in Strings /\ Len(t) = from + Len(r)
  BY <1>4, <1>5
<1>7. from \in 0..Len(t)
  BY <1>1, <1>3, <1>6
<1> QED
  BY <1>6, <1>7

LEMMA ViewHere ==
  ASSUME Memory, cx \in 0..Length(input)
  PROVE  /\ Min({cx, Length(input)}) = cx /\ Text(input) \in Strings
         /\ Len(Text(input)) = Length(input) /\ Length(input) \in Nat /\ cx \in Nat
<1>1. /\ Text(input) \in Strings /\ Len(Text(input)) = Length(input) /\ Length(input) \in Nat
  BY LineHere
<1>2. cx \in Nat /\ cx <= Length(input)
  BY <1>1
<1> DEFINE n == Length(input)
<1>3. n \in Nat /\ cx <= n
  BY <1>1, <1>2
<1> HIDE DEF n
<1>4. Min({cx, n}) = cx
  BY <1>2, <1>3, MinOfTwo
<1> QED
  BY <1>1, <1>2, <1>4 DEF n

LEMMA ViewNext ==
  ASSUME NEW t, NEW c, NEW k, Becomes(t, c, k)
  PROVE  /\ Text(input)' = t /\ Min({cx, Length(input)})' = c /\ Text(yanked)' = k
         /\ cx' \in 0..Length(input)'
<1>1. /\ t \in Strings /\ c \in 0..Len(t) /\ Length(input)' = Len(t) /\ cx' = c
      /\ Text(input)' = t /\ Text(yanked)' = k
  BY DEF Becomes
<1>2. Len(t) \in Nat /\ c \in Nat /\ c <= Len(t)
  BY <1>1, Lengths
<1> DEFINE n == Len(t)
<1>3. n \in Nat /\ c <= n
  BY <1>2
<1> HIDE DEF n
<1>4. Min({c, n}) = c
  BY <1>2, <1>3, MinOfTwo
<1>5. Min({cx, Length(input)})' = Min({c, n})
  BY <1>1 DEF n
<1> QED
  BY <1>1, <1>4, <1>5

\* What an action shows to Line.
LineStep == Memory' /\ cx' \in 0..Length(input)' /\ LineView!Next

LEMMA InsertStep ==
  ASSUME Memory, cx \in 0..Length(input), NEW x \in Strings, NEW m, NEW t, ShowsLine(m, t),
         t = With(Text(input), cx, x),
         SetLine(m, cx + Len(x), yanked), UNCHANGED previousInput
  PROVE  LineStep
<1> DEFINE s == Text(input)
           c == cx + Len(x)
<1>1. s \in Strings /\ Len(s) = Length(input) /\ Min({cx, Length(input)}) = cx
      /\ cx \in 0..Len(s) /\ Len(s) \in Nat /\ Len(x) \in Nat
  BY ViewHere, Lengths
<1>2. t = With(s, cx, x)
  OBVIOUS
<1> HIDE DEF s, c
<1>2a. c = cx + Len(x)
  BY DEF c
<1>3. /\ t \in Strings /\ Len(t) = Len(s) + Len(x) /\ c \in 0..Len(t)
      /\ SubSeq(t, 1, cx) = SubSeq(s, 1, cx)
      /\ SubSeq(t, c + 1, Len(t)) = SubSeq(s, cx + 1, Len(s))
  <2>1. s \in Strings /\ cx \in 0..Len(s) /\ x \in Strings /\ t = With(s, cx, x)
        /\ c = cx + Len(x)
    BY <1>1, <1>2, <1>2a
  <2>2. Around(s, cx, x, t, c)
    BY <2>1, Concat3
  <2> QED
    BY <2>2 DEF Around
<1>4. Memory' /\ Becomes(t, c, Text(yanked))
  BY <1>3, KeepsKilled DEF c
<1>5. /\ Text(input)' = t /\ Min({cx, Length(input)})' = c /\ Text(yanked)' = Text(yanked)
      /\ cx' \in 0..Length(input)'
  BY <1>4, ViewNext
<1>6. c >= cx /\ Len(t) = Len(s) + c - cx
  BY <1>1, <1>3 DEF c
<1>7. LineView!Insert
  BY <1>1, <1>3, <1>5, <1>6 DEF LineView!Insert, LineView!Left, LineView!Right, s
<1> QED
  BY <1>4, <1>5, <1>7 DEF LineStep, LineView!Next

LEMMA ReplaceStep ==
  ASSUME Memory, NEW t \in Strings, ReplaceLine(t), UNCHANGED previousInput
  PROVE  LineStep
<1>1. ShowsLine(CopyOf(t), t) /\ SetLine(CopyOf(t), Len(t), yanked) /\ Len(t) \in 0..Len(t)
  BY CopyShows, Lengths DEF ReplaceLine
<1>2. Memory' /\ Becomes(t, Len(t), Text(yanked))
  BY <1>1, KeepsKilled
<1>3. /\ Text(input)' = t /\ Min({cx, Length(input)})' = Len(t) /\ Text(yanked)' = Text(yanked)
      /\ cx' \in 0..Length(input)'
  BY <1>2, ViewNext
<1>4. LineView!Replace
  BY <1>3 DEF LineView!Replace
<1> QED
  BY <1>2, <1>3, <1>4 DEF LineStep, LineView!Next

LEMMA CancelIsStep ==
  ASSUME Memory, Cancel, UNCHANGED previousInput
  PROVE  LineStep
<1> DEFINE none == <<>>
           s == Text(input)
<1>1. Memory' /\ Becomes(none, 0, s)
  BY CancelStep
<1> HIDE DEF none, s
<1>2. Text(input)' = none /\ Min({cx, Length(input)})' = 0 /\ Text(yanked)' = s
      /\ cx' \in 0..Length(input)'
  BY <1>1, ViewNext
<1>3. LineView!Cancel
  BY <1>2 DEF LineView!Cancel, none, s
<1> QED
  BY <1>1, <1>2, <1>3 DEF LineStep, LineView!Next

LEMMA MoveStep ==
  ASSUME Memory, NEW c \in 0..Length(input), MoveTo(c), UNCHANGED previousInput
  PROVE  LineStep
<1>1. /\ Text(input) \in Strings /\ Len(Text(input)) = Length(input) /\ Length(input) \in Nat
  BY LineHere
<1>2. /\ cx' = c /\ Text(input)' = Text(input) /\ Text(yanked)' = Text(yanked)
      /\ Length(input)' = Length(input) /\ Memory'
  BY DEF MoveTo, Text, TextIn, Length, Memory, Sound, Inside
<1>3. Becomes(Text(input), c, Text(yanked))
  BY <1>1, <1>2 DEF Becomes
<1>4. Min({cx, Length(input)})' = c /\ cx' \in 0..Length(input)'
  BY <1>3, ViewNext
<1>5. LineView!Move
  BY <1>1, <1>2, <1>4 DEF LineView!Move
<1> QED
  BY <1>2, <1>4, <1>5 DEF LineStep, LineView!Next

LEMMA KillStep ==
  ASSUME Memory, cx \in 0..Length(input), NEW from \in 0..cx, NEW to \in cx..Length(input),
         from = cx \/ to = cx, NEW m, NEW t, ShowsLine(m, t), t = Without(Text(input), from, to),
         Yanking(from, to, m, from), UNCHANGED previousInput
  PROVE  LineStep
<1> DEFINE s == Text(input)
           n == Length(input)
           f == from + 1
           k == SubSeq(s, f, to)
<1>1. /\ s \in Strings /\ Len(s) = n /\ Min({cx, n}) = cx
      /\ n \in Nat /\ cx \in Nat /\ cx <= n /\ from \in Nat /\ from <= cx /\ to \in Nat /\ cx <= to
      /\ to <= n /\ f - 1 = from /\ f \in 1..(cx + 1) /\ to \in cx..n
      /\ f = cx + 1 \/ to = cx
  BY ViewHere
<1>2. from \in 0..Len(s) /\ to \in from..Len(s) /\ from \in 0..n /\ to \in from..n
  BY <1>1
<1>3. t = Without(s, from, to)
  OBVIOUS
<1> HIDE DEF s, f, k, n
<1>4. t \in Strings /\ from \in 0..Len(t)
  BY <1>1, <1>2, <1>3, WithoutPart
<1>5. Memory' /\ Becomes(t, from, k)
  <2>1. from \in 0..Length(input) /\ to \in from..Length(input)
    BY <1>2 DEF n
  <2>2. Memory' /\ Becomes(t, from, SubSeq(Text(input), from + 1, to))
    BY <1>4, <2>1, YankingStep
  <2> QED
    BY <2>2 DEF k, f, s
<1>6. /\ Text(input)' = t /\ Min({cx, Length(input)})' = from /\ Text(yanked)' = k
      /\ cx' \in 0..Length(input)'
  BY <1>5, ViewNext
<1>7. t = SubSeq(s, 1, f - 1) \o SubSeq(s, to + 1, Len(s)) /\ from = f - 1
  BY <1>1, <1>3 DEF Without
<1>8. LineView!Kill
  <2> DEFINE c == Min({cx, n})
             text == Text(input)'
             cur == Min({cx, Length(input)})'
             killed == Text(yanked)'
  <2>1. f \in 1..(c + 1) /\ to \in c..Len(s) /\ (f = c + 1 \/ to = c)
    BY <1>1
  <2>2. /\ text = SubSeq(s, 1, f - 1) \o SubSeq(s, to + 1, Len(s)) /\ cur = f - 1
        /\ killed = SubSeq(s, f, to)
    BY <1>6, <1>7 DEF k
  <2> HIDE DEF c, text, cur, killed
  <2>3. \E i \in 1..(c + 1), j \in c..Len(s) :
            /\ i = c + 1 \/ j = c
            /\ text = SubSeq(s, 1, i - 1) \o SubSeq(s, j + 1, Len(s)) /\ cur = i - 1
            /\ killed = SubSeq(s, i, j)
    BY <2>1, <2>2
  <2> QED
    BY <2>3 DEF LineView!Kill, LineView!Cut, s, n, c, text, cur, killed
<1> QED
  BY <1>5, <1>6, <1>8 DEF LineStep, LineView!Next

LEMMA DeleteStep ==
  ASSUME Memory, cx \in 0..Length(input), NEW from \in 0..Length(input), from < Length(input),
         from = cx \/ from = cx - 1, NEW m, NEW t, ShowsLine(m, t),
         t = Without(Text(input), from, from + 1), SetLine(m, from, yanked), UNCHANGED previousInput
  PROVE  LineStep
<1> DEFINE s == Text(input)
           n == Length(input)
           f == from + 1
<1>1. /\ s \in Strings /\ Len(s) = n /\ Min({cx, n}) = cx
      /\ n \in Nat /\ cx \in Nat /\ cx <= n /\ from \in Nat /\ f <= n
      /\ f - 1 = from /\ f \in {cx, cx + 1} /\ f \in 1..Len(s)
      /\ from \in 0..Len(s) /\ f \in from..Len(s)
  BY ViewHere
<1>2. t = Without(s, from, f)
  OBVIOUS
<1> HIDE DEF s, f, n
<1>3. t \in Strings /\ from \in 0..Len(t)
  BY <1>1, <1>2, WithoutPart
<1>4. Memory' /\ Becomes(t, from, Text(yanked))
  BY <1>3, KeepsKilled
<1>5. /\ Text(input)' = t /\ Min({cx, Length(input)})' = from /\ Text(yanked)' = Text(yanked)
      /\ cx' \in 0..Length(input)'
  BY <1>4, ViewNext
<1>6. t = SubSeq(s, 1, f - 1) \o SubSeq(s, f + 1, Len(s)) /\ from = f - 1
  BY <1>1, <1>2 DEF Without
<1>7. LineView!Cut(f, f)
  BY <1>5, <1>6 DEF LineView!Cut, s
<1>8. LineView!Delete
  <2>1. f \in {Min({cx, n}), Min({cx, n}) + 1} \cap (1..Len(s))
    BY <1>1
  <2> QED
    BY <1>5, <1>7, <2>1 DEF LineView!Delete, s, n
<1> QED
  BY <1>4, <1>5, <1>8 DEF LineStep, LineView!Next

\* Of nothing, nothing is left.
LEMMA NothingBeside ==
  ASSUME NEW s \in Strings, NEW c \in 0..Len(s)
  PROVE  /\ Without(s, c, Len(s)) = SubSeq(s, 1, c)
         /\ Without(s, 0, c) = SubSeq(s, c + 1, Len(s))
<1> DEFINE n == Len(s)
           zero == 0
           l == SubSeq(s, 1, c)
           r == SubSeq(s, c + 1, n)
           e == SubSeq(s, n + 1, n)
           b == SubSeq(s, 1, zero)
           none == <<>>
<1>1. n \in Nat /\ c \in Nat /\ c <= n /\ n = Len(s) /\ zero = 0
  BY Lengths
<1>2. Without(s, c, Len(s)) = l \o e /\ Without(s, 0, c) = b \o r
  BY DEF Without
<1> HIDE DEF n, zero
<1>3. n \in n..Len(s) /\ n \in 0..Len(s) /\ n \in c..Len(s) /\ c \in 0..Len(s) /\ n - n = 0
  BY <1>1
<1>4. e \in Strings /\ Len(e) = 0
  BY <1>3, Middle
<1>5. r \in Strings
  BY <1>3, Middle
<1>6. l \in Strings
  BY <1>1, PartOf
<1>7. b \in Strings /\ Len(b) = 0
  <2>1. 1 \in Nat \ {0} /\ zero \in Nat /\ 1 <= zero + 1 /\ zero <= Len(s) /\ zero - 1 + 1 = 0
    BY <1>1
  <2> QED
    BY <2>1, PartOf
<1> HIDE DEF l, r, e, b
<1>8. e = none /\ b = none
  BY <1>4, <1>7 DEF Strings
<1>9. l \o none = l /\ none \o r = r
  BY <1>5, <1>6, ConcatEmptySeq DEF Strings
<1> HIDE DEF none
<1>10. l \o e = l /\ b \o r = r
  BY <1>8, <1>9
<1> QED
  BY <1>2, <1>10 DEF l, r, n

(***************************************************************************)
(* Words                                                                   *)
(***************************************************************************)

LEMMA WordStarts ==
  ASSUME NEW s \in Strings, NEW first, NEW second
  PROVE  WordStart(s, first, second) \in 0..Len(s)
<1> DEFINE T == {0} \cup {i \in 1..(Len(s) - 1) : s[i] \in first /\ s[i + 1] \in second}
           n == Len(s)
<1>1. n \in Nat
  BY Lengths
<1>2. T \subseteq 0..n /\ T # {}
  BY <1>1
<1>3. WordStart(s, first, second) = Max(T)
  BY DEF WordStart
<1> HIDE DEF T, n
<1>4. Max(T) \in T
  BY <1>1, <1>2, MaxOf
<1> QED
  BY <1>2, <1>3, <1>4 DEF n

LEMMA NextWords ==
  ASSUME NEW s \in Strings
  PROVE  NextWord(s) \in 0..Len(s)
<1> DEFINE T == {i \in 1..(Len(s) - 1) : s[i] \in Word /\ s[i + 1] \notin Word} \cup {Len(s)}
           n == Len(s)
<1>1. n \in Nat
  BY Lengths
<1>2. T \subseteq 0..n /\ T # {} /\ T \subseteq Nat
  BY <1>1
<1>3. NextWord(s) \in {0, Min(T)}
  BY DEF NextWord
<1> HIDE DEF T, n
<1>4. Min(T) \in T
  BY <1>2, MinOf
<1> DEFINE m == Min(T)
           w == NextWord(s)
           zero == 0
<1>5. m \in T /\ w \in {zero, m} /\ zero \in 0..n
  BY <1>1, <1>3, <1>4
<1> HIDE DEF m, w, zero
<1>6. w \in 0..n
  BY <1>2, <1>5
<1> QED
  BY <1>6 DEF n, w

(***************************************************************************)
(* The actions that edit                                                   *)
(***************************************************************************)

\* The bounds of the words next to the cursor.
LEMMA WordsNear ==
  ASSUME Memory, cx \in 0..Length(input)
  PROVE  /\ LastWord(Text(Upto(input, cx))) \in 0..cx
         /\ LastSpaced(Text(Upto(input, cx))) \in 0..cx
         /\ cx + NextWord(Text(After(input, cx))) \in cx..Length(input)
<1> DEFINE l == Text(Upto(input, cx))
           r == Text(After(input, cx))
           n == Length(input)
<1>1. Sound(memory) /\ Inside(memory, input) /\ cx \in Nat /\ n \in Nat /\ cx <= n
  BY ViewHere DEF Memory
<1>2. l \in Strings /\ Len(l) = cx
  <2> DEFINE u == Upto(input, cx)
  <2>1. Inside(memory, u) /\ Length(u) = cx
    BY <1>1, Prefix
  <2> HIDE DEF u
  <2>2. TextIn(memory, u) \in Strings /\ Len(TextIn(memory, u)) = Length(u)
    BY <1>1, <2>1, TextOfSlice
  <2> QED
    BY <2>1, <2>2 DEF Text, u
<1>3. r \in Strings /\ Len(r) = n - cx
  <2> DEFINE u == After(input, cx)
  <2>1. Inside(memory, u) /\ Length(u) = n - cx
    BY <1>1, Suffix
  <2> HIDE DEF u
  <2>2. TextIn(memory, u) \in Strings /\ Len(TextIn(memory, u)) = Length(u)
    BY <1>1, <2>1, TextOfSlice
  <2> QED
    BY <2>1, <2>2 DEF Text, u
<1> HIDE DEF l, r, n
<1>4. LastWord(l) \in 0..cx /\ LastSpaced(l) \in 0..cx
  BY <1>2, WordStarts DEF LastWord, LastSpaced
<1>5. NextWord(r) \in 0..(n - cx)
  BY <1>3, NextWords
<1>6. cx + NextWord(r) \in cx..n
  BY <1>1, <1>5
<1> QED
  BY <1>4, <1>6 DEF l, r, n

LEMMA RemovedIs ==
  ASSUME Memory, NEW from \in 0..Length(input), NEW to \in 0..Length(input)
  PROVE  ShowsLine(Removed(from, to), Without(Text(input), from, to))
<1>1. Len(Text(input)) = Length(input)
  BY LineHere
<1>2. ShowsLine(Removed(from, to), SubSeq(Text(input), 1, from)
                                     \o SubSeq(Text(input), to + 1, Length(input)))
  BY RemovedShows
<1> QED
  BY <1>1, <1>2 DEF Without

LEMMA InsertedIs ==
  ASSUME Memory, cx \in 0..Length(input), NEW x \in Strings
  PROVE  ShowsLine(Inserted(x), With(Text(input), cx, x))
<1>1. Len(Text(input)) = Length(input)
  BY LineHere
<1>2. ShowsLine(Inserted(x), SubSeq(Text(input), 1, cx) \o x
                               \o SubSeq(Text(input), cx + 1, Length(input)))
  BY InsertedShows
<1> QED
  BY <1>1, <1>2 DEF With

LEMMA RuboutStep ==
  ASSUME Memory, cx \in 0..Length(input), NEW c \in 0..cx, Rubout(c), UNCHANGED previousInput
  PROVE  LineStep
<1> DEFINE m == Removed(c, cx)
           t == Without(Text(input), c, cx)
<1>1. c \in 0..Length(input) /\ cx \in cx..Length(input)
  BY ViewHere
<1>2. ShowsLine(m, t)
  BY <1>1, RemovedIs
<1>3. Yanking(c, cx, m, c) /\ t = Without(Text(input), c, cx)
  BY DEF Rubout
<1> HIDE DEF m, t
<1> QED
  BY <1>1, <1>2, <1>3, KillStep

LEMMA KillWordStep ==
  ASSUME Memory, cx \in 0..Length(input), KillWord, UNCHANGED previousInput
  PROVE  LineStep
<1> DEFINE to == cx + NextWord(Text(After(input, cx)))
           m == Removed(cx, to)
           t == Without(Text(input), cx, to)
<1>1. to \in cx..Length(input)
  BY WordsNear
<1>2. Yanking(cx, to, m, cx)
  BY DEF KillWord
<1> HIDE DEF to
<1>3. to \in 0..Length(input) /\ cx \in 0..cx
  BY <1>1, ViewHere
<1>4. ShowsLine(m, t)
  BY <1>3, RemovedIs
<1>5. t = Without(Text(input), cx, to)
  OBVIOUS
<1> HIDE DEF m, t
<1> QED
  BY <1>1, <1>2, <1>3, <1>4, <1>5, KillStep

LEMMA KillLineStep ==
  ASSUME Memory, cx \in 0..Length(input), KillLine, UNCHANGED previousInput
  PROVE  LineStep
<1> DEFINE n == Length(input)
           m == On(memory, Upto(input, cx))
           t == SubSeq(Text(input), 1, cx)
<1>1. /\ ShowsLine(m, t) /\ Text(input) \in Strings /\ Len(Text(input)) = n /\ n \in Nat
      /\ cx \in 0..cx /\ n \in cx..Length(input)
  BY LineHere, ViewHere
<1>2. Yanking(cx, n, m, cx)
  BY DEF KillLine
<1>3. t = Without(Text(input), cx, n)
  BY <1>1, NothingBeside
<1> HIDE DEF n, m, t
<1> QED
  BY <1>1, <1>2, <1>3, KillStep

LEMMA UnixLineDiscardStep ==
  ASSUME Memory, cx \in 0..Length(input), UnixLineDiscard, UNCHANGED previousInput
  PROVE  LineStep
<1> DEFINE m == On(memory, After(input, cx))
           n == Length(input)
           t == SubSeq(Text(input), cx + 1, n)
           from == 0
<1>1. /\ ShowsLine(m, t) /\ Text(input) \in Strings /\ Len(Text(input)) = n
      /\ from \in 0..cx /\ cx \in cx..Length(input)
  BY LineHere, ViewHere
<1>2. Yanking(from, cx, m, from)
  BY DEF UnixLineDiscard
<1>3. t = Without(Text(input), from, cx)
  BY <1>1, NothingBeside
<1> HIDE DEF m, n, t, from
<1> QED
  BY <1>1, <1>2, <1>3, KillStep

LEMMA CharStep ==
  ASSUME Memory, cx \in 0..Length(input), Char, UNCHANGED previousInput
  PROVE  LineStep
<1> DEFINE l == Text(Upto(input, cx))
           r == Text(After(input, cx))
<1>1. PICK rune \in Runes :
          SetLine(AppendTo(AppendTo(CopyOf(l), <<rune>>), r), cx + 1, yanked)
  BY DEF Char
<1> DEFINE x == <<rune>>
           s == Text(input)
           n == Length(input)
<1>2. x \in Strings /\ Len(x) = 1
  BY RunesIn
<1>3. l = SubSeq(s, 1, cx) /\ r = SubSeq(s, cx + 1, n) /\ s \in Strings /\ Len(s) = n
  BY LineHere
<1>4. n \in cx..Len(s) /\ cx \in 0..Len(s) /\ 1 \in Nat \ {0} /\ cx \in Nat /\ 1 <= cx + 1
      /\ cx <= Len(s)
  BY ViewHere
<1>5. l \in Strings
  BY <1>3, <1>4, PartOf
<1>6. r \in Strings
  <2> HIDE DEF n, s
  <2> QED
    BY <1>3, <1>4, Middle
<1> HIDE DEF x, l, r
<1>7. ShowsLine(CopyOf(l), l)
  BY <1>5, CopyShows
<1>8. ShowsLine(AppendTo(CopyOf(l), x), l \o x)
  BY <1>2, <1>7, AppendShows
<1>9. ShowsLine(AppendTo(AppendTo(CopyOf(l), x), r), l \o x \o r)
  BY <1>6, <1>8, AppendShows
<1>10. With(Text(input), cx, x) = l \o x \o r
  BY <1>3 DEF With
<1> DEFINE m == AppendTo(AppendTo(CopyOf(l), x), r)
           t == With(Text(input), cx, x)
<1>11. ShowsLine(m, t) /\ t = With(Text(input), cx, x)
  BY <1>9, <1>10
<1>12. SetLine(m, cx + Len(x), yanked)
  BY <1>1, <1>2 DEF x
<1> HIDE DEF m, t
<1> QED
  BY <1>2, <1>11, <1>12, InsertStep

\* put and yank.
LEMMA PutStep ==
  ASSUME Memory, cx \in 0..Length(input), NEW x \in Strings,
         SetLine(Inserted(x), cx + Len(x), yanked), UNCHANGED previousInput
  PROVE  LineStep
<1> DEFINE m == Inserted(x)
           t == With(Text(input), cx, x)
<1>1. ShowsLine(m, t) /\ t = With(Text(input), cx, x) /\ SetLine(m, cx + Len(x), yanked)
  BY InsertedIs
<1> HIDE DEF m, t
<1> QED
  BY <1>1, InsertStep

LEMMA YankStep ==
  ASSUME Memory, cx \in 0..Length(input), Yank, UNCHANGED previousInput
  PROVE  LineStep
<1> DEFINE x == Text(yanked)
<1>1. x \in Strings /\ Len(x) = Length(yanked)
  BY TextOfSlice DEF Memory, Text
<1>2. SetLine(Inserted(x), cx + Len(x), yanked)
  BY <1>1 DEF Yank
<1> HIDE DEF x
<1> QED
  BY <1>1, <1>2, PutStep

LEMMA DeleteCharStep ==
  ASSUME Memory, cx \in 0..Length(input), cx < Length(input), DeleteChar, UNCHANGED previousInput
  PROVE  LineStep
<1> DEFINE m == Removed(cx, cx + 1)
           t == Without(Text(input), cx, cx + 1)
<1>1. cx + 1 \in 0..Length(input)
  BY ViewHere
<1>2. ShowsLine(m, t)
  BY <1>1, RemovedIs
<1>3. SetLine(m, cx, yanked) /\ t = Without(Text(input), cx, cx + 1)
  BY DEF DeleteChar
<1> HIDE DEF m, t
<1> QED
  BY <1>2, <1>3, DeleteStep

LEMMA BackwardDeleteCharStep ==
  ASSUME Memory, cx \in 0..Length(input), cx > 0, BackwardDeleteChar, UNCHANGED previousInput
  PROVE  LineStep
<1> DEFINE from == cx - 1
           m == Removed(from, cx)
           t == Without(Text(input), from, from + 1)
<1>1. from \in 0..Length(input) /\ from < Length(input) /\ cx = from + 1
  BY ViewHere
<1>2. ShowsLine(m, t)
  BY <1>1, RemovedIs
<1>3. SetLine(m, from, yanked) /\ t = Without(Text(input), from, from + 1) /\ from = cx - 1
  BY DEF BackwardDeleteChar
<1> HIDE DEF from, m, t
<1> QED
  BY <1>1, <1>2, <1>3, DeleteStep

\* Every action that edits is a step of Line, and leaves the memory in order.
LEMMA EditStep ==
  ASSUME Memory, cx \in 0..Length(input), NEW a, Applies(a), Edit(a), UNCHANGED previousInput
  PROVE  LineStep
<1>0. cx \in Nat /\ Length(input) \in Nat /\ cx <= Length(input)
  BY ViewHere
<1>1. CASE BeginningOfLine \/ EndOfLine
  <2>1. 0 \in 0..Length(input) /\ Length(input) \in 0..Length(input)
    BY <1>0
  <2> QED
    BY <1>1, <2>1, MoveStep DEF BeginningOfLine, EndOfLine
<1>2. CASE a = "backward-char" /\ BackwardChar
  <2> DEFINE c == cx - 1
  <2>1. c \in 0..Length(input)
    BY <1>0, <1>2 DEF Applies
  <2>2. MoveTo(c)
    BY <1>2 DEF BackwardChar
  <2> HIDE DEF c
  <2> QED
    BY <2>1, <2>2, MoveStep
<1>3. CASE a = "forward-char" /\ ForwardChar
  <2> DEFINE c == cx + 1
  <2>1. c \in 0..Length(input)
    BY <1>0, <1>3 DEF Applies
  <2>2. MoveTo(c)
    BY <1>3 DEF ForwardChar
  <2> HIDE DEF c
  <2> QED
    BY <2>1, <2>2, MoveStep
<1>4. CASE BackwardWord
  <2> DEFINE c == LastWord(Text(Upto(input, cx)))
  <2>1. c \in 0..cx
    BY WordsNear
  <2>2. MoveTo(c)
    BY <1>4 DEF BackwardWord
  <2> HIDE DEF c
  <2>3. c \in 0..Length(input)
    BY <1>0, <2>1
  <2> QED
    BY <2>2, <2>3, MoveStep
<1>5. CASE ForwardWord
  <2> DEFINE c == cx + NextWord(Text(After(input, cx)))
  <2>1. c \in cx..Length(input)
    BY WordsNear
  <2>2. MoveTo(c)
    BY <1>5 DEF ForwardWord
  <2> HIDE DEF c
  <2>3. c \in 0..Length(input)
    BY <1>0, <2>1
  <2> QED
    BY <2>2, <2>3, MoveStep
<1>6. CASE a \in {"delete-char", "delete-char/eof"} /\ DeleteChar
  <2>1. cx < Length(input)
    BY <1>6 DEF Applies
  <2> QED
    BY <1>6, <2>1, DeleteCharStep
<1>7. CASE a \in {"backward-delete-char", "backward-delete-char/eof"} /\ BackwardDeleteChar
  <2>1. cx > 0
    BY <1>7 DEF Applies
  <2> QED
    BY <1>7, <2>1, BackwardDeleteCharStep
<1>8. CASE Char
  BY <1>8, CharStep
<1>9. CASE Put
  <2>1. PICK t \in Texts : SetLine(Inserted(t), cx + Len(t), yanked)
    BY <1>9 DEF Put
  <2> QED
    BY <2>1, RunesIn, PutStep
<1>10. CASE Yank
  BY <1>10, YankStep
<1>11. CASE ChangeQuery
  <2>1. PICK t \in Texts : ReplaceLine(t)
    BY <1>11 DEF ChangeQuery
  <2> QED
    BY <2>1, RunesIn, ReplaceStep
<1>12. CASE ClearQuery
  BY <1>12, NoString, ReplaceStep DEF ClearQuery
<1>13. CASE Cancel
  BY <1>13, CancelIsStep
<1>14. CASE UnixLineDiscard
  BY <1>14, UnixLineDiscardStep
<1>15. CASE UnixWordRubout
  BY <1>15, WordsNear, RuboutStep DEF UnixWordRubout
<1>16. CASE BackwardKillWord
  BY <1>16, WordsNear, RuboutStep DEF BackwardKillWord
<1>17. CASE KillWord
  BY <1>17, KillWordStep
<1>18. CASE KillLine
  BY <1>18, KillLineStep
<1> QED
  BY <1>1, <1>2, <1>3, <1>4, <1>5, <1>6, <1>7, <1>8, <1>9, <1>10, <1>11, <1>12, <1>13, <1>14,
     <1>15, <1>16, <1>17, <1>18 DEF Edit

(***************************************************************************)
(* The history                                                             *)
(***************************************************************************)

\* The lines are those of the file and one more, the one being edited.
HistoryHere ==
    /\ lines \in Seq(Strings) /\ Len(lines) = Len(file) + 1
    /\ \A i \in 1..Len(file) : lines[i] = file[i]
    /\ cursor \in 1..Len(lines)
    /\ DOMAIN modified \subseteq 1..Len(file)
    /\ \A c \in DOMAIN modified : modified[c] \in Strings

HistoryOK == file \in Seq(Strings) /\ (leaving # "done" => HistoryHere)

LEMMA Trimmed ==
  ASSUME NEW s \in Strings
  PROVE  TrimQuery(s) \in Strings
<1> DEFINE n == Len(s)
<1>1. n \in Nat /\ DOMAIN s = 1..n /\ \A i \in 1..n : s[i] \in Alphabet
  BY Lengths
<1>2. " " \in Alphabet
  BY DEF Alphabet
<1> HIDE DEF n
<1>3. TrimQuery(s) \in [1..n -> Alphabet]
  BY <1>1, <1>2 DEF TrimQuery
<1> QED
  BY <1>1, <1>3 DEF Strings

\* A line edited aside, or the last one in place.
LEMMA Overridden ==
  ASSUME file \in Seq(Strings), HistoryHere, NEW str \in Strings, Override(str)
  PROVE  /\ lines' \in Seq(Strings) /\ Len(lines') = Len(file) + 1
         /\ \A i \in 1..Len(file) : lines'[i] = file[i]
         /\ DOMAIN modified' \subseteq 1..Len(file)
         /\ \A c \in DOMAIN modified' : modified'[c] \in Strings
         /\ \A c \in 1..Len(lines) :
                /\ Seen(c)' = IF c = cursor THEN str ELSE Seen(c)
                /\ Seen(c)' \in Strings
<1> DEFINE n == Len(file)
           l == Len(lines)
<1>1. /\ n \in Nat /\ l = n + 1 /\ lines \in Seq(Strings) /\ cursor \in 1..l
      /\ \A i \in 1..n : lines[i] = file[i]
      /\ DOMAIN modified \subseteq 1..n
      /\ \A c \in DOMAIN modified : modified[c] \in Strings
      /\ \A i \in 1..l : lines[i] \in Strings
  BY DEF HistoryHere
<1>2. CASE cursor = Len(lines)
  <2>1. lines' = [lines EXCEPT ![cursor] = str] /\ modified' = modified
    BY <1>2 DEF Override
  <2>2. /\ lines' \in Seq(Strings) /\ Len(lines') = l
        /\ \A i \in 1..l : lines'[i] = IF i = cursor THEN str ELSE lines[i]
    BY <1>1, <2>1, ExceptSeq
  <2> HIDE DEF n, l
  <2>3. cursor = l /\ cursor \notin 1..n
    BY <1>1, <1>2 DEF l
  <2>4. \A i \in 1..n : i \in 1..l /\ i # cursor
    BY <1>1, <2>3
  <2>5. \A i \in 1..n : lines'[i] = file[i]
    BY <1>1, <2>2, <2>4
  <2>6. ASSUME NEW c \in 1..l
        PROVE  /\ Seen(c)' = IF c = cursor THEN str ELSE Seen(c)
               /\ Seen(c)' \in Strings
    BY <1>1, <2>1, <2>2, <2>3 DEF Seen
  <2> QED
    BY <1>1, <2>1, <2>2, <2>5, <2>6 DEF n, l
<1>3. CASE cursor # Len(lines)
  <2>1. /\ lines' = lines
        /\ modified' = [c \in DOMAIN modified \cup {cursor} |->
                           IF c = cursor THEN str ELSE modified[c]]
    BY <1>3 DEF Override
  <2>2. /\ DOMAIN modified' = DOMAIN modified \cup {cursor}
        /\ \A c \in DOMAIN modified' : modified'[c] = IF c = cursor THEN str ELSE modified[c]
    BY <2>1
  <2>3. cursor \in 1..n
    BY <1>1, <1>3
  <2> HIDE DEF n, l
  <2>4. DOMAIN modified' \subseteq 1..n /\ \A c \in DOMAIN modified' : modified'[c] \in Strings
    BY <1>1, <2>2, <2>3
  <2>5. ASSUME NEW c \in 1..l
        PROVE  /\ Seen(c)' = IF c = cursor THEN str ELSE Seen(c)
               /\ Seen(c)' \in Strings
    BY <1>1, <2>1, <2>2, <2>4 DEF Seen
  <2> QED
    BY <1>1, <2>1, <2>4, <2>5 DEF n, l
<1> QED
  BY <1>2, <1>3

\* prev-history and next-history.
LEMMA RecallStep ==
  ASSUME Memory, cx \in 0..Length(input), file \in Seq(Strings), HistoryHere,
         NEW c \in 1..Len(lines), Recall(c), UNCHANGED <<previousInput, file>>
  PROVE  /\ LineStep /\ HistoryHere'
         /\ \A d \in DOMAIN lines : Seen(d)' = IF d = cursor THEN Text(input) ELSE Seen(d)
<1> DEFINE str == Text(input)
<1>1. str \in Strings
  BY LineHere
<1>2. Override(str) /\ cursor' = c /\ ReplaceLine(TrimQuery(Current(c)))
  BY DEF Recall
<1> HIDE DEF str
<1>3. /\ lines' \in Seq(Strings) /\ Len(lines') = Len(file) + 1
      /\ \A i \in 1..Len(file) : lines'[i] = file[i]
      /\ DOMAIN modified' \subseteq 1..Len(file)
      /\ \A d \in DOMAIN modified' : modified'[d] \in Strings
      /\ \A d \in 1..Len(lines) :
             /\ Seen(d)' = IF d = cursor THEN str ELSE Seen(d)
             /\ Seen(d)' \in Strings
  BY <1>1, <1>2, Overridden
<1>4. Current(c) \in Strings
  BY <1>3, <1>2 DEF Current, Seen
<1>5. LineStep
  <2>1. PICK text : text = TrimQuery(Current(c))
    OBVIOUS
  <2>2. text \in Strings /\ ReplaceLine(text)
    BY <1>2, <1>4, <2>1, Trimmed
  <2> QED
    BY <2>2, ReplaceStep
<1>6. HistoryHere'
  BY <1>2, <1>3 DEF HistoryHere
<1>7. DOMAIN lines = 1..Len(lines)
  BY DEF HistoryHere
<1> QED
  BY <1>3, <1>5, <1>6, <1>7 DEF str

LEMMA HistoryBounds ==
  ASSUME HistoryHere, file \in Seq(Strings)
  PROVE  /\ Max({1, cursor - 1}) \in 1..Len(lines)
         /\ Min({Len(lines), cursor + 1}) \in 1..Len(lines)
<1> DEFINE n == Len(lines)
           T == {1, cursor - 1}
           U == {n, cursor + 1}
<1>1. n \in Nat /\ cursor \in 1..n
  BY DEF HistoryHere
<1> HIDE DEF n
<1>2. T \subseteq 0..n /\ T # {} /\ 1 \in T
  BY <1>1
<1>3. U \subseteq Nat /\ U # {} /\ n \in U /\ \A k \in U : k >= 1
  BY <1>1
<1> HIDE DEF T, U
<1> DEFINE a == Max(T)
           b == Min(U)
<1>4. a \in T /\ 1 <= a
  BY <1>1, <1>2, MaxOf
<1>5. b \in U /\ b <= n
  BY <1>3, MinOf
<1> HIDE DEF a, b
<1>6. a \in 1..n /\ b \in 1..n
  BY <1>1, <1>2, <1>3, <1>4, <1>5
<1> QED
  BY <1>6 DEF a, b, n, T, U

LEMMA MaxOfTwo ==
  ASSUME NEW a \in Int, NEW b \in Int
  PROVE  Max({a, b}) = IF a >= b THEN a ELSE b
  BY DEF Max

LEMMA LastLines ==
  ASSUME NEW s \in Seq(Strings)
  PROVE  LastN(s, MaxHistory) \in Seq(Strings)
<1> DEFINE a == Len(s) - MaxHistory + 1
           m == Max({1, a})
           n == Len(s)
<1>1. n \in Nat /\ a \in Int /\ \A i \in 1..n : s[i] \in Strings
  BY SizeAssumption
<1>2. LastN(s, MaxHistory) = SubSeq(s, m, n)
  BY DEF LastN
<1> HIDE DEF a
<1>3. m \in Int /\ m >= 1
  BY <1>1, MaxOfTwo
<1> HIDE DEF m, n
<1>4. \A i \in m..n : s[i] \in Strings
  BY <1>1, <1>3
<1>5. SubSeq(s, m, n) \in Seq(Strings)
  BY <1>1, <1>3, <1>4, SubSeqProperties
<1> QED
  BY <1>2, <1>5

LEMMA FrontIsFile ==
  ASSUME file \in Seq(Strings), HistoryHere
  PROVE  Front(lines) = file
<1> DEFINE n == Len(file)
           p == SubSeq(lines, 1, n)
<1>1. n \in Nat /\ Len(lines) = n + 1 /\ \A i \in 1..n : lines[i] = file[i]
  BY DEF HistoryHere
<1>2. Front(lines) = p
  <2>1. Len(lines) - 1 = n
    BY <1>1
  <2> QED
    BY <2>1 DEF Front
<1> HIDE DEF n
<1>3. \A i \in 1..n : lines[i] \in Strings
  BY <1>1 DEF HistoryHere
<1>4. p \in Seq(Strings) /\ Len(p) = n /\ \A i \in 1..n : p[i] = lines[1 + i - 1]
  <2>1. /\ p \in Seq(Strings) /\ Len(p) = IF 1 <= n THEN n - 1 + 1 ELSE 0
        /\ \A i \in 1..n - 1 + 1 : p[i] = lines[1 + i - 1]
    BY <1>1, <1>3, SubSeqProperties
  <2>2. n - 1 + 1 = n
    BY <1>1
  <2> HIDE DEF p
  <2> QED
    BY <1>1, <2>1, <2>2
<1> HIDE DEF p
<1>5. \A i \in 1..n : p[i] = file[i]
  BY <1>1, <1>4
<1>6. p = file
  BY <1>4, <1>5, SeqEqual DEF n
<1> QED
  BY <1>2, <1>6

(***************************************************************************)
(* The invariant                                                           *)
(***************************************************************************)

\* Actions run while the cursor is in the line; a click can leave it behind
\* the end until the key is over.
Loop ==
    /\ phase \in {"idle", "key", "change", "eof"}
    /\ leaving \in {"no", "quit", "close", "print", "done"}
    /\ leaving = "done" => phase = "idle"
    /\ sessions \in Nat
    /\ cx \in Nat /\ (phase # "key" \/ todo # <<>> => cx <= Length(input))

PromptInv == Memory /\ HistoryOK /\ Loop

LEMMA InitMemory ==
  ASSUME NEW mem, mem = [a \in Arrays |-> <<>>]
  PROVE  Sound(mem) /\ Inside(mem, Nil) /\ TextIn(mem, Nil) = <<>> /\ Length(Nil) = 0
<1>1. Sound(mem)
  BY NoString DEF Sound, Arrays
<1>2. Nil \in Slices /\ Nil.arr = 0 /\ Nil.from = 1 /\ Nil.to = 0
  BY DEF Nil, Slices, Arrays
<1>3. Inside(mem, Nil)
  BY <1>1, <1>2, NoString DEF Inside, Sound
<1>4. TextIn(mem, Nil) = <<>> /\ Length(Nil) = 0
  BY <1>1, <1>2, <1>3, NilText
<1> QED
  BY <1>1, <1>3, <1>4

\* The lines of a new session.
LEMMA NewLines ==
  ASSUME NEW f \in Seq(Strings), NEW l, l = Append(f, <<>>)
  PROVE  /\ l \in Seq(Strings) /\ Len(l) = Len(f) + 1 /\ Len(f) \in Nat
         /\ \A i \in 1..Len(f) : l[i] = f[i]
<1> DEFINE none == <<>>
<1>1. none \in Strings /\ l = Append(f, none)
  BY NoString
<1> HIDE DEF none
<1> QED
  BY <1>1, AppendProperties

LEMMA PromptInit == Init => PromptInv
<1> SUFFICES ASSUME Init PROVE PromptInv
  OBVIOUS
<1> USE DEF Init
<1>1. Sound(memory) /\ Inside(memory, Nil) /\ Length(Nil) = 0
  BY InitMemory
<1>2. Memory
  BY <1>1 DEF Memory, Nil
<1>3. HistoryOK
  <2>1. /\ lines \in Seq(Strings) /\ Len(lines) = Len(file) + 1 /\ Len(file) \in Nat
        /\ \A i \in 1..Len(file) : lines[i] = file[i]
    BY RunesIn, NewLines
  <2>2. cursor \in 1..Len(lines)
    BY <2>1
  <2>3. DOMAIN modified = {}
    OBVIOUS
  <2> QED
    BY <2>1, <2>2, <2>3, RunesIn DEF HistoryOK, HistoryHere
<1>4. Loop
  BY <1>1 DEF Loop
<1> QED
  BY <1>2, <1>3, <1>4 DEF PromptInv

\* What a step that walks through the history shows of its lines.
OneLineEdited ==
    \A c \in DOMAIN lines : Seen(c)' = IF c = cursor THEN Text(input) ELSE Seen(c)

LEMMA DoActionStep ==
  ASSUME PromptInv, DoAction
  PROVE  /\ PromptInv' /\ (LineView!Next \/ UNCHANGED lineVars)
         /\ historyVars' # historyVars => OneLineEdited
<1>1. /\ Memory /\ Loop /\ file \in Seq(Strings) /\ HistoryHere /\ leaving # "done"
      /\ phase # "idle"
  BY DEF PromptInv, HistoryOK, Loop, DoAction
<1>2. cx \in 0..Length(input)
  <2>1. Length(input) \in Nat
    BY <1>1, TextOfSlice DEF Memory
  <2> QED
    BY <1>1, <2>1 DEF Loop, DoAction
<1> DEFINE a == Head(todo)
<1>3. /\ UNCHANGED <<previousInput, phase, file, sessions>>
      /\ leaving' = IF leaving = "no" THEN Leaves(a) ELSE leaving
      /\ \/ PrevHistory
         \/ NextHistory
         \/ Applies(a) /\ Edit(a) /\ UNCHANGED historyVars
         \/ UNCHANGED <<lineVars, historyVars>>
  BY DEF DoAction
<1> HIDE DEF a
<1>4. ASSUME \/ LineStep /\ HistoryHere'
             \/ UNCHANGED <<lineVars, historyVars>>
      PROVE  PromptInv' /\ (LineView!Next \/ UNCHANGED lineVars)
  <2>1. Memory' /\ HistoryHere' /\ cx' \in 0..Length(input)'
    <3>1. CASE LineStep /\ HistoryHere'
      BY <3>1 DEF LineStep
    <3>2. CASE UNCHANGED <<lineVars, historyVars>>
      BY <1>1, <1>2, <1>3, <3>2 DEF lineVars, historyVars, Memory, HistoryHere, Sound, Inside, Length
    <3> QED
      BY <1>4, <3>1, <3>2
  <2>2. leaving' \in {"no", "quit", "close", "print"}
    BY <1>1, <1>3 DEF Loop, Leaves
  <2>3. Length(input)' \in Nat
    <3>1. Sound(memory') /\ Inside(memory', input')
      BY <2>1 DEF Memory, Sound, Inside
    <3>2. Length(input') \in Nat
      BY <3>1, TextOfSlice
    <3> QED
      BY <3>2 DEF Length
  <2>4. Loop'
    BY <1>1, <1>3, <2>1, <2>2, <2>3 DEF Loop
  <2>5. HistoryOK'
    BY <1>1, <1>3, <2>1 DEF HistoryOK
  <2>6. LineView!Next \/ UNCHANGED lineVars
    BY <1>4 DEF LineStep
  <2> QED
    BY <2>1, <2>4, <2>5, <2>6 DEF PromptInv
<1>5. ASSUME NEW c \in 1..Len(lines), Recall(c)
      PROVE  LineStep /\ HistoryHere' /\ OneLineEdited
  BY <1>1, <1>2, <1>3, <1>5, RecallStep DEF OneLineEdited
<1>6. CASE PrevHistory \/ NextHistory
  BY <1>1, <1>4, <1>5, <1>6, HistoryBounds DEF PrevHistory, NextHistory
<1>7. CASE Applies(a) /\ Edit(a) /\ UNCHANGED historyVars
  <2>1. LineStep
    BY <1>1, <1>2, <1>3, <1>7, EditStep
  <2>2. HistoryHere'
    BY <1>1, <1>3, <1>7 DEF HistoryHere, historyVars
  <2> QED
    BY <1>4, <1>7, <2>1, <2>2
<1>8. CASE UNCHANGED <<lineVars, historyVars>>
  BY <1>4, <1>8 DEF historyVars
<1> QED
  BY <1>3, <1>6, <1>7, <1>8

LEMMA LineFields ==
  ASSUME Memory
  PROVE  Length(input) \in Nat /\ Text(input) \in Strings /\ Len(Text(input)) = Length(input)
  BY TextOfSlice DEF Memory, Text

\* Steps that leave the slices alone, or only remember the query.
LEMMA SameMemory ==
  ASSUME Memory, UNCHANGED <<memory, input, yanked>>,
         previousInput' = previousInput \/ previousInput' = input
  PROVE  /\ Memory' /\ Text(input)' = Text(input) /\ Text(yanked)' = Text(yanked)
         /\ Length(input)' = Length(input)
  BY DEF Memory, Sound, Inside, Text, TextIn, Length

LEMMA KeyStep ==
  ASSUME PromptInv, NEW b \in Bindings, Key(b)
  PROVE  PromptInv' /\ UNCHANGED lineVars
<1>1. /\ UNCHANGED <<memory, input, yanked, cx, leaving, historyVars, file, sessions>>
      /\ previousInput' = input /\ phase = "idle" /\ phase' = "key" /\ leaving # "done"
  BY DEF Key, lineVars
<1>2. Memory' /\ Length(input)' = Length(input)
  BY <1>1, SameMemory DEF PromptInv
<1>3. HistoryOK'
  BY <1>1 DEF PromptInv, HistoryOK, HistoryHere, historyVars
<1>4. Loop'
  BY <1>1, <1>2 DEF PromptInv, Loop
<1> QED
  BY <1>1, <1>2, <1>3, <1>4 DEF PromptInv, lineVars

LEMMA ClickStep ==
  ASSUME PromptInv, Click
  PROVE  PromptInv' /\ LineView!Next
<1>1. /\ UNCHANGED <<memory, input, yanked, leaving, historyVars, file, sessions>>
      /\ previousInput' = input /\ phase = "idle" /\ phase' = "key" /\ todo' = <<>>
      /\ leaving # "done"
  BY DEF Click
<1>2. /\ Memory' /\ Length(input)' = Length(input) /\ Text(input)' = Text(input)
      /\ Text(yanked)' = Text(yanked)
  BY <1>1, SameMemory DEF PromptInv
<1>3. Length(input) \in Nat /\ Len(Text(input)) = Length(input) /\ cx \in Nat
  BY LineFields DEF PromptInv, Loop
<1>4. cx' \in Nat
  BY <1>3 DEF Click
<1>5. HistoryOK'
  BY <1>1 DEF PromptInv, HistoryOK, HistoryHere, historyVars
<1>6. Loop'
  BY <1>1, <1>4 DEF PromptInv, Loop
<1> DEFINE n == Length(input)
           c == cx'
           d == Min({c, n})
<1>7. d \in 0..n
  <2>1. n \in Nat /\ c \in Nat
    BY <1>3, <1>4
  <2> HIDE DEF n, c
  <2>2. d = IF c <= n THEN c ELSE n
    BY <2>1, MinOfTwo
  <2> HIDE DEF d
  <2> QED
    BY <2>1, <2>2
<1>8. LineView!Move
  <2>1. Min({cx, Length(input)})' = d
    BY <1>2
  <2> HIDE DEF d
  <2> QED
    BY <1>2, <1>3, <1>7, <2>1 DEF LineView!Move
<1> QED
  BY <1>2, <1>5, <1>6, <1>8 DEF PromptInv, LineView!Next

\* truncateQuery.
LEMMA EndOfKeyStep ==
  ASSUME PromptInv, EndOfKey
  PROVE  PromptInv' /\ LineView!Next
<1> DEFINE s == Text(input)
           l == Length(input)
           n == Min({l, MaxQuery})
           u == Upto(input, n)
           c == Min({cx, n})
<1>1. /\ input' = u /\ cx' = c /\ phase' = "change" /\ phase = "key"
      /\ UNCHANGED <<memory, yanked, previousInput, leaving, historyVars, file, sessions>>
  BY DEF EndOfKey
<1>2. l \in Nat /\ Len(s) = l /\ s \in Strings /\ cx \in Nat /\ MaxQuery \in Nat /\ Memory
  BY LineFields, SizeAssumption DEF PromptInv, Loop
<1>3. n = IF l <= MaxQuery THEN l ELSE MaxQuery
  <2> HIDE DEF l
  <2> QED
    BY <1>2, MinOfTwo
<1>4. n \in Nat /\ n <= l /\ n \in 0..Length(input)
  <2> HIDE DEF n
  <2> QED
    BY <1>2, <1>3
<1>5. c = IF cx <= n THEN cx ELSE n
  <2> HIDE DEF n
  <2> QED
    BY <1>2, <1>4, MinOfTwo
<1>6. /\ Inside(memory, u) /\ u.arr = input.arr /\ Length(u) = n
      /\ TextIn(memory, u) = SubSeq(s, 1, n)
  <2> HIDE DEF n
  <2> QED
    BY <1>2, <1>4, Prefix DEF Memory, Text
<1> HIDE DEF u
<1>7. Memory'
  BY <1>1, <1>2, <1>6 DEF Memory, Sound, Inside
<1>8. Text(input)' = SubSeq(s, 1, n) /\ Length(input)' = n /\ Text(yanked)' = Text(yanked)
  BY <1>1, <1>6 DEF Text, TextIn, Length
<1>9. Len(SubSeq(s, 1, n)) = n
  <2> HIDE DEF n, s
  <2>1. 1 \in Nat \ {0} /\ n \in Nat /\ 1 <= n + 1 /\ n <= Len(s) /\ n - 1 + 1 = n
    BY <1>2, <1>4
  <2> QED
    BY <1>2, <2>1, PartOf
<1> HIDE DEF s, n, c, l
<1>10. c \in Nat /\ c <= n
  BY <1>2, <1>4, <1>5
<1>11. HistoryOK'
  BY <1>1 DEF PromptInv, HistoryOK, HistoryHere, historyVars
<1>12. Loop'
  BY <1>1, <1>8, <1>10 DEF PromptInv, Loop
<1>13. LineView!Truncate
  <2> DEFINE cur == Min({cx, l})
             next == Min({c, n})
             text == SubSeq(s, 1, n)
  <2>1. cur = (IF cx <= l THEN cx ELSE l) /\ next = c
    BY <1>2, <1>4, <1>10, MinOfTwo
  <2>2. Min({cx, Length(input)})' = next
    BY <1>1, <1>8
  <2> HIDE DEF cur, next, text
  <2>3. Len(text) = n /\ n <= Len(s) /\ Text(input)' = text
    BY <1>2, <1>4, <1>8, <1>9 DEF text
  <2>4. next = IF cur <= n THEN cur ELSE n
    BY <1>2, <1>4, <1>5, <2>1
  <2>5. text = SubSeq(s, 1, Len(text))
    BY <2>3 DEF text
  <2> QED
    BY <1>8, <2>2, <2>3, <2>4, <2>5 DEF LineView!Truncate, cur, s, l
<1> QED
  BY <1>7, <1>11, <1>12, <1>13 DEF PromptInv, LineView!Next

LEMMA EndOfPhaseStep ==
  ASSUME PromptInv, EndOfChange \/ EndOfIteration
  PROVE  PromptInv' /\ UNCHANGED lineVars
<1>1. /\ UNCHANGED <<memory, input, yanked, cx, leaving, historyVars, file, sessions>>
      /\ previousInput' = previousInput \/ previousInput' = input
      /\ phase \in {"change", "eof"} /\ phase' \in {"eof", "idle"}
  BY DEF EndOfChange, EndOfIteration, lineVars
<1>2. Memory' /\ Length(input)' = Length(input)
  BY <1>1, SameMemory DEF PromptInv
<1>3. HistoryOK'
  BY <1>1 DEF PromptInv, HistoryOK, HistoryHere, historyVars
<1>4. Loop'
  BY <1>1, <1>2 DEF PromptInv, Loop
<1> QED
  BY <1>1, <1>2, <1>3, <1>4 DEF PromptInv, lineVars

\* What an accepted query makes of the file.
LEMMA Accepted ==
  ASSUME PromptInv, leaving # "done"
  PROVE  /\ Appended(Text(input)) = LastN(Append(file, Text(input)), MaxHistory)
         /\ Appended(Text(input)) \in Seq(Strings)
<1> DEFINE t == Text(input)
           f == Append(file, t)
<1>1. t \in Strings /\ file \in Seq(Strings) /\ HistoryHere
  BY LineFields DEF PromptInv, HistoryOK
<1> HIDE DEF t
<1>2. Appended(t) = LastN(f, MaxHistory)
  BY <1>1, FrontIsFile DEF Appended
<1>3. f \in Seq(Strings)
  BY <1>1, AppendProperties
<1> HIDE DEF f
<1>4. LastN(f, MaxHistory) \in Seq(Strings)
  BY <1>3, LastLines
<1> QED
  BY <1>2, <1>4 DEF t, f

LEMMA ExitStep ==
  ASSUME PromptInv, Exit
  PROVE  PromptInv' /\ UNCHANGED lineVars
<1>1. /\ UNCHANGED <<memory, input, yanked, cx, previousInput, phase, todo, sessions>>
      /\ phase = "idle" /\ leaving # "done" /\ leaving' = "done"
      /\ file' = file \/ file' = Appended(Text(input))
  BY DEF Exit, lineVars, loopVars
<1>2. Memory' /\ Length(input)' = Length(input)
  BY <1>1, SameMemory DEF PromptInv
<1>3. HistoryOK'
  BY <1>1, Accepted DEF PromptInv, HistoryOK
<1>4. Loop'
  BY <1>1, <1>2 DEF PromptInv, Loop
<1> QED
  BY <1>1, <1>2, <1>3, <1>4 DEF PromptInv, lineVars

LEMMA NextSessionStep ==
  ASSUME PromptInv, NextSession
  PROVE  PromptInv' /\ sessions' # sessions
<1>1. /\ memory' = [a \in Arrays |-> <<>>]
      /\ input' = Nil /\ yanked' = Nil /\ previousInput' = Nil /\ cx' = 0
      /\ leaving = "done" /\ leaving' = "no" /\ sessions' = sessions + 1
      /\ lines' = Append(file, <<>>) /\ modified' = <<>> /\ cursor' = Len(file) + 1
      /\ UNCHANGED <<phase, todo, file>>
  BY DEF NextSession
<1>2. Sound(memory') /\ Inside(memory', Nil) /\ Length(Nil) = 0
  BY <1>1, InitMemory
<1>3. Memory'
  <2>1. Nil.arr = 0
    BY DEF Nil
  <2> QED
    BY <1>1, <1>2, <2>1 DEF Memory, Sound, Inside
<1>4. HistoryOK'
  <2>1. file \in Seq(Strings)
    BY DEF PromptInv, HistoryOK
  <2>2. /\ lines' \in Seq(Strings) /\ Len(lines') = Len(file) + 1 /\ Len(file) \in Nat
        /\ \A i \in 1..Len(file) : lines'[i] = file[i]
    BY <1>1, <2>1, NewLines
  <2>3. DOMAIN modified' = {}
    BY <1>1
  <2>4. cursor' \in 1..Len(lines')
    BY <1>1, <2>2
  <2> QED
    BY <1>1, <2>1, <2>2, <2>3, <2>4 DEF HistoryOK, HistoryHere
<1>5. Length(input)' = 0
  BY <1>1, <1>2 DEF Length
<1>6. Loop' /\ sessions' # sessions
  BY <1>1, <1>5 DEF PromptInv, Loop
<1> QED
  BY <1>3, <1>4, <1>6 DEF PromptInv

LEMMA SameView ==
  ASSUME UNCHANGED lineVars
  PROVE  UNCHANGED LineView!vars
  BY DEF lineVars, LineView!vars, Text, TextIn, Length

\* Every step keeps the invariant and is one of Line.
LEMMA PromptNext ==
  ASSUME PromptInv, [Next]_vars
  PROVE  PromptInv' /\ [LineView!Next \/ sessions' # sessions]_(LineView!vars)
<1>1. ASSUME NEW b \in Bindings, Key(b)
      PROVE  PromptInv' /\ UNCHANGED lineVars
  BY <1>1, KeyStep
<1>2. CASE Click
  BY <1>2, ClickStep
<1>3. CASE DoAction
  BY <1>3, DoActionStep, SameView
<1>4. CASE EndOfKey
  BY <1>4, EndOfKeyStep
<1>5. CASE EndOfChange \/ EndOfIteration
  BY <1>5, EndOfPhaseStep, SameView
<1>6. CASE Exit
  BY <1>6, ExitStep, SameView
<1>7. CASE NextSession
  BY <1>7, NextSessionStep
<1>8. CASE UNCHANGED vars
  <2>1. Memory' /\ Length(input)' = Length(input)
    BY <1>8, SameMemory DEF PromptInv, vars, lineVars, loopVars
  <2>2. PromptInv'
    BY <1>8, <2>1 DEF PromptInv, HistoryOK, HistoryHere, Loop, vars, lineVars, loopVars, historyVars
  <2> QED
    BY <1>8, <2>2, SameView DEF vars
<1> QED
  BY <1>1, <1>2, <1>3, <1>4, <1>5, <1>6, <1>7, <1>8, SameView DEF Next

LEMMA PromptViewInit ==
  ASSUME Init
  PROVE  LineView!Init
<1>1. Text(input) = <<>> /\ Text(yanked) = <<>> /\ Length(input) = 0 /\ cx = 0
  BY InitMemory DEF Init, Text
<1>2. Min({cx, Length(input)}) = 0
  <2>1. Min({0, 0}) = 0
    BY MinOfTwo
  <2> QED
    BY <1>1, <2>1
<1> QED
  BY <1>1, <1>2 DEF LineView!Init

(***************************************************************************)
(* The search                                                              *)
(***************************************************************************)

\* The arrays may change under previousInput, its length does not: a key that
\* ends with a query of another length is found to have changed it.
Sized ==
    OnEOF = <<>> =>
        /\ phase = "idle" => Len(searched) = Length(input)
        /\ phase = "key" => Len(searched) = Length(previousInput)
        /\ phase \in {"change", "eof"} =>
               changed \/ (todo = <<>> /\ Len(searched) = Length(input))
        /\ phase = "eof" => todo = <<>>

LEMMA SizedInit == Init => Sized
<1> SUFFICES ASSUME Init PROVE Sized
  OBVIOUS
<1>1. phase = "idle" /\ searched = <<>> /\ input = Nil
  BY DEF Init
<1>2. Length(input) = 0 /\ Len(searched) = 0
  BY <1>1, NoString DEF Length, Nil
<1> QED
  BY <1>1, <1>2 DEF Sized

LEMMA SizedNext ==
  ASSUME PromptInv, Sized, [Next]_vars
  PROVE  Sized'
<1> DEFINE none == <<>>
           l == Length(input)
           p == Length(previousInput)
<1> SUFFICES ASSUME OnEOF = none
             PROVE  Sized'
  BY DEF Sized
<1>1. /\ phase = "idle" => Len(searched) = l
      /\ phase = "key" => Len(searched) = p
      /\ phase \in {"change", "eof"} => changed \/ (todo = none /\ Len(searched) = l)
      /\ phase = "eof" => todo = none
  BY DEF Sized
<1>2. ASSUME /\ phase' = "idle" => Len(searched') = l'
             /\ phase' = "key" => Len(searched') = p'
             /\ phase' \in {"change", "eof"} => changed' \/ (todo' = none /\ Len(searched') = l')
             /\ phase' = "eof" => todo' = none
      PROVE  Sized'
  BY <1>2 DEF Sized
<1>3. Len(Text(input)) = l
  BY LineFields DEF PromptInv
<1>4. CASE Click \/ \E b \in Bindings : Key(b)
  <2>1. phase = "idle" /\ phase' = "key" /\ searched' = searched /\ previousInput' = input
    BY <1>4 DEF Key, Click
  <2> QED
    BY <1>1, <1>2, <2>1 DEF Length
<1>5. CASE DoAction
  <2>1. /\ UNCHANGED <<phase, changed, searched, previousInput>> /\ phase # "idle" /\ todo # none
        /\ phase \in {"idle", "key", "change", "eof"}
    BY <1>5 DEF DoAction, PromptInv, Loop
  <2>2. p' = p
    BY <2>1 DEF Length
  <2> HIDE DEF none, l, p
  <2> QED
    BY <1>1, <1>2, <2>1, <2>2
<1>6. CASE EndOfKey
  <2>1. /\ phase = "key" /\ phase' = "change" /\ searched' = searched
        /\ changed' = (Text(previousInput) # Text(input'))
        /\ todo' = IF changed' THEN OnChange ELSE none
        /\ UNCHANGED <<memory, previousInput>>
    BY <1>6 DEF EndOfKey
  <2>2. Len(Text(previousInput)) = p
    BY TextOfSlice DEF PromptInv, Memory, Text
  <2>3. Len(Text(input)') = l'
    <3>1. Sound(memory') /\ Inside(memory', input')
      BY <1>6, EndOfKeyStep DEF PromptInv, Memory, Sound, Inside
    <3>2. Len(TextIn(memory', input')) = Length(input')
      BY <3>1, TextOfSlice
    <3> QED
      BY <3>2 DEF Text, TextIn, Length
  <2>4. Text(input') = Text(input)'
    BY <2>1 DEF Text, TextIn
  <2>5. ~changed' => Len(searched') = l'
    BY <1>1, <2>1, <2>2, <2>3, <2>4
  <2> HIDE DEF none, l, p
  <2> QED
    BY <1>2, <2>1, <2>5
<1>7. CASE EndOfChange
  <2>1. /\ phase = "change" /\ phase' = "eof" /\ todo' = none
        /\ UNCHANGED <<input, changed, searched>>
    BY <1>7 DEF EndOfChange, lineVars
  <2>2. l' = l
    BY <2>1 DEF Length
  <2> HIDE DEF none, l, p
  <2> QED
    BY <1>1, <1>2, <2>1, <2>2
<1>8. CASE EndOfIteration
  <2>1. /\ phase = "eof" /\ phase' = "idle" /\ input' = input
        /\ searched' = IF changed THEN Text(input) ELSE searched
    BY <1>8 DEF EndOfIteration, lineVars, Search
  <2>2. l' = l
    BY <2>1 DEF Length
  <2> HIDE DEF none, l, p
  <2> QED
    BY <1>1, <1>2, <1>3, <2>1, <2>2
<1>9. CASE Exit \/ UNCHANGED vars
  <2>1. UNCHANGED <<input, previousInput, phase, changed, searched, todo>>
    BY <1>9 DEF Exit, lineVars, loopVars, vars
  <2>2. l' = l /\ p' = p
    BY <2>1 DEF Length
  <2> HIDE DEF none, l, p
  <2> QED
    BY <1>1, <1>2, <2>1, <2>2
<1>10. CASE NextSession
  <2>1. searched' = none /\ input' = Nil /\ phase' = phase /\ phase = "idle"
    BY <1>10 DEF NextSession, PromptInv, Loop
  <2>2. l' = 0 /\ Len(none) = 0
    BY <2>1, NoString DEF Length, Nil
  <2> HIDE DEF none, l, p
  <2> QED
    BY <1>2, <2>1, <2>2
<1> QED
  BY <1>4, <1>5, <1>6, <1>7, <1>8, <1>9, <1>10 DEF Next

(***************************************************************************)
(* The theorems                                                            *)
(***************************************************************************)

LEMMA PromptAlways == Spec => []PromptInv
<1>1. PromptInv /\ [Next]_vars => PromptInv'
  BY PromptNext
<1> QED
  BY <1>1, PromptInit, PTL DEF Spec

\* Slices never leave their arrays, actions find the cursor inside the query,
\* and the cursor of the history is on a line of it.
THEOREM PromptTyped == Spec => []TypeOK
<1>1. PromptInv => TypeOK
  <2> SUFFICES ASSUME PromptInv PROVE TypeOK
    OBVIOUS
  <2>1. \A s \in {input, yanked, previousInput} :
            s \in Slices /\ s.from <= s.to + 1 /\ s.to <= Len(memory[s.arr])
    BY DEF PromptInv, Memory, Inside
  <2>2. leaving # "done" => cursor \in 1..Len(lines) /\ DOMAIN modified \subseteq 1..(Len(lines) - 1)
    <3> SUFFICES ASSUME leaving # "done"
                 PROVE  cursor \in 1..Len(lines) /\ DOMAIN modified \subseteq 1..(Len(lines) - 1)
      OBVIOUS
    <3>1. HistoryHere /\ Len(file) \in Nat
      BY DEF PromptInv, HistoryOK
    <3>2. Len(lines) - 1 = Len(file)
      BY <3>1 DEF HistoryHere
    <3> QED
      BY <3>1, <3>2 DEF HistoryHere
  <2> QED
    BY <2>1, <2>2 DEF PromptInv, Loop, TypeOK
<1> QED
  BY <1>1, PromptAlways, PTL

\* Whatever arrays they share, the slices of the query line behave like a text
\* with a cursor and one killed text.
THEOREM PromptIsLine == Spec => LineSpec
<1>1. PromptInv /\ [Next]_vars => [LineView!Next \/ sessions' # sessions]_(LineView!vars)
  BY PromptNext
<1>2. Init => LineView!Init
  BY PromptViewInit
<1> QED
  BY <1>1, <1>2, PromptAlways, PTL DEF Spec, LineSpec

\* Only accepting a query changes the history file, and then by this query.
THEOREM FileChangesExactly == Spec => FileExact
<1> DEFINE Change == /\ leaving \in {"close", "print"}
                     /\ file' = LastN(Append(file, Text(input)), MaxHistory)
<1>1. PromptInv /\ [Next]_vars => [file' # file => Change]_vars
  <2> SUFFICES ASSUME PromptInv, Next, file' # file
               PROVE  Change
    BY DEF vars
  <2>1. Exit
    BY DEF Next, Key, Click, DoAction, EndOfKey, EndOfChange, EndOfIteration, NextSession
  <2>2. leaving \in {"close", "print"} /\ file' = Appended(Text(input)) /\ leaving # "done"
    BY <2>1 DEF Exit
  <2> QED
    BY <2>2, Accepted
<1> QED
  BY <1>1, PromptAlways, PTL DEF Spec, FileExact

\* Walking through the history leaves the query on the line one leaves, and no
\* other line looks different.
THEOREM HistoryEditsStay == Spec => EditsStay
<1> DEFINE Walk == phase # "idle" /\ historyVars' # historyVars
<1>1. PromptInv /\ [Next]_vars => [Walk => OneLineEdited]_vars
  <2> SUFFICES ASSUME PromptInv, Next, Walk
               PROVE  OneLineEdited
    BY DEF vars
  <2>1. leaving # "done"
    BY DEF PromptInv, Loop
  <2>2. DoAction
    BY <2>1 DEF Next, Key, Click, EndOfKey, EndOfChange, EndOfIteration, NextSession, Exit
  <2> QED
    BY <2>2, DoActionStep
<1> QED
  BY <1>1, PromptAlways, PTL DEF Spec, EditsStay, OneLineEdited

\* A query of another length than the one last searched for is searched for,
\* when backward-eof is not bound.
THEOREM SizeIsPosted == Spec => []SizePosted
<1>1. PromptInv /\ Sized /\ [Next]_vars => Sized'
  BY SizedNext
<1>2. Sized => SizePosted
  BY DEF Sized, SizePosted
<1> QED
  BY <1>1, <1>2, SizedInit, PromptAlways, PTL DEF Spec

=============================================================================
