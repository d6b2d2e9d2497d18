------------------------------- MODULE Query -------------------------------
(***************************************************************************)
(* The search pattern of a query (pattern.go) and the answers to queries   *)
(* that are kept per chunk of items (cache.go).  A query is a sequence of  *)
(* characters; an item is a text of module Match.                          *)
(*                                                                         *)
(* What does not change while the finder runs is a record m: [fuzzy,       *)
(* extended, case, norm, forward, scheme], with case one of "smart",       *)
(* "respect" and "ignore".                                                 *)
(***************************************************************************)
EXTENDS Match

CONSTANT QueryCacheMax  \* the longest answer that is kept

ASSUME QueryCacheAssumption == QueryCacheMax \in Nat

(***************************************************************************)
(* parseTerms                                                              *)
(***************************************************************************)

StartsWith(text, c) == text # <<>> /\ Head(text) = c
EndsWith(text, c) == text # <<>> /\ Last(text) = c

\* Leading spaces go; trailing ones too, unless the last is escaped.
RECURSIVE TrimQuery(_)
TrimQuery(q) ==
    IF StartsWith(q, " ") THEN TrimQuery(Tail(q))
    ELSE IF EndsWith(q, " ") /\ ~(Len(q) > 1 /\ q[Len(q) - 1] = "\\") THEN TrimQuery(Front(q))
    ELSE q

\* An escaped space is kept as a tab while the query is split.
RECURSIVE Escape(_)
Escape(q) ==
    IF Len(q) < 2 THEN q
    ELSE IF q[1] = "\\" /\ q[2] = " " THEN <<"tab">> \o Escape(SubSeq(q, 3, Len(q)))
    ELSE <<q[1]>> \o Escape(Tail(q))

RECURSIVE Words(_)
Words(q) ==
    LET at == SelectInSeq(q, LAMBDA c : c = " ")
    IN  IF at = 0 THEN <<q>>
        ELSE <<SubSeq(q, 1, at - 1)>> \o Words(SubSeq(q, at + Spaces(SubSeq(q, at, Len(q))), Len(q)))

Plain(word) == [i \in DOMAIN word |-> IF word[i] = "tab" THEN " " ELSE word[i]]
LowerOf(text) == [i \in DOMAIN text |-> Lowered(text[i])]
NormOf(text) == [i \in DOMAIN text |-> Normalized(text[i])]

CaseSensitive(m, text) == m.case = "respect" \/ (m.case = "smart" /\ text # LowerOf(text))
Normalizes(m, text) == m.norm /\ LowerOf(text) = NormOf(LowerOf(text))
Cased(m, text) == IF CaseSensitive(m, text) THEN text ELSE LowerOf(text)

\* The marks around a term, from the outside in: ! $ '...' ' ^
Bare(m, text) == [typ |-> IF m.fuzzy THEN "fuzzy" ELSE "exact", inv |-> FALSE, text |-> text]

Inverted(t) ==
    IF StartsWith(t.text, "!") THEN [typ |-> "exact", inv |-> TRUE, text |-> Tail(t.text)] ELSE t

Suffixed(t) ==
    IF t.text # <<"$">> /\ EndsWith(t.text, "$")
    THEN [t EXCEPT !.typ = "suffix", !.text = Front(@)] ELSE t

Quoted(m, t) ==
    IF Len(t.text) > 2 /\ StartsWith(t.text, "'") /\ EndsWith(t.text, "'")
    THEN [t EXCEPT !.typ = "boundary", !.text = Tail(Front(@))]
    ELSE IF StartsWith(t.text, "'")
    THEN [t EXCEPT !.typ = IF m.fuzzy /\ ~t.inv THEN "exact" ELSE "fuzzy", !.text = Tail(@)]
    ELSE IF StartsWith(t.text, "^")
    THEN [t EXCEPT !.typ = IF t.typ = "suffix" THEN "equal" ELSE "prefix", !.text = Tail(@)]
    ELSE t

Term(m, word) ==
    LET marked == Quoted(m, Suffixed(Inverted(Bare(m, Cased(m, word)))))
        norm == Normalizes(m, word)
    IN  [typ |-> marked.typ, inv |-> marked.inv, cs |-> CaseSensitive(m, word), norm |-> norm,
         text |-> IF norm THEN NormOf(marked.text) ELSE marked.text]

\* Terms with bars between them are a set, of which one must match.  st is
\* [sets, set, next, bar]: the next term begins a set; a bar was just read.
Read(m, st, word) ==
    IF st.set # <<>> /\ ~st.bar /\ word = <<"|">>
    THEN [st EXCEPT !.next = FALSE, !.bar = TRUE]
    ELSE IF Term(m, word).text = <<>> THEN [st EXCEPT !.bar = FALSE]
    ELSE [sets |-> IF st.next THEN Append(st.sets, st.set) ELSE st.sets,
          set |-> IF st.next THEN <<Term(m, word)>> ELSE Append(st.set, Term(m, word)),
          next |-> TRUE, bar |-> FALSE]

RECURSIVE ReadAll(_, _, _)
ReadAll(m, st, words) ==
    IF words = <<>> THEN IF st.set = <<>> THEN st.sets ELSE Append(st.sets, st.set)
    ELSE ReadAll(m, Read(m, st, Plain(Head(words))), Tail(words))

ParseTerms(m, q) ==
    ReadAll(m, [sets |-> <<>>, set |-> <<>>, next |-> FALSE, bar |-> FALSE],
            Words(Escape(TrimQuery(q))))

(***************************************************************************)
(* BuildPattern                                                            *)
(***************************************************************************)

\* The only term of a query that is not extended.
WholeTerm(m, q) ==
    [typ |-> IF m.fuzzy THEN "fuzzy" ELSE "exact", inv |-> FALSE, cs |-> CaseSensitive(m, q),
     norm |-> Normalizes(m, q), text |-> Cased(m, q)]

TermSets(m, q) == IF m.extended THEN ParseTerms(m, q) ELSE <<(<<WholeTerm(m, q)>>)>>

AllTerms(sets) == UNION {ToSet(sets[i]) : i \in DOMAIN sets}

\* Results are ranked unless all terms are inverse.
Sortable(m, sets) == ~m.extended \/ \E t \in AllTerms(sets) : ~t.inv

\* An answer is kept only when each term narrows the answers to its parts.
Cacheable(m, sets) ==
    ~m.extended \/ \A i \in DOMAIN sets : Len(sets[i]) = 1 /\ ~sets[i][1].inv
                        /\ sets[i][1].typ = IF m.fuzzy THEN "fuzzy" ELSE "exact"

\* (Variant: an inverse term counts.)
KeepsInverse(m, set) == Len(set) = 1 /\ (m.fuzzy \/ set[1].typ = "exact")

Keeps(m, set) == Len(set) = 1 /\ ~set[1].inv /\ (m.fuzzy \/ set[1].typ = "exact")

RECURSIVE Joined(_)
Joined(texts) == IF texts = <<>> THEN <<>>
                 ELSE IF Len(texts) = 1 THEN texts[1]
                 ELSE texts[1] \o <<"tab">> \o Joined(Tail(texts))

CacheKey(m, sets) ==
    IF ~m.extended THEN sets[1][1].text
    ELSE LET kept == SelectSeq(sets, LAMBDA set : Keeps(m, set))
         IN  Joined([i \in DOMAIN kept |-> kept[i][1].text])

(***************************************************************************)
(* MatchItem                                                               *)
(***************************************************************************)

Found(m, t, item) ==
    LET o == [cs |-> t.cs, norm |-> t.norm, forward |-> m.forward, scheme |-> m.scheme,
               slab |-> 102400]  \* slab16Size
    IN  CASE t.typ = "fuzzy" -> FuzzyMatchV2(o, item, t.text, FALSE)
          [] t.typ = "exact" -> ExactMatch(o, FALSE, item, t.text)
          [] t.typ = "boundary" -> ExactMatch(o, TRUE, item, t.text)
          [] t.typ = "prefix" -> PrefixMatch(o, item, t.text)
          [] t.typ = "suffix" -> SuffixMatch(o, item, t.text)
          [] t.typ = "equal" -> EqualMatch(o, item, t.text)

\* extendedMatch, basicMatch: the first term of each set that holds decides; one
\* that is inverse leaves the offset 0, 0 unless a later one is found.
Holds(m, t, item) == (Found(m, t, item).start >= 0) # t.inv
MatchItem(m, sets, item) ==
    \A i \in DOMAIN sets : \E k \in DOMAIN sets[i] : Holds(m, sets[i][k], item)

(***************************************************************************)
(* Pattern.Match and ChunkCache, for one chunk.  The cache is a function   *)
(* from keys to answers; an answer is a sequence of items.                 *)
(***************************************************************************)

Part(key, n) == SubSeq(key, 1, Len(key) - n)
Rest(key, n) == SubSeq(key, n + 1, Len(key))

\* Search: the answer to the longest beginning or end of the key that is kept.
SearchCache(cache, full, key) ==
    LET cuts == {n \in 1..(Len(key) - 1) : {Part(key, n), Rest(key, n)} \cap DOMAIN cache # {}}
        n == Min(cuts)
    IN  IF ~full \/ cuts = {} THEN <<>>
        ELSE << IF Part(key, n) \in DOMAIN cache THEN cache[Part(key, n)] ELSE cache[Rest(key, n)] >>

MatchAll(m, sets, items) == SelectSeq(items, LAMBDA item : MatchItem(m, sets, item))

Looked(cache, full, m, sets) ==
    full /\ Cacheable(m, sets) /\ CacheKey(m, sets) # <<>> /\ CacheKey(m, sets) \in DOMAIN cache

\* Pattern.Match.
Answer(cache, full, m, sets, items) ==
    IF Looked(cache, full, m, sets) THEN cache[CacheKey(m, sets)]
    ELSE LET space == SearchCache(cache, full, CacheKey(m, sets))
         IN  MatchAll(m, sets, IF space = <<>> THEN items ELSE space[1])

\* Add.
Kept(cache, full, m, sets, answer) ==
    IF Cacheable(m, sets) /\ CacheKey(m, sets) # <<>> /\ full /\ Len(answer) <= QueryCacheMax
    THEN (CacheKey(m, sets) :> answer) @@ cache
    ELSE cache

RECURSIVE AfterQueries(_, _, _, _, _)
AfterQueries(m, full, items, cache, queries) ==
    IF queries = <<>> THEN cache
    ELSE LET sets == TermSets(m, Head(queries))
         IN  AfterQueries(m, full, items,
                 Kept(cache, full, m, sets, Answer(cache, full, m, sets, items)), Tail(queries))

(***************************************************************************)
(* Properties                                                              *)
(***************************************************************************)

\* Whatever was asked before, a query gets the answer it gets without a cache.
CacheIsSound(m, full, items, earlier, q) ==
    LET sets == TermSets(m, q)
    IN  Answer(AfterQueries(m, full, items, <<>>, earlier), full, m, sets, items)
            = MatchAll(m, sets, items)

\* No term is empty, a bar joins two terms, and !x holds where 'x does not.
ReadsWell(m, q, item) ==
    LET sets == ParseTerms(m, q)
        bars == Cardinality({i \in DOMAIN q : q[i] = "|"})
        total == FoldSeq(LAMBDA set, n : n + Len(set), 0, sets)
    IN  /\ \A i \in DOMAIN sets : sets[i] # <<>> /\ \A t \in ToSet(sets[i]) : t.text # <<>>
        /\ total - Len(sets) <= bars
        /\ (q # <<>> /\ m.fuzzy /\ ToSet(q) \subseteq Lower \cup Upper) =>
               MatchItem(m, ParseTerms(m, <<"!">> \o q), item)
                   = ~MatchItem(m, ParseTerms(m, <<"'">> \o q), item)

=============================================================================
