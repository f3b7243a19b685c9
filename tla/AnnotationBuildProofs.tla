------------------------- MODULE AnnotationBuildProofs -------------------------
(***************************************************************************)
(* For any texts, languages, models, budgets and builds: the cuts a long   *)
(* document is annotated in leave nothing out and take nothing twice, the  *)
(* words credited for a build are those of its documents, the cache file   *)
(* is absent or whole as long as its writers have not overlapped, and a    *)
(* layer that loads holds the counts of texts with the words its manifest  *)
(* describes, to the last count and term id.                               *)
(***************************************************************************)
EXTENDS AnnotationBuild, FiniteSetTheorems, TLAPS

(***************************************************************************)
(* Numbers.                                                                *)
(***************************************************************************)
LEMMA LeastNatural ==
  ASSUME NEW T, T \subseteq Nat, T # {}
  PROVE  \E x \in T : \A y \in T : x <= y
<1>1. PICK x \in T : \A y \in T : ~ (<<y, x>> \in OpToRel(<, Nat))
  BY WFMin, NatLessThanWellFounded, Zenon
<1>2. \A y \in T : ~ (y < x)
  <2> TAKE y \in T
  <2>1. <<y, x>> \in Nat \X Nat
    OBVIOUS
  <2>2. <<y, x>> \notin {ss \in Nat \X Nat : ss[1] < ss[2]}
    BY <1>1, Zenon DEF OpToRel
  <2> QED  BY <2>1, <2>2
<1> QED  BY <1>2

(* Induction for a set of naturals up to n. *)
LEMMA UpTo ==
  ASSUME NEW n \in Nat, NEW S, 0 \in S, \A m \in 0..n : m \in S /\ m < n => m + 1 \in S
  PROVE  \A m \in 0..n : m \in S
<1> DEFINE T == {m \in 0..n : m \notin S}
<1>1. ASSUME T # {} PROVE FALSE
  <2>1. T \subseteq Nat
    OBVIOUS
  <2>2. PICK x \in T : \A y \in T : x <= y
    BY <1>1, <2>1, LeastNatural
  <2>3. x \in 0..n /\ x \notin S /\ x # 0
    OBVIOUS
  <2>4. x - 1 \in 0..n /\ x - 1 < n /\ (x - 1) + 1 = x
    BY <2>3
  <2>5. x - 1 \notin T
    BY <2>2, <2>3
  <2>6. x - 1 \in S
    BY <2>4, <2>5
  <2> QED  BY <2>3, <2>4, <2>6
<1> QED  BY <1>1

LEMMA GreatestOf ==
  ASSUME NEW a \in Nat, NEW b \in Nat, NEW S, S \subseteq a..b, S # {}
  PROVE  Max(S) \in S
<1> DEFINE T == {b - x : x \in S}
<1>1. T \subseteq Nat /\ T # {}
  <2>1. \A x \in S : x \in a..b /\ b - x \in Nat
    OBVIOUS
  <2> QED  BY <2>1
<1>2. PICK z \in T : \A y \in T : z <= y
  BY <1>1, LeastNatural
<1>3. PICK x \in S : z = b - x
  OBVIOUS
<1>4. \A y \in S : x >= y
  <2> TAKE y \in S
  <2>1. b - y \in T
    OBVIOUS
  <2> QED  BY <1>2, <1>3, <2>1
<1> QED  BY <1>4, Zenon DEF Max

(***************************************************************************)
(* Cuts: ranges that follow each other from 1 to n.                        *)
(***************************************************************************)
Spans == [first : Nat, last : Nat]
Cuts(ranges, n) ==
  /\ ranges \in Seq(Spans)
  /\ \A k \in 1..Len(ranges) : 1 <= ranges[k].first /\ ranges[k].first <= ranges[k].last
  /\ \A k \in 1..Len(ranges) : k # Len(ranges) => ranges[k + 1].first = ranges[k].last + 1
  /\ IF ranges = <<>> THEN n = 0 ELSE ranges[1].first = 1 /\ ranges[Len(ranges)].last = n

LEMMA CutOff ==
  ASSUME NEW ranges, NEW n \in Nat, Cuts(ranges, n), NEW m \in Nat, n < m
  PROVE  Cuts(Append(ranges, Range_(n + 1, m)), m) /\ Append(ranges, Range_(n + 1, m)) # <<>>
<1> DEFINE r == Range_(n + 1, m)
           more == Append(ranges, r)
<1>1. r \in Spans /\ r.first = n + 1 /\ r.last = m
  BY DEF Range_, Spans
<1> HIDE DEF r
<1>2. /\ more \in Seq(Spans) /\ Len(more) = Len(ranges) + 1 /\ Len(ranges) \in Nat
      /\ more[Len(ranges) + 1] = r
      /\ \A k \in 1..Len(ranges) : more[k] = ranges[k]
      /\ more # <<>>
  <2>1. ranges \in Seq(Spans)
    BY DEF Cuts
  <2> HIDE DEF Spans
  <2>2. Len(ranges) \in Nat /\ more \in Seq(Spans) /\ Len(more) = Len(ranges) + 1
    BY <1>1, <2>1
  <2>3. more[Len(ranges) + 1] = r /\ \A k \in 1..Len(ranges) : more[k] = ranges[k]
    BY <1>1, <2>1
  <2>4. more # <<>>
    BY <2>2
  <2> QED  BY <2>2, <2>3, <2>4
<1> HIDE DEF more
<1>3. \A k \in 1..Len(more) : 1 <= more[k].first /\ more[k].first <= more[k].last
  BY <1>1, <1>2 DEF Cuts
<1>4. ranges # <<>> => Len(ranges) \in 1..Len(ranges) /\ 1 \in 1..Len(ranges)
  BY DEF Cuts
<1>5. \A k \in 1..Len(more) : k # Len(more) => more[k + 1].first = more[k].last + 1
  <2> SUFFICES ASSUME NEW k \in 1..Len(ranges) PROVE more[k + 1].first = more[k].last + 1
    BY <1>2
  <2>1. CASE k = Len(ranges)
    BY <1>1, <1>2, <1>4, <2>1 DEF Cuts
  <2>2. CASE k # Len(ranges)
    BY <1>2, <2>2 DEF Cuts
  <2> QED  BY <2>1, <2>2
<1>6. more[1].first = 1 /\ more[Len(more)].last = m
  <2>1. CASE ranges = <<>>
    BY <1>1, <1>2, <2>1 DEF Cuts
  <2>2. CASE ranges # <<>>
    BY <1>1, <1>2, <1>4, <2>2 DEF Cuts
  <2> QED  BY <2>1, <2>2
<1> QED  BY <1>2, <1>3, <1>5, <1>6 DEF Cuts, more, r

LEMMA StretchLast ==
  ASSUME NEW ranges, NEW n \in Nat, Cuts(ranges, n), ranges # <<>>, NEW m \in Nat, n <= m
  PROVE  LET longer == [ranges EXCEPT ![Len(ranges)].last = m]
         IN  Cuts(longer, m) /\ longer # <<>>
<1> DEFINE l == Len(ranges)
           r == [ranges[l] EXCEPT !.last = m]
           longer == [ranges EXCEPT ![l] = r]
<1>1. l \in Nat /\ l \in 1..l /\ 1 \in 1..l /\ ranges \in Seq(Spans)
  BY DEF Cuts
<1>2. ranges[l] \in Spans /\ ranges[l].last = n
  BY <1>1 DEF Cuts
<1>3. r \in Spans /\ r.first = ranges[l].first /\ r.last = m
  BY <1>2 DEF Spans
<1> HIDE DEF r
<1>4. /\ longer \in Seq(Spans) /\ Len(longer) = l
      /\ longer[l] = r /\ \A k \in 1..l : k # l => longer[k] = ranges[k]
  BY <1>1, <1>3
<1>5. longer # <<>>
  BY <1>1, <1>4
<1> HIDE DEF longer
<1>6. \A k \in 1..l : 1 <= longer[k].first /\ longer[k].first <= longer[k].last
  <2> SUFFICES ASSUME NEW k \in 1..l
               PROVE  1 <= longer[k].first /\ longer[k].first <= longer[k].last
    OBVIOUS
  <2>1. 1 <= ranges[k].first /\ ranges[k].first <= ranges[k].last /\ ranges[k] \in Spans
    BY <1>1 DEF Cuts
  <2>2. CASE k = l
    BY <1>2, <1>3, <1>4, <2>1, <2>2 DEF Spans
  <2>3. CASE k # l
    BY <1>4, <2>1, <2>3
  <2> QED  BY <2>2, <2>3
<1>7. \A k \in 1..l : k # l => longer[k + 1].first = longer[k].last + 1
  <2> SUFFICES ASSUME NEW k \in 1..l, k # l PROVE longer[k + 1].first = longer[k].last + 1
    OBVIOUS
  <2>1. k + 1 \in 1..l /\ longer[k] = ranges[k]
    BY <1>1, <1>4
  <2>2. longer[k + 1].first = ranges[k + 1].first
    BY <1>3, <1>4, <2>1
  <2> QED  BY <2>1, <2>2 DEF Cuts
<1>8. longer[1].first = 1
  BY <1>1, <1>3, <1>4 DEF Cuts
<1>9. Cuts(longer, m)
  BY <1>3, <1>4, <1>5, <1>6, <1>7, <1>8 DEF Cuts
<1> QED  BY <1>5, <1>9 DEF longer, r

(* The state of either loop after i items: the ranges cut so far end       *)
(* before start.                                                           *)
CutUpTo(ranges, start, i) == start \in 1..i + 1 /\ Cuts(ranges, start - 1)

(* The ranges of a finished loop over n items, with what is left over. *)
LEMMA LastCut ==
  ASSUME NEW n \in Nat, NEW ranges, NEW start, CutUpTo(ranges, start, n)
  PROVE  Cuts(IF start <= n THEN Append(ranges, Range_(start, n)) ELSE ranges, n)
<1>1. CASE start <= n
  <2>1. start - 1 \in Nat /\ start - 1 < n /\ (start - 1) + 1 = start /\ Cuts(ranges, start - 1)
    BY <1>1 DEF CutUpTo
  <2>2. Cuts(Append(ranges, Range_((start - 1) + 1, n)), n)
    BY <2>1, CutOff
  <2> QED  BY <1>1, <2>1, <2>2
<1>2. CASE ~ (start <= n)
  <2>1. start - 1 = n
    BY <1>2 DEF CutUpTo
  <2> QED  BY <1>2, <2>1 DEF CutUpTo
<1> QED  BY <1>1, <1>2

(* No range of a cut of 1..n ends behind n. *)
LEMMA CutsStayInside ==
  ASSUME NEW ranges, NEW n \in Nat, Cuts(ranges, n), NEW k \in 1..Len(ranges)
  PROVE  ranges[k].last \in 1..n
<1> DEFINE l == Len(ranges)
           S == {m \in 0..(l - 1) : ranges[l - m].last <= n}
<1>1. l \in Nat /\ l - 1 \in Nat /\ ranges \in Seq(Spans) /\ ranges # <<>>
  BY DEF Cuts
<1>2. ASSUME NEW i \in 1..l
      PROVE  /\ ranges[i].first \in Nat /\ ranges[i].last \in Nat
             /\ 1 <= ranges[i].first /\ ranges[i].first <= ranges[i].last
  <2>1. ranges[i] \in Spans
    BY <1>1
  <2>2. ranges[i].first \in Nat /\ ranges[i].last \in Nat
    BY <2>1 DEF Spans
  <2> QED  BY <2>2 DEF Cuts
<1>3. 0 \in S
  <2>1. ranges[l - 0].last = n
    BY <1>1 DEF Cuts
  <2> QED  BY <1>1, <2>1
<1>4. ASSUME NEW m \in 0..(l - 1), m \in S, m < l - 1 PROVE m + 1 \in S
  <2> DEFINE i == l - (m + 1)
  <2>1. i \in 1..l /\ i # l /\ i + 1 = l - m /\ i + 1 \in 1..l
    BY <1>1, <1>4
  <2>2. ranges[i + 1].first = ranges[i].last + 1
    BY <2>1 DEF Cuts
  <2>3. ranges[i + 1].last <= n
    BY <1>4, <2>1
  <2> HIDE DEF i
  <2>4. ranges[i].last <= n
    BY <1>2, <2>1, <2>2, <2>3
  <2>5. m + 1 \in 0..(l - 1)
    BY <1>1, <1>4
  <2> QED  BY <2>4, <2>5 DEF i
<1> HIDE DEF S
<1>5. \A m \in 0..(l - 1) : m \in S
  BY <1>1, <1>3, <1>4, UpTo
<1>6. l - k \in 0..(l - 1) /\ l - (l - k) = k
  BY <1>1
<1>7. ranges[k].last <= n
  BY <1>5, <1>6 DEF S
<1> QED  BY <1>2, <1>7

(***************************************************************************)
(* sentence_chunks.                                                        *)
(***************************************************************************)
ChunkState(cut, i) ==
  /\ CutUpTo(cut.chunks, cut.start, i)
  /\ cut.words \in Nat /\ cut.words <= i + 1 - cut.start
  /\ cut.ended \in BOOLEAN
  /\ cut.ended => cut.start = i + 1 /\ cut.chunks # <<>>
  /\ cut = [chunks |-> cut.chunks, start |-> cut.start, words |-> cut.words, ended |-> cut.ended]

LEMMA ChunkEnded ==
  ASSUME NEW i \in Nat, NEW chunks, Cuts(chunks, i), chunks # <<>>
  PROVE  ChunkState([chunks |-> chunks, start |-> i + 1, words |-> 0, ended |-> TRUE], i)
<1>1. CutUpTo(chunks, i + 1, i)
  BY DEF CutUpTo
<1> QED  BY <1>1 DEF ChunkState

LEMMA ChunkStepKeeps ==
  ASSUME NEW cut, NEW i \in Nat \ {0}, ChunkState(cut, i - 1), NEW token
  PROVE  ChunkState(ChunkStep(cut, i, token), i)
<1> DEFINE full == counts_as_word(token) /\ cut.words = WordCap
           start == IF full THEN i ELSE cut.start
           before == IF full THEN Append(cut.chunks, Range_(cut.start, i - 1)) ELSE cut.chunks
           words == (IF full THEN 0 ELSE cut.words) + (IF counts_as_word(token) THEN 1 ELSE 0)
<1>1. /\ cut.start \in 1..i /\ cut.start - 1 \in Nat /\ Cuts(cut.chunks, cut.start - 1)
      /\ cut.words \in Nat /\ cut.words <= i - cut.start
  BY DEF ChunkState, CutUpTo
<1>2. CASE cut.ended /\ IsClosing(token)
  <2> DEFINE longer == [cut.chunks EXCEPT ![Len(cut.chunks)].last = i]
  <2>1. cut.start = i /\ cut.chunks # <<>>
    BY <1>2 DEF ChunkState
  <2>2. Cuts(longer, i) /\ longer # <<>>
    BY <1>1, <2>1, StretchLast
  <2>3. ChunkStep(cut, i, token) = [cut EXCEPT !.chunks = longer, !.start = i + 1]
    BY <1>2, Zenon DEF ChunkStep
  <2> HIDE DEF longer
  <2>4. ChunkStep(cut, i, token)
          = [chunks |-> longer, start |-> i + 1, words |-> cut.words, ended |-> cut.ended]
    BY <2>3 DEF ChunkState
  <2>5. cut.ended = TRUE
    BY <1>2 DEF ChunkState
  <2>6. cut.words = 0
    BY <1>1, <2>1
  <2>7. ChunkStep(cut, i, token) = [chunks |-> longer, start |-> i + 1, words |-> 0, ended |-> TRUE]
    BY <2>4, <2>5, <2>6, Zenon
  <2> QED  BY <2>2, <2>7, ChunkEnded
<1>3. CASE ~ (cut.ended /\ IsClosing(token))
  <2>1. /\ start \in 1..i /\ Cuts(before, start - 1)
        /\ words \in Nat /\ words <= i + 1 - start
    <3>1. CASE full
      <4>1. cut.start - 1 < i - 1 /\ i - 1 \in Nat /\ (cut.start - 1) + 1 = cut.start
        BY <1>1, <3>1, BudgetAssumption
      <4>2. Cuts(Append(cut.chunks, Range_((cut.start - 1) + 1, i - 1)), i - 1)
        BY <1>1, <4>1, CutOff
      <4>3. before = Append(cut.chunks, Range_((cut.start - 1) + 1, i - 1)) /\ start = i /\ words = 1
        BY <3>1, <4>1
      <4> QED  BY <1>1, <4>2, <4>3
    <3>2. CASE ~ full
      <4>1. before = cut.chunks /\ start = cut.start
            /\ words = cut.words + (IF counts_as_word(token) THEN 1 ELSE 0)
        BY <3>2
      <4> QED  BY <1>1, <4>1
    <3> QED  BY <3>1, <3>2
  <2>2. ChunkStep(cut, i, token) =
          IF IsTerminal(token)
          THEN [chunks |-> Append(before, Range_(start, i)), start |-> i + 1,
                words |-> 0, ended |-> TRUE]
          ELSE [chunks |-> before, start |-> start, words |-> words, ended |-> FALSE]
    BY <1>3, Zenon DEF ChunkStep
  <2> HIDE DEF start, before, words
  <2>3. CASE IsTerminal(token)
    <3>1. start - 1 \in Nat /\ start - 1 < i /\ (start - 1) + 1 = start
      BY <2>1
    <3>2. Cuts(Append(before, Range_((start - 1) + 1, i)), i)
          /\ Append(before, Range_((start - 1) + 1, i)) # <<>>
      BY <2>1, <3>1, CutOff
    <3>3. ChunkStep(cut, i, token) = [chunks |-> Append(before, Range_((start - 1) + 1, i)),
                                      start |-> i + 1, words |-> 0, ended |-> TRUE]
      BY <2>2, <2>3, <3>1
    <3> QED  BY <3>2, <3>3, ChunkEnded
  <2>4. CASE ~ IsTerminal(token)
    BY <2>1, <2>2, <2>4 DEF ChunkState, CutUpTo
  <2> QED  BY <2>3, <2>4
<1> QED  BY <1>2, <1>3

ChunkStart == [chunks |-> <<>>, start |-> 1, words |-> 0, ended |-> FALSE]
ChunkRun(tokens, f, n) ==
  f = [i \in 0..n |-> IF i = 0 THEN ChunkStart ELSE ChunkStep(f[i - 1], i, tokens[i])]

(* The loop over n tokens has a run. *)
LEMMA ChunksRun ==
  ASSUME NEW tokens, NEW n \in Nat
  PROVE  \E f : ChunkRun(tokens, f, n)
<1> DEFINE S == {m \in 0..n : \E f : ChunkRun(tokens, f, m)}
<1>1. 0 \in S
  <2> DEFINE f == [i \in 0..0 |-> ChunkStart]
  <2>1. f = [i \in 0..0 |-> IF i = 0 THEN ChunkStart ELSE ChunkStep(f[i - 1], i, tokens[i])]
    <3>1. \A i \in 0..0 : i = 0
      OBVIOUS
    <3> QED  BY <3>1, Zenon
  <2>2. ChunkRun(tokens, f, 0)
    BY <2>1, Zenon DEF ChunkRun
  <2> HIDE DEF f
  <2> QED  BY <2>2
<1>2. ASSUME NEW m \in 0..n, m \in S, m < n PROVE m + 1 \in S
  <2>1. PICK f : ChunkRun(tokens, f, m)
    BY <1>2
  <2> DEFINE g == [i \in 0..m + 1 |-> IF i = m + 1 THEN ChunkStep(f[m], m + 1, tokens[m + 1]) ELSE f[i]]
             h == [i \in 0..m + 1 |-> IF i = 0 THEN ChunkStart ELSE ChunkStep(g[i - 1], i, tokens[i])]
  <2>2. ASSUME NEW i \in 0..m + 1 PROVE g[i] = h[i]
    <3>1. CASE i = 0
      <4>1. g[0] = f[0] /\ h[0] = ChunkStart /\ 0 \in 0..m
        OBVIOUS
      <4> QED  BY <2>1, <3>1, <4>1 DEF ChunkRun
    <3>2. CASE i # 0 /\ i # m + 1
      <4>1. i \in 0..m /\ i - 1 \in 0..m + 1 /\ i - 1 # m + 1
        BY <3>2
      <4>2. g[i] = f[i] /\ g[i - 1] = f[i - 1] /\ h[i] = ChunkStep(g[i - 1], i, tokens[i])
        BY <3>2, <4>1
      <4>3. f[i] = ChunkStep(f[i - 1], i, tokens[i])
        BY <2>1, <3>2, <4>1 DEF ChunkRun
      <4> QED  BY <4>2, <4>3
    <3>3. CASE i = m + 1
      <4>1. i - 1 = m /\ m \in 0..m + 1 /\ m # m + 1 /\ i # 0
        BY <3>3
      <4>2. g[i] = ChunkStep(f[m], i, tokens[i]) /\ g[i - 1] = f[m]
            /\ h[i] = ChunkStep(g[i - 1], i, tokens[i])
        BY <3>3, <4>1
      <4> QED  BY <4>2
    <3> QED  BY <3>1, <3>2, <3>3
  <2>3. g = h
    BY <2>2, Zenon
  <2>4. ChunkRun(tokens, g, m + 1)
    BY <2>3, Zenon DEF ChunkRun
  <2>5. m + 1 \in 0..n
    BY <1>2
  <2> HIDE DEF g
  <2> QED  BY <2>4, <2>5
<1> HIDE DEF S
<1>3. n \in S
  BY <1>1, <1>2, UpTo
<1> QED  BY <1>3 DEF S

LEMMA ChunkStatesOf ==
  ASSUME NEW tokens, NEW n \in Nat, NEW f, ChunkRun(tokens, f, n)
  PROVE  ChunkState(f[n], n)
<1> DEFINE S == {m \in 0..n : ChunkState(f[m], m)}
<1>1. 0 \in S
  <2>1. f[0] = ChunkStart
    BY DEF ChunkRun
  <2>2. CutUpTo(<<>>, 1, 0)
    BY DEF Cuts, CutUpTo
  <2>3. ChunkState(ChunkStart, 0)
    BY <2>2 DEF ChunkStart, ChunkState
  <2> QED  BY <2>1, <2>3
<1>2. ASSUME NEW m \in 0..n, m \in S, m < n PROVE m + 1 \in S
  <2>1. m + 1 \in 0..n /\ m + 1 \in Nat \ {0} /\ (m + 1) - 1 = m /\ m + 1 # 0
    BY <1>2
  <2>2. f[m + 1] = ChunkStep(f[m], m + 1, tokens[m + 1])
    BY <2>1 DEF ChunkRun
  <2>3. ChunkState(f[m], (m + 1) - 1)
    BY <1>2, <2>1
  <2>4. ChunkState(ChunkStep(f[m], m + 1, tokens[m + 1]), m + 1)
    BY <2>1, <2>3, ChunkStepKeeps
  <2> QED  BY <2>1, <2>2, <2>4
<1> HIDE DEF S
<1>3. n \in S
  BY <1>1, <1>2, UpTo
<1> QED  BY <1>3 DEF S

(* sentence_chunks: the chunks of a text follow each other from its first  *)
(* token to its last; none is empty, and no token is left out or is in two.*)
THEOREM ChunksCutTheText == \A t \in Text : Cuts(Chunks[t], Len(TokensOf[t]))
<1> SUFFICES ASSUME NEW t \in Text PROVE Cuts(Chunks[t], Len(TokensOf[t]))
  OBVIOUS
<1> DEFINE tokens == TokensOf[t]
           n == Len(tokens)
           cut[i \in 0..n] ==
             IF i = 0 THEN [chunks |-> <<>>, start |-> 1, words |-> 0, ended |-> FALSE]
             ELSE ChunkStep(cut[i - 1], i, tokens[i])
<1>1. n \in Nat
  BY TokensAssumption
<1>2. Chunks[t] = IF cut[n].start <= n THEN Append(cut[n].chunks, Range_(cut[n].start, n))
                  ELSE cut[n].chunks
  BY Zenon DEF Chunks, sentence_chunks
<1>3. \E f : ChunkRun(tokens, f, n)
  BY <1>1, ChunksRun
<1>4. ChunkRun(tokens, cut, n)
  BY <1>3, Zenon DEF ChunkRun, ChunkStart
<1> HIDE DEF cut, n
<1>5. ChunkState(cut[n], n)
  BY <1>1, <1>4, ChunkStatesOf
<1>6. Cuts(Chunks[t], n)
  BY <1>1, <1>2, <1>5, LastCut DEF ChunkState
<1> QED  BY <1>6 DEF n

(***************************************************************************)
(* annotation_chunk_segments.                                              *)
(***************************************************************************)
SegmentState(cut, i) ==
  /\ CutUpTo(cut.segments, cut.start, i)
  /\ cut = [segments |-> cut.segments, start |-> cut.start, weight |-> cut.weight]

LEMMA SegmentMade ==
  ASSUME NEW i, NEW segments, NEW start, NEW weight, CutUpTo(segments, start, i)
  PROVE  SegmentState([segments |-> segments, start |-> start, weight |-> weight], i)
  BY DEF SegmentState

LEMMA SegmentStepKeeps ==
  ASSUME NEW cut, NEW i \in Nat \ {0}, SegmentState(cut, i - 1), NEW chunk
  PROVE  SegmentState(SegmentStep(cut, i, chunk), i)
<1> DEFINE full == cut.start < i /\ cut.weight + Weight(chunk) > TokenBudget
           start == IF full THEN i ELSE cut.start
           weight == (IF full THEN 0 ELSE cut.weight) + Weight(chunk)
           before == IF full THEN Append(cut.segments, Range_(cut.start, i - 1)) ELSE cut.segments
           longer == Append(before, Range_(start, i))
<1>1. cut.start \in 1..i /\ cut.start - 1 \in Nat /\ Cuts(cut.segments, cut.start - 1)
  BY DEF SegmentState, CutUpTo
<1>2. start \in 1..i /\ Cuts(before, start - 1)
  <2>1. CASE full
    <3>1. cut.start - 1 < i - 1 /\ i - 1 \in Nat /\ (cut.start - 1) + 1 = cut.start
      BY <1>1, <2>1
    <3>2. Cuts(Append(cut.segments, Range_((cut.start - 1) + 1, i - 1)), i - 1)
      BY <1>1, <3>1, CutOff
    <3>3. before = Append(cut.segments, Range_((cut.start - 1) + 1, i - 1)) /\ start = i
      BY <2>1, <3>1
    <3> QED  BY <1>1, <3>2, <3>3
  <2>2. CASE ~ full
    <3>1. before = cut.segments /\ start = cut.start
      BY <2>2
    <3> QED  BY <1>1, <3>1
  <2> QED  BY <2>1, <2>2
<1>3. SegmentStep(cut, i, chunk) =
        IF Weight(chunk) > TokenBudget
        THEN [segments |-> longer, start |-> i + 1, weight |-> 0]
        ELSE [segments |-> before, start |-> start, weight |-> weight]
  BY Zenon DEF SegmentStep
<1> HIDE DEF start, before, weight
<1>4. CutUpTo(longer, i + 1, i)
  <2>1. start - 1 \in Nat /\ start - 1 < i /\ (start - 1) + 1 = start
    BY <1>2
  <2>2. Cuts(Append(before, Range_((start - 1) + 1, i)), i)
    BY <1>2, <2>1, CutOff
  <2>3. longer = Append(before, Range_((start - 1) + 1, i))
    BY <2>1
  <2> HIDE DEF longer
  <2>4. (i + 1) - 1 = i /\ i + 1 \in 1..i + 1 /\ Cuts(longer, i)
    BY <2>2, <2>3
  <2> QED  BY <2>4 DEF CutUpTo
<1>5. CutUpTo(before, start, i)
  BY <1>2 DEF CutUpTo
<1> HIDE DEF longer
<1>6. CASE Weight(chunk) > TokenBudget
  BY <1>3, <1>4, <1>6, SegmentMade, Zenon
<1>7. CASE ~ (Weight(chunk) > TokenBudget)
  BY <1>3, <1>5, <1>7, SegmentMade, Zenon
<1> QED  BY <1>6, <1>7

SegmentStart == [segments |-> <<>>, start |-> 1, weight |-> 0]
SegmentRun(chunks, f, n) ==
  f = [i \in 0..n |-> IF i = 0 THEN SegmentStart ELSE SegmentStep(f[i - 1], i, chunks[i])]

(* The loop over n chunks has a run. *)
LEMMA SegmentsRun ==
  ASSUME NEW chunks, NEW n \in Nat
  PROVE  \E f : SegmentRun(chunks, f, n)
<1> DEFINE S == {m \in 0..n : \E f : SegmentRun(chunks, f, m)}
<1>1. 0 \in S
  <2> DEFINE f == [i \in 0..0 |-> SegmentStart]
  <2>1. f = [i \in 0..0 |-> IF i = 0 THEN SegmentStart ELSE SegmentStep(f[i - 1], i, chunks[i])]
    <3>1. \A i \in 0..0 : i = 0
      OBVIOUS
    <3> QED  BY <3>1, Zenon
  <2>2. SegmentRun(chunks, f, 0)
    BY <2>1, Zenon DEF SegmentRun
  <2> HIDE DEF f
  <2> QED  BY <2>2
<1>2. ASSUME NEW m \in 0..n, m \in S, m < n PROVE m + 1 \in S
  <2>1. PICK f : SegmentRun(chunks, f, m)
    BY <1>2
  <2> DEFINE g == [i \in 0..m + 1 |-> IF i = m + 1 THEN SegmentStep(f[m], m + 1, chunks[m + 1]) ELSE f[i]]
             h == [i \in 0..m + 1 |-> IF i = 0 THEN SegmentStart ELSE SegmentStep(g[i - 1], i, chunks[i])]
  <2>2. ASSUME NEW i \in 0..m + 1 PROVE g[i] = h[i]
    <3>1. CASE i = 0
      <4>1. g[0] = f[0] /\ h[0] = SegmentStart /\ 0 \in 0..m
        OBVIOUS
      <4> QED  BY <2>1, <3>1, <4>1 DEF SegmentRun
    <3>2. CASE i # 0 /\ i # m + 1
      <4>1. i \in 0..m /\ i - 1 \in 0..m + 1 /\ i - 1 # m + 1
        BY <3>2
      <4>2. g[i] = f[i] /\ g[i - 1] = f[i - 1] /\ h[i] = SegmentStep(g[i - 1], i, chunks[i])
        BY <3>2, <4>1
      <4>3. f[i] = SegmentStep(f[i - 1], i, chunks[i])
        BY <2>1, <3>2, <4>1 DEF SegmentRun
      <4> QED  BY <4>2, <4>3
    <3>3. CASE i = m + 1
      <4>1. i - 1 = m /\ m \in 0..m + 1 /\ m # m + 1 /\ i # 0
        BY <3>3
      <4>2. g[i] = SegmentStep(f[m], i, chunks[i]) /\ g[i - 1] = f[m]
            /\ h[i] = SegmentStep(g[i - 1], i, chunks[i])
        BY <3>3, <4>1
      <4> QED  BY <4>2
    <3> QED  BY <3>1, <3>2, <3>3
  <2>3. g = h
    BY <2>2, Zenon
  <2>4. SegmentRun(chunks, g, m + 1)
    BY <2>3, Zenon DEF SegmentRun
  <2>5. m + 1 \in 0..n
    BY <1>2
  <2> HIDE DEF g
  <2> QED  BY <2>4, <2>5
<1> HIDE DEF S
<1>3. n \in S
  BY <1>1, <1>2, UpTo
<1> QED  BY <1>3 DEF S

LEMMA SegmentStatesOf ==
  ASSUME NEW chunks, NEW n \in Nat, NEW f, SegmentRun(chunks, f, n)
  PROVE  SegmentState(f[n], n)
<1> DEFINE S == {m \in 0..n : SegmentState(f[m], m)}
<1>1. 0 \in S
  <2>1. f[0] = SegmentStart
    BY DEF SegmentRun
  <2>2. CutUpTo(<<>>, 1, 0)
    BY DEF Cuts, CutUpTo
  <2>3. SegmentState(SegmentStart, 0)
    BY <2>2 DEF SegmentStart, SegmentState
  <2> QED  BY <2>1, <2>3
<1>2. ASSUME NEW m \in 0..n, m \in S, m < n PROVE m + 1 \in S
  <2>1. m + 1 \in 0..n /\ m + 1 \in Nat \ {0} /\ (m + 1) - 1 = m /\ m + 1 # 0
    BY <1>2
  <2>2. f[m + 1] = SegmentStep(f[m], m + 1, chunks[m + 1])
    BY <2>1 DEF SegmentRun
  <2>3. SegmentState(f[m], (m + 1) - 1)
    BY <1>2, <2>1
  <2>4. SegmentState(SegmentStep(f[m], m + 1, chunks[m + 1]), m + 1)
    BY <2>1, <2>3, SegmentStepKeeps
  <2> QED  BY <2>1, <2>2, <2>4
<1> HIDE DEF S
<1>3. n \in S
  BY <1>1, <1>2, UpTo
<1> QED  BY <1>3 DEF S

(* annotation_chunk_segments: the segments of a text follow each other     *)
(* from its first chunk to its last, so that annotating the segments       *)
(* annotates every chunk once.                                             *)
THEOREM SegmentsCutTheChunks == \A t \in Text : Cuts(Segments[t], Len(Chunks[t]))
<1> SUFFICES ASSUME NEW t \in Text PROVE Cuts(Segments[t], Len(Chunks[t]))
  OBVIOUS
<1> DEFINE chunks == Chunks[t]
           n == Len(chunks)
           cut[i \in 0..n] ==
             IF i = 0 THEN [segments |-> <<>>, start |-> 1, weight |-> 0]
             ELSE SegmentStep(cut[i - 1], i, chunks[i])
<1>1. n \in Nat
  BY ChunksCutTheText DEF Cuts
<1>2. Segments[t] = IF cut[n].start <= n THEN Append(cut[n].segments, Range_(cut[n].start, n))
                    ELSE cut[n].segments
  BY Zenon DEF Segments, annotation_chunk_segments
<1>3. \E f : SegmentRun(chunks, f, n)
  BY <1>1, SegmentsRun
<1>4. SegmentRun(chunks, cut, n)
  BY <1>3, Zenon DEF SegmentRun, SegmentStart
<1> HIDE DEF cut, n
<1>5. SegmentState(cut[n], n)
  BY <1>1, <1>4, SegmentStatesOf
<1>6. Cuts(Segments[t], n)
  BY <1>1, <1>2, <1>5, LastCut DEF SegmentState
<1> QED  BY <1>6 DEF n

(***************************************************************************)
(* Words of documents.                                                     *)
(***************************************************************************)
LEMMA TokenCountType == \A t \in Text : TokenCount[t] \in Nat
<1> SUFFICES ASSUME NEW t \in Text PROVE TokenCount[t] \in Nat
  OBVIOUS
<1> DEFINE words == {i \in DOMAIN TokensOf[t] : counts_as_word(TokensOf[t][i])}
<1>1. Len(TokensOf[t]) \in Nat /\ words \subseteq 1..Len(TokensOf[t])
  BY TokensAssumption
<1>2. TokenCount[t] = Cardinality(words)
  BY Zenon DEF TokenCount
<1> HIDE DEF words
<1>3. IsFiniteSet(1..Len(TokensOf[t]))
  BY <1>1, FS_Interval
<1>4. IsFiniteSet(words)
  BY <1>1, <1>3, FS_Subset
<1> QED  BY <1>2, <1>4, FS_CardinalityType

(* The words of the documents I. *)
WordsIn(documents, I) == SumOver([i \in I |-> TokenCount[documents[i].text]])

(* Each of them by its document and its number. *)
WordOf(documents, i) == {i} \X (1..TokenCount[documents[i].text])
WordSet(documents, I) == UNION {WordOf(documents, i) : i \in I}

TextsOf(documents, I) == \A i \in I : documents[i].text \in Text

LEMMA WordsInIsCount ==
  ASSUME NEW documents, NEW I
  PROVE  WordsIn(documents, I) = Cardinality(WordSet(documents, I))
<1> DEFINE f == [i \in I |-> TokenCount[documents[i].text]]
<1>1. WordSet(documents, I) = UNION {{i} \X (1..f[i]) : i \in DOMAIN f}
  BY DEF WordSet, WordOf
<1> QED  BY <1>1, Zenon DEF WordsIn, SumOver

LEMMA WordsAreFinite ==
  ASSUME NEW documents, NEW I, IsFiniteSet(I), TextsOf(documents, I)
  PROVE  IsFiniteSet(WordSet(documents, I)) /\ WordsIn(documents, I) \in Nat
<1> DEFINE sets == {WordOf(documents, i) : i \in I}
           f == [i \in I |-> WordOf(documents, i)]
<1>1. f \in Surjection(I, sets)
  BY DEF Surjection
<1>2. \A T \in sets : IsFiniteSet(T)
  <2> SUFFICES ASSUME NEW i \in I PROVE IsFiniteSet(WordOf(documents, i))
    OBVIOUS
  <2> DEFINE n == TokenCount[documents[i].text]
  <2>1. n \in Nat
    BY TokenCountType DEF TextsOf
  <2> HIDE DEF n
  <2>2. IsFiniteSet(1..n)
    BY <2>1, FS_Interval
  <2>3. IsFiniteSet({i})
    BY FS_Singleton
  <2>4. IsFiniteSet({i} \X (1..n))
    BY <2>2, <2>3, FS_Product
  <2> QED  BY <2>4, Zenon DEF WordOf, n
<1>3. WordSet(documents, I) = UNION sets
  BY Zenon DEF WordSet
<1> HIDE DEF f, sets
<1>4. IsFiniteSet(sets)
  BY <1>1, FS_Surjection
<1>5. IsFiniteSet(WordSet(documents, I))
  BY <1>2, <1>3, <1>4, FS_UNION
<1> QED  BY <1>5, FS_CardinalityType, WordsInIsCount

LEMMA WordsAddUp ==
  ASSUME NEW documents, NEW I, NEW J, IsFiniteSet(I), IsFiniteSet(J),
         TextsOf(documents, I), TextsOf(documents, J), I \cap J = {}
  PROVE  WordsIn(documents, I \cup J) = WordsIn(documents, I) + WordsIn(documents, J)
<1> DEFINE S == WordSet(documents, I)
           T == WordSet(documents, J)
<1>1. WordSet(documents, I \cup J) = S \cup T
  BY DEF WordSet
<1>2. S \cap T = {}
  <2>1. \A w \in S : w[1] \in I
    BY DEF WordSet, WordOf
  <2>2. \A w \in T : w[1] \in J
    BY DEF WordSet, WordOf
  <2> QED  BY <2>1, <2>2
<1>3. /\ IsFiniteSet(S) /\ Cardinality(S) \in Nat
      /\ IsFiniteSet(T) /\ Cardinality(T) \in Nat
  BY WordsAreFinite, FS_CardinalityType
<1> HIDE DEF S, T
<1>4. Cardinality(S \cup T) = Cardinality(S) + Cardinality(T) - Cardinality(S \cap T)
  BY <1>3, FS_Union
<1>5. Cardinality(S \cap T) = 0
  BY <1>2, FS_EmptySet
<1>6. Cardinality(S \cup T) = Cardinality(S) + Cardinality(T)
  BY <1>3, <1>4, <1>5
<1> QED  BY <1>1, <1>6, WordsInIsCount DEF S, T

LEMMA WordsOfOne ==
  ASSUME NEW documents, NEW i, documents[i].text \in Text
  PROVE  WordsIn(documents, {i}) = TokenCount[documents[i].text]
<1> DEFINE n == TokenCount[documents[i].text]
<1>1. WordSet(documents, {i}) = {i} \X (1..n)
  BY DEF WordSet, WordOf
<1>2. n \in Nat
  BY TokenCountType
<1> HIDE DEF n
<1>3. IsFiniteSet({i}) /\ Cardinality({i}) = 1
  BY FS_Singleton
<1>4. IsFiniteSet(1..n) /\ Cardinality(1..n) = IF 1 > n THEN 0 ELSE n - 1 + 1
  BY <1>2, FS_Interval
<1>5. Cardinality(1..n) = n
  BY <1>2, <1>4
<1>6. Cardinality({i} \X (1..n)) = Cardinality({i}) * Cardinality(1..n)
  BY <1>3, <1>4, FS_Product
<1>7. Cardinality({i} \X (1..n)) = n
  BY <1>2, <1>3, <1>5, <1>6
<1>8. WordsIn(documents, {i}) = n
  BY <1>1, <1>7, WordsInIsCount, Zenon
<1> QED  BY <1>8 DEF n

LEMMA WordsOfNone ==
  ASSUME NEW documents
  PROVE  WordsIn(documents, {}) = 0
<1>1. WordSet(documents, {}) = {}
  BY DEF WordSet
<1> QED  BY <1>1, WordsInIsCount, FS_EmptySet, Zenon

(***************************************************************************)
(* Ascending lists a finite set of numbers, each once.                     *)
(***************************************************************************)
Before(S, d) == {e \in S : e < d}

LEMMA AscendingLists ==
  ASSUME NEW S, S \subseteq Nat, IsFiniteSet(S)
  PROVE  /\ Cardinality(S) \in Nat
         /\ Ascending(S) \in [1..Cardinality(S) -> S]
         /\ \A i, j \in 1..Cardinality(S) : Ascending(S)[i] = Ascending(S)[j] => i = j
         /\ \A d \in S : \E i \in 1..Cardinality(S) : Ascending(S)[i] = d
<1> DEFINE n == Cardinality(S)
           rank == [d \in S |-> Cardinality(Before(S, d)) + 1]
<1>1. n \in Nat
  BY FS_CardinalityType
<1>2. \A d \in S : IsFiniteSet(Before(S, d)) /\ Cardinality(Before(S, d)) \in Nat
  <2> SUFFICES ASSUME NEW d \in S
               PROVE  IsFiniteSet(Before(S, d)) /\ Cardinality(Before(S, d)) \in Nat
    OBVIOUS
  <2>1. Before(S, d) \in SUBSET S
    BY DEF Before
  <2> QED  BY <2>1, FS_Subset, FS_CardinalityType
<1>3. ASSUME NEW d \in S, NEW e \in S, d < e
      PROVE  Cardinality(Before(S, d)) < Cardinality(Before(S, e))
  <2>1. d \in Nat /\ e \in Nat /\ S \subseteq Nat
    OBVIOUS
  <2>2. \A x \in Nat : x < d => x < e
    BY <1>3, <2>1
  <2>3. Before(S, d) \in SUBSET Before(S, e)
    BY <2>1, <2>2 DEF Before
  <2>4. d \in Before(S, e) /\ d \notin Before(S, d)
    BY <1>3, <2>1 DEF Before
  <2>5. /\ Cardinality(Before(S, d)) <= Cardinality(Before(S, e))
        /\ Cardinality(Before(S, e)) = Cardinality(Before(S, d)) => Before(S, e) = Before(S, d)
    BY <1>2, <2>3, FS_Subset
  <2> QED  BY <1>2, <2>4, <2>5
<1>4. \A d \in S : Cardinality(Before(S, d)) < n
  <2> SUFFICES ASSUME NEW d \in S PROVE Cardinality(Before(S, d)) < n
    OBVIOUS
  <2>1. Before(S, d) \in SUBSET S /\ d \notin Before(S, d)
    BY DEF Before
  <2>2. /\ Cardinality(Before(S, d)) <= n
        /\ n = Cardinality(Before(S, d)) => S = Before(S, d)
    BY <2>1, FS_Subset
  <2> QED  BY <1>1, <1>2, <2>1, <2>2
<1>5. rank \in Injection(S, 1..n)
  <2>1. rank \in [S -> 1..n]
    BY <1>1, <1>2, <1>4
  <2>2. \A d, e \in S : rank[d] = rank[e] => d = e
    <3> SUFFICES ASSUME NEW d \in S, NEW e \in S, d # e PROVE rank[d] # rank[e]
      OBVIOUS
    <3>1. d < e \/ e < d
      OBVIOUS
    <3> QED  BY <1>2, <1>3, <3>1
  <2> QED  BY <2>1, <2>2 DEF Injection, IsInjective
<1>6. rank \in Surjection(S, 1..n)
  <2>1. IsFiniteSet(1..n) /\ Cardinality(1..n) = IF 1 > n THEN 0 ELSE n - 1 + 1
    BY <1>1, FS_Interval
  <2>2. Cardinality(1..n) = n
    BY <1>1, <2>1
  <2> HIDE DEF rank
  <2> QED  BY <1>5, <2>1, <2>2, FS_Injection
<1>7. \A i \in 1..n : \E d \in S : rank[d] = i
  BY <1>6 DEF Surjection
<1>8. Ascending(S) = [i \in 1..n |-> CHOOSE d \in S : Cardinality(Before(S, d)) = i - 1]
  BY DEF Ascending, Before
<1>9. ASSUME NEW i \in 1..n PROVE Ascending(S)[i] \in S /\ rank[Ascending(S)[i]] = i
  <2>1. \E d \in S : Cardinality(Before(S, d)) = i - 1
    BY <1>2, <1>7
  <2>2. Ascending(S)[i] = CHOOSE d \in S : Cardinality(Before(S, d)) = i - 1
    BY <1>8
  <2>3. Ascending(S)[i] \in S /\ Cardinality(Before(S, Ascending(S)[i])) = i - 1
    BY <2>1, <2>2
  <2> QED  BY <2>3
<1>10. \A d \in S : rank[d] \in 1..n /\ Ascending(S)[rank[d]] = d
  BY <1>5, <1>9 DEF Injection, IsInjective
<1> HIDE DEF rank
<1> QED  BY <1>1, <1>8, <1>9, <1>10

LEMMA WordsOfPart ==
  ASSUME NEW documents, NEW J, IsFiniteSet(J), TextsOf(documents, J), NEW I, I \subseteq J
  PROVE  WordsIn(documents, I) <= WordsIn(documents, J)
<1>1. IsFiniteSet(I) /\ IsFiniteSet(J \ I)
  <2>1. I \in SUBSET J /\ (J \ I) \in SUBSET J
    OBVIOUS
  <2> QED  BY <2>1, FS_Subset
<1>2. TextsOf(documents, I) /\ TextsOf(documents, J \ I)
  BY DEF TextsOf
<1>3. WordsIn(documents, I) \in Nat /\ WordsIn(documents, J \ I) \in Nat
  BY <1>1, <1>2, WordsAreFinite
<1>4. I \cap (J \ I) = {} /\ I \cup (J \ I) = J
  OBVIOUS
<1>5. WordsIn(documents, J) = WordsIn(documents, I) + WordsIn(documents, J \ I)
  BY <1>1, <1>2, <1>4, WordsAddUp
<1> QED  BY <1>3, <1>5

(***************************************************************************)
(* Waves and credits.                                                      *)
(***************************************************************************)
LEMMA GreaterOf ==
  ASSUME NEW a \in Int, NEW b \in Int
  PROVE  Max({a, b}) = IF a >= b THEN a ELSE b
<1>1. \E x \in {a, b} : \A y \in {a, b} : x >= y
  OBVIOUS
<1>2. Max({a, b}) \in {a, b} /\ \A y \in {a, b} : Max({a, b}) >= y
  BY <1>1, Zenon DEF Max
<1> QED  BY <1>2

LEMMA LesserOf ==
  ASSUME NEW a \in Int, NEW b \in Int
  PROVE  Min({a, b}) = IF a <= b THEN a ELSE b
<1>1. \E x \in {a, b} : \A y \in {a, b} : x <= y
  OBVIOUS
<1>2. Min({a, b}) \in {a, b} /\ \A y \in {a, b} : Min({a, b}) <= y
  BY <1>1, Zenon DEF Min
<1> QED  BY <1>2

(* A sequence of whatever it holds. *)
IsSequence(s) == s \in Seq(Range(s))

LEMMA SequenceOf ==
  ASSUME NEW S, NEW n \in Nat, NEW s, DOMAIN s = 1..n, s = [i \in DOMAIN s |-> s[i]],
         \A i \in 1..n : s[i] \in S
  PROVE  s \in Seq(S)
<1>1. s \in [1..n -> S]
  OBVIOUS
<1> QED  BY <1>1

(* stage_next_annotation_wave takes the next inputs, at least one. *)
LEMMA StagedInputs ==
  ASSUME NEW inputs, IsSequence(inputs), NEW first \in 1..Len(inputs) + 1
  PROVE  \E last \in (first - 1)..Len(inputs) :
            /\ Staged(inputs, first) = SubSeq(inputs, first, last)
            /\ first <= Len(inputs) => first <= last
<1> DEFINE weight(n) == SumOver([i \in first..n |-> StagedWeight(inputs[i].text)])
           fits == {n \in first..Len(inputs) : n = first \/ weight(n) <= TokenBudget}
<1>1. Len(inputs) \in Nat /\ inputs \in Seq(Range(inputs))
  BY DEF IsSequence
<1>2. Staged(inputs, first) = IF fits = {} THEN <<>> ELSE SubSeq(inputs, first, Max(fits))
  BY Zenon DEF Staged
<1>3. fits \subseteq first..Len(inputs) /\ (first <= Len(inputs) => first \in fits)
  BY <1>1
<1> HIDE DEF fits
<1>4. CASE fits = {}
  <2>1. first = Len(inputs) + 1
    BY <1>1, <1>3, <1>4
  <2>2. SubSeq(inputs, first, first - 1) = <<>>
    BY <1>1, <2>1
  <2> QED  BY <1>1, <1>2, <1>4, <2>1, <2>2
<1>5. CASE fits # {}
  <2>1. first \in Nat
    BY <1>1
  <2>2. Max(fits) \in fits
    BY <1>1, <1>3, <1>5, <2>1, GreatestOf
  <2> DEFINE last == Max(fits)
  <2> HIDE DEF last
  <2>3. last \in first..Len(inputs)
    BY <1>3, <2>2 DEF last
  <2>4. Staged(inputs, first) = SubSeq(inputs, first, last)
    BY <1>2, <1>5 DEF last
  <2>5. last \in (first - 1)..Len(inputs) /\ first <= last
    BY <1>1, <2>1, <2>3
  <2> QED  BY <2>4, <2>5
<1> QED  BY <1>4, <1>5

(* A share of the words is not more than the words.                        *)
LEMMA ShareOfWords ==
  ASSUME NEW words \in Nat, NEW tokens \in Nat, NEW processed \in Nat
  PROVE  SegmentShare(words, tokens, processed) \in Int
         /\ SegmentShare(words, tokens, processed) <= words
<1>1. CASE words = 0 \/ tokens = 0
  BY <1>1, Zenon, SMT DEF SegmentShare
<1>2. CASE ~ (words = 0 \/ tokens = 0)
  <2> DEFINE p == Min({processed, tokens})
             share == (words * p) \div tokens
  <2>1. p \in Nat
    BY LesserOf
  <2> HIDE DEF p
  <2>2. words * p \in Int
    BY <2>1
  <2>3. share \in Int
    BY <1>2, <2>2
  <2>4. SegmentShare(words, tokens, processed) = Min({share, words})
    BY <1>2, Zenon DEF SegmentShare, p
  <2> HIDE DEF share
  <2> QED  BY <2>3, <2>4, LesserOf
<1> QED  BY <1>1, <1>2

LEMMA CreditWithinWords ==
  ASSUME NEW words \in Nat, NEW tokens \in Nat, NEW processed \in Nat,
         NEW credited \in 0..words
  PROVE  LET credit == proportional_segment_token_credit(words, tokens, processed, credited)
         IN  credit \in Nat /\ credited + credit <= words
<1> DEFINE share == SegmentShare(words, tokens, processed)
<1>1. share \in Int /\ share <= words
  BY ShareOfWords
<1>2. proportional_segment_token_credit(words, tokens, processed, credited)
        = Max({share - credited, 0})
  BY Zenon DEF proportional_segment_token_credit
<1> HIDE DEF share
<1>3. share - credited \in Int
  BY <1>1
<1> QED  BY <1>1, <1>2, <1>3, GreaterOf

(* A document done in segments has one, and the tokens that a segment ends *)
(* at can be counted.                                                      *)
LEMMA SegmentsOfLong ==
  ASSUME NEW t \in Text, StagedWeight(t) > TokenBudget
  PROVE  /\ Len(Segments[t]) \in Nat \ {0}
         /\ \A k \in 1..Len(Segments[t]) : Chunks[t][Segments[t][k].last].last \in Nat
<1>1. Len(TokensOf[t]) \in Nat /\ TokensOf[t] \in Seq(Range(TokensOf[t]))
  BY TokensAssumption
<1>2. TokensOf[t] # <<>> /\ Len(TokensOf[t]) # 0
  BY <1>1, BudgetAssumption DEF StagedWeight
<1>3. Cuts(Chunks[t], Len(TokensOf[t])) /\ Cuts(Segments[t], Len(Chunks[t]))
  BY ChunksCutTheText, SegmentsCutTheChunks
<1>4. Chunks[t] # <<>> /\ Chunks[t] \in Seq(Spans) /\ Len(Chunks[t]) \in Nat \ {0}
  BY <1>2, <1>3 DEF Cuts
<1>5. Segments[t] # <<>> /\ Segments[t] \in Seq(Spans) /\ Len(Segments[t]) \in Nat \ {0}
  BY <1>3, <1>4 DEF Cuts
<1>6. ASSUME NEW k \in 1..Len(Segments[t]) PROVE Segments[t][k].last \in 1..Len(Chunks[t])
  BY <1>3, <1>4, <1>5, CutsStayInside
<1>7. ASSUME NEW k \in 1..Len(Segments[t]) PROVE Chunks[t][Segments[t][k].last].last \in Nat
  <2>1. Segments[t][k].last \in 1..Len(Chunks[t])
    BY <1>6
  <2>2. Chunks[t][Segments[t][k].last] \in Spans
    BY <1>4, <2>1
  <2> QED  BY <2>2 DEF Spans
<1> QED  BY <1>5, <1>7

(***************************************************************************)
(* What holds of a build between its steps.                                *)
(***************************************************************************)
(* The record of a build, with whatever values. *)
IsJob(j) ==
  j \in [phase : {j.phase}, outcome : {j.outcome}, cancel : {j.cancel}, over : {j.over},
         borrowed : {j.borrowed}, corpus : {j.corpus}, manifest : {j.manifest},
         salvaging : {j.salvaging}, done : {j.done}, inputs : {j.inputs}, next : {j.next},
         wave : {j.wave}, segment : {j.segment}, partial : {j.partial},
         credited : {j.credited}, docs_done : {j.docs_done}, tokens_done : {j.tokens_done}]

DocumentsOK(documents) ==
  /\ IsSequence(documents)
  /\ \A i \in DOMAIN documents : documents[i].text \in Text /\ documents[i].path \in Document

InputsOK(inputs, documents) ==
  /\ IsSequence(inputs)
  /\ \A n \in 1..Len(inputs) : inputs[n].text \in Text /\ inputs[n].index \in DOMAIN documents
  /\ \A m, n \in 1..Len(inputs) : inputs[m].index = inputs[n].index => m = n

(* Nothing is annotated yet. *)
Fresh(j) == j.next = 1 /\ j.credited = 0 /\ j.segment = 0

Surfacing(j) ==
  /\ Fresh(j)
  /\ j.corpus.selection \subseteq Document
  /\ j.borrowed => DocumentsOK(j.corpus.documents)

Planning(j) ==
  /\ Fresh(j)
  /\ DocumentsOK(j.corpus.documents)
  /\ j.manifest.documents = j.corpus.documents

(* The documents done are counted, and so are their words. *)
Counted(j) ==
  /\ DocumentsOK(j.corpus.documents)
  /\ DOMAIN j.done \subseteq DOMAIN j.corpus.documents
  /\ j.docs_done = Cardinality(DOMAIN j.done)
  /\ j.credited \in Nat
  /\ j.tokens_done = WordsIn(j.corpus.documents, DOMAIN j.done) + j.credited

(* The documents that the inputs from the given one on are for. *)
Remaining(j, from) == {j.inputs[n].index : n \in from..Len(j.inputs)}

(* The inputs from the given one on are for the documents not done. *)
Ahead(j, from) ==
  /\ InputsOK(j.inputs, j.corpus.documents)
  /\ from \in 1..Len(j.inputs) + 1
  /\ DOMAIN j.done \cup Remaining(j, from) = DOMAIN j.corpus.documents
  /\ DOMAIN j.done \cap Remaining(j, from) = {}

(* A segment of the document of the wave is to come, and the words         *)
(* credited ahead are no more than that document has.                      *)
InSegments(j) ==
  /\ j.segment \in Nat /\ j.segment < Len(Segments[j.wave[1].text])
  /\ j.credited <= token_count(j, j.wave[1].index)

(* The wave is the stretch of inputs from the first that remains to next;  *)
(* words are credited ahead of a document only while it is in segments.    *)
Annotating(j) ==
  \E from \in 1..Len(j.inputs) + 1 :
     /\ Counted(j) /\ Ahead(j, from)
     /\ j.next \in from..Len(j.inputs) + 1
     /\ j.wave = SubSeq(j.inputs, from, j.next - 1)
     /\ from <= Len(j.inputs) => from < j.next
     /\ IF Segmented(j.wave) THEN InSegments(j) ELSE j.credited = 0 /\ j.segment = 0

JobOK(j) ==
  /\ IsJob(j)
  /\ j.phase = "surface" => Surfacing(j)
  /\ j.phase \in {"cache", "salvage"} => Planning(j)
  /\ j.phase = "inputs" => Fresh(j) /\ Counted(j)
  /\ j.phase = "annotating" => Annotating(j)

BuildInv ==
  /\ source \in [Document -> Text]
  /\ DocumentsOK(session.documents)
  /\ build = [b \in Builds |-> build[b]]
  /\ \A b \in Builds : JobOK(build[b])

LEMMA BeforeAndAfter ==
  /\ JobOK(NotBegun)
  /\ \A j, outcome : JobOK(Ended(j, outcome))
  /\ \A cancel : JobOK([NotBegun EXCEPT !.phase = "writing", !.cancel = cancel])
<1>1. IsJob(NotBegun) /\ NotBegun.phase = "not begun"
  BY DEF IsJob, NotBegun
<1>2. JobOK(NotBegun)
  BY <1>1 DEF JobOK
<1>3. ASSUME NEW j, NEW outcome PROVE JobOK(Ended(j, outcome))
  <2> DEFINE k == [NotBegun EXCEPT !.phase = "ended", !.outcome = outcome]
  <2>1. IsJob(k) /\ k.phase = "ended"
    BY <1>1 DEF IsJob
  <2> HIDE DEF k
  <2>2. JobOK(k)
    BY <2>1 DEF JobOK
  <2> QED  BY <2>2, Zenon DEF Ended, k
<1>4. ASSUME NEW cancel PROVE JobOK([NotBegun EXCEPT !.phase = "writing", !.cancel = cancel])
  <2> DEFINE k == [NotBegun EXCEPT !.phase = "writing", !.cancel = cancel]
  <2>1. IsJob(k) /\ k.phase = "writing"
    BY <1>1 DEF IsJob
  <2> HIDE DEF k
  <2>2. JobOK(k)
    BY <2>1 DEF JobOK
  <2> QED  BY <2>2 DEF k
<1> QED  BY <1>2, <1>3, <1>4

(* Cancelling a build changes nothing else. *)
LEMMA CancelKeeps ==
  ASSUME NEW j, JobOK(j)
  PROVE  JobOK([j EXCEPT !.cancel = TRUE])
<1> DEFINE k == [j EXCEPT !.cancel = TRUE]
<1>1. IsJob(j)
  BY DEF JobOK
<1>2. /\ IsJob(k)
      /\ k.phase = j.phase /\ k.borrowed = j.borrowed /\ k.corpus = j.corpus
      /\ k.manifest = j.manifest /\ k.done = j.done /\ k.inputs = j.inputs /\ k.next = j.next
      /\ k.wave = j.wave /\ k.segment = j.segment /\ k.credited = j.credited
      /\ k.docs_done = j.docs_done /\ k.tokens_done = j.tokens_done
  BY <1>1 DEF IsJob
<1> HIDE DEF k
<1>3. Fresh(k) <=> Fresh(j)
  BY <1>2 DEF Fresh
<1>4. Surfacing(j) => Surfacing(k)
  BY <1>2, <1>3 DEF Surfacing
<1>5. Planning(j) => Planning(k)
  BY <1>2, <1>3 DEF Planning
<1>6. Counted(j) => Counted(k)
  BY <1>2 DEF Counted
<1>7. ASSUME Annotating(j) PROVE Annotating(k)
  <2>1. PICK from \in 1..Len(j.inputs) + 1 :
          /\ Counted(j) /\ Ahead(j, from)
          /\ j.next \in from..Len(j.inputs) + 1
          /\ j.wave = SubSeq(j.inputs, from, j.next - 1)
          /\ from <= Len(j.inputs) => from < j.next
          /\ IF Segmented(j.wave) THEN InSegments(j) ELSE j.credited = 0 /\ j.segment = 0
    BY <1>7 DEF Annotating
  <2>2. Remaining(k, from) = Remaining(j, from)
    BY <1>2, Zenon DEF Remaining
  <2>3. Ahead(k, from)
    BY <1>2, <2>1, <2>2 DEF Ahead
  <2>4. InSegments(j) => InSegments(k)
    BY <1>2 DEF InSegments, token_count
  <2> QED  BY <1>2, <1>6, <2>1, <2>3, <2>4 DEF Annotating
<1>8. JobOK(k)
  BY <1>2, <1>3, <1>4, <1>5, <1>6, <1>7 DEF JobOK
<1> QED  BY <1>8 DEF k

LEMMA SomeDocuments ==
  ASSUME NEW documents, DocumentsOK(documents), NEW I, I \subseteq DOMAIN documents
  PROVE  /\ IsFiniteSet(I) /\ Cardinality(I) \in Nat
         /\ TextsOf(documents, I) /\ WordsIn(documents, I) \in Nat
<1>1. documents \in Seq(Range(documents)) /\ Len(documents) \in Nat
      /\ DOMAIN documents = 1..Len(documents)
  BY DEF DocumentsOK, IsSequence
<1>2. IsFiniteSet(1..Len(documents))
  BY <1>1, FS_Interval
<1>3. IsFiniteSet(I)
  <2>1. I \in SUBSET (1..Len(documents))
    BY <1>1
  <2> QED  BY <1>2, <2>1, FS_Subset
<1>4. TextsOf(documents, I)
  BY DEF TextsOf, DocumentsOK
<1>5. WordsIn(documents, I) \in Nat
  BY <1>3, <1>4, WordsAreFinite
<1> QED  BY <1>3, <1>4, <1>5, FS_CardinalityType

LEMMA WordsOfDocument ==
  ASSUME NEW j, DocumentsOK(j.corpus.documents), NEW i \in DOMAIN j.corpus.documents
  PROVE  token_count(j, i) = WordsIn(j.corpus.documents, {i}) /\ token_count(j, i) \in Nat
<1>1. j.corpus.documents[i].text \in Text
  BY DEF DocumentsOK
<1>2. token_count(j, i) = TokenCount[j.corpus.documents[i].text]
  BY DEF token_count
<1> QED  BY <1>1, <1>2, WordsOfOne, TokenCountType

LEMMA AllWords ==
  ASSUME NEW documents, DocumentsOK(documents)
  PROVE  /\ TokensTotal(documents) = WordsIn(documents, DOMAIN documents)
         /\ Len(documents) = Cardinality(DOMAIN documents)
<1>1. TokensTotal(documents) = WordsIn(documents, DOMAIN documents)
  BY Zenon DEF TokensTotal, WordsIn
<1>2. Len(documents) \in Nat /\ DOMAIN documents = 1..Len(documents)
  BY DEF DocumentsOK, IsSequence
<1>3. Cardinality(1..Len(documents)) = IF 1 > Len(documents) THEN 0 ELSE Len(documents) - 1 + 1
  BY <1>2, FS_Interval
<1> QED  BY <1>1, <1>2, <1>3

Stretch(S, inputs, from, to) ==
  LET wave == SubSeq(inputs, from, to)
  IN /\ wave \in Seq(S) /\ Len(wave) = to + 1 - from /\ DOMAIN wave = 1..Len(wave)
     /\ \A n \in 1..Len(wave) : wave[n] = inputs[from + n - 1]

LEMMA StretchOf ==
  ASSUME NEW S, NEW inputs \in Seq(S), NEW from \in Nat, from >= 1,
         NEW to \in (from - 1)..Len(inputs)
  PROVE  Stretch(S, inputs, from, to)
<1> DEFINE wave == SubSeq(inputs, from, to)
<1>1. Len(wave) = to + 1 - from
  OBVIOUS
<1>2. \A n \in 1..Len(wave) : wave[n] = inputs[from + n - 1]
  BY <1>1
<1>3. wave \in Seq(S) /\ DOMAIN wave = 1..Len(wave)
  OBVIOUS
<1> QED  BY <1>1, <1>2, <1>3 DEF Stretch

LEMMA EmptyOrLonger ==
  ASSUME NEW S, NEW s \in Seq(S)
  PROVE  s = <<>> <=> Len(s) = 0
  OBVIOUS

(* The wave of a build that annotates, by its first input. *)
LEMMA WaveOf ==
  ASSUME NEW j, NEW from \in 1..Len(j.inputs) + 1, IsSequence(j.inputs),
         j.next \in from..Len(j.inputs) + 1, j.wave = SubSeq(j.inputs, from, j.next - 1)
  PROVE  /\ from \in Nat /\ Len(j.inputs) \in Nat /\ j.next \in Nat
         /\ Len(j.wave) = j.next - from
         /\ j.wave = <<>> <=> j.next = from
         /\ \A n \in 1..Len(j.wave) : j.wave[n] = j.inputs[from + n - 1]
         /\ DOMAIN j.wave = 1..Len(j.wave)
<1>1. Len(j.inputs) \in Nat /\ j.inputs \in Seq(Range(j.inputs))
  BY DEF IsSequence
<1>2. from \in Nat /\ j.next \in Nat /\ j.next - 1 \in (from - 1)..Len(j.inputs)
  BY <1>1
<1>3. /\ Len(j.wave) = j.next - from
      /\ \A n \in 1..Len(j.wave) : j.wave[n] = j.inputs[from + n - 1]
      /\ DOMAIN j.wave = 1..Len(j.wave)
      /\ j.wave \in Seq(Range(j.inputs))
  <2> DEFINE S == Range(j.inputs)
             inputs == j.inputs
             to == j.next - 1
  <2>1. inputs \in Seq(S) /\ from \in Nat /\ from >= 1 /\ to \in (from - 1)..Len(inputs)
    BY <1>1, <1>2
  <2>2. j.wave = SubSeq(inputs, from, to) /\ j.next = to + 1
    BY <1>2
  <2> HIDE DEF S, inputs, to
  <2>3. Stretch(S, inputs, from, to)
    BY <2>1, StretchOf
  <2> QED  BY <1>2, <2>1, <2>2, <2>3 DEF Stretch, S, inputs
<1>4. j.wave = <<>> <=> Len(j.wave) = 0
  <2> DEFINE S == Range(j.inputs)
             wave == j.wave
  <2>1. wave \in Seq(S)
    BY <1>3
  <2> HIDE DEF S, wave
  <2>2. wave = <<>> <=> Len(wave) = 0
    BY <2>1, EmptyOrLonger
  <2> QED  BY <2>2 DEF wave
<1>5. Len(j.wave) = 0 <=> j.next = from
  BY <1>2, <1>3
<1> QED  BY <1>1, <1>2, <1>3, <1>4, <1>5

(* After a wave, or at the start, the next one is staged. *)
LEMMA NextWave ==
  ASSUME NEW j, IsJob(j), j.phase = "annotating", Counted(j), Ahead(j, j.next),
         j.credited = 0, j.segment = 0
  PROVE  JobOK(WithNextWave(j))
<1> DEFINE wave == Staged(j.inputs, j.next)
           k == [j EXCEPT !.wave = wave, !.next = j.next + Len(wave)]
<1>1. /\ IsJob(k)
      /\ k.phase = j.phase /\ k.corpus = j.corpus
      /\ k.done = j.done /\ k.inputs = j.inputs /\ k.next = j.next + Len(wave)
      /\ k.wave = wave /\ k.segment = j.segment /\ k.credited = j.credited
      /\ k.docs_done = j.docs_done /\ k.tokens_done = j.tokens_done
  BY DEF IsJob
<1>2. WithNextWave(j) = k
  BY Zenon DEF WithNextWave
<1>3. /\ IsSequence(j.inputs) /\ InputsOK(j.inputs, j.corpus.documents)
      /\ j.next \in 1..Len(j.inputs) + 1
  BY DEF Ahead, InputsOK
<1>4. PICK last \in (j.next - 1)..Len(j.inputs) :
        /\ wave = SubSeq(j.inputs, j.next, last)
        /\ j.next <= Len(j.inputs) => j.next <= last
  BY <1>3, StagedInputs
<1> HIDE DEF k, wave
<1>5. Len(j.inputs) \in Nat /\ j.next \in Nat /\ j.inputs \in Seq(Range(j.inputs))
  BY <1>3 DEF IsSequence
<1>6. Len(wave) = last - j.next + 1
  BY <1>4, <1>5
<1>7. /\ k.next = last + 1 /\ k.next \in j.next..Len(k.inputs) + 1 /\ k.next - 1 = last
      /\ j.next <= Len(k.inputs) => j.next < k.next
  <2>1. last \in Int /\ j.next - 1 <= last /\ last <= Len(j.inputs)
    BY <1>4, <1>5
  <2>2. k.next = j.next + (last - j.next + 1) /\ k.inputs = j.inputs
    BY <1>1, <1>6
  <2>3. k.next = last + 1
    BY <1>5, <2>1, <2>2
  <2>4. k.next - 1 = last /\ k.next \in j.next..Len(j.inputs) + 1
    BY <1>5, <2>1, <2>3
  <2>5. j.next <= Len(j.inputs) => j.next < k.next
    <3>1. j.next <= Len(j.inputs) => j.next <= last
      BY <1>4
    <3> QED  BY <1>5, <2>1, <2>3, <3>1
  <2> QED  BY <2>2, <2>3, <2>4, <2>5
<1>8. Counted(k)
  BY <1>1 DEF Counted
<1>9. Ahead(k, j.next)
  <2>1. Remaining(k, j.next) = Remaining(j, j.next)
    BY <1>1, Zenon DEF Remaining
  <2> QED  BY <1>1, <2>1 DEF Ahead
<1>10. k.wave = SubSeq(k.inputs, j.next, k.next - 1)
  BY <1>1, <1>4, <1>7
<1>11. Segmented(k.wave) => InSegments(k)
  <2> SUFFICES ASSUME Segmented(k.wave) PROVE InSegments(k)
    OBVIOUS
  <2>1. Len(k.wave) = 1 /\ StagedWeight(k.wave[1].text) > TokenBudget
    BY DEF Segmented
  <2>2. j.next \in 1..Len(j.inputs) /\ k.wave[1] = j.inputs[j.next]
    <3>1. j.next \in 1..Len(k.inputs) + 1
      BY <1>1, <1>3
    <3>2. /\ Len(k.wave) = k.next - j.next
          /\ \A n \in 1..Len(k.wave) : k.wave[n] = k.inputs[j.next + n - 1]
      BY <1>1, <1>3, <1>7, <1>10, <3>1, WaveOf
    <3>3. k.wave[1] = k.inputs[j.next + 1 - 1]
      BY <2>1, <3>2
    <3>4. j.next + 1 - 1 = j.next
      BY <1>5
    <3>5. last \in Int
      BY <1>4, <1>5
    <3>6. k.next = last + 1
      BY <1>7
    <3>7. 1 = k.next - j.next
      BY <2>1, <3>2
    <3>8. last = j.next
      BY <1>5, <3>5, <3>6, <3>7
    <3>9. j.next \in 1..Len(j.inputs)
      BY <1>3, <1>5, <3>8
    <3> QED  BY <1>1, <3>3, <3>4, <3>9
  <2>3. k.wave[1].text \in Text /\ k.wave[1].index \in DOMAIN k.corpus.documents
    BY <1>1, <1>3, <2>2 DEF InputsOK
  <2>4. DocumentsOK(k.corpus.documents)
    BY <1>8 DEF Counted
  <2>5. token_count(k, k.wave[1].index) \in Nat
    BY <2>3, <2>4, WordsOfDocument
  <2>6. Len(Segments[k.wave[1].text]) \in Nat \ {0}
    BY <2>1, <2>3, SegmentsOfLong
  <2> QED  BY <1>1, <2>5, <2>6 DEF InSegments
<1>12. Annotating(k)
  <2>1. j.next \in 1..Len(k.inputs) + 1
    BY <1>1, <1>3
  <2> QED  BY <1>1, <1>7, <1>8, <1>9, <1>10, <1>11, <2>1 DEF Annotating
<1>13. JobOK(k)
  BY <1>1, <1>12 DEF JobOK
<1> QED  BY <1>2, <1>13

(* The words credited are those of the documents done and, of the one in   *)
(* segments, no more than it has.                                          *)
LEMMA CreditOfAnnotating ==
  ASSUME NEW j, Annotating(j)
  PROVE  /\ j.tokens_done <= TokensTotal(j.corpus.documents)
         /\ j.docs_done <= Len(j.corpus.documents)
         /\ j.wave = <<>> => /\ j.tokens_done = TokensTotal(j.corpus.documents)
                             /\ j.docs_done = Len(j.corpus.documents)
<1>1. PICK from \in 1..Len(j.inputs) + 1 :
        /\ Counted(j) /\ Ahead(j, from)
        /\ j.next \in from..Len(j.inputs) + 1
        /\ j.wave = SubSeq(j.inputs, from, j.next - 1)
        /\ from <= Len(j.inputs) => from < j.next
        /\ IF Segmented(j.wave) THEN InSegments(j) ELSE j.credited = 0 /\ j.segment = 0
  BY DEF Annotating
<1> DEFINE documents == j.corpus.documents
           all == DOMAIN documents
           done == DOMAIN j.done
           rest == Remaining(j, from)
<1>2. /\ DocumentsOK(documents)
      /\ done \subseteq all /\ rest \subseteq all /\ done \cup rest = all /\ done \cap rest = {}
      /\ j.docs_done = Cardinality(done) /\ j.credited \in Nat
      /\ j.tokens_done = WordsIn(documents, done) + j.credited
  BY <1>1 DEF Counted, Ahead
<1>3. /\ IsSequence(j.inputs) /\ InputsOK(j.inputs, documents)
  BY <1>1 DEF Ahead, InputsOK
<1>4. /\ from \in Nat /\ Len(j.inputs) \in Nat /\ j.next \in Nat
      /\ Len(j.wave) = j.next - from
      /\ j.wave = <<>> <=> j.next = from
      /\ \A n \in 1..Len(j.wave) : j.wave[n] = j.inputs[from + n - 1]
  BY <1>1, <1>3, WaveOf
<1>5. rest = {j.inputs[n].index : n \in from..Len(j.inputs)}
  BY Zenon DEF Remaining
<1> HIDE DEF documents, all, done, rest
<1>6. /\ IsFiniteSet(done) /\ Cardinality(done) \in Nat
      /\ TextsOf(documents, done) /\ WordsIn(documents, done) \in Nat
  BY <1>2, SomeDocuments DEF all
<1>7. /\ IsFiniteSet(rest) /\ Cardinality(rest) \in Nat
      /\ TextsOf(documents, rest) /\ WordsIn(documents, rest) \in Nat
  BY <1>2, SomeDocuments DEF all
<1>8. TokensTotal(documents) = WordsIn(documents, done) + WordsIn(documents, rest)
  BY <1>2, <1>6, <1>7, WordsAddUp, AllWords DEF all
<1>9. Len(documents) = Cardinality(done) + Cardinality(rest)
  <2>1. Cardinality(all) = Cardinality(done) + Cardinality(rest) - Cardinality(done \cap rest)
    BY <1>2, <1>6, <1>7, FS_Union
  <2>2. Cardinality(done \cap rest) = 0
    BY <1>2, FS_EmptySet
  <2>3. Len(documents) = Cardinality(all)
    BY <1>2, AllWords DEF all
  <2> QED  BY <1>6, <1>7, <2>1, <2>2, <2>3
<1>10. j.credited <= WordsIn(documents, rest)
  <2>1. CASE Segmented(j.wave)
    <3>1. Len(j.wave) = 1 /\ InSegments(j)
      BY <1>1, <2>1 DEF Segmented
    <3>2. from + 1 - 1 = from /\ from \in from..Len(j.inputs)
      <4>1. 1 = j.next - from
        BY <1>4, <3>1
      <4>2. j.next <= Len(j.inputs) + 1
        BY <1>1, <1>4
      <4> QED  BY <1>4, <4>1, <4>2
    <3>3. j.wave[1] = j.inputs[from]
      BY <1>4, <3>1, <3>2
    <3>4. j.wave[1].index \in rest
      BY <1>5, <3>2, <3>3
    <3>5. j.credited <= token_count(j, j.wave[1].index)
      BY <3>1 DEF InSegments
    <3>6. j.wave[1].index \in all
      BY <1>2, <3>4
    <3>7. /\ token_count(j, j.wave[1].index) = WordsIn(documents, {j.wave[1].index})
          /\ token_count(j, j.wave[1].index) \in Nat
      BY <1>2, <3>6, WordsOfDocument DEF documents, all
    <3>8. WordsIn(documents, {j.wave[1].index}) <= WordsIn(documents, rest)
      BY <1>7, <3>4, WordsOfPart
    <3> QED  BY <1>2, <1>7, <3>5, <3>7, <3>8
  <2>2. CASE ~ Segmented(j.wave)
    BY <1>1, <1>7, <2>2
  <2> QED  BY <2>1, <2>2
<1>11. ASSUME j.wave = <<>>
       PROVE  j.credited = 0 /\ WordsIn(documents, rest) = 0 /\ Cardinality(rest) = 0
  <2>1. j.next = from
    BY <1>4, <1>11
  <2>2. from = Len(j.inputs) + 1
    BY <1>1, <1>4, <2>1
  <2>3. rest = {}
    BY <1>4, <1>5, <2>2
  <2>4. WordsIn(documents, rest) = 0 /\ Cardinality(rest) = 0
    BY <2>3, WordsOfNone, FS_EmptySet
  <2> QED  BY <1>2, <1>10, <2>4
<1>12. TokensTotal(documents) \in Nat /\ Len(documents) \in Nat
  BY <1>6, <1>7, <1>8, <1>9
<1> QED  BY <1>2, <1>6, <1>7, <1>8, <1>9, <1>10, <1>11, <1>12 DEF documents

(* More documents are done: those of the inputs before the one given. *)
LEMMA MoreDone ==
  ASSUME NEW j, NEW k, Counted(j), NEW from, Ahead(j, from), NEW to \in from..Len(j.inputs) + 1,
         NEW indices, indices = {j.inputs[n].index : n \in from..to - 1},
         k.corpus = j.corpus, k.inputs = j.inputs,
         DOMAIN k.done = indices \cup DOMAIN j.done,
         k.docs_done = j.docs_done + Cardinality(indices),
         k.credited = 0,
         k.tokens_done = j.tokens_done - j.credited + WordsIn(j.corpus.documents, indices)
  PROVE  Counted(k) /\ Ahead(k, to)
<1> DEFINE documents == j.corpus.documents
           all == DOMAIN documents
           done == DOMAIN j.done
           rest == Remaining(k, to)
<1>1. /\ DocumentsOK(documents)
      /\ done \subseteq all
      /\ j.docs_done = Cardinality(done) /\ j.credited \in Nat
      /\ j.tokens_done = WordsIn(documents, done) + j.credited
  BY DEF Counted
<1>2. /\ InputsOK(j.inputs, documents) /\ IsSequence(j.inputs)
      /\ from \in 1..Len(j.inputs) + 1
      /\ done \cup Remaining(j, from) = all /\ done \cap Remaining(j, from) = {}
  BY DEF Ahead, InputsOK
<1>3. Len(j.inputs) \in Nat /\ from \in Nat /\ to \in Nat
  BY <1>2 DEF IsSequence
<1>4. rest = {j.inputs[n].index : n \in to..Len(j.inputs)}
  BY Zenon DEF Remaining
<1>5. Remaining(j, from) = {j.inputs[n].index : n \in from..Len(j.inputs)}
  BY Zenon DEF Remaining
<1>6. indices \cup rest = Remaining(j, from)
  <2> HIDE DEF rest
  <2>1. \A n : n \in from..Len(j.inputs) <=> n \in from..to - 1 \/ n \in to..Len(j.inputs)
    BY <1>2, <1>3
  <2> QED  BY <1>4, <1>5, <2>1, Zenon
<1>7. indices \cap rest = {}
  <2> HIDE DEF rest
  <2> SUFFICES ASSUME NEW m \in from..to - 1, NEW n \in to..Len(j.inputs),
                      j.inputs[m].index = j.inputs[n].index
               PROVE  FALSE
    BY <1>4
  <2>1. m \in 1..Len(j.inputs) /\ n \in 1..Len(j.inputs) /\ m # n
    BY <1>2, <1>3
  <2> QED  BY <1>2, <2>1 DEF InputsOK
<1> HIDE DEF documents, all, done, rest
<1>8. indices \subseteq all /\ indices \cap done = {}
  BY <1>2, <1>6
<1>9. /\ IsFiniteSet(done) /\ Cardinality(done) \in Nat
      /\ TextsOf(documents, done) /\ WordsIn(documents, done) \in Nat
  BY <1>1, SomeDocuments DEF all
<1>10. /\ IsFiniteSet(indices) /\ Cardinality(indices) \in Nat
       /\ TextsOf(documents, indices) /\ WordsIn(documents, indices) \in Nat
  BY <1>1, <1>8, SomeDocuments DEF all
<1>11. WordsIn(documents, indices \cup done) = WordsIn(documents, indices) + WordsIn(documents, done)
  BY <1>8, <1>9, <1>10, WordsAddUp
<1>12. Cardinality(indices \cup done) = Cardinality(indices) + Cardinality(done)
  <2>1. Cardinality(indices \cup done)
          = Cardinality(indices) + Cardinality(done) - Cardinality(indices \cap done)
    BY <1>9, <1>10, FS_Union
  <2>2. Cardinality(indices \cap done) = 0
    BY <1>8, FS_EmptySet
  <2> QED  BY <1>9, <1>10, <2>1, <2>2
<1>13. k.corpus.documents = documents /\ DOMAIN k.done = indices \cup done
  BY DEF documents, done
<1>14. Counted(k)
  <2>1. k.docs_done = Cardinality(indices \cup done)
    BY <1>1, <1>9, <1>10, <1>12
  <2>2. k.tokens_done = WordsIn(documents, indices \cup done)
    BY <1>1, <1>9, <1>10, <1>11 DEF documents
  <2>3. k.tokens_done = WordsIn(documents, indices \cup done) + k.credited /\ k.credited \in Nat
    BY <1>9, <1>10, <1>11, <2>2
  <2>4. indices \cup done \subseteq all
    BY <1>1, <1>8
  <2> QED  BY <1>1, <1>13, <2>1, <2>3, <2>4 DEF Counted, all
<1>15. Ahead(k, to)
  <2>1. to \in 1..Len(k.inputs) + 1
    BY <1>2, <1>3
  <2>2. DOMAIN k.done \cup rest = all /\ DOMAIN k.done \cap rest = {}
    BY <1>2, <1>6, <1>7, <1>13
  <2> QED  BY <1>2, <1>13, <2>1, <2>2 DEF Ahead, rest, all
<1> QED  BY <1>14, <1>15

(***************************************************************************)
(* The steps.                                                              *)
(***************************************************************************)
(* A step that only changes what one build knows. *)
LEMMA OneBuild ==
  ASSUME BuildInv, NEW b \in Builds, NEW value, JobOK(value), Set(b, value),
         source' = source, session' = session
  PROVE  BuildInv'
<1>1. build = [c \in Builds |-> build[c]] /\ \A c \in Builds : JobOK(build[c])
  BY DEF BuildInv
<1>2. build' = [build EXCEPT ![b] = value]
  BY DEF Set
<1>3. \A c \in Builds : build'[c] = IF c = b THEN value ELSE build[c]
  BY <1>1, <1>2
<1>4. build' = [c \in Builds |-> build'[c]]
  BY <1>1, <1>2
<1>5. \A c \in Builds : JobOK(build'[c])
  BY <1>1, <1>3
<1> QED  BY <1>4, <1>5 DEF BuildInv

LEMMA OneEnds ==
  ASSUME BuildInv, NEW b \in Builds, NEW outcome, End(b, outcome),
         source' = source, session' = session
  PROVE  BuildInv'
<1>1. Set(b, Ended(b, outcome))
  BY DEF End
<1>2. JobOK(Ended(b, outcome))
  BY BeforeAndAfter
<1> QED  BY <1>1, <1>2, OneBuild

LEMMA AscendingDocuments ==
  ASSUME NEW over, NEW selection, selection \subseteq Document, source \in [Document -> Text]
  PROVE  DocumentsOK(SurfaceCorpus(selection, over).documents)
<1> DEFINE S == {d \in selection : source[d] # Blank}
           usable == Ascending(S)
           documents == [i \in DOMAIN usable |->
             [path |-> usable[i], text |-> source[usable[i]],
              language |-> LanguageOf(source[usable[i]], over[usable[i]]),
              overridden |-> over[usable[i]] # NoLanguage]]
<1>1. SurfaceCorpus(selection, over) = [selection |-> selection, documents |-> documents]
  BY Zenon DEF SurfaceCorpus
<1>2. SurfaceCorpus(selection, over).documents = documents
  BY <1>1
<1>3. S \in SUBSET Document /\ S \subseteq Nat
  BY DocumentAssumption
<1> HIDE DEF S
<1>4. IsFiniteSet(S)
  BY <1>3, DocumentAssumption, FS_Subset
<1>5. Cardinality(S) \in Nat /\ usable \in [1..Cardinality(S) -> S]
  BY <1>3, <1>4, AscendingLists
<1> HIDE DEF usable
<1>6. DOMAIN documents = 1..Cardinality(S)
  BY <1>5
<1>7. ASSUME NEW i \in DOMAIN documents
      PROVE  documents[i].text \in Text /\ documents[i].path \in Document
  <2>1. usable[i] \in Document
    BY <1>3, <1>5, <1>6
  <2>2. documents[i].path = usable[i] /\ documents[i].text = source[usable[i]]
    BY <1>5, <1>6
  <2> QED  BY <2>1, <2>2
<1>8. \A i \in DOMAIN documents : documents[i] \in Range(documents)
  BY DEF Range
<1>9. documents = [i \in DOMAIN documents |-> documents[i]]
  OBVIOUS
<1> HIDE DEF documents
<1>10. documents \in Seq(Range(documents))
  BY <1>5, <1>6, <1>8, <1>9, SequenceOf
<1> QED  BY <1>2, <1>7, <1>10 DEF DocumentsOK, IsSequence

LEMMA SurfaceStep ==
  ASSUME BuildInv, NEW b \in Builds, BuildSurface(b)
  PROVE  BuildInv'
<1> DEFINE j == build[b]
           corpus == IF j.borrowed THEN j.corpus ELSE SurfaceCorpus(j.corpus.selection, j.over)
           manifest == Manifest(corpus, j.over)
           k == [j EXCEPT !.phase = "cache", !.corpus = corpus, !.manifest = manifest]
<1>1. /\ j.phase = "surface" /\ Set(b, k)
      /\ source' = source /\ session' = session
  BY Zenon DEF BuildSurface, Continues, At, worldVars
<1>2. IsJob(j) /\ Surfacing(j) /\ source \in [Document -> Text]
  BY <1>1 DEF BuildInv, JobOK
<1>3. DocumentsOK(corpus.documents)
  BY <1>2, AscendingDocuments DEF Surfacing
<1>4. manifest.documents = corpus.documents
  BY DEF Manifest
<1> HIDE DEF j, corpus, manifest
<1>5. IsJob(k) /\ k.phase = "cache" /\ k.corpus = corpus /\ k.manifest = manifest
      /\ k.next = j.next /\ k.credited = j.credited /\ k.segment = j.segment
  BY <1>2 DEF IsJob
<1> HIDE DEF k
<1>6. JobOK(k)
  BY <1>2, <1>3, <1>4, <1>5 DEF JobOK, Planning, Surfacing, Fresh
<1> QED  BY <1>1, <1>6, OneBuild

LEMMA CacheStep ==
  ASSUME BuildInv, NEW b \in Builds, LoadCache(b)
  PROVE  BuildInv'
<1>1. build[b].phase = "cache" /\ source' = source /\ session' = session
  BY DEF LoadCache, At, worldVars
<1>2. CASE End(b, "Reused")
  BY <1>1, <1>2, OneEnds
<1>3. CASE Set(b, [build[b] EXCEPT !.phase = "salvage"])
  <2> DEFINE j == build[b]
             k == [j EXCEPT !.phase = "salvage"]
  <2>1. IsJob(j) /\ Planning(j)
    BY <1>1 DEF BuildInv, JobOK
  <2> HIDE DEF j
  <2>2. IsJob(k) /\ k.phase = "salvage" /\ k.corpus = j.corpus /\ k.manifest = j.manifest
        /\ k.next = j.next /\ k.credited = j.credited /\ k.segment = j.segment
    BY <2>1 DEF IsJob
  <2>3. Set(b, k)
    BY <1>3 DEF j
  <2> HIDE DEF k
  <2>4. JobOK(k)
    BY <2>1, <2>2 DEF JobOK, Planning, Fresh
  <2> QED  BY <1>1, <2>3, <2>4, OneBuild
<1> QED  BY <1>2, <1>3 DEF LoadCache

LEMMA SalvageStep ==
  ASSUME BuildInv, NEW b \in Builds, Salvage(b)
  PROVE  BuildInv'
<1> DEFINE j == build[b]
           done == IF Readable THEN SalvagePlan(Parsed(final), j.manifest) ELSE <<>>
           words == SumOver([i \in DOMAIN done |-> token_count(j, i)])
           k == [j EXCEPT !.phase = "inputs", !.salvaging = Readable, !.done = done,
                          !.docs_done = Cardinality(DOMAIN done), !.tokens_done = words]
<1>1. j.phase = "salvage" /\ Set(b, k) /\ source' = source /\ session' = session
  BY Zenon DEF Salvage, Continues, At, worldVars
<1>2. IsJob(j) /\ Planning(j)
  BY <1>1 DEF BuildInv, JobOK
<1>3. DOMAIN done \subseteq DOMAIN j.corpus.documents
  <2>1. CASE Readable
    <3>1. done = SalvagePlan(Parsed(final), j.manifest)
      BY <2>1
    <3>2. DOMAIN SalvagePlan(Parsed(final), j.manifest) \subseteq DOMAIN j.manifest.documents
      BY DEF SalvagePlan
    <3> QED  BY <1>2, <3>1, <3>2 DEF Planning
  <2>2. CASE ~ Readable
    <3>1. done = <<>>
      BY <2>2
    <3> QED  BY <3>1
  <2> QED  BY <2>1, <2>2
<1> HIDE DEF done
<1>4. words = WordsIn(j.corpus.documents, DOMAIN done)
  BY Zenon DEF WordsIn, token_count
<1>5. WordsIn(j.corpus.documents, DOMAIN done) \in Nat
  BY <1>2, <1>3, SomeDocuments DEF Planning
<1> HIDE DEF j, words
<1>6. /\ IsJob(k) /\ k.phase = "inputs" /\ k.corpus = j.corpus /\ k.done = done
      /\ k.docs_done = Cardinality(DOMAIN done) /\ k.tokens_done = words
      /\ k.next = j.next /\ k.credited = j.credited /\ k.segment = j.segment
  BY <1>2 DEF IsJob
<1> HIDE DEF k
<1>7. Fresh(k) /\ k.credited = 0 /\ DocumentsOK(k.corpus.documents)
  BY <1>2, <1>6 DEF Planning, Fresh
<1>8. k.tokens_done = WordsIn(k.corpus.documents, DOMAIN k.done) + k.credited
  BY <1>4, <1>5, <1>6, <1>7
<1>9. Counted(k)
  BY <1>3, <1>6, <1>7, <1>8 DEF Counted
<1>10. JobOK(k)
  BY <1>6, <1>7, <1>9 DEF JobOK
<1> QED  BY <1>1, <1>10, OneBuild

LEMMA LoadStep ==
  ASSUME BuildInv, NEW b \in Builds, LoadInputs(b)
  PROVE  BuildInv'
<1> DEFINE j == build[b]
           k == [j EXCEPT !.phase = "annotating", !.inputs = Inputs(j)]
<1>1. j.phase = "inputs" /\ source' = source /\ session' = session
  BY DEF LoadInputs, Continues, At, worldVars
<1>2. IsJob(j) /\ Fresh(j) /\ Counted(j) /\ source \in [Document -> Text]
  BY <1>1 DEF BuildInv, JobOK
<1>3. Set(b, WithNextWave(k)) \/ End(b, "Failed")
  BY Zenon DEF LoadInputs
<1> HIDE DEF j
<1> DEFINE documents == j.corpus.documents
           T == ToAnnotate(j)
           indices == Ascending(T)
           inputs == [n \in DOMAIN indices |->
             LET document == documents[indices[n]] IN
             [index |-> indices[n], text |-> source[document.path], language |-> document.language]]
           n == Cardinality(T)
<1>4. Inputs(j) = inputs
  BY Zenon DEF Inputs
<1>5. T = DOMAIN documents \ DOMAIN j.done
  BY DEF ToAnnotate
<1>6. DocumentsOK(documents) /\ DOMAIN j.done \subseteq DOMAIN documents
  BY <1>2 DEF Counted
<1> HIDE DEF documents, T
<1>7. T \subseteq Nat /\ IsFiniteSet(T)
  <2>1. T \subseteq DOMAIN documents
    BY <1>5
  <2>2. DOMAIN documents \subseteq Nat
    BY <1>6 DEF DocumentsOK, IsSequence
  <2> QED  BY <1>6, <2>1, <2>2, SomeDocuments
<1>8. /\ n \in Nat /\ indices \in [1..n -> T]
      /\ \A x, y \in 1..n : indices[x] = indices[y] => x = y
      /\ \A d \in T : \E x \in 1..n : indices[x] = d
  BY <1>7, AscendingLists
<1> HIDE DEF indices, n
<1>9. DOMAIN inputs = 1..n
  BY <1>8
<1>10. ASSUME NEW x \in 1..n
       PROVE  inputs[x].index = indices[x] /\ inputs[x].text = source[documents[indices[x]].path]
  BY <1>8
<1>11. inputs \in Seq(Range(inputs)) /\ Len(inputs) = n
  <2>1. \A x \in 1..n : inputs[x] \in Range(inputs)
    BY <1>9 DEF Range
  <2>2. inputs = [x \in DOMAIN inputs |-> inputs[x]]
    OBVIOUS
  <2> HIDE DEF inputs
  <2>3. inputs \in Seq(Range(inputs))
    BY <1>8, <1>9, <2>1, <2>2, SequenceOf
  <2> QED  BY <1>8, <1>9, <2>3
<1> HIDE DEF inputs
<1>12. InputsOK(inputs, documents)
  <2>1. ASSUME NEW x \in 1..n
        PROVE  inputs[x].text \in Text /\ inputs[x].index \in DOMAIN documents
    <3>1. indices[x] \in DOMAIN documents
      BY <1>5, <1>8
    <3>2. documents[indices[x]].path \in Document
      BY <1>6, <3>1 DEF DocumentsOK
    <3> QED  BY <1>2, <1>10, <3>1, <3>2
  <2>2. \A x, y \in 1..n : inputs[x].index = inputs[y].index => x = y
    BY <1>8, <1>10
  <2> QED  BY <1>11, <2>1, <2>2 DEF InputsOK, IsSequence
<1>13. /\ IsJob(k) /\ k.phase = "annotating" /\ k.corpus = j.corpus /\ k.done = j.done
       /\ k.inputs = inputs /\ k.docs_done = j.docs_done /\ k.tokens_done = j.tokens_done
       /\ k.next = j.next /\ k.credited = j.credited /\ k.segment = j.segment
  BY <1>2, <1>4 DEF IsJob
<1> HIDE DEF k
<1>14. Counted(k) /\ k.next = 1 /\ k.credited = 0 /\ k.segment = 0
  BY <1>2, <1>13 DEF Counted, Fresh
<1>15. Remaining(k, 1) = T
  <2>1. Remaining(k, 1) = {inputs[x].index : x \in 1..n}
    BY <1>11, <1>13, Zenon DEF Remaining
  <2>2. \A x \in 1..n : inputs[x].index \in T
    BY <1>8, <1>10
  <2>3. \A d \in T : \E x \in 1..n : inputs[x].index = d
    BY <1>8, <1>10
  <2> QED  BY <2>1, <2>2, <2>3
<1>16. Ahead(k, k.next)
  <2>1. 1 \in 1..Len(k.inputs) + 1
    BY <1>8, <1>11, <1>13
  <2>2. DOMAIN j.done \cup T = DOMAIN documents /\ DOMAIN j.done \cap T = {}
    BY <1>5, <1>6
  <2>3. k.corpus.documents = documents
    BY <1>13 DEF documents
  <2> QED  BY <1>12, <1>13, <1>14, <1>15, <2>1, <2>2, <2>3 DEF Ahead
<1>17. JobOK(WithNextWave(k))
  BY <1>13, <1>14, <1>16, NextWave
<1>18. CASE Set(b, WithNextWave(k))
  BY <1>1, <1>17, <1>18, OneBuild
<1>19. CASE End(b, "Failed")
  BY <1>1, <1>19, OneEnds
<1> QED  BY <1>3, <1>18, <1>19

LEMMA WaveStep ==
  ASSUME BuildInv, NEW b \in Builds, AnnotateWave(b)
  PROVE  BuildInv'
<1> DEFINE j == build[b]
           input(i) == CHOOSE x \in Range(j.wave) : x.index = i
           indices == {x.index : x \in Range(j.wave)}
           counts == [i \in indices \cup DOMAIN j.done |->
                        IF i \in indices
                        THEN ByTermId(CountsOfInput(input(i)), j.manifest.terms) ELSE j.done[i]]
           words == SumOver([i \in indices |-> token_count(j, i)])
           k == [j EXCEPT !.done = counts, !.docs_done = j.docs_done + Cardinality(indices),
                          !.tokens_done = j.tokens_done + words]
<1>1. /\ j.phase = "annotating" /\ ~ Segmented(j.wave)
      /\ source' = source /\ session' = session
  BY DEF AnnotateWave, Continues, At, worldVars
<1>2. IsJob(j) /\ Annotating(j)
  BY <1>1 DEF BuildInv, JobOK
<1>3. Set(b, WithNextWave(k)) \/ End(b, "Failed")
  BY Zenon DEF AnnotateWave
<1>4. DOMAIN counts = indices \cup DOMAIN j.done
  OBVIOUS
<1> HIDE DEF j, counts
<1>5. PICK from \in 1..Len(j.inputs) + 1 :
        /\ Counted(j) /\ Ahead(j, from)
        /\ j.next \in from..Len(j.inputs) + 1
        /\ j.wave = SubSeq(j.inputs, from, j.next - 1)
        /\ j.credited = 0 /\ j.segment = 0
  BY <1>1, <1>2 DEF Annotating
<1>6. words = WordsIn(j.corpus.documents, indices)
  BY Zenon DEF WordsIn, token_count
<1>7. indices = {j.inputs[n].index : n \in from..j.next - 1}
  <2>1. IsSequence(j.inputs)
    BY <1>5 DEF Ahead, InputsOK
  <2>2. /\ from \in Nat /\ j.next \in Nat /\ Len(j.wave) = j.next - from
        /\ \A n \in 1..Len(j.wave) : j.wave[n] = j.inputs[from + n - 1]
        /\ DOMAIN j.wave = 1..Len(j.wave)
    BY <1>5, <2>1, WaveOf
  <2>3. indices = {j.wave[n].index : n \in 1..Len(j.wave)}
    BY <2>2 DEF Range
  <2>4. ASSUME NEW n \in 1..Len(j.wave)
        PROVE  from + n - 1 \in from..j.next - 1 /\ j.wave[n].index = j.inputs[from + n - 1].index
    BY <2>2
  <2> DEFINE ahead == {j.inputs[n].index : n \in from..j.next - 1}
  <2>5. ASSUME NEW n \in 1..Len(j.wave) PROVE j.wave[n].index \in ahead
    BY <2>4
  <2>6. ASSUME NEW n \in from..j.next - 1 PROVE j.inputs[n].index \in indices
    <3>1. n - from + 1 \in 1..Len(j.wave) /\ from + (n - from + 1) - 1 = n
      BY <2>2
    <3>2. j.wave[n - from + 1].index = j.inputs[n].index
      BY <2>4, <3>1
    <3> QED  BY <2>3, <3>1, <3>2
  <2>7. indices \subseteq ahead
    BY <2>3, <2>5
  <2>8. ahead \subseteq indices
    BY <2>6
  <2> QED  BY <2>7, <2>8
<1> HIDE DEF indices, words
<1>8. /\ IsJob(k) /\ k.phase = j.phase /\ k.corpus = j.corpus /\ k.inputs = j.inputs
      /\ k.done = counts /\ k.next = j.next
      /\ k.credited = j.credited /\ k.segment = j.segment
      /\ k.docs_done = j.docs_done + Cardinality(indices) /\ k.tokens_done = j.tokens_done + words
  BY <1>2 DEF IsJob
<1> HIDE DEF k
<1>9. DOMAIN k.done = indices \cup DOMAIN j.done
  BY <1>4, <1>8
<1>10. k.tokens_done = j.tokens_done - j.credited + WordsIn(j.corpus.documents, indices)
  <2>1. j.tokens_done \in Nat
    <3>1. /\ WordsIn(j.corpus.documents, DOMAIN j.done) \in Nat
      BY <1>5, SomeDocuments DEF Counted
    <3> QED  BY <1>5, <3>1 DEF Counted
  <2> QED  BY <1>5, <1>6, <1>8, <2>1
<1>11. Counted(k) /\ Ahead(k, k.next)
  <2>1. Counted(k) /\ Ahead(k, j.next)
    BY <1>5, <1>7, <1>8, <1>9, <1>10, MoreDone
  <2> QED  BY <1>8, <2>1
<1>12. JobOK(WithNextWave(k))
  BY <1>1, <1>5, <1>8, <1>11, NextWave
<1>13. CASE Set(b, WithNextWave(k))
  BY <1>1, <1>12, <1>13, OneBuild
<1>14. CASE End(b, "Failed")
  BY <1>1, <1>14, OneEnds
<1> QED  BY <1>3, <1>13, <1>14

LEMMA SegmentsStep ==
  ASSUME BuildInv, NEW b \in Builds, AnnotateSegment(b)
  PROVE  BuildInv'
<1> DEFINE j == build[b]
           input == j.wave[1]
           words == token_count(j, input.index)
           stretch == Segments[input.text][j.segment + 1]
           counts == CountsOf[version][input.language][input.text][stretch]
           credit == proportional_segment_token_credit(words, Len(TokensOf[input.text]),
                       Chunks[input.text][stretch.last].last, j.credited)
           more == [j EXCEPT !.segment = j.segment + 1, !.partial = Plus(j.partial, counts),
                             !.credited = j.credited + credit,
                             !.tokens_done = j.tokens_done + credit]
           done == [i \in {input.index} \cup DOMAIN j.done |->
                      IF i = input.index
                      THEN ByTermId(Plus(j.partial, counts), j.manifest.terms) ELSE j.done[i]]
           whole == [j EXCEPT !.segment = 0, !.partial = NoCounts, !.credited = 0, !.done = done,
                              !.docs_done = j.docs_done + 1,
                              !.tokens_done = j.tokens_done + Max({words - j.credited, 0})]
<1>1. /\ j.phase = "annotating" /\ Segmented(j.wave)
      /\ source' = source /\ session' = session
  BY DEF AnnotateSegment, Continues, At, worldVars
<1>2. IsJob(j) /\ Annotating(j)
  BY <1>1 DEF BuildInv, JobOK
<1>3. \/ End(b, "Failed")
      \/ j.segment + 1 < Len(Segments[input.text]) /\ Set(b, more)
      \/ Set(b, WithNextWave(whole))
  BY Zenon DEF AnnotateSegment
<1>4. DOMAIN done = {input.index} \cup DOMAIN j.done
  OBVIOUS
<1> HIDE DEF j, done
<1>5. PICK from \in 1..Len(j.inputs) + 1 :
        /\ Counted(j) /\ Ahead(j, from)
        /\ j.next \in from..Len(j.inputs) + 1
        /\ j.wave = SubSeq(j.inputs, from, j.next - 1)
        /\ from <= Len(j.inputs) => from < j.next
        /\ InSegments(j)
  BY <1>1, <1>2 DEF Annotating
<1>6. IsSequence(j.inputs) /\ InputsOK(j.inputs, j.corpus.documents)
  BY <1>5 DEF Ahead, InputsOK
<1>7. Len(j.wave) = 1 /\ StagedWeight(input.text) > TokenBudget
  BY <1>1 DEF Segmented
<1>8. /\ from \in Nat /\ Len(j.inputs) \in Nat /\ j.next \in Nat
      /\ Len(j.wave) = j.next - from
      /\ \A n \in 1..Len(j.wave) : j.wave[n] = j.inputs[from + n - 1]
  BY <1>5, <1>6, WaveOf
<1>9. j.next = from + 1
  <2>1. 1 = j.next - from
    BY <1>7, <1>8
  <2> QED  BY <1>8, <2>1
<1>10. from \in 1..Len(j.inputs) /\ input = j.inputs[from]
  <2>1. j.wave[1] = j.inputs[from + 1 - 1]
    BY <1>7, <1>8
  <2>2. from + 1 - 1 = from
    BY <1>8
  <2>3. j.next <= Len(j.inputs) + 1
    BY <1>5, <1>8
  <2>4. from \in 1..Len(j.inputs)
    BY <1>5, <1>8, <1>9, <2>3
  <2> QED  BY <2>1, <2>2, <2>4
<1>11. input.text \in Text /\ input.index \in DOMAIN j.corpus.documents
  BY <1>6, <1>10 DEF InputsOK
<1>12. /\ words \in Nat /\ words = WordsIn(j.corpus.documents, {input.index})
  BY <1>5, <1>11, WordsOfDocument DEF Counted
<1>13. /\ j.segment \in Nat /\ j.segment < Len(Segments[input.text])
       /\ j.credited \in Nat /\ j.credited <= words
  BY <1>5 DEF InSegments, Counted
<1>14. j.tokens_done \in Nat
  <2>1. WordsIn(j.corpus.documents, DOMAIN j.done) \in Nat
    BY <1>5, SomeDocuments DEF Counted
  <2> QED  BY <1>5, <1>13, <2>1 DEF Counted
<1>15. credit \in Nat /\ j.credited + credit <= words
  <2>1. Len(Segments[input.text]) \in Nat
    BY <1>7, <1>11, SegmentsOfLong
  <2>2. j.segment + 1 \in 1..Len(Segments[input.text])
    BY <1>13, <2>1
  <2>3. Chunks[input.text][stretch.last].last \in Nat
    BY <1>7, <1>11, <2>2, SegmentsOfLong
  <2>4. Len(TokensOf[input.text]) \in Nat
    BY <1>11, TokensAssumption
  <2>5. j.credited \in 0..words
    BY <1>12, <1>13
  <2> HIDE DEF words, stretch, input
  <2> QED  BY <1>12, <2>3, <2>4, <2>5, CreditWithinWords
<1> HIDE DEF words, credit, stretch, counts, input
<1>16. CASE j.segment + 1 < Len(Segments[input.text]) /\ Set(b, more)
  <2> DEFINE k == more
  <2>1. /\ IsJob(k) /\ k.phase = j.phase /\ k.corpus = j.corpus /\ k.inputs = j.inputs
        /\ k.done = j.done /\ k.next = j.next /\ k.wave = j.wave
        /\ k.credited = j.credited + credit /\ k.segment = j.segment + 1
        /\ k.docs_done = j.docs_done /\ k.tokens_done = j.tokens_done + credit
    BY <1>2 DEF IsJob
  <2> HIDE DEF k
  <2>2. Counted(k)
    <3>1. WordsIn(j.corpus.documents, DOMAIN j.done) \in Nat
      BY <1>5, SomeDocuments DEF Counted
    <3>2. k.tokens_done = WordsIn(j.corpus.documents, DOMAIN j.done) + k.credited
      BY <1>5, <1>13, <1>15, <2>1, <3>1 DEF Counted
    <3>3. k.credited \in Nat
      BY <1>13, <1>15, <2>1
    <3> QED  BY <1>5, <2>1, <3>2, <3>3 DEF Counted
  <2>3. Ahead(k, from)
    <3>1. Remaining(k, from) = Remaining(j, from)
      BY <2>1, Zenon DEF Remaining
    <3> QED  BY <1>5, <2>1, <3>1 DEF Ahead
  <2>4. InSegments(k)
    <3>1. k.wave[1] = input /\ token_count(k, input.index) = words
      BY <2>1 DEF token_count, words, input
    <3>2. k.segment \in Nat
      BY <1>13, <2>1
    <3> QED  BY <1>15, <1>16, <2>1, <3>1, <3>2 DEF InSegments
  <2>5. Annotating(k)
    <3>1. /\ from \in 1..Len(k.inputs) + 1 /\ k.next \in from..Len(k.inputs) + 1
          /\ k.wave = SubSeq(k.inputs, from, k.next - 1)
          /\ from <= Len(k.inputs) => from < k.next
          /\ Segmented(k.wave)
      BY <1>1, <1>5, <2>1
    <3> QED  BY <2>2, <2>3, <2>4, <3>1 DEF Annotating
  <2>6. JobOK(k)
    BY <1>1, <2>1, <2>5 DEF JobOK
  <2>7. Set(b, k)
    BY <1>16 DEF k
  <2> QED  BY <1>1, <2>6, <2>7, OneBuild
<1>17. CASE Set(b, WithNextWave(whole))
  <2> DEFINE k == whole
             indices == {input.index}
             missing == Max({words - j.credited, 0})
  <2>1. missing = words - j.credited
    <3>1. words - j.credited \in Nat
      BY <1>12, <1>13
    <3> QED  BY <3>1, GreaterOf
  <2> HIDE DEF missing
  <2>2. /\ IsJob(k) /\ k.phase = j.phase /\ k.corpus = j.corpus /\ k.inputs = j.inputs
        /\ k.done = done /\ k.next = j.next /\ k.credited = 0 /\ k.segment = 0
        /\ k.docs_done = j.docs_done + 1 /\ k.tokens_done = j.tokens_done + missing
    BY <1>2 DEF IsJob, missing
  <2> HIDE DEF k
  <2>3. k.docs_done = j.docs_done + Cardinality(indices)
    BY <2>2, FS_Singleton
  <2>4. k.tokens_done = j.tokens_done - j.credited + WordsIn(j.corpus.documents, indices)
    BY <1>12, <1>13, <1>14, <2>1, <2>2
  <2>5. indices = {j.inputs[n].index : n \in from..j.next - 1}
    <3>1. from..j.next - 1 = {from}
      BY <1>8, <1>9
    <3> QED  BY <1>10, <3>1
  <2>6. DOMAIN k.done = indices \cup DOMAIN j.done
    BY <1>4, <2>2
  <2> HIDE DEF indices
  <2>7. Counted(k) /\ Ahead(k, j.next)
    BY <1>5, <2>2, <2>3, <2>4, <2>5, <2>6, MoreDone
  <2>8. JobOK(WithNextWave(k))
    BY <1>1, <2>2, <2>7, NextWave
  <2>9. Set(b, WithNextWave(k))
    BY <1>17 DEF k
  <2> QED  BY <1>1, <2>8, <2>9, OneBuild
<1>18. CASE End(b, "Failed")
  BY <1>1, <1>18, OneEnds
<1> QED  BY <1>3, <1>16, <1>17, <1>18

LEMMA BeginStep ==
  ASSUME BuildInv, NEW b \in Builds, NEW selection \in Selections, Begin(b, selection)
  PROVE  BuildInv'
<1> DEFINE reusable == Reusable(session, selection, override)
           over == [d \in selection |-> override[d]]
           corpus == [selection |-> selection,
                      documents |-> IF reusable THEN session.documents ELSE <<>>]
           k == [NotBegun EXCEPT !.phase = "surface", !.over = over, !.borrowed = reusable,
                                 !.corpus = corpus]
           others(c) == IF c = current THEN [build[c] EXCEPT !.cancel = TRUE] ELSE build[c]
<1>1. /\ build' = [c \in Builds |-> IF c = b THEN k ELSE others(c)]
      /\ source' = source /\ session' = session
  BY Zenon DEF Begin, worldVars
<1>2. selection \subseteq Document
  BY DEF Selections
<1>3. corpus.selection = selection /\ (reusable => corpus.documents = session.documents)
  OBVIOUS
<1>4. IsJob(NotBegun) /\ NotBegun.next = 1 /\ NotBegun.credited = 0 /\ NotBegun.segment = 0
  BY DEF IsJob, NotBegun
<1> HIDE DEF reusable, over, corpus
<1>5. IsJob(k) /\ k.phase = "surface" /\ k.borrowed = reusable /\ k.corpus = corpus
      /\ k.next = 1 /\ k.credited = 0 /\ k.segment = 0
  BY <1>4 DEF IsJob
<1> HIDE DEF k
<1>6. JobOK(k)
  <2>1. k.borrowed => DocumentsOK(k.corpus.documents)
    BY <1>3, <1>5 DEF BuildInv
  <2> QED  BY <1>2, <1>3, <1>5, <2>1 DEF JobOK, Surfacing, Fresh
<1>7. \A c \in Builds : JobOK(others(c))
  BY CancelKeeps DEF BuildInv
<1> HIDE DEF others
<1>8. \A c \in Builds : JobOK(build'[c])
  BY <1>1, <1>6, <1>7
<1>9. build' = [c \in Builds |-> build'[c]]
  BY <1>1
<1> QED  BY <1>1, <1>8, <1>9 DEF BuildInv

LEMMA CancelStep ==
  ASSUME BuildInv, CancelCurrent
  PROVE  BuildInv'
<1> DEFINE k == [build[current] EXCEPT !.cancel = TRUE]
<1>1. Set(current, k) /\ source' = source /\ session' = session
  BY DEF CancelCurrent, worldVars
<1>2. CASE current \in Builds
  <2>1. JobOK(k)
    BY <1>2, CancelKeeps DEF BuildInv
  <2> HIDE DEF k
  <2> QED  BY <1>1, <1>2, <2>1, OneBuild
<1>3. CASE current \notin Builds
  <2>1. build = [b \in Builds |-> build[b]]
    BY DEF BuildInv
  <2> HIDE DEF k
  <2>2. build' = build
    BY <1>1, <1>3, <2>1 DEF Set
  <2> QED  BY <1>1, <2>2 DEF BuildInv
<1> QED  BY <1>2, <1>3

LEMMA RestartStep ==
  ASSUME BuildInv, NEW v, Restart(v)
  PROVE  BuildInv'
<1> DEFINE kept(b) == IF build[b].phase \in {"not begun", "ended"} THEN build[b]
                      ELSE Ended(b, "Lost")
<1>1. build' = [b \in Builds |-> kept(b)] /\ source' = source /\ session' = NoCorpus
  BY Zenon DEF Restart
<1>2. DocumentsOK(NoCorpus.documents)
  BY DEF DocumentsOK, IsSequence, NoCorpus
<1>3. \A b \in Builds : JobOK(kept(b))
  BY BeforeAndAfter DEF BuildInv
<1> HIDE DEF kept
<1>4. (\A b \in Builds : JobOK(build'[b])) /\ build' = [b \in Builds |-> build'[b]]
  BY <1>1, <1>3
<1> QED  BY <1>1, <1>2, <1>4 DEF BuildInv

LEMMA BuildInvInit == Init => BuildInv
<1> SUFFICES ASSUME Init PROVE BuildInv
  OBVIOUS
<1>1. source \in [Document -> Text] /\ build = [b \in Builds |-> NotBegun]
  BY DEF Init
<1>2. DocumentsOK(session.documents)
  <2>1. CASE session = NoCorpus
    BY <2>1 DEF DocumentsOK, IsSequence, NoCorpus
  <2>2. CASE session \in {SurfaceCorpus(selection, override) : selection \in Selections}
    <3>1. PICK selection \in Selections : session = SurfaceCorpus(selection, override)
      BY <2>2
    <3>2. selection \subseteq Document
      BY DEF Selections
    <3> QED  BY <1>1, <3>1, <3>2, AscendingDocuments
  <2> QED  BY <2>1, <2>2 DEF Init
<1>3. \A b \in Builds : build[b] = NotBegun
  BY <1>1
<1> QED  BY <1>1, <1>2, <1>3, BeforeAndAfter DEF BuildInv

LEMMA BuildInvNext == BuildInv /\ [Next]_vars => BuildInv'
<1> SUFFICES ASSUME BuildInv, [Next]_vars PROVE BuildInv'
  OBVIOUS
<1>1. ASSUME NEW b \in Builds, BuildStep(b) PROVE BuildInv'
  <2>1. CASE BuildSurface(b)
    BY <2>1, SurfaceStep
  <2>2. CASE LoadCache(b)
    BY <2>2, CacheStep
  <2>3. CASE Salvage(b)
    BY <2>3, SalvageStep
  <2>4. CASE LoadInputs(b)
    BY <2>4, LoadStep
  <2>5. CASE AnnotateWave(b)
    BY <2>5, WaveStep
  <2>6. CASE AnnotateSegment(b)
    BY <2>6, SegmentsStep
  <2>7. CASE StartWriting(b)
    <3> DEFINE k == [NotBegun EXCEPT !.phase = "writing", !.cancel = build[b].cancel]
    <3>1. Set(b, k) /\ source' = source /\ session' = session
      BY <2>7 DEF StartWriting, Continues, worldVars
    <3>2. JobOK(k)
      BY BeforeAndAfter
    <3> HIDE DEF k
    <3> QED  BY <3>1, <3>2, OneBuild
  <2>8. CASE StopIfCancelled(b)
    <3>1. End(b, "Cancelled") /\ source' = source /\ session' = session
      BY <2>8 DEF StopIfCancelled, worldVars
    <3> QED  BY <3>1, OneEnds
  <2>9. CASE Write(b)
    BY <2>9 DEF Write, worldVars, jobVars, BuildInv
  <2>10. CASE CompleteBuild(b)
    <3>1. End(b, "Completed") /\ source' = source /\ session' = session
      BY <2>10 DEF CompleteBuild, worldVars
    <3> QED  BY <3>1, OneEnds
  <2>11. CASE WriteFails(b)
    <3>1. End(b, "Failed") /\ source' = source /\ session' = session
      BY <2>11 DEF WriteFails, worldVars
    <3> QED  BY <3>1, OneEnds
  <2>12. CASE BuildFails(b)
    <3>1. End(b, "Failed") /\ source' = source /\ session' = session
      BY <2>12 DEF BuildFails, worldVars
    <3> QED  BY <3>1, OneEnds
  <2>13. CASE Finish(b)
    BY <2>13 DEF Finish, worldVars, BuildInv
  <2> QED
    BY <1>1, <2>1, <2>2, <2>3, <2>4, <2>5, <2>6, <2>7, <2>8, <2>9, <2>10, <2>11, <2>12, <2>13
       DEF BuildStep
<1>2. ASSUME NEW d \in Document, NEW t \in Text, EditText(d, t) PROVE BuildInv'
  BY <1>2 DEF EditText, jobVars, BuildInv
<1>3. ASSUME NEW d \in Document, NEW l, SetOverride(d, l) PROVE BuildInv'
  BY <1>3 DEF SetOverride, jobVars, BuildInv
<1>4. ASSUME NEW selection \in Selections, BuildSession(selection) PROVE BuildInv'
  <2>1. /\ session' = SurfaceCorpus(selection, override)
        /\ source' = source /\ build' = build
    BY <1>4 DEF BuildSession, jobVars
  <2>2. selection \subseteq Document /\ source \in [Document -> Text]
    BY DEF Selections, BuildInv
  <2>3. DocumentsOK(SurfaceCorpus(selection, override).documents)
    BY <2>2, AscendingDocuments
  <2> QED  BY <2>1, <2>3 DEF BuildInv
<1>5. CASE Rest \/ UNCHANGED vars
  BY <1>5 DEF Rest, vars, worldVars, jobVars, BuildInv
<1> QED  BY <1>1, <1>2, <1>3, <1>4, <1>5, BeginStep, CancelStep, RestartStep DEF Next

(* CreditIsExact for all texts, budgets, builds and edits: the words       *)
(* credited by reuse, wave or segment never pass the total of the build's  *)
(* corpus and have reached it when no wave is left, so that the monitor's  *)
(* caps and its last jump change nothing. Texts may be edited between the  *)
(* two reads of a build: what is credited is what the corpus counted.      *)
THEOREM CreditStaysExact == Spec => []CreditIsExact
<1>1. BuildInv => CreditIsExact
  <2> SUFFICES ASSUME BuildInv, NEW b \in Builds, At(b, "annotating")
               PROVE  /\ build[b].tokens_done <= TokensTotal(build[b].corpus.documents)
                      /\ build[b].docs_done <= Len(build[b].corpus.documents)
                      /\ build[b].wave = <<>> =>
                           /\ build[b].tokens_done = TokensTotal(build[b].corpus.documents)
                           /\ build[b].docs_done = Len(build[b].corpus.documents)
    BY DEF CreditIsExact
  <2>1. Annotating(build[b])
    BY DEF BuildInv, JobOK, At
  <2> QED  BY <2>1, CreditOfAnnotating
<1> QED  BY <1>1, BuildInvInit, BuildInvNext, PTL DEF Spec

(***************************************************************************)
(* The cache file. Whatever envelopes are written, a file has its pieces.  *)
(***************************************************************************)
FileTypes ==
  /\ final \in Inodes \cup {None}
  /\ temp \in Inodes \cup {None}
  /\ content = [i \in Inodes |-> content[i]]
  /\ \A i \in Inodes :
        content[i] \in [manifest : {content[i].manifest}, layer : {content[i].layer}]
  /\ handle \in [Builds -> Inodes \cup {None}]
  /\ envelope = [w \in Builds |-> envelope[w]]
  /\ writing \in [Builds -> Steps]
  /\ overlapped \in BOOLEAN

(* What any builds may do to the files, with any envelopes. *)
FileStep ==
  \/ \E w \in Builds :
        \/ \E e : e # None /\ CreateTemp(w, e)
        \/ WriteManifest(w) \/ WriteLayer(w) \/ Rename(w) \/ RemoveFinal(w)
        \/ RenameAgain(w) \/ GiveUp(w)
  \/ FileCrash

Whole(i, e) == content[i].manifest = e /\ content[i].layer = e

(* One writer at a time, on a file that is not the final one.              *)
OneWriter == \A v, w \in Builds : Busy(v) /\ Busy(w) => v = w

(* What the writer has brought to the temporary file.                      *)
WritesTemp ==
  \A w \in Builds : Busy(w) =>
     /\ temp # None /\ envelope[w] # None
     /\ writing[w] \in {"created", "manifest"} => handle[w] = temp
     /\ writing[w] = "manifest" => content[temp].manifest = envelope[w]
     /\ writing[w] \in {"layer", "retry"} => Whole(temp, envelope[w])

NamesApart == final # None => final # temp

Alone == ~overlapped => OneWriter /\ WritesTemp /\ NamesApart /\ ~Torn(final)
FileInv == FileTypes /\ Alone

LEMMA InitFileInv == FileInit => FileInv
<1> SUFFICES ASSUME FileInit PROVE FileInv
  OBVIOUS
<1>1. FileTypes
  BY DEF FileInit, FileTypes, Empty, Steps
<1>2. \A w \in Builds : ~Busy(w)
  BY DEF FileInit, Busy
<1>3. OneWriter /\ WritesTemp
  BY <1>2 DEF OneWriter, WritesTemp
<1>4. NamesApart /\ ~Torn(final)
  BY DEF FileInit, NamesApart, Torn
<1>5. QED
  BY <1>1, <1>3, <1>4 DEF FileInv, Alone

(* The types hold whoever overlaps.                                        *)
LEMMA FileTypesStep == FileTypes /\ [FileStep]_fileVars => FileTypes'
<1> SUFFICES ASSUME FileTypes, [FileStep]_fileVars PROVE FileTypes'
  OBVIOUS
<1>1. ASSUME NEW w \in Builds, NEW e, e # None, CreateTemp(w, e) PROVE FileTypes'
  <2>1. PICK i \in Inodes :
          /\ temp' = i
          /\ handle' = [handle EXCEPT ![w] = i]
          /\ content' = [content EXCEPT ![i] = Empty]
    BY <1>1 DEF CreateTemp
  <2>2. /\ content' = [j \in Inodes |-> content'[j]]
        /\ \A j \in Inodes : content'[j] = IF j = i THEN Empty ELSE content[j]
    BY <2>1 DEF FileTypes
  <2>3. Empty \in [manifest : {Empty.manifest}, layer : {Empty.layer}]
    BY DEF Empty
  <2>4. \A j \in Inodes :
          content'[j] \in [manifest : {content'[j].manifest}, layer : {content'[j].layer}]
    BY <2>2, <2>3 DEF FileTypes
  <2>5. /\ handle' \in [Builds -> Inodes \cup {None}]
        /\ writing' \in [Builds -> Steps] /\ overlapped' \in BOOLEAN
        /\ final' \in Inodes \cup {None} /\ temp' \in Inodes \cup {None}
    BY <1>1, <2>1 DEF CreateTemp, FileTypes, Steps
  <2>6. envelope' = [v \in Builds |-> envelope'[v]]
    BY <1>1 DEF CreateTemp, FileTypes
  <2>7. QED
    BY <2>2, <2>4, <2>5, <2>6 DEF FileTypes
<1>2. ASSUME NEW w \in Builds, WriteManifest(w) PROVE FileTypes'
  BY <1>2 DEF WriteManifest, FileTypes, Steps
<1>3. ASSUME NEW w \in Builds, WriteLayer(w) PROVE FileTypes'
  BY <1>3 DEF WriteLayer, FileTypes, Steps
<1>4. ASSUME NEW w \in Builds, Rename(w) \/ RenameAgain(w) PROVE FileTypes'
  BY <1>4 DEF Rename, RenameAgain, Renamed, Idle, FileTypes, Steps
<1>5. ASSUME NEW w \in Builds, RemoveFinal(w) PROVE FileTypes'
  BY <1>5 DEF RemoveFinal, FileTypes, Steps
<1>6. ASSUME NEW w \in Builds, GiveUp(w) PROVE FileTypes'
  BY <1>6 DEF GiveUp, Idle, FileTypes, Steps
<1>7. CASE FileCrash
  BY <1>7 DEF FileCrash, FileTypes, Steps
<1>8. CASE UNCHANGED fileVars
  BY <1>8 DEF fileVars, FileTypes
<1>9. QED
  BY <1>1, <1>2, <1>3, <1>4, <1>5, <1>6, <1>7, <1>8 DEF FileStep

(* A writer that starts alone truncates the temporary file, and no other   *)
(* is busy with it.                                                        *)
LEMMA CreateTempAlone ==
  ASSUME FileInv, NEW w \in Builds, NEW e, e # None, CreateTemp(w, e)
  PROVE  Alone'
<1> SUFFICES ASSUME ~overlapped' PROVE (OneWriter /\ WritesTemp /\ NamesApart /\ ~Torn(final))'
  BY DEF Alone
<1>1. ~overlapped /\ \A v \in Builds : ~Busy(v)
  BY DEF CreateTemp
<1>2. \A v \in Builds : v # w => ~Busy(v)'
  BY <1>1 DEF CreateTemp, Busy, FileInv, FileTypes
<1>3. PICK i \in Inodes :
        /\ IF temp = None THEN Free(i) ELSE i = temp
        /\ temp' = i
        /\ handle' = [handle EXCEPT ![w] = i]
        /\ content' = [content EXCEPT ![i] = Empty]
  BY DEF CreateTemp
<1>4. final # i /\ final' = final
  BY <1>1, <1>3 DEF CreateTemp, Free, Alone, FileInv, NamesApart, FileTypes
<1>5. OneWriter' /\ NamesApart'
  BY <1>2, <1>3, <1>4 DEF OneWriter, NamesApart
<1>6. WritesTemp'
  <2>1. writing'[w] = "created" /\ envelope'[w] = e /\ handle'[w] = i
    BY <1>3 DEF CreateTemp, FileInv, FileTypes
  <2>2. QED
    BY <1>2, <1>3, <2>1, NoneAssumption DEF WritesTemp
<1>7. ~Torn(final)'
  BY <1>1, <1>3, <1>4 DEF Torn, Parsed, FileInv, Alone, FileTypes
<1>8. QED
  BY <1>5, <1>6, <1>7

(* The pieces go to the temporary file; the final one is not touched.      *)
LEMMA WriteAlone ==
  ASSUME FileInv, NEW w \in Builds, WriteManifest(w) \/ WriteLayer(w)
  PROVE  Alone'
<1> SUFFICES ASSUME ~overlapped' PROVE (OneWriter /\ WritesTemp /\ NamesApart /\ ~Torn(final))'
  BY DEF Alone
<1>1. ~overlapped /\ final' = final /\ temp' = temp /\ envelope' = envelope /\ Busy(w)
  BY DEF WriteManifest, WriteLayer, Busy
<1>2. OneWriter /\ WritesTemp /\ NamesApart /\ ~Torn(final)
  BY <1>1 DEF FileInv, Alone
<1>3. handle[w] = temp /\ temp \in Inodes /\ temp # None /\ envelope[w] # None
  BY <1>1, <1>2 DEF WritesTemp, WriteManifest, WriteLayer, FileInv, FileTypes
<1>4. \A v \in Builds : v # w => ~Busy(v) /\ ~Busy(v)'
  BY <1>1, <1>2 DEF OneWriter, Busy, WriteManifest, WriteLayer, FileInv, FileTypes
<1>5. OneWriter' /\ NamesApart'
  BY <1>1, <1>2, <1>4 DEF OneWriter, NamesApart
<1>6. \A i \in Inodes : i # temp => content'[i] = content[i]
  BY <1>3 DEF WriteManifest, WriteLayer, FileInv, FileTypes
<1>7. ~Torn(final)'
  BY <1>1, <1>2, <1>6 DEF Torn, Parsed, NamesApart, FileInv, FileTypes
<1>8. WritesTemp'
  <2>1. CASE WriteManifest(w)
    <3>1. content'[temp].manifest = envelope[w] /\ writing'[w] = "manifest" /\ handle' = handle
      BY <1>3, <2>1 DEF WriteManifest, FileInv, FileTypes
    <3>2. QED
      BY <1>1, <1>3, <1>4, <3>1 DEF WritesTemp, Whole
  <2>2. CASE WriteLayer(w)
    <3>1. content[temp].manifest = envelope[w]
      BY <1>1, <1>2, <2>2 DEF WritesTemp, WriteLayer
    <3>2. Whole(temp, envelope[w])' /\ writing'[w] = "layer"
      BY <1>1, <1>3, <2>2, <3>1 DEF WriteLayer, FileInv, FileTypes, Whole
    <3>3. QED
      BY <1>1, <1>3, <1>4, <3>2, NoneAssumption DEF WritesTemp, Whole
  <2>3. QED
    BY <2>1, <2>2
<1>9. QED
  BY <1>5, <1>7, <1>8

(* A rename moves a whole file to the final name.                          *)
LEMMA RenameAlone ==
  ASSUME FileInv, NEW w \in Builds, Rename(w) \/ RenameAgain(w)
  PROVE  Alone'
<1> SUFFICES ASSUME ~overlapped' PROVE (OneWriter /\ WritesTemp /\ NamesApart /\ ~Torn(final))'
  BY DEF Alone
<1>1. /\ ~overlapped /\ final' = temp /\ temp' = None /\ content' = content
      /\ writing[w] \in {"layer", "retry"} /\ temp # None
      /\ writing' = [writing EXCEPT ![w] = "no"]
  BY DEF Rename, RenameAgain, Renamed, Idle
<1>2. OneWriter /\ WritesTemp
  BY <1>1 DEF FileInv, Alone
<1>3. Whole(temp, envelope[w]) /\ envelope[w] # None
  BY <1>1, <1>2 DEF WritesTemp, Busy
<1>4. \A v \in Builds : ~Busy(v)'
  BY <1>1, <1>2 DEF OneWriter, Busy, FileInv, FileTypes
<1>5. QED
  BY <1>1, <1>3, <1>4 DEF OneWriter, WritesTemp, NamesApart, Torn, Parsed, Whole

(* Removing the final file, giving up or crashing leaves nothing torn.     *)
LEMMA EndAlone ==
  ASSUME FileInv,
         (\E w \in Builds : RemoveFinal(w) \/ GiveUp(w)) \/ FileCrash \/ UNCHANGED fileVars
  PROVE  Alone'
<1>1. CASE \E w \in Builds : RemoveFinal(w)
  BY <1>1 DEF RemoveFinal, FileInv, FileTypes, Alone, OneWriter, WritesTemp, NamesApart,
              Torn, Busy, Whole
<1>2. CASE \E w \in Builds : GiveUp(w)
  BY <1>2 DEF GiveUp, Idle, FileInv, FileTypes, Alone, OneWriter, WritesTemp, NamesApart,
              Torn, Parsed, Busy, Whole
<1>3. CASE FileCrash
  BY <1>3 DEF FileCrash, FileInv, Alone, OneWriter, WritesTemp, NamesApart, Torn, Parsed, Busy
<1>4. CASE UNCHANGED fileVars
  BY <1>4 DEF fileVars, FileInv, Alone, OneWriter, WritesTemp, NamesApart, Torn, Parsed, Busy,
              Whole
<1>5. QED
  BY <1>1, <1>2, <1>3, <1>4

LEMMA FileInvStep == FileInv /\ [FileStep]_fileVars => FileInv'
<1> SUFFICES ASSUME FileInv, [FileStep]_fileVars PROVE FileInv'
  OBVIOUS
<1>1. FileTypes'
  BY FileTypesStep DEF FileInv
<1>2. Alone'
  BY CreateTempAlone, WriteAlone, RenameAlone, EndAlone DEF FileStep
<1> QED  BY <1>1, <1>2 DEF FileInv

(* Every step of the project's builds is a step of the cache file, or      *)
(* leaves it alone.                                                        *)
LEMMA BuildsWriteFiles ==
  ASSUME \A m, l : [manifest |-> m, layer |-> l] # None, [Next]_vars
  PROVE  [FileStep]_fileVars
<1>1. ASSUME NEW b \in Builds, BuildStep(b) PROVE [FileStep]_fileVars
  <2>1. CASE StartWriting(b)
    BY <2>1 DEF StartWriting, FileStep
  <2>2. CASE Write(b)
    BY <2>2 DEF Write, FileStep
  <2>3. CASE CompleteBuild(b)
    BY <2>3 DEF CompleteBuild, FileStep
  <2>4. CASE WriteFails(b)
    BY <2>4 DEF WriteFails, FileStep
  <2>5. CASE UNCHANGED fileVars
    BY <2>5
  <2> QED
    BY <1>1, <2>1, <2>2, <2>3, <2>4, <2>5
       DEF BuildStep, BuildSurface, LoadCache, Salvage, LoadInputs, AnnotateWave,
           AnnotateSegment, StopIfCancelled, BuildFails, Finish
<1>2. ASSUME NEW v, Restart(v) PROVE [FileStep]_fileVars
  BY <1>2 DEF Restart, FileStep
<1>3. CASE \E b \in Builds, selection \in Selections : Begin(b, selection)
  BY <1>3 DEF Begin
<1>4. CASE UNCHANGED fileVars
  BY <1>4
<1> QED
  BY <1>1, <1>2, <1>3, <1>4
     DEF Next, CancelCurrent, EditText, SetOverride, BuildSession, Rest, vars

(* write_annotation_layer_cache in a project with any builds, edits and    *)
(* restarts: whatever a crash, a failure or an error interrupts, the final *)
(* file is absent or whole as long as one build writes at a time. None is  *)
(* anything but an envelope.                                               *)
THEOREM CacheFileNeverTorn ==
  ASSUME \A m, l : [manifest |-> m, layer |-> l] # None
  PROVE  Spec => []NeverTorn
<1>1. Init => FileInv
  BY InitFileInv DEF Init
<1>2. FileInv /\ [Next]_vars => FileInv'
  BY BuildsWriteFiles, FileInvStep
<1>3. FileInv => NeverTorn
  BY DEF FileInv, Alone, NeverTorn
<1> QED  BY <1>1, <1>2, <1>3, PTL DEF Spec

(***************************************************************************)
(* Counts of words.                                                        *)
(***************************************************************************)
(* Counts are numbers, by surface, lemma and tag.                          *)
IsCounts(c) ==
  /\ c = [k \in DOMAIN c |-> c[k]]
  /\ \A k \in DOMAIN c : c[k] \in Nat /\ k = <<k[1], k[2], k[3]>>

LEMMA NoneCounted == IsCounts(NoCounts) /\ DOMAIN NoCounts = {}
BY DEF IsCounts, NoCounts

LEMMA PlusCounts ==
  ASSUME NEW c, NEW d, IsCounts(c), IsCounts(d)
  PROVE  /\ IsCounts(Plus(c, d)) /\ DOMAIN Plus(c, d) = DOMAIN c \cup DOMAIN d
         /\ \A k \in DOMAIN c \cup DOMAIN d :
              Plus(c, d)[k] = (IF k \in DOMAIN c THEN c[k] ELSE 0)
                               + (IF k \in DOMAIN d THEN d[k] ELSE 0)
<1> DEFINE sum == Plus(c, d)
<1>1. sum = [k \in DOMAIN c \cup DOMAIN d |->
               (IF k \in DOMAIN c THEN c[k] ELSE 0) + (IF k \in DOMAIN d THEN d[k] ELSE 0)]
  BY DEF Plus
<1>2. DOMAIN sum = DOMAIN c \cup DOMAIN d
  BY <1>1
<1>3. \A k \in DOMAIN sum : sum[k] = (IF k \in DOMAIN c THEN c[k] ELSE 0)
                                      + (IF k \in DOMAIN d THEN d[k] ELSE 0)
  BY <1>1
<1>4. sum = [k \in DOMAIN sum |-> sum[k]]
  BY <1>1
<1> HIDE DEF sum
<1>5. \A k \in DOMAIN sum : sum[k] \in Nat /\ k = <<k[1], k[2], k[3]>>
  <2> SUFFICES ASSUME NEW k \in DOMAIN sum
               PROVE  sum[k] \in Nat /\ k = <<k[1], k[2], k[3]>>
    OBVIOUS
  <2>1. (k \in DOMAIN c => c[k] \in Nat) /\ (k \in DOMAIN d => d[k] \in Nat)
    BY DEF IsCounts
  <2>2. k = <<k[1], k[2], k[3]>>
    BY <1>2, Zenon DEF IsCounts
  <2>3. sum[k] \in Nat
    BY <1>3, <2>1
  <2> QED  BY <2>2, <2>3
<1> QED  BY <1>2, <1>3, <1>4, <1>5, Zenon DEF IsCounts, sum

(* Two counts are the same when they say the same of every key.            *)
LEMMA SameCounts ==
  ASSUME NEW c, NEW d, IsCounts(c), IsCounts(d), DOMAIN c = DOMAIN d,
         \A k \in DOMAIN c : c[k] = d[k]
  PROVE  c = d
BY Zenon DEF IsCounts

LEMMA PlusNothing ==
  ASSUME NEW c, IsCounts(c)
  PROVE  Plus(c, NoCounts) = c /\ Plus(NoCounts, c) = c
<1>1. IsCounts(NoCounts) /\ DOMAIN NoCounts = {}
  BY NoneCounted
<1>2. \A k \in DOMAIN c : c[k] \in Nat
  BY DEF IsCounts
<1>3. Plus(c, NoCounts) = c
  <2> DEFINE sum == Plus(c, NoCounts)
  <2>1. /\ IsCounts(sum) /\ DOMAIN sum = DOMAIN c \cup DOMAIN NoCounts
        /\ \A k \in DOMAIN c \cup DOMAIN NoCounts :
             sum[k] = (IF k \in DOMAIN c THEN c[k] ELSE 0)
                        + (IF k \in DOMAIN NoCounts THEN NoCounts[k] ELSE 0)
    BY <1>1, PlusCounts
  <2> HIDE DEF sum
  <2>2. DOMAIN sum = DOMAIN c /\ \A k \in DOMAIN c : sum[k] = c[k]
    BY <1>1, <1>2, <2>1
  <2>3. sum = c
    BY <2>1, <2>2, SameCounts
  <2> QED  BY <2>3 DEF sum
<1>4. Plus(NoCounts, c) = c
  <2> DEFINE sum == Plus(NoCounts, c)
  <2>1. /\ IsCounts(sum) /\ DOMAIN sum = DOMAIN NoCounts \cup DOMAIN c
        /\ \A k \in DOMAIN NoCounts \cup DOMAIN c :
             sum[k] = (IF k \in DOMAIN NoCounts THEN NoCounts[k] ELSE 0)
                        + (IF k \in DOMAIN c THEN c[k] ELSE 0)
    BY <1>1, PlusCounts
  <2> HIDE DEF sum
  <2>2. DOMAIN sum = DOMAIN c /\ \A k \in DOMAIN c : sum[k] = c[k]
    BY <1>1, <1>2, <2>1
  <2>3. sum = c
    BY <2>1, <2>2, SameCounts
  <2> QED  BY <2>3 DEF sum
<1> QED  BY <1>3, <1>4

LEMMA PlusAssociates ==
  ASSUME NEW c, NEW d, NEW e, IsCounts(c), IsCounts(d), IsCounts(e)
  PROVE  Plus(Plus(c, d), e) = Plus(c, Plus(d, e))
<1> DEFINE cd == Plus(c, d)
           de == Plus(d, e)
           left == Plus(cd, e)
           right == Plus(c, de)
<1>1. /\ IsCounts(cd) /\ DOMAIN cd = DOMAIN c \cup DOMAIN d
      /\ \A k \in DOMAIN c \cup DOMAIN d :
           cd[k] = (IF k \in DOMAIN c THEN c[k] ELSE 0) + (IF k \in DOMAIN d THEN d[k] ELSE 0)
  BY PlusCounts
<1>2. /\ IsCounts(de) /\ DOMAIN de = DOMAIN d \cup DOMAIN e
      /\ \A k \in DOMAIN d \cup DOMAIN e :
           de[k] = (IF k \in DOMAIN d THEN d[k] ELSE 0) + (IF k \in DOMAIN e THEN e[k] ELSE 0)
  BY PlusCounts
<1> HIDE DEF cd, de
<1>3. /\ IsCounts(left) /\ DOMAIN left = DOMAIN cd \cup DOMAIN e
      /\ \A k \in DOMAIN cd \cup DOMAIN e :
           left[k] = (IF k \in DOMAIN cd THEN cd[k] ELSE 0) + (IF k \in DOMAIN e THEN e[k] ELSE 0)
  BY <1>1, PlusCounts
<1>4. /\ IsCounts(right) /\ DOMAIN right = DOMAIN c \cup DOMAIN de
      /\ \A k \in DOMAIN c \cup DOMAIN de :
           right[k] = (IF k \in DOMAIN c THEN c[k] ELSE 0) + (IF k \in DOMAIN de THEN de[k] ELSE 0)
  BY <1>2, PlusCounts
<1> HIDE DEF left, right
<1>5. DOMAIN left = DOMAIN right
  BY <1>1, <1>2, <1>3, <1>4
<1>6. ASSUME NEW k \in DOMAIN left PROVE left[k] = right[k]
  <2> DEFINE x == IF k \in DOMAIN c THEN c[k] ELSE 0
             y == IF k \in DOMAIN d THEN d[k] ELSE 0
             z == IF k \in DOMAIN e THEN e[k] ELSE 0
  <2>1. x \in Nat /\ y \in Nat /\ z \in Nat
    BY DEF IsCounts
  <2>2. (IF k \in DOMAIN cd THEN cd[k] ELSE 0) = x + y
    BY <1>1
  <2>3. (IF k \in DOMAIN de THEN de[k] ELSE 0) = y + z
    BY <1>2
  <2>4. left[k] = (x + y) + z
    BY <1>3, <2>2
  <2>5. right[k] = x + (y + z)
    BY <1>4, <1>5, <2>3
  <2> HIDE DEF x, y, z
  <2> QED  BY <2>1, <2>4, <2>5
<1>7. left = right
  BY <1>3, <1>4, <1>5, <1>6, SameCounts
<1> QED  BY <1>7 DEF left, right, cd, de

LEMMA TallyCounts ==
  ASSUME NEW words, IsFiniteSet(DOMAIN words)
  PROVE  IsCounts(Tally(words))
<1> DEFINE keys == {Key(words[i]) : i \in DOMAIN words}
           having(k) == {i \in DOMAIN words : Key(words[i]) = k}
           c == [k \in keys |-> Cardinality(having(k))]
<1>1. Tally(words) = c
  BY Zenon DEF Tally
<1>2. \A k \in keys : k = <<k[1], k[2], k[3]>>
  BY DEF Key
<1>3. ASSUME NEW k \in keys PROVE Cardinality(having(k)) \in Nat
  <2>1. having(k) \subseteq DOMAIN words
    OBVIOUS
  <2> HIDE DEF having
  <2> QED  BY <2>1, FS_Subset, FS_CardinalityType
<1> HIDE DEF keys, having
<1>4. IsCounts(c)
  BY <1>2, <1>3, Zenon DEF IsCounts
<1> QED  BY <1>1, <1>4

(* The counts of one chunk.                                                *)
Piece(v, l, t, i) == Tally(AnnotatedChunk(v, l, t, Chunks[t][i]))

LEMMA PieceCounts ==
  ASSUME NEW v, NEW l, NEW t \in Text, NEW i \in 1..Len(Chunks[t])
  PROVE  IsCounts(Piece(v, l, t, i))
<1> DEFINE chunk == Chunks[t][i]
           tokens == SubSeq(TokensOf[t], chunk.first, chunk.last)
           tagged == TaggedChunk(v, l, t, chunk)
           words == AnnotatedChunk(v, l, t, chunk)
<1>1. Cuts(Chunks[t], Len(TokensOf[t]))
  BY ChunksCutTheText
<1>2. TokensOf[t] \in Seq(Range(TokensOf[t])) /\ Len(TokensOf[t]) \in Nat
  BY TokensAssumption
<1>3. chunk \in Spans /\ 1 <= chunk.first /\ chunk.first <= chunk.last
  BY <1>1 DEF Cuts
<1>4. chunk.last \in 1..Len(TokensOf[t])
  BY <1>1, <1>2, CutsStayInside
<1>5. chunk.first \in Nat /\ chunk.last \in (chunk.first - 1)..Len(TokensOf[t])
  BY <1>2, <1>3, <1>4 DEF Spans
<1>6. DOMAIN tagged = DOMAIN tokens
  BY Zenon DEF TaggedChunk, cw_udpipe_tag_pretokenized
<1>7. DOMAIN words \subseteq DOMAIN tagged
  BY DEF AnnotatedChunk
<1> HIDE DEF chunk
<1>8. Stretch(Range(TokensOf[t]), TokensOf[t], chunk.first, chunk.last)
  BY <1>2, <1>3, <1>5, StretchOf
<1>9. DOMAIN tokens = 1..(chunk.last + 1 - chunk.first)
  BY <1>8 DEF Stretch
<1> HIDE DEF tokens, tagged, words
<1>10. IsFiniteSet(DOMAIN tokens)
  <2>1. 1 \in Int /\ chunk.last + 1 - chunk.first \in Int
    BY <1>2, <1>5
  <2>2. IsFiniteSet(1..(chunk.last + 1 - chunk.first))
    BY <2>1, FS_Interval
  <2> QED  BY <1>9, <2>2
<1>11. IsFiniteSet(DOMAIN words)
  BY <1>6, <1>7, <1>10, FS_Subset
<1>12. IsCounts(Tally(words))
  BY <1>11, TallyCounts
<1> QED  BY <1>12 DEF Piece, words, chunk

(* The loop over the chunks first..last.                                   *)
SumRun(g, v, l, t, first, last) ==
  g = [i \in (first - 1)..last |->
         IF i < first THEN NoCounts ELSE Plus(g[i - 1], Piece(v, l, t, i))]

(* The loop has a run.                                                     *)
LEMMA SumRuns ==
  ASSUME NEW v, NEW l, NEW t, NEW first \in Nat \ {0}, NEW last \in Nat, first - 1 <= last
  PROVE  \E g : SumRun(g, v, l, t, first, last)
<1> DEFINE n == last - (first - 1)
           S == {m \in 0..n : \E g : SumRun(g, v, l, t, first, first - 1 + m)}
<1>1. n \in Nat /\ first - 1 + n = last /\ first - 1 + 0 = first - 1
  OBVIOUS
<1>2. 0 \in S
  <2> DEFINE f == [i \in (first - 1)..(first - 1) |-> NoCounts]
             g == [i \in (first - 1)..(first - 1) |->
                     IF i < first THEN NoCounts ELSE Plus(f[i - 1], Piece(v, l, t, i))]
  <2>1. \A i \in (first - 1)..(first - 1) : i < first
    OBVIOUS
  <2>2. f = g
    BY <2>1, Zenon
  <2>3. SumRun(f, v, l, t, first, first - 1)
    BY <2>2, Zenon DEF SumRun
  <2> HIDE DEF f
  <2> QED  BY <1>1, <2>3
<1>3. ASSUME NEW m \in 0..n, m \in S, m < n PROVE m + 1 \in S
  <2> DEFINE q == first - 1 + m
  <2>1. PICK f : SumRun(f, v, l, t, first, q)
    BY <1>3
  <2>2. q \in Nat /\ first - 1 <= q /\ first - 1 + (m + 1) = q + 1 /\ m + 1 \in 0..n
    BY <1>1, <1>3
  <2> HIDE DEF q
  <2> DEFINE g == [i \in (first - 1)..q + 1 |->
                     IF i = q + 1 THEN Plus(f[q], Piece(v, l, t, q + 1)) ELSE f[i]]
             h == [i \in (first - 1)..q + 1 |->
                     IF i < first THEN NoCounts ELSE Plus(g[i - 1], Piece(v, l, t, i))]
  <2>3. ASSUME NEW i \in (first - 1)..q + 1 PROVE g[i] = h[i]
    <3>1. CASE i < first
      <4>1. i \in (first - 1)..q /\ i # q + 1
        BY <2>2, <3>1
      <4>2. g[i] = f[i] /\ h[i] = NoCounts
        BY <3>1, <4>1
      <4>3. f[i] = NoCounts
        BY <2>1, <3>1, <4>1 DEF SumRun
      <4> QED  BY <4>2, <4>3
    <3>2. CASE ~ (i < first) /\ i # q + 1
      <4>1. i \in (first - 1)..q /\ i - 1 \in (first - 1)..q + 1 /\ i - 1 # q + 1
        BY <2>2, <3>2
      <4>2. g[i] = f[i] /\ g[i - 1] = f[i - 1] /\ h[i] = Plus(g[i - 1], Piece(v, l, t, i))
        BY <3>2, <4>1
      <4>3. f[i] = Plus(f[i - 1], Piece(v, l, t, i))
        BY <2>1, <3>2, <4>1 DEF SumRun
      <4> QED  BY <4>2, <4>3
    <3>3. CASE i = q + 1
      <4>1. i - 1 = q /\ q \in (first - 1)..q + 1 /\ q # q + 1 /\ ~ (i < first)
        BY <2>2, <3>3
      <4>2. g[i] = Plus(f[q], Piece(v, l, t, i)) /\ g[i - 1] = f[q]
            /\ h[i] = Plus(g[i - 1], Piece(v, l, t, i))
        BY <3>3, <4>1
      <4> QED  BY <4>2
    <3> QED  BY <3>1, <3>2, <3>3
  <2>4. g = h
    BY <2>3, Zenon
  <2>5. SumRun(g, v, l, t, first, q + 1)
    BY <2>4, Zenon DEF SumRun
  <2> HIDE DEF g
  <2> QED  BY <2>2, <2>5
<1> HIDE DEF S, n
<1>4. n \in S
  BY <1>1, <1>2, <1>3, UpTo
<1> QED  BY <1>1, <1>4 DEF S

(* What a run has reached is what a run up to there reaches.               *)
LEMMA RunsAgree ==
  ASSUME NEW v, NEW l, NEW t, NEW first \in Nat \ {0}, NEW p \in Nat, NEW q \in Nat, first - 1 <= p, p <= q,
         NEW f, SumRun(f, v, l, t, first, p), NEW g, SumRun(g, v, l, t, first, q)
  PROVE  \A i \in (first - 1)..p : f[i] = g[i]
<1> DEFINE n == p - (first - 1)
           S == {m \in 0..n : f[first - 1 + m] = g[first - 1 + m]}
<1>1. n \in Nat
  OBVIOUS
<1>2. 0 \in S
  <2>1. /\ first - 1 + 0 = first - 1 /\ first - 1 \in (first - 1)..p /\ first - 1 \in (first - 1)..q
        /\ first - 1 < first
    OBVIOUS
  <2>2. f[first - 1] = NoCounts /\ g[first - 1] = NoCounts
    BY <2>1 DEF SumRun
  <2> QED  BY <1>1, <2>1, <2>2
<1>3. ASSUME NEW m \in 0..n, m \in S, m < n PROVE m + 1 \in S
  <2> DEFINE i == first - 1 + (m + 1)
  <2>1. /\ i \in (first - 1)..p /\ i \in (first - 1)..q /\ ~ (i < first) /\ i - 1 = first - 1 + m
        /\ m + 1 \in 0..n
    BY <1>1, <1>3
  <2> HIDE DEF i
  <2>2. f[i] = Plus(f[i - 1], Piece(v, l, t, i)) /\ g[i] = Plus(g[i - 1], Piece(v, l, t, i))
    BY <2>1 DEF SumRun
  <2>3. f[i - 1] = g[i - 1]
    BY <1>3, <2>1
  <2>4. f[i] = g[i]
    BY <2>2, <2>3
  <2> QED  BY <2>1, <2>4 DEF i
<1>4. \A m \in 0..n : f[first - 1 + m] = g[first - 1 + m]
  <2> HIDE DEF S, n
  <2>1. \A m \in 0..n : m \in S
    BY <1>1, <1>2, <1>3, UpTo
  <2> QED  BY <2>1 DEF S
<1> TAKE i \in (first - 1)..p
<1>5. i - (first - 1) \in 0..n /\ first - 1 + (i - (first - 1)) = i
  OBVIOUS
<1> HIDE DEF n
<1> QED  BY <1>4, <1>5

(* Every state of a run over chunks of t is made of counts.                *)
LEMMA RunCounts ==
  ASSUME NEW v, NEW l, NEW t \in Text, NEW first \in Nat \ {0}, NEW last \in Nat, first - 1 <= last,
         last <= Len(Chunks[t]), NEW f, SumRun(f, v, l, t, first, last)
  PROVE  \A i \in (first - 1)..last : IsCounts(f[i])
<1> DEFINE n == last - (first - 1)
           S == {m \in 0..n : IsCounts(f[first - 1 + m])}
<1>1. n \in Nat
  OBVIOUS
<1>0. Len(Chunks[t]) \in Nat
  BY ChunksCutTheText DEF Cuts
<1>2. 0 \in S
  <2>1. first - 1 + 0 = first - 1 /\ first - 1 \in (first - 1)..last /\ first - 1 < first
    OBVIOUS
  <2>2. f[first - 1] = NoCounts
    BY <2>1 DEF SumRun
  <2> QED  BY <1>1, <2>1, <2>2, NoneCounted
<1>3. ASSUME NEW m \in 0..n, m \in S, m < n PROVE m + 1 \in S
  <2> DEFINE i == first - 1 + (m + 1)
  <2>1. /\ i \in (first - 1)..last /\ ~ (i < first) /\ i - 1 = first - 1 + m
        /\ m + 1 \in 0..n /\ i \in 1..Len(Chunks[t])
    BY <1>0, <1>1, <1>3
  <2> HIDE DEF i
  <2>2. f[i] = Plus(f[i - 1], Piece(v, l, t, i))
    BY <2>1 DEF SumRun
  <2>3. IsCounts(f[i - 1]) /\ IsCounts(Piece(v, l, t, i))
    BY <1>3, <2>1, PieceCounts
  <2>4. IsCounts(Plus(f[i - 1], Piece(v, l, t, i)))
    BY <2>3, PlusCounts, Zenon
  <2>5. IsCounts(f[i])
    BY <2>2, <2>4
  <2> QED  BY <2>1, <2>5 DEF i
<1>4. \A m \in 0..n : IsCounts(f[first - 1 + m])
  <2> HIDE DEF S, n
  <2>1. \A m \in 0..n : m \in S
    BY <1>1, <1>2, <1>3, UpTo
  <2> QED  BY <2>1 DEF S
<1> TAKE i \in (first - 1)..last
<1>5. i - (first - 1) \in 0..n /\ first - 1 + (i - (first - 1)) = i
  OBVIOUS
<1> HIDE DEF n
<1> QED  BY <1>4, <1>5

(* Two runs that follow each other come to what one run over both does.    *)
LEMMA RunsAddUp ==
  ASSUME NEW v, NEW l, NEW t \in Text, NEW a \in Nat \ {0}, NEW b \in Nat, a - 1 <= b,
         b <= Len(Chunks[t]),
         NEW f, SumRun(f, v, l, t, 1, b), NEW g, SumRun(g, v, l, t, a, b)
  PROVE  f[b] = Plus(f[a - 1], g[b])
<1> DEFINE n == b - (a - 1)
           S == {m \in 0..n : f[a - 1 + m] = Plus(f[a - 1], g[a - 1 + m])}
<1>1. n \in Nat /\ a - 1 + n = b
  OBVIOUS
<1>0. Len(Chunks[t]) \in Nat
  BY ChunksCutTheText DEF Cuts
<1>2. (\A i \in 0..b : IsCounts(f[i])) /\ (\A i \in (a - 1)..b : IsCounts(g[i]))
  <2>1. 1 - 1 = 0 /\ 1 \in Nat \ {0} /\ 0 <= b
    OBVIOUS
  <2>2. \A i \in 0..b : IsCounts(f[i])
    BY <2>1, RunCounts
  <2>3. \A i \in (a - 1)..b : IsCounts(g[i])
    BY RunCounts
  <2> QED  BY <2>2, <2>3
<1>3. 0 \in S
  <2>1. a - 1 + 0 = a - 1 /\ a - 1 \in (a - 1)..b /\ a - 1 < a /\ a - 1 \in 0..b
    OBVIOUS
  <2>2. g[a - 1] = NoCounts
    BY <2>1 DEF SumRun
  <2>3. Plus(f[a - 1], NoCounts) = f[a - 1]
    BY <1>2, <2>1, PlusNothing
  <2> QED  BY <1>1, <2>1, <2>2, <2>3
<1>4. ASSUME NEW m \in 0..n, m \in S, m < n PROVE m + 1 \in S
  <2> DEFINE i == a - 1 + (m + 1)
  <2>1. /\ i \in (1 - 1)..b /\ i \in (a - 1)..b /\ ~ (i < 1) /\ ~ (i < a) /\ i - 1 = a - 1 + m
        /\ m + 1 \in 0..n /\ i \in 1..Len(Chunks[t])
        /\ i - 1 \in 0..b /\ i - 1 \in (a - 1)..b /\ a - 1 \in 0..b
    BY <1>0, <1>1, <1>4
  <2> HIDE DEF i
  <2> DEFINE c == f[a - 1]
             d == g[i - 1]
             e == Piece(v, l, t, i)
  <2>2. f[i] = Plus(f[i - 1], e) /\ g[i] = Plus(d, e)
    BY <2>1 DEF SumRun
  <2>3. f[i - 1] = Plus(c, d)
    BY <1>4, <2>1
  <2>4. IsCounts(c) /\ IsCounts(d)
    BY <1>2, <2>1
  <2>5. IsCounts(e)
    BY <2>1, PieceCounts
  <2> HIDE DEF c, d, e
  <2>6. Plus(Plus(c, d), e) = Plus(c, Plus(d, e))
    BY <2>4, <2>5, PlusAssociates
  <2>7. f[i] = Plus(c, g[i])
    BY <2>2, <2>3, <2>6
  <2> QED  BY <2>1, <2>7 DEF i, c
<1>5. n \in S
  <2> HIDE DEF S, n
  <2>1. n \in Nat
    BY <1>1
  <2>2. \A m \in 0..n : m \in S
    BY <1>3, <1>4, <2>1, UpTo
  <2> QED  BY <2>1, <2>2
<1>6. f[a - 1 + n] = Plus(f[a - 1], g[a - 1 + n])
  BY <1>5
<1> HIDE DEF n
<1> QED  BY <1>1, <1>6

(* ChunkCounts is what a run over its chunks reaches.                      *)
LEMMA CountsOfRun ==
  ASSUME NEW v, NEW l, NEW t, NEW first \in Nat \ {0}, NEW last \in Nat, first - 1 <= last
  PROVE  \E g : SumRun(g, v, l, t, first, last) /\ ChunkCounts(v, l, t, first, last) = g[last]
<1> DEFINE sum[i \in (first - 1)..last] ==
             IF i < first THEN NoCounts
             ELSE Plus(sum[i - 1], Tally(AnnotatedChunk(v, l, t, Chunks[t][i])))
<1>1. \E g : SumRun(g, v, l, t, first, last)
  BY SumRuns
<1>2. SumRun(sum, v, l, t, first, last)
  BY <1>1, Zenon DEF SumRun, Piece
<1>3. ChunkCounts(v, l, t, first, last) = sum[last]
  BY Zenon DEF ChunkCounts
<1> HIDE DEF sum
<1> QED  BY <1>2, <1>3

(* annotate_segmented_staged_annotation_document: the chunks up to a - 1   *)
(* and those from a to b give together what the chunks up to b do.         *)
LEMMA ChunkCountsAddUp ==
  ASSUME NEW v \in Version, NEW l \in Language, NEW t \in Text,
         NEW a \in 1..Len(Chunks[t]), NEW b \in a..Len(Chunks[t])
  PROVE  LET whole(first, last) == CountsOf[v][l][t][Range_(first, last)]
         IN  /\ IsCounts(whole(a, b))
             /\ a # 1 => Plus(whole(1, a - 1), whole(a, b)) = whole(1, b)
<1> DEFINE N == Len(Chunks[t])
           whole(first, last) == CountsOf[v][l][t][Range_(first, last)]
<1>0. N \in Nat
  BY ChunksCutTheText DEF Cuts
<1>1. ASSUME NEW first \in 1..N, NEW last \in 1..N
      PROVE  whole(first, last) = ChunkCounts(v, l, t, first, last)
  <2> DEFINE r == Range_(first, last)
             spans == {Range_(x, y) : x \in 1..N, y \in 1..N}
  <2>1. r \in spans /\ r.first = first /\ r.last = last
    BY DEF Range_
  <2>2. CountsOf[v][l][t] = [s \in spans |-> ChunkCounts(v, l, t, s.first, s.last)]
    BY DEF CountsOf
  <2> HIDE DEF r, spans
  <2>3. CountsOf[v][l][t][r] = ChunkCounts(v, l, t, r.first, r.last)
    BY <2>1, <2>2
  <2> QED  BY <2>1, <2>3 DEF r
<1>2. /\ a \in Nat \ {0} /\ b \in Nat /\ a - 1 <= b /\ a \in 1..N /\ b \in 1..N /\ b <= N
      /\ 1 \in 1..N /\ a - 1 \in Nat /\ 0 <= b /\ a - 1 \in 0..b /\ b \in (a - 1)..b
  BY <1>0
<1>3. PICK g : SumRun(g, v, l, t, a, b) /\ ChunkCounts(v, l, t, a, b) = g[b]
  BY <1>2, CountsOfRun
<1>4. IsCounts(g[b])
  BY <1>2, <1>3, RunCounts
<1>5. whole(a, b) = g[b]
  BY <1>1, <1>2, <1>3
<1>6. ASSUME a # 1 PROVE Plus(whole(1, a - 1), whole(a, b)) = whole(1, b)
  <2>1. a - 1 \in 1..N /\ 1 - 1 <= a - 1 /\ 1 - 1 <= b /\ 1 \in Nat \ {0} /\ a - 1 \in (1 - 1)..(a - 1)
    BY <1>0, <1>2, <1>6
  <2>2. PICK f : SumRun(f, v, l, t, 1, b) /\ ChunkCounts(v, l, t, 1, b) = f[b]
    BY <1>2, <2>1, CountsOfRun
  <2>3. PICK h : SumRun(h, v, l, t, 1, a - 1) /\ ChunkCounts(v, l, t, 1, a - 1) = h[a - 1]
    BY <1>2, <2>1, CountsOfRun
  <2>4. h[a - 1] = f[a - 1]
    <3>1. a - 1 <= b
      BY <1>2
    <3>2. \A i \in (1 - 1)..(a - 1) : h[i] = f[i]
      BY <1>2, <2>1, <2>2, <2>3, <3>1, RunsAgree
    <3> QED  BY <2>1, <3>2
  <2>5. f[b] = Plus(f[a - 1], g[b])
    BY <1>2, <1>3, <2>2, RunsAddUp
  <2>6. whole(1, a - 1) = h[a - 1] /\ whole(1, b) = f[b]
    BY <1>1, <1>2, <2>1, <2>2, <2>3
  <2> HIDE DEF whole
  <2> QED  BY <1>5, <2>4, <2>5, <2>6
<1> HIDE DEF whole
<1>7. IsCounts(whole(a, b)) /\ (a # 1 => Plus(whole(1, a - 1), whole(a, b)) = whole(1, b))
  BY <1>4, <1>5, <1>6
<1> QED  BY <1>7 DEF whole

(* The counts of a document, whichever way they come about.                *)
LEMMA DocumentCounted ==
  ASSUME NEW v \in Version, NEW l \in Language, NEW t \in Text
  PROVE  IsCounts(DocumentCounts(v, l, t))
<1>1. Chunks[t] \in Seq(Spans) /\ Len(Chunks[t]) \in Nat
  BY ChunksCutTheText DEF Cuts
<1>2. CASE Chunks[t] = <<>>
  BY <1>2, NoneCounted DEF DocumentCounts
<1>3. CASE Chunks[t] # <<>>
  <2> DEFINE n == Len(Chunks[t])
  <2>1. 1 \in 1..n /\ n \in 1..n
    <3>1. n # 0
      <4> DEFINE s == Chunks[t]
                 S == Spans
      <4>1. s \in Seq(S)
        BY <1>1
      <4> HIDE DEF s, S
      <4>2. s = <<>> <=> Len(s) = 0
        BY <4>1, EmptyOrLonger
      <4> QED  BY <1>3, <4>2 DEF s
    <3> QED  BY <1>1, <3>1
  <2>2. IsCounts(CountsOf[v][l][t][Range_(1, n)])
    BY <2>1, ChunkCountsAddUp
  <2>3. DocumentCounts(v, l, t) = CountsOf[v][l][t][Range_(1, n)]
    BY <1>3 DEF DocumentCounts
  <2> QED  BY <2>2, <2>3
<1> QED  BY <1>2, <1>3

(* Segment after segment: what the segments up to s give, and the last.    *)
UpToSegment(v, l, t, s) == CountsOf[v][l][t][Range_(1, Segments[t][s].last)]

LEMMA SegmentsAddUp ==
  ASSUME NEW v \in Version, NEW l \in Language, NEW t \in Text, NEW s \in 1..Len(Segments[t])
  PROVE  /\ IsCounts(UpToSegment(v, l, t, s)) /\ IsCounts(CountsOf[v][l][t][Segments[t][s]])
         /\ s = 1 => CountsOf[v][l][t][Segments[t][s]] = UpToSegment(v, l, t, s)
         /\ s # 1 => Plus(UpToSegment(v, l, t, s - 1), CountsOf[v][l][t][Segments[t][s]])
                       = UpToSegment(v, l, t, s)
         /\ s = Len(Segments[t]) => UpToSegment(v, l, t, s) = DocumentCounts(v, l, t)
<1> DEFINE N == Len(Chunks[t])
           segments == Segments[t]
           n == Len(segments)
           a == segments[s].first
           b == segments[s].last
<1>1. N \in Nat /\ Chunks[t] \in Seq(Spans)
  BY ChunksCutTheText DEF Cuts
<1>2. Cuts(segments, N)
  BY SegmentsCutTheChunks
<1>3. segments \in Seq(Spans) /\ n \in Nat
  BY <1>2 DEF Cuts
<1>4. /\ segments[s] \in Spans /\ 1 <= a /\ a <= b
  BY <1>2 DEF Cuts
<1>5. \A k \in 1..n : segments[k].last \in 1..N
  BY <1>1, <1>2, <1>3, CutsStayInside
<1>6. segments[s] = Range_(a, b)
  BY <1>4 DEF Spans, Range_
<1>7. a \in 1..N /\ b \in a..N /\ b \in 1..b /\ 1 \in 1..N /\ b \in 1..N
  <2>1. b \in 1..N /\ a \in Nat
    BY <1>4, <1>5 DEF Spans
  <2> HIDE DEF a, b
  <2> QED  BY <1>1, <1>4, <2>1
<1>8. IsCounts(CountsOf[v][l][t][Range_(a, b)])
  BY <1>7, ChunkCountsAddUp
<1>9. IsCounts(CountsOf[v][l][t][Range_(1, b)])
  <2>1. 1 \in 1..N /\ b \in 1..N
    BY <1>7
  <2> HIDE DEF N, b
  <2> QED  BY <2>1, ChunkCountsAddUp DEF N
<1>10. ASSUME s = 1 PROVE a = 1
  <2>1. segments # <<>>
    BY <1>3, <1>10
  <2> QED  BY <1>2, <1>10, <2>1 DEF Cuts
<1>11. ASSUME s # 1
       PROVE  Plus(UpToSegment(v, l, t, s - 1), CountsOf[v][l][t][segments[s]]) = UpToSegment(v, l, t, s)
  <2>1. s - 1 \in 1..n /\ s - 1 # n /\ (s - 1) + 1 = s
    BY <1>3, <1>11
  <2>2. segments[(s - 1) + 1].first = segments[s - 1].last + 1
    BY <1>2, <2>1 DEF Cuts
  <2>3. segments[s - 1].last \in 1..N
    BY <1>5, <2>1
  <2>4. a = segments[s - 1].last + 1
    BY <2>1, <2>2
  <2>5. segments[s - 1].last = a - 1 /\ a # 1
    BY <1>1, <2>3, <2>4
  <2>6. Plus(CountsOf[v][l][t][Range_(1, a - 1)], CountsOf[v][l][t][Range_(a, b)])
          = CountsOf[v][l][t][Range_(1, b)]
    BY <1>7, <2>5, ChunkCountsAddUp
  <2> QED  BY <1>6, <2>5, <2>6 DEF UpToSegment
<1>12. ASSUME s = n PROVE UpToSegment(v, l, t, s) = DocumentCounts(v, l, t)
  <2>1. segments # <<>>
    BY <1>3, <1>12
  <2>2. b = N
    BY <1>2, <1>12, <2>1 DEF Cuts
  <2>3. Chunks[t] # <<>>
    BY <1>1, <1>7
  <2> QED  BY <2>2, <2>3 DEF UpToSegment, DocumentCounts
<1>13. s = 1 => CountsOf[v][l][t][segments[s]] = UpToSegment(v, l, t, s)
  BY <1>6, <1>10 DEF UpToSegment
<1> QED  BY <1>6, <1>8, <1>9, <1>11, <1>12, <1>13 DEF UpToSegment

(***************************************************************************)
(* Counts by term id.                                                      *)
(***************************************************************************)
LEMMA IdOfTerm ==
  ASSUME NEW terms, NEW surface, surface \in Range(terms)
  PROVE  IdOf(terms, surface) \in DOMAIN terms /\ terms[IdOf(terms, surface)] = surface
<1>1. \E i \in DOMAIN terms : terms[i] = surface
  BY DEF Range
<1> QED  BY <1>1, Zenon DEF IdOf

KeyId(terms, k) == <<IdOf(terms, k[1]), k[2], k[3]>>
KeyIds(c, terms) == {KeyId(terms, k) : k \in DOMAIN c}

(* The id of a key is that of no other key: nothing is lost or merged.     *)
LEMMA CountsByTermId ==
  ASSUME NEW c, IsCounts(c), NEW terms, Resolvable(c, terms)
  PROVE  /\ DOMAIN ByTermId(c, terms) = KeyIds(c, terms)
         /\ \A k \in DOMAIN c : ByTermId(c, terms)[KeyId(terms, k)] = c[k]
         /\ \A k, x \in DOMAIN c : KeyId(terms, k) = KeyId(terms, x) => k = x
         /\ ByTermId(c, terms) = [key \in DOMAIN ByTermId(c, terms) |-> ByTermId(c, terms)[key]]
<1> DEFINE id(k) == <<IdOf(terms, k[1]), k[2], k[3]>>
           ids == [k \in DOMAIN c |-> id(k)]
           by == ByTermId(c, terms)
<1>1. by = [key \in Range(ids) |-> c[CHOOSE k \in DOMAIN c : ids[k] = key]]
  BY Zenon DEF ByTermId
<1>2. ASSUME NEW k \in DOMAIN c, NEW x \in DOMAIN c, id(k) = id(x) PROVE k = x
  <2>1. k[1] \in Range(terms) /\ x[1] \in Range(terms)
    BY DEF Resolvable
  <2>2. terms[IdOf(terms, k[1])] = k[1] /\ terms[IdOf(terms, x[1])] = x[1]
    BY <2>1, IdOfTerm
  <2>3. IdOf(terms, k[1]) = IdOf(terms, x[1]) /\ k[2] = x[2] /\ k[3] = x[3]
    BY <1>2
  <2>4. k = <<k[1], k[2], k[3]>> /\ x = <<x[1], x[2], x[3]>>
    BY Zenon DEF IsCounts
  <2>5. k[1] = x[1]
    BY <2>2, <2>3
  <2> QED  BY <2>3, <2>4, <2>5, Zenon
<1>3. Range(ids) = {id(k) : k \in DOMAIN c}
  BY DEF Range
<1> HIDE DEF id
<1>4. ASSUME NEW k \in DOMAIN c PROVE by[id(k)] = c[k]
  <2>1. id(k) \in Range(ids)
    BY <1>3
  <2>2. by[id(k)] = c[CHOOSE x \in DOMAIN c : ids[x] = id(k)]
    BY <1>1, <2>1, Zenon
  <2>3. \A x \in DOMAIN c : ids[x] = id(k) <=> x = k
    BY <1>2
  <2>4. (CHOOSE x \in DOMAIN c : ids[x] = id(k)) = k
    BY <2>3
  <2> QED  BY <2>2, <2>4
<1>5. DOMAIN by = Range(ids)
  BY <1>1
<1>6. by = [key \in DOMAIN by |-> by[key]]
  BY <1>1
<1> HIDE DEF by
<1>7. /\ DOMAIN by = {id(k) : k \in DOMAIN c}
      /\ \A k \in DOMAIN c : by[id(k)] = c[k]
      /\ \A k, x \in DOMAIN c : id(k) = id(x) => k = x
  BY <1>2, <1>3, <1>4, <1>5
<1> QED  BY <1>6, <1>7 DEF by, id, KeyId, KeyIds

(* remap_cached_annotation_document: counts by the ids of an earlier       *)
(* vocabulary become exactly the counts by the ids of the new one.         *)
LEMMA RemappedCounts ==
  ASSUME NEW c, IsCounts(c), NEW old, NEW new, Resolvable(c, old),
         Remappable(ByTermId(c, old), old, new)
  PROVE  Resolvable(c, new) /\ Remapped(ByTermId(c, old), old, new) = ByTermId(c, new)
<1> DEFINE oldId(k) == KeyId(old, k)
           newId(k) == KeyId(new, k)
           by == ByTermId(c, old)
           wanted == ByTermId(c, new)
           moved(key) == <<IdOf(new, old[key[1]]), key[2], key[3]>>
           moves == [key \in DOMAIN by |-> moved(key)]
           result == Remapped(by, old, new)
<1>1. /\ DOMAIN by = {oldId(k) : k \in DOMAIN c}
      /\ \A k \in DOMAIN c : by[oldId(k)] = c[k]
      /\ \A k, x \in DOMAIN c : oldId(k) = oldId(x) => k = x
  <2>1. IsCounts(c) /\ Resolvable(c, old)
    OBVIOUS
  <2>2. DOMAIN ByTermId(c, old) = {KeyId(old, k) : k \in DOMAIN c}
    <3>1. DOMAIN ByTermId(c, old) = KeyIds(c, old)
      BY <2>1, CountsByTermId
    <3> QED  BY <3>1 DEF KeyIds
  <2>3. \A k \in DOMAIN c : ByTermId(c, old)[KeyId(old, k)] = c[k]
    BY <2>1, CountsByTermId
  <2>4. \A k, x \in DOMAIN c : KeyId(old, k) = KeyId(old, x) => k = x
    BY <2>1, CountsByTermId
  <2> QED  BY <2>2, <2>3, <2>4
<1>2. result = [x \in Range(moves) |-> by[CHOOSE key \in DOMAIN by : moves[key] = x]]
  BY Zenon DEF Remapped
<1>3. ASSUME NEW k \in DOMAIN c PROVE old[oldId(k)[1]] = k[1] /\ k[1] \in Range(new)
  <2>1. k[1] \in Range(old)
    BY DEF Resolvable
  <2>2. oldId(k)[1] = IdOf(old, k[1])
    BY DEF KeyId
  <2>3. old[IdOf(old, k[1])] = k[1]
    BY <2>1, IdOfTerm
  <2>4. oldId(k) \in DOMAIN by
    BY <1>1
  <2> HIDE DEF oldId, by
  <2>5. old[oldId(k)[1]] \in Range(new)
    BY <2>4 DEF Remappable, by
  <2> QED  BY <2>2, <2>3, <2>5
<1>4. Resolvable(c, new)
  BY <1>3 DEF Resolvable
<1>5. /\ DOMAIN wanted = {newId(k) : k \in DOMAIN c}
      /\ \A k \in DOMAIN c : wanted[newId(k)] = c[k]
      /\ \A k, x \in DOMAIN c : newId(k) = newId(x) => k = x
      /\ wanted = [x \in DOMAIN wanted |-> wanted[x]]
  BY <1>4, CountsByTermId DEF KeyIds
<1>6. ASSUME NEW k \in DOMAIN c PROVE oldId(k) \in DOMAIN by /\ moves[oldId(k)] = newId(k)
  <2>1. oldId(k) \in DOMAIN by
    BY <1>1
  <2>2. oldId(k)[2] = k[2] /\ oldId(k)[3] = k[3]
    BY DEF KeyId
  <2>3. moves[oldId(k)] = moved(oldId(k))
    BY <2>1
  <2>4. moved(oldId(k)) = <<IdOf(new, old[oldId(k)[1]]), oldId(k)[2], oldId(k)[3]>>
    OBVIOUS
  <2>5. newId(k) = <<IdOf(new, k[1]), k[2], k[3]>>
    BY DEF KeyId
  <2> HIDE DEF oldId, newId, by, moved, moves
  <2> QED  BY <1>3, <2>1, <2>2, <2>3, <2>4, <2>5
<1> HIDE DEF oldId, newId, by, wanted, moved
<1>7. Range(moves) = {newId(k) : k \in DOMAIN c}
  <2>1. Range(moves) = {moves[key] : key \in DOMAIN by}
    BY DEF Range
  <2> HIDE DEF moves
  <2> QED  BY <1>1, <1>6, <2>1
<1> HIDE DEF moves, result
<1>8. ASSUME NEW k \in DOMAIN c PROVE result[newId(k)] = wanted[newId(k)]
  <2> DEFINE key == CHOOSE key \in DOMAIN by : moves[key] = newId(k)
  <2>1. key \in DOMAIN by /\ moves[key] = newId(k)
    BY <1>6
  <2>2. PICK x \in DOMAIN c : key = oldId(x)
    BY <1>1, <2>1
  <2>3. newId(x) = newId(k)
    BY <1>6, <2>1, <2>2
  <2>4. x = k
    BY <1>5, <2>3
  <2>5. by[key] = c[k]
    BY <1>1, <2>2, <2>4
  <2>6. newId(k) \in Range(moves)
    BY <1>7
  <2>7. result[newId(k)] = by[key]
    BY <1>2, <2>6, Zenon
  <2> QED  BY <1>5, <2>5, <2>7
<1>9. DOMAIN result = DOMAIN wanted /\ result = [x \in DOMAIN result |-> result[x]]
  BY <1>2, <1>5, <1>7
<1>10. result = wanted
  <2>1. \A x \in DOMAIN wanted : result[x] = wanted[x]
    BY <1>5, <1>8
  <2> QED  BY <1>5, <1>9, <2>1, Zenon
<1> QED  BY <1>4, <1>10 DEF result, wanted, by

(***************************************************************************)
(* The cached layer. What is annotated between the two reads of a text may *)
(* have changed, as long as it has as many words: counts are of a text the *)
(* document has had. Here h is the history, which only grows.              *)
(***************************************************************************)
IsCountOf(h, m, i, counts) ==
  \E t \in Text : MayStand(h, m, i, t) /\ counts = ByTermId(CountsAs(m, i, t), m.terms)

LanguagesOK(documents) == \A i \in DOMAIN documents : documents[i].language \in Language

(* Documents of a corpus: their texts are of the history.                  *)
Known(h, documents) ==
  /\ LanguagesOK(documents)
  /\ \A i \in DOMAIN documents : documents[i].text \in h[documents[i].path]

ManifestOK(m) ==
  DocumentsOK(m.documents) /\ LanguagesOK(m.documents) /\ m.model \in Version

(* The layer of an envelope has, for every document of the manifest, the   *)
(* counts of a text that passes for its own.                               *)
Faithful(h, e) ==
  /\ ManifestOK(e.manifest)
  /\ e.layer = [i \in DOMAIN e.manifest.documents |->
                  [path |-> e.manifest.documents[i].path, counts |-> e.layer[i].counts]]
  /\ \A i \in DOMAIN e.manifest.documents : IsCountOf(h, e.manifest, i, e.layer[i].counts)

(* What a build knows of languages, by phase; v is the version it runs on. *)
Asked(h, j) ==
  /\ j.over \in [j.corpus.selection -> Language \cup {NoLanguage}]
  /\ j.borrowed => Known(h, j.corpus.documents)

Described(h, j, v) ==
  /\ j.manifest.documents = j.corpus.documents
  /\ Known(h, j.corpus.documents)
  /\ j.manifest.model = v

DoneFaithfully(h, j) == \A i \in DOMAIN j.done : IsCountOf(h, j.manifest, i, j.done[i])

InputsFit(h, j) ==
  \A n \in 1..Len(j.inputs) :
     /\ PassesFor(h, j.inputs[n].text, j.manifest.documents[j.inputs[n].index].text)
     /\ j.inputs[n].language = j.manifest.documents[j.inputs[n].index].language

(* The counts of the segments done so far of the document of the wave.     *)
Summed(j, v) ==
  IF j.segment = 0 THEN j.partial = NoCounts
  ELSE /\ j.partial = UpToSegment(v, j.wave[1].language, j.wave[1].text, j.segment)
       /\ Resolvable(j.partial, j.manifest.terms)

Gathering(h, j, v) ==
  /\ j.phase = "surface" => Asked(h, j)
  /\ j.phase \in {"cache", "salvage", "inputs", "annotating"} => Described(h, j, v)
  /\ j.phase \in {"inputs", "annotating"} => DoneFaithfully(h, j)
  /\ j.phase = "annotating" => InputsFit(h, j)
  /\ j.phase \notin {"not begun", "writing", "ended"} => Summed(j, v)

FilesFaithful ==
  /\ \A i \in Inodes : content[i].layer # None => Faithful(seen, content[i].layer)
  /\ \A w \in Builds : envelope[w] # None => Faithful(seen, envelope[w])

Gathered ==
  /\ version \in Version
  /\ override \in [Document -> Language \cup {NoLanguage}]
  /\ seen \in [Document -> SUBSET Text]
  /\ \A d \in Document : source[d] \in seen[d]
  /\ Known(seen, session.documents)
  /\ \A b \in Builds : Gathering(seen, build[b], version)

Grows(h, g) == \A d \in DOMAIN h : d \in DOMAIN g /\ h[d] \subseteq g[d]

(* What holds of layers and builds holds on when documents get new texts.  *)
LEMMA StillStands ==
  ASSUME NEW h, NEW g, Grows(h, g), NEW m, NEW i, NEW counts, IsCountOf(h, m, i, counts)
  PROVE  IsCountOf(g, m, i, counts)
BY DEF Grows, IsCountOf, MayStand, PassesFor

LEMMA StillFaithful ==
  ASSUME NEW h, NEW g, Grows(h, g), NEW e, Faithful(h, e)
  PROVE  Faithful(g, e)
BY StillStands DEF Faithful

LEMMA StillKnown ==
  ASSUME NEW h, NEW g, Grows(h, g), NEW documents, Known(h, documents),
         \A i \in DOMAIN documents : documents[i].path \in DOMAIN h
  PROVE  Known(g, documents)
BY DEF Grows, Known

LEMMA StillGathering ==
  ASSUME NEW h, NEW g, Grows(h, g), NEW j, NEW v, JobOK(j), DOMAIN h = Document,
         Gathering(h, j, v)
  PROVE  Gathering(g, j, v)
<1>1. ASSUME Known(h, j.corpus.documents), DocumentsOK(j.corpus.documents)
      PROVE  Known(g, j.corpus.documents)
  <2>1. \A i \in DOMAIN j.corpus.documents : j.corpus.documents[i].path \in DOMAIN h
    BY <1>1 DEF DocumentsOK
  <2> QED  BY <1>1, <2>1, StillKnown
<1>2. j.phase = "surface" => Asked(g, j)
  BY <1>1 DEF Gathering, Asked, JobOK, Surfacing
<1>3. j.phase \in {"cache", "salvage", "inputs", "annotating"} => Described(g, j, v)
  <2>1. j.phase \in {"cache", "salvage", "inputs", "annotating"} => DocumentsOK(j.corpus.documents)
    BY DEF JobOK, Planning, Counted, Annotating
  <2> QED  BY <1>1, <2>1 DEF Gathering, Described
<1>4. j.phase \in {"inputs", "annotating"} => DoneFaithfully(g, j)
  BY StillStands DEF Gathering, DoneFaithfully
<1>5. j.phase = "annotating" => InputsFit(g, j)
  <2>1. \A s, t : PassesFor(h, s, t) => PassesFor(g, s, t)
    BY DEF PassesFor, Grows
  <2> QED  BY <2>1 DEF Gathering, InputsFit
<1> QED  BY <1>2, <1>3, <1>4, <1>5 DEF Gathering

(* Counts of an earlier layer under the same text, language and models are *)
(* counts of the new manifest, by its ids.                                 *)
LEMMA ReusedCount ==
  ASSUME NEW h, NEW old, Faithful(h, old), NEW m, NEW i, NEW k \in DOMAIN old.layer,
         ReuseKey(old.manifest, k) = ReuseKey(m, i),
         Remappable(old.layer[k].counts, old.manifest.terms, m.terms)
  PROVE  IsCountOf(h, m, i, Remapped(old.layer[k].counts, old.manifest.terms, m.terms))
<1> DEFINE o == old.manifest
<1>1. /\ o.documents[k].text = m.documents[i].text
      /\ o.documents[k].language = m.documents[i].language
      /\ o.model = m.model
  BY DEF ReuseKey
<1>2. ManifestOK(o) /\ k \in DOMAIN o.documents
  <2>1. old.layer = [x \in DOMAIN o.documents |->
                       [path |-> o.documents[x].path, counts |-> old.layer[x].counts]]
    BY Zenon DEF Faithful
  <2>2. DOMAIN old.layer = DOMAIN o.documents
    BY <2>1
  <2> QED  BY <2>2 DEF Faithful
<1>3. IsCountOf(h, o, k, old.layer[k].counts)
  BY <1>2 DEF Faithful
<1> HIDE DEF o
<1>4. PICK t \in Text :
        /\ PassesFor(h, t, o.documents[k].text)
        /\ Resolvable(CountsAs(o, k, t), o.terms)
        /\ old.layer[k].counts = ByTermId(CountsAs(o, k, t), o.terms)
  BY <1>3 DEF IsCountOf, MayStand
<1>5. IsCounts(CountsAs(o, k, t))
  <2>1. o.model \in Version /\ o.documents[k].language \in Language
    BY <1>2 DEF ManifestOK, LanguagesOK
  <2> QED  BY <2>1, DocumentCounted DEF CountsAs
<1>6. CountsAs(m, i, t) = CountsAs(o, k, t)
  BY <1>1 DEF CountsAs
<1>7. PassesFor(h, t, m.documents[i].text)
  BY <1>1, <1>4
<1> DEFINE c == CountsAs(o, k, t)
<1> HIDE DEF c
<1>8. /\ Resolvable(c, m.terms)
      /\ Remapped(ByTermId(c, o.terms), o.terms, m.terms) = ByTermId(c, m.terms)
  <2>1. IsCounts(c) /\ Resolvable(c, o.terms) /\ Remappable(ByTermId(c, o.terms), o.terms, m.terms)
    BY <1>4, <1>5 DEF c, o
  <2> QED  BY <2>1, RemappedCounts
<1>9. Remapped(old.layer[k].counts, o.terms, m.terms) = ByTermId(CountsAs(m, i, t), m.terms)
  BY <1>4, <1>6, <1>8 DEF c
<1>10. Resolvable(CountsAs(m, i, t), m.terms)
  BY <1>6, <1>8 DEF c
<1> QED  BY <1>7, <1>9, <1>10 DEF IsCountOf, MayStand, o

(* plan_annotation_cache_salvage takes over nothing but such counts.       *)
LEMMA SalvagedFaithfully ==
  ASSUME NEW h, NEW old, Faithful(h, old), NEW m
  PROVE  \A i \in DOMAIN SalvagePlan(old, m) : IsCountOf(h, m, i, SalvagePlan(old, m)[i])
<1> SUFFICES ASSUME NEW i \in DOMAIN SalvagePlan(old, m)
             PROVE  IsCountOf(h, m, i, SalvagePlan(old, m)[i])
  OBVIOUS
<1> DEFINE same == {k \in DOMAIN old.layer : ReuseKey(old.manifest, k) = ReuseKey(m, i)}
           counts == CHOOSE c \in ReusedFrom(old, m, i) : TRUE
<1>1. /\ ReusedFrom(old, m, i) # {}
      /\ SalvagePlan(old, m)[i] = Remapped(counts, old.manifest.terms, m.terms)
  BY DEF SalvagePlan
<1>2. counts \in ReusedFrom(old, m, i)
  BY <1>1
<1> HIDE DEF counts
<1>3. /\ same # {} /\ counts = old.layer[Min(same)].counts
      /\ Remappable(counts, old.manifest.terms, m.terms)
  BY <1>2 DEF ReusedFrom
<1>4. Min(same) \in same
  <2>1. old.layer = [x \in DOMAIN old.manifest.documents |->
                       [path |-> old.manifest.documents[x].path, counts |-> old.layer[x].counts]]
    BY Zenon DEF Faithful
  <2>2. DOMAIN old.layer = DOMAIN old.manifest.documents
    BY <2>1
  <2>3. DOMAIN old.layer \subseteq Nat
    BY <2>2 DEF Faithful, ManifestOK, DocumentsOK, IsSequence
  <2>4. same \subseteq Nat
    BY <2>3
  <2> HIDE DEF same
  <2>5. \E x \in same : \A y \in same : x <= y
    BY <1>3, <2>4, LeastNatural
  <2> QED  BY <2>5, Zenon DEF Min
<1>5. /\ Min(same) \in DOMAIN old.layer
      /\ ReuseKey(old.manifest, Min(same)) = ReuseKey(m, i)
  BY <1>4
<1> HIDE DEF same
<1> QED  BY <1>1, <1>3, <1>5, ReusedCount

(* A step that only changes what one build knows, or ends it.              *)
LEMMA GatherOne ==
  ASSUME BuildInv, Gathered, NEW b \in Builds, NEW value, Gathering(seen, value, version), Set(b, value),
         version' = version, override' = override, session' = session /\ source' = source /\ seen' = seen
  PROVE  Gathered'
<1>1. build = [c \in Builds |-> build[c]] /\ \A c \in Builds : Gathering(seen, build[c], version)
  BY DEF BuildInv, Gathered
<1>2. build' = [build EXCEPT ![b] = value]
  BY DEF Set
<1>3. \A c \in Builds : build'[c] = IF c = b THEN value ELSE build[c]
  BY <1>1, <1>2
<1>4. \A c \in Builds : Gathering(seen, build'[c], version)
  BY <1>1, <1>3
<1> QED  BY <1>4 DEF Gathered

LEMMA GatherIdle ==
  /\ \A h, v : Gathering(h, NotBegun, v)
  /\ \A h, j, outcome, v : Gathering(h, Ended(j, outcome), v)
  /\ \A h, cancel, v : Gathering(h, [NotBegun EXCEPT !.phase = "writing", !.cancel = cancel], v)
<1>1. /\ IsJob(NotBegun) /\ NotBegun.phase = "not begun"
      /\ NotBegun.segment = 0 /\ NotBegun.partial = NoCounts
  BY DEF IsJob, NotBegun
<1>2. \A h, v : Gathering(h, NotBegun, v)
  BY <1>1 DEF Gathering, Summed
<1>3. ASSUME NEW h, NEW j, NEW outcome, NEW v PROVE Gathering(h, Ended(j, outcome), v)
  <2> DEFINE k == [NotBegun EXCEPT !.phase = "ended", !.outcome = outcome]
  <2>1. k.phase = "ended"
    BY <1>1 DEF IsJob
  <2> HIDE DEF k
  <2>2. Gathering(h, k, v)
    BY <2>1 DEF Gathering
  <2> QED  BY <2>2, Zenon DEF Ended, k
<1>4. ASSUME NEW h, NEW cancel, NEW v
      PROVE  Gathering(h, [NotBegun EXCEPT !.phase = "writing", !.cancel = cancel], v)
  <2> DEFINE k == [NotBegun EXCEPT !.phase = "writing", !.cancel = cancel]
  <2>1. k.phase = "writing"
    BY <1>1 DEF IsJob
  <2> HIDE DEF k
  <2>2. Gathering(h, k, v)
    BY <2>1 DEF Gathering
  <2> QED  BY <2>2 DEF k
<1> QED  BY <1>2, <1>3, <1>4

LEMMA GatherEnds ==
  ASSUME BuildInv, Gathered, NEW b \in Builds, NEW outcome, End(b, outcome),
         version' = version, override' = override, session' = session /\ source' = source /\ seen' = seen
  PROVE  Gathered'
<1>1. Set(b, Ended(b, outcome))
  BY DEF End
<1>2. Gathering(seen, Ended(b, outcome), version)
  BY GatherIdle
<1> QED  BY <1>1, <1>2, GatherOne

LEMMA GatherCancel ==
  ASSUME NEW h, NEW j, IsJob(j), NEW v, Gathering(h, j, v)
  PROVE  Gathering(h, [j EXCEPT !.cancel = TRUE], v)
<1> DEFINE k == [j EXCEPT !.cancel = TRUE]
<1>1. /\ k.phase = j.phase /\ k.over = j.over /\ k.borrowed = j.borrowed /\ k.corpus = j.corpus
      /\ k.manifest = j.manifest /\ k.done = j.done /\ k.inputs = j.inputs
      /\ k.wave = j.wave /\ k.segment = j.segment /\ k.partial = j.partial
  BY DEF IsJob
<1> HIDE DEF k
<1>2. Gathering(h, k, v)
  BY <1>1 DEF Gathering, Asked, Described, DoneFaithfully, InputsFit, Summed
<1> QED  BY <1>2 DEF k

(* The documents of a corpus have languages, detected or set, and texts    *)
(* that their files have.                                                  *)
LEMMA SurfaceKnown ==
  ASSUME NEW over, NEW selection, selection \subseteq Document, source \in [Document -> Text],
         \A d \in selection : over[d] \in Language \cup {NoLanguage},
         \A d \in Document : source[d] \in seen[d]
  PROVE  Known(seen, SurfaceCorpus(selection, over).documents)
<1> DEFINE S == {d \in selection : source[d] # Blank}
           usable == Ascending(S)
           documents == [i \in DOMAIN usable |->
             [path |-> usable[i], text |-> source[usable[i]],
              language |-> LanguageOf(source[usable[i]], over[usable[i]]),
              overridden |-> over[usable[i]] # NoLanguage]]
<1>1. SurfaceCorpus(selection, over) = [selection |-> selection, documents |-> documents]
  BY Zenon DEF SurfaceCorpus
<1>2. SurfaceCorpus(selection, over).documents = documents
  BY <1>1
<1>3. S \subseteq selection /\ S \in SUBSET Document /\ S \subseteq Nat
  BY DocumentAssumption
<1> HIDE DEF S
<1>4. IsFiniteSet(S)
  BY <1>3, DocumentAssumption, FS_Subset
<1>5. Cardinality(S) \in Nat /\ usable \in [1..Cardinality(S) -> S]
  BY <1>3, <1>4, AscendingLists
<1> HIDE DEF usable
<1>6. ASSUME NEW i \in DOMAIN documents
      PROVE  documents[i].language \in Language /\ documents[i].text \in seen[documents[i].path]
  <2>1. usable[i] \in selection /\ usable[i] \in Document
    BY <1>3, <1>5
  <2>2. documents[i].language = LanguageOf(source[usable[i]], over[usable[i]])
    OBVIOUS
  <2>3. documents[i].path = usable[i] /\ documents[i].text = source[usable[i]]
    OBVIOUS
  <2>4. source[usable[i]] \in Text
    BY <2>1
  <2>5. DetectedLanguage[source[usable[i]]] \in Language
    BY <2>4, DetectionAssumption
  <2>6. over[usable[i]] \in Language \cup {NoLanguage}
    BY <2>1
  <2> HIDE DEF documents
  <2>7. documents[i].language \in Language
    BY <2>2, <2>5, <2>6 DEF LanguageOf
  <2> QED  BY <2>1, <2>3, <2>7
<1> HIDE DEF documents
<1> QED  BY <1>2, <1>6 DEF Known, LanguagesOK

LEMMA GatherSurface ==
  ASSUME BuildInv, Gathered, NEW b \in Builds, BuildSurface(b)
  PROVE  Gathered'
<1> DEFINE j == build[b]
           corpus == IF j.borrowed THEN j.corpus ELSE SurfaceCorpus(j.corpus.selection, j.over)
           manifest == Manifest(corpus, j.over)
           k == [j EXCEPT !.phase = "cache", !.corpus = corpus, !.manifest = manifest]
<1>1. /\ j.phase = "surface" /\ Set(b, k)
      /\ version' = version /\ override' = override /\ session' = session /\ source' = source /\ seen' = seen
  BY Zenon DEF BuildSurface, Continues, At, worldVars
<1>2. /\ IsJob(j) /\ Surfacing(j) /\ source \in [Document -> Text]
      /\ Asked(seen, j) /\ Summed(j, version) /\ j.segment = 0
      /\ \A d \in Document : source[d] \in seen[d]
  BY <1>1 DEF BuildInv, JobOK, Gathered, Gathering, Surfacing, Fresh
<1>3. Known(seen, corpus.documents)
  <2>1. CASE j.borrowed
    BY <1>2, <2>1 DEF Asked
  <2>2. CASE ~ j.borrowed
    <3>1. j.corpus.selection \subseteq Document
      BY <1>2 DEF Surfacing
    <3>2. \A d \in j.corpus.selection : j.over[d] \in Language \cup {NoLanguage}
      BY <1>2 DEF Asked
    <3>3. corpus = SurfaceCorpus(j.corpus.selection, j.over)
      BY <2>2
    <3> HIDE DEF j, corpus
    <3> QED  BY <1>2, <3>1, <3>2, <3>3, SurfaceKnown
  <2> QED  BY <2>1, <2>2
<1>4. manifest.documents = corpus.documents /\ manifest.model = version
  BY DEF Manifest
<1> HIDE DEF j, corpus, manifest
<1>5. /\ k.phase = "cache" /\ k.corpus = corpus /\ k.manifest = manifest
      /\ k.segment = j.segment /\ k.partial = j.partial
  BY <1>2 DEF IsJob
<1> HIDE DEF k
<1>6. Gathering(seen, k, version)
  BY <1>2, <1>3, <1>4, <1>5 DEF Gathering, Described, Summed
<1> QED  BY <1>1, <1>6, GatherOne

LEMMA GatherCache ==
  ASSUME BuildInv, Gathered, NEW b \in Builds, LoadCache(b)
  PROVE  Gathered'
<1>1. /\ build[b].phase = "cache"
      /\ version' = version /\ override' = override /\ session' = session /\ source' = source /\ seen' = seen
  BY DEF LoadCache, At, worldVars
<1>2. CASE End(b, "Reused")
  BY <1>1, <1>2, GatherEnds
<1>3. CASE Set(b, [build[b] EXCEPT !.phase = "salvage"])
  <2> DEFINE j == build[b]
             k == [j EXCEPT !.phase = "salvage"]
  <2>1. IsJob(j) /\ Gathering(seen, j, version) /\ j.phase = "cache"
    BY <1>1 DEF BuildInv, JobOK, Gathered
  <2> HIDE DEF j
  <2>2. /\ k.phase = "salvage" /\ k.corpus = j.corpus /\ k.manifest = j.manifest
        /\ k.wave = j.wave /\ k.segment = j.segment /\ k.partial = j.partial
    BY <2>1 DEF IsJob
  <2>3. Set(b, k)
    BY <1>3 DEF j
  <2> HIDE DEF k
  <2>4. Gathering(seen, k, version)
    BY <2>1, <2>2 DEF Gathering, Described, Summed
  <2> QED  BY <1>1, <2>3, <2>4, GatherOne
<1> QED  BY <1>2, <1>3 DEF LoadCache

(* A file that is read holds a faithful layer.                             *)
LEMMA ReadFaithful ==
  ASSUME FileTypes, FilesFaithful, Readable
  PROVE  Faithful(seen, Parsed(final))
<1>1. final \in Inodes /\ Parsed(final) = content[final].layer /\ content[final].layer # None
  BY DEF Readable, Parsed, FileTypes
<1> QED  BY <1>1 DEF FilesFaithful

LEMMA GatherSalvage ==
  ASSUME BuildInv, Gathered, FileTypes, FilesFaithful, NEW b \in Builds, Salvage(b)
  PROVE  Gathered'
<1> DEFINE j == build[b]
           done == IF Readable THEN SalvagePlan(Parsed(final), j.manifest) ELSE <<>>
           words == SumOver([i \in DOMAIN done |-> token_count(j, i)])
           k == [j EXCEPT !.phase = "inputs", !.salvaging = Readable, !.done = done,
                          !.docs_done = Cardinality(DOMAIN done), !.tokens_done = words]
<1>1. /\ j.phase = "salvage" /\ Set(b, k)
      /\ version' = version /\ override' = override /\ session' = session /\ source' = source /\ seen' = seen
  BY Zenon DEF Salvage, Continues, At, worldVars
<1>2. IsJob(j) /\ Gathering(seen, j, version)
  BY <1>1 DEF BuildInv, JobOK, Gathered
<1>3. \A i \in DOMAIN done : IsCountOf(seen, j.manifest, i, done[i])
  <2>1. CASE Readable
    <3>1. done = SalvagePlan(Parsed(final), j.manifest)
      BY <2>1
    <3>2. Faithful(seen, Parsed(final))
      BY <2>1, ReadFaithful
    <3> HIDE DEF done, j
    <3> QED  BY <3>1, <3>2, SalvagedFaithfully
  <2>2. CASE ~ Readable
    <3>1. done = <<>> /\ DOMAIN <<>> = {}
      BY <2>2
    <3> QED  BY <3>1
  <2> QED  BY <2>1, <2>2
<1> HIDE DEF done, j, words
<1>4. /\ k.phase = "inputs" /\ k.corpus = j.corpus /\ k.manifest = j.manifest /\ k.done = done
      /\ k.wave = j.wave /\ k.segment = j.segment /\ k.partial = j.partial
  BY <1>2 DEF IsJob
<1>5. j.phase = "salvage"
  BY <1>1
<1> HIDE DEF k
<1>6. Gathering(seen, k, version)
  BY <1>2, <1>3, <1>4, <1>5 DEF Gathering, Described, DoneFaithfully, Summed
<1> QED  BY <1>1, <1>6, GatherOne

LEMMA GatherNextWave ==
  ASSUME NEW h, NEW j, IsJob(j), NEW v, j.phase = "annotating", Described(h, j, v), DoneFaithfully(h, j),
         InputsFit(h, j), j.segment = 0, j.partial = NoCounts
  PROVE  Gathering(h, WithNextWave(j), v)
<1> DEFINE wave == Staged(j.inputs, j.next)
           k == [j EXCEPT !.wave = wave, !.next = j.next + Len(wave)]
<1>1. WithNextWave(j) = k
  BY Zenon DEF WithNextWave
<1> HIDE DEF wave
<1>2. /\ k.phase = j.phase /\ k.corpus = j.corpus /\ k.manifest = j.manifest /\ k.done = j.done
      /\ k.inputs = j.inputs /\ k.segment = j.segment /\ k.partial = j.partial
  BY DEF IsJob
<1> HIDE DEF k
<1>3. Gathering(h, k, v)
  BY <1>2 DEF Gathering, Described, DoneFaithfully, InputsFit, Summed
<1> QED  BY <1>1, <1>3

LEMMA GatherLoad ==
  ASSUME BuildInv, Gathered, NEW b \in Builds, LoadInputs(b)
  PROVE  Gathered'
<1> DEFINE j == build[b]
           k == [j EXCEPT !.phase = "annotating", !.inputs = Inputs(j)]
<1>1. /\ j.phase = "inputs"
      /\ version' = version /\ override' = override /\ session' = session /\ source' = source /\ seen' = seen
  BY DEF LoadInputs, Continues, At, worldVars
<1>2. IsJob(j) /\ Fresh(j) /\ Counted(j) /\ Gathering(seen, j, version)
  BY <1>1 DEF BuildInv, JobOK, Gathered
<1>3. (InputsAgree(j) /\ Set(b, WithNextWave(k))) \/ End(b, "Failed")
  BY Zenon DEF LoadInputs
<1> HIDE DEF j
<1> DEFINE documents == j.corpus.documents
           T == ToAnnotate(j)
           indices == Ascending(T)
           inputs == [n \in DOMAIN indices |->
             LET document == documents[indices[n]] IN
             [index |-> indices[n], text |-> source[document.path], language |-> document.language]]
           n == Cardinality(T)
<1>4. Inputs(j) = inputs
  BY Zenon DEF Inputs
<1>5. T = DOMAIN documents \ DOMAIN j.done
  BY DEF ToAnnotate
<1>6. DocumentsOK(documents)
  BY <1>2 DEF Counted
<1>7. /\ Described(seen, j, version) /\ DoneFaithfully(seen, j) /\ Summed(j, version)
      /\ j.segment = 0 /\ j.manifest.documents = documents
  BY <1>1, <1>2 DEF Gathering, Fresh, Described
<1> HIDE DEF documents, T
<1>8. T \subseteq Nat /\ IsFiniteSet(T)
  <2>1. T \subseteq DOMAIN documents
    BY <1>5
  <2>2. DOMAIN documents \subseteq Nat
    BY <1>6 DEF DocumentsOK, IsSequence
  <2> QED  BY <1>6, <2>1, <2>2, SomeDocuments
<1>9. n \in Nat /\ indices \in [1..n -> T]
  BY <1>8, AscendingLists
<1> HIDE DEF indices, n
<1>10. DOMAIN inputs = 1..n /\ Len(inputs) = n
  BY <1>9
<1>11. ASSUME NEW x \in 1..n
       PROVE  /\ inputs[x].index = indices[x] /\ indices[x] \in T
              /\ inputs[x].text = source[documents[indices[x]].path]
              /\ inputs[x].language = documents[indices[x]].language
  BY <1>9
<1> HIDE DEF inputs
<1>12. /\ IsJob(k) /\ k.phase = "annotating" /\ k.corpus = j.corpus /\ k.manifest = j.manifest
       /\ k.done = j.done /\ k.inputs = inputs /\ k.segment = j.segment /\ k.partial = j.partial
  BY <1>2, <1>4 DEF IsJob
<1> HIDE DEF k
<1>13. CASE InputsAgree(j) /\ Set(b, WithNextWave(k))
  <2>1. \A i \in T : SameDocument(documents[i], source[documents[i].path])
    BY <1>13, Zenon DEF InputsAgree, documents, T
  <2>2. \A i \in T : PassesFor(seen, source[documents[i].path], documents[i].text)
    <3> TAKE i \in T
    <3>1. /\ documents[i].path \in Document
          /\ documents[i].text \in seen[documents[i].path]
      BY <1>5, <1>6, <1>7 DEF DocumentsOK, Described, Known, documents
    <3>2. /\ source[documents[i].path] \in seen[documents[i].path]
          /\ documents[i].path \in DOMAIN seen
      BY <3>1 DEF Gathered
    <3> QED  BY <2>1, <3>1, <3>2 DEF SameDocument, PassesFor
  <2>3. ASSUME NEW x \in 1..Len(k.inputs)
        PROVE  /\ PassesFor(seen, k.inputs[x].text, k.manifest.documents[k.inputs[x].index].text)
               /\ k.inputs[x].language = k.manifest.documents[k.inputs[x].index].language
    <3>1. x \in 1..n /\ k.inputs[x] = inputs[x] /\ k.manifest.documents = documents
      BY <1>7, <1>10, <1>12
    <3>2. PassesFor(seen, inputs[x].text, documents[indices[x]].text)
      BY <1>11, <2>2, <3>1
    <3> QED  BY <1>11, <3>1, <3>2
  <2>4. InputsFit(seen, k)
    BY <2>3 DEF InputsFit
  <2>5. Described(seen, k, version) /\ DoneFaithfully(seen, k) /\ k.segment = 0 /\ k.partial = NoCounts
    BY <1>7, <1>12 DEF Described, DoneFaithfully, Summed
  <2>6. Gathering(seen, WithNextWave(k), version)
    BY <1>12, <2>4, <2>5, GatherNextWave
  <2> QED  BY <1>1, <1>13, <2>6, GatherOne
<1>14. CASE End(b, "Failed")
  BY <1>1, <1>14, GatherEnds
<1> QED  BY <1>3, <1>13, <1>14

(* The wave of a build that annotates holds inputs.                        *)
LEMMA WaveInputs ==
  ASSUME NEW h, NEW j, Annotating(j), InputsFit(h, j), NEW n \in 1..Len(j.wave)
  PROVE  /\ j.wave[n].text \in Text
         /\ PassesFor(h, j.wave[n].text, j.manifest.documents[j.wave[n].index].text)
         /\ j.wave[n].language = j.manifest.documents[j.wave[n].index].language
         /\ j.wave[n].index \in DOMAIN j.corpus.documents
<1>1. PICK from \in 1..Len(j.inputs) + 1 :
        /\ Ahead(j, from)
        /\ j.next \in from..Len(j.inputs) + 1
        /\ j.wave = SubSeq(j.inputs, from, j.next - 1)
  BY DEF Annotating
<1>2. IsSequence(j.inputs) /\ InputsOK(j.inputs, j.corpus.documents)
  BY <1>1 DEF Ahead, InputsOK
<1>3. /\ from \in Nat /\ Len(j.inputs) \in Nat /\ j.next \in Nat
      /\ Len(j.wave) = j.next - from
      /\ \A x \in 1..Len(j.wave) : j.wave[x] = j.inputs[from + x - 1]
  BY <1>1, <1>2, WaveOf
<1>4. from + n - 1 \in 1..Len(j.inputs) /\ j.wave[n] = j.inputs[from + n - 1]
  <2>1. n \in Nat /\ 1 <= n /\ n <= j.next - from
    BY <1>3
  <2>2. 1 <= from /\ j.next <= Len(j.inputs) + 1
    BY <1>1, <1>3
  <2>3. from + n - 1 \in 1..Len(j.inputs)
    BY <1>3, <2>1, <2>2
  <2> QED  BY <1>3, <2>3
<1> QED  BY <1>2, <1>4 DEF InputsOK, InputsFit

LEMMA GatherWave ==
  ASSUME BuildInv, Gathered, NEW b \in Builds, AnnotateWave(b)
  PROVE  Gathered'
<1> DEFINE j == build[b]
           input(i) == CHOOSE x \in Range(j.wave) : x.index = i
           indices == {x.index : x \in Range(j.wave)}
           counts == [i \in indices \cup DOMAIN j.done |->
                        IF i \in indices
                        THEN ByTermId(CountsOfInput(input(i)), j.manifest.terms) ELSE j.done[i]]
           words == SumOver([i \in indices |-> token_count(j, i)])
           k == [j EXCEPT !.done = counts, !.docs_done = j.docs_done + Cardinality(indices),
                          !.tokens_done = j.tokens_done + words]
<1>1. /\ j.phase = "annotating" /\ ~ Segmented(j.wave)
      /\ version' = version /\ override' = override /\ session' = session /\ source' = source /\ seen' = seen
  BY DEF AnnotateWave, Continues, At, worldVars
<1>2. IsJob(j) /\ Annotating(j) /\ Gathering(seen, j, version)
  BY <1>1 DEF BuildInv, JobOK, Gathered
<1>3. \/ /\ \A x \in Range(j.wave) : Resolvable(CountsOfInput(x), j.manifest.terms)
         /\ Set(b, WithNextWave(k))
      \/ End(b, "Failed")
  BY Zenon DEF AnnotateWave
<1>4. /\ Described(seen, j, version) /\ DoneFaithfully(seen, j) /\ InputsFit(seen, j)
      /\ j.segment = 0 /\ j.partial = NoCounts
  <2>1. j.segment = 0
    BY <1>1, <1>2 DEF Annotating
  <2> QED  BY <1>1, <1>2, <2>1 DEF Gathering, Summed
<1>5. CASE End(b, "Failed")
  BY <1>1, <1>5, GatherEnds
<1>6. CASE /\ \A x \in Range(j.wave) : Resolvable(CountsOfInput(x), j.manifest.terms)
           /\ Set(b, WithNextWave(k))
  <2> HIDE DEF j
  <2>1. ASSUME NEW i \in indices
        PROVE  IsCountOf(seen, j.manifest, i, ByTermId(CountsOfInput(input(i)), j.manifest.terms))
    <3> DEFINE x == input(i)
    <3>1. x \in Range(j.wave) /\ x.index = i
      OBVIOUS
    <3> HIDE DEF x
    <3>2. PICK n \in 1..Len(j.wave) : x = j.wave[n]
      <4>1. DOMAIN j.wave = 1..Len(j.wave)
        <5>1. PICK from \in 1..Len(j.inputs) + 1 :
                /\ Ahead(j, from) /\ j.next \in from..Len(j.inputs) + 1
                /\ j.wave = SubSeq(j.inputs, from, j.next - 1)
          BY <1>2 DEF Annotating
        <5>2. IsSequence(j.inputs)
          BY <5>1 DEF Ahead, InputsOK
        <5> QED  BY <5>1, <5>2, WaveOf
      <4> QED  BY <3>1, <4>1 DEF Range
    <3>3. /\ x.text \in Text /\ PassesFor(seen, x.text, j.manifest.documents[i].text)
          /\ x.language = j.manifest.documents[i].language
      BY <1>2, <1>4, <3>1, <3>2, WaveInputs
    <3>4. CountsOfInput(x) = CountsAs(j.manifest, i, x.text)
      BY <1>4, <3>3 DEF CountsOfInput, CountsAs, Described
    <3>5. Resolvable(CountsAs(j.manifest, i, x.text), j.manifest.terms)
      BY <1>6, <3>1, <3>4
    <3>6. IsCountOf(seen, j.manifest, i, ByTermId(CountsOfInput(x), j.manifest.terms))
      BY <3>3, <3>4, <3>5 DEF IsCountOf, MayStand
    <3> QED  BY <3>6 DEF x
  <2>2. \A i \in DOMAIN counts : IsCountOf(seen, j.manifest, i, counts[i])
    <3> SUFFICES ASSUME NEW i \in indices \cup DOMAIN j.done
                 PROVE  IsCountOf(seen, j.manifest, i, counts[i])
      OBVIOUS
    <3>1. CASE i \in indices
      <4>1. counts[i] = ByTermId(CountsOfInput(input(i)), j.manifest.terms)
        BY <3>1, Zenon
      <4> HIDE DEF counts, indices, input
      <4> QED  BY <2>1, <3>1, <4>1
    <3>2. CASE i \notin indices
      <4>1. counts[i] = j.done[i] /\ i \in DOMAIN j.done
        BY <3>2, Zenon
      <4> HIDE DEF counts, indices, input
      <4> QED  BY <1>4, <4>1 DEF DoneFaithfully
    <3> QED  BY <3>1, <3>2
  <2> HIDE DEF counts, indices, words
  <2>3. /\ IsJob(k) /\ k.phase = j.phase /\ k.corpus = j.corpus /\ k.inputs = j.inputs
        /\ k.done = counts /\ k.manifest = j.manifest
        /\ k.segment = j.segment /\ k.partial = j.partial
    BY <1>2 DEF IsJob
  <2>4. Set(b, WithNextWave(k))
    BY <1>6
  <2>5. j.phase = "annotating"
    BY <1>1
  <2> HIDE DEF k
  <2>6. Described(seen, k, version) /\ DoneFaithfully(seen, k) /\ InputsFit(seen, k)
    BY <1>4, <2>2, <2>3 DEF Described, DoneFaithfully, InputsFit
  <2>7. Gathering(seen, WithNextWave(k), version)
    BY <1>4, <2>3, <2>5, <2>6, GatherNextWave
  <2> QED  BY <1>1, <2>4, <2>7, GatherOne
<1> QED  BY <1>3, <1>5, <1>6

LEMMA GatherSegment ==
  ASSUME BuildInv, Gathered, NEW b \in Builds, AnnotateSegment(b)
  PROVE  Gathered'
<1> DEFINE j == build[b]
           input == j.wave[1]
           words == token_count(j, input.index)
           stretch == Segments[input.text][j.segment + 1]
           counts == CountsOf[version][input.language][input.text][stretch]
           credit == proportional_segment_token_credit(words, Len(TokensOf[input.text]),
                       Chunks[input.text][stretch.last].last, j.credited)
           sum == Plus(j.partial, counts)
           more == [j EXCEPT !.segment = j.segment + 1, !.partial = sum,
                             !.credited = j.credited + credit,
                             !.tokens_done = j.tokens_done + credit]
           done == [i \in {input.index} \cup DOMAIN j.done |->
                      IF i = input.index THEN ByTermId(sum, j.manifest.terms) ELSE j.done[i]]
           missing == Max({words - j.credited, 0})
           whole == [j EXCEPT !.segment = 0, !.partial = NoCounts, !.credited = 0, !.done = done,
                              !.docs_done = j.docs_done + 1,
                              !.tokens_done = j.tokens_done + missing]
           s == j.segment + 1
           n == Len(Segments[input.text])
<1>1. /\ j.phase = "annotating" /\ Segmented(j.wave)
      /\ version' = version /\ override' = override /\ session' = session /\ source' = source /\ seen' = seen
  BY DEF AnnotateSegment, Continues, At, worldVars
<1>2. IsJob(j) /\ Annotating(j) /\ Gathering(seen, j, version)
  BY <1>1 DEF BuildInv, JobOK, Gathered
<1>3. \/ End(b, "Failed")
      \/ /\ Resolvable(counts, j.manifest.terms)
         /\ \/ s < n /\ Set(b, more)
            \/ ~ (s < n) /\ Set(b, WithNextWave(whole))
  BY Zenon DEF AnnotateSegment
<1>4. CASE End(b, "Failed")
  BY <1>1, <1>4, GatherEnds
<1>5. CASE /\ Resolvable(counts, j.manifest.terms)
           /\ \/ s < n /\ Set(b, more)
              \/ ~ (s < n) /\ Set(b, WithNextWave(whole))
  <2> HIDE DEF j
  <2>1. /\ Described(seen, j, version) /\ DoneFaithfully(seen, j) /\ InputsFit(seen, j) /\ Summed(j, version)
        /\ InSegments(j) /\ DocumentsOK(j.corpus.documents)
    <3>1. InSegments(j) /\ DocumentsOK(j.corpus.documents)
      BY <1>1, <1>2 DEF Annotating, Counted
    <3> QED  BY <1>1, <1>2, <3>1 DEF Gathering
  <2>2. Len(j.wave) = 1 /\ StagedWeight(input.text) > TokenBudget
    BY <1>1 DEF Segmented
  <2>3. /\ input.text \in Text /\ input.index \in DOMAIN j.corpus.documents
        /\ PassesFor(seen, input.text, j.manifest.documents[input.index].text)
        /\ input.language = j.manifest.documents[input.index].language
    <3>1. 1 \in 1..Len(j.wave)
      BY <2>2
    <3> QED  BY <1>2, <2>1, <3>1, WaveInputs
  <2>4. version \in Version /\ input.language \in Language
    <3>1. version \in Version
      BY DEF Gathered
    <3> QED  BY <2>1, <2>3, <3>1 DEF Described, Known, LanguagesOK
  <2>5. /\ n \in Nat /\ s \in 1..n /\ j.segment \in Nat /\ s - 1 = j.segment
    <3>1. n \in Nat
      BY <2>2, <2>3, SegmentsOfLong
    <3>2. j.segment \in Nat /\ j.segment < n
      BY <2>1 DEF InSegments
    <3> QED  BY <3>1, <3>2
  <2> DEFINE upTo == UpToSegment(version, input.language, input.text, s)
             before == UpToSegment(version, input.language, input.text, s - 1)
  <2> HIDE DEF input
  <2>6. /\ IsCounts(upTo) /\ IsCounts(counts)
        /\ s = 1 => counts = upTo
        /\ s # 1 => Plus(before, counts) = upTo
        /\ s = n => upTo = DocumentCounts(version, input.language, input.text)
    BY <2>3, <2>4, <2>5, SegmentsAddUp
  <2> HIDE DEF counts, stretch, upTo, n
  <2>7. sum = upTo /\ Resolvable(sum, j.manifest.terms)
    <3>1. CASE j.segment = 0
      <4>1. j.partial = NoCounts /\ s = 1
        BY <2>1, <3>1 DEF Summed
      <4>2. sum = counts
        BY <2>6, <4>1, PlusNothing
      <4> QED  BY <1>5, <2>6, <4>1, <4>2
    <3>2. CASE j.segment # 0
      <4>1. j.partial = before /\ Resolvable(j.partial, j.manifest.terms) /\ s # 1
        BY <2>1, <2>5, <3>2 DEF Summed, input
      <4>2. sum = upTo
        BY <2>6, <4>1
      <4>3. DOMAIN sum = DOMAIN j.partial \cup DOMAIN counts
        BY DEF Plus
      <4> HIDE DEF sum
      <4> QED  BY <1>5, <4>1, <4>2, <4>3 DEF Resolvable
    <3> QED  BY <3>1, <3>2
  <2> HIDE DEF sum, words, credit
  <2>8. CASE s < n /\ Set(b, more)
    <3> DEFINE k == more
    <3>1. /\ k.phase = j.phase /\ k.corpus = j.corpus /\ k.inputs = j.inputs
          /\ k.done = j.done /\ k.manifest = j.manifest /\ k.wave = j.wave
          /\ k.segment = s /\ k.partial = sum
      BY <1>2 DEF IsJob
    <3>2. Set(b, k)
      BY <2>8
    <3>3. j.phase = "annotating"
      BY <1>1
    <3> HIDE DEF k
    <3>4. Described(seen, k, version) /\ DoneFaithfully(seen, k) /\ InputsFit(seen, k)
      BY <2>1, <3>1 DEF Described, DoneFaithfully, InputsFit
    <3>5. Summed(k, version)
      BY <2>5, <2>7, <3>1 DEF Summed, input, upTo
    <3>6. Gathering(seen, k, version)
      BY <3>1, <3>3, <3>4, <3>5 DEF Gathering
    <3> QED  BY <1>1, <3>2, <3>6, GatherOne
  <2>9. CASE ~ (s < n) /\ Set(b, WithNextWave(whole))
    <3>1. s = n
      BY <2>5, <2>9
    <3>2. sum = CountsAs(j.manifest, input.index, input.text)
      BY <2>1, <2>3, <2>6, <2>7, <3>1 DEF CountsAs, Described
    <3>3. IsCountOf(seen, j.manifest, input.index, ByTermId(sum, j.manifest.terms))
      BY <2>3, <2>7, <3>2 DEF IsCountOf, MayStand
    <3>4. \A i \in DOMAIN done : IsCountOf(seen, j.manifest, i, done[i])
      <4> SUFFICES ASSUME NEW i \in {input.index} \cup DOMAIN j.done
                   PROVE  IsCountOf(seen, j.manifest, i, done[i])
        OBVIOUS
      <4>1. CASE i = input.index
        BY <3>3, <4>1
      <4>2. CASE i # input.index
        <5>1. done[i] = j.done[i] /\ i \in DOMAIN j.done
          BY <4>2, Zenon
        <5> HIDE DEF done
        <5> QED  BY <2>1, <5>1 DEF DoneFaithfully
      <4> QED  BY <4>1, <4>2
    <3> HIDE DEF done, missing
    <3> DEFINE k == whole
    <3>5. /\ IsJob(k) /\ k.phase = j.phase /\ k.corpus = j.corpus /\ k.inputs = j.inputs
          /\ k.done = done /\ k.manifest = j.manifest /\ k.segment = 0 /\ k.partial = NoCounts
      BY <1>2 DEF IsJob
    <3>6. Set(b, WithNextWave(k))
      BY <2>9
    <3>7. j.phase = "annotating"
      BY <1>1
    <3> HIDE DEF k
    <3>8. Described(seen, k, version) /\ DoneFaithfully(seen, k) /\ InputsFit(seen, k)
      BY <2>1, <3>4, <3>5 DEF Described, DoneFaithfully, InputsFit
    <3>9. Gathering(seen, WithNextWave(k), version)
      BY <3>5, <3>7, <3>8, GatherNextWave
    <3> QED  BY <1>1, <3>6, <3>9, GatherOne
  <2> QED  BY <1>5, <2>8, <2>9
<1> QED  BY <1>3, <1>4, <1>5

LEMMA GatherBegin ==
  ASSUME BuildInv, Gathered, NEW b \in Builds, NEW selection \in Selections, Begin(b, selection)
  PROVE  Gathered'
<1> DEFINE reusable == Reusable(session, selection, override)
           over == [d \in selection |-> override[d]]
           corpus == [selection |-> selection,
                      documents |-> IF reusable THEN session.documents ELSE <<>>]
           k == [NotBegun EXCEPT !.phase = "surface", !.over = over, !.borrowed = reusable,
                                 !.corpus = corpus]
           others(c) == IF c = current THEN [build[c] EXCEPT !.cancel = TRUE] ELSE build[c]
<1>1. /\ build' = [c \in Builds |-> IF c = b THEN k ELSE others(c)]
      /\ version' = version /\ override' = override /\ session' = session /\ source' = source /\ seen' = seen
  BY Zenon DEF Begin, worldVars
<1>2. selection \subseteq Document
  BY DEF Selections
<1>3. corpus.selection = selection /\ (reusable => corpus.documents = session.documents)
  OBVIOUS
<1>4. over \in [selection -> Language \cup {NoLanguage}]
  BY <1>2 DEF Gathered
<1>5. IsJob(NotBegun) /\ NotBegun.segment = 0 /\ NotBegun.partial = NoCounts
  BY DEF IsJob, NotBegun
<1> HIDE DEF reusable, over, corpus
<1>6. /\ k.phase = "surface" /\ k.over = over /\ k.borrowed = reusable /\ k.corpus = corpus
      /\ k.segment = 0 /\ k.partial = NoCounts
  BY <1>5 DEF IsJob
<1> HIDE DEF k
<1>7. Gathering(seen, k, version)
  <2>1. k.borrowed => Known(seen, k.corpus.documents)
    BY <1>3, <1>6 DEF Gathered
  <2>2. Asked(seen, k) /\ Summed(k, version)
    BY <1>3, <1>4, <1>6, <2>1 DEF Asked, Summed
  <2> QED  BY <1>6, <2>2 DEF Gathering
<1>8. \A c \in Builds : Gathering(seen, others(c), version)
  <2> TAKE c \in Builds
  <2>1. IsJob(build[c]) /\ Gathering(seen, build[c], version)
    BY DEF BuildInv, JobOK, Gathered
  <2> QED  BY <2>1, GatherCancel
<1> HIDE DEF others
<1>9. \A c \in Builds : Gathering(seen, build'[c], version)
  BY <1>1, <1>7, <1>8
<1> QED  BY <1>1, <1>9 DEF Gathered

LEMMA GatherCancelled ==
  ASSUME BuildInv, Gathered, CancelCurrent
  PROVE  Gathered'
<1> DEFINE k == [build[current] EXCEPT !.cancel = TRUE]
<1>1. /\ Set(current, k)
      /\ version' = version /\ override' = override /\ session' = session /\ source' = source /\ seen' = seen
  BY DEF CancelCurrent, worldVars
<1>2. CASE current \in Builds
  <2>1. IsJob(build[current]) /\ Gathering(seen, build[current], version)
    BY <1>2 DEF BuildInv, JobOK, Gathered
  <2>2. Gathering(seen, k, version)
    BY <2>1, GatherCancel
  <2> HIDE DEF k
  <2> QED  BY <1>1, <1>2, <2>2, GatherOne
<1>3. CASE current \notin Builds
  <2>1. build = [b \in Builds |-> build[b]]
    BY DEF BuildInv
  <2> HIDE DEF k
  <2>2. build' = build
    BY <1>1, <1>3, <2>1 DEF Set
  <2> QED  BY <1>1, <2>2 DEF Gathered
<1> QED  BY <1>2, <1>3

LEMMA GatherRestart ==
  ASSUME BuildInv, Gathered, NEW v \in Version, Restart(v)
  PROVE  Gathered'
<1> DEFINE kept(b) == IF build[b].phase \in {"not begun", "ended"} THEN build[b]
                      ELSE Ended(b, "Lost")
<1>1. /\ build' = [b \in Builds |-> kept(b)] /\ version' = v /\ session' = NoCorpus
      /\ override' = override /\ source' = source /\ seen' = seen
  BY Zenon DEF Restart
<1>2. Known(seen, NoCorpus.documents)
  BY DEF Known, LanguagesOK, NoCorpus
<1>3. \A b \in Builds : Gathering(seen, kept(b), v)
  <2> SUFFICES ASSUME NEW b \in Builds PROVE Gathering(seen, kept(b), v)
    OBVIOUS
  <2>1. CASE build[b].phase = "ended"
    <3>1. kept(b) = build[b]
      BY <2>1
    <3> HIDE DEF kept
    <3> QED  BY <2>1, <3>1 DEF Gathering
  <2>2. CASE build[b].phase = "not begun"
    <3>1. kept(b) = build[b]
      BY <2>2
    <3> HIDE DEF kept
    <3> QED  BY <2>2, <3>1 DEF Gathering
  <2>3. CASE build[b].phase \notin {"not begun", "ended"}
    BY <2>3, GatherIdle
  <2> QED  BY <2>1, <2>2, <2>3
<1> HIDE DEF kept
<1>4. \A b \in Builds : Gathering(seen, build'[b], v)
  BY <1>1, <1>3
<1> QED  BY <1>1, <1>2, <1>4 DEF Gathered

LEMMA GatheredInit == Init => Gathered
<1> SUFFICES ASSUME Init PROVE Gathered
  OBVIOUS
<1>1. /\ source \in [Document -> Text] /\ build = [b \in Builds |-> NotBegun]
      /\ override = [d \in Document |-> NoLanguage]
      /\ version = CHOOSE v \in Version : \A w \in Version : v <= w
      /\ seen = [d \in Document |-> {source[d]}]
  BY DEF Init
<1>2. version \in Version
  <2>1. \E v \in Version : \A w \in Version : v <= w
    BY VersionAssumption, LeastNatural
  <2> QED  BY <1>1, <2>1, Zenon
<1>3. override \in [Document -> Language \cup {NoLanguage}]
  BY <1>1
<1>4. seen \in [Document -> SUBSET Text] /\ \A d \in Document : source[d] \in seen[d]
  BY <1>1
<1>5. Known(seen, session.documents)
  <2>1. CASE session = NoCorpus
    BY <2>1 DEF Known, LanguagesOK, NoCorpus
  <2>2. CASE session \in {SurfaceCorpus(selection, override) : selection \in Selections}
    <3>1. PICK selection \in Selections : session = SurfaceCorpus(selection, override)
      BY <2>2
    <3>2. selection \subseteq Document
      BY DEF Selections
    <3>3. \A d \in selection : override[d] \in Language \cup {NoLanguage}
      BY <1>3, <3>2
    <3> QED  BY <1>1, <1>4, <3>1, <3>2, <3>3, SurfaceKnown
  <2> QED  BY <2>1, <2>2 DEF Init
<1>6. \A b \in Builds : Gathering(seen, build[b], version)
  BY <1>1, GatherIdle
<1> QED  BY <1>2, <1>3, <1>4, <1>5, <1>6 DEF Gathered

LEMMA GatheredNext ==
  ASSUME BuildInv, Gathered, FileTypes, FilesFaithful, [Next]_vars
  PROVE  Gathered'
<1>1. ASSUME NEW b \in Builds, BuildStep(b) PROVE Gathered'
  <2>1. CASE BuildSurface(b)
    BY <2>1, GatherSurface
  <2>2. CASE LoadCache(b)
    BY <2>2, GatherCache
  <2>3. CASE Salvage(b)
    BY <2>3, GatherSalvage
  <2>4. CASE LoadInputs(b)
    BY <2>4, GatherLoad
  <2>5. CASE AnnotateWave(b)
    BY <2>5, GatherWave
  <2>6. CASE AnnotateSegment(b)
    BY <2>6, GatherSegment
  <2>7. CASE StartWriting(b)
    <3> DEFINE k == [NotBegun EXCEPT !.phase = "writing", !.cancel = build[b].cancel]
    <3>1. /\ Set(b, k)
          /\ version' = version /\ override' = override /\ session' = session /\ source' = source /\ seen' = seen
      BY <2>7 DEF StartWriting, Continues, worldVars
    <3>2. Gathering(seen, k, version)
      BY GatherIdle
    <3> HIDE DEF k
    <3> QED  BY <3>1, <3>2, GatherOne
  <2>8. CASE \E outcome : /\ End(b, outcome) /\ version' = version /\ override' = override
                          /\ session' = session /\ source' = source /\ seen' = seen
    BY <2>8, GatherEnds
  <2>9. CASE UNCHANGED <<version, override, session, source, seen, build>>
    BY <2>9 DEF Gathered
  <2> QED
    BY <1>1, <2>1, <2>2, <2>3, <2>4, <2>5, <2>6, <2>7, <2>8, <2>9
       DEF BuildStep, StopIfCancelled, Write, CompleteBuild, WriteFails, BuildFails, Finish,
           worldVars, jobVars
<1>2. ASSUME NEW d \in Document, NEW t \in Text, EditText(d, t) PROVE Gathered'
  <2>1. /\ source' = [source EXCEPT ![d] = t] /\ seen' = [seen EXCEPT ![d] = seen[d] \cup {t}]
        /\ version' = version /\ override' = override /\ session' = session /\ build' = build
    BY <1>2 DEF EditText, jobVars
  <2>2. /\ seen \in [Document -> SUBSET Text] /\ source \in [Document -> Text]
        /\ \A e \in Document : source[e] \in seen[e]
    BY DEF Gathered, BuildInv
  <2>3. /\ seen' \in [Document -> SUBSET Text] /\ Grows(seen, seen')
        /\ \A e \in Document : source'[e] \in seen'[e]
    BY <2>1, <2>2 DEF Grows
  <2>4. Known(seen', session.documents)
    <3>1. \A i \in DOMAIN session.documents : session.documents[i].path \in DOMAIN seen
      BY <2>2 DEF BuildInv, DocumentsOK
    <3>2. Known(seen, session.documents)
      BY DEF Gathered
    <3> QED  BY <2>3, <3>1, <3>2, StillKnown
  <2>5. \A b \in Builds : Gathering(seen', build[b], version)
    <3> TAKE b \in Builds
    <3>1. JobOK(build[b]) /\ Gathering(seen, build[b], version) /\ DOMAIN seen = Document
      BY <2>2 DEF BuildInv, Gathered
    <3> QED  BY <2>3, <3>1, StillGathering
  <2>6. version \in Version /\ override \in [Document -> Language \cup {NoLanguage}]
    BY DEF Gathered
  <2> QED  BY <2>1, <2>3, <2>4, <2>5, <2>6 DEF Gathered
<1>3. ASSUME NEW d \in Document, NEW l \in Language \cup {NoLanguage}, SetOverride(d, l)
      PROVE  Gathered'
  BY <1>3 DEF SetOverride, jobVars, Gathered
<1>4. ASSUME NEW selection \in Selections, BuildSession(selection) PROVE Gathered'
  <2>1. /\ session' = SurfaceCorpus(selection, override)
        /\ version' = version /\ override' = override /\ build' = build
        /\ source' = source /\ seen' = seen
    BY <1>4 DEF BuildSession, jobVars
  <2>2. selection \subseteq Document /\ source \in [Document -> Text]
    BY DEF Selections, BuildInv
  <2>3. \A d \in selection : override[d] \in Language \cup {NoLanguage}
    BY <2>2 DEF Gathered
  <2>4. Known(seen, SurfaceCorpus(selection, override).documents)
    <3>1. \A d \in Document : source[d] \in seen[d]
      BY DEF Gathered
    <3> QED  BY <2>2, <2>3, <3>1, SurfaceKnown
  <2> QED  BY <2>1, <2>4 DEF Gathered
<1>5. CASE Rest \/ UNCHANGED vars
  BY <1>5 DEF Rest, vars, worldVars, jobVars, Gathered
<1> QED  BY <1>1, <1>2, <1>3, <1>4, <1>5, GatherBegin, GatherCancelled, GatherRestart DEF Next

(* Everything is annotated when no wave is left, and so the envelope a     *)
(* build starts to write is faithful.                                      *)
LEMMA WrittenFaithful ==
  ASSUME NEW h, NEW j, NEW v \in Version, IsJob(j), Annotating(j), Gathering(h, j, v),
         j.phase = "annotating", j.wave = <<>>
  PROVE  Faithful(h, [manifest |-> j.manifest, layer |-> Layer(j)])
<1> DEFINE e == [manifest |-> j.manifest, layer |-> Layer(j)]
           documents == j.corpus.documents
<1>1. Described(h, j, v) /\ DoneFaithfully(h, j)
  BY DEF Gathering
<1>2. PICK from \in 1..Len(j.inputs) + 1 :
        /\ Counted(j) /\ Ahead(j, from)
        /\ j.next \in from..Len(j.inputs) + 1
        /\ j.wave = SubSeq(j.inputs, from, j.next - 1)
        /\ from <= Len(j.inputs) => from < j.next
  BY DEF Annotating
<1>3. IsSequence(j.inputs)
  BY <1>2 DEF Ahead, InputsOK
<1>4. from \in Nat /\ Len(j.inputs) \in Nat /\ j.next = from
  BY <1>2, <1>3, WaveOf
<1>5. DOMAIN j.done = DOMAIN documents
  <2>1. from..Len(j.inputs) = {}
    BY <1>2, <1>4
  <2>2. Remaining(j, from) = {}
    BY <2>1 DEF Remaining
  <2> QED  BY <1>2, <2>2 DEF Ahead
<1>6. DocumentsOK(documents) /\ LanguagesOK(documents)
      /\ j.manifest.documents = documents /\ j.manifest.model = v
  BY <1>1, <1>2 DEF Counted, Described, Known
<1> HIDE DEF documents
<1>7. Layer(j) = [i \in DOMAIN documents |-> [path |-> documents[i].path, counts |-> j.done[i]]]
  BY DEF Layer, documents
<1>8. e.manifest = j.manifest /\ e.layer = Layer(j)
  OBVIOUS
<1> HIDE DEF e
<1>9. \A i \in DOMAIN documents : e.layer[i].counts = j.done[i]
  BY <1>7, <1>8
<1>10. e.layer = [i \in DOMAIN documents |->
                    [path |-> documents[i].path, counts |-> e.layer[i].counts]]
  BY <1>7, <1>8, <1>9
<1>11. \A i \in DOMAIN documents : IsCountOf(h, j.manifest, i, e.layer[i].counts)
  BY <1>1, <1>5, <1>9 DEF DoneFaithfully
<1>12. ManifestOK(j.manifest)
  BY <1>6 DEF ManifestOK
<1> QED  BY <1>6, <1>8, <1>10, <1>11, <1>12 DEF Faithful, e

LEMMA FilesStayFaithful ==
  ASSUME BuildInv, Gathered, FileTypes, FilesFaithful, [Next]_vars
  PROVE  FilesFaithful'
<1>1. ASSUME NEW b \in Builds, StartWriting(b) PROVE FilesFaithful'
  <2> DEFINE e == [manifest |-> build[b].manifest, layer |-> Layer(build[b])]
  <2>1. CreateTemp(b, e) /\ seen' = seen
    BY <1>1 DEF StartWriting, Continues, worldVars
  <2>2. Faithful(seen, e)
    <3>1. build[b].phase = "annotating" /\ build[b].wave = <<>>
      BY <1>1 DEF StartWriting, Continues, At
    <3>2. /\ IsJob(build[b]) /\ Annotating(build[b]) /\ Gathering(seen, build[b], version)
          /\ version \in Version
      BY <3>1 DEF BuildInv, JobOK, Gathered
    <3> QED  BY <3>1, <3>2, WrittenFaithful
  <2> HIDE DEF e
  <2>3. PICK i \in Inodes : content' = [content EXCEPT ![i] = Empty]
    BY <2>1 DEF CreateTemp
  <2>4. \A x \in Inodes : content'[x] = content[x] \/ content'[x].layer = None
    BY <2>3 DEF FileTypes, Empty
  <2>5. envelope' = [envelope EXCEPT ![b] = e]
    BY <2>1 DEF CreateTemp
  <2>6. \A w \in Builds : envelope'[w] = envelope[w] \/ envelope'[w] = e
    BY <2>5 DEF FileTypes
  <2> QED  BY <2>1, <2>2, <2>4, <2>6 DEF FilesFaithful
<1>2. ASSUME NEW w \in Builds, WriteManifest(w), seen' = seen PROVE FilesFaithful'
  <2>1. content' = [content EXCEPT ![handle[w]].manifest = envelope[w]] /\ envelope' = envelope
    BY <1>2 DEF WriteManifest
  <2>2. \A x \in Inodes : content'[x].layer = content[x].layer
    BY <2>1 DEF FileTypes
  <2> QED  BY <1>2, <2>1, <2>2 DEF FilesFaithful
<1>3. ASSUME NEW w \in Builds, WriteLayer(w), seen' = seen PROVE FilesFaithful'
  <2>1. content' = [content EXCEPT ![handle[w]].layer = envelope[w]] /\ envelope' = envelope
    BY <1>3 DEF WriteLayer
  <2>2. \A x \in Inodes : content'[x].layer \in {content[x].layer, envelope[w]}
    BY <2>1 DEF FileTypes
  <2> QED  BY <1>3, <2>1, <2>2 DEF FilesFaithful
<1>4. ASSUME content' = content, seen' = seen, \A w \in Builds : envelope'[w] \in {envelope[w], None}
      PROVE  FilesFaithful'
  BY <1>4 DEF FilesFaithful
<1>5. ASSUME NEW b \in Builds, Write(b) PROVE FilesFaithful'
  <2>1. seen' = seen
    BY <1>5 DEF Write, worldVars
  <2>2. CASE RemoveFinal(b)
    BY <1>4, <2>1, <2>2 DEF RemoveFinal
  <2> QED  BY <1>2, <1>3, <1>5, <2>1, <2>2 DEF Write
<1>6. ASSUME NEW b \in Builds, CompleteBuild(b) \/ WriteFails(b) PROVE FilesFaithful'
  <2>1. content' = content /\ seen' = seen /\ envelope' = [envelope EXCEPT ![b] = None]
    BY <1>6 DEF CompleteBuild, WriteFails, worldVars, Rename, RenameAgain, Renamed, GiveUp, Idle
  <2>2. \A w \in Builds : envelope'[w] \in {envelope[w], None}
    BY <2>1 DEF FileTypes
  <2> QED  BY <1>4, <2>1, <2>2
<1>7. ASSUME NEW v, Restart(v) PROVE FilesFaithful'
  <2>1. content' = content /\ seen' = seen /\ envelope' = [w \in Builds |-> None]
    BY <1>7 DEF Restart, FileCrash
  <2> QED  BY <1>4, <2>1
<1>8. CASE UNCHANGED <<fileVars, seen>>
  BY <1>4, <1>8 DEF fileVars
<1>9. ASSUME NEW b \in Builds, BuildStep(b) PROVE FilesFaithful'
  BY <1>1, <1>5, <1>6, <1>8, <1>9
     DEF BuildStep, BuildSurface, LoadCache, Salvage, LoadInputs, AnnotateWave,
         AnnotateSegment, StopIfCancelled, BuildFails, Finish, Continues, worldVars
<1>10. CASE \E b \in Builds, selection \in Selections : Begin(b, selection)
  BY <1>8, <1>10 DEF Begin, worldVars
<1>11. ASSUME NEW d \in Document, NEW t \in Text, EditText(d, t) PROVE FilesFaithful'
  <2>1. seen' = [seen EXCEPT ![d] = seen[d] \cup {t}] /\ content' = content /\ envelope' = envelope
    BY <1>11 DEF EditText, fileVars
  <2>2. Grows(seen, seen')
    BY <2>1 DEF Gathered, Grows
  <2> QED  BY <2>1, <2>2, StillFaithful DEF FilesFaithful
<1> QED
  BY <1>7, <1>8, <1>9, <1>10, <1>11
     DEF Next, CancelCurrent, SetOverride, BuildSession, Rest, vars, worldVars

LEMMA FilesFaithfulInit == Init => FilesFaithful
BY DEF Init, FileInit, FilesFaithful, Empty

(* A faithful layer is the one that annotating its documents as some texts *)
(* that may stand for theirs gives.                                        *)
LEMMA FaithfulIsSequential ==
  ASSUME NEW h, NEW e, Faithful(h, e)
  PROVE  \E texts \in [DOMAIN e.manifest.documents -> Text] :
           /\ \A i \in DOMAIN e.manifest.documents : MayStand(h, e.manifest, i, texts[i])
           /\ e.layer = SequentialLayer(e.manifest, texts)
<1> DEFINE m == e.manifest
           D == DOMAIN m.documents
           Fits(i, t) == /\ MayStand(h, m, i, t)
                         /\ e.layer[i].counts = ByTermId(CountsAs(m, i, t), m.terms)
           texts == [i \in D |-> CHOOSE t \in Text : Fits(i, t)]
<1>1. e.layer = [i \in D |-> [path |-> m.documents[i].path, counts |-> e.layer[i].counts]]
  BY DEF Faithful
<1>2. \A i \in D : \E t \in Text : Fits(i, t)
  BY DEF Faithful, IsCountOf
<1> HIDE DEF Fits
<1>3. \A i \in D : (CHOOSE t \in Text : Fits(i, t)) \in Text /\ Fits(i, CHOOSE t \in Text : Fits(i, t))
  BY <1>2
<1>4. texts \in [D -> Text] /\ \A i \in D : Fits(i, texts[i])
  BY <1>3
<1> HIDE DEF texts, D
<1>5. e.layer = SequentialLayer(m, texts)
  <2> DEFINE line(i) == [path |-> m.documents[i].path, counts |-> e.layer[i].counts]
             wanted(i) == [path |-> m.documents[i].path,
                           counts |-> ByTermId(CountsAs(m, i, texts[i]), m.terms)]
  <2>1. \A i \in D : line(i) = wanted(i)
    BY <1>4 DEF Fits
  <2>2. e.layer = [i \in D |-> line(i)]
    BY <1>1
  <2>3. SequentialLayer(m, texts) = [i \in D |-> wanted(i)]
    BY DEF SequentialLayer, D
  <2> HIDE DEF line, wanted
  <2> QED  BY <2>1, <2>2, <2>3
<1>6. \A i \in D : MayStand(h, m, i, texts[i])
  BY <1>4 DEF Fits
<1> QED  BY <1>4, <1>5, <1>6 DEF D

CacheInv == BuildInv /\ Gathered /\ FileTypes /\ FilesFaithful

LEMMA CacheInvHolds ==
  ASSUME \A m, l : [manifest |-> m, layer |-> l] # None
  PROVE  Spec => []CacheInv
<1>1. Init => CacheInv
  <2>1. Init => FileTypes
    BY InitFileInv DEF Init, FileInv
  <2> QED  BY <2>1, BuildInvInit, GatheredInit, FilesFaithfulInit DEF CacheInv
<1>2. CacheInv /\ [Next]_vars => CacheInv'
  <2>1. FileTypes /\ [Next]_vars => FileTypes'
    BY BuildsWriteFiles, FileTypesStep
  <2> QED  BY <2>1, BuildInvNext, GatheredNext, FilesStayFaithful DEF CacheInv
<1> QED  BY <1>1, <1>2, PTL DEF Spec

(* For all texts, languages, models, budgets, builds, edits, failures and  *)
(* restarts: a layer that loads has the documents of its manifest in their *)
(* order, and every one has, by the ids of the manifest's vocabulary, the  *)
(* counts that annotating it on its own gives with the manifest's models   *)
(* and its language, for its text or one that some document had before or  *)
(* after it, with as many words and no word the vocabulary lacks. This is  *)
(* as much as the build checks (verify_annotation_document_identity,       *)
(* validate_reusable_surface_corpus), whatever it salvages, cuts into      *)
(* waves and segments or loses.                                            *)
THEOREM CachedLayersAnnotateTheirTexts ==
  ASSUME \A m, l : [manifest |-> m, layer |-> l] # None
  PROVE  Spec => []CachedLayerAnnotatesItsTexts
<1>1. CacheInv => CachedLayerAnnotatesItsTexts
  <2> SUFFICES ASSUME CacheInv, Readable
               PROVE  \E texts \in [DOMAIN Parsed(final).manifest.documents -> Text] :
                        /\ \A i \in DOMAIN Parsed(final).manifest.documents :
                              MayStand(seen, Parsed(final).manifest, i, texts[i])
                        /\ Parsed(final).layer = SequentialLayer(Parsed(final).manifest, texts)
    BY DEF CachedLayerAnnotatesItsTexts
  <2>1. Faithful(seen, Parsed(final))
    BY ReadFaithful DEF CacheInv
  <2> QED  BY <2>1, FaithfulIsSequential
<1> QED  BY <1>1, CacheInvHolds, PTL

(* The only way to lose exactness is an edit that keeps the number of      *)
(* words: as long as no document has had two texts with as many, a layer   *)
(* that loads is, to the last count and term id, what annotating the very  *)
(* texts of its manifest gives.                                            *)
NoEditKeepsTheWords ==
  \A d \in Document : \A s, t \in seen[d] : TokenCount[s] = TokenCount[t] => s = t

CachedLayerIsTheAnnotation ==
  NoEditKeepsTheWords /\ Readable =>
    Parsed(final).layer
      = SequentialLayer(Parsed(final).manifest, Texts(Parsed(final).manifest.documents))

THEOREM CachedLayerStaysTheAnnotation ==
  ASSUME \A m, l : [manifest |-> m, layer |-> l] # None
  PROVE  Spec => []CachedLayerIsTheAnnotation
<1>1. CacheInv => CachedLayerIsTheAnnotation
  <2> SUFFICES ASSUME CacheInv, NoEditKeepsTheWords, Readable
               PROVE  Parsed(final).layer
                        = SequentialLayer(Parsed(final).manifest,
                                          Texts(Parsed(final).manifest.documents))
    BY DEF CachedLayerIsTheAnnotation
  <2> DEFINE m == Parsed(final).manifest
  <2>1. PICK texts \in [DOMAIN m.documents -> Text] :
          /\ \A i \in DOMAIN m.documents : MayStand(seen, m, i, texts[i])
          /\ Parsed(final).layer = SequentialLayer(m, texts)
    <3>1. Faithful(seen, Parsed(final))
      BY ReadFaithful DEF CacheInv
    <3> QED  BY <3>1, FaithfulIsSequential
  <2>2. DOMAIN seen = Document
    BY DEF CacheInv, Gathered
  <2> HIDE DEF m
  <2>3. \A i \in DOMAIN m.documents : texts[i] = m.documents[i].text
    <3> TAKE i \in DOMAIN m.documents
    <3>1. PassesFor(seen, texts[i], m.documents[i].text)
      BY <2>1 DEF MayStand
    <3> QED  BY <2>2, <3>1 DEF PassesFor, NoEditKeepsTheWords
  <2>4. texts = Texts(m.documents)
    BY <2>1, <2>3 DEF Texts
  <2> QED  BY <2>1, <2>4 DEF m
<1> QED  BY <1>1, CacheInvHolds, PTL
================================================================================
