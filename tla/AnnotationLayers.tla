---------------------------- MODULE AnnotationLayers ----------------------------
(***************************************************************************)
(* What an annotation layer is made of (corpuswright-core                  *)
(* analysis/annotation_build.rs and annotation/mod.rs): tokens, sentence   *)
(* chunks, the segments a long document is cut into, the tagged words, the *)
(* counts of a document and the remapping of counts of an earlier layer.   *)
(*                                                                         *)
(* A text is a member of Text, standing for its SHA-256 as well; what is   *)
(* read of it is its sequence of tokens, punctuation included.  Surfaces,  *)
(* lemmas and tags are model values.                                       *)
(***************************************************************************)
EXTENDS Integers, Sequences, FiniteSets, SequencesExt, FiniteSetsExt, Functions

CONSTANTS Text, Blank,            \* the texts, and the text without a token
          TokensOf,               \* TokensOf[t]: the tokens of t
          Terminal, Closing,      \* sentence ends and closing delimiters
          WordCap,                \* ANNOTATION_SENTENCE_CHUNK_WORD_CAP
          TokenBudget,            \* annotation_wave_token_budget()
          Language, Version,      \* languages, and versions of the bundled models
          LemmaOf                 \* LemmaOf[v][l][s]: the lemma a model gives to s

ASSUME BudgetAssumption == WordCap \in Nat \ {0} /\ TokenBudget \in Nat \ {0}
ASSUME VersionAssumption == Version \subseteq Nat /\ Version # {}
ASSUME TokensAssumption == \A t \in Text : TokensOf[t] \in Seq(Range(TokensOf[t]))

counts_as_word(token) == token.kind = "word"
Words(tokens) == SelectSeq(tokens, counts_as_word)

(* summary.token_count: the words the text has. *)
TokenCount ==
  [t \in Text |-> Cardinality({i \in DOMAIN TokensOf[t] : counts_as_word(TokensOf[t][i])})]

(* Positions first..last; the code's ranges end one later. *)
Range_(first, last) == [first |-> first, last |-> last]

(***************************************************************************)
(* sentence_chunks: a chunk ends after a terminal and the closing          *)
(* delimiters behind it, and before the word that would exceed the cap.    *)
(***************************************************************************)
IsTerminal(token) == token.kind = "punctuation" /\ token.surface \in Terminal
IsClosing(token) == token.kind = "punctuation" /\ token.surface \in Closing

ChunkStep(cut, i, token) ==
  IF cut.ended /\ IsClosing(token)
  THEN [cut EXCEPT !.chunks[Len(cut.chunks)].last = i, !.start = i + 1]
  ELSE LET full == counts_as_word(token) /\ cut.words = WordCap
           start == IF full THEN i ELSE cut.start
           before == IF full THEN Append(cut.chunks, Range_(cut.start, i - 1)) ELSE cut.chunks
           words == (IF full THEN 0 ELSE cut.words) + (IF counts_as_word(token) THEN 1 ELSE 0)
       IN IF IsTerminal(token)
          THEN [chunks |-> Append(before, Range_(start, i)), start |-> i + 1,
                words |-> 0, ended |-> TRUE]
          ELSE [chunks |-> before, start |-> start, words |-> words, ended |-> FALSE]

sentence_chunks(tokens) ==
  LET cut[i \in 0..Len(tokens)] ==
        IF i = 0 THEN [chunks |-> <<>>, start |-> 1, words |-> 0, ended |-> FALSE]
        ELSE ChunkStep(cut[i - 1], i, tokens[i])
      end == cut[Len(tokens)]
  IN IF end.start <= Len(tokens) THEN Append(end.chunks, Range_(end.start, Len(tokens)))
     ELSE end.chunks

Chunks == [t \in Text |-> sentence_chunks(TokensOf[t])]

(***************************************************************************)
(* annotation_chunk_segments: consecutive chunks whose tokens fit the      *)
(* budget; a chunk above the budget closes the segment it is in.           *)
(***************************************************************************)
Weight(chunk) == chunk.last - chunk.first + 1

SegmentStep(cut, i, chunk) ==
  LET full == cut.start < i /\ cut.weight + Weight(chunk) > TokenBudget
      start == IF full THEN i ELSE cut.start
      weight == (IF full THEN 0 ELSE cut.weight) + Weight(chunk)
      before == IF full THEN Append(cut.segments, Range_(cut.start, i - 1)) ELSE cut.segments
  IN IF Weight(chunk) > TokenBudget
     THEN [segments |-> Append(before, Range_(start, i)), start |-> i + 1, weight |-> 0]
     ELSE [segments |-> before, start |-> start, weight |-> weight]

annotation_chunk_segments(chunks) ==
  LET cut[i \in 0..Len(chunks)] ==
        IF i = 0 THEN [segments |-> <<>>, start |-> 1, weight |-> 0]
        ELSE SegmentStep(cut[i - 1], i, chunks[i])
      end == cut[Len(chunks)]
  IN IF end.start <= Len(chunks) THEN Append(end.segments, Range_(end.start, Len(chunks)))
     ELSE end.segments

Segments == [t \in Text |-> annotation_chunk_segments(Chunks[t])]

(* Max(1, tokens): what a document weighs in a wave. *)
StagedWeight(t) == IF TokensOf[t] = <<>> THEN 1 ELSE Len(TokensOf[t])

(***************************************************************************)
(* Tagging. UDPipe sees one chunk at a time, as one sentence of given      *)
(* tokens: the tag of a word depends on the chunk it stands in, here on    *)
(* whether it opens it.                                                    *)
(***************************************************************************)
cw_udpipe_tag_pretokenized(version, language, tokens) ==
  [i \in DOMAIN tokens |->
     [surface |-> tokens[i].surface,
      lemma |-> LemmaOf[version][language][tokens[i].surface],
      upos |-> IF i = 1 THEN "first" ELSE "inner"]]

(* tag_staged_annotation_chunk: the tokens of a chunk, tagged; the aligner *)
(* accepts them because they come back one for one.                        *)
TaggedChunk(version, language, t, chunk) ==
  cw_udpipe_tag_pretokenized(version, language, SubSeq(TokensOf[t], chunk.first, chunk.last))

(* project_chunk_annotations_to_word_tokens: the words of a chunk with     *)
(* their annotations.                                                      *)
AnnotatedChunk(version, language, t, chunk) ==
  LET tagged == TaggedChunk(version, language, t, chunk)
  IN [i \in {i \in DOMAIN tagged : counts_as_word(TokensOf[t][chunk.first + i - 1])} |-> tagged[i]]

(* Counts per surface, lemma and tag: a function to positive numbers. *)
Key(word) == <<word.surface, word.lemma, word.upos>>
Tally(words) ==
  [k \in {Key(words[i]) : i \in DOMAIN words} |->
     Cardinality({i \in DOMAIN words : Key(words[i]) = k})]
NoCounts == [k \in {} |-> 0]
Plus(c, d) ==
  [k \in DOMAIN c \cup DOMAIN d |->
     (IF k \in DOMAIN c THEN c[k] ELSE 0) + (IF k \in DOMAIN d THEN d[k] ELSE 0)]

(* The counts of chunks first..last of t, chunk after chunk, as every path *)
(* of the build accumulates them.                                          *)
ChunkCounts(version, language, t, first, last) ==
  LET sum[i \in (first - 1)..last] ==
        IF i < first THEN NoCounts
        ELSE Plus(sum[i - 1], Tally(AnnotatedChunk(version, language, t, Chunks[t][i])))
  IN sum[last]

(* The counts of every stretch of chunks, worked out once. *)
CountsOf ==
  [v \in Version |-> [l \in Language |-> [t \in Text |->
     [r \in {Range_(a, b) : a \in 1..Len(Chunks[t]), b \in 1..Len(Chunks[t])} |->
        ChunkCounts(v, l, t, r.first, r.last)]]]]

(***************************************************************************)
(* Surface vocabularies: every surface once, in the order of its first     *)
(* occurrence; a term id is a position in it.                              *)
(***************************************************************************)
NewTerms(terms, words) ==
  LET grown[i \in 0..Len(words)] ==
        IF i = 0 THEN terms
        ELSE IF words[i].surface \in Range(grown[i - 1]) THEN grown[i - 1]
        ELSE Append(grown[i - 1], words[i].surface)
  IN grown[Len(words)]

Vocabulary(texts) ==
  LET grown[i \in 0..Len(texts)] ==
        IF i = 0 THEN <<>> ELSE NewTerms(grown[i - 1], Words(TokensOf[texts[i]]))
  IN grown[Len(texts)]

IdOf(terms, surface) == CHOOSE i \in DOMAIN terms : terms[i] = surface

(* resolve_annotated_tokens_to_local_counts: the counts by term id; defined *)
(* when every surface is in the vocabulary.                                *)
Resolvable(counts, terms) == \A k \in DOMAIN counts : k[1] \in Range(terms)
ByTermId(counts, terms) ==
  LET id == [k \in DOMAIN counts |-> <<IdOf(terms, k[1]), k[2], k[3]>>]
  IN [key \in Range(id) |-> counts[CHOOSE k \in DOMAIN counts : id[k] = key]]

(* remap_cached_annotation_document with the ids of the earlier layer. *)
SameIds(counts, old, new) == counts

(* remap_cached_annotation_document: ids of the earlier vocabulary become  *)
(* ids of the new one.                                                     *)
Remappable(counts, old, new) == \A k \in DOMAIN counts : k[1] \in DOMAIN old /\ old[k[1]] \in Range(new)
Remapped(counts, old, new) ==
  LET id == [k \in DOMAIN counts |-> <<IdOf(new, old[k[1]]), k[2], k[3]>>]
  IN [key \in Range(id) |-> counts[CHOOSE k \in DOMAIN counts : id[k] = key]]

(***************************************************************************)
(* proportional_segment_token_credit: the share of a document's words that *)
(* the segments done so far have earned, less what was credited already.   *)
(***************************************************************************)
SegmentShare(words, tokens, processed) ==
  IF words = 0 \/ tokens = 0 THEN 0
  ELSE Min({(words * Min({processed, tokens})) \div tokens, words})

proportional_segment_token_credit(words, tokens, processed, credited) ==
  Max({SegmentShare(words, tokens, processed) - credited, 0})
================================================================================
