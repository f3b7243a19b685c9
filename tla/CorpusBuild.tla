----------------------------- MODULE CorpusBuild -----------------------------
(***************************************************************************)
(* The analysis corpus (corpuswright-core analysis/input.rs and build.rs): *)
(* the texts are resolved one by one, counted in parallel, and their       *)
(* counts are merged in the order of the paths into the terms, the surface *)
(* terms and the growth of the vocabulary.                                 *)
(*                                                                         *)
(* A record stands for a DocumentRecord together with what the loaders     *)
(* give for it: [path, pdf, processed, source], the last two a text or     *)
(* Failed.  A text is a sequence of tokens (SurfaceTokens), <<>> the blank *)
(* one.  Documents and records are numbered from 1.                        *)
(***************************************************************************)
EXTENDS SurfaceTokens

CONSTANTS RecordLists,            \* the lists of records a build may be given
          Failed,                 \* a loader's error
          MattrWindow,            \* MATTR_WINDOW_TOKENS
          MtldMinimum,            \* MTLD_MIN_DOCUMENT_TOKENS
          MtldThreshold           \* MTLD_TTR_THRESHOLD, in percent

ASSUME MeasureAssumption ==
  /\ MattrWindow \in Nat \ {0} /\ MtldMinimum \in Nat \ {0} /\ MtldThreshold \in 1..99

VARIABLES records, stage, cancelled,
          loaded,         \* the inputs, in the order of the paths
          mapped,         \* the counts of the inputs mapped so far
          counted,        \* the inputs merged so far
          documents, terms, surface_terms, growth,
          dispersed       \* the terms that have their dispersion
corpusVars == <<documents, terms, surface_terms, growth>>
buildVars == <<records, stage, cancelled, loaded, mapped, counted, corpusVars, dispersed>>

Path(record) == record.path
compare_document_records(left, right) == left.path < right.path
ordered_records(list) ==
  LET rank(r) == Cardinality({i \in DOMAIN list : compare_document_records(list[i], r)}) + 1
  IN [k \in DOMAIN list |-> CHOOSE r \in {list[i] : i \in DOMAIN list} : rank(r) = k]

(* The source text stands in for processed text only when there is none;    *)
(* a blank text excludes the document.                                      *)
resolve_analysis_input(record) ==
  LET fallback == record.processed = Failed
      text == IF fallback THEN record.source ELSE record.processed
  IN IF text \in {Failed, <<>>} THEN [provenance |-> "empty_or_failed", text |-> <<>>]
     ELSE [provenance |-> IF fallback THEN "fallback" ELSE "processed", text |-> text]

(***************************************************************************)
(* Mapping one text.                                                       *)
(***************************************************************************)
aggregation_key(surface) == Fold[surface]

collect_local_term_counts(tokens) ==
  LET firsts == SelectSeq([i \in DOMAIN tokens |-> i],
                          LAMBDA i : \A j \in 1..(i - 1) : tokens[j] # tokens[i])
  IN [k \in DOMAIN firsts |->
        [token |-> tokens[firsts[k]],
         count |-> Cardinality({j \in DOMAIN tokens : tokens[j] = tokens[firsts[k]]}),
         first |-> firsts[k]]]

(* mattr: the type-token ratio of the window of words that slides over the  *)
(* text, averaged.  counts is kept while the window slides; the ratio is    *)
(* <<sum of the types, window * number of windows>>.                        *)
Decreased(counts, key) ==
  IF counts[key] = 1 THEN Restrict(counts, DOMAIN counts \ {key}) ELSE [counts EXCEPT ![key] = @ - 1]
Increased(counts, key) ==
  IF key \in DOMAIN counts THEN [counts EXCEPT ![key] = @ + 1] ELSE counts @@ (key :> 1)

FirstWindow(keys) ==
  FoldLeft(Increased, <<>>, SubSeq(keys, 1, MattrWindow))

Slide(window, keys, start) ==
  LET counts == Increased(Decreased(window.counts, keys[start]), keys[start + MattrWindow])
  IN [counts |-> counts, sum |-> window.sum + Cardinality(DOMAIN counts)]

mattr(keys) ==
  IF Len(keys) < MattrWindow THEN <<>>
  ELSE LET windows == Len(keys) - MattrWindow + 1
           first == FirstWindow(keys)
           end == FoldLeft(LAMBDA window, start : Slide(window, keys, start),
                           [counts |-> first, sum |-> Cardinality(DOMAIN first)],
                           [i \in 1..(windows - 1) |-> i])
       IN <<end.sum, MattrWindow * windows>>

(* mtld_direction: complete factors and the segment that is left; the       *)
(* reversed text gives the other direction.                                 *)
FactorStep(segment, key) ==
  LET types == segment.types \union {key}
      tokens == segment.tokens + 1
  IN IF 100 * Cardinality(types) <= MtldThreshold * tokens
     THEN [factors |-> segment.factors + 1, types |-> {}, tokens |-> 0]
     ELSE [factors |-> segment.factors, types |-> types, tokens |-> tokens]

mtld_direction(keys) ==
  FoldLeft(FactorStep, [factors |-> 0, types |-> {}, tokens |-> 0], keys)

(* A segment left over counts in part, by what its ratio lost towards the   *)
(* threshold.  No value without a factor: a text whose words all differ.    *)
Factors(segment) ==
  LET n == segment.tokens
      lost == n - Cardinality(segment.types)
  IN IF n = 0 THEN <<segment.factors, 1>>
     ELSE <<segment.factors * n * (100 - MtldThreshold) + 100 * lost, n * (100 - MtldThreshold)>>

Average(a, b) == <<a[1] * b[2] + b[1] * a[2], 2 * a[2] * b[2]>>

mtld(keys) ==
  LET forward == Factors(mtld_direction(keys))
      backward == Factors(mtld_direction(Reverse(keys)))
  IN IF Len(keys) < MtldMinimum \/ 0 \in {forward[1], backward[1]} THEN <<>>
     ELSE Average(<<Len(keys) * forward[2], forward[1]>>, <<Len(keys) * backward[2], backward[1]>>)

map_loaded_analysis_input(input) ==
  LET tokens == analysis_word_tokens(input.text)
      keys == [i \in DOMAIN tokens |-> aggregation_key(tokens[i])]
  IN [token_count |-> Len(keys), prepared |-> collect_local_term_counts(keys),
      surfaces |-> collect_local_term_counts(tokens), mattr |-> mattr(keys), mtld |-> mtld(keys)]

(***************************************************************************)
(* The growth of the vocabulary is recorded at 1, 2, 4, ... tokens: growth *)
(* is [tokens, next, points], a point a pair of tokens and types.  A text  *)
(* gives its terms by first occurrence; the checkpoints in between are     *)
(* recorded when the next new term shows how many types there were.        *)
(***************************************************************************)
NoGrowth == [tokens |-> 0, next |-> 1, points |-> <<>>]

record_vocabulary_growth_checkpoint(g, types) ==
  [g EXCEPT !.points = Append(@, <<g.next, types>>), !.next = 2 * @]

Recorded(g, last, types) ==
  LET after[n \in 0..last] ==
        IF n = 0 THEN g
        ELSE IF after[n - 1].next <= last THEN record_vocabulary_growth_checkpoint(after[n - 1], types)
        ELSE after[n - 1]
  IN after[last]

IdOf(token, list) == SelectInSeq(list, LAMBDA term : term.token = token)

prepared_term_id(token, list) ==
  IF IdOf(token, list) # 0 THEN list
  ELSE Append(list, [token |-> token, frequency |-> 0, document_frequency |-> 0,
                     document_counts |-> <<>>, dispersion |-> <<0, 1>>])

\* Mutant: the checkpoints before the term are recorded with the term.
AssignTermLate(state, term) ==
  LET list == prepared_term_id(term.token, state.terms)
  IN [terms |-> list, growth |-> Recorded(state.growth, state.growth.tokens + term.first, Len(list))]

AssignTerm(state, term) ==
  LET position == state.growth.tokens + term.first
      before == Recorded(state.growth, position - 1, Len(state.terms))
      list == prepared_term_id(term.token, state.terms)
  IN [terms |-> list, growth |-> Recorded(before, position, Len(list))]

assign_prepared_term_ids(counts, state) ==
  LET end == FoldLeft(AssignTerm, state, counts.prepared)
      total == end.growth.tokens + counts.token_count
  IN [terms |-> end.terms,
      growth |-> [Recorded(end.growth, total, Len(end.terms)) EXCEPT !.tokens = total]]

(* A term's counts by document, and its totals.                             *)
WithCount(list, term, document) ==
  [list EXCEPT ![IdOf(term.token, list)].frequency = @ + term.count,
               ![IdOf(term.token, list)].document_frequency = @ + 1,
               ![IdOf(term.token, list)].document_counts = @ @@ (document :> term.count)]

surface_term_id(token, list) ==
  IF IdOf(token, list) # 0 THEN list ELSE Append(list, [token |-> token, document_counts |-> <<>>])

WithSurface(list, term, document) ==
  LET known == surface_term_id(term.token, list)
  IN [known EXCEPT ![IdOf(term.token, known)].document_counts = @ @@ (document :> term.count)]

(***************************************************************************)
(* The build.                                                              *)
(***************************************************************************)
BuildInit ==
  /\ records \in RecordLists /\ stage = "loading" /\ cancelled = FALSE
  /\ loaded = <<>> /\ mapped = <<>> /\ counted = 0
  /\ documents = <<>> /\ terms = <<>> /\ surface_terms = <<>> /\ growth = NoGrowth /\ dispersed = 0

CancelBuild ==
  /\ stage \notin {"built", "cancelled", "failed"} /\ ~cancelled /\ cancelled' = TRUE
  /\ UNCHANGED <<records, stage, loaded, mapped, counted, corpusVars, dispersed>>

(* Every loop looks at the flag before its next element.                    *)
ElementsLeft ==
  CASE stage = "loading" -> Len(loaded) < Len(records)
    [] stage = "mapping" -> DOMAIN mapped # DOMAIN loaded
    [] stage = "counting" -> counted < Len(loaded)
    [] stage = "dispersing" -> dispersed < Len(terms)
    [] OTHER -> FALSE

StopBuild ==
  /\ cancelled /\ ElementsLeft /\ stage' = "cancelled"
  /\ UNCHANGED <<records, cancelled, loaded, mapped, counted, corpusVars, dispersed>>

LoadText ==
  /\ stage = "loading" /\ ElementsLeft /\ ~cancelled
  /\ \E record \in {ordered_records(records)[Len(loaded) + 1]} :
       loaded' = Append(loaded, [record |-> record, input |-> resolve_analysis_input(record)])
  /\ UNCHANGED <<records, stage, cancelled, mapped, counted, corpusVars, dispersed>>

(* A record whose text cannot be loaded ends the build.                     *)
LoadFails ==
  /\ stage = "loading" /\ ElementsLeft /\ ~cancelled /\ stage' = "failed"
  /\ UNCHANGED <<records, cancelled, loaded, mapped, counted, corpusVars, dispersed>>

Skipped(k) == loaded[k].input.text = <<>>

(* The inputs are mapped in parallel, in any order.                         *)
MapInput(k) ==
  /\ stage = "mapping" /\ ~cancelled /\ k \notin DOMAIN mapped
  /\ \E counts \in {map_loaded_analysis_input(loaded[k].input)} : mapped' = mapped @@ (k :> counts)
  /\ UNCHANGED <<records, stage, cancelled, loaded, counted, corpusVars, dispersed>>

\* Mutant: the document is numbered by its record.
MergeByRecord(k) ==
  \E counts \in {mapped[k]}, document \in {k} :
  \E assigned \in {assign_prepared_term_ids(counts, [terms |-> terms, growth |-> growth])} :
    /\ documents' = Append(documents, [path |-> Path(loaded[k].record), token_count |-> counts.token_count,
                                       mattr |-> counts.mattr, mtld |-> counts.mtld])
    /\ terms' = FoldLeft(LAMBDA list, term : WithCount(list, term, document), assigned.terms, counts.prepared)
    /\ surface_terms' =
         FoldLeft(LAMBDA list, term : WithSurface(list, term, document), surface_terms, counts.surfaces)
    /\ growth' = assigned.growth

(* One document is merged; its number is that of the documents before it.   *)
MergeDocument(k) ==
  \E counts \in {mapped[k]}, document \in {Len(documents) + 1} :
  \E assigned \in {assign_prepared_term_ids(counts, [terms |-> terms, growth |-> growth])} :
    /\ documents' = Append(documents, [path |-> Path(loaded[k].record), token_count |-> counts.token_count,
                                       mattr |-> counts.mattr, mtld |-> counts.mtld])
    /\ terms' = FoldLeft(LAMBDA list, term : WithCount(list, term, document), assigned.terms, counts.prepared)
    /\ surface_terms' =
         FoldLeft(LAMBDA list, term : WithSurface(list, term, document), surface_terms, counts.surfaces)
    /\ growth' = assigned.growth

CountInput ==
  /\ stage = "counting" /\ ElementsLeft /\ ~cancelled /\ counted' = counted + 1
  /\ IF Skipped(counted + 1) THEN UNCHANGED corpusVars ELSE MergeDocument(counted + 1)
  /\ UNCHANGED <<records, stage, cancelled, loaded, mapped, dispersed>>

TokenCounts == [d \in DOMAIN documents |-> documents[d].token_count]
TotalTokens == growth.tokens

DisperseTerm ==
  /\ stage = "dispersing" /\ ElementsLeft /\ ~cancelled /\ dispersed' = dispersed + 1
  /\ terms' = [terms EXCEPT ![dispersed + 1].dispersion =
                 compute_dispersion(terms[dispersed + 1].document_counts, TokenCounts)]
  /\ UNCHANGED <<records, stage, cancelled, loaded, mapped, counted, documents, surface_terms, growth>>

(* The last point of the growth is the corpus itself.                       *)
LastPoint(points) == points # <<>> /\ points[Len(points)][1] = TotalTokens
AtTheEnd(points) ==
  IF TotalTokens > 0 /\ ~LastPoint(points) THEN Append(points, <<TotalTokens, Len(terms)>>) ELSE points

(* A loop that has no element left goes on to the next one.                 *)
Following == [loading |-> "mapping", mapping |-> "counting", counting |-> "dispersing", dispersing |-> "built"]

FinishLoop ==
  /\ stage \in DOMAIN Following /\ ~ElementsLeft /\ stage' = Following[stage]
  /\ growth' = IF stage = "counting" THEN [growth EXCEPT !.points = AtTheEnd(@)] ELSE growth
  /\ UNCHANGED <<records, cancelled, loaded, mapped, counted, documents, terms, surface_terms, dispersed>>

BuildNext ==
  \/ CancelBuild \/ StopBuild \/ LoadText \/ LoadFails \/ CountInput \/ DisperseTerm \/ FinishLoop
  \/ \E k \in DOMAIN loaded : MapInput(k)
------------------------------------------------------------------------------
(* The corpus as the texts determine it: the words of the documents, one    *)
(* after the other.                                                         *)
TextsOf(list) ==
  SelectSeq([k \in DOMAIN list |-> resolve_analysis_input(ordered_records(list)[k]).text],
            LAMBDA text : text # <<>>)
CorpusWords == FlattenSeq([d \in DOMAIN TextsOf(records) |-> analysis_word_tokens(TextsOf(records)[d])])
TypesAmong(n) == Cardinality({Fold[CorpusWords[i]] : i \in 1..n})

(* The growth of a finished corpus is that of reading its words one by one: *)
(* every point counts the types among the words before it, there is one at  *)
(* each power of two and one at the end.  The code sees each text's words   *)
(* only as a list of first occurrences, counted in parallel (build.rs).     *)
GrowthIsThatOfReading ==
  stage = "built" =>
    \E words \in {CorpusWords} :
      /\ TotalTokens = Len(words)
      /\ {growth.points[i] : i \in DOMAIN growth.points} =
           {<<n, TypesAmong(n)>> : n \in {m \in 1..Len(words) : m = Len(words) \/ \E k \in 0..m : m = 2^k}}
      /\ \A i \in 2..Len(growth.points) : growth.points[i - 1][1] < growth.points[i][1]

(* A moving ratio is the average over the windows, counted one by one, and  *)
(* exists for the texts that have a window (overview.rs mattr keeps the     *)
(* counts of one window while it slides).                                   *)
WindowTypes(words, start) == Cardinality({Fold[words[i]] : i \in start..(start + MattrWindow - 1)})

MattrIsTheWindowsAverage ==
  stage = "built" =>
    \A d \in DOMAIN documents :
      \E words \in {analysis_word_tokens(TextsOf(records)[d])} :
        documents[d].mattr =
          IF Len(words) < MattrWindow THEN <<>>
          ELSE LET starts == 1..(Len(words) - MattrWindow + 1)
               IN <<Total([s \in starts |-> WindowTypes(words, s)]), MattrWindow * Cardinality(starts)>>

(* The counts of a term are those of its words in each text, in one vector  *)
(* by folded key and in one by surface, both add up to the corpus, and the  *)
(* moving ratios are those of the same words (build.rs: merging; frequency  *)
(* lists and distributions read either).                                    *)
Occurrences(text, key) ==
  Cardinality({i \in DOMAIN text : text[i] # Mark /\ Fold[text[i]] = key})

CountsAreThoseOfTheTexts ==
  /\ MattrIsTheWindowsAverage
  /\ stage = "built" =>
    \E texts \in {TextsOf(records)} :
      /\ Len(documents) = Len(texts)
      /\ \A i \in DOMAIN terms :
           /\ terms[i].document_counts =
                [d \in {e \in DOMAIN texts : Occurrences(texts[e], terms[i].token) > 0}
                   |-> Occurrences(texts[d], terms[i].token)]
           /\ terms[i].frequency = Total(terms[i].document_counts)
           /\ terms[i].document_frequency = Cardinality(DOMAIN terms[i].document_counts)
           /\ \A d \in DOMAIN texts :
                Occurrences(texts[d], terms[i].token) =
                  Total([s \in {t \in DOMAIN surface_terms :
                                  /\ Fold[surface_terms[t].token] = terms[i].token
                                  /\ d \in DOMAIN surface_terms[t].document_counts}
                           |-> surface_terms[s].document_counts[d]])
      /\ Total([i \in DOMAIN terms |-> terms[i].frequency]) = TotalTokens
==============================================================================
