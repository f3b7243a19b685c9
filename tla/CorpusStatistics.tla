--------------------------- MODULE CorpusStatistics ---------------------------
(***************************************************************************)
(* A corpus from its build to its answers: the overview is computed when   *)
(* the terms have their dispersion, an annotation layer may be attached,   *)
(* and the analysis pages ask for lists, rows, comparisons and intervals   *)
(* (corpuswright-core analysis/: build.rs, frequency.rs, distribution.rs,  *)
(* compare.rs, overview.rs, overview_distribution.rs).                     *)
(***************************************************************************)
EXTENDS CorpusOverview

CONSTANTS Lists, AnnotatedLists, Comparisons, Searches, Explorations,    \* the queries asked
          NoAnswer

VARIABLES overview, asked, answer
vars == <<buildVars, annotation, overview, asked, answer>>

Init ==
  /\ BuildInit /\ annotation = NoString
  /\ overview = NoAnswer /\ asked = NoAnswer /\ answer = NoAnswer

Build == BuildNext /\ UNCHANGED <<annotation, overview, asked, answer>>

FinaliseSummaries ==
  /\ stage = "built" /\ overview = NoAnswer
  /\ \E summary \in {build_overview(NoString)} : overview' = summary
  /\ UNCHANGED <<buildVars, annotation, asked, answer>>

Available == stage = "built" /\ overview # NoAnswer /\ asked = NoAnswer

(* The layer reads every word of the corpus.                                *)
AttachLayer ==
  /\ Available /\ annotation = NoString
  /\ annotation' \in {reading \in Readings : \A t \in DOMAIN surface_terms : surface_terms[t].token \in DOMAIN reading}
  /\ UNCHANGED <<buildVars, overview, asked, answer>>

Ask(query) == Available /\ asked' = query /\ UNCHANGED <<buildVars, annotation, overview>>

AskList == \E query \in Lists : Ask(query) /\ answer' \in {query_frequency_list(query)}
AskAnnotated ==
  \E query \in AnnotatedLists : Ask(query) /\ answer' \in {query_annotated_frequency(query)}
FindDocuments ==
  \E query \in Searches :
    /\ Ask(query)
    /\ answer' \in {query_analysis_documents(query.selection, query.finds, query.offset, query.limit)}
Compare == \E query \in Comparisons : Ask(query) /\ answer' \in {compare_expressions(query)}
Explore ==
  \E query \in Explorations :
    /\ Ask(query)
    /\ IF ~validate_query(query) THEN answer' = [metric |-> "refused"]
       ELSE \E rows \in {SortSeq(metric_observations(query.metric), compare_observations)} :
            \E bins \in BinCounts(query, rows) :
            \E rounding \in Roundings(query, rows, bins) :
              answer' \in {Explored(query, rows, bins, rounding)}

Ended == (stage \in {"cancelled", "failed"} \/ asked # NoAnswer) /\ UNCHANGED vars

Next ==
  \/ Build \/ FinaliseSummaries \/ AttachLayer \/ AskList \/ AskAnnotated \/ FindDocuments \/ Compare \/ Explore \/ Ended

Spec == Init /\ [][Next]_vars
------------------------------------------------------------------------------
Answered(queries) == asked # NoAnswer /\ asked \in queries
Cells(page) == {page.items[i] : i \in DOMAIN page.items}
HitsOf(page) == Total([i \in DOMAIN page.items |-> page.items[i].count])
DocumentsHit(page) == Cardinality({i \in DOMAIN page.items : page.items[i].count > 0})

(* A term is what the list says of it in every other view: its distribution *)
(* over the documents has the list's frequency and number of documents.     *)
(* The distribution knows neither the part of speech nor the class of words *)
(* a list is filtered by, and stems the stem once more, so lists without    *)
(* these filters and keys that are their own stems are compared             *)
(* (frequency.rs query_frequency_list, distribution.rs).                    *)
Comparable(query, token) ==
  /\ query.pos = NoString /\ query.class = "all"
  /\ query.group = "stem" /\ query.language \in DOMAIN Stem => Stem[query.language][Fold[token]] = token

ListedTermsAreDistributed ==
  Answered(Lists) =>
    \A row \in Cells(answer.page) :
      Comparable(asked, row.token) =>
        \E page \in {query_term_distribution(row.token, [asked EXCEPT !.offset = 0, !.limit = MaxQueryWindow])} :
          /\ page.token = row.token
          /\ HitsOf(page) = row.frequency /\ DocumentsHit(page) = row.document_frequency

(* An unfiltered list and the annotated rows share out the words selected:  *)
(* no word is in two rows and none is lost, whatever it is grouped by       *)
(* (frequency.rs query_frequency_list, query_annotated_frequency).          *)
SumsOfRows(page) == Total([i \in DOMAIN page.items |-> page.items[i].frequency])
AllShown == answer.page.offset = 0 /\ Len(answer.page.items) = answer.page.total

RowsShareOutTheWords ==
  /\ Answered(Lists) /\ AllShown /\ asked.minimum = 1 /\ ~asked.hide /\ asked.text = NoString
       /\ asked.class = "all" /\ asked.pos = NoString
     => SumsOfRows(answer.page) = answer.tokens
  /\ Answered(AnnotatedLists) /\ AllShown /\ answer.status = "rows" /\ asked.text = NoString
       /\ asked.minimum = 1 /\ ~asked.hide /\ asked.pos = NoString
     => SumsOfRows(answer.page) = answer.tokens

(* The rows of the annotated words are distributed as they are listed       *)
(* (frequency.rs query_annotated_frequency, distribution.rs                 *)
(* query_annotated_term_distribution).                                      *)
SelectorOf(row) ==
  IF asked.by = "pos" THEN [lemma |-> NoString, upos |-> row.token]
  ELSE [lemma |-> row.token[1], upos |-> row.token[2]]

AnnotatedRowsAreDistributed ==
  Answered(AnnotatedLists) =>
    \A row \in Cells(answer.page) :
      \E page \in {query_annotated_term_distribution(SelectorOf(row), [asked EXCEPT !.offset = 0, !.limit = MaxQueryWindow])} :
        HitsOf(page) = row.frequency /\ DocumentsHit(page) = row.document_frequency

(* The comparison reads the texts again and finds what the corpus counted:  *)
(* an expression of one word has the hits, the documents and the dispersion *)
(* of its folded key, and its cells are those counts (compare.rs).          *)
FoldedCounts(key, selected) ==
  Present([d \in selected |-> Total([t \in {u \in DOMAIN surface_terms : Fold[surface_terms[u].token] = key}
                                        |-> SurfaceCount(t, d)])])

ComparisonCountsTheCorpus ==
  Answered(Comparisons) /\ answer.error = "none" /\ ~asked.case =>
    \A e \in DOMAIN answer.expressions :
      \A keys \in {Keys(analysis_word_tokens(asked.expressions[e]), FALSE)} :
        Len(keys) = 1 =>
          \E selected \in {selected_document_mask(asked.selection)} :
          \E counts \in {FoldedCounts(keys[1], selected)} :
            /\ answer.expressions[e].total = Total(counts)
            /\ answer.expressions[e].documents = Cardinality(DOMAIN counts)
            /\ answer.expressions[e].dispersion = compute_dispersion(counts, [d \in selected |-> TokenCounts[d]])
            /\ \A row \in Cells(answer.page) :
                 row.cells[e] = IF row.document \in DOMAIN counts THEN counts[row.document] ELSE 0

(* The views of a term agree.                                               *)
ViewsOfATermAgree ==
  /\ ListedTermsAreDistributed /\ RowsShareOutTheWords
  /\ AnnotatedRowsAreDistributed /\ ComparisonCountsTheCorpus

(* The overview accounts for the corpus: the bands, classes and histograms  *)
(* share out all terms or documents; the samples of a class are its most    *)
(* frequent terms in order, though they are chosen while the terms pass by; *)
(* no witness is named twice; a target's rank is the first that reaches it  *)
(* (overview.rs).                                                           *)
SumOfCounts(classes) == Total([c \in DOMAIN classes |-> classes[c].count])
TopTokens(S, n) ==
  {term.token : term \in {u \in S : Cardinality({v \in S : compare_type_sample(v, u)}) < n}}
TermsWithin(range) == {terms[i] : i \in {j \in DOMAIN terms : Between(terms[j].document_frequency, range)}}

ClassesShowTheirFirst ==
  \A c \in DOMAIN DfClasses :
    \E class \in {overview.dispersion.classes[c]}, all \in {TermsWithin(DfClasses[c])} :
      /\ class.count = Cardinality(all)
      /\ {class.samples[i] : i \in DOMAIN class.samples} = TopTokens(all, SampleLimit)
      /\ Len(class.samples) = Min({SampleLimit, class.count})

FrequencyOfToken(token) == terms[IdOf(token, terms)].frequency
SamplesAreInOrder ==
  \A c \in DOMAIN DfClasses :
    \A i \in 2..Len(overview.dispersion.classes[c].samples) :
      FrequencyOfToken(overview.dispersion.classes[c].samples[i - 1]) >=
        FrequencyOfToken(overview.dispersion.classes[c].samples[i])

AllIsSharedOut ==
  /\ Total(overview.spectrum.bands) = Len(terms)
  /\ SumOfCounts(overview.dispersion.buckets) = Len(terms)
  /\ SumOfCounts(overview.balance.histogram) = Len(documents)
  /\ overview.mattr.used + overview.mattr.excluded = Len(documents)
  /\ overview.mattr_distribution # NoValue =>
       Total(overview.mattr_distribution.counts) = overview.mattr_distribution.used
  /\ Total([p \in DOMAIN overview.spectrum.spectrum.points |->
             overview.spectrum.spectrum.points[p][1] * overview.spectrum.spectrum.points[p][2]]) <= TotalTokens

TargetsAreFirstReached ==
  \A c \in DOMAIN overview.spectrum.crossings :
    \E crossing \in {overview.spectrum.crossings[c]} :
    \E above \in {Cardinality({i \in DOMAIN terms : terms[i].token \in TopTokens({terms[j] : j \in DOMAIN terms}, crossing.rank)})} :
      /\ above = crossing.rank
      /\ 100 * crossing.sum >= crossing.target * TotalTokens
      /\ crossing.sum = Total([i \in {j \in DOMAIN terms : terms[j].token \in
                                         TopTokens({terms[k] : k \in DOMAIN terms}, crossing.rank)}
                                 |-> terms[i].frequency])
      /\ 100 * Total([i \in {j \in DOMAIN terms : terms[j].token \in
                               TopTokens({terms[k] : k \in DOMAIN terms}, crossing.rank - 1)}
                        |-> terms[i].frequency]) < crossing.target * TotalTokens

WitnessesAreDistinct ==
  overview.dispersion.plane # NoValue =>
    \A i, j \in DOMAIN overview.dispersion.plane.witnesses :
      overview.dispersion.plane.witnesses[i].token = overview.dispersion.plane.witnesses[j].token => i = j

OverviewAccountsForTheCorpus ==
  overview # NoAnswer /\ asked = NoAnswer =>
    /\ ClassesShowTheirFirst /\ SamplesAreInOrder /\ AllIsSharedOut
    /\ TargetsAreFirstReached /\ WitnessesAreDistinct

(* A bar of the histogram shows its documents: asked for the bar's interval *)
(* (the upper end belongs to the last bar only), the explorer lists as many *)
(* documents as the bar counts, but for those whose value lies at one of    *)
(* its ends; however the ends are rounded, the bars share out the           *)
(* population, no document is listed for two bars, and none is missing from *)
(* all of them but a longest or a shortest one on the logarithmic scale,    *)
(* whose end is computed back from the logarithm. A point of the cumulative *)
(* distribution counts the documents up to it (overview_distribution.rs,    *)
(* workbench/shell.ts:1169).                                                *)
BarQuery(b) ==
  [metric |-> asked.metric, lower |-> answer.bins[b].lower, upper |-> answer.bins[b].upper,
   lower_inclusive |-> TRUE, upper_inclusive |-> b = Len(answer.bins), descending |-> FALSE,
   offset |-> 0, limit |-> MaxEvidence]
Observed == Range(metric_observations(asked.metric))
ShownBy(b) == {row \in Observed : in_evidence_bounds(row.value, BarQuery(b))}

AtEnd(row, bound) == Side(row.value, [bound EXCEPT !.off = 0]) = 0
AtAnEnd(b) == {row \in Observed : AtEnd(row, answer.bins[b].lower) \/ AtEnd(row, answer.bins[b].upper)}

AtAnExtreme(row) ==
  /\ row.value[1] > 1
  /\ \E bound \in {answer.bins[1].lower, answer.bins[Len(answer.bins)].upper} : bound.by = "log" /\ AtEnd(row, bound)

EvidenceUpto(value) ==
  query_overview_distribution_evidence(
    [metric |-> asked.metric, lower |-> ValueBound(<<0, 1>>), upper |-> ValueBound(value),
     lower_inclusive |-> TRUE, upper_inclusive |-> TRUE, descending |-> TRUE, offset |-> 0, limit |-> 0])

BarsShowTheirDocuments ==
  Answered(Explorations) /\ answer.metric # "refused" =>
    /\ \A b \in DOMAIN answer.bins :
         \E page \in {query_overview_distribution_evidence(BarQuery(b))} :
           /\ page.total - answer.bins[b].count \in -Cardinality(AtAnEnd(b))..Cardinality(AtAnEnd(b))
           /\ Len(page.items) = Min({page.total, MaxEvidence})
           /\ \A c \in DOMAIN answer.bins \ {b} : ShownBy(b) \intersect ShownBy(c) = {}
    /\ answer.bins # <<>> =>
         /\ answer.bins[Len(answer.bins)].cumulative = answer.population
         /\ \A row \in Observed : AtAnExtreme(row) \/ \E b \in DOMAIN answer.bins : row \in ShownBy(b)
    /\ \A p \in DOMAIN answer.ecdf.points : EvidenceUpto(answer.ecdf.points[p].value).total = answer.ecdf.points[p].count
==============================================================================
