---------------------------- MODULE CorpusOverview ----------------------------
(***************************************************************************)
(* The overview of a built corpus (corpuswright-core analysis/overview.rs):*)
(* a record of counts over its documents and its terms.  Documents are     *)
(* [path, token_count, mattr, mtld], terms [token, frequency,              *)
(* document_frequency, dispersion]; a ratio is a pair of numerator and     *)
(* denominator, or <<>> when it is not available.  Logarithms (entropy,    *)
(* the fitted trends, the horizontal position in the plane) and texts are  *)
(* left out.                                                               *)
(***************************************************************************)
EXTENDS FrequencyLists

CONSTANTS FrequentThreshold,       \* FREQUENT_TERM_THRESHOLD
          HighDispersion,          \* HIGH_DISPERSION_THRESHOLD, in percent
          LoudMinimum,             \* PLANE_LOUD_MIN_FREQUENCY
          QuietFrom, QuietTo, QuietDispersion,   \* the quiet and even terms, in percent
          SampleLimit,             \* DISPERSION_SAMPLE_TYPE_LIMIT
          UniversalLimit, RosterLimit, WitnessLimit, MattrWitnessLimit,
          KindLimits,              \* witnesses of each kind: <<core, loud, quiet, rare>>
          FloorDocuments,          \* from so many documents on, a witness is in three of them
          MattrBins,               \* MATTR_DISTRIBUTION_BINS
          PointLimit,              \* MAX_DISTRIBUTION_POINTS
          ShowAll, DocumentLimit,  \* documents are shown up to ShowAll, else DocumentLimit
          Buckets,                 \* document frequencies: sequence of <<from, to>>
          Bands,                   \* frequencies: sequence of <<from, to>>
          DfClasses,               \* document frequencies: sequence of <<from, to>>
          CoverageRanks,           \* the ranks whose coverage is shown
          Targets,                 \* coverage targets, in percent
          SeverityLimits           \* [balance, numeric, dispersion |-> <<look, fix>>, effective, types]

NoValue == <<>>
Share(part, whole) == IF whole > 0 THEN <<part, whole>> ELSE NoValue
Upto(list, n) == SubSeq(list, 1, Min({n, Len(list)}))

(***************************************************************************)
(* Order statistics.                                                       *)
(***************************************************************************)
Ascending(values) == SortSeq(values, <)

(* Linear interpolation between the two neighbours of the position.         *)
percentile(sorted, percent) ==
  IF sorted = <<>> THEN NoValue
  ELSE LET scaled == (Len(sorted) - 1) * percent
           lower == scaled \div 100 + 1
           weight == scaled % 100
           upper == IF weight = 0 THEN lower ELSE lower + 1
       IN <<sorted[lower] * (100 - weight) + sorted[upper] * weight, 100>>

median_f64(ratios) ==
  LET sorted == SortSeq(ratios, Below)
      middle == Len(sorted) \div 2
  IN IF sorted = <<>> THEN NoValue
     ELSE IF Len(sorted) % 2 = 1 THEN sorted[middle + 1]
     ELSE Average(sorted[middle], sorted[middle + 1])

(* A metric that some documents do not have.                                *)
summarise_document_metric(values) ==
  LET known == SelectSeq(values, LAMBDA v : v # NoValue)
      sorted == SortSeq(known, Below)
  IN [median |-> median_f64(known), used |-> Len(known), excluded |-> Len(values) - Len(known),
      minimum |-> IF known = <<>> THEN NoValue ELSE sorted[1],
      maximum |-> IF known = <<>> THEN NoValue ELSE sorted[Len(sorted)]]

SumSeq(values) == FoldSeq(LAMBDA v, sum : v + sum, 0, values)

gini_coefficient(sorted) ==
  LET n == Len(sorted)
      total == SumSeq(sorted)
  IN IF n = 0 THEN NoValue
     ELSE IF total = 0 THEN <<0, 1>>
     ELSE <<2 * SumSeq([i \in DOMAIN sorted |-> i * sorted[i]]) - (n + 1) * total, n * total>>

(* The square of the coefficient of variation.                              *)
coefficient_of_variation(values) ==
  LET n == Len(values)
      total == SumSeq(values)
  IN IF n = 0 \/ total = 0 THEN NoValue
     ELSE <<n * SumSeq([i \in DOMAIN values |-> values[i] * values[i]]) - total * total, total * total>>

effective_document_count(values) ==
  LET total == SumSeq(values)
  IN IF total = 0 THEN NoValue ELSE <<total * total, SumSeq([i \in DOMAIN values |-> values[i] * values[i]])>>

(***************************************************************************)
(* Ranks, spectrum and coverage, over frequencies in descending order.     *)
(***************************************************************************)
sampled_indices(length, maximum) ==
  IF length <= maximum THEN [i \in 1..length |-> i]
  ELSE [i \in 1..maximum |-> ((i - 1) * (length - 1)) \div (maximum - 1) + 1]

Sampled(list) == [i \in DOMAIN sampled_indices(Len(list), PointLimit) |->
                   list[sampled_indices(Len(list), PointLimit)[i]]]

rank_frequency_summary(ranked) ==
  LET fitted == {r \in DOMAIN ranked : r >= 4 /\ ranked[r].frequency > 1}
  IN [fitted |-> IF Cardinality(fitted) >= 2 THEN <<4, Max(fitted)>> ELSE NoValue,
      points |-> Sampled([r \in DOMAIN ranked |-> <<r, ranked[r].token, ranked[r].frequency>>])]

frequency_spectrum(frequencies) ==
  LET classes == Ordered({frequencies[i] : i \in DOMAIN frequencies}, <)
      points == [c \in DOMAIN classes |->
                  <<classes[c], Cardinality({i \in DOMAIN frequencies : frequencies[i] = classes[c]})>>]
  IN [points |-> Sampled(points), truncated |-> Len(points) > PointLimit, total |-> Len(points)]

coverage_checkpoint_ladder(size) ==
  {k \in 1..size : k = size \/ \E m \in {1, 2, 5}, e \in 0..size : k = m * 10^e}

TopSum(frequencies, k) == SumSeq(Upto(frequencies, k))

cumulative_coverage_checkpoints(frequencies, tokens) ==
  IF tokens = 0 THEN {} ELSE {<<k, TopSum(frequencies, k)>> : k \in coverage_checkpoint_ladder(Len(frequencies))}

(* One pass over the ranks; a rank may cross several targets.               *)
CrossTargets(state, frequency) ==
  LET sum == state.sum + frequency
      crossed == {t \in (Len(state.crossings) + 1)..Len(Targets) : 100 * sum >= Targets[t] * state.tokens}
      news == [c \in 1..Cardinality(crossed) |->
                [target |-> Targets[Len(state.crossings) + c], rank |-> state.rank + 1, sum |-> sum]]
  IN [state EXCEPT !.sum = sum, !.rank = @ + 1, !.crossings = @ \o news]

exact_coverage_target_crossings(frequencies, tokens) ==
  IF tokens = 0 THEN <<>>
  ELSE FoldLeft(CrossTargets, [sum |-> 0, rank |-> 0, tokens |-> tokens, crossings |-> <<>>],
                frequencies).crossings

coverage_at(frequencies, threshold, tokens) ==
  IF Len(frequencies) < threshold THEN NoValue ELSE Share(TopSum(frequencies, threshold), tokens)

(***************************************************************************)
(* Samples: the most frequent terms of a class, kept while all terms pass  *)
(* by, the worst of them giving way.                                       *)
(***************************************************************************)
compare_type_sample(left, right) ==
  left.frequency > right.frequency \/ (left.frequency = right.frequency /\ left.token < right.token)

\* Mutant: the last sample gives way.
last_index(samples) == Len(samples)

worst_index(samples) ==
  FoldLeft(LAMBDA worst, i : IF compare_type_sample(samples[worst], samples[i]) THEN i ELSE worst,
           1, [i \in DOMAIN samples |-> i])

consider(samples, term) ==
  IF Len(samples) < SampleLimit THEN Append(samples, term)
  ELSE IF compare_type_sample(term, samples[worst_index(samples)])
       THEN [samples EXCEPT ![worst_index(samples)] = term]
  ELSE samples

into_ordered_tokens(samples) ==
  LET sorted == SortSeq(samples, compare_type_sample)
  IN [i \in DOMAIN sorted |-> sorted[i].token]

(* A class of terms: how many, and its samples.                             *)
ClassOf(list) == [count |-> Len(list), samples |-> into_ordered_tokens(FoldLeft(consider, <<>>, list))]
Between(n, range) == range[1] <= n /\ n <= range[2]

dispersion_profile_buckets(list, n) ==
  LET shown == SelectSeq(Buckets, LAMBDA range : range[1] <= n)
  IN [b \in DOMAIN shown |->
        ClassOf(SelectSeq(list, LAMBDA term : Between(term.document_frequency, shown[b]))) @@ [from |-> shown[b][1]]]

document_frequency_threshold(n, percent) ==
  IF n = 0 THEN 0 ELSE Max({1, Min({n, (n * percent + 99) \div 100})})

DocumentFrequencyClasses(list) ==
  [c \in DOMAIN DfClasses |-> ClassOf(SelectSeq(list, LAMBDA term : Between(term.document_frequency, DfClasses[c])))]

InAll(list, n) == ClassOf(SelectSeq(list, LAMBDA term : term.document_frequency = n))
AtLeast(list, n, percent) ==
  ClassOf(SelectSeq(list, LAMBDA term : /\ document_frequency_threshold(n, percent) > 0
                                         /\ term.document_frequency >= document_frequency_threshold(n, percent)))

universal_types(ranked, threshold) ==
  IF threshold = 0 THEN <<>>
  ELSE Upto(SelectSeq(ranked, LAMBDA term : term.document_frequency >= threshold), UniversalLimit)

(***************************************************************************)
(* Histograms of the documents.                                            *)
(***************************************************************************)
floor_log2_u64(n) == CHOOSE k \in 0..n : 2^k <= n /\ n < 2^(k + 1)

(* One bin for each power of two between the shortest and the longest; an   *)
(* empty document is in the first.                                          *)
document_length_histogram(sorted) ==
  IF sorted = <<>> THEN <<>>
  ELSE LET first == floor_log2_u64(Max({1, sorted[1]}))
           last == floor_log2_u64(Max({1, sorted[Len(sorted)]}))
           bin(n) == IF n = 0 THEN 0 ELSE floor_log2_u64(n) - first
       IN [b \in 1..(last - first + 1) |->
             [from |-> 2^(first + b - 1), to |-> 2^(first + b),
              count |-> Cardinality({i \in DOMAIN sorted : bin(sorted[i]) = b - 1})]]

MattrBin(ratio) ==
  IF ratio[1] >= ratio[2] THEN MattrBins ELSE Min({(ratio[1] * MattrBins) \div ratio[2] + 1, MattrBins})

LowFirst(left, right) ==
  Below(left.mattr, right.mattr) \/ (~Below(right.mattr, left.mattr) /\ left.path < right.path)
HighFirst(left, right) ==
  Below(right.mattr, left.mattr) \/ (~Below(left.mattr, right.mattr) /\ left.path < right.path)

mattr_distribution(list) ==
  LET known == SelectSeq(list, LAMBDA document : document.mattr # NoValue)
      paths(sorted) == [i \in DOMAIN sorted |-> sorted[i].path]
  IN IF known = <<>> THEN NoValue
     ELSE [used |-> Len(known), excluded |-> Len(list) - Len(known),
           counts |-> [b \in 1..MattrBins |->
                        Cardinality({d \in DOMAIN known : MattrBin(known[d].mattr) = b})],
           low |-> paths(Upto(SortSeq(known, LowFirst), MattrWitnessLimit)),
           high |-> paths(Upto(SortSeq(known, HighFirst), MattrWitnessLimit))]

(***************************************************************************)
(* The dispersion plane names a few terms of each corner, no term twice.   *)
(***************************************************************************)
push_dispersion_witness(witnesses, term, kind) ==
  IF Len(witnesses) >= WitnessLimit \/ \E i \in DOMAIN witnesses : witnesses[i].token = term.token
  THEN witnesses ELSE Append(witnesses, [token |-> term.token, kind |-> kind])

OfKind(witnesses, kind) == Cardinality({i \in DOMAIN witnesses : witnesses[i].kind = kind})

PushKind(witnesses, candidates, kind) ==
  FoldLeft(LAMBDA list, term : IF OfKind(list, kind) >= KindLimits[kind] THEN list
                               ELSE push_dispersion_witness(list, term, kind),
           witnesses, candidates)

MoreDispersed(left, right) == Below(right.dispersion, left.dispersion)
Percent(ratio) == (100 * ratio[1]) \div ratio[2]
HighlyDispersed(term) == 100 * term.dispersion[1] >= HighDispersion * term.dispersion[2]

CoreFirst(left, right) ==
  \/ left.frequency > right.frequency
  \/ /\ left.frequency = right.frequency
     /\ \/ left.document_frequency > right.document_frequency
        \/ left.document_frequency = right.document_frequency /\ left.token < right.token
LoudFirst(left, right) ==
  \/ MoreDispersed(left, right)
  \/ /\ ~MoreDispersed(right, left)
     /\ \/ left.document_frequency > right.document_frequency
        \/ left.document_frequency = right.document_frequency /\ compare_type_sample(left, right)
QuietFirst(left, right) ==
  MoreDispersed(right, left) \/ (~MoreDispersed(left, right) /\ compare_type_sample(left, right))

dispersion_plane_witnesses(list, n) ==
  LET spread(term) == term.document_frequency >= (IF n >= FloorDocuments THEN 3 ELSE 1)
      core == Upto(SortSeq(SelectSeq(list, spread), CoreFirst), KindLimits[1])
      loud == SortSeq(SelectSeq(list, LAMBDA term : /\ spread(term) /\ HighlyDispersed(term)
                                                    /\ term.frequency >= LoudMinimum), LoudFirst)
      quiet == SortSeq(SelectSeq(list, LAMBDA term : /\ spread(term) /\ term.frequency \in QuietFrom..(QuietTo - 1)
                                                     /\ Percent(term.dispersion) < QuietDispersion), QuietFirst)
      rare == SortSeq(SelectSeq(list, LAMBDA term : term.document_frequency = 1), compare_type_sample)
      chosen == <<core, loud, quiet, rare>>
  IN FoldLeft(LAMBDA witnesses, kind : PushKind(witnesses, chosen[kind], kind), <<>>, <<1, 2, 3, 4>>)

dispersion_plane(list, n) ==
  IF n < 2 THEN NoValue
  ELSE [witnesses |-> dispersion_plane_witnesses(list, n),
        loud |-> Len(SelectSeq(list, LAMBDA term : term.frequency >= LoudMinimum /\ HighlyDispersed(term)))]

dispersion_roster(ranked) == Upto(ranked, RosterLimit)

(***************************************************************************)
(* Findings: 0 no issue, 1 worth a look, 2 needs fixing.                   *)
(***************************************************************************)
Above(ratio, percent) == 100 * ratio[1] > percent * ratio[2]
Severity(ratio, limits) ==
  IF Above(ratio, limits[2]) THEN 2 ELSE IF 100 * ratio[1] >= limits[1] * ratio[2] THEN 1 ELSE 0

balance_severity(n, tokens, largest, effective) ==
  CASE n = 0 \/ tokens = 0 -> 2
    [] n = 1 -> 1
    [] OTHER -> Max({Severity(largest, SeverityLimits.balance),
                     IF 100 * effective[1] < SeverityLimits.effective * n * effective[2] THEN 1 ELSE 0})

numeric_only(token) == Traits[token].numeric

extraction_severity(types, numeric) ==
  IF types = 0 THEN 2 ELSE Severity(<<numeric, types>>, SeverityLimits.numeric)

lexical_severity(tokens, types) ==
  IF tokens = 0 THEN 2 ELSE IF types < SeverityLimits.types THEN 1 ELSE 0

dispersion_severity(n, frequent, median) ==
  IF n < 2 \/ frequent = 0 THEN 0 ELSE Severity(median, SeverityLimits.dispersion)

analysis_input_label(processed, fallback) ==
  CASE processed = 0 /\ fallback = 0 -> "none"
    [] processed = 0 -> "fallback"
    [] fallback = 0 -> "processed"
    [] OTHER -> "mixed"

(***************************************************************************)
(* build_overview.                                                         *)
(***************************************************************************)
LongestFirst(left, right) ==
  left.token_count > right.token_count \/ (left.token_count = right.token_count /\ left.path < right.path)

Resolved(provenance) ==
  Cardinality({k \in DOMAIN loaded : loaded[k].input.provenance = provenance})

Balance(sorted, lengths, tokens) ==
  LET largest == IF sorted = <<>> THEN NoValue ELSE Share(sorted[1].token_count, tokens)
      effective == effective_document_count(lengths)
  IN [largest |-> largest, effective |-> effective, gini |-> gini_coefficient(lengths),
      top3 |-> SumSeq([i \in DOMAIN Upto(sorted, 3) |-> sorted[i].token_count]),
      variation |-> coefficient_of_variation(lengths), median |-> percentile(lengths, 50),
      histogram |-> document_length_histogram(lengths),
      shown |-> Upto(sorted, IF Len(sorted) > ShowAll THEN DocumentLimit ELSE Len(sorted)),
      severity |-> balance_severity(Len(sorted), tokens, largest, effective)]

Spectrum(ranked, frequencies, tokens) ==
  [bands |-> [b \in DOMAIN Bands |-> Cardinality({r \in DOMAIN frequencies : Between(frequencies[r], Bands[b])})],
   word_like |-> Cardinality({r \in DOMAIN ranked : Traits[ranked[r].token].letter}),
   numeric_only |-> Cardinality({r \in DOMAIN ranked : numeric_only(ranked[r].token)}),
   single |-> Cardinality({r \in DOMAIN ranked : Traits[ranked[r].token].single}),
   top |-> [k \in DOMAIN CoverageRanks |-> coverage_at(frequencies, CoverageRanks[k], tokens)],
   coverage |-> cumulative_coverage_checkpoints(frequencies, tokens),
   crossings |-> exact_coverage_target_crossings(frequencies, tokens),
   spectrum |-> frequency_spectrum(frequencies), ranks |-> rank_frequency_summary(ranked)]

Dispersion(ranked, n) ==
  LET frequent == SelectSeq(terms, LAMBDA term : term.frequency >= FrequentThreshold)
      values == IF n < 2 THEN <<>> ELSE [i \in DOMAIN frequent |-> frequent[i].dispersion]
      median == median_f64(values)
  IN [frequent |-> Len(frequent), median |-> median,
      high |-> IF n < 2 THEN 0 ELSE Len(SelectSeq(frequent, HighlyDispersed)),
      documents_per_type |-> percentile(Ascending([i \in DOMAIN terms |-> terms[i].document_frequency]), 50),
      classes |-> DocumentFrequencyClasses(terms), all |-> InAll(terms, n),
      at_least |-> [p \in {1, 10, 50, 90} |-> AtLeast(terms, n, p)],
      buckets |-> dispersion_profile_buckets(terms, n),
      universal |-> universal_types(ranked, document_frequency_threshold(n, 90)),
      plane |-> dispersion_plane(terms, n), roster |-> dispersion_roster(ranked),
      severity |-> dispersion_severity(n, Len(frequent), median)]

(* sources is the number the project has, or NoString.                      *)
build_overview(sources) ==
  LET n == Len(documents)
      lengths == Ascending([d \in DOMAIN documents |-> documents[d].token_count])
      sorted == SortSeq(documents, LongestFirst)
      ranked == SortSeq(terms, compare_type_sample)
      frequencies == [r \in DOMAIN ranked |-> ranked[r].frequency]
      population == IF sources = NoString THEN Len(records) ELSE sources
      balance == Balance(sorted, lengths, TotalTokens)
      spectrum == Spectrum(ranked, frequencies, TotalTokens)
      dispersion == Dispersion(ranked, n)
      severities == {balance.severity, extraction_severity(Len(terms), spectrum.numeric_only),
                     lexical_severity(TotalTokens, Len(terms)), dispersion.severity}
  IN [documents |-> n, sources |-> population, tokens |-> TotalTokens, types |-> Len(terms),
      empty_or_failed |-> IF population < n THEN 0 ELSE population - n,
      skipped_pdf |-> Cardinality({k \in DOMAIN loaded : Skipped(k) /\ loaded[k].record.pdf}),
      text_source |-> analysis_input_label(Resolved("processed"), Resolved("fallback")),
      balance |-> balance, spectrum |-> spectrum, dispersion |-> dispersion,
      mattr |-> summarise_document_metric([d \in DOMAIN documents |-> documents[d].mattr]),
      mtld |-> summarise_document_metric([d \in DOMAIN documents |-> documents[d].mtld]),
      mattr_distribution |-> mattr_distribution(documents),
      verdict |-> IF TotalTokens = 0 THEN 3 ELSE Max(severities)]

(***************************************************************************)
(* The explorer of a document metric (corpuswright-core                    *)
(* analysis/overview_distribution.rs): a histogram, the cumulative         *)
(* distribution, quantiles, and the documents behind an interval.          *)
(*                                                                         *)
(* Values are ratios; LogOf stands for the logarithm, so that a bound is   *)
(* either a value or a logarithm. Arithmetic is exact, but for the edges   *)
(* of the bins, which are rounded either way. The Scott and                *)
(* Freedman-Diaconis rules take roots: their bin count is any one the code *)
(* may come to.                                                            *)
(***************************************************************************)
CONSTANTS LogOf,                   \* LogOf[n]: the logarithm of n >= 1, in some unit
          MinManualBins, MaxBins,
          DefaultPoints, MinPoints, MaxPoints,
          DefaultEvidence, MaxEvidence,
          ExplorerWitnesses        \* WITNESS_LIMIT

validate_query(query) == ~(query.metric = "mattr" /\ (query.scale = "log" \/ query.reference = "lognormal"))

ValueOf(document, metric) == IF metric = "mattr" THEN document.mattr ELSE <<document.token_count, 1>>

metric_observations(metric) ==
  SelectSeq([d \in DOMAIN documents |->
              [document |-> d, path |-> documents[d].path, value |-> ValueOf(documents[d], metric)]],
            LAMBDA row : row.value # NoValue)

compare_observations(left, right) ==
  Below(left.value, right.value) \/ (~Below(right.value, left.value) /\ left.path < right.path)

Same(a, b) == ~Below(a, b) /\ ~Below(b, a)

(***************************************************************************)
(* Quantiles and bounded lists of points.                                  *)
(***************************************************************************)
quantile(sorted, percent) ==
  IF sorted = <<>> THEN NoValue
  ELSE LET scaled == (Len(sorted) - 1) * percent
           lower == sorted[scaled \div 100 + 1]
           weight == scaled % 100
           upper == sorted[IF weight = 0 THEN scaled \div 100 + 1 ELSE scaled \div 100 + 2]
       IN <<lower[1] * upper[2] * (100 - weight) + upper[1] * lower[2] * weight, 100 * lower[2] * upper[2]>>

effective_point_limit(requested) ==
  IF requested = 0 THEN DefaultPoints ELSE Max({MinPoints, Min({requested, MaxPoints})})

bounded_indices(total, limit) ==
  IF total <= limit THEN [i \in 1..total |-> i]
  ELSE [i \in 1..limit |-> ((i - 1) * (total - 1)) \div (limit - 1) + 1]

ecdf(sorted, limit) ==
  LET ends == SelectSeq([i \in DOMAIN sorted |-> i],
                        LAMBDA i : i = Len(sorted) \/ ~Same(sorted[i], sorted[i + 1]))
      shown == bounded_indices(Len(ends), limit)
  IN [unique |-> Len(ends),
      points |-> [p \in DOMAIN shown |-> [value |-> sorted[ends[shown[p]]], count |-> ends[shown[p]]]]]

(* The observed values by rank; the plotting position is (rank - 1/2) / n.  *)
qq(sorted, limit) ==
  LET shown == bounded_indices(Len(sorted), limit)
  IN [p \in DOMAIN shown |-> [observed |-> sorted[shown[p]], rank |-> shown[p],
                              position |-> <<2 * shown[p] - 1, 2 * Len(sorted)>>]]

robust_qq_line(sorted) == <<quantile(sorted, 25), quantile(sorted, 75)>>

(***************************************************************************)
(* The number of bins.                                                     *)
(***************************************************************************)
transform_for_scale(value, scale) == IF scale = "log" THEN <<LogOf[Max({1, value[1]})], 1>> ELSE value

sturges_bin_count(n) == IF n = 0 THEN 0 ELSE Min({MaxBins, CHOOSE k \in 1..(n + 1) : 2^(k - 1) >= n /\ (k = 1 \/ 2^(k - 2) < n)})

OneValue(sorted) == Len(sorted) <= 1 \/ Same(sorted[1], sorted[Len(sorted)])

scott_bin_count(sorted) == 1..MaxBins
freedman_diaconis_bin_count(sorted) ==
  IF Same(quantile(sorted, 25), quantile(sorted, 75)) THEN {} ELSE 1..MaxBins

(* A rule that gives no width leaves the count to the next one.             *)
choose_bin_count(sorted, rule, manual) ==
  LET scott == scott_bin_count(sorted)
      freedman == freedman_diaconis_bin_count(sorted)
      sturges == {sturges_bin_count(Len(sorted))}
  IN CASE OneValue(sorted) -> {IF sorted = <<>> THEN 0 ELSE 1}
       [] rule = "manual" -> {Max({MinManualBins, Min({manual, MaxBins})})}
       [] rule = "sturges" -> sturges
       [] rule = "scott" -> scott
       [] rule = "freedman_diaconis" -> IF freedman = {} THEN sturges ELSE freedman
       [] OTHER -> IF freedman = {} THEN scott ELSE freedman

(***************************************************************************)
(* The histogram: equal bins of the transformed values, the last one       *)
(* closed; the first begins at 0 when there are empty documents, whose     *)
(* logarithm is that of 1.                                                 *)
(*                                                                         *)
(* The edges are floating-point numbers: where a value lies at an edge,    *)
(* the computed end may come out below it, at it or above it (-1, 0, 1),   *)
(* and the value may be counted in the bin before. The ends of the linear  *)
(* scale are values of documents, and 1 is an exact power.                 *)
(***************************************************************************)
ValueBound(value) == [by |-> "value", at |-> value, off |-> 0]
ScaleBound(at, scale, off) == [by |-> IF scale = "log" THEN "log" ELSE "value", at |-> at, off |-> off]

\* Mutant: the first bin begins at the scale's bound.
scale_boundary(at, scale, contains_zero, off) == ScaleBound(at, scale, off)

inverse_scale_boundary(at, scale, contains_zero, off) ==
  IF contains_zero THEN ValueBound(<<0, 1>>) ELSE ScaleBound(at, scale, off)

(* The ratio that lies k of n steps on the way from a to b.                 *)
Towards(a, b, k, n) == <<a[1] * b[2] * (n - k) + b[1] * a[2] * k, n * a[2] * b[2]>>

EdgesMet(scaled, bins) ==
  {k \in 0..bins : \E i \in DOMAIN scaled : Same(scaled[i], Towards(scaled[1], scaled[Len(scaled)], k, bins))}
Exact(scaled, scale, bins) ==
  IF scale = "linear" THEN {0, bins}
  ELSE {k \in 0..bins : Towards(scaled[1], scaled[Len(scaled)], k, bins)[1] = 0}

Roundings(query, rows, bins) ==
  LET scaled == [i \in DOMAIN rows |-> transform_for_scale(rows[i].value, query.scale)]
      met == IF bins <= 1 \/ OneValue(scaled) THEN {} ELSE EdgesMet(scaled, bins)
      rounded == IF met = {} THEN {} ELSE met \ Exact(scaled, query.scale, bins)
  IN {[off |-> [k \in 0..bins |-> IF k \in rounded THEN f[k] ELSE 0], before |-> before] :
        f \in [rounded -> -1..1], before \in SUBSET (met \intersect 1..(bins - 1))}

BinOf(value, least, greatest, bins, before) ==
  IF ~Below(value, greatest) THEN bins
  ELSE CHOOSE b \in 1..bins :
         LET lower == Towards(least, greatest, b - 1, bins)
             upper == Towards(least, greatest, b, bins)
         IN /\ IF b - 1 \in before THEN Below(lower, value) ELSE ~Below(value, lower)
            /\ IF b \in before THEN ~Below(upper, value) ELSE Below(value, upper)

histogram(sorted, scale, bins, rounding) ==
  IF sorted = <<>> \/ bins = 0 THEN <<>>
  ELSE LET scaled == [i \in DOMAIN sorted |-> transform_for_scale(sorted[i], scale)]
           n == Len(sorted)
       IN IF bins = 1 \/ Same(scaled[1], scaled[n])
          THEN <<[lower |-> ValueBound(sorted[1]), upper |-> ValueBound(sorted[n]), count |-> n, cumulative |-> n]>>
          ELSE LET bin == [i \in DOMAIN sorted |-> BinOf(scaled[i], scaled[1], scaled[n], bins, rounding.before)]
                   boundary(k, contains_zero) ==
                     inverse_scale_boundary(Towards(scaled[1], scaled[n], k, bins), scale, contains_zero, rounding.off[k])
               IN [b \in 1..bins |->
                    [lower |-> boundary(b - 1, b = 1 /\ sorted[1][1] = 0), upper |-> boundary(b, FALSE),
                     count |-> Cardinality({i \in DOMAIN bin : bin[i] = b}),
                     cumulative |-> Cardinality({i \in DOMAIN bin : bin[i] <= b})]]

(***************************************************************************)
(* The documents behind an interval.                                       *)
(***************************************************************************)
(* A value compared with a bound as it was computed: -1 below it, 0 at it,  *)
(* 1 above it.                                                              *)
Side(value, bound) ==
  CASE bound.by = "log" /\ value[1] = 0 -> -1
    [] OTHER -> LET at == IF bound.by = "log" THEN <<LogOf[value[1]], 1>> ELSE value
                IN IF Below(at, bound.at) THEN -1 ELSE IF Below(bound.at, at) THEN 1 ELSE -bound.off

in_evidence_bounds(value, query) ==
  /\ Side(value, query.lower) >= (IF query.lower_inclusive THEN 0 ELSE 1)
  /\ Side(value, query.upper) <= (IF query.upper_inclusive THEN 0 ELSE -1)

query_overview_distribution_evidence(query) ==
  LET rows == SortSeq(SelectSeq(metric_observations(query.metric),
                                LAMBDA row : in_evidence_bounds(row.value, query)), compare_observations)
      ordered == IF query.descending THEN Reverse(rows) ELSE rows
      limit == IF query.limit = 0 THEN DefaultEvidence ELSE Min({query.limit, MaxEvidence})
  IN [total |-> Len(rows), offset |-> query.offset, limit |-> limit,
      items |-> SubSeq(ordered, query.offset + 1, Min({query.offset + limit, Len(rows)}))]

(***************************************************************************)
(* query_overview_distribution, with one of the counts its rule may give   *)
(* and one of the ways its edges may be rounded.                           *)
(***************************************************************************)
Explored(query, rows, bins, rounding) ==
  LET values == [i \in DOMAIN rows |-> rows[i].value]
      limit == effective_point_limit(query.points)
      observed == [i \in DOMAIN values |-> transform_for_scale(values[i],
                    IF query.metric = "length" /\ query.reference = "lognormal" THEN "log" ELSE "linear")]
  IN [metric |-> query.metric, population |-> Len(rows), excluded |-> Len(documents) - Len(rows),
      quartiles |-> [q \in 0..4 |-> quantile(values, 25 * q)],
      bins |-> histogram(values, query.scale, bins, rounding), ecdf |-> ecdf(values, limit),
      qq |-> qq(observed, limit), line |-> robust_qq_line(observed),
      low |-> Upto(rows, ExplorerWitnesses), high |-> Upto(Reverse(rows), ExplorerWitnesses)]

BinCounts(query, rows) ==
  choose_bin_count([i \in DOMAIN rows |-> transform_for_scale(rows[i].value, query.scale)], query.rule, query.manual)
==============================================================================
