----------------------------- MODULE Collocations -----------------------------
(***************************************************************************)
(* Collocates (corpuswright-core analysis/collocation.rs): which words     *)
(* stand near the hits of a query.  One pass over the texts counts, for    *)
(* every word and every distance, how often it stands there; profiles of   *)
(* any span and direction are then made from these counts.  The counts are *)
(* made by streaming the documents or from the surface index, each within  *)
(* a budget of bytes; here every request is counted in both ways.          *)
(*                                                                         *)
(* A symbol takes one byte, as do the words of a query together.           *)
(***************************************************************************)
EXTENDS SurfaceIndexStore

CONSTANTS Requests,          \* words, case, selection and the limit on all memory
          Views,             \* profiles asked of an aggregate
          MaxSpan,           \* CONCORDANCE_COLLOCATION_MAX_SPAN
          DefaultSpan, DefaultRows, MaxRows,
          ShownDistances,    \* distances listed in a row (5)
          SafetyMargin,
          CancelEvery,       \* hits or words between two looks at the token (1024)
          Stopwords,
          NoRequest, NoView, NoAggregate

VARIABLES request, task, stopped,
          reader,            \* the document streamed, or the postings visited
          work,              \* the counts being made
          aggregates,        \* by route; Refused for its size
          view, pending, ranking

collocationVars ==
  <<request, task, stopped, reader, work, aggregates, view, pending, ranking>>

(***************************************************************************)
(* ConcordanceCollocationDistanceCounts: left distances, then right ones.  *)
(***************************************************************************)
NoCounts == [i \in 1..(2 * MaxSpan) |-> 0]

SideSum(counts, first, span) ==
  Total([i \in (first + 1)..(first + Min({span, MaxSpan})) |-> counts[i]])
LooksLeft(direction) == direction \in {"left", "both"}
LooksRight(direction) == direction \in {"right", "both"}
CountSum(counts, span, direction) ==
  (IF LooksLeft(direction) THEN SideSum(counts, 0, span) ELSE 0)
  + (IF LooksRight(direction) THEN SideSum(counts, MaxSpan, span) ELSE 0)

first_five(counts, span, direction) ==
  [left |-> [i \in 1..ShownDistances |->
               IF LooksLeft(direction) /\ i <= span THEN counts[i] ELSE 0],
   right |-> [i \in 1..ShownDistances |->
                IF LooksRight(direction) /\ i <= span THEN counts[MaxSpan + i] ELSE 0]]

(* A mutant: right distances begin a place too early. *)
WindowSlotsFromZero(c, end, total) ==
  LET first == LeftStart(c, MaxSpan)
      last == RightEnd(end, MaxSpan, total)
  IN [k \in 1..(c - first) |-> [word |-> first + k - 1, slot |-> c - (first + k - 1)]]
     \o [k \in 1..(last - end) |-> [word |-> end + k - 1, slot |-> MaxSpan + k - 1]]

(* The words around a node of words c..end-1, with their places in the counts. *)
WindowSlots(c, end, total) ==
  LET first == LeftStart(c, MaxSpan)
      last == RightEnd(end, MaxSpan, total)
  IN [k \in 1..(c - first) |-> [word |-> first + k - 1, slot |-> c - (first + k - 1)]]
     \o [k \in 1..(last - end) |-> [word |-> end + k - 1, slot |-> MaxSpan + k]]

(***************************************************************************)
(* Bytes.                                                                  *)
(***************************************************************************)
CountsBytes == 16 * MaxSpan
conservative_hash_map_bytes(entries, entry_bytes) == entries * (entry_bytes + 16) * 2
indexed_candidate_discovery_bytes(candidates) ==
  304 + 1 + conservative_hash_map_bytes(candidates, 4 + CountsBytes)
indexed_final_aggregate_bytes(candidates) ==
  304 + 1 + candidates + candidates * 24 * 2 + candidates * 8 * 2
  + conservative_hash_map_bytes(candidates, 4 + CountsBytes)
indexed_finalisation_peak_bytes(candidates) ==
  indexed_candidate_discovery_bytes(candidates) + indexed_final_aggregate_bytes(candidates)
  + conservative_hash_map_bytes(candidates, 4 + 4) + candidates * 24 * 2

(* What the limit on all memory leaves beside an index of this size; below *)
(* 0 the request is refused.                                               *)
RemainingBytes(resident) == request.combined - resident - SafetyMargin
admit(resident, projected) == RemainingBytes(resident) >= 0 /\ projected <= RemainingBytes(resident)
ScanBudget == Min({limit, RemainingBytes(0)})
IndexBudget == Min({limit, RemainingBytes(estimated_resident_bytes(store))})

(***************************************************************************)
(* The request.                                                            *)
(***************************************************************************)
NoReader == [doc |-> 0, visited |-> 0, window |-> NoWords]
NoWork ==
  [symbols |-> <<>>, frequencies |-> <<>>, counts |-> <<>>, r1 |-> NoCounts, n |-> 0, f_node |-> 0,
   visited |-> 0, peak |-> 0, end |-> "none"]
NoRanking == [heap |-> <<>>, way |-> "none", at |-> 0]

CollocationInit ==
  /\ request = NoRequest /\ task = "idle" /\ stopped = FALSE
  /\ reader = NoReader /\ work = NoWork
  /\ aggregates = [r \in {"scan", "index"} |-> NoAggregate]
  /\ view = NoView /\ pending = {} /\ ranking = NoRanking

SoughtKeys == Keys(request.words, request.case)
ChosenDocuments == {d \in DOMAIN text : Selects(request.selection, d)}

RequestAggregate ==
  /\ task = "idle" /\ phase = "ready" /\ file = NoFile /\ ~cancelled
  /\ \E r \in Requests :
       \E sought \in {analysis_word_tokens(r.words)} :
         /\ request' = [r EXCEPT !.words = sought]
         /\ task' = IF sought = <<>> THEN "empty_query" ELSE "opening"
  /\ UNCHANGED <<indexVars, stopped, reader, work, aggregates, view, pending, ranking>>

CancelAggregate ==
  /\ task \in {"opening", "streaming", "visiting", "counting"} /\ ~stopped
  /\ stopped' = TRUE
  /\ UNCHANGED <<indexVars, request, task, reader, work, aggregates, view, pending, ranking>>

LooksAtToken(n) == stopped /\ n % CancelEvery = 0

Abandon ==
  /\ task' = "cancelled" /\ work' = NoWork /\ reader' = NoReader
  /\ UNCHANGED <<indexVars, request, stopped, aggregates, view, pending, ranking>>

Refused == [outcome |-> "too large"]
Revoked == [outcome |-> "too large after all"]

(* A route ends with an aggregate or is refused; the next one begins. *)
EndRouteWith(r, aggregate) ==
  /\ aggregates' = [aggregates EXCEPT ![r] = aggregate]
  /\ task' = IF r = "scan" THEN "admitting" ELSE "counted"
  /\ work' = NoWork /\ reader' = NoReader
  /\ UNCHANGED <<indexVars, request, stopped, view, pending, ranking>>

AggregateOf(w) ==
  [symbols |-> w.symbols, counts |-> w.counts, frequencies |-> w.frequencies,
   r1 |-> w.r1, n |-> w.n, f_node |-> w.f_node]

(***************************************************************************)
(* NumericCollocationBuilder: streaming.                                   *)
(***************************************************************************)
SymbolBytes == 1 + 24 + 8 + 96
projected_bytes(w) ==
  Len(w.symbols) * SymbolBytes + Cardinality(DOMAIN w.counts) * (CountsBytes + 32)

record_token(w, key) ==
  IF key \in Range(w.symbols)
  THEN [w EXCEPT !.frequencies[lookup_symbol_id(w.symbols, key)] = @ + 1, !.n = @ + 1]
  ELSE IF projected_bytes(w) + SymbolBytes > ScanBudget THEN [w EXCEPT !.end = "refused"]
  ELSE [w EXCEPT !.symbols = Append(@, key), !.frequencies = Append(@, 1), !.n = @ + 1]

CountedAt(counts, id, slot) ==
  [i \in DOMAIN counts \union {id} |->
     IF i # id THEN counts[i]
     ELSE [(IF id \in DOMAIN counts THEN counts[id] ELSE NoCounts) EXCEPT ![slot] = @ + 1]]

(* A word that belongs to the query counts for r1 only. *)
add_window_candidate(w, id, slot) ==
  LET r == [w EXCEPT !.r1[slot] = @ + 1]
  IN IF w.end # "none" THEN w
     ELSE IF w.symbols[id] \in Range(SoughtKeys) THEN r
     ELSE IF id \notin DOMAIN w.counts /\ projected_bytes(w) + CountsBytes + 32 > ScanBudget
     THEN [r EXCEPT !.end = "refused"]
     ELSE [r EXCEPT !.counts = CountedAt(@, id, slot)]

OpenStream ==
  /\ task = "opening"
  /\ IF RemainingBytes(0) < 0 THEN EndRouteWith("scan", Refused)
     ELSE \E rest \in {{d \in ChosenDocuments : d > reader.doc}} :
            IF rest = {} THEN EndRouteWith("scan", AggregateOf(work))
            ELSE /\ task' = "streaming"
                 /\ reader' = [doc |-> Min(rest), visited |-> 0, window |-> NoWords]
                 /\ UNCHANGED <<indexVars, request, stopped, work, aggregates, view, pending, ranking>>

StreamIsRead == reader.visited = Len(text[reader.doc])
NodeIsDue ==
  \/ Ready(reader.window, Len(request.words), MaxSpan)
  \/ StreamIsRead /\ Remaining(reader.window, Len(request.words))

(* The window holds the ids of the symbols. *)
StreamToken ==
  /\ task = "streaming" /\ ~StreamIsRead /\ ~NodeIsDue
  /\ \E token \in {text[reader.doc][reader.visited + 1]} :
     \E key \in {IF counts_as_word(token) THEN concordance_key(token, request.case) ELSE Mark} :
     \E w \in {IF key = Mark THEN work ELSE record_token(work, key)} :
       IF w.end = "refused" THEN EndRouteWith("scan", Refused)
       ELSE /\ work' = w
            /\ reader' = [reader EXCEPT !.visited = @ + 1,
                            !.window = IF key = Mark THEN @
                                       ELSE Pushed(@, lookup_symbol_id(w.symbols, key))]
            /\ UNCHANGED <<indexVars, request, task, stopped, aggregates, view, pending, ranking>>

IsNode(window, c) ==
  \A k \in DOMAIN SoughtKeys :
    /\ c + k - 1 \in DOMAIN window.buffer
    /\ work.symbols[window.buffer[c + k - 1]] = SoughtKeys[k]

WithWindow(window, c) ==
  FoldLeft(LAMBDA w, s : add_window_candidate(w, window.buffer[s.word], s.slot),
           [work EXCEPT !.f_node = @ + 1],
           WindowSlots(c, c + Len(request.words), window.total))

StreamCandidate ==
  /\ task = "streaming" /\ NodeIsDue
  /\ \E window \in {reader.window} :
     \E is_node \in {IsNode(window, window.next)} :
       IF is_node /\ LooksAtToken(work.f_node + 1) THEN Abandon
       ELSE \E w \in {IF is_node THEN WithWindow(window, window.next) ELSE work} :
              IF w.end = "refused" THEN EndRouteWith("scan", Refused)
              ELSE /\ work' = w
                   /\ reader' = [reader EXCEPT !.window = Advanced(window, MaxSpan)]
                   /\ UNCHANGED <<indexVars, request, task, stopped, aggregates, view, pending,
                                  ranking>>

CloseStream ==
  /\ task = "streaming" /\ StreamIsRead /\ ~NodeIsDue
  /\ task' = "opening"
  /\ UNCHANGED <<indexVars, request, stopped, reader, work, aggregates, view, pending, ranking>>

(***************************************************************************)
(* The surface index.                                                      *)
(***************************************************************************)
Admit ==
  /\ task = "admitting"
  /\ IF RemainingBytes(estimated_resident_bytes(store)) < 0 THEN EndRouteWith("index", Refused)
     ELSE /\ task' = "visiting"
          /\ work' = [NoWork EXCEPT !.peak = indexed_candidate_discovery_bytes(0)]
          /\ UNCHANGED <<indexVars, request, stopped, reader, aggregates, view, pending, ranking>>

SymbolIdOf(token_record) == concordance_symbol_id_for_record(store, token_record, request.case)
SymbolOf(id) == concordance_symbol_for_id(store, id, request.case)

WithNewCandidate(w) ==
  LET projected == indexed_candidate_discovery_bytes(Cardinality(DOMAIN w.counts) + 1)
  IN IF projected > IndexBudget THEN [w EXCEPT !.end = "refused"]
     ELSE [w EXCEPT !.peak = Max({@, projected})]

add_collocation_window_record_id(w, id, slot) ==
  LET r == [w EXCEPT !.visited = @ + 1, !.r1[slot] = @ + 1]
      c == IF id \in DOMAIN w.counts THEN r ELSE WithNewCandidate(r)
  IN IF w.end # "none" THEN w
     ELSE IF LooksAtToken(w.visited + 1) THEN [w EXCEPT !.end = "cancelled"]
     ELSE IF SymbolOf(id) \in Range(SoughtKeys) THEN r
     ELSE IF c.end # "none" THEN c
     ELSE [c EXCEPT !.counts = CountedAt(@, id, slot)]

SoughtPostings == postings(store, Fold[Head(request.words)])

IsIndexedNode(records, ordinal) ==
  /\ ordinal + Len(request.words) <= Len(records)
  /\ \A k \in DOMAIN SoughtKeys :
       concordance_key_for_record(store, records[ordinal + k], request.case) = SoughtKeys[k]

WithRecords(records, ordinal) ==
  FoldLeft(LAMBDA w, s : add_collocation_window_record_id(w, SymbolIdOf(records[s.word + 1]), s.slot),
           [work EXCEPT !.f_node = @ + 1],
           WindowSlots(ordinal, ordinal + Len(request.words), Len(records)))

VisitNode ==
  /\ task = "visiting" /\ reader.visited < Len(SoughtPostings)
  /\ \E position \in {SoughtPostings[reader.visited + 1]} :
     \E spot \in {document_and_ordinal_for_position(store, position)} :
     \E records \in {records_for_document(store, spot.doc)} :
     \E is_node \in {IsIndexedNode(records, spot.ordinal)} :
       IF is_node /\ LooksAtToken(work.f_node) THEN Abandon
       ELSE \E w \in {IF is_node /\ spot.doc \in ChosenDocuments
                      THEN WithRecords(records, spot.ordinal) ELSE work} :
              IF w.end = "refused" THEN EndRouteWith("index", Refused)
              ELSE IF w.end = "cancelled" THEN Abandon
              ELSE /\ work' = w
                   /\ reader' = [reader EXCEPT !.visited = @ + 1]
                   /\ UNCHANGED <<indexVars, request, task, stopped, aggregates, view, pending,
                                  ranking>>

(* finalise_indexed_collocation_candidates: ids of its own, in the order of *)
(* the ids of the index.  The frequencies are counted afterwards.           *)
SourceIds(w) == Ordered(DOMAIN w.counts, LAMBDA a, b : a < b)

Finalised(w, sources) ==
  [w EXCEPT !.symbols = [i \in DOMAIN sources |-> SymbolOf(sources[i])],
            !.frequencies = [i \in DOMAIN sources |-> 0],
            !.counts = [i \in DOMAIN sources |-> w.counts[sources[i]]],
            !.n = Total([d \in ChosenDocuments |-> document_of(store, d).count]),
            !.peak = Max({@, indexed_finalisation_peak_bytes(Len(sources))})]

FinaliseCandidates ==
  /\ task = "visiting" /\ reader.visited = Len(SoughtPostings)
  /\ IF stopped THEN Abandon
     ELSE IF indexed_finalisation_peak_bytes(Cardinality(DOMAIN work.counts)) > IndexBudget
     THEN EndRouteWith("index", Refused)
     ELSE /\ \E sources \in {SourceIds(work)} : work' = Finalised(work, sources)
          /\ reader' = NoReader /\ task' = "counting"
          /\ UNCHANGED <<indexVars, request, stopped, aggregates, view, pending, ranking>>

OccurrencesOf(symbol, d) ==
  Cardinality({p \in DOMAIN records_for_document(store, d) :
                 SymbolOf(SymbolIdOf(records_for_document(store, d)[p])) = symbol})

CountFrequencies ==
  /\ task = "counting"
  /\ \E rest \in {{d \in ChosenDocuments : d > reader.doc}} :
       IF rest = {}
       THEN IF admit(estimated_resident_bytes(store), work.peak)
            THEN EndRouteWith("index", AggregateOf(work))
            ELSE EndRouteWith("index", Revoked)
       ELSE IF stopped THEN Abandon
       ELSE \E d \in {Min(rest)} :
              /\ reader' = [reader EXCEPT !.doc = d]
              /\ work' = [work EXCEPT !.frequencies =
                            [i \in DOMAIN @ |-> @[i] + OccurrencesOf(work.symbols[i], d)]]
              /\ UNCHANGED <<indexVars, request, task, stopped, aggregates, view, pending, ranking>>

(***************************************************************************)
(* query_concordance_collocations_from_aggregate: the rows of a profile.   *)
(* The candidates come in whatever order a hash table gives them.  Scores  *)
(* are fractions in the order of the logarithms and roots of the code; a   *)
(* score that does not exist is NoScore.  (g2 is left out.)                *)
(***************************************************************************)
concordance_collocation_span(span) == Clamped(span, DefaultSpan, MaxSpan)
concordance_collocation_limit(n) == Clamped(n, DefaultRows, MaxRows)

Completed(r) == aggregates[r] \notin {NoAggregate, Refused, Revoked}
Aggregate == IF Completed("index") THEN aggregates["index"] ELSE aggregates["scan"]

collocation_row(a, id, v) ==
  LET span == concordance_collocation_span(v.span)
      o11 == CountSum(a.counts[id], span, v.direction)
      r1 == CountSum(a.r1, span, v.direction)
      f == a.frequencies[id]
  IN [symbol |-> a.symbols[id], o11 |-> o11, o12 |-> r1 - o11, o21 |-> f - o11,
      o22 |-> a.n - r1 - f + o11, frequency |-> f, r1 |-> r1, n |-> a.n,
      positions |-> first_five(a.counts[id], span, v.direction)]

NoScore == <<>>
Square(a) == a * a
Signed(a) == IF a < 0 THEN 0 - Square(a) ELSE Square(a)

collocation_score_for_measure(row, measure) ==
  LET expected == row.r1 * row.frequency
      surplus == row.o11 * row.n - expected
  IN CASE measure = "mi" -> <<row.o11 * row.n, expected>>
       [] measure = "mi3" -> <<row.o11 * Square(row.o11) * row.n, expected>>
       [] measure = "t" -> <<Signed(surplus), Square(row.n) * row.o11>>
       [] measure = "z" -> <<Signed(surplus), row.n * expected>>
       [] measure = "dice" -> <<2 * row.o11, row.r1 + row.frequency>>
       [] measure = "ratio" ->
            IF row.n - row.r1 > 0 /\ row.o21 > 0
            THEN <<row.o11 * (row.n - row.r1), row.r1 * row.o21>> ELSE NoScore

(* Below 0 when a comes first, above 0 when b does. *)
compare_score(a, b, measure, direction) ==
  LET s == collocation_score_for_measure(a, measure)
      t == collocation_score_for_measure(b, measure)
  IN IF s # NoScore /\ t # NoScore
     THEN (IF direction = "asc" THEN 1 ELSE -1) * (s[1] * t[2] - t[1] * s[2])
     ELSE (IF t = NoScore THEN 0 ELSE 1) - (IF s = NoScore THEN 0 ELSE 1)
compare_count(a, b, direction) == IF direction = "asc" THEN a - b ELSE b - a

SortComparison(a, b, v) ==
  CASE v.key = "association" -> compare_score(a, b, v.measure, v.order)
    [] v.key = "near_query" -> compare_count(a.o11, b.o11, v.order)
    [] v.key = "frequency" -> compare_count(a.frequency, b.frequency, v.order)

RowBefore(a, b, v) ==
  LET steps == <<SortComparison(a, b, v), compare_score(a, b, v.measure, "desc"),
                 b.o11 - a.o11, b.frequency - a.frequency, a.symbol - b.symbol>>
  IN \E i \in DOMAIN steps : steps[i] < 0 /\ \A j \in 1..(i - 1) : steps[j] = 0

IsListed(row, v) ==
  /\ ~(v.hide /\ row.symbol \in Stopwords)
  /\ row.o11 > 0 /\ row.o11 >= v.min_cooccurrence /\ row.frequency >= v.min_frequency

ListedRows(a, v) ==
  {row \in {collocation_row(a, id, v) : id \in DOMAIN a.counts} : IsListed(row, v)}

AskProfile ==
  /\ task = "counted" /\ \E r \in {"scan", "index"} : Completed(r)
  /\ \E v \in Views : view' = v /\ pending' = ListedRows(Aggregate, v)
  /\ task' = "ranking"
  /\ UNCHANGED <<indexVars, request, stopped, reader, work, aggregates, ranking>>

RowLimit == concordance_collocation_limit(view.limit)

Rank(next) ==
  /\ ranking' = next
  /\ UNCHANGED <<indexVars, request, task, stopped, reader, work, aggregates, view>>

(* push_bounded_collocation_row, and its two loops a swap at a time. *)
PushRow ==
  /\ task = "ranking" /\ ranking.way = "none"
  /\ \E row \in pending :
       /\ pending' = pending \ {row}
       /\ IF Len(ranking.heap) < RowLimit
          THEN Rank([heap |-> Append(ranking.heap, row), way |-> "up", at |-> Len(ranking.heap) + 1])
          ELSE IF RowBefore(row, ranking.heap[1], view)
          THEN Rank([heap |-> [ranking.heap EXCEPT ![1] = row], way |-> "down", at |-> 1])
          ELSE Rank(ranking)

RanksBelow(i, j) == RowBefore(ranking.heap[i], ranking.heap[j], view)
SwapRows(i, j) ==
  [ranking EXCEPT !.heap = [@ EXCEPT ![i] = ranking.heap[j], ![j] = ranking.heap[i]], !.at = j]
RowSettled == [ranking EXCEPT !.way = "none", !.at = 0]

RaiseRow ==
  /\ ranking.way = "up" /\ UNCHANGED pending
  /\ \E i \in {ranking.at} :
       IF i > 1 /\ RanksBelow(i \div 2, i) THEN Rank(SwapRows(i, i \div 2)) ELSE Rank(RowSettled)

LastChild(i) ==
  IF 2 * i + 1 <= Len(ranking.heap) /\ RanksBelow(2 * i, 2 * i + 1) THEN 2 * i + 1 ELSE 2 * i

LowerRow ==
  /\ ranking.way = "down" /\ UNCHANGED pending
  /\ \E i \in {ranking.at} :
       IF 2 * i > Len(ranking.heap) THEN Rank(RowSettled)
       ELSE \E child \in {LastChild(i)} :
              IF RanksBelow(i, child) THEN Rank(SwapRows(i, child)) ELSE Rank(RowSettled)

ProfileIsRanked == task = "ranking" /\ pending = {} /\ ranking.way = "none"
ProfileRows == Ordered(ToSet(ranking.heap), LAMBDA a, b : RowBefore(a, b, view))

CollocationNext ==
  \/ RequestAggregate \/ CancelAggregate
  \/ OpenStream \/ StreamToken \/ StreamCandidate \/ CloseStream
  \/ Admit \/ VisitNode \/ FinaliseCandidates \/ CountFrequencies
  \/ AskProfile \/ PushRow \/ RaiseRow \/ LowerRow

(***************************************************************************)
(* Properties.                                                             *)
(***************************************************************************)
WordKey(d, p) == concordance_key(TextWords(d)[p + 1], request.case)
WordNumbers(d) == 0..(Len(TextWords(d)) - 1)

Nodes ==
  {<<d, c>> \in ChosenDocuments \X (0..Population) :
     /\ c + Len(request.words) <= Len(TextWords(d))
     /\ \A k \in DOMAIN SoughtKeys : WordKey(d, c + k - 1) = SoughtKeys[k]}

(* The word that stands at a place of the counts around a node. *)
WordAt(c, slot) == IF slot <= MaxSpan THEN c - slot ELSE c + Len(request.words) + slot - MaxSpan - 1

Near(keys, slot) ==
  Cardinality({node \in Nodes :
                 /\ WordAt(node[2], slot) \in WordNumbers(node[1])
                 /\ WordKey(node[1], WordAt(node[2], slot)) \in keys})

CountsTheTexts(a, keys) ==
  /\ a.f_node = Cardinality(Nodes)
  /\ a.n = Total([d \in ChosenDocuments |-> Len(TextWords(d))])
  /\ \A slot \in 1..(2 * MaxSpan) : a.r1[slot] = Near(Surface, slot)
  /\ {a.symbols[id] : id \in DOMAIN a.counts}
       = {key \in keys \ Range(SoughtKeys) : \E slot \in 1..(2 * MaxSpan) : Near({key}, slot) > 0}
  /\ \A id \in DOMAIN a.counts :
       /\ \A slot \in 1..(2 * MaxSpan) : a.counts[id][slot] = Near({a.symbols[id]}, slot)
       /\ a.frequencies[id] =
            Total([d \in ChosenDocuments |->
                     Cardinality({p \in WordNumbers(d) : WordKey(d, p) = a.symbols[id]})])

(* The rows of a profile are the first ones of all, whatever the order of  *)
(* the hash table.                                                         *)
ProfileHasTheFirstRows ==
  ProfileIsRanked =>
    \E all \in {ListedRows(Aggregate, view)} :
      ProfileRows = SubSeq(Ordered(all, LAMBDA a, b : RowBefore(a, b, view)), 1,
                           Min({RowLimit, Cardinality(all)}))

(* Whichever way they are made, the counts are those of the selected       *)
(* texts: each word at each distance from each hit once, the words of the  *)
(* query left out, the frequencies those of the selection, and a profile   *)
(* shows the first rows of all.                                            *)
CollocationsCountTheTexts ==
  /\ ProfileHasTheFirstRows
  /\ task = "counted" => \A r \in {"scan", "index"} :
    Completed(r) => \E a \in {aggregates[r]} : CountsTheTexts(a, Surface)

(* Sizes are foreseen rightly: an index that passed the last check before  *)
(* its postings were placed is not refused for its real size, and an       *)
(* aggregate counted within its budget is not refused by the admission     *)
(* that follows the work.                                                  *)
ForeseenSizesHold == phase # "outgrown" /\ aggregates["index"] # Revoked
==============================================================================
