-------------------------- MODULE ConcordanceSearch --------------------------
(***************************************************************************)
(* Searching the prepared texts (corpuswright-core                         *)
(* analysis/concordance/mod.rs).  A query is answered by one of two        *)
(* routes, which promise the same answer: the scan reads the selected      *)
(* documents word by word through a window, the index follows the          *)
(* positions of the first word of the query.  Both hand their hits to a    *)
(* bounded collector and make rows of the page it keeps.                   *)
(*                                                                         *)
(* Here every accepted query is scanned and then answered by the index, so *)
(* that the answers can be compared.  An index that was refused for its    *)
(* size is not replaced by a scan (prevents_unbounded_scan_fallback).      *)
(***************************************************************************)
EXTENDS SurfaceIndexStore, HitCollector

CONSTANTS Queries, Name,     \* Name[d]: the place of document d's name in string order
          NoResult, NoQuery

VARIABLES query, route, stage,
          cursor,            \* the document scanned, or the postings visited
          collector,
          hits, words,       \* of each document: its hits and its words so far
          page, rows, results

routeVars == <<cursor, collector, hits, words, page, rows>>
searchVars == <<query, route, stage, routeVars, results>>

NoCursor == [doc |-> 0, visited |-> 0, window |-> NoWords]
NoCollector == [total |-> 0, heap |-> <<>>, sift |-> [way |-> "none", at |-> 0]]

SearchInit ==
  /\ query = NoQuery /\ route = "none" /\ stage = "idle"
  /\ cursor = NoCursor /\ collector = NoCollector
  /\ hits = <<>> /\ words = <<>> /\ page = <<>> /\ rows = <<>>
  /\ results = [r \in {"scan", "index"} |-> NoResult]

(***************************************************************************)
(* The query.                                                              *)
(***************************************************************************)
validate_concordance_result_views(q) ==
  /\ q.rows \/ q.distribution
  /\ Len(q.sort) \in 1..3
  /\ Cardinality(ToSet(q.sort)) = Len(q.sort)
  /\ Len(q.sort) > 1 => \A i \in DOMAIN q.sort : q.sort[i].side \in {"left", "right"}

ResolvedQuery(q) ==
  [q EXCEPT !.words = analysis_word_tokens(@), !.filter = analysis_word_tokens(@),
            !.window = concordance_window_tokens(@), !.limit = concordance_limit(@),
            !.dlimit = concordance_distribution_limit(@)]

IsEmptyQuery(q) ==
  \/ analysis_word_tokens(q.words) = <<>>
  \/ q.filter # <<>> /\ analysis_word_tokens(q.filter) = <<>>

Accepted(q) ==
  /\ validate_concordance_result_views(q)
  /\ ~IsEmptyQuery(q)
  /\ RetainedDepth(q, concordance_limit(q.limit)) <= MaxSortRecords

selected_concordance_document_ids == {d \in DOMAIN text : Selects(query.selection, d)}

Begin(next_route, q) ==
  /\ route' = next_route
  /\ stage' = IF next_route = "scan" THEN "opening" ELSE "visiting"
  /\ cursor' = NoCursor /\ collector' = NewCollector(q, q.limit)
  /\ hits' = [d \in DOMAIN text |-> 0] /\ words' = [d \in DOMAIN text |-> 0]
  /\ page' = <<>> /\ rows' = <<>>

StartSearch ==
  /\ stage = "idle" /\ phase = "ready" /\ file = NoFile /\ ~cancelled
  /\ \E q \in Queries :
       IF Accepted(q)
       THEN \E r \in {ResolvedQuery(q)} : query' = r /\ Begin("scan", r)
       ELSE query' = q /\ stage' = "rejected" /\ UNCHANGED <<route, routeVars>>
  /\ UNCHANGED <<indexVars, results>>

(***************************************************************************)
(* The scan.                                                               *)
(***************************************************************************)
(* A mutant: the words a hit is sorted by are not looked at. *)
LookaroundOfTheWindow == query.window

Lookaround == IF query.window < SortDepth THEN SortDepth ELSE query.window
QueryKeys == Keys(query.words, query.case)
FilterKeys == Keys(query.filter, query.case)
IsSettled == collector.sift.way = "none"

OpenScanDocument ==
  /\ stage = "opening"
  /\ \E rest \in {{d \in selected_concordance_document_ids : d > cursor.doc}} :
       IF rest = {}
       THEN stage' = "rows" /\ page' = finish(collector) /\ UNCHANGED cursor
       ELSE /\ cursor' = [doc |-> Min(rest), visited |-> 0, window |-> NoWords]
            /\ stage' = "reading" /\ UNCHANGED page
  /\ UNCHANGED <<indexVars, query, route, collector, hits, words, rows, results>>

AllRead == cursor.visited = Len(text[cursor.doc])
CandidateIsDue ==
  \/ Ready(cursor.window, Len(query.words), Lookaround)
  \/ AllRead /\ Remaining(cursor.window, Len(query.words))

ReadToken ==
  /\ stage = "reading" /\ IsSettled /\ ~AllRead /\ ~CandidateIsDue
  /\ \E token \in {text[cursor.doc][cursor.visited + 1]} :
       cursor' = [cursor EXCEPT !.visited = @ + 1,
                                !.window = IF counts_as_word(token) THEN Pushed(@, token) ELSE @]
  /\ UNCHANGED <<indexVars, query, route, stage, collector, hits, words, page, rows, results>>

(* The context of candidate c meets the filter. *)
ScanFilterAdmits(window, c) ==
  LET end == c + Len(query.words)
  IN \/ query.filter = <<>>
     \/ /\ query.direction \in {"left", "both"}
        /\ RangeMatches(window.buffer, LeftStart(c, query.window), c, FilterKeys, query.case)
     \/ /\ query.direction \in {"right", "both"}
        /\ RangeMatches(window.buffer, end, RightEnd(end, query.window, window.total),
                        FilterKeys, query.case)

WindowKey(window, i) ==
  IF i \in DOMAIN window.buffer THEN <<concordance_key(window.buffer[i], query.case)>> ELSE NoKey

SortsByContext == query.rows /\ has_context_sort(query.sort)
SortsByNode == query.rows /\ query.sort = ByNode

ScanHit(window, d, c) ==
  LET end == c + Len(query.words)
  IN [doc |-> d, at |-> c,
      node |-> IF SortsByNode THEN [k \in DOMAIN query.words |-> window.buffer[c + k - 1]]
               ELSE NoKey,
      left |-> [k \in 1..SortDepth |-> IF SortsByContext THEN WindowKey(window, c - k) ELSE NoKey],
      right |-> [k \in 1..SortDepth |->
                   IF SortsByContext THEN WindowKey(window, end + k - 1) ELSE NoKey]]

Record(hit) ==
  /\ collector' = record(collector, hit)
  /\ hits' = [hits EXCEPT ![hit.doc] = @ + 1]

ProcessCandidate ==
  /\ stage = "reading" /\ IsSettled /\ CandidateIsDue
  /\ \E window \in {cursor.window} :
       /\ cursor' = [cursor EXCEPT !.window = Advanced(window, Lookaround)]
       /\ IF /\ MatchesAt(window.buffer, window.next, QueryKeys, query.case)
             /\ ScanFilterAdmits(window, window.next)
          THEN \E hit \in {ScanHit(window, cursor.doc, window.next)} : Record(hit)
          ELSE UNCHANGED <<collector, hits>>
  /\ UNCHANGED <<indexVars, query, route, stage, words, page, rows, results>>

CloseScanDocument ==
  /\ stage = "reading" /\ IsSettled /\ AllRead /\ ~CandidateIsDue
  /\ words' = [words EXCEPT ![cursor.doc] = cursor.window.total]
  /\ stage' = "opening"
  /\ UNCHANGED <<indexVars, query, route, cursor, collector, hits, page, rows, results>>

(* The heap is put in order again, and the arena made small again. *)
Sift(sifted) ==
  /\ collector' = sifted
  /\ UNCHANGED <<indexVars, query, route, stage, cursor, hits, words, page, rows, results>>

SiftUp == collector.sift.way = "up" /\ Sift(sift_up(collector))
SiftDown == collector.sift.way = "down" /\ Sift(sift_down(collector))
CompactArena == collector.sift.way = "compact" /\ Sift(compact_arena_if_needed(collector))

(***************************************************************************)
(* The index.                                                              *)
(***************************************************************************)
(* A mutant: the index compares exact surfaces. *)
ExactRecordKey(id) == surface_for_record(store, id)

RecordKey(id) == concordance_key_for_record(store, id, query.case)

RecordsMatchAt(records, c, keys) ==
  \A k \in DOMAIN keys : RecordKey(records[c + k]) = keys[k]

index_record_sequence_matches(records, first, end, keys) ==
  \E c \in first..(end - Len(keys)) : RecordsMatchAt(records, c, keys)

index_context_filter_matches(records, c) ==
  LET end == c + Len(query.words)
  IN \/ /\ query.direction \in {"left", "both"}
        /\ index_record_sequence_matches(records, LeftStart(c, query.window), c, FilterKeys)
     \/ /\ query.direction \in {"right", "both"}
        /\ index_record_sequence_matches(records, end,
                                         RightEnd(end, query.window, Len(records)), FilterKeys)

KeyAt(records, i) == IF i \in 0..(Len(records) - 1) THEN <<RecordKey(records[i + 1])>> ELSE NoKey

IndexHit(records, d, c) ==
  LET end == c + Len(query.words)
  IN [doc |-> d, at |-> c,
      node |-> IF SortsByNode
               THEN [k \in DOMAIN query.words |-> surface_for_record(store, records[c + k])]
               ELSE NoKey,
      left |-> [k \in 1..SortDepth |-> IF SortsByContext THEN KeyAt(records, c - k) ELSE NoKey],
      right |-> [k \in 1..SortDepth |->
                   IF SortsByContext THEN KeyAt(records, end + k - 1) ELSE NoKey]]

IsIndexHit(records, spot) ==
  /\ spot.ordinal + Len(query.words) <= Len(records)
  /\ RecordsMatchAt(records, spot.ordinal, QueryKeys)
  /\ spot.doc \in selected_concordance_document_ids
  /\ query.filter = <<>> \/ index_context_filter_matches(records, spot.ordinal)

QueryPostings == postings(store, Fold[Head(query.words)])

VisitPosting ==
  /\ stage = "visiting" /\ IsSettled /\ cursor.visited < Len(QueryPostings)
  /\ cursor' = [cursor EXCEPT !.visited = @ + 1]
  /\ \E position \in {QueryPostings[cursor.visited + 1]} :
     \E spot \in {document_and_ordinal_for_position(store, position)} :
     \E records \in {records_for_document(store, spot.doc)} :
       IF IsIndexHit(records, spot)
       THEN \E hit \in {IndexHit(records, spot.doc, spot.ordinal)} : Record(hit)
       ELSE UNCHANGED <<collector, hits>>
  /\ UNCHANGED <<indexVars, query, route, stage, words, page, rows, results>>

FinishVisit ==
  /\ stage = "visiting" /\ IsSettled /\ cursor.visited = Len(QueryPostings)
  /\ stage' = "rows" /\ page' = finish(collector)
  /\ words' = [d \in DOMAIN text |->
                 IF d \in selected_concordance_document_ids
                 THEN document_of(store, d).count ELSE 0]
  /\ UNCHANGED <<indexVars, query, route, cursor, collector, hits, rows, results>>

(***************************************************************************)
(* The rows.  A word stands in the text at WordPlaces[its number + 1].     *)
(***************************************************************************)
WordPlaces(tokens) ==
  SelectSeq([i \in DOMAIN tokens |-> i], LAMBDA i : counts_as_word(tokens[i]))

Between(s, first, end) == SubSeq(s, first + 1, end)

(* attach_concordance_display: the text around and between the words. *)
WithDisplay(row, tokens, window) ==
  LET places == WordPlaces(tokens)
      end == row.at + row.length
      first == LeftStart(row.at, window)
      after == end + window
      left_start == IF first = 0 THEN 1 ELSE places[first + 1]
      right_end == IF after < Len(places) THEN places[after + 1] - 1 ELSE Len(tokens)
  IN [row EXCEPT !.left_text = SubSeq(tokens, left_start, places[row.at + 1] - 1),
                 !.node_text = SubSeq(tokens, places[row.at + 1], places[end]),
                 !.right_text = SubSeq(tokens, places[end] + 1, right_end)]

RowOf(d, at, length, window, surfaces) ==
  [doc |-> d, at |-> at, length |-> length,
   left |-> Between(surfaces, LeftStart(at, window), at),
   node |-> Between(surfaces, at, at + length),
   right |-> Between(surfaces, at + length, RightEnd(at + length, window, Len(surfaces))),
   left_text |-> <<>>, node_text |-> <<>>, right_text |-> <<>>]

(* The scan reads the document again, the index gives its words back. *)
materialize_streaming_scan_hit(hit) ==
  RowOf(hit.doc, hit.at, Len(query.words), query.window, analysis_word_tokens(text[hit.doc]))

materialize_surface_index_kwic_row(hit) ==
  LET records == records_for_document(store, hit.doc)
  IN RowOf(hit.doc, hit.at, Len(query.words), query.window,
           [i \in DOMAIN records |-> surface_for_record(store, records[i])])

MaterializeRow ==
  /\ stage = "rows" /\ Len(rows) < Len(page)
  /\ \E hit \in {page[Len(rows) + 1]} :
     \E row \in {IF route = "scan" THEN materialize_streaming_scan_hit(hit)
                 ELSE materialize_surface_index_kwic_row(hit)} :
       rows' = Append(rows, WithDisplay(row, text[hit.doc], query.window))
  /\ UNCHANGED <<indexVars, query, route, stage, cursor, collector, hits, words, page, results>>

(***************************************************************************)
(* The answer.                                                             *)
(***************************************************************************)
ListedBefore(a, b) ==
  \/ hits[a] > hits[b]
  \/ hits[a] = hits[b] /\ Name[a] < Name[b]
  \/ hits[a] = hits[b] /\ Name[a] = Name[b] /\ a < b

RateLess(a, b) == hits[a] * words[b] < hits[b] * words[a]

concordance_distribution_page ==
  LET listed == Ordered({d \in DOMAIN hits : hits[d] > 0}, ListedBefore)
      highest == {d \in ToSet(listed) : \A e \in ToSet(listed) : ~RateLess(d, e)}
  IN [total |-> Len(listed), offset |-> Min({query.doffset, Len(listed)}),
      items |-> Page([i \in DOMAIN listed |->
                        [doc |-> listed[i], count |-> hits[listed[i]], tokens |-> words[listed[i]]]],
                     query.doffset, query.dlimit),
      max_rate |-> {<<hits[d], words[d]>> : d \in highest}]

SearchResult ==
  [rows |-> rows, total |-> collector.total, offset |-> Min({query.offset, collector.total}),
   documents_with_hits |-> Cardinality({d \in DOMAIN hits : hits[d] > 0}),
   selected |-> Cardinality(selected_concordance_document_ids), tokens |-> Total(words),
   dp |-> compute_dispersion(hits, words), top |-> Max(Range(hits) \union {0}),
   distribution |-> IF query.distribution THEN <<concordance_distribution_page>> ELSE <<>>]

EndRoute ==
  /\ stage = "rows" /\ Len(rows) = Len(page)
  /\ results' = [results EXCEPT ![route] = SearchResult]
  /\ IF route = "scan"
     THEN Begin("index", query)
     ELSE stage' = "answered" /\ UNCHANGED <<route, routeVars>>
  /\ UNCHANGED <<indexVars, query>>

SearchNext ==
  \/ StartSearch
  \/ OpenScanDocument \/ ReadToken \/ ProcessCandidate \/ CloseScanDocument
  \/ SiftUp \/ SiftDown \/ CompactArena
  \/ VisitPosting \/ FinishVisit \/ MaterializeRow \/ EndRoute

(***************************************************************************)
(* expand_concordance_context: a row read again with a wider context.      *)
(***************************************************************************)
expand_concordance_context(row, window) ==
  WithDisplay(RowOf(row.doc, row.at, row.length, window, TextWords(row.doc)), text[row.doc], window)

(***************************************************************************)
(* search_surface_index: the hits of the whole index.                      *)
(***************************************************************************)
PostingPlaces ==
  {document_and_ordinal_for_position(store, position) : position \in ToSet(QueryPostings)}

term_hits ==
  {<<spot.doc, spot.ordinal>> : spot \in
     {p \in PostingPlaces :
        query.case => surface_for_record(store, records_for_document(store, p.doc)[p.ordinal + 1])
                        = Head(query.words)}}

phrase_hits ==
  {<<spot.doc, spot.ordinal>> : spot \in
     {p \in PostingPlaces :
        \E records \in {records_for_document(store, p.doc)} :
          /\ p.ordinal + Len(query.words) <= Len(records)
          /\ RecordsMatchAt(records, p.ordinal, QueryKeys)}}

search_surface_index == IF Len(query.words) = 1 THEN term_hits ELSE phrase_hits

(***************************************************************************)
(* Properties.                                                             *)
(***************************************************************************)
WordWindow(d) == [i \in 0..(Len(TextWords(d)) - 1) |-> TextWords(d)[i + 1]]
WholeDocument(d) ==
  [total |-> Len(TextWords(d)), next |-> 0, start |-> 0, buffer |-> WordWindow(d)]

MatchingHits ==
  UNION {{ScanHit(WholeDocument(d), d, c) :
            c \in {p \in DOMAIN WordWindow(d) :
                     /\ MatchesAt(WordWindow(d), p, QueryKeys, query.case)
                     /\ ScanFilterAdmits(WholeDocument(d), p)}}
         : d \in selected_concordance_document_ids}

HitOrder(a, b) == HitLess(a, b, query.sort)

(* A scan through the window, the heap and the arena finds what reading    *)
(* the selected documents whole finds: the number of hits and, in order,   *)
(* those of the page; their rows show the words around the hit, and the    *)
(* text shown with them has exactly these words.                           *)
ScanFindsThePage ==
  results["scan"] # NoResult =>
    \E result \in {results["scan"]}, all \in {MatchingHits} :
      /\ result.total = Cardinality(all)
      /\ query.rows =>
           \E shown \in {Page(Ordered(all, HitOrder), query.offset, query.limit)} :
             [i \in DOMAIN result.rows |-> <<result.rows[i].doc, result.rows[i].at>>]
               = [i \in DOMAIN shown |-> <<shown[i].doc, shown[i].at>>]
      /\ \A row \in ToSet(result.rows) :
           /\ Keys(row.node, query.case) = QueryKeys
           /\ analysis_word_tokens(row.left_text) = row.left
           /\ analysis_word_tokens(row.node_text) = row.node
           /\ analysis_word_tokens(row.right_text) = row.right
           /\ \E whole \in {expand_concordance_context(row, Population)} :
                /\ whole.left_text \o whole.node_text \o whole.right_text = text[row.doc]
                /\ IsSuffix(row.left, whole.left) /\ whole.node = row.node
                /\ IsPrefix(row.right, whole.right)

(* The index answers a query as the scan does, down to the rows, the       *)
(* distribution and the dispersion; asked without a selection or a filter  *)
(* it counts the same hits.                                                *)
IndexAgreesWithScan ==
  results["index"] # NoResult =>
    /\ results["index"] = results["scan"]
    /\ query.filter = <<>> /\ selected_concordance_document_ids = DOMAIN text =>
         Cardinality(search_surface_index) = results["index"].total
==============================================================================
