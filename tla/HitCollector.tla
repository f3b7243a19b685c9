---------------------------- MODULE HitCollector ----------------------------
(***************************************************************************)
(* BoundedConcordanceCollector (corpuswright-core                          *)
(* analysis/concordance/mod.rs): of all the hits of a search it keeps, in  *)
(* a heap with the last one on top, no more than the requested page needs. *)
(* The keys a hit is sorted by are kept once each, in an arena that is     *)
(* rebuilt from the heap when it has grown too large.                      *)
(*                                                                         *)
(* A key is a tuple of surfaces, or NoKey.  A hit holds keys; a compact    *)
(* hit holds their places in the arena, 0 for NoKey.                       *)
(***************************************************************************)
EXTENDS SurfaceTokens

CONSTANTS SortDepth,         \* words of context a hit can be sorted by (3)
          ArenaFactor, ArenaSlack,
          MaxSortRecords     \* max_retained_query_sort_records

ByFile == <<[side |-> "file", depth |-> 0]>>
ByNode == <<[side |-> "node", depth |-> 0]>>

has_context_sort(sort) == \E i \in DOMAIN sort : sort[i].side \in {"left", "right"}

RetainedDepth(query, limit) ==
  IF ~query.rows THEN 0 ELSE IF query.sort = ByFile THEN limit ELSE query.offset + limit

NewCollector(query, limit) ==
  [sort |-> query.sort, offset |-> query.offset, limit |-> limit,
   depth |-> RetainedDepth(query, limit), heap |-> <<>>, arena |-> <<>>, total |-> 0,
   sift |-> [way |-> "none", at |-> 0]]

(***************************************************************************)
(* Keys and their order: hits without a word at the place sort last.       *)
(***************************************************************************)
TupleLess(a, b) ==
  \E i \in DOMAIN a : a[i] < b[i] /\ \A j \in 1..(i - 1) : a[j] = b[j]
ContextLess(a, b) == a # NoKey /\ (b = NoKey \/ TupleLess(a, b))

KeyOf(hit, key) ==
  CASE key.side = "node" -> hit.node
    [] key.side = "left" -> hit.left[key.depth]
    [] key.side = "right" -> hit.right[key.depth]
    [] key.side = "file" -> NoKey

HitLess(a, b, sort) ==
  \E i \in 1..(Len(sort) + 1) :
    /\ \A j \in 1..(i - 1) : KeyOf(a, sort[j]) = KeyOf(b, sort[j])
    /\ IF i <= Len(sort) THEN ContextLess(KeyOf(a, sort[i]), KeyOf(b, sort[i]))
       ELSE a.doc < b.doc \/ (a.doc = b.doc /\ a.at < b.at)

(***************************************************************************)
(* The arena.                                                              *)
(***************************************************************************)
intern(arena, key) ==
  IF key = NoKey \/ \E i \in DOMAIN arena : arena[i] = key THEN arena ELSE Append(arena, key)

SymbolId(arena, key) ==
  IF key = NoKey THEN 0 ELSE CHOOSE i \in DOMAIN arena : arena[i] = key
Value(arena, id) == IF id = 0 THEN NoKey ELSE arena[id]

KeysOf(hit) == <<hit.node>> \o hit.left \o hit.right

Compact(hit, arena) ==
  [doc |-> hit.doc, at |-> hit.at, node |-> SymbolId(arena, hit.node),
   left |-> [i \in DOMAIN hit.left |-> SymbolId(arena, hit.left[i])],
   right |-> [i \in DOMAIN hit.right |-> SymbolId(arena, hit.right[i])]]

Resolved(hit, arena) ==
  [doc |-> hit.doc, at |-> hit.at, node |-> Value(arena, hit.node),
   left |-> [i \in DOMAIN hit.left |-> Value(arena, hit.left[i])],
   right |-> [i \in DOMAIN hit.right |-> Value(arena, hit.right[i])]]

compare_compact(a, b, collector) ==
  HitLess(Resolved(a, collector.arena), Resolved(b, collector.arena), collector.sort)

(***************************************************************************)
(* A hit is recorded: counted, and kept if it belongs to the page so far.  *)
(***************************************************************************)
Placed(collector, hit, place, way) ==
  LET arena == FoldLeft(intern, collector.arena, KeysOf(hit))
      compact == Compact(hit, arena)
  IN [collector EXCEPT !.arena = arena,
                       !.heap = IF place > Len(@) THEN Append(@, compact)
                                ELSE [@ EXCEPT ![place] = compact],
                       !.sift = [way |-> way, at |-> place],
                       !.total = @ + 1]

Counted(collector) == [collector EXCEPT !.total = @ + 1]

Beats(hit, collector) ==
  HitLess(hit, Resolved(collector.heap[1], collector.arena), collector.sort)

RecordByFile(collector, hit) ==
  IF collector.total >= collector.offset /\ Len(collector.heap) < collector.limit
  THEN [Counted(collector) EXCEPT !.heap = Append(@, hit)]
  ELSE Counted(collector)

record(collector, hit) ==
  IF collector.depth = 0 THEN Counted(collector)
  ELSE IF collector.sort = ByFile THEN RecordByFile(collector, hit)
  ELSE IF Len(collector.heap) < collector.depth
  THEN Placed(collector, hit, Len(collector.heap) + 1, "up")
  ELSE IF Beats(hit, collector) THEN Placed(collector, hit, 1, "down")
  ELSE Counted(collector)

(***************************************************************************)
(* Sifting, a swap at a time.                                              *)
(***************************************************************************)
Swapped(collector, i, j, way) ==
  [collector EXCEPT !.heap = [@ EXCEPT ![i] = collector.heap[j], ![j] = collector.heap[i]],
                    !.sift = [way |-> way, at |-> j]]
Settled(collector, way) == [collector EXCEPT !.sift = [way |-> way, at |-> 0]]

sift_up(collector) ==
  LET i == collector.sift.at
      parent == i \div 2
  IN IF i > 1 /\ compare_compact(collector.heap[parent], collector.heap[i], collector)
     THEN Swapped(collector, i, parent, "up") ELSE Settled(collector, "none")

WorseChild(collector, i) ==
  IF /\ 2 * i + 1 <= Len(collector.heap)
     /\ compare_compact(collector.heap[2 * i], collector.heap[2 * i + 1], collector)
  THEN 2 * i + 1 ELSE 2 * i

sift_down(collector) ==
  LET i == collector.sift.at
  IN IF 2 * i > Len(collector.heap) THEN Settled(collector, "compact")
     ELSE CHOOSE next \in
            {IF compare_compact(collector.heap[i], collector.heap[worse], collector)
             THEN Swapped(collector, i, worse, "down") ELSE Settled(collector, "compact")
             : worse \in {WorseChild(collector, i)}} : TRUE

compact_arena_if_needed(collector) ==
  IF Len(collector.arena) <= collector.depth * ArenaFactor + ArenaSlack
  THEN Settled(collector, "none")
  ELSE LET hits == [i \in DOMAIN collector.heap |-> Resolved(collector.heap[i], collector.arena)]
           arena == FoldLeft(LAMBDA a, hit : FoldLeft(intern, a, KeysOf(hit)), <<>>, hits)
       IN [Settled(collector, "none") EXCEPT
             !.arena = arena, !.heap = [i \in DOMAIN hits |-> Compact(hits[i], arena)]]

(***************************************************************************)
(* finish: the hits of the page, in order.                                 *)
(***************************************************************************)
Page(hits, offset, limit) == SubSeq(hits, offset + 1, Min({offset + limit, Len(hits)}))

finish(collector) ==
  IF collector.sort = ByFile THEN collector.heap
  ELSE Page(Ordered(ToSet(collector.heap), LAMBDA a, b : compare_compact(a, b, collector)),
            collector.offset, collector.limit)
==============================================================================
