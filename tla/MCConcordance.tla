---------------------------- MODULE MCConcordance ----------------------------
(***************************************************************************)
(* A small instance of the concordance: one index, the searches and the    *)
(* collocations over it.  The surfaces are "A", "a", "b" and "c", in the order  *)
(* of the strings; the names of the documents are in the other order than  *)
(* their ids.                                                              *)
(***************************************************************************)
EXTENDS ConcordanceSearch, Collocations

CaseFold == <<2, 2, 3, 4>>
NamesInReverse == <<2, 1>>
NoMark == 0

(* One document says anything short, another one of a few texts with marks. *)
FirstTexts == UNION {[1..n -> 1..3] : n \in 0..4}
SecondTexts == {<<>>, <<0, 2>>, <<4, 0, 3, 2>>}
SmallCorpora ==
  {<<t, u>> : t \in FirstTexts, u \in SecondTexts} \union {<<<<>>>>, <<<<0, 1, 0, 2>>>>, <<<<1, 2, 0, 2, 1>>>>}

By(side, depth) == [side |-> side, depth |-> depth]
AllDocuments == [all |-> TRUE, ids |-> {}]

Asked(sought, case, sort) ==
  [words |-> sought, case |-> case, filter |-> <<>>, direction |-> "both",
   rows |-> TRUE, distribution |-> TRUE, sort |-> sort, offset |-> 0, limit |-> 2, window |-> 1,
   doffset |-> 0, dlimit |-> 0, selection |-> AllDocuments]

SomeQueries ==
  {Asked(<<2>>, FALSE, ByFile),
   [Asked(<<2>>, FALSE, ByFile) EXCEPT !.offset = 1, !.limit = 0],
   [Asked(<<2>>, FALSE, ByNode) EXCEPT !.offset = 1, !.limit = 1, !.doffset = 1],
   Asked(<<2>>, FALSE, <<By("left", 1), By("right", 2)>>),
   [Asked(<<2>>, TRUE, <<By("right", 1)>>) EXCEPT !.window = 2],
   [Asked(<<2, 0, 3>>, FALSE, <<By("left", 2)>>) EXCEPT !.limit = 1],
   [Asked(<<3>>, FALSE, <<By("right", 2)>>) EXCEPT !.filter = <<2>>, !.direction = "left"],
   [Asked(<<2>>, FALSE, ByFile) EXCEPT !.filter = <<3>>, !.direction = "right", !.window = 2],
   [Asked(<<1>>, FALSE, ByNode) EXCEPT !.filter = <<2, 2>>, !.window = 2,
                                        !.selection = [all |-> TRUE, ids |-> {2}]],
   [Asked(<<2>>, FALSE, ByFile) EXCEPT !.rows = FALSE, !.dlimit = 1,
                                        !.selection = [all |-> FALSE, ids |-> {1, 2, 7}]],
   [Asked(<<2>>, FALSE, ByFile) EXCEPT !.rows = FALSE, !.distribution = FALSE],
   [Asked(<<2>>, FALSE, ByNode) EXCEPT !.offset = 3],
   Asked(<<0>>, FALSE, ByFile),
   Asked(<<2>>, FALSE, ByNode \o ByFile)}

WordsNear(sought, case, combined) ==
  [words |-> sought, case |-> case, selection |-> AllDocuments, combined |-> combined]

SomeRequests ==
  {WordsNear(<<2>>, FALSE, 100000), WordsNear(<<2>>, TRUE, 2200), WordsNear(<<1, 0, 2>>, TRUE, 1650),
   WordsNear(<<3>>, TRUE, 300), WordsNear(<<3>>, FALSE, 10), WordsNear(<<2>>, TRUE, 1050), WordsNear(<<0>>, FALSE, 100000),
   [WordsNear(<<3>>, FALSE, 100000) EXCEPT !.selection = [all |-> TRUE, ids |-> {2}]]}

Profile(key, measure, order) ==
  [key |-> key, measure |-> measure, order |-> order, span |-> 0, direction |-> "both",
   min_cooccurrence |-> 1, min_frequency |-> 1, hide |-> FALSE, limit |-> 1]

SomeViews ==
  {Profile("association", "mi", "desc"),
   [Profile("association", "ratio", "asc") EXCEPT !.limit = 2],
   [Profile("near_query", "t", "asc") EXCEPT !.direction = "left", !.span = 1],
   [Profile("frequency", "dice", "desc") EXCEPT !.min_frequency = 2, !.hide = TRUE, !.limit = 3],
   [Profile("near_query", "z", "desc") EXCEPT !.direction = "right", !.min_cooccurrence = 2]}

Limits == {530, 100000}
HiddenWords == {3}

Init == IndexInit /\ SearchInit /\ CollocationInit

IndexStep ==
  IndexNext /\ stage = "idle" /\ task = "idle" /\ UNCHANGED <<searchVars, collocationVars>>
SearchStep == SearchNext /\ task = "idle" /\ UNCHANGED collocationVars
CollocationStep == CollocationNext /\ stage = "idle" /\ UNCHANGED searchVars

Ended == /\ \/ stage \in {"answered", "rejected"}
            \/ task \in {"empty_query", "counted", "cancelled"} \/ ProfileIsRanked
            \/ phase \in {"cancelled", "refused"}
            \/ phase = "ready" /\ cancelled
         /\ UNCHANGED <<indexVars, searchVars, collocationVars>>

Next == IndexStep \/ SearchStep \/ CollocationStep \/ Ended

Spec == Init /\ [][Next]_<<indexVars, searchVars, collocationVars>>
==============================================================================
