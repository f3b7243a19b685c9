-------------------------- MODULE MCCorpusStatistics --------------------------
(***************************************************************************)
(* A small instance of the corpus statistics.  The strings, in their       *)
(* order: 1 "7", 2 "Run", 3 "agr", 4 "agre", 5 "agreed", 6 "run", 7 "runs";*)
(* 20 and 21 are the tags NOUN and VERB, 22 and 23 the same in lower case. *)
(***************************************************************************)
EXTENDS CorpusStatistics

CaseFold == <<1, 6, 3, 4, 5, 6, 7>> @@ [tag \in 20..23 |-> IF tag < 22 THEN tag + 2 ELSE tag]
EnglishStem == [english |-> <<1, 6, 3, 3, 4, 6, 6>>]
TraitsOf ==
  [s \in 1..7 |-> [letter |-> s # 1, number |-> s = 1, single |-> s = 1, numeric |-> s = 1]]
Substrings == {<<3, 4>>, <<3, 5>>, <<4, 5>>, <<6, 7>>} \union {<<s, s>> : s \in 1..7 \union {22, 23}}
RegexMatches == <<{1}, {2}, {3, 4, 5}, {4, 5}, Failed, {6, 7}, {7}>>
HiddenWords == [english |-> {6}]

(* One document says anything short, the others a few things or nothing.    *)
Word == {2, 6, 5}
FirstTexts == UNION {[1..n -> Word \union {0}] : n \in 1..3}
LongText == <<6, 6, 5, 2, 7, 6, 0, 1>>
Record(path, processed, source) == [path |-> path, pdf |-> path = 3, processed |-> processed, source |-> source]
SmallLists ==
  {<<Record(2, text, Failed)>> \o others :
     text \in FirstTexts,
     others \in {<<>>, <<Record(1, Failed, <<7, 6>>)>>,
                 <<Record(3, <<0>>, Failed), Record(1, <<>>, <<6>>)>>}}
  \union {<<Record(1, LongText, Failed), Record(3, Failed, <<2, 4>>), Record(2, <<5, 6, 2>>, Failed)>>,
          <<Record(1, Failed, Failed)>>}

(* The annotation of "run" is noun in turns with verb.                      *)
SomeReadings ==
  {[s \in 1..7 |-> IF s \in {2, 6} THEN <<<<6, 20>>, <<6, 21>>>>
                   ELSE IF s = 7 THEN <<<<6, 21>>>> ELSE <<<<s, 21>>>>]}

Everything == [all |-> TRUE, ids |-> {}]
Sorted(key, descending) == [key |-> key, descending |-> descending]
Listed(group, sort) ==
  [selection |-> Everything, group |-> group, fold |-> TRUE, language |-> "english", pos |-> NoString,
   text |-> NoString, mode |-> "contains", class |-> "all", minimum |-> 1, hide |-> FALSE, sort |-> sort,
   offset |-> 0, limit |-> 10]

SomeLists ==
  {Listed("surface", Sorted("frequency", TRUE)),
   [Listed("surface", Sorted("token", FALSE)) EXCEPT !.fold = FALSE, !.offset = 1, !.limit = 2],
   Listed("stem", Sorted("dispersion", TRUE)),
   Listed("lemma", Sorted("range", FALSE)),
   [Listed("lemma", Sorted("token", TRUE)) EXCEPT !.selection = [all |-> FALSE, ids |-> {1}]],
   [Listed("surface", Sorted("frequency", FALSE)) EXCEPT !.pos = 20, !.class = "alphabetic"],
   [Listed("stem", Sorted("frequency", TRUE)) EXCEPT !.language = "klingon", !.text = 2, !.hide = TRUE],
   [Listed("surface", Sorted("frequency", TRUE)) EXCEPT !.text = 5, !.mode = "regex"],
   [Listed("surface", Sorted("frequency", TRUE)) EXCEPT !.text = 4, !.mode = "regex", !.minimum = 2]}

Rows(by, sort) ==
  [selection |-> Everything, ready |-> TRUE, by |-> by, fold |-> FALSE, pos |-> NoString, text |-> NoString,
   mode |-> "exact", language |-> "english", minimum |-> 1, hide |-> FALSE, sort |-> sort, offset |-> 0, limit |-> 0]

SomeAnnotatedLists ==
  {Rows("pos", Sorted("frequency", TRUE)), Rows("lemma", Sorted("token", FALSE)),
   [Rows("lemma", Sorted("token", TRUE)) EXCEPT !.pos = 21, !.hide = TRUE, !.limit = 1],
   [Rows("lemma", Sorted("dispersion", TRUE)) EXCEPT !.text = 2, !.fold = TRUE],
   [Rows("lemma", Sorted("range", TRUE)) EXCEPT !.text = 5, !.mode = "regex"],
   [Rows("pos", Sorted("token", TRUE)) EXCEPT !.selection = [all |-> FALSE, ids |-> {}]],
   [Rows("pos", Sorted("range", TRUE)) EXCEPT !.text = 22, !.mode = "contains"],
   [Rows("pos", Sorted("token", TRUE)) EXCEPT !.ready = FALSE]}

Of(expressions, case) ==
  [selection |-> Everything, expressions |-> expressions, case |-> case, min_tokens |-> 2, offset |-> 0, limit |-> 0]

SomeComparisons ==
  {Of(<<<<2>>, <<5>>>>, FALSE), Of(<<<<2>>, <<6>>>>, TRUE), Of(<<<<2>>, <<6>>>>, FALSE),
   [Of(<<<<6, 0, 5>>, <<7>>, <<2>>>>, FALSE) EXCEPT !.selection = [all |-> TRUE, ids |-> {2}]],
   Of(<<<<6>>>>, FALSE), Of(<<>>, FALSE), Of(<<<<6>>, <<>>>>, FALSE)}

Search(finds, offset, limit) ==
  [selection |-> [all |-> FALSE, ids |-> {1, 3}], finds |-> finds, offset |-> offset, limit |-> limit]
SomeSearches == {Search({1, 2, 3}, 1, 1), Search({2}, 0, 5)}

Exploration(metric, scale, rule) ==
  [metric |-> metric, scale |-> scale, reference |-> "normal", rule |-> rule, manual |-> 0, points |-> 0]

SomeExplorations ==
  {Exploration("length", "linear", "auto"), Exploration("length", "log", "manual"),
   Exploration("mattr", "linear", "sturges"), Exploration("mattr", "log", "auto"),
   [Exploration("length", "log", "freedman_diaconis") EXCEPT !.reference = "lognormal"]}

Logarithms == <<0, 100, 158, 200, 232, 258, 281, 300>>
NoMark == 0
AnyTag == {20, 21}

Kinds == <<2, 1, 1, 1>>
DocumentBuckets == <<<<1, 1>>, <<2, 2>>, <<3, 9>>>>
FrequencyBands == <<<<1, 1>>, <<2, 2>>, <<3, 99>>>>
Classes == <<<<1, 1>>, <<2, 99>>>>
TopRanks == <<1, 3>>
CoverageTargets == <<50, 80, 95>>
Limits ==
  [balance |-> <<30, 60>>, numeric |-> <<10, 30>>, dispersion |-> <<40, 70>>, effective |-> 50, types |-> 3]
==============================================================================
