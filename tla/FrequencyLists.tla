---------------------------- MODULE FrequencyLists ----------------------------
(***************************************************************************)
(* What the analysis pages ask of a built corpus (corpuswright-core        *)
(* analysis/frequency.rs, distribution.rs and compare.rs): the frequency   *)
(* list, the rows of the annotated words, the distribution of one term     *)
(* over the documents, the documents, and the comparison of expressions.   *)
(*                                                                         *)
(* Surfaces, lemmas and stems are strings, numbers again; a query's text   *)
(* is one of them, or NoString.  Rates are proportional to the counts and  *)
(* left out.                                                               *)
(***************************************************************************)
EXTENDS CorpusBuild

CONSTANTS NoString,
          Stem,                    \* Stem[language][string], for the supported languages
          Traits,                  \* Traits[string]: [letter, number, single], what it is made of
          Within, Heads,           \* <<a, b>>: the string b contains a, begins with a
          Regex,                   \* Regex[string]: the strings it matches, Failed when invalid
          Stopword,                \* Stopword[language]
          Tag,                     \* universal parts of speech, in the order of their names
          Readings,                \* annotations: [surface -> sequence of <<lemma, tag>>]
          MaxQueryWindow,          \* MAX_QUERY_WINDOW
          MinExpressions, MaxExpressions, CompareDefaultLimit

VARIABLE annotation                \* NoString, or the attached layer as a member of Readings

(***************************************************************************)
(* The selection, and one page of a list.                                  *)
(***************************************************************************)
selected_document_mask(selection) == {d \in DOMAIN documents : Selects(selection, d)}
TokensOf(selected) == Total([d \in selected |-> documents[d].token_count])

Page(list, offset, limit) ==
  LET from == Min({offset, Len(list)})
  IN [total |-> Len(list), offset |-> from, items |-> SubSeq(list, from + 1, Min({from + limit, Len(list)}))]
Bounded(limit) == Min({limit, MaxQueryWindow})

(***************************************************************************)
(* Counts by term and document: tables [key -> [document -> count]].       *)
(* surface_term_counts are sparse, and so are the counts of a key.         *)
(***************************************************************************)
SurfaceCount(term, d) ==
  IF d \in DOMAIN surface_terms[term].document_counts THEN surface_terms[term].document_counts[d] ELSE 0

(* The words of a document that a layer gives one lemma and tag: the i-th   *)
(* word of a surface has the reading of its turn.                           *)
ReadingCount(term, d, k) ==
  LET n == Len(annotation[surface_terms[term].token])
      count == SurfaceCount(term, d)
  IN count \div n + (IF k <= count % n THEN 1 ELSE 0)

annotated_term_counts(d) ==
  {[surface |-> surface_terms[term].token, lemma |-> annotation[surface_terms[term].token][k][1],
    upos |-> annotation[surface_terms[term].token][k][2], count |-> ReadingCount(term, d, k)]
     : <<term, k>> \in {<<t, j>> \in (DOMAIN surface_terms) \X (1..2) :
                         /\ j \in DOMAIN annotation[surface_terms[t].token]
                         /\ ReadingCount(t, d, j) > 0}}

surface_term_counts(d) ==
  {[surface |-> surface_terms[t].token, count |-> SurfaceCount(t, d)]
     : t \in {u \in DOMAIN surface_terms : SurfaceCount(u, d) > 0}}

CountOf(counts) == FoldSet(LAMBDA c, sum : sum + c.count, 0, counts)

(* group by Key: what each document of a selection has of each key.         *)
Grouped(counts, Key(_)) ==
  LET keys == {Key(c) : c \in UNION {counts[d] : d \in DOMAIN counts}}
      of(key, d) == CountOf({c \in counts[d] : Key(c) = key})
  IN [key \in keys |-> [d \in {e \in DOMAIN counts : of(key, e) > 0} |-> of(key, d)]]

frequency_distribution_stats(token, hits, selected) ==
  [token |-> token, frequency |-> Total(hits), document_frequency |-> Cardinality(DOMAIN hits),
   dispersion |-> compute_dispersion(hits, [d \in selected |-> documents[d].token_count]),
   top |-> Max({hits[d] : d \in DOMAIN hits})]

(***************************************************************************)
(* Grouping: surface, lemma or stem, with what stands in for it.           *)
(***************************************************************************)
selected_documents_have_annotation(selected) == selected = {} \/ annotation # NoString
stemming_algorithm(language) == language \in DOMAIN Stem

resolve_frequency_grouping(query, available) ==
  CASE query.group = "stem" /\ stemming_algorithm(query.language) ->
         [by |-> "stem", fold |-> TRUE, notices |-> {}]
    [] query.group = "stem" ->
         [by |-> "surface", fold |-> query.fold, notices |-> {"stemming_unsupported"}]
    [] query.group = "lemma" /\ ~available ->
         [by |-> "surface", fold |-> query.fold, notices |-> {"annotation_unavailable"}]
    [] OTHER -> [by |-> query.group, fold |-> query.fold, notices |-> {}]

Folded(string, fold) == IF fold THEN Fold[string] ELSE string

frequency_group_key(string, grouping, language) ==
  IF grouping.by = "stem" THEN Stem[language][Fold[string]] ELSE Folded(string, grouping.fold)

annotated_frequency_group_key(count, grouping, language) ==
  IF grouping.by = "lemma" THEN Folded(count.lemma, grouping.fold)
  ELSE frequency_group_key(count.surface, grouping, language)

frequency_query_key(string, grouping, language) ==
  IF string = NoString THEN NoString ELSE frequency_group_key(string, grouping, language)

token_matches_class(string, class) ==
  LET traits == Traits[string]
  IN CASE class = "alphabetic" -> traits.letter /\ ~traits.number /\ ~traits.single
       [] class = "include_singles" -> traits.letter /\ ~traits.number
       [] class = "include_numerals" -> ~traits.single
       [] OTHER -> TRUE

MatchesText(string, text, mode) ==
  CASE text = NoString -> TRUE
    [] mode = "exact" -> string = text
    [] mode = "contains" -> <<text, string>> \in Within
    [] mode = "starts_with" -> <<text, string>> \in Heads
    [] OTHER -> string \in Regex[text]

InvalidRegex(text, mode) == text # NoString /\ mode = "regex" /\ Regex[text] = Failed
StopwordsOf(language) == IF language \in DOMAIN Stopword THEN Stopword[language] ELSE {}

(***************************************************************************)
(* The order of a list: the key chosen, equal ones by their tokens.  Only  *)
(* the order of the tokens themselves is turned round in the descending    *)
(* list.                                                                   *)
(***************************************************************************)
SortValue(row, key) ==
  CASE key = "range" -> <<row.document_frequency, 1>>
    [] key = "dispersion" -> row.dispersion
    [] OTHER -> <<row.frequency, 1>>
Below(a, b) == a[1] * b[2] < b[1] * a[2]

RowBefore(left, right, sort, IdentityBefore(_, _)) ==
  LET a == SortValue(left, sort.key)
      b == SortValue(right, sort.key)
  IN CASE sort.key = "token" /\ sort.descending -> IdentityBefore(right, left)
       [] sort.key = "token" -> IdentityBefore(left, right)
       [] Below(a, b) -> ~sort.descending
       [] Below(b, a) -> sort.descending
       [] OTHER -> IdentityBefore(left, right)

TokenBefore(left, right) == left.token < right.token

(***************************************************************************)
(* query_frequency_list.                                                   *)
(***************************************************************************)
Listing(query) ==
  LET selected == selected_document_mask(query.selection)
      available == (query.group = "lemma" \/ query.pos # NoString) =>
                     selected_documents_have_annotation(selected)
      grouping == resolve_frequency_grouping(query, available)
  IN [selected |-> selected, grouping |-> grouping,
      pos |-> IF available THEN query.pos ELSE NoString,
      text |-> frequency_query_key(query.text, grouping, query.language),
      notices |-> grouping.notices \union
        (IF ~available /\ query.pos # NoString THEN {"pos_filter_unavailable"} ELSE {})]

ListedCounts(query, listing) ==
  IF listing.grouping.by = "lemma" \/ listing.pos # NoString
  THEN [d \in listing.selected |->
         {c \in annotated_term_counts(d) :
            listing.pos \in {NoString, c.upos} /\ token_matches_class(c.surface, query.class)}]
  ELSE [d \in listing.selected |->
         {c \in surface_term_counts(d) : token_matches_class(c.surface, query.class)}]

ListedGroups(query, listing) ==
  Grouped(ListedCounts(query, listing),
          LAMBDA c : IF "upos" \in DOMAIN c
                     THEN annotated_frequency_group_key(c, listing.grouping, query.language)
                     ELSE frequency_group_key(c.surface, listing.grouping, query.language))

ShownRows(query, listing, groups) ==
  {frequency_distribution_stats(token, groups[token], listing.selected)
     : token \in {t \in DOMAIN groups :
                   /\ Total(groups[t]) >= query.minimum
                   /\ ~(query.hide /\ t \in StopwordsOf(query.language))
                   /\ MatchesText(t, listing.text, query.mode)}}

query_frequency_list(query) ==
  LET listing == Listing(query)
      common == [selected |-> Cardinality(listing.selected), tokens |-> TokensOf(listing.selected),
                 limit |-> Bounded(query.limit), notices |-> listing.notices]
  IN IF InvalidRegex(listing.text, query.mode)
     THEN common @@ [types |-> 0, page |-> Page(<<>>, 0, 0), error |-> TRUE]
     ELSE LET groups == CHOOSE g \in {ListedGroups(query, listing)} : TRUE
              rows == Ordered(ShownRows(query, listing, groups),
                              LAMBDA left, right : RowBefore(left, right, query.sort, TokenBefore))
          IN common @@ [types |-> Cardinality(DOMAIN groups),
                        page |-> Page(rows, query.offset, Bounded(query.limit)), error |-> FALSE]

(***************************************************************************)
(* query_annotated_frequency: rows by tag, or by lemma and tag.            *)
(***************************************************************************)
LexBefore(left, right) ==
  left.token[1] < right.token[1] \/ (left.token[1] = right.token[1] /\ left.token[2] < right.token[2])

AnnotatedGroups(selected, mode) ==
  Grouped([d \in selected |-> annotated_term_counts(d)],
          LAMBDA c : IF mode = "pos" THEN c.upos ELSE <<c.lemma, c.upos>>)

AnnotatedTextMatches(string, query, fold) ==
  IF query.mode = "regex" THEN query.text = NoString \/ Folded(string, fold) \in Regex[query.text]
  ELSE MatchesText(Folded(string, fold),
                   IF query.text = NoString THEN NoString ELSE Folded(query.text, fold), query.mode)

(* Tags are always compared without their case.                            *)
AnnotatedRowShown(query, row) ==
  /\ row.frequency >= query.minimum
  /\ IF query.by = "pos" THEN AnnotatedTextMatches(row.token, query, TRUE)
     ELSE /\ AnnotatedTextMatches(row.token[1], query, query.fold)
          /\ query.pos \in {NoString, row.token[2]}
          /\ ~(query.hide /\ row.token[1] \in StopwordsOf(query.language))

query_annotated_frequency(query) ==
  LET selected == selected_document_mask(query.selection)
      tokens == TokensOf(selected)
      limit == IF query.limit = 0 THEN MaxQueryWindow ELSE Bounded(query.limit)
      empty == [tokens |-> tokens, limit |-> Bounded(query.limit), page |-> Page(<<>>, 0, 0)]
  IN IF ~query.ready \/ ~selected_documents_have_annotation(selected)
     THEN empty @@ [status |-> "unavailable"]
     ELSE IF selected = {} \/ tokens = 0 THEN empty @@ [status |-> "empty"]
     ELSE IF InvalidRegex(query.text, query.mode) THEN empty @@ [status |-> "error"]
     ELSE LET groups == CHOOSE g \in {AnnotatedGroups(selected, query.by)} : TRUE
              rows == {frequency_distribution_stats(key, groups[key], selected) : key \in DOMAIN groups}
              shown == Ordered({row \in rows : AnnotatedRowShown(query, row)},
                               LAMBDA left, right :
                                 IF query.by = "pos" THEN RowBefore(left, right, query.sort, TokenBefore)
                                 ELSE RowBefore(left, right, query.sort, LexBefore))
          IN [tokens |-> tokens, limit |-> limit, status |-> "rows",
              page |-> Page(shown, query.offset, limit)]

(***************************************************************************)
(* The distribution of one term, of the list or of the annotated rows.     *)
(***************************************************************************)
DistributionPage(counts, selected, offset, limit) ==
  LET rows == Ordered(selected, <)
      page == Page([r \in DOMAIN rows |->
                [document |-> rows[r], tokens |-> documents[rows[r]].token_count,
                 count |-> IF rows[r] \in DOMAIN counts THEN counts[rows[r]] ELSE 0]],
                offset, Bounded(limit))
  IN page @@ [limit |-> Bounded(limit)]

Present(counts) == Restrict(counts, {d \in DOMAIN counts : counts[d] > 0})

query_term_distribution(token, query) ==
  LET selected == selected_document_mask(query.selection)
      available == query.group = "lemma" => selected_documents_have_annotation(selected)
      grouping == resolve_frequency_grouping(query, available)
      key == frequency_query_key(token, grouping, query.language)
      counts == IF grouping.by = "lemma"
                THEN [d \in selected |->
                       CountOf({c \in annotated_term_counts(d) :
                                 annotated_frequency_group_key(c, grouping, query.language) = key})]
                ELSE [d \in selected |->
                       Total([t \in {u \in DOMAIN surface_terms :
                                      frequency_group_key(surface_terms[u].token, grouping, query.language) = key}
                                |-> SurfaceCount(t, d)])]
  IN DistributionPage(Present(counts), selected, query.offset, query.limit) @@ [token |-> key]

\* Mutant: the tag of the row is not compared.
SelectorMatchesLemma(selector, count) == selector.lemma \in {NoString, count.lemma}

SelectorMatches(selector, count) ==
  /\ count.upos = selector.upos
  /\ selector.lemma \in {NoString, count.lemma}

query_annotated_term_distribution(selector, query) ==
  LET selected == selected_document_mask(query.selection)
      counts == [d \in selected |->
                  CountOf({c \in annotated_term_counts(d) : SelectorMatches(selector, c)})]
  IN DistributionPage(Present(counts), selected, query.offset, query.limit)

(* A document is found by a part of its path; the query counts all of them  *)
(* and shows a window.                                                      *)
query_analysis_documents(selection, finds, offset, limit) ==
  LET selected == selected_document_mask(selection)
      found == SelectSeq([d \in DOMAIN documents |-> d], LAMBDA d : documents[d].path \in finds)
  IN Page([i \in DOMAIN found |-> [document |-> found[i], selected |-> found[i] \in selected]],
          offset, Bounded(limit))
       @@ [selected |-> Cardinality(selected)]

(***************************************************************************)
(* compare_expressions counts the texts again, not the corpus.  An         *)
(* expression is a sequence of tokens, <<>> when blank.                    *)
(***************************************************************************)
compare_limit(limit) == IF limit = 0 THEN CompareDefaultLimit ELSE Bounded(limit)

Repeats(list) == \E i, j \in DOMAIN list : i < j /\ list[i] = list[j]

resolve_compare_expressions(query) ==
  LET n == Len(query.expressions)
      keys == [e \in DOMAIN query.expressions |->
                Keys(analysis_word_tokens(query.expressions[e]), query.case)]
  IN CASE n = 0 -> [error |-> "empty"]
       [] n < MinExpressions -> [error |-> "too_few"]
       [] n > MaxExpressions -> [error |-> "too_many"]
       [] \E e \in 1..n : query.expressions[e] = <<>> \/ Repeats(SubSeq(query.expressions, 1, e)) ->
            [error |-> "blank_or_duplicate"]
       [] \E e \in 1..n : keys[e] = <<>> \/ (~query.case /\ Repeats(SubSeq(keys, 1, e))) ->
            [error |-> "invalid_or_equivalent"]
       [] OTHER -> [error |-> "none", keys |-> keys]

count_concordance_token_sequence_matches(words, keys, case_sensitive) ==
  Cardinality({c \in 0..(Len(words) - Len(keys)) :
                \A k \in DOMAIN keys : concordance_key(words[c + k], case_sensitive) = keys[k]})

compare_expressions(query) ==
  LET resolved == resolve_compare_expressions(query)
      selected == selected_document_mask(query.selection)
  IN IF resolved.error # "none" THEN [error |-> resolved.error]
     ELSE LET texts == CHOOSE t \in {TextsOf(records)} : TRUE
              words == [d \in selected |-> analysis_word_tokens(texts[d])]
              lengths == [d \in selected |-> Len(words[d])]
              cell(e, d) ==
                count_concordance_token_sequence_matches(words[d], resolved.keys[e], query.case)
              hits == [e \in DOMAIN resolved.keys |-> Present([d \in selected |-> cell(e, d)])]
              rows == Ordered(selected, <)
          IN [error |-> "none",
              expressions |-> [e \in DOMAIN hits |->
                [total |-> Total(hits[e]), documents |-> Cardinality(DOMAIN hits[e]),
                 dispersion |-> compute_dispersion(hits[e], lengths)]],
              page |-> Page([r \in DOMAIN rows |->
                [document |-> rows[r], tokens |-> lengths[rows[r]],
                 in_rate |-> lengths[rows[r]] > 0 /\ lengths[rows[r]] >= query.min_tokens,
                 cells |-> [e \in DOMAIN hits |-> cell(e, rows[r])]]],
                query.offset, compare_limit(query.limit))]
==============================================================================
