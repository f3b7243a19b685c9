---------------------------- MODULE PageCleaning ----------------------------
(***************************************************************************)
(* The cleaning of documents with pages. Rules for page edges and the      *)
(* removal of page labels need pages that are those of the source: they    *)
(* take lines out of the pages, which are then cleaned one by one. Any     *)
(* other document is cleaned as one text, and its pages are given as well  *)
(* only when they come to that text.                                       *)
(***************************************************************************)
EXTENDS TextCleaning

(***************************************************************************)
(* A text from beginning to end                                            *)
(***************************************************************************)
Uniform(t, config) ==
    IF config.options \cap {"normalize_whitespace_line_endings", "normalize_line_endings"} # {}
    THEN LineEndings(t) ELSE t

RemovalsApplied(early, rules, context) ==
    FoldLeft(LAMBDA acc, rule : The({[text |-> removed.text, events |-> acc.events \o removed.events] :
                                       removed \in {apply_line_removal(acc.text, rule, context)}}),
             early, rules)
WithoutWholeLineNoise(t, config, context) ==
    The({RemovalsApplied([text |-> early.text, events |-> NormalisationEvents(early.effects, context)],
                         SelectSeq(LineRules, LAMBDA r : r \in config.options), context) :
           early \in UNION {{apply_early_normalisations(uniform, config, TRUE)} : uniform \in {Uniform(t, config)}}})

Finished(t, config) == Spaced(ReplacePatterns(remove_literal_patterns(t, config), config), config)

(* Without a report the rules go their own way, and nothing is recorded. *)
Cleaned(t, config, context, reported) ==
    The(UNION {{[text |-> Finished(ruled.text, config), events |-> kept.events \o ruled.events] :
                  ruled \in UNION {{apply_removal_rules(reflowed, config, context, reported)} :
                                     reflowed \in {Reflowed(kept.text, config)}}} :
               kept \in {WithoutWholeLineNoise(t, config, context)}})

clean_text(t, config) == Cleaned(t, config, [source |-> NoSource, page |-> 0], FALSE).text

(* `collected` is what a collector holds; nothing is collected without a report. *)
NothingCollected == [events |-> <<>>, skipped |-> NoMap]
clean_text_impl(t, config, context, collected, reported) ==
    LET outcome(clean) ==
            IF ~reported THEN [text |-> clean.text, events |-> <<>>, skipped |-> NoMap]
            ELSE [text |-> clean.text, events |-> collected.events \o clean.events,
                  skipped |-> SkippedRules(collected.skipped, config, context)]
    IN The({outcome(clean) : clean \in {Cleaned(t, config, context, reported)}})

(***************************************************************************)
(* Documents: pages of lines, reliable when they are the source's.         *)
(***************************************************************************)
PAGE_EDGE_LINE_COUNT == 3
Break == <<"\n">>
BlankLine == <<"\n", "\n">>

lines(t) ==
    LET parts == split_inclusive(t)
        bare(l) == IF Last(l) = "\n" THEN Content(l) ELSE l
    IN [k \in 1..Len(parts) |-> bare(parts[k])]

from_pages(texts) == [pages |-> [p \in 1..Len(texts) |-> lines(texts[p])], reliable |-> TRUE]
from_flat_text_as_single_page(t) == [from_pages(<<t>>) EXCEPT !.reliable = FALSE]
to_text(page) == join(page, Break)
to_flat_text(document) == join([p \in 1..Len(document.pages) |-> to_text(document.pages[p])], BlankLine)

is_page_top(i, count) == i <= PAGE_EDGE_LINE_COUNT
is_page_bottom(i, count) == i > count - PAGE_EDGE_LINE_COUNT

(***************************************************************************)
(* Rules for the edges of pages                                            *)
(***************************************************************************)
PageZones == {"PageTop", "PageBottom", "PageTopOrBottom"}
PageLabelOptions == {"remove_standalone_page_numbers", "remove_standalone_roman_page_numbers",
                     "remove_page_indicators", "remove_page_delimiters", "remove_isolated_page_markers"}

has_page_zone_rules(config) == \E r \in ToSet(config.removal_rules) : r.enabled /\ r.scope \in PageZones
has_page_label_removal(config) == config.options \cap PageLabelOptions # {}
requires_reliable_page_metadata(config) == has_page_zone_rules(config) \/ has_page_label_removal(config)
without_page_label_removal(config) == [config EXCEPT !.options = @ \ PageLabelOptions]

InScope(rule, top, bottom) ==
    \/ rule.scope = "WholeLine"
    \/ rule.scope \in {"PageTop", "PageTopOrBottom"} /\ top
    \/ rule.scope \in {"PageBottom", "PageTopOrBottom"} /\ bottom

prepare_line_for_rule_matching(line, config) == apply_early_normalisations(line, config, TRUE).text
PreparedRule(rule, config) ==
    The({trim(early.text) : early \in {apply_early_normalisations(rule.text, config, rule.matcher = "Literal")}})
Matches(rule, prepared, config) ==
    \E t \in {trim(prepared)} :
       \E line \in {IF rule.matcher = "Literal" THEN t ELSE normalize_line_for_repeated_artifact(t)} :
          line # <<>> /\ line = PreparedRule(rule, config)

should_remove_line_by_rules(prepared, top, bottom, config) ==
    \E r \in ToSet(config.removal_rules) : r.enabled /\ InScope(r, top, bottom) /\ Matches(r, prepared, config)

(***************************************************************************)
(* Page labels: numbers at the edges of pages                              *)
(***************************************************************************)
MAX_ROMAN_PAGE_MARKER_VALUE == 399
DigitOf(c) == CHOOSE d \in 0..9 : ToString(d) = c
ValueOf(digits) ==
    LET upTo[n \in 0..Len(digits)] == IF n = 0 THEN 0 ELSE 10 * upTo[n - 1] + DigitOf(digits[n])
    IN upTo[Len(digits)]
IsArabic(t) == t # <<>> /\ \A i \in DOMAIN t : is_decimal_digit(t[i])

RomanDigits(one, five, ten) ==
    <<<<one>>, <<one, one>>, <<one, one, one>>, <<one, five>>, <<five>>, <<five, one>>, <<five, one, one>>,
      <<five, one, one, one>>, <<one, ten>>>>
RomanPlace(n, digits) == IF n = 0 THEN <<>> ELSE digits[n]
(* The numerals below 1000, by value. *)
RomanNumerals ==
    [n \in 0..999 |-> RomanPlace(n \div 100, RomanDigits("c", "d", "m"))
                      \o RomanPlace((n \div 10) % 10, RomanDigits("x", "l", "c"))
                      \o RomanPlace(n % 10, RomanDigits("i", "v", "x"))]
RomanMarkers == {RomanNumerals[n] : n \in 1..MAX_ROMAN_PAGE_MARKER_VALUE}

(* A marker's number, if it is one, as a set. *)
roman_page_marker_value(t) ==
    UNION {IF lower \notin RomanMarkers THEN {} ELSE {n \in 1..MAX_ROMAN_PAGE_MARKER_VALUE : RomanNumerals[n] = lower} :
             lower \in {to_lowercase(t)}}
bare_page_marker_number(marker) ==
    UNION {IF IsArabic(t) /\ Len(t) <= 5 /\ ValueOf(t) > 0 THEN {[system |-> "arabic", value |-> ValueOf(t)]}
           ELSE {[system |-> "roman", value |-> n] : n \in roman_page_marker_value(t)} : t \in {trim(marker)}}

LabelWords == {<<"page">>, <<"pag", ".">>, <<"p", ".">>, <<"página">>}
WithoutPoint(t) == IF t # <<>> /\ Last(t) = "." THEN Front(t) ELSE t
labelled_page_marker_number(t) ==
    UNION {UNION {bare_page_marker_number(WithoutPoint(rest)) :
                    rest \in {trim_start_matches(From(t, Len(word) + 1), White)}} :
             word \in {w \in LabelWords : IsPrefix(w, to_lowercase(t))}}

Dashes == {"-", "en dash", "em dash"}
Without(t, S) == trim(trim_end_matches(trim(trim_start_matches(t, S)), S))
trim_one_page_marker_decoration(t) ==
    The({IF undashed # t THEN undashed
         ELSE IF Len(t) > 1 /\ t[1] = "[" /\ Last(t) = "]" THEN trim(Tail(Front(t)))
         ELSE IF unbarred # t THEN unbarred
         ELSE IF t # <<>> /\ Last(t) = "." THEN trim_end_matches(Front(t), White) ELSE t :
           undashed \in {Without(t, Dashes)}, unbarred \in {Without(t, {"|"})}})
(* A decoration that goes has at least a character. *)
trim_page_marker_decoration(t) ==
    LET times[n \in 0..Len(t)] == IF n = 0 THEN t ELSE trim_one_page_marker_decoration(times[n - 1])
    IN times[Len(t)]

(* The marker a line is, if it is one, as a set. *)
Marker(number, decorated, labelled) == [number |-> number, is_decorated |-> decorated, is_labelled |-> labelled]
page_marker_candidate_for_line(line) ==
    UNION {UNION {UNION {IF labelled # {} THEN {Marker(n, bare # t, TRUE) : n \in labelled}
                         ELSE {Marker(n, bare # t, FALSE) : n \in bare_page_marker_number(bare)} :
                           labelled \in {labelled_page_marker_number(bare)}} :
                    bare \in {trim_page_marker_decoration(t)}} :
             t \in {x \in {trim(line)} : x # <<>> /\ Tally(x, "chars") <= 40}}
is_isolated_page_marker_line(line) == page_marker_candidate_for_line(line) # {}

page_marker_allowed_by_config(marker, config) ==
    \/ "remove_isolated_page_markers" \in config.options
    \/ marker.is_labelled /\ "remove_page_indicators" \in config.options
    \/ marker.is_decorated /\ "remove_page_delimiters" \in config.options
    \/ ~marker.is_labelled /\ marker.number.system = "arabic" /\ "remove_standalone_page_numbers" \in config.options
    \/ /\ ~marker.is_labelled /\ marker.number.system = "roman"
       /\ "remove_standalone_roman_page_numbers" \in config.options

page_marker_line_candidates(document, config) ==
    UNION {UNION {{[page |-> p, line |-> i, marker |-> marker,
                    top |-> is_page_top(i, Len(document.pages[p])),
                    bottom |-> is_page_bottom(i, Len(document.pages[p]))] :
                     marker \in {x \in page_marker_candidate_for_line(document.pages[p][i]) :
                                   page_marker_allowed_by_config(x, config)}} :
             i \in {k \in DOMAIN document.pages[p] : \/ is_page_top(k, Len(document.pages[p]))
                                                     \/ is_page_bottom(k, Len(document.pages[p]))}} :
             p \in DOMAIN document.pages}

(* The next number at the same edge of the page before or after, or the number of the page. *)
has_monotonic_page_marker_neighbour(candidate, candidates) ==
    LET number == candidate.marker.number
    IN \E other \in candidates :
          /\ candidate.page - other.page \in {-1, 1}
          /\ (candidate.top /\ other.top) \/ (candidate.bottom /\ other.bottom)
          /\ number.system = other.marker.number.system
          /\ number.value - other.marker.number.value \in {-1, 1}
has_arabic_page_ordinal_evidence(candidate, document) ==
    /\ candidate.marker.number.system = "arabic"
    /\ candidate.marker.number.value > 1 /\ candidate.marker.number.value = candidate.page
    /\ Len(document.pages) > 1
has_bare_page_marker_evidence(candidate, candidates, document) ==
    \/ has_monotonic_page_marker_neighbour(candidate, candidates)
    \/ has_arabic_page_ordinal_evidence(candidate, document)

(* The lines that go, as pairs of a page and a line. *)
page_label_removal_decisions(document, config) ==
    LET among(candidates) ==
            {<<c.page, c.line>> : c \in {x \in candidates : \/ x.marker.is_decorated \/ x.marker.is_labelled
                                                            \/ has_bare_page_marker_evidence(x, candidates, document)}}
    IN IF has_page_label_removal(config)
       THEN UNION {among(S) : S \in {page_marker_line_candidates(document, config)}} ELSE {}

(***************************************************************************)
(* A document                                                              *)
(***************************************************************************)
\* Mutant: a document without pages of its source is cleaned without a notice.
SkippedSilently(document, config, context, skipped) == skipped
ZoneNotices(document, config, context, skipped) ==
    IF document.reliable THEN skipped
    ELSE FoldLeft(LAMBDA s, r : record_skipped_rule(s, r.id, context, UnreliablePages), skipped,
                  SelectSeq(config.removal_rules, LAMBDA r : r.enabled /\ r.scope \in PageZones))

StaysOnPage(page, i, config) ==
    \A prepared \in {prepare_line_for_rule_matching(page[i], config)} :
       ~should_remove_line_by_rules(prepared, is_page_top(i, Len(page)), is_page_bottom(i, Len(page)), config)
FilteredPage(page, p, config, decisions) ==
    The({[n \in 1..Len(kept) |-> page[kept[n]]] :
           kept \in {SelectSeq(Indices(page), LAMBDA i : <<p, i>> \notin decisions /\ StaysOnPage(page, i, config))}})

(* Texts cleaned one after the other, all of them with the same collector or, when they are
   not reported, without. *)
AfterText(acc, job, clean) ==
    [texts |-> Append(acc.texts, clean.text),
     events |-> IF job.reported THEN clean.events ELSE acc.events,
     skipped |-> IF job.reported THEN clean.skipped ELSE acc.skipped]
CleanedTexts(collected, jobs, config, context) ==
    FoldLeft(LAMBDA acc, job :
               The({AfterText(acc, job, clean) :
                      clean \in {clean_text_impl(job.text, config, [context EXCEPT !.page = job.page],
                                                 acc, job.reported)}}),
             collected, jobs)

(* One text for every page, or the whole text and then its pages without a report. *)
Job(t, page, reported) == [text |-> t, page |-> page, reported |-> reported]
Jobs(document, byPage, config, reported) ==
    IF byPage
    THEN The({[p \in DOMAIN document.pages |->
                 Job(to_text(FilteredPage(document.pages[p], p, config, decisions)), p, reported)] :
                decisions \in {page_label_removal_decisions(document, config)}})
    ELSE <<Job(to_flat_text(document), 0, reported)>>
         \o [p \in DOMAIN document.pages |-> Job(to_text(document.pages[p]), 0, FALSE)]
CleanedDocument(clean, byPage) ==
    LET texts == IF byPage THEN clean.texts ELSE Tail(clean.texts)
        text == IF byPage THEN join(texts, BlankLine) ELSE Head(clean.texts)
    IN [text |-> text, paged |-> join(texts, BlankLine) = text, pages |-> texts,
        events |-> clean.events, skipped |-> clean.skipped]

(* What is left of a document: its text, its pages when they come to it, and what a
   collector has gathered. Page by page where rules need it, and otherwise as one text. *)
clean_structured_document_impl(document, config, context, reported) ==
    LET start == [texts |-> <<>>, events |-> <<>>,
                  skipped |-> IF reported THEN ZoneNotices(document, config, context, NoMap) ELSE NoMap]
        used(byPage) == IF byPage THEN without_page_label_removal(config) ELSE config
    IN The(UNION {UNION {{CleanedDocument(clean, byPage) :
                            clean \in {CleanedTexts(start, jobs, used(byPage), context)}} :
                           jobs \in {Jobs(document, byPage, config, reported)}} :
                    byPage \in {requires_reliable_page_metadata(config) /\ document.reliable}})
=============================================================================
