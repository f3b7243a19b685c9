----------------------------- MODULE TextLines -----------------------------
(***************************************************************************)
(* The lines of a document, as the scanner of repeated artefacts and the   *)
(* removal rules tell them apart. A line is a member of Text; what a       *)
(* definition reads of it is a field of Attr: the text without surrounding *)
(* white space, in lower case, its family key, what the early              *)
(* normalisations make of it, the counts of its characters by class and    *)
(* the known inline patterns found in it with the text around them.        *)
(***************************************************************************)
EXTENDS Integers, Sequences, FiniteSets, SequencesExt, FiniteSetsExt

CONSTANTS Text,     \* every string that occurs: lines, their parts, their keys
          Attr      \* what is read of a string

Inline == [pattern: Text, before: Text, after: Text]

Attribute == [trim: Text, lower: Text, key: Text, early: Text, chars: Nat, alphabetic: Nat,
              digits: Nat, symbols: Nat, inline: Seq(Inline)]

(* Trimming and lower case are idempotent and do not change the family key,
   which is computed from the trimmed text in lower case. *)
ASSUME AttrAssumption ==
    /\ "" \in Text
    /\ Attr \in [Text -> Attribute]
    /\ \A t \in Text : /\ Attr[Attr[t].trim].trim = Attr[t].trim
                       /\ Attr[Attr[t].lower].lower = Attr[t].lower
                       /\ Attr[Attr[t].trim].key = Attr[t].key
                       /\ Attr[Attr[t].lower].key = Attr[t].key
                       /\ (Attr[t].chars = 0) <=> (Attr[t].trim = "")

(* The members of S in the strict total order Above, the first one first. *)
Ranking(S, Above(_, _)) ==
    [n \in 1..Cardinality(S) |-> CHOOSE x \in S : Cardinality({y \in S : Above(y, x)}) = n - 1]

(* The only member of S. *)
The(S) == CHOOSE x \in S : TRUE

(* The sequences of a sequence, one after the other. *)
Concat(seqs) == The({FlattenSeq(s) : s \in {seqs}})

trim(t) == Attr[t].trim

(* The family key: boundary punctuation stripped, lower case, digits replaced
   by #, white space collapsed. *)
normalize_line(t) == Attr[t].key

(***************************************************************************)
(* Structured documents. A document is a sequence of pages, a page a       *)
(* sequence of lines, and `reliable` says whether the pages are those of   *)
(* the source: flat text is one page and not reliable.                     *)
(***************************************************************************)
PAGE_EDGE_LINE_COUNT == 3

(* A text is the sequence of its lines, an empty last one when it ends in a line
   break or is empty; reading its lines drops that one. *)
lines_of(text) == IF Last(text) = "" THEN Front(text) ELSE text

from_pages(texts) == [pages |-> [p \in 1..Len(texts) |-> lines_of(texts[p])], reliable |-> TRUE]
from_flat_text_as_single_page(text) == [from_pages(<<text>>) EXCEPT !.reliable = FALSE]

(* A line of a short page is at its top and at its bottom. Lines count from 1. *)
is_page_top(i, count) == i <= PAGE_EDGE_LINE_COUNT
is_page_bottom(i, count) == i > count - PAGE_EDGE_LINE_COUNT

(* Every line in page order, as the scanner and the rules visit them. *)
iter_lines(document) ==
    LET lines(p) == [i \in 1..Len(document.pages[p]) |->
                        [text |-> document.pages[p][i], page |-> p, index |-> i,
                         top |-> is_page_top(i, Len(document.pages[p])),
                         bottom |-> is_page_bottom(i, Len(document.pages[p]))]]
    IN Concat([p \in 1..Len(document.pages) |-> lines(p)])

TextOf(lines) == The({[i \in DOMAIN s |-> s[i].text] : s \in {lines}})

to_text(page) == The({IF lines = <<>> THEN <<"">> ELSE lines : lines \in {page}})

(* Texts joined by a blank line. *)
JoinTexts(texts) == Concat([p \in 1..Len(texts) |->
                                  IF p = 1 THEN texts[p] ELSE <<"">> \o texts[p]])

to_flat_text(document) == JoinTexts([p \in 1..Len(document.pages) |-> to_text(document.pages[p])])

(***************************************************************************)
(* The removal rules of a cleaning configuration on the lines of a         *)
(* document, and the rules a reported candidate is promoted to. A literal  *)
(* is a sequence of lines, so that the text of a block is one with more    *)
(* than one. A configuration has `rules`, a sequence, and `normalises`:    *)
(* whether the early normalisations are on.                                *)
(***************************************************************************)
Scopes == {"WholeLine", "PageTop", "PageBottom", "PageTopOrBottom", "Anywhere"}

is_valid_anywhere_literal_text(literal) == Len(literal) = 1 /\ trim(literal[1]) # ""

invalid_anywhere_rule(rule) ==
    /\ rule.scope = "Anywhere"
    /\ \/ rule.matcher = "NormalizedLine"
       \/ ~is_valid_anywhere_literal_text(rule.text)

(* A rule read from a file is disabled when its scope does not suit it. *)
deserialize(rule) == [rule EXCEPT !.enabled = @ /\ ~invalid_anywhere_rule(rule)]

prepare_line_for_rule_matching(t, config) == IF config.normalises THEN Attr[t].early ELSE t

RuleText(rule, config) == [i \in 1..Len(rule.text) |->
                             prepare_line_for_rule_matching(rule.text[i], config)]

(* Whether a rule that applies to the line matches it, whatever its scope. A literal
   of several lines is never equal to the text of one. *)
Matches(rule, t, config) ==
    \E line \in {trim(prepare_line_for_rule_matching(t, config))}, text \in {RuleText(rule, config)} :
        /\ Len(text) = 1
        /\ trim(text[1]) # ""
        /\ \/ rule.matcher = "Literal" /\ line = trim(text[1])
           \/ rule.matcher = "NormalizedLine" /\ normalize_line(line) = trim(text[1])

(* The rules that apply to a line where it is. *)
InScope(rule, line) ==
    \/ rule.scope = "WholeLine"
    \/ rule.scope \in {"PageTop", "PageTopOrBottom"} /\ line.top
    \/ rule.scope \in {"PageBottom", "PageTopOrBottom"} /\ line.bottom

should_remove_line_by_rules(line, config) ==
    \E rule \in Range(config.rules) : rule.enabled /\ InScope(rule, line) /\ Matches(rule, line.text, config)

has_page_zone_rules(config) ==
    \E rule \in Range(config.rules) :
        rule.enabled /\ rule.scope \in {"PageTop", "PageBottom", "PageTopOrBottom"}

(* The whole-line rules on a text. The line break after a removed line goes with it;
   the last line has none, so that an empty line is left of it. *)
remove_whole_lines_matching_structured(text, config) ==
    LET removed(t) == \E rule \in Range(config.rules) :
                         rule.enabled /\ rule.scope = "WholeLine" /\ Matches(rule, t, config)
        line(i) == IF ~removed(text[i]) THEN <<text[i]>>
                   ELSE IF i = Len(text) THEN <<"">> ELSE <<>>
    IN Concat([i \in 1..Len(text) |-> line(i)])

WholePages(texts, config) ==
    [p \in 1..Len(texts) |-> remove_whole_lines_matching_structured(texts[p], config)]

(* The pages without the lines that a rule removes where they are. *)
KeptPages(document, config) ==
    The({[p \in DOMAIN document.pages |-> to_text(TextOf(SelectSeq(kept, LAMBDA l : l.page = p)))] :
           kept \in {SelectSeq(iter_lines(document), LAMBDA l : ~should_remove_line_by_rules(l, config))}})

(* A document after the rules: page by page when a rule needs pages and they are those
   of the source; otherwise the flat text, with pages only when they join to it. *)
clean_structured_document_impl(document, config) ==
    IF has_page_zone_rules(config) /\ document.reliable
    THEN The({[text |-> JoinTexts(zoned), pages |-> zoned] :
                zoned \in {WholePages(KeptPages(document, config), config)}})
    ELSE The({[text |-> flat, pages |-> IF JoinTexts(whole) = flat THEN whole ELSE <<>>] :
                whole \in {WholePages([p \in DOMAIN document.pages |-> to_text(document.pages[p])], config)},
                flat \in {remove_whole_lines_matching_structured(to_flat_text(document), config)}})

(* The document a reader of the processed text sees. *)
document_text_for_record(document, config) ==
    The({IF document.reliable /\ cleaned.pages # <<>> THEN from_pages(cleaned.pages)
         ELSE from_flat_text_as_single_page(cleaned.text) :
           cleaned \in {clean_structured_document_impl(document, config)}})

(***************************************************************************)
(* Promotion                                                               *)
(***************************************************************************)
(* A page zone for every candidate of one position, with or without pages. *)
scope_by_position(c) ==
    LET zones == (IF c.top > 0 THEN {"PageTop"} ELSE {})
                 \cup (IF c.bottom > 0 THEN {"PageBottom"} ELSE {})
    IN IF c.kind = "InlineArtifact" THEN "Anywhere"
       ELSE IF Cardinality(zones) = 2 THEN "PageTopOrBottom"
       ELSE IF zones = {} THEN "WholeLine" ELSE CHOOSE z \in zones : TRUE

(* The narrowest scope that covers every occurrence the scan counted. *)
candidate_scope(c) ==
    LET zones == (IF c.top > 0 THEN {"PageTop"} ELSE {})
                 \cup (IF c.bottom > 0 THEN {"PageBottom"} ELSE {})
    IN IF c.kind = "InlineArtifact" THEN "Anywhere"
       ELSE IF ~c.paged \/ c.middle > 0 \/ zones = {} THEN "WholeLine"
       ELSE IF Cardinality(zones) = 2 THEN "PageTopOrBottom" ELSE CHOOSE z \in zones : TRUE

candidate_matcher_kind(c) == IF c.kind = "NormalizedLine" THEN "NormalizedLine" ELSE "Literal"

candidate_rule_text(c) ==
    IF c.kind = "NormalizedLine" THEN [i \in 1..Len(c.normalized) |-> trim(c.normalized[i])]
    ELSE c.display

Blank(display) == \A i \in DOMAIN display : trim(display[i]) = ""

can_promote(c) == ~Blank(candidate_rule_text(c))

rule_id(c, scope) == <<candidate_matcher_kind(c), scope, c.kind, c.key>>

NoRule == <<>>

(* The rule of a candidate; none when its text is blank or does not suit the scope. *)
promote_candidate(c, scope) ==
    LET rule == [id |-> rule_id(c, scope), matcher |-> candidate_matcher_kind(c),
                 text |-> candidate_rule_text(c), scope |-> scope, enabled |-> TRUE]
    IN IF ~can_promote(c) \/ invalid_anywhere_rule(rule) THEN NoRule ELSE rule

promotion_for_candidate(c) ==
    [id |-> rule_id(c, candidate_scope(c)), can_promote |-> can_promote(c),
     rule |-> promote_candidate(c, candidate_scope(c))]
=============================================================================
