---------------------------- MODULE TextCleaning ----------------------------
(***************************************************************************)
(* The steps of cleaning a text, in the order of the code: line endings,   *)
(* early normalisations, lines that go as a whole, reflow, removal rules,  *)
(* literal patterns, replacements and white space. A configuration has the *)
(* set `options` of what is switched on, and its patterns and rules.       *)
(***************************************************************************)
EXTENDS TextProfile, TLC

(***************************************************************************)
(* The report: events in the order they happen, the report of one source,  *)
(* and that of a corpus merged from those of its sources. A summary and a  *)
(* notice are found by what their keys in the code spell out, so that maps *)
(* are functions. That the text of a long example is cut is left out.      *)
(***************************************************************************)
CONSTANT MAX_REMOVED_TEXT_EXAMPLES      \* kept for a summary

NoRule == 0
NoSource == 0
NoMap == <<>>
NoReport == [summaries |-> NoMap, skipped |-> NoMap, operations |-> NoMap, reasons |-> NoMap]

Example(removed, line, page) == [removed |-> removed, line |-> line, page |-> page]
RemovalEvent(operation, rule, reasons, context, count, examples) ==
    [operation |-> operation, rule |-> rule, reasons |-> reasons, source |-> context.source,
     count |-> count, examples |-> examples]

Value(f, k) == IF k \in DOMAIN f THEN f[k] ELSE 0
Count(f, k, n) == (k :> (Value(f, k) + n)) @@ f

(* A notice seen again for the same rule and source is counted. *)
record_skipped_rule(skipped, rule, context, notice) == Count(skipped, <<rule, context.source, notice>>, 1)

\* Mutant: nothing is counted once the room for examples is taken.
AddWhileRoom(summary, count, examples) ==
    IF Len(summary.examples) >= MAX_REMOVED_TEXT_EXAMPLES THEN summary
    ELSE [summary EXCEPT !.count = @ + count,
                         !.examples = SubSeq(@ \o examples, 1,
                             Min({Len(@) + Len(examples), MAX_REMOVED_TEXT_EXAMPLES}))]
(* Counts always, examples while there is room. *)
AddToSummary(summary, count, examples) ==
    [summary EXCEPT !.count = @ + count,
                    !.examples = SubSeq(@ \o examples, 1,
                        Min({Len(@) + Len(examples), MAX_REMOVED_TEXT_EXAMPLES}))]

finish(events, skipped) ==
    LET key(e) == <<e.operation, e.rule, e.reasons>>
        old(summaries, e) == IF key(e) \in DOMAIN summaries THEN summaries[key(e)]
                             ELSE [source |-> e.source, count |-> 0, examples |-> <<>>]
        add(report, e) ==
            [report EXCEPT
               !.operations = Count(@, e.operation, e.count),
               !.reasons = FoldSet(LAMBDA r, f : Count(f, r, e.count), @, e.reasons),
               !.summaries = (key(e) :> AddToSummary(old(@, e), e.count, e.examples)) @@ @]
    IN FoldLeft(add, [NoReport EXCEPT !.skipped = skipped], events)

(* The summaries of a rule are those of the corpus, without a source; the others stay apart
   by their sources. *)
merge(reports) ==
    LET Sum(f, g) == [k \in DOMAIN f \cup DOMAIN g |-> Value(f, k) + Value(g, k)]
        home(k, s) == Append(k, IF k[2] = NoRule THEN s.source ELSE NoSource)
        Collect(f, g) ==
            LET into == [m \in {home(k, g[k]) : k \in DOMAIN g} |->
                           g[CHOOSE k \in DOMAIN g : home(k, g[k]) = m]]
                old(m) == IF m \in DOMAIN f THEN f[m] ELSE [source |-> m[4], count |-> 0, examples |-> <<>>]
            IN [m \in DOMAIN into |-> AddToSummary(old(m), into[m].count, into[m].examples)] @@ f
        add(acc, report) == [summaries |-> Collect(acc.summaries, report.summaries),
                             skipped |-> Sum(acc.skipped, report.skipped),
                             operations |-> Sum(acc.operations, report.operations),
                             reasons |-> Sum(acc.reasons, report.reasons)]
    IN FoldLeft(add, NoReport, reports)

UnreliablePages == "Requires reliable page metadata"
NoWarning == [rules |-> 0, sources |-> 0]

(* The warning for a corpus: how many rules were skipped for how many sources; none when
   no notice of this kind names its source. *)
format_corpus_summary(skipped) ==
    LET notices == {k \in DOMAIN skipped : k[3] = UnreliablePages}
        sources == {k[2] : k \in notices} \ {NoSource}
    IN IF sources = {} THEN NoWarning
       ELSE [rules |-> Cardinality({k[1] : k \in notices} \ {NoRule}), sources |-> Cardinality(sources)]

(***************************************************************************)
(* The steps                                                               *)
(***************************************************************************)

LineEndings(t) == replace(replace(t, <<"\r", "\n">>, <<"\n">>), <<"\r">>, <<"\n">>)

(***************************************************************************)
(* Early normalisations                                                    *)
(***************************************************************************)
LineAt(t, i) == 1 + CountOf(SubSeq(t, 1, i - 1), {"\n"})

(* Every unit of a kind rewritten; the effect there is if any was. *)
RewriteUnits(t, kind, With(_), reason) ==
    LET hits == SelectSeq(Indices(t), LAMBDA i : Kind(t[i]) = kind)
        shown == SubSeq(hits, 1, Min({Len(hits), MAX_REMOVED_TEXT_EXAMPLES}))
    IN [text |-> FlattenSeq([i \in 1..Len(t) |-> IF Kind(t[i]) = kind THEN With(t[i]) ELSE <<t[i]>>]),
        effects |-> IF hits = <<>> THEN <<>>
                    ELSE << [reason |-> reason, count |-> Len(hits),
                             examples |-> [k \in 1..Len(shown) |-> <<t[shown[k]], LineAt(t, shown[k])>>]] >>]
expand_typographic_ligatures(t) == RewriteUnits(t, "ligature", LAMBDA c : Sign[c].plain, "ligature_expansion")
remove_configured_invisible_controls(t) ==
    RewriteUnits(t, "invisible", LAMBDA c : <<>>, "invisible_control_removal")

Unchanged(t) == [text |-> t, effects |-> <<>>]
WhenOn(option, config, rewritten, t) == IF option \in config.options THEN rewritten ELSE t
(* The texts of the steps that no effect is recorded for. *)
Recased(t, config, apply_lowercase) ==
    The(UNION {{IF apply_lowercase THEN WhenOn("lowercase", config, to_lowercase(composed), composed) ELSE composed :
                  composed \in {WhenOn("normalize_unicode", config, nfc(bare), bare)}} :
               bare \in {WhenOn("replace_diacritics", config, strip_diacritics(t), t)}})
apply_early_normalisations(t, config, apply_lowercase) ==
    The(UNION {{[text |-> Recased(controls.text, config, apply_lowercase),
                 effects |-> ligatures.effects \o controls.effects] :
                  controls \in {WhenOn("remove_invisible_controls", config,
                                   remove_configured_invisible_controls(ligatures.text), Unchanged(ligatures.text))}} :
               ligatures \in {WhenOn("expand_ligatures", config, expand_typographic_ligatures(t), Unchanged(t))}})

NormalisationEvents(effects, context) ==
    LET example(e) == Example(<<e[1]>>, e[2], context.page)
    IN [k \in 1..Len(effects) |->
          RemovalEvent("Normalization", NoRule, {effects[k].reason}, context, effects[k].count,
                       [n \in 1..Len(effects[k].examples) |-> example(effects[k].examples[n])])]

(***************************************************************************)
(* Lines that go as a whole                                                *)
(***************************************************************************)
Solid(t) == \A i \in DOMAIN t : ~is_whitespace(t[i])
Open(t) == \A i \in DOMAIN t : Kind(t[i]) # "tag" /\ t[i] \notin {"<", ">"}

is_url_only_line(t) == t # <<>> /\ Kind(t[1]) = "url" /\ Solid(t) /\ Open(t)
is_email_only_line(t) ==
    Solid(t) /\ Open(t) /\ Len(SelectSeq(t, LAMBDA c : Kind(c) = "email")) = 1
is_doi_only_line(t) ==
    LET rest == IF Is(t, 1, {"doi:"}) THEN trim(From(t, 2)) ELSE t
    IN rest # <<>> /\ Kind(rest[1]) = "doi" /\ Solid(rest)
is_figure_table_caption_line(t) ==
    LET number == trim_start_matches(From(t, 2), White)
        tail == trim_start_matches(number, Digits)
    IN /\ Is(to_lowercase(t), 1, {"table", "figure"}) /\ Is(t, 2, White)
       /\ tail # number
       /\ tail = <<>> \/ Head(tail) \in White \cup {":", ".", "-"}
should_remove_obvious_extraction_noise_line(t) ==
    The(UNION {{obvious_extraction_noise_decisive_reasons(p, reasons) :
                  reasons \in UNION {{text_signal_reasons(t, p, label, 0)} : label \in {classify_text_signal(p, NoContext)}}} :
                 p \in {profile_text_line(t)}})

LineRules == <<"remove_url_only_lines", "remove_email_only_lines", "remove_doi_only_lines",
               "remove_figure_table_captions", "remove_obvious_extraction_noise">>

OnlyThat(rule, t) ==
    CASE rule = "remove_url_only_lines" -> is_url_only_line(t)
      [] rule = "remove_email_only_lines" -> is_email_only_line(t)
      [] rule = "remove_doi_only_lines" -> is_doi_only_line(t)
      [] rule = "remove_figure_table_captions" -> is_figure_table_caption_line(t)

(* The reasons to remove a line under a rule; none keep it. *)
removal_reasons(rule, line) ==
    UNION {IF rule = "remove_obvious_extraction_noise" THEN should_remove_obvious_extraction_noise_line(t)
           ELSE {r \in {rule} : OnlyThat(rule, t)} : t \in {trim(line)}}

Content(line) ==
    LET without == IF line # <<>> /\ Last(line) = "\n" THEN Front(line) ELSE line
    IN IF without # <<>> /\ Last(without) = "\r" THEN Front(without) ELSE without

LineRemovalEvent(rule, line, k, reasons, context) ==
    RemovalEvent(IF rule = "remove_obvious_extraction_noise" THEN "ObviousExtractionNoise" ELSE "Other",
                 NoRule, reasons, context, 1, <<Example(trim(Content(line)), k, context.page)>>)
(* `reasons` of every line; those with some go. *)
WithoutLines(lines, reasons, gone, kept, rule, context) ==
    [text |-> FlattenSeq([n \in 1..Len(kept) |-> lines[kept[n]]]),
     events |-> [n \in 1..Len(gone) |-> LineRemovalEvent(rule, lines[gone[n]], gone[n], reasons[gone[n]], context)]]
apply_line_removal(t, rule, context) ==
    The(UNION {UNION {{WithoutLines(lines, reasons, gone, kept, rule, context) :
                         gone \in {SelectSeq(Indices(lines), LAMBDA k : reasons[k] # {})},
                         kept \in {SelectSeq(Indices(lines), LAMBDA k : reasons[k] = {})}} :
                      reasons \in {[k \in 1..Len(lines) |->
                                      UNION {removal_reasons(rule, l) : l \in {Content(lines[k])}}]}} :
               lines \in {split_inclusive(t)}})

(***************************************************************************)
(* Reflow and white space                                                  *)
(***************************************************************************)
(* The units of a word are letters; five characters before the hyphen and four after it
   make a word that was broken. *)
Word(t) == \A i \in DOMAIN t : is_alphabetic(t[i])
should_dehyphenate_line_break(prefix, suffix) ==
    LET stem == trim_end_matches(prefix, White)
        left == split_whitespace(Front(stem))
        right == split_whitespace(suffix)
    IN /\ stem # <<>> /\ Last(stem) = "-" /\ left # <<>> /\ right # <<>>
       /\ Word(Last(left)) /\ Tally(Last(left), "chars") >= 5
       /\ Word(Head(right)) /\ Tally(Head(right), "chars") >= 4
       /\ is_lowercase(Head(right)[1])
       /\ Tally(Last(left), "upper") < Tally(Last(left), "chars")

reflow_paragraph_lines(lines) ==
    SqueezeSpaces(FoldLeft(LAMBDA reflowed, line :
                    IF reflowed = <<>> THEN line
                    ELSE IF should_dehyphenate_line_break(reflowed, line) THEN Front(reflowed) \o line
                    ELSE IF Last(reflowed) = "-" THEN reflowed \o line
                    ELSE reflowed \o <<" ">> \o line, <<>>, lines))

normalize_irregular_line_breaks(t) ==
    LET paragraphs == split(LineEndings(t), <<"\n", "\n">>)
        lines(p) == LET parts == SplitBy(p, {"\n"})
                    IN SelectSeq([k \in 1..Len(parts) |-> trim(parts[k])], LAMBDA l : l # <<>>)
        full == SelectSeq([k \in 1..Len(paragraphs) |-> lines(paragraphs[k])], LAMBDA p : p # <<>>)
    IN join([k \in 1..Len(full) |-> reflow_paragraph_lines(full[k])], <<"\n", "\n">>)

trim_lines(t) == LET lines == SplitBy(t, {"\n"})
                 IN join([k \in 1..Len(lines) |-> trim(lines[k])], <<"\n">>)
collapse_blank_lines(t) ==
    LET kept == SelectSeq(Indices(t), LAMBDA i : ~(i > 2 /\ \A k \in (i - 2)..i : t[k] = "\n"))
    IN [n \in 1..Len(kept) |-> t[kept[n]]]

Reflows == {"repair_wrapped_pdf_line_breaks", "normalize_irregular_line_breaks", "join_line_breaks"}
Reflowed(t, config) ==
    IF config.options \cap Reflows # {} THEN normalize_irregular_line_breaks(t) ELSE t
\* Mutant: blank lines are collapsed before the lines are trimmed.
CollapsedFirst(t, config) ==
    LET on(option) == config.options \cap {"normalize_whitespace_line_endings", option} # {}
        t1 == IF on("normalize_whitespace_line_endings") THEN SqueezeSpaces(t) ELSE t
        t2 == IF on("collapse_blank_lines") THEN collapse_blank_lines(t1) ELSE t1
    IN IF on("trim_lines") THEN trim_lines(t2) ELSE t2
Spaced(t, config) ==
    LET on(option) == config.options \cap {"normalize_whitespace_line_endings", option} # {}
        t1 == IF on("normalize_whitespace_line_endings") THEN SqueezeSpaces(t) ELSE t
        t2 == IF on("trim_lines") THEN trim_lines(t1) ELSE t1
    IN IF on("collapse_blank_lines") THEN collapse_blank_lines(t2) ELSE t2

(***************************************************************************)
(* Literal patterns: one after the other, or all in one pass where that is *)
(* taken to come to the same                                               *)
(***************************************************************************)
literals_can_follow(left, right) ==
    \E n \in 1..(Min({Len(left), Len(right)}) - 1) : From(left, Len(left) - n + 1) = SubSeq(right, 1, n)
\* Mutant: the overlap is looked for in one direction only.
OverlapForward(left, right) == literals_can_follow(left, right)
literals_can_overlap(left, right) == literals_can_follow(left, right) \/ literals_can_follow(right, left)

can_batch_literal_removals(patterns) ==
    \A i, j \in 1..Len(patterns) :
        i < j => /\ ~contains(patterns[i], patterns[j]) /\ ~contains(patterns[j], patterns[i])
                 /\ ~literals_can_overlap(patterns[i], patterns[j])

replace_literal_patterns_sequential(t, patterns, replacement) ==
    FoldLeft(LAMBDA acc, pattern : replace(acc, pattern, replacement), t, patterns)

(* One pass; not ok when the rewriting has exposed a pattern. *)
replace_literal_patterns_batched(t, patterns, replacement) ==
    LET rewritten(found) == Substitute(t, patterns, found, replacement)
        judged(found, text) ==
            [text |-> text, ok |-> found = <<>> \/ match_indices(text, patterns) = <<>>]
    IN The({The({judged(found, text) : text \in {rewritten(found)}}) : found \in {match_indices(t, patterns)}})

replace_literal_patterns(t, patterns, replacement) ==
    LET sequential == replace_literal_patterns_sequential(t, patterns, replacement)
    IN IF Len(patterns) > 1 /\ can_batch_literal_removals(patterns)
       THEN The({IF batched.ok THEN batched.text ELSE sequential :
                   batched \in {replace_literal_patterns_batched(t, patterns, replacement)}})
       ELSE sequential

effective_remove_patterns(config) ==
    LET patterns == SelectSeq(config.remove_patterns, LAMBDA p : p # <<>>)
    IN IF "lowercase" \in config.options THEN [k \in 1..Len(patterns) |-> to_lowercase(patterns[k])]
       ELSE patterns
remove_literal_patterns(t, config) == replace_literal_patterns(t, effective_remove_patterns(config), <<>>)

ReplacePatterns(t, config) ==
    FoldLeft(LAMBDA acc, rule :
               IF rule.pattern = <<>> THEN acc
               ELSE replace(acc, IF "lowercase" \in config.options THEN to_lowercase(rule.pattern)
                                 ELSE rule.pattern, rule.replacement), t, config.replace_patterns)

(***************************************************************************)
(* Removal rules                                                           *)
(***************************************************************************)
LineBreaks == {"\r", "\n"}
InvalidAnywhere(rule) ==
    IF rule.scope # "Anywhere" THEN ""
    ELSE IF rule.matcher = "NormalizedLine" THEN "normalised line"
    ELSE IF trim(rule.text) = <<>> THEN "empty"
    ELSE IF ToSet(rule.text) \cap LineBreaks # {} THEN "line break" ELSE ""

(* The text of a rule as the early normalisations leave it; a key keeps its case. *)
EnabledRules(config, scope, matcher) ==
    SelectSeq(config.removal_rules, LAMBDA r : r.enabled /\ r.scope = scope /\ r.matcher = matcher)
Enabled(config, scope, matcher) ==
    The({[k \in 1..Len(rules) |->
            [rules[k] EXCEPT !.text = apply_early_normalisations(@, config, matcher = "Literal").text]] :
           rules \in {EnabledRules(config, scope, matcher)}})
WholeLine(config, matcher) ==
    UNION {{trim(rules[k].text) : k \in DOMAIN rules} : rules \in {Enabled(config, "WholeLine", matcher)}} \ {<<>>}
effective_anywhere_literals(config) ==
    SelectSeq(Enabled(config, "Anywhere", "Literal"),
              LAMBDA r : trim(r.text) # <<>> /\ ToSet(r.text) \cap LineBreaks = {})

remove_whole_lines_matching_structured(t, literals, keys) ==
    LET stays(content) == /\ trim(content) \notin literals
                          /\ keys = {} \/ normalize_line_for_repeated_artifact(content) \notin keys
    IN FlattenSeq(SelectSeq(split_inclusive(t), LAMBDA line : \E content \in {Content(line)} : stays(content)))

(* One literal after the other, each with an event when it occurs. *)
replace_anywhere_literals_with_report(t, literals, context) ==
    FoldLeft(LAMBDA acc, rule :
               LET found == match_indices(acc.text, <<rule.text>>)
                   shown == Min({Len(found), MAX_REMOVED_TEXT_EXAMPLES})
                   examples == [k \in 1..shown |->
                                  Example(rule.text, LineAt(acc.text, found[k][1]), context.page)]
               IN IF found = <<>> THEN acc
                  ELSE [text |-> Substitute(acc.text, <<rule.text>>, found, <<" ">>),
                        events |-> Append(acc.events,
                            RemovalEvent("StructuredRemovalRule", rule.id, {"inline_literal"}, context,
                                         Len(found), examples))],
             [text |-> t, events |-> <<>>], literals)

WithoutWholeLines(t, config) ==
    The({IF literals \cup keys = {} THEN t ELSE remove_whole_lines_matching_structured(t, literals, keys) :
           literals \in {WholeLine(config, "Literal")}, keys \in {WholeLine(config, "NormalizedLine")}})

(* With a report, and without one: there the literals go in a batch where they may. *)
apply_removal_rules(t, config, context, reported) ==
    The({IF reported THEN replace_anywhere_literals_with_report(text, literals, context)
         ELSE [text |-> replace_literal_patterns(text, [k \in 1..Len(literals) |-> literals[k].text], <<" ">>),
               events |-> <<>>] :
           text \in {WithoutWholeLines(t, config)}, literals \in {effective_anywhere_literals(config)}})

(* The notices of rules that cannot apply anywhere. *)
SkippedRules(skipped, config, context) ==
    FoldLeft(LAMBDA s, r : record_skipped_rule(s, r.id, context, InvalidAnywhere(r)), skipped,
             SelectSeq(config.removal_rules, LAMBDA r : r.enabled /\ InvalidAnywhere(r) # ""))
=============================================================================
