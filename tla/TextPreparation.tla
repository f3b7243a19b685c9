-------------------------- MODULE TextPreparation ---------------------------
(***************************************************************************)
(* The cleaning of the texts of a corpus, one source after the other and   *)
(* stage by stage, with a report and, beside it, without one as in counts  *)
(* of words; then the report of the corpus. Up to the removal rules the    *)
(* report only records, so that the two texts are one until then.          *)
(***************************************************************************)
EXTENDS TextCleaning

CONSTANT Preparations    \* bound: the configurations with the texts they meet

VARIABLES config, texts,
          source,        \* the source being cleaned
          stage, rule,   \* what comes next, and the first line rule not yet considered
          audited,       \* its text, with a report
          plain,         \* its text without one, from the removal rules on
          events, skipped, cleaned, reports, merged

vars == <<config, texts, source, stage, rule, audited, plain, events, skipped, cleaned, reports, merged>>

Context == [source |-> source, page |-> 0]

Init ==
    /\ \E p \in Preparations : config = p.config /\ texts \in p.texts
    /\ source = 1 /\ stage = "LineEndings" /\ rule = 1
    /\ audited = texts[1] /\ plain = <<>>
    /\ events = <<>> /\ skipped = NoMap /\ cleaned = <<>> /\ reports = <<>> /\ merged = NoReport

Step(from, to) == stage = from /\ stage' = to /\ UNCHANGED <<config, texts, source, cleaned, reports, merged>>

NormaliseLineEndings ==
    /\ Step("LineEndings", "Early")
    /\ LET all == config.options \cap {"normalize_whitespace_line_endings", "normalize_line_endings"} # {}
       IN audited' = IF all THEN LineEndings(audited) ELSE audited
    /\ UNCHANGED <<rule, plain, events, skipped>>

NormaliseEarly ==
    /\ Step("Early", "Lines")
    /\ \E early \in {apply_early_normalisations(audited, config, TRUE)} :
          /\ audited' = early.text
          /\ events' = events \o NormalisationEvents(early.effects, Context)
    /\ UNCHANGED <<rule, plain, skipped>>

Pending == {k \in rule..Len(LineRules) : LineRules[k] \in config.options}

RemoveLines ==
    /\ Pending # {}
    /\ Step("Lines", "Lines")
    /\ rule' = Min(Pending) + 1
    /\ \E removed \in {apply_line_removal(audited, LineRules[Min(Pending)], Context)} :
          audited' = removed.text /\ events' = events \o removed.events
    /\ UNCHANGED <<plain, skipped>>

ReflowText ==
    /\ Pending = {}
    /\ Step("Lines", "Rules")
    /\ audited' = Reflowed(audited, config)
    /\ UNCHANGED <<rule, plain, events, skipped>>

ApplyRules ==
    /\ Step("Rules", "Literals")
    /\ skipped' = SkippedRules(skipped, config, Context)
    /\ \E ruled \in {apply_removal_rules(audited, config, Context, TRUE)} :
          audited' = ruled.text /\ events' = events \o ruled.events
    /\ plain' = apply_removal_rules(audited, config, Context, FALSE).text
    /\ UNCHANGED rule

RemovePatterns ==
    /\ Step("Literals", "Replacements")
    /\ audited' = remove_literal_patterns(audited, config)
    /\ plain' = remove_literal_patterns(plain, config)
    /\ UNCHANGED <<rule, events, skipped>>

Replacements ==
    /\ Step("Replacements", "Layout")
    /\ audited' = ReplacePatterns(audited, config)
    /\ plain' = ReplacePatterns(plain, config)
    /\ UNCHANGED <<rule, events, skipped>>

LayOut ==
    /\ Step("Layout", "Report")
    /\ audited' = Spaced(audited, config)
    /\ plain' = Spaced(plain, config)
    /\ UNCHANGED <<rule, events, skipped>>

(* The report of the source; the next source starts afresh. *)
Finish ==
    /\ stage = "Report"
    /\ reports' = Append(reports, finish(events, skipped))
    /\ cleaned' = Append(cleaned, audited)
    /\ events' = <<>> /\ skipped' = NoMap /\ rule' = 1
    /\ IF source < Len(texts)
       THEN /\ source' = source + 1 /\ stage' = "LineEndings"
            /\ audited' = texts[source + 1]
       ELSE stage' = "Merge" /\ UNCHANGED <<source, audited>>
    /\ plain' = <<>>
    /\ UNCHANGED <<config, texts, merged>>

MergeReports ==
    /\ stage = "Merge"
    /\ merged' = merge(reports)
    /\ stage' = "Done"
    /\ UNCHANGED <<config, texts, source, rule, audited, plain, events, skipped, cleaned, reports>>

Ended == stage = "Done" /\ UNCHANGED vars

Next == \/ NormaliseLineEndings \/ NormaliseEarly \/ RemoveLines \/ ReflowText \/ ApplyRules
        \/ RemovePatterns \/ Replacements \/ LayOut \/ Finish \/ MergeReports \/ Ended

Spec == Init /\ [][Next]_vars

(***************************************************************************)
(* Properties                                                              *)
(***************************************************************************)
(* Two occurrences of it can share characters. *)
OverlapsItself(pattern) == literals_can_follow(pattern, pattern)
Anywhere == effective_anywhere_literals(config)

(* Cleaning with a report and without one come to the same text, although the first takes
   the inline literals one by one and the second in one pass: whenever no literal
   overlaps itself. For one that does they differ. *)
AuditLeavesTheText ==
    stage = "Report" /\ (\A k \in DOMAIN Anywhere : ~OverlapsItself(Anywhere[k].text)) => audited = plain

(* Cleaning again with nothing but normalisations, reflow and white space switched on
   changes nothing: each of these steps leaves what the steps before it have done. *)
CleaningAgain(t) ==
    LET early == apply_early_normalisations(LineEndings(t), config, TRUE).text
    IN Spaced(Reflowed(early, config), config)
OnlyLayout == /\ ToSet(LineRules) \cap config.options = {} /\ "normalize_line_endings" \in config.options
              /\ config.removal_rules = <<>> /\ config.remove_patterns = <<>> /\ config.replace_patterns = <<>>
LayoutIsSettled ==
    stage = "Done" /\ OnlyLayout => \A k \in DOMAIN cleaned : CleaningAgain(cleaned[k]) = cleaned[k]

(* A line taken out as noise is what a reviewer of candidates is shown as noise; only
   brackets and dashes around a number may be ambiguous to the reviewer. Headings, page
   labels, rows of a table and formulas stay. *)
NoiseIsShownAsNoise ==
    stage = "Done" => \A k \in DOMAIN merged.summaries :
        k[1] = "ObviousExtractionNoise" =>
            \A e \in ToSet(merged.summaries[k].examples) :
                LET label == classify_text_signal(profile_text_line(e.removed), NoContext)
                IN \/ label = "LikelyMarkupOrExtractionNoise"
                   \/ label = "Ambiguous" /\ k[3] = {"suspicious_symbol_tokens"}

(* The report of the corpus counts what its texts had: each line that a rule takes out and
   each invisible control once, by operation as by rule, wherever the examples ran out. *)
Lines(t) == split_inclusive(apply_early_normalisations(t, config, TRUE).text)
Doomed(t) == LET lines == Lines(t)
             IN Cardinality({k \in DOMAIN lines : \E r \in ToSet(LineRules) \cap config.options :
                                removal_reasons(r, Content(lines[k])) # {}})
SumOver(S, f(_)) == FoldSet(LAMBDA x, n : n + f(x), 0, S)
ReportCountsTheTexts ==
    stage = "Done" =>
        LET summaries == merged.summaries
            ofOperation(o) == {k \in DOMAIN summaries : k[1] = o}
        IN /\ \A o \in DOMAIN merged.operations :
                 Value(merged.operations, o) = SumOver(ofOperation(o), LAMBDA k : summaries[k].count)
           /\ Value(merged.operations, "Other") + Value(merged.operations, "ObviousExtractionNoise")
                 = SumOver(DOMAIN texts, LAMBDA s : Doomed(texts[s]))
           /\ "remove_invisible_controls" \in config.options =>
                 Value(merged.reasons, "invisible_control_removal")
                   = SumOver(DOMAIN texts, LAMBDA s :
                         Len(SelectSeq(texts[s], LAMBDA c : Kind(c) = "invisible")))
           /\ \A k \in DOMAIN summaries :
                 Len(summaries[k].examples) <= Min({summaries[k].count, MAX_REMOVED_TEXT_EXAMPLES})
=============================================================================
