------------------------- MODULE RepeatedArtifacts -------------------------
(***************************************************************************)
(* What the scan for repeated artefacts computes: the occurrences its two  *)
(* passes enumerate in a file, the counts of the first, the materialised   *)
(* candidates of the second, ranks and labels. A key or a display text is  *)
(* a sequence of lines, a fingerprint the pair of kind and key (SHA-256 is *)
(* taken to be injective) and memory is counted in the units of the        *)
(* constants below.                                                        *)
(***************************************************************************)
EXTENDS TextLines

CONSTANTS PASS1_BYTES_PER_KEY,     \* PASS1_ESTIMATED_BYTES_PER_KEY
          MATERIALIZED_BASE_BYTES, \* MATERIALIZED_ESTIMATED_BASE_BYTES_PER_KEY
          EXAMPLE_BYTES,           \* an example with its file name and path
          CANDIDATE_BYTES,         \* size_of::<RepeatedArtifactCandidate>() + 8
          RAW_VARIANT_TRACK_CAP,
          COUNT_MAX,               \* u32::MAX
          LN_1P,                   \* n |-> ln(1 + n) in tenths
          TextOrder,               \* the strings in the order of their hashes
          SectionHeadings, PageLabels

Kinds == {"ExactLine", "NormalizedLine", "TwoLineBlock", "ThreeLineBlock", "InlineArtifact"}
Positions == {"Top", "Middle", "Bottom"}

NoMap == [x \in {} |-> x]
Put(f, k, v) == [x \in DOMAIN f \cup {k} |-> IF x = k THEN v ELSE f[x]]

(***************************************************************************)
(* Lines and displays                                                      *)
(***************************************************************************)
SumOver(display, field) == FoldLeft(LAMBDA n, t : n + Attr[t][field], 0, display)

(* Lines are joined by one line break. *)
byte_len(display) == SumOver(display, "chars") + Len(display) - 1
char_and_symbol_counts(display) == [chars |-> byte_len(display),
                                    symbols |-> SumOver(display, "symbols")]

should_skip_line(t, config) ==
    \/ Attr[t].chars = 0
    \/ Attr[t].chars < config.min_line_chars
    \/ Attr[t].chars > config.max_line_chars

CharCounts(display) ==
    [total |-> byte_len(display), alphabetic |-> SumOver(display, "alphabetic"),
     digits |-> SumOver(display, "digits"), symbols |-> SumOver(display, "symbols")]

(* The thresholds 0.50 and 0.60 as integers; the order of the rules decides. *)
ContentClass(n) ==
    CASE n.total <= 0 -> "TextDominant"
      [] n.total > 0 /\ 2 * n.symbols >= n.total -> "SymbolNoiseDominant"
      [] n.total > 0 /\ 2 * n.symbols < n.total /\ n.digits > 0 /\ 10 * n.digits >= 6 * n.total ->
            "NumericDominant"
      [] OTHER -> IF n.alphabetic > 0 /\ n.digits > 0 /\ n.alphabetic >= n.digits
                  THEN "MixedTextNumbers"
                  ELSE IF n.digits > n.alphabetic THEN "NumericDominant" ELSE "TextDominant"

classify_content(display) == The({ContentClass(n) : n \in {CharCounts(display)}})

(* The class of a block, from the classes of its lines. *)
dominant_content_class(S) ==
    CASE "NumericDominant" \in S -> "NumericDominant"
      [] "NumericDominant" \notin S /\ "SymbolNoiseDominant" \in S -> "SymbolNoiseDominant"
      [] S \cap {"NumericDominant", "SymbolNoiseDominant"} = {} /\ "MixedTextNumbers" \in S ->
            "MixedTextNumbers"
      [] OTHER -> "TextDominant"

should_include_content_class(class, config) == class \in config.classes

(* A file as the scanner sees it: its lines with their pages, if it has any. *)
build_file_text(document) == [lines |-> iter_lines(document), paged |-> document.reliable]

lines_share_page(ft, i, j) == ~ft.paged \/ ft.lines[i].page = ft.lines[j].page

page_number_for_line(ft, i) == IF ft.paged THEN ft.lines[i].page ELSE 0

(* A line that is at the top and at the bottom of its page counts as top.
   Without pages the first and the last tenth of the lines are the edges. *)
compute_position_for_line(ft, i) ==
    LET edge == Max({1, Len(ft.lines) \div 10})
        top == IF ft.paged THEN ft.lines[i].top ELSE i <= edge
        bottom == IF ft.paged THEN ft.lines[i].bottom ELSE i > Len(ft.lines) - edge
    IN IF top THEN "Top" ELSE IF bottom THEN "Bottom" ELSE "Middle"

(* The trimmed lines from..i of a file. *)
Lines(ft, from, i) == [k \in 1..(i - from + 1) |-> trim(ft.lines[from + k - 1].text)]

(* What a line contributes to: the conditions both passes test on their own. A
   line that is skipped ends every block. *)
IsExact(ft, i, config) ==
    config.exact /\ \E line \in {Lines(ft, i, i)} : should_include_content_class(classify_content(line), config)

IsFamily(ft, i, config) ==
    /\ config.normalized
    /\ normalize_line(ft.lines[i].text) # ""
    /\ \E line \in {Lines(ft, i, i)} :
          classify_content(line) = "NumericDominant" => "NumericDominant" \in config.classes

IsBlock(ft, from, i, config) ==
    /\ from >= 1
    /\ \A j \in from..i : /\ ~should_skip_line(ft.lines[j].text, config)
                          /\ lines_share_page(ft, from, j)
    /\ \E classes \in {{classify_content(<<line>>) : line \in Range(Lines(ft, from, i))}} :
          should_include_content_class(dominant_content_class(classes), config)

(***************************************************************************)
(* Pass 1                                                                  *)
(***************************************************************************)
candidate_fingerprint(kind, key) == <<kind, key>>
NoFingerprint == <<"ExactLine", <<>>>>

(* The occurrences pass 1 finds, in order: at every line its inline patterns, the
   line, its family, and the blocks of two and three lines that end there. A block
   has the position of its first line. *)
count_file_fingerprints(ft, config) ==
    LET one(kind, key, i) ==
            [kind |-> kind, key |-> key, display |-> key, exact |-> TRUE,
             first |-> candidate_fingerprint(kind, key),
             position |-> compute_position_for_line(ft, i)]
        inline(i) == [k \in 1..Len(Attr[ft.lines[i].text].inline) |->
                        one("InlineArtifact", <<Attr[ft.lines[i].text].inline[k].pattern>>, i)]
        family(i) ==
            [one("NormalizedLine", <<normalize_line(ft.lines[i].text)>>, i) EXCEPT
                !.display = Lines(ft, i, i),
                !.exact = IsExact(ft, i, config),
                !.first = IF config.exact
                          THEN candidate_fingerprint("ExactLine", Lines(ft, i, i))
                          ELSE NoFingerprint]
        at(i) ==
            (IF config.inline THEN inline(i) ELSE <<>>)
            \o IF should_skip_line(ft.lines[i].text, config) THEN <<>>
               ELSE (IF IsExact(ft, i, config) THEN <<one("ExactLine", Lines(ft, i, i), i)>> ELSE <<>>)
                    \o (IF IsFamily(ft, i, config) THEN <<family(i)>> ELSE <<>>)
                    \o (IF config.two /\ IsBlock(ft, i - 1, i, config)
                        THEN <<one("TwoLineBlock", Lines(ft, i - 1, i), i - 1)>> ELSE <<>>)
                    \o (IF config.three /\ IsBlock(ft, i - 2, i, config)
                        THEN <<one("ThreeLineBlock", Lines(ft, i - 2, i), i - 2)>> ELSE <<>>)
    IN Concat([i \in 1..Len(ft.lines) |-> at(i)])

Bump(stats, position) ==
    [stats EXCEPT !.occurrences = @ + 1,
                  !.top = @ + (IF position = "Top" THEN 1 ELSE 0),
                  !.bottom = @ + (IF position = "Bottom" THEN 1 ELSE 0)]

(* One occurrence counted in the counts of its file. *)
increment_pass1_candidate(counts, o) ==
    LET fp == candidate_fingerprint(o.kind, o.key)
        fresh == [kind |-> o.kind, occurrences |-> 0, files |-> 1, top |-> 0, bottom |-> 0,
                  display |-> o.display, first |-> o.first, exact |-> o.exact, multiple |-> FALSE]
    IN IF fp \notin DOMAIN counts THEN Put(counts, fp, Bump(fresh, o.position))
       ELSE [counts EXCEPT ![fp] = [Bump(@, o.position) EXCEPT
                !.multiple = @ \/ (o.kind = "NormalizedLine" /\ counts[fp].first # o.first)]]

estimated_pass1_bytes(global_keys, local_keys) == (global_keys + local_keys) * PASS1_BYTES_PER_KEY

(* The counts of one file. *)
pass1_scan_file(ft, config) ==
    FoldLeft(increment_pass1_candidate, NoMap, count_file_fingerprints(ft, config))

(* Whether counting them stays within the ceiling and the width of the counters. *)
ensure_pass1_memory(local, global_keys, config) ==
    /\ \/ DOMAIN local = {}
       \/ estimated_pass1_bytes(global_keys, Cardinality(DOMAIN local)) <= config.ceiling
    /\ \A fp \in DOMAIN local : local[fp].occurrences <= COUNT_MAX

(* The counts of a key in one more file. A family has several spellings when either part
   has or their first ones differ. *)
SumByFirst(g, l) ==
    [g EXCEPT !.occurrences = @ + l.occurrences, !.files = @ + l.files,
              !.top = @ + l.top, !.bottom = @ + l.bottom,
              !.multiple = @ \/ (g.kind = "NormalizedLine" /\ g.first # l.first)]

SumStats(g, l) ==
    [g EXCEPT !.occurrences = @ + l.occurrences, !.files = @ + l.files,
              !.top = @ + l.top, !.bottom = @ + l.bottom,
              !.multiple = @ \/ (g.kind = "NormalizedLine" /\ (l.multiple \/ g.first # l.first))]

(* The counts of a file added to those of the files before it. The first file in
   which a key occurs gives its display text. *)
merge_pass1_file(global, local, config) ==
    LET both == DOMAIN global \cap DOMAIN local
        merged == [fp \in DOMAIN global \cup DOMAIN local |->
                    CASE fp \in both -> SumStats(global[fp], local[fp])
                      [] fp \in DOMAIN global \ both -> global[fp]
                      [] OTHER -> local[fp]]
    IN [counts |-> merged,
        fits |-> /\ \/ DOMAIN local \subseteq DOMAIN global
                    \/ estimated_pass1_bytes(Cardinality(DOMAIN merged),
                                             Cardinality(DOMAIN local)) <= config.ceiling
                 /\ \A fp \in both : merged[fp].occurrences <= COUNT_MAX]

(***************************************************************************)
(* From the counts of pass 1 to the report: the filter and its ranking,    *)
(* the materialisation of the survivors in pass 2, labels and the final    *)
(* order. Scores are integers: logarithms in tenths, ratios rounded down.  *)
(***************************************************************************)
Hash(display) == [i \in 1..Len(display) |-> TextOrder[display[i]]]

(* Lexicographic order of the hashes of two displays. *)
HashBefore(d, e) ==
    \/ Len(d) < Len(e) /\ IsPrefix(d, e)
    \/ \E i \in 1..Min({Len(d), Len(e)}) : /\ Hash(d)[i] < Hash(e)[i]
                                           /\ \A j \in 1..(i - 1) : d[j] = e[j]

stable_kind_order(kind) ==
    CASE kind = "TwoLineBlock" -> 0 [] kind = "ThreeLineBlock" -> 1 [] kind = "ExactLine" -> 2
      [] kind = "InlineArtifact" -> 3 [] kind = "NormalizedLine" -> 4

(* The names of the kinds sort like stable_kind_order. *)
compute_stable_id(kind, key) == [prefix |-> stable_kind_order(kind), key |-> key]

IdBefore(a, b) == \/ a.prefix < b.prefix
                  \/ a.prefix = b.prefix /\ HashBefore(a.key, b.key)

calculate_suspicion_score(kind, display, occurrences, files, top, bottom) ==
    LET counts == char_and_symbol_counts(display)
        position == IF occurrences = 0 THEN 12
                    ELSE (12 * (occurrences + 2 * (top + bottom))) \div occurrences
        block == CASE kind = "TwoLineBlock" -> 3 [] kind = "ThreeLineBlock" -> 4 [] OTHER -> 2
        length == CASE counts.chars <= 3 -> 1 [] counts.chars \in 4..8 -> 3 [] OTHER -> 5
        symbol == IF counts.chars = 0 THEN 10
                  ELSE (20 * counts.chars + 30 * counts.symbols) \div (2 * counts.chars)
    IN LN_1P[occurrences] * LN_1P[files] * position * block * length * symbol

(* The first rule that applies gives the label; ratios compare as products. *)
classify_risk(display, normalized_key, occurrences, files, top, bottom) ==
    LET counts == char_and_symbol_counts(display)
        named(S) == Len(normalized_key) = 1 /\ Attr[trim(normalized_key[1])].lower \in S
        edge == top + bottom
    IN CASE named(SectionHeadings) -> "CommonSectionHeadingReviewCarefully"
         [] /\ ~named(SectionHeadings)
            /\ counts.chars > 0 /\ 2 * counts.symbols >= counts.chars -> "SymbolOrNoiseCandidate"
         [] OTHER ->
              IF occurrences >= 3 /\ \/ 4 * edge >= 3 * occurrences
                                     \/ named(PageLabels) /\ 2 * edge >= occurrences
              THEN "StrongHeaderFooterCandidate"
              ELSE IF files >= 2 \/ (named(PageLabels) /\ occurrences >= 3)
                   THEN "PossibleBoilerplate" ELSE "Ambiguous"

(***************************************************************************)
(* The filter                                                              *)
(***************************************************************************)
fingerprint_passes_min_occurrences(stats, config) == stats.occurrences >= config.min_occurrences

fingerprint_passes_thresholds(stats, config) ==
    fingerprint_passes_min_occurrences(stats, config) /\ stats.files >= config.min_files

(* A family of one spelling says no more than its line. *)
fingerprint_is_redundant_normalized(stats, config) ==
    /\ config.normalized /\ config.exact
    /\ stats.kind = "NormalizedLine" /\ ~stats.multiple /\ stats.exact

Passing(counts, config) ==
    {fp \in DOMAIN counts : /\ fingerprint_passes_thresholds(counts[fp], config)
                            /\ ~fingerprint_is_redundant_normalized(counts[fp], config)}

ranked_fingerprint(fp, stats) ==
    [fingerprint |-> fp,
     id |-> compute_stable_id(fp[1], fp[2]),
     score |-> calculate_suspicion_score(stats.kind, stats.display, stats.occurrences,
                                         stats.files, stats.top, stats.bottom)]

(* a ranks above b: by score, then by kind, then by hash. *)
compare_ranked_quality(a, b) == \/ a.score > b.score
                                \/ a.score = b.score /\ IdBefore(a.id, b.id)

(* The selection at its limit: the worst one gives way to a better one. *)
SelectRanked(selected, ranked, limit) ==
    IF Cardinality(selected) < limit THEN selected \cup {ranked}
    ELSE LET worst == CHOOSE w \in selected :
                         \A s \in selected \ {w} : compare_ranked_quality(s, w)
         IN IF limit > 0 /\ compare_ranked_quality(ranked, worst)
            THEN (selected \ {worst}) \cup {ranked} ELSE selected

(***************************************************************************)
(* Pass 2                                                                  *)
(***************************************************************************)
(* The occurrences pass 2 enumerates, in the order of pass 1. *)
materialize_file_survivors(ft, config) ==
    LET normalized(from, i) == [k \in 1..(i - from + 1) |-> normalize_line(ft.lines[from + k - 1].text)]
        context(i) == IF i \in 1..Len(ft.lines) THEN trim(ft.lines[i].text) ELSE ""
        row(kind, key, norm, from, i) ==
            [kind |-> kind, key |-> key, normalized |-> norm, display |-> Lines(ft, from, i),
             line |-> from, position |-> compute_position_for_line(ft, from),
             before |-> context(from - 1), after |-> context(i + 1)]
        inline(i) == [k \in 1..Len(Attr[ft.lines[i].text].inline) |->
                        LET found == Attr[ft.lines[i].text].inline[k]
                        IN [row("InlineArtifact", <<found.pattern>>, <<"">>, i, i) EXCEPT
                              !.display = <<found.pattern>>,
                              !.before = found.before, !.after = found.after]]
        line(kind, from, i) == row(kind, Lines(ft, from, i), normalized(from, i), from, i)
        at(i) ==
            (IF config.inline THEN inline(i) ELSE <<>>)
            \o IF should_skip_line(ft.lines[i].text, config) THEN <<>>
               ELSE (IF IsExact(ft, i, config) THEN <<line("ExactLine", i, i)>> ELSE <<>>)
                    \o (IF IsFamily(ft, i, config)
                        THEN <<row("NormalizedLine", normalized(i, i), normalized(i, i), i, i)>>
                        ELSE <<>>)
                    \o (IF config.two /\ IsBlock(ft, i - 1, i, config)
                        THEN <<line("TwoLineBlock", i - 1, i)>> ELSE <<>>)
                    \o (IF config.three /\ IsBlock(ft, i - 2, i, config)
                        THEN <<line("ThreeLineBlock", i - 2, i)>> ELSE <<>>)
    IN Concat([i \in 1..Len(ft.lines) |-> at(i)])

ContextBytes(t) == Attr[t].chars

(* The bytes of an example without the text it matched. *)
example_bytes_without_text(o) == ContextBytes(o.before) + ContextBytes(o.after) + EXAMPLE_BYTES

example_bytes(o) ==
    ContextBytes(o.before) + ContextBytes(o.after) + EXAMPLE_BYTES + byte_len(o.display)

(* A survivor before its first occurrence of pass 2. *)
EmptyCandidate(o, stats) ==
    [kind |-> o.kind, key |-> o.key, normalized |-> o.normalized, display |-> o.display,
     occurrences |-> stats.occurrences, files |-> stats.files, top |-> 0, middle |-> 0,
     bottom |-> 0, variants |-> {}, overflow |-> FALSE, paged |-> TRUE, examples |-> <<>>]

Full(entry) == Cardinality(entry.variants) >= RAW_VARIANT_TRACK_CAP
NewVariant(entry, o) == o.display \notin entry.variants
ShowsExample(entry, config) == Len(entry.examples) < config.max_examples

WithOccurrence(entry, o, ft, config) ==
    [entry EXCEPT !.top = @ + (IF o.position = "Top" THEN 1 ELSE 0),
                  !.middle = @ + (IF o.position = "Middle" THEN 1 ELSE 0),
                  !.bottom = @ + (IF o.position = "Bottom" THEN 1 ELSE 0),
                  !.paged = @ /\ ft.paged,
                  !.variants = IF Full(entry) THEN @ ELSE @ \cup {o.display},
                  !.overflow = @ \/ (NewVariant(entry, o) /\ Full(entry)),
                  !.examples = IF ShowsExample(entry, config)
                               THEN Append(@, [line |-> o.line, page |-> page_number_for_line(ft, o.line),
                                               before |-> o.before, text |-> o.display,
                                               after |-> o.after])
                               ELSE @]

(* The bytes reserved for an occurrence. *)
ReservedFor(entry, o, config) ==
    (IF entry.top + entry.middle + entry.bottom > 0 THEN 0
     ELSE MATERIALIZED_BASE_BYTES + byte_len(o.key) + byte_len(o.normalized) + byte_len(o.display))
    + (IF NewVariant(entry, o) /\ ~Full(entry) THEN byte_len(o.display) ELSE 0)
    + (IF ShowsExample(entry, config) THEN example_bytes(o) ELSE 0)

(* One occurrence of a survivor added to its candidate, with the bytes reserved for
   it: acc is the pair of the materialised candidates and the bytes so far. Every
   reservation is checked against the ceiling, so the sum decides. *)
materialize_occurrence(acc, o, ft, survivors, config) ==
    The({[candidates |-> Put(acc.candidates, fp, WithOccurrence(entry, o, ft, config)),
          bytes |-> acc.bytes + ReservedFor(entry, o, config)] :
            <<fp, entry>> \in {<<x, IF x \in DOMAIN acc.candidates THEN acc.candidates[x]
                                  ELSE EmptyCandidate(o, survivors[x])>> :
                                 x \in {candidate_fingerprint(o.kind, o.key)}}})

materialize_file_record(acc, found, ft, survivors, config) ==
    FoldLeft(LAMBDA a, o : materialize_occurrence(a, o, ft, survivors, config), acc,
             SelectSeq(found, LAMBDA o : candidate_fingerprint(o.kind, o.key) \in DOMAIN survivors))

(* The candidates of the report, best first. *)
finalize_materialized_candidates(candidates) ==
    The({Ranking(labelled, compare_ranked_quality) :
           labelled \in {{[id |-> compute_stable_id(c.kind, c.key),
                            score |-> calculate_suspicion_score(c.kind, c.display, c.occurrences,
                                                                c.files, c.top, c.bottom),
                            risk |-> classify_risk(c.display, c.normalized, c.occurrences, c.files,
                                                   c.top, c.bottom),
                            class |-> classify_content(c.display), candidate |-> c] :
                             c \in Range(candidates)}}})
=============================================================================
