------------------------ MODULE RepeatedArtefactScan ------------------------
(***************************************************************************)
(* The two-pass scan for repeated artefacts: counting, filtering under a   *)
(* cap, materialising, reporting. The files are numbered in the order of   *)
(* their relative paths; they may change on disk between the passes, and   *)
(* the scan may be cancelled at any time.                                  *)
(***************************************************************************)
EXTENDS RepeatedArtifacts

CONSTANTS Files, Documents, Configs,
          Requests,            \* bound: the records asked for, in the order of the request
          Rewrites,            \* bound: what a file may be rewritten to during it
          MaxChanges           \* bound: how often that happens

Failures == {"Unreadable", "OcrMissing"}
ScanErrors == {"Cancelled", "CorpusTooLarge", "ScanFailed"}
NoLimit == 0 - 1
EmptyDocument == from_flat_text_as_single_page(<<"">>)

(* What reading a file can give: a document, or a failure in place of it. *)
Contents == [status: {"Read"}, document: Documents] \cup [status: Failures, document: {EmptyDocument}]

VARIABLES content,     \* what reading a file gives
          changes, cancelled, config,
          requested,   \* the records, in the order of the request
          phase, next, counts, pending, selected, survivors, materialized,
          tally, progress, result

env == <<content, changes, cancelled>>
pass1 == <<counts, tally>>
filter == <<pending, selected, survivors>>
vars == <<env, config, requested, phase, next, pass1, filter, materialized, progress, result>>

NoTally == [failed |-> 0, empty |-> 0, lines |-> 0, keys |-> 0, min_occurrences |-> 0,
            min_files |-> 0, before_cap |-> 0, truncated |-> 0]
NoResult == [kind |-> "none", candidates |-> <<>>, promotions |-> <<>>]

ordered == Ranking(ToSet(requested), LAMBDA f, g : f < g)

Init ==
    /\ content \in [Files -> Contents]
    /\ changes = 0 /\ cancelled = FALSE
    /\ config \in Configs
    /\ requested \in Requests
    /\ \A f \in Files \ ToSet(requested) : content[f].status = "Unreadable"
    /\ phase = "Start" /\ next = 1
    /\ counts = NoMap /\ pending = {} /\ selected = {} /\ survivors = NoMap
    /\ materialized = [candidates |-> NoMap, bytes |-> 0]
    /\ tally = NoTally /\ progress = <<"Pass1Scanning", 0>> /\ result = NoResult

Report(candidates) ==
    result' = [kind |-> "report", candidates |-> candidates,
               promotions |-> [i \in 1..Len(candidates) |->
                                 promotion_for_candidate(candidates[i].candidate)]]

Fail(error) == /\ phase' = "Done"
               /\ result' = [NoResult EXCEPT !.kind = error]
               /\ UNCHANGED <<env, config, requested, next, pass1, filter, materialized, progress>>

(* What the passes find in a text depends on nothing but the text and the configuration. *)
Processed == [d \in Documents, c \in {x \in Configs : x.processed} |-> document_text_for_record(d, c)]
Texts == Documents \cup {EmptyDocument} \cup Range(Processed)
FileTexts == [d \in Texts |-> build_file_text(d)]
Pass1Counts == [d \in Texts, c \in Configs |-> pass1_scan_file(FileTexts[d], c)]
Pass2Occurrences == [d \in Texts, c \in Configs |-> materialize_file_survivors(FileTexts[d], c)]

(* The text of a file; one that cannot be read counts as empty, without pages. *)
get_document_text(f) ==
    IF content[f].status = "Read" /\ config.processed
    THEN Processed[content[f].document, config] ELSE content[f].document

LineCount(text) == FoldLeft(LAMBDA n, page : n + Len(page), 0, text.pages)

Start ==
    /\ phase = "Start"
    /\ IF requested = <<>> THEN phase' = "Done" /\ Report(<<>>)
       ELSE phase' = "Pass1" /\ UNCHANGED result
    /\ UNCHANGED <<env, config, requested, next, pass1, filter, materialized, progress>>

(* One file of pass 1: extracted, counted and merged. *)
Pass1File ==
    /\ phase = "Pass1" /\ next <= Len(ordered)
    /\ IF cancelled THEN Fail("Cancelled")
       ELSE \E f \in {ordered[next]} : \E text \in {get_document_text(f)} :
            \E local \in {Pass1Counts[text, config]} :
            \E merged \in {merge_pass1_file(counts, local, config)} :
              IF content[f].status = "OcrMissing" THEN Fail("ScanFailed")
              ELSE IF ~(/\ ensure_pass1_memory(local, Cardinality(DOMAIN counts), config)
                        /\ merged.fits) THEN Fail("CorpusTooLarge")
              ELSE /\ counts' = merged.counts
                   /\ tally' = [tally EXCEPT
                         !.failed = @ + (IF content[f].status = "Unreadable" THEN 1 ELSE 0),
                         !.empty = @ + (IF LineCount(text) = 0 THEN 1 ELSE 0),
                         !.lines = @ + LineCount(text)]
                   /\ progress' = <<"Pass1Scanning", next>>
                   /\ next' = next + 1
                   /\ UNCHANGED <<env, config, requested, phase, filter, materialized, result>>

EndPass1 ==
    /\ phase = "Pass1" /\ next > Len(ordered)
    /\ IF cancelled THEN Fail("Cancelled")
       ELSE /\ phase' = "Filtering"
            /\ progress' = <<"Filtering", 0>>
            /\ tally' = [tally EXCEPT !.keys = Cardinality(DOMAIN counts)]
            /\ UNCHANGED <<env, config, requested, next, counts, filter, materialized, result>>

(* Without a cap every candidate that passes survives. *)
filter_fingerprints ==
    /\ phase = "Filtering"
    /\ IF cancelled THEN Fail("Cancelled")
       ELSE /\ tally' = [tally EXCEPT
                  !.min_occurrences = Cardinality({fp \in DOMAIN counts :
                      fingerprint_passes_min_occurrences(counts[fp], config)}),
                  !.min_files = Cardinality({fp \in DOMAIN counts :
                      fingerprint_passes_thresholds(counts[fp], config)}),
                  !.before_cap = Cardinality(Passing(counts, config))]
            /\ IF config.max_candidates = NoLimit
               THEN /\ survivors' = Restrict(counts, Passing(counts, config))
                    /\ phase' = "Materialising" /\ UNCHANGED pending
               ELSE /\ pending' = Passing(counts, config)
                    /\ phase' = "Selecting" /\ UNCHANGED survivors
            /\ UNCHANGED <<env, config, requested, next, counts, selected, materialized,
                           progress, result>>

(* One entry of the hash map, whose order is arbitrary. The flag is polled at the first
   entry and then at intervals of entries, those that do not pass included: from here
   on it may or may not be seen. *)
SelectOne ==
    /\ phase = "Selecting"
    /\ \E fp \in pending :
         \/ cancelled /\ Fail("Cancelled")
         \/ /\ cancelled => selected # {}
            /\ LET chosen == SelectRanked(selected, ranked_fingerprint(fp, counts[fp]),
                                          config.max_candidates)
               IN IF /\ Cardinality(chosen) > Cardinality(selected)
                     /\ estimated_pass1_bytes(Cardinality(DOMAIN counts), Cardinality(chosen))
                          > config.ceiling
                  THEN Fail("CorpusTooLarge")
                  ELSE /\ selected' = chosen
                       /\ pending' = pending \ {fp}
                       /\ UNCHANGED <<env, config, requested, phase, next, pass1, survivors,
                                      materialized, progress, result>>

SelectDone ==
    /\ phase = "Selecting" /\ pending = {}
    /\ survivors' = Restrict(counts, {r.fingerprint : r \in selected})
    /\ tally' = [tally EXCEPT !.truncated = tally.before_cap - Cardinality(selected)]
    /\ phase' = "Materialising"
    /\ UNCHANGED <<env, config, requested, next, counts, pending, selected, materialized,
                   progress, result>>

survivor_accounting_bytes == Cardinality(DOMAIN survivors) * PASS1_BYTES_PER_KEY

(* Nothing to materialise: the second pass reads no file and polls no flag. *)
StartPass2 ==
    /\ phase = "Materialising"
    /\ IF survivor_accounting_bytes > config.ceiling THEN Fail("CorpusTooLarge")
       ELSE /\ materialized' = [candidates |-> NoMap, bytes |-> survivor_accounting_bytes]
            /\ counts' = NoMap
            /\ IF DOMAIN survivors = {}
               THEN next' = Len(ordered) + 1 /\ progress' = <<"Pass2Materialising", Len(ordered)>>
               ELSE next' = 1 /\ progress' = <<"Pass2Materialising", 0>>
            /\ phase' = "Pass2"
            /\ UNCHANGED <<env, config, requested, tally, filter, result>>

Pass2File ==
    /\ phase = "Pass2" /\ next <= Len(ordered)
    /\ IF cancelled THEN Fail("Cancelled")
       ELSE \E f \in {ordered[next]} : \E text \in {get_document_text(f)} :
            \E occurrences \in {Pass2Occurrences[text, config]} :
            \E added \in {materialize_file_record(materialized, occurrences, FileTexts[text],
                                                  survivors, config)} :
              IF content[f].status = "OcrMissing" THEN Fail("ScanFailed")
              ELSE IF added.bytes > config.ceiling THEN Fail("CorpusTooLarge")
              ELSE /\ materialized' = added
                   /\ progress' = <<"Pass2Materialising", next>>
                   /\ next' = next + 1
                   /\ UNCHANGED <<env, config, requested, phase, pass1, filter, result>>

(* The report, unless a survivor was not found again. *)
Finalise ==
    LET candidates == materialized.candidates
        bytes == materialized.bytes - survivor_accounting_bytes
                 + CANDIDATE_BYTES * Cardinality(DOMAIN candidates)
    IN /\ phase = "Pass2" /\ next > Len(ordered)
       /\ IF DOMAIN candidates # DOMAIN survivors THEN Fail("ScanFailed")
          ELSE IF bytes > config.ceiling THEN Fail("CorpusTooLarge")
          ELSE /\ materialized' = [materialized EXCEPT !.bytes = bytes]
               /\ phase' = "Done"
               /\ Report(finalize_materialized_candidates(candidates))
               /\ UNCHANGED <<env, config, requested, next, pass1, filter, progress>>

ScanStep == \/ Start \/ Pass1File \/ EndPass1 \/ filter_fingerprints \/ SelectOne \/ SelectDone
            \/ StartPass2 \/ Pass2File \/ Finalise

Cancel == /\ phase # "Done" /\ ~cancelled
          /\ cancelled' = TRUE
          /\ UNCHANGED <<content, changes, config, requested, phase, next, pass1, filter,
                         materialized, progress, result>>

(* A file is rewritten after pass 1 read it and before pass 2 does: earlier, it is another
   initial content, later, nobody looks. *)
ChangeFile == /\ phase # "Done" /\ changes < MaxChanges
              /\ \E i \in DOMAIN ordered, c \in Rewrites :
                   /\ IF phase = "Pass2" THEN i >= next ELSE i < next
                   /\ c # content[ordered[i]]
                   /\ content' = [content EXCEPT ![ordered[i]] = c]
              /\ changes' = changes + 1
              /\ UNCHANGED <<cancelled, config, requested, phase, next, pass1, filter,
                             materialized, progress, result>>

(* A scan stops only with a report or an error. *)
Ended == phase = "Done" /\ UNCHANGED vars

Next == ScanStep \/ Cancel \/ ChangeFile \/ Ended

Spec == Init /\ [][Next]_vars
-----------------------------------------------------------------------------
(***************************************************************************)
(* What a report promises, from the documents alone: the occurrences as a  *)
(* set, counted and ranked without passes, maps or limits on memory.       *)
(***************************************************************************)
ReferencePosition(document, page, i) ==
    LET n == Len(document.pages[page])
        edge == IF document.reliable THEN 3 ELSE Max({1, n \div 10})
    IN IF i <= edge THEN "Top" ELSE IF i > n - edge THEN "Bottom" ELSE "Middle"

Usable(t, c) == Attr[t].chars > 0 /\ Attr[t].chars \in c.min_line_chars..c.max_line_chars
ClassOf(t) == classify_content(<<trim(t)>>)
Window(page, i, n) == [j \in 1..n |-> trim(page[i + j - 1])]

(* Where n usable lines of one page follow each other, and the text they make. *)
Windows(document, c, n) ==
    UNION {{[page |-> p, line |-> i, text |-> Window(document.pages[p], i, n)] :
              i \in {i \in DOMAIN document.pages[p] :
                       /\ i + n - 1 <= Len(document.pages[p])
                       /\ \A j \in i..(i + n - 1) : Usable(document.pages[p][j], c)}} :
             p \in DOMAIN document.pages}

ReferenceOccurrence(document, w, kind, key, display, part) ==
    [file |-> 0, page |-> w.page, line |-> w.line, part |-> part, kind |-> kind, key |-> key,
     display |-> display, position |-> ReferencePosition(document, w.page, w.line)]

(* A window counts when the class of its lines is one of those asked for. *)
WholeWindows(document, c, n, kind) ==
    {ReferenceOccurrence(document, w, kind, w.text, w.text, 0) :
       w \in {w \in Windows(document, c, n) :
               \E classes \in {{ClassOf(t) : t \in Range(w.text)}} :
                  dominant_content_class(classes) \in c.classes}}

FamilyWindows(document, c) ==
    {ReferenceOccurrence(document, w, "NormalizedLine", <<normalize_line(w.text[1])>>, w.text, 0) :
       w \in {w \in Windows(document, c, 1) :
               /\ normalize_line(w.text[1]) # ""
               /\ ClassOf(w.text[1]) = "NumericDominant" => "NumericDominant" \in c.classes}}

(* The patterns within a line, whatever its length. *)
InlineOccurrences(document) ==
    UNION {UNION {{ReferenceOccurrence(document, [page |-> p, line |-> i], "InlineArtifact",
                                       <<found[m].pattern>>, <<found[m].pattern>>, m) : m \in DOMAIN found} :
                    found \in {Attr[document.pages[p][i]].inline}} :
             <<p, i>> \in {<<q, j>> \in (DOMAIN document.pages) \X (1..20) :
                            j \in DOMAIN document.pages[q]}}

ReferenceOccurrences(document, c) ==
    UNION ((IF c.exact THEN {WholeWindows(document, c, 1, "ExactLine")} ELSE {})
           \cup (IF c.normalized THEN {FamilyWindows(document, c)} ELSE {})
           \cup (IF c.two THEN {WholeWindows(document, c, 2, "TwoLineBlock")} ELSE {})
           \cup (IF c.three THEN {WholeWindows(document, c, 3, "ThreeLineBlock")} ELSE {})
           \cup (IF c.inline THEN {InlineOccurrences(document)} ELSE {}))

Found == [d \in Texts, c \in Configs |-> ReferenceOccurrences(d, c)]

Occurrences == UNION {{[o EXCEPT !.file = k] : o \in Found[get_document_text(ordered[k]), config]} :
                        k \in DOMAIN ordered}

Earliest(S) == CHOOSE o \in S : \A x \in S \ {o} :
    \/ o.file < x.file
    \/ o.file = x.file /\ o.page < x.page
    \/ o.file = x.file /\ o.page = x.page /\ o.line <= x.line

AtPosition(S, position) == Cardinality({x \in S : x.position = position})

(* The candidate the occurrences S of one kind and key make, o the earliest of them,
   among all of them. *)
Candidate(S, o, files, displays, all) ==
    [kind |-> o.kind, key |-> o.key, occurrences |-> Cardinality(S), files |-> Cardinality(files),
     top |-> AtPosition(S, "Top"), middle |-> AtPosition(S, "Middle"),
     bottom |-> AtPosition(S, "Bottom"),
     paged |-> \A k \in files : get_document_text(ordered[k]).reliable,
     variants |-> Cardinality(displays) <= RAW_VARIANT_TRACK_CAP,
     score |-> calculate_suspicion_score(o.kind, o.display, Cardinality(S), Cardinality(files),
                                         AtPosition(S, "Top"), AtPosition(S, "Bottom")),
     id |-> compute_stable_id(o.kind, o.key),
     single |-> /\ config.exact /\ o.kind = "NormalizedLine" /\ Cardinality(displays) = 1
                /\ \E x \in all : x.kind = "ExactLine" /\ x.display = o.display]

AllCandidates(all) ==
    {Candidate(S, Earliest(S), {o.file : o \in S}, {o.display : o \in S}, all) :
       S \in {{o \in all : o.kind = n.kind /\ o.key = n.key} : n \in all}}

(* The candidates above the thresholds that are not another one under a second name,
   the best first and no more of them than asked for. *)
ReferenceCandidates ==
    The({IF config.max_candidates \in 0..Len(best) THEN SubSeq(best, 1, config.max_candidates) ELSE best :
           best \in {Ranking({c \in made : /\ c.occurrences >= config.min_occurrences
                                           /\ c.files >= config.min_files
                                           /\ ~c.single}, compare_ranked_quality) :
                      made \in {AllCandidates(all) : all \in {Occurrences}}}})

Summary(c) == <<c.kind, c.key, c.occurrences, c.files, c.top, c.middle, c.bottom, c.paged>>

(* A report on files that did not change lists exactly the candidates of the reference, in
   its order, with its counts: whatever the order of the hash map, the cap keeps the
   best, and the two passes enumerate the same occurrences. *)
ReportMatchesReference ==
    result.kind = "report" /\ changes = 0 =>
        \E expected \in {ReferenceCandidates} :
           /\ [i \in DOMAIN result.candidates |-> Summary(result.candidates[i].candidate)]
                = [i \in DOMAIN expected |-> Summary(expected[i])]
           /\ \A i \in DOMAIN expected :
                 result.candidates[i].candidate.overflow = ~expected[i].variants
           /\ tally.before_cap = Len(expected) + tally.truncated

(* The bytes reserved in pass 2 are those of the survivors and of everything that was
   materialised, and never exceed the ceiling of the configuration. *)
BudgetCoversCandidates ==
    LET cost(c) == MATERIALIZED_BASE_BYTES + byte_len(c.key) + byte_len(c.normalized)
                   + byte_len(c.display) + MapThenSumSet(byte_len, c.variants)
                   + FoldLeft(LAMBDA n, e : n + EXAMPLE_BYTES + byte_len(e.text)
                                            + ContextBytes(e.before) + ContextBytes(e.after),
                              0, c.examples)
        held == FoldFunction(LAMBDA c, n : n + cost(c), 0, materialized.candidates)
    IN phase = "Pass2" \/ result.kind = "report" =>
         /\ materialized.bytes <= config.ceiling
         /\ phase = "Pass2" => materialized.bytes = held + survivor_accounting_bytes

(* The rule a line or a family of lines is promoted to removes every occurrence of it from
   the documents that were scanned. *)
PromotionRemovesCandidate ==
    result.kind = "report" /\ changes = 0 /\ ~config.processed =>
        \A i \in DOMAIN result.candidates :
            LET c == result.candidates[i].candidate
                rule == result.promotions[i].rule
                rules == [config EXCEPT !.rules = Append(config.rules, rule)]
                left(k) == document_text_for_record(get_document_text(k), rules)
            IN c.kind \in {"ExactLine", "NormalizedLine"} /\ rule # NoRule =>
                 \A k \in ToSet(ordered) : \A l \in Range(iter_lines(left(k))) :
                    IF c.kind = "ExactLine" THEN <<trim(l.text)>> # c.key
                    ELSE should_skip_line(l.text, config) \/ <<normalize_line(l.text)>> # c.key
=============================================================================
