# CorpusWright: a TLA+ verification project

CorpusWright is a desktop program for building and analysing text corpora: a Rust
core (`crates/corpuswright-core`), a Tauri backend (`apps/desktop/src-tauri`) that
holds the session state and answers the commands of the window, and a TypeScript
frontend (`apps/desktop/src`). This directory models the backend and the core: TLA+
modules, TLC configurations that check them on small instances, and theorems about
them that TLAPS checks for every instance. `PROJECT.json` lists the components, the
runs, the mutants, the lines each definition stands for, the hazards and the theorems.

How to run, from this directory:

    tlc -workers 2 -config AnalysisLifecycle.cfg AnalysisLifecycle
    tlapm AnalysisLifecycleProofs.tla

## The system

The commands of the window are Tauri commands. Those marked `async` run on a thread
pool, each on a thread of its own: nothing serialises two of them. They meet in the
managed states of the backend, each behind a lock that is held for one read or write
of it and rarely across a command, and in the files of the project. So the hard
behaviours of the backend are of one sort: what is read under one lock is used
after the lock is gone, and a command that was replaced does not notice until it
polls its token. The hard behaviours of the core are of another: one number or one
text is computed by two or three programs that must agree (with a report and without,
by index and by scan, from pages and from flat text), under limits at whose edges
tests are rare.

| component | state it keeps | operations | what makes it hard | what makes it correct | modules |
|---|---|---|---|---|---|
| cancellation ownership (`runtime/cancellation.rs`, `support/cancellation.rs`) | one slot with the token of the tracked job, a flag per token | begin, cancel, finish, poll, run | begins, cancels and late finishes of several jobs overlap | at most one live job, which the cancel command reaches | `ActiveCancellation`, `CancellableJobs`, `OneActiveJob` |
| corpus session and analysis build (`features/corpus`, `features/analysis`) | corpus version and records; generation, state, progress and corpus of the analysis | scan, load, clear, take in, process; build, report, cancel, settle | a build prepares and works without a lock; clears, reloads and another build happen meanwhile | progress and results of superseded builds are dropped; Building always ends | `AnalysisLifecycle` |
| extraction cache (`sources/cache.rs`) | map, eviction queue, running total | look up, extract, insert, evict, clear | two calls miss the same key; files change between key, reading and insertion | queue and total agree with the map, the limits hold; no text older than its key | `ExtractionCache` |
| source inventory (`project/sources.rs`, `features/project`) | manifest file; the copy kept for queries | import, choose profile, remove, record results, query | commands load, change and write the whole file without a lock; crashes between truncation and write; entries of earlier versions | entries stay coherent; queries are not answered from an old copy | `SourceStatus`, `SourceInventory` |
| PDF intake (`features/pdf`) and project text cache (`features/sources.rs`) | slot, intake under way, texts in memory and on disk, corpus | reset, choose profiles, plan, extract, store, persist, record, load | many steps, each may fail; a replaced intake runs on; the program may end anywhere | nothing is listed as extracted that was not persisted; every intake ends | `PdfIntake` |
| concordance index and its caches (`features/concordance`) | index in memory, failure state and slot behind one mutex; index files; last collocations | search, aggregate, record an error, scan, cancel, clear | queries wait for the mutex while the corpus is replaced; failures of several queries mix | a query is served by an index of its own corpus version; two failures disable, one success forgives | `ConcordanceIndex` |
| concordance search, surface index, collocations (`analysis/concordance`, `analysis/collocation.rs`) | postings, resident and on disk; collectors; budgets | build, limit, write, read back; scan, look up, page; aggregate, rank | two routes to one answer, sliding windows, projected sizes, damaged files | both routes find what reading the documents finds; foreseen sizes hold | `SurfaceTokens`, `HitCollector`, `SurfaceIndexStore`, `ConcordanceSearch`, `Collocations` |
| annotation layer and its cache file (`annotation`, `analysis/annotation_build.rs`) | builds, their waves and counters; the file and its temporary copy | build, salvage, annotate, credit, write, rename, load | reuse across edits, languages and models; documents cut at budgets; writers that share a temporary path | a layer that loads is the annotation of its manifest, as far as the build checks the texts it reads; the file is whole or absent | `AnnotationLayers`, `AnnotationCacheFile`, `AnnotationBuild` |
| corpus statistics (`analysis/build.rs`, `frequency.rs`, `distribution.rs`, `overview*.rs`, `compare.rs`) | the counts of a corpus | build in parallel and merge, list, distribute, compare, summarise, explore | one term is counted in five places | they give the same numbers, which are those of the texts | `CorpusBuild`, `FrequencyLists`, `CorpusOverview`, `CorpusStatistics` |
| repeated artefact scan (`preparation/repeated_artifacts`) | counts, survivors, materialised candidates, budget | count, filter under a cap, materialise, report, promote, cancel | two passes over files that change; arbitrary order of a hash map; a memory ceiling | the report is the ranking of all occurrences; the budget is what is held; a promoted rule removes its lines | `TextLines`, `RepeatedArtifacts`, `RepeatedArtefactScan` |
| cleaning of texts (`preparation/cleaning`, `text`) | none; reports | clean with and without a report, merge reports | stages undo each other; caps on examples; overlapping literals | report or not, one text; a second layout changes nothing; counts are those of the texts | `TextProfile`, `TextCleaning`, `TextPreparation` |
| document decoding, previews, word counts, exports (`sources`, `corpus`, `export`) | the output directory | clean pages and flat text, preview, count, validate, clear, name, write, list | the text of a source is put together in three places; parallel workers fail one by one; the program stops | one text on every way; pages keep their numbers; the manifest lists what is there; sources are kept | `PageCleaning`, `PdfCleanup`, `DocumentTexts`, `CorpusExport` |
| frontend sessions and controllers (`apps/desktop/src`) | generation counters, active project | start, receive, switch | answers arrive late or out of order | an answer of an earlier session is dropped | not modelled |
| project manifest and configuration files | small JSON files | create, open, save | none to speak of | validation of contents | not modelled |
| widgets, glue, tooling | none | presentation, start-up | not a matter of states | tests | not modelled |

Interactions. Every command that replaces the corpus clears, one after the other and
each under its own lock, the analysis, the extraction cache, the page cache, the
collocations and the concordance index, and then loads the new records. A PDF intake
does the same, and in addition fills the extraction cache, persists texts and updates
the inventory. Processing reads texts through the extraction cache, writes output
files, updates the inventory and clears the analysis and the index. Analyses and
concordance queries take the records and their version once, at the start. The scan
for repeated artefacts, previews, word counts and exports read texts through the
extraction cache and clean them with the same operators.

## The modules

State variables and actions bear the names of the code where there is one; `map` in
`PROJECT.json` gives the lines of the principal definitions; a helper whose lines belong to
one of those is not listed. A capital name that is not in the code is a step the code has
no function for.

**The backend.** `ActiveCancellation` is the slot: `Begin`, `Cancel`, `Finish` are the
methods of the same names, and `cancelled[j]` is the flag of the token handed to job
`j`. It has no `Next` of its own; the modules of the components that own a slot (the
analysis build, the PDF intake, the concordance index, and `CancellableJobs`, the plain
job that begins, polls and finishes) instantiate it. `OneActiveJob` states what an
owner of a slot promises, with no slot in it, and `CancellableJobs!PromiseSpec` says
that the jobs running with a clear token implement it.

`AnalysisLifecycle` has one action per critical section or step outside a lock of
`build_annotation_layer_command` and of the commands that load, clear, take in or
reprocess a corpus. `build[b]` is where an invocation of the build command stands and
what it carries (the version its records are from, its generation, its outcome);
`load[l]` the same for the other commands. A corpus is its version.

`ExtractionCache` has the map, the queue and the total under the names of the code;
a text is known by the second its content was written, by its size and by whether it
was extracted or materialised. `BeginCall` computes a key, `Hit` and `Miss` are the
first lock, `Extract` reads the file as it is then, and `ReturnExisting`,
`InsertIfAbsent` or `InsertExtracted` are the second lock.

`SourceStatus` holds what the operations make of one inventory entry as operators on
records; `SourceInventory` has the file (whole, empty after a truncation, or garbled by
two writers), its stamp, the kept copy, and commands that load, change, truncate and
write. `PdfIntake` walks through the two intake commands step by step, with the end of
the program possible between any two; it loads and changes the inventory in one step and
writes it at once in another (`SaveInventory`), so that what another intake wrote in between is lost. `ConcordanceIndex` has the state behind the
mutex, which `holder` has over a whole indexed query, the index files by the hash they
are named after, and the three modes of the backend.

**Annotation.** `AnnotationLayers` holds the pure part (sentence chunks, segments,
counts, vocabularies, remapping of an earlier layer, shares of credit);
`AnnotationCacheFile` the file, its temporary copy and their inodes; `AnnotationBuild`
composes them with builds that begin, borrow or make a corpus, salvage, stage waves,
annotate, write and are cancelled, while texts, languages and models change.

**Concordance.** `SurfaceTokens` is what both routes read of a text, with the window
that slides over it; `HitCollector` keeps the rows of a page; `SurfaceIndexStore`
builds the index under its limits, writes it and reads back what a file holds,
damaged or not; `ConcordanceSearch` answers a query by scanning and by looking up;
`Collocations` aggregates both ways, under budgets, and ranks the rows in a bounded heap.

**Statistics.** `CorpusBuild` maps records in any order and merges them; `FrequencyLists`
has the lists, annotated rows and distributions; `CorpusOverview` the overview and its
explorer; `CorpusStatistics` the queries on a finished corpus.

**Texts.** `TextLines` is a text as lines that bear the attributes the scan asks of
them, with the rules that remove lines and the promotion of a candidate to one;
`RepeatedArtifacts` is what is counted, materialised and reported, at the level of
lines; `RepeatedArtefactScan` is the scan, with files that
change between its passes. `TextProfile` is a text as characters that bear the traits the
code tells them apart by, with the profile of a line; `TextCleaning` is `clean_text`,
stage by stage, with its report; `TextPreparation` runs it over small texts.
`PageCleaning` and `PdfCleanup` are the cleaning of documents with pages and of what
PDF extraction leaves; `DocumentTexts` is the text of a source on each of its ways;
`CorpusExport` has the previews, the word count and the export of a corpus with its
parallel workers.

The `MC` modules give constants their functions and define symmetry sets and bounded
inputs; the other configurations instantiate the modules directly.

## What the runs check

| run | instance | states | what it shows |
|---|---|---|---|
| `cancellable_jobs` | 3 jobs | 473 | with begins, cancels and late finishes in every order a request reaches all running jobs, and the jobs implement `OneActiveJob` |
| `analysis_lifecycle` | 2 builds, 1 other command, 2 versions, 3 generations | 488,643 | progress is of the current generation, and Building always ends |
| `extraction_cache` | 2 calls, a native file and a scan, sizes 1 and 3, limits 2 and 2, 2 seconds | 948,200 | total and map agree through replacement and eviction, and no extraction is older than its key |
| `source_inventory` | 2 commands, a PDF and a native text, one of them listed at a time, every preflight outcome, 3 writes | 480,368 | the copy a query kept is current when it is used, answers are not old, and entries of this and of earlier versions stay coherent, through overlapping writes, garbled files and crashes |
| `pdf_intake` | 2 intakes, 1 PDF | 333,968 | what is recorded as extracted was persisted; every intake ends and frees its slot |
| `concordance_index` | 3 queries, two at a time, 2 versions | 661,532 | a query's index is of its version; the index is disabled after exactly two failures without a success; the mutex is handed back |
| `repeated_artefacts` | up to 2 files, every kind of candidate, one rewrite between the passes | 7,071 | a report is the ranking of all occurrences, the budget is what is held, promoted rules remove their lines |
| `annotation_build` | 2 builds, 2 documents, 4 texts (one blank, one longer than a wave, two with as many words), one edit, override, session build or restart | 1,199,907 | the file is absent or whole, a layer that loads is the sequential annotation of its texts, each that of its hash or one edited from or to it with as many words, credited words add up |
| `concordance_search` | one document of up to 4 words over 3 of 4 surfaces, or two; windows up to 3, two index limits, budgets | 222,589 | scan, index and the documents read whole agree on pages, counts and profiles; foreseen sizes hold; a file read back indexes its texts |
| `corpus_statistics` | 254 lists of records, failed, blank and fallback texts among them, a load that ends the build, every rounding of the ends of bars | 49,408 | growth, counts, lists, distributions and overview give the numbers of the texts; a bar's list is its documents, but for those at a rounded end |
| `text_cleaning` | texts of up to 5 units under each group of options, rules and patterns that meet | 255,076 | with a report and without one comes the same text, layout is settled, noise is shown as noise, reports count what was removed |
| `processed_texts` | PDFs of up to 3 pages under 9 groups of options, plain documents of up to 3 units, corpora whose names meet, one edit, two attempts | 198,748 | one text on every way, pages keep their numbers, zone rules apply or are noticed, the manifest lists what is there, sources are kept |

Why the bounds are enough. For the backend the interesting cases need two actors, one
of which was superseded, and a third event after that: two builds and three generations
(the third is published after the two have met), two versions (a reload between the
halves of a build), three queries of which two overlap (fail, succeed, fail), two
intakes of one file. The cache's limits are such that two texts of size 1 fill it, a
third evicts, and one of size 3 fits in no case. Three truncations and writes let one
command write over another and a third write begin; entries are updated several times in
one command. The annotation build has a text longer than `TokenBudget` (4) and chunks
longer than `WordCap` (2), so that waves, segments and chunks all cut; the texts "short" and
"calm" have as many words, and every word of "calm" is in the long one, so that either an edit
between the two reads of a build or an edit after the session's corpus was built puts the
counts of one under the hash of the other; two inodes are what two writers and a rename need. In the concordance run the windows, the page, the
sort depth, the population of the dispersion (6), the polling intervals (4 and 2), the
arena (1 and 1) and the limits are small enough that each is reached inside a document
of four words; the second document of two shapes brings the borders between documents.
The statistics run has a moving window of 2 words and a minimum of 3 for the other
measure, three bins, and 9 list, 7 annotated, 7 comparison, 2 document and 5 exploration
queries. The cleaning runs keep at most two examples per rule (`MAX_REMOVED_TEXT_EXAMPLES`,
20 in the code), so that the cap is met; units stand for words, addresses and tags.
Exports number names up to 2 (100 in the code) before they fall back on the hash.

No bound stands in the guard of a step that fairness speaks of, so that liveness is not
cut short by one (in `AnalysisLifecycle` the bounds may hold a build before its
publication or a reload, of which no progress is asked). `source_inventory` switches off
the deadlock check because the system rightly stops when the writes are used up, and
constrains the inventory to one listed source at a time.

Symmetry is used only in runs without liveness.

Fairness. A thread that runs a command keeps running until the command returns, so
each step of an invocation under way is weakly fair; nothing is assumed of the user
(starting a command, cancelling, reloading), of writes to files, of the clock or of
the end of the program. In `AnalysisLifecycle` this covers a build from its
publication on. In `ConcordanceIndex` a query waits for a mutex; with finitely many
queries the one that waits gets it at last under weak fairness, and only then:
the standard library's mutex promises no order, so `QueriesEnd` says that nobody
keeps the mutex or deadlocks on it, and not that a query cannot be overtaken.

Every property of a run has a mutant: a version of one definition with a plausible bug
(a dropped guard, a wrong key, a missing reset) under which the same run violates the
property. The mutated forms stand beside the definitions they replace.

## What is proved

Assumptions are the named `ASSUME`s of the modules: the "none" values lie outside the
sets they complete, bounds are natural numbers, the sets of inputs are subsets of
their types, a text's tokens are a sequence, the versions of taggers are numbers
(`VersionAssumption`), every text is detected to be of some language
(`DetectionAssumption`), a source has a counted sequence of pages (`CasesAssumption`), and
the hash of a source (eight digits of a SHA-256) is its own and part of no name. Sets of jobs, builds, calls, commands, files,
documents and queries are arbitrary, of any size. Each safety proof has the shape:
`Init` establishes an inductive invariant, every action preserves it (one lemma or case
for each), and it implies the property. The invariants were model-checked on the instance
of their run before they were proved.

| module | theorems | the inductive invariant, and why the property alone is not inductive |
|---|---|---|
| `CancellableJobsProofs` | types, `LiveJobIsTracked`, `TrackedJobRuns`, `CancelReachesAll`, the refinement of `OneActiveJob` | the first three together: a finish leaves the slot alone only because the slot tracks a job that runs |
| `AnalysisLifecycleProofs` | types, `ProgressIsCurrent`, `BuildingHasOwner`, `GenerationsAreUnique`, `LiveBuildIsTracked`, the refinement of `OneActiveJob` by live builds | `GenerationsAreIssued` is added: no invocation carries a generation not yet issued, or a new build could meet an old one with its number |
| `ExtractionCacheProofs` | types, `OrderListsKeys`, `TotalIsExact`, `OnlyMaterialisedOversized`, `ExtractionNotOlderThanKey` | for the total: the queue lists each key once and the map is finite, or a key popped twice would be subtracted twice; for the age: `DiskWrittenByNow`, `KeyBeforeContent`, `CallsCarry` and `StoredNotOlder`: a call carries a key read before the content, and the clock never runs back |
| `SourceInventoryProofs` | types, `PlansMatchRoutes`, `OcrTextIsFlagged`, `ReasonsExplainStatuses`, `KeptCopyIsCurrent`, the action property `AnswersAreNotOld` | `CopiesAreManifests` and `EntriesAreSound` (copies of commands are as sound as the file); `LabelsArePast` and `ReadIsCurrent` (a stamp read is not from the future, and the copy read after it is of that stamp or later) |
| `PdfIntakeProofs` | types, `RecordedTextIsPersisted`, the refinement of `OneActiveJob` by intakes that were not cancelled | `Sane` and `Persisted` for each intake: it plans a source for each of its files, and what it counts as done, like what its copy of the inventory lists as extracted, is on disk |
| `ConcordanceIndexProofs` | types, `IndexServesItsVersion`, `DisabledAfterTwoErrors`, `SlotTracksRunningQuery` | `HolderIsInIndex` (the mutex is held exactly by the query whose work is in the index), `EntryIsOfItsKey`, `AdmittedForVersion`, `ReloadHasRoom`, and `FailureIsCounted`, the count of errors behind each failure state |
| `AnnotationBuildProofs` | `ChunksCutTheText`, `SegmentsCutTheChunks`, `CreditIsExact`, `NeverTorn` of the whole project, `CachedLayerAnnotatesItsTexts`, `CachedLayerIsTheAnnotation` | `BuildInv`: the documents done and the inputs to come part the documents of the corpus; the wave is the stretch of inputs before `next_input`; words are credited ahead only of a document in segments, and no more than it has. `FileInv`: whoever writes alone writes to a file that is not the final one, and has brought to it what its step says. For the layers `Gathered` and `FilesFaithful` are added: what a build has gathered is, by the term ids of its vocabulary, what annotating each document done on its own as one of the texts that pass for it gives, and so is whatever parses in memory, in the temporary and in the final file; `Known`: texts hashed are of the history `seen`, which only grows |
| `CorpusExportProofs` | the action property `SourcesAreKept`, `PathsNeverCollide`, `ManifestListsWhatIsThere`, `PagesAreAllShown` | `SourcesInv`: what is cleared was found to lie around no root. `ManifestInv`: the files are those of workers that have ended, a worker that wrote has its record and its whole file under its own path, and both stand until the output is cleared. `ShownInv`: until a preview is made no source has been edited, and what it shows is what its documents' texts are made of |

Some of these are about data, where the prover has no induction to offer. Three means serve:

* **Sums are cardinalities.** The running total of the cache and the words of documents
  are the numbers of elements of a union of sets `{k} \X (1..size of k)`
  (`ExtractionCache!BytesOf`, `AnnotationBuild!SumOver`). That a sum grows by a part is
  then the library's theorem on the cardinality of a disjoint union, whatever the order
  of evictions or of waves.
* **Recursion by sets of naturals.** `sentence_chunks`, `annotation_chunk_segments`,
  `SingleUnderscores` and `OutputPaths` are recursive functions. That such a function
  exists (`ChunksRun`, `SegmentsRun`, `UnderscoreRuns`, `PathRuns`) and what its value at
  `n` is (a cut of `1..n`, a name, a path for each of the first `n` sources) is shown by the least element of a set of
  counterexamples (`LeastNatural`, `UpTo`), which follows from the well-foundedness of
  the naturals in the library.
* **Folds as functions of intervals.** The texts of a document are a fold over the
  list of its pages (`PageCleaning!CleanedTexts`). The library defines a fold by a function on the subsets
  of its set, of which only the intervals are ever asked; `TextRuns` shows by the same
  least counterexample that there is such a function, with one text for each page.

`CreditStaysExact` covers texts that are edited between the two reads of a build: the
words credited are those the corpus counted, by wave or by segment, and a share of a
document in segments never passes its words. The cuts matter for it because a segment's
share is read off the token its last chunk ends at. `CacheFileNeverTorn` is stated of the
composed specification with builds, edits and restarts; its hypothesis says only that
the constant `None` is no envelope. `MemoryStaysBounded` has the hypothesis that
an entry's limit is not above the total limit, as in the constants of the code.

`PathsNeverCollide` is about names that are made safe, shortened to nothing, numbered and,
when the numbers are used up, hashed without a look at the paths in use: a number is
taken only when it is free, and a path with a hash differs from the rest by the hash. It is
why no worker writes over the text of another, whatever their order, and so why a
manifest can be true. `ManifestListsTheFiles` shows that it is, through edits, faults,
crashes and retries: for an export that may not overwrite, for good; for one that may,
until it ends, since the next attempt clears the directory step by step.
`ManifestListsFailuresToo` adds the sources that could not be read. Its hypothesis
`FailuresLeaveNothing` says that the cleaning makes no text out of what is left of
such a source, which is an induction over stages and rules; TLC evaluates it for the
cases of the run.

`PagesAreAllShown` is the half of `PagesKeepTheirNumbers` that holds whatever the options
and rules are: cleaning may leave nothing of a page, and never takes the page away, so that
no later page moves up. The other half, that a page is empty only if its letters were
removed, depends on the patterns: a replacement may bring letters of its own.

`BuildsImplementOneActiveJob` and `IntakesImplementOneActiveJob` show that the owners of a
slot keep the promise of the slot: build and intake check their tokens outside the locks
under which others take the slot, and still at most one of each may deliver, the last to
begin. The concordance index, the third owner, does not implement `OneActiveJob`: a corpus
that is replaced or processed empties its slot without a cancel (`ClearIndex`,
`ProcessSources`) while a query scans, and the next query finds no job to supersede, so
that two are live. What does hold of it is `SlotTracksRunningQuery`.

`CachedLayersAnnotateTheirTexts` says what holds of a layer that loads: it lists the documents
of its manifest in their order, and has for each the counts of its text or of one that takes its
place. A text can take the place of another because a build reads it again after the hash
was taken and compares no more than the number of words (`annotation_build.rs:2104`). That
needs no race: the session's corpus is borrowed with the hashes of the texts it was built from,
and `validate_reusable_surface_corpus` looks at no text. So an edit that keeps the number of words,
and brings none that the project's vocabulary lacks, leaves the counts of the new text under the hash of
the old one, where later builds salvage them for every document with the old text.
The history variable `seen` (the texts each document has had; no step reads it) bounds this:
a text that takes the place of another was had, like it, by some document, and has as many words.
`CachedLayerStaysTheAnnotation` is the rest: as long as no document has had two texts with as
many words, the layer is that of the very texts of its manifest, so that reuse, waves, segments,
remapping, failures and restarts lose nothing. Both have the hypothesis that `None` is no
envelope. Borrowing compares the number of records and the documents that gave text: with three
documents a corpus of another selection of equal size can be borrowed. The theorems cover it; the
run has too few documents for it, and the window always asks for all files.

Only model-checked:

* Liveness (`BuildingEnds`, `IntakesEnd`, `QueriesEnd`), which is beyond the prover.
* What rests on `SelectSeq`: the lines and units that cleaning and the scan keep
  (`TextsAgree`, `ZoneRulesApplyOrAreNoticed`, the properties of `text_cleaning` and
  `repeated_artefacts`, and `FailuresLeaveNothing`). The standard module defines it by
  a recursion the prover does not open; nothing can be proved of it, not even that it leaves an
  empty sequence empty.
* What counts over texts (`concordance_search`, with collocations and the stored index, and
  `corpus_statistics`): that two programs compute the same number for every text is an
  induction over texts, through several folds at once, which the means above do not reach.
  These modules use recursive functions and folds where the code loops, and no `RECURSIVE`
  operator.

## Where the code and its texts part

No run ends in a violation. The models reach the following states, which a comment, a
document or a test of the repository says or suggests do not occur; properties are
stated so that they hold of what the code does.

* A build publishes after it compared generations under another lock, so a clear or a
  reload in between is undone by it, and the analysis of an earlier corpus may stand
  beside a newer one (`features/analysis/commands.rs:257, 327`, `features/corpus/state.rs:3`).
* Updates of the inventory that overlap write their whole copies over each other: a
  removed source comes back (`project/sources.rs:790`; the module comment, line 4, says
  that import and processing state remain coherent). Results are recorded by the profile
  stored at that moment, so embedded text may be listed as OCR text.
* Texts are read once to name a concordance index and again to build it; a change in
  between is stored under the earlier name (`concordance/mod.rs:437`; `index.rs:1385`
  calls the name content-addressed).
* Annotation builds share one temporary file; a build whose rename fails removes the
  final file, so that overlapping builds can destroy a completed layer
  (`annotation/cache.rs:511`; line 423 says "atomically"). The properties of the file are
  claimed while writers have not overlapped (`overlapped`).
* Batched literals differ from literals applied in turn when a pattern overlaps itself
  (`cleaning/mod.rs:1896` and the test at 2770 say that the output is identical).
* Words are counted on text cleaned without pages (`word_count.rs:3`), so repeated
  headers of a PDF count differently from its preview; previews and exports differ in
  trailing line breaks, in tags inside PDFs, in pages whose text is not the whole text,
  and in warning kinds. `TextsAgree` names these cases as its hypotheses.
* An overwriting export whose directory lies around a root's subfolder removes sources,
  and one that fails while clearing can leave a manifest without texts; the application
  itself never overwrites (`commands.rs:69`). A failed export leaves its directory, so
  that a retry is refused. The hash that ends a crowded name is not looked up. For PDF and
  DOCX the hash listed may be that of other bytes than the text's.
* "Obvious" noise (`profile.rs:348`) takes "(12)" and "5.2." which the reviewer labels
  ambiguous; rules for page labels are skipped without a notice on documents without
  pages; lines removed by zone rules on pages are not counted in the report; PDF cleanup
  takes `remove_isolated_page_markers` for `remove_page_labels` and splits flat text into
  pages at any blank line.
* A text materialised late is stored under the modification time its file has then
  (`sources/cache.rs:308`); the metadata of a replaced inventory is read after the write
  (`features/project/mod.rs:71`); a project text is overwritten in place and may be torn
  (`features/sources.rs:212`); a replaced intake may clear the cache of its successor
  (`features/pdf/commands.rs:196`).
* An annotation layer may hold, under the hash of a text, the counts of a later one with as many
  words (`annotation_build.rs:2104`, where the mismatch of a document is reported;
  `annotation/cache.rs:52` and the test at 734 have the hash tell a stale layer).
* `distribution.rs:201` stems a stem again, ignores the tag filter and the token class;
  bounds of bars are rounded before they are sent back (`overview_distribution.rs:516`), so that
  the longest or the shortest document can be in no list, and one where two bars meet can be
  counted in the one and listed in the other. `BarsShowTheirDocuments` holds for every such
  rounding: no document is in two lists, only one at an extreme of the logarithmic scale can be in
  none, and a list is as long as the bar but for documents at its ends.

## What is abstracted

* Texts, OCR quality and progress counts of the backend: only the identity of a text, by
  version, second or source, is kept. In the core a text is a short sequence of units
  with the traits the code asks for.
* Time stamps. `SourceInventory` gives each write a stamp of its own; two writes
  within one tick of the file system's clock and of equal size are not told apart
  by the code. `ExtractionCache` knows contents by the second they were written in, as
  the code's keys do.
* Order of hash tables and of parallel workers: nondeterministic where it can be seen.
* Arithmetic is exact, but for the edges of bars: where a value lies at a computed edge, the edge
  may come out below it, at it or above it, and the value may be counted in either bar.
  Logarithms are a table where an order depends on them. Bin counts
  of two rules are any of 1..`MaxBins`. SHA-256 is injective. Two writers that mix their
  bytes leave a file that does not parse.
* Stems are compared for keys that stem to themselves; a query that is accepted is
  answered by both routes, and a refused index is not replaced by a scan.
* Waves of the annotation are one step; the tagger is external: the lemma of a word, and
  a tag that depends on the place in its chunk.
* `TextLines` has the removal of lines by rules as the scan needs it, without page
  labels and the stages of `TextCleaning` that leave lines as they are.
* Plain and audited texts are one until the removal rules; long examples are not cut.
* File systems that take names in upper and lower case for one (`used_paths` tells them
  apart, so that two texts could then share a file) and failing canonicalisation of paths are left out of
  the export; the deletion of a project is left out everywhere.

## Not modelled

* The frontend, its controllers and generated bindings: TypeScript whose behaviour
  depends on the scheduling of a browser's event loop and on component state; the backend
  side of every call is modelled. Widgets, plots and styles are presentation.
* The project manifest, decisions and configuration files: single writes of small files
  with validation of their contents; what could go wrong with them (a torn file) is
  modelled for the inventory, which is written in the same way.
* The parsers of external formats (PDF, DOCX, HTML beyond tags), OCR, the tagger and the
  language tables: pure functions of bytes or data; they enter as what they leave.
* What takes logarithms or roots: entropies, the measure g2, fitted trends, quantiles of
  the normal distribution.
* Page previews and their cache of page ranges, the auditing mode of the concordance
  backend, the comparison of expressions in the backend and the expansion of contexts;
  the streaming variant over documents already in memory; reading a project's texts back
  when it is opened.
* Poisoned locks and panics: the code unwraps its locks, so a panic under one ends the
  command and every later one that takes it.
* Benchmarks, tests, build scripts and automation.

## Plan

Written in this order: cancellation, analysis, extraction cache, inventory, intake and
concordance index, each with its proofs; then annotation, concordance search, statistics,
repeated artefacts, cleaning, documents and exports, with runs. To come:

1. The reading side of the project text cache when a project is opened.
2. The frontend's gating of late answers by generation, composed with the backend.
