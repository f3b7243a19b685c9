---------------------------- MODULE CorpusExport ----------------------------
(***************************************************************************)
(* The previews of a corpus, the count of its words, and its export to a   *)
(* directory, while somebody edits the sources, disks fill up and the      *)
(* program may end at any moment.                                          *)
(***************************************************************************)
EXTENDS DocumentTexts

CONSTANTS Cases,       \* bound: corpora, each with its configuration and what is asked for
          MaxEdits,    \* bound: of the sources, while they are exported
          MaxExports   \* bound: attempts at one export

(* The records a scan hands over: where a source lies, its folders below its root, its stem,
   and what may be read of it. *)
Names == Seq(Seq(Unit))
ASSUME CasesAssumption ==
    \A c \in Cases :
       /\ Len(c.docs) \in Nat /\ DOMAIN c.docs = 1..Len(c.docs)
       /\ \A d \in DOMAIN c.docs :
             /\ c.docs[d].folder \in Names /\ c.docs[d].dir \in Names /\ c.docs[d].stem \in Seq(Unit)
             /\ Len(c.docs[d].contents) \in Nat \ {0}
             /\ \A v \in 1..Len(c.docs[d].contents) : Len(c.docs[d].contents[v].pages) \in Nat
(* The hash of a source, eight digits of the SHA-256 of its paths, is taken to be its own
   and to be in no name. *)
ASSUME HashesAssumption ==
    \A c \in Cases : \A d, e \in DOMAIN c.docs :
       /\ d # e => c.docs[d].hash # c.docs[e].hash
       /\ c.docs[d].hash \notin ToSet(SafeStem(c.docs[e])) \cup {"_", ".txt"} \cup {ToString(n) : n \in 1..MaxSuffix}

VARIABLES case,        \* the corpus, its configuration, and what is asked for
          version,     \* of each source on disk, 0 when it is gone
          stage,       \* what comes next
          documents, originals, previews, counts,   \* of the sources so far
          combined,    \* the preview of them all
          paths,       \* where the texts go
          worker,      \* of each source, in an export
          read, taken, \* the versions whose bytes were hashed, and whose text is exported
          results,     \* of the workers that are done
          output,      \* the directory of the export
          edits, attempts

progress == <<documents, originals, previews, counts, combined>>
work == <<paths, worker, read, taken, results>>
vars == <<case, version, stage, progress, work, output, edits, attempts>>

Docs == DOMAIN case.docs
Gone == [text |-> <<>>, pages |-> <<>>, paged |-> FALSE, readable |-> FALSE, warnings |-> <<>>]
EntryOf(doc, v) == IF v = 0 THEN Gone ELSE doc.contents[v]
Entry(d, v) == EntryOf(case.docs[d], v)
NoManifest == <<>>
Torn == [torn |-> TRUE, text |-> <<>>]
Whole(t) == [torn |-> FALSE, text |-> t]
NoFiles == [p \in {} |-> Torn]
Empty(kind) == [kind |-> kind, texts |-> NoFiles, manifest |-> NoManifest, written |-> {}]
Idle == [d \in Docs |-> 0]
NoResults == [d \in {} |-> 0]

Init ==
    /\ case \in Cases
    /\ version = [d \in DOMAIN case.docs |-> 1]
    /\ stage = "Preview"
    /\ documents = <<>> /\ originals = <<>> /\ previews = <<>> /\ counts = <<>> /\ combined = NoReport
    /\ paths = <<>> /\ worker = [d \in DOMAIN case.docs |-> "new"]
    /\ read = [d \in DOMAIN case.docs |-> 0] /\ taken = read
    /\ results = NoResults
    /\ output = Empty(case.existing)
    /\ edits = 0 /\ attempts = 0

(***************************************************************************)
(* Previews and counts                                                     *)
(***************************************************************************)
Limit == preview_char_limit_for_explicit_selection(Len(case.docs), case.limit)

Preview ==
    /\ stage = "Preview" /\ Len(documents) < Len(case.docs)
    /\ LET d == Len(documents) + 1
           context == [source |-> d, page |-> 0]
       IN /\ \E original \in preview_file_with_config(case.docs[d], Entry(d, version[d]), Limit) :
                originals' = Append(originals, original)
          /\ \E result \in {document_text_for_record(case.docs[d], Entry(d, version[d]), case.config, context)} :
                /\ documents' = Append(documents, result)
                /\ previews' = Append(previews, ShownDocument(result, Limit))
    /\ UNCHANGED <<case, version, stage, counts, combined, work, output, edits, attempts>>

preview_processed_files ==
    /\ stage = "Preview" /\ Len(documents) = Len(case.docs)
    /\ originals' = preview_files_with_config(originals)
    /\ combined' = merge([d \in Docs |-> previews[d].report])
    /\ stage' = "Count"
    /\ UNCHANGED <<case, version, documents, previews, counts, work, output, edits, attempts>>

CountWords ==
    /\ stage = "Count"
    /\ counts' = [d \in Docs |-> count_words_for_record(case.docs[d], Entry(d, version[d]), case.config)]
    /\ stage' = "Validate"
    /\ UNCHANGED <<case, version, documents, originals, previews, combined, work, output, edits, attempts>>

(***************************************************************************)
(* Exports                                                                 *)
(***************************************************************************)
Goes(from, to) == stage = from /\ stage' = to /\ UNCHANGED <<case, progress, edits, attempts>>

Refuse ==
    /\ Goes("Validate", "Failed")
    /\ \/ ~validate_output_path(case.docs, case.output)
       \/ output.kind = "file"
       \/ output.kind = "directory" /\ ~case.overwrite
    /\ UNCHANGED <<version, work, output>>

Accept ==
    /\ Goes("Validate", IF output.kind = "none" THEN "Create" ELSE "Clear")
    /\ validate_output_path(case.docs, case.output)
    /\ output.kind = "none" \/ (output.kind = "directory" /\ case.overwrite)
    /\ UNCHANGED <<version, work, output>>

(* Everything below the output goes, sources too. *)
Below(d) == IsPrefix(case.output, case.docs[d].folder)
remove_dir_all ==
    /\ Goes("Clear", "Create")
    /\ output' = Empty("none")
    /\ version' = [d \in Docs |-> IF Below(d) THEN 0 ELSE version[d]]
    /\ UNCHANGED work

(* Some of it is gone when it fails. *)
ClearFails ==
    /\ case.faults /\ Goes("Clear", "Failed")
    /\ output' \in {output, [output EXCEPT !.texts = NoFiles], [output EXCEPT !.manifest = NoManifest]}
    /\ \E S \in SUBSET {d \in Docs : Below(d)} : version' = [d \in Docs |-> IF d \in S THEN 0 ELSE version[d]]
    /\ UNCHANGED work

(* The directory for the texts, and their paths before any worker starts. *)
Create ==
    /\ Goes("Create", "Write")
    /\ output' = Empty("directory")
    /\ paths' = OutputPaths(case.docs)
    /\ worker' = [d \in Docs |-> "new"] /\ read' = Idle /\ taken' = Idle /\ results' = NoResults
    /\ UNCHANGED version

Works(d, from, to) ==
    /\ Goes("Write", "Write")
    /\ worker[d] = from /\ worker' = [worker EXCEPT ![d] = to]
    /\ UNCHANGED <<version, paths>>

ReadSource(d) ==
    /\ Works(d, "new", IF version[d] = 0 THEN "failed" ELSE "read")
    /\ read' = [read EXCEPT ![d] = version[d]]
    /\ UNCHANGED <<taken, results, output>>

(* Text and HTML come from the bytes that were hashed, PDF and DOCX from the source, or the
   cache, as it is now. *)
Extract(d) ==
    /\ Works(d, "read", "extracted")
    /\ taken' = [taken EXCEPT ![d] = IF case.docs[d].kind \in {"text", "html"} THEN read[d] ELSE version[d]]
    /\ UNCHANGED <<read, results, output>>

(* A file in the way of a directory, or a directory in the way of a file. *)
Obstructed(path) == \E p \in DOMAIN output.texts : IsStrictPrefix(p, path) \/ IsStrictPrefix(path, p)
Put(f, S, v) == [x \in DOMAIN f \cup S |-> IF x \in S THEN v ELSE f[x]]
With(path, file) == [output EXCEPT !.texts = Put(@, {path}, file)]
ManifestFileRecord(d, exported) ==
    [path |-> paths[d], source |-> read[d], text |-> exported.text,
     warnings |-> {ExportKind(w) : w \in ToSet(exported.warnings)}]

WriteText(d) ==
    /\ Works(d, "extracted", "written")
    /\ ~Obstructed(paths[d])
    /\ \E exported \in {ExportedText(case.docs[d], Entry(d, taken[d]), case.config)} :
          /\ output' = With(paths[d], Whole(exported.text))
          /\ results' = Put(results, {d}, ManifestFileRecord(d, exported))
    /\ UNCHANGED <<read, taken>>

WriteFails(d) ==
    /\ Works(d, "extracted", "failed")
    /\ \/ Obstructed(paths[d]) /\ UNCHANGED output
       \/ case.faults /\ ~Obstructed(paths[d]) /\ output' = With(paths[d], Torn)
    /\ UNCHANGED <<read, taken, results>>

(* A worker that failed ends the export when those at work have finished; the others need
   not start. *)
Collect ==
    /\ \A d \in Docs : worker[d] \in {"new", "written", "failed"}
    /\ LET failed == \E d \in Docs : worker[d] = "failed"
       IN /\ ~failed => \A d \in Docs : worker[d] = "written"
          /\ Goes("Write", IF failed THEN "Failed" ELSE "Log")
    /\ UNCHANGED <<version, work, output>>

Logs == <<"manifest.json", "warnings.json", "config.json", "README.txt">>
Remaining == SelectSeq(Logs, LAMBDA f : f \notin output.written)

WriteLog ==
    /\ Remaining # <<>>
    /\ Goes("Log", IF Len(Remaining) = 1 THEN "Done" ELSE "Log")
    /\ output' = [output EXCEPT
                    !.written = @ \cup {Head(Remaining)},
                    !.manifest = IF Head(Remaining) = "manifest.json"
                                 THEN [d \in Docs |-> results[d]] ELSE @]
    /\ UNCHANGED <<version, work>>

LogFails ==
    /\ case.faults /\ Goes("Log", "Failed")
    /\ UNCHANGED <<version, work, output>>

(***************************************************************************)
(* The world                                                               *)
(***************************************************************************)
Edit(d) ==
    /\ case.faults /\ stage = "Write" /\ edits < MaxEdits /\ version[d] # 0
    /\ version' = [version EXCEPT ![d] = IF @ < Len(case.docs[d].contents) THEN @ + 1 ELSE 0]
    /\ edits' = edits + 1
    /\ UNCHANGED <<case, stage, progress, work, output, attempts>>

(* The program ends in the middle of an export: files being written are torn. *)
Crash ==
    /\ case.faults /\ stage \in {"Create", "Write", "Log"}
    /\ stage' = "Failed"
    /\ \E S \in SUBSET {d \in Docs : stage = "Write" /\ worker[d] = "extracted" /\ ~Obstructed(paths[d])} :
          output' = [output EXCEPT !.texts = Put(@, {paths[d] : d \in S}, Torn)]
    /\ UNCHANGED <<case, version, progress, work, edits, attempts>>

(* The same export is asked for again. *)
Retry ==
    /\ case.faults /\ stage = "Failed" /\ attempts < MaxExports - 1
    /\ stage' = "Validate" /\ attempts' = attempts + 1
    /\ UNCHANGED <<case, version, progress, work, output, edits>>

Ended == stage \in {"Done", "Failed"} /\ UNCHANGED vars

Next ==
    \/ Preview \/ preview_processed_files \/ CountWords
    \/ Refuse \/ Accept \/ remove_dir_all \/ ClearFails \/ Create
    \/ \E d \in Docs : ReadSource(d) \/ Extract(d) \/ WriteText(d) \/ WriteFails(d) \/ Edit(d)
    \/ Collect \/ WriteLog \/ LogFails \/ Crash \/ Retry \/ Ended

Spec == Init /\ [][Next]_vars

(***************************************************************************)
(* Properties                                                              *)
(***************************************************************************)
PatternsAreDistinct ==
    LET overlaps(t) == literals_can_follow(t, t)
    IN \A k \in DOMAIN effective_anywhere_literals(case.config) :
          ~overlaps(effective_anywhere_literals(case.config)[k].text)
(* Pages are shown with the text, or there are none. *)
ByOneRoute(d) ==
    /\ documents[d].ok /\ PatternsAreDistinct
    /\ IsPdf(case.docs[d]) => "extract_html" \notin case.config.options
    /\ HasPages(case.docs[d], Entry(d, 1)) => documents[d].document.paged
CountsPages == /\ ~requires_reliable_page_metadata(case.config)
               /\ "remove_repeated_pdf_headers_footers" \notin case.config.options
WithoutEnd(t) == trim_end_matches(t, {"\n"})

(* The text that is exported, the text of the preview and the text whose words are counted
   are one but for line breaks at the end, although they are put together in three places
   from pages or from flat text. Where a PDF has pages whose cleaned text is not the text
   of the whole, where tags are taken out of a PDF, and where a literal overlaps itself,
   they differ; words are counted without the pages, so that rules for pages and the
   removal of headers that repeat make the count another one. *)
TextsAgree ==
    stage = "Done" => \A d \in Docs :
        taken[d] = 1 /\ ByOneRoute(d) =>
            LET processed == documents[d].document.text
            IN /\ WithoutEnd(output.manifest[d].text) = WithoutEnd(processed)
               /\ (HasPages(case.docs[d], Entry(d, 1)) => CountsPages) =>
                     counts[d].count = Len(SelectSeq(split_whitespace(processed), CountsAsWord))

(* Pages that come with a text are all of the source's pages, in their order: none is
   dropped when nothing is left of it, and none has a letter that its page of the source
   does not have. *)
Letters(t) == {Sign[c].lower : c \in {x \in ToSet(t) : is_alphabetic(x)}}
PagesKeepTheirNumbers ==
    stage = "Count" => \A d \in Docs :
        documents[d].ok /\ documents[d].document.paged =>
            LET pages == documents[d].document.pages
                source == Entry(d, 1).pages
            IN /\ Len(pages) = Len(source)
               /\ \A p \in DOMAIN pages : Letters(pages[p]) \subseteq Letters(source[p])

(* A rule for the edges of pages is either applied to a source or noticed as skipped for it:
   on pages that are all edge, no line that it names is left. *)
ZoneRulesApplyOrAreNoticed ==
    stage = "Count" => \A d \in Docs, r \in ToSet(case.config.removal_rules) :
        documents[d].ok /\ r.enabled /\ r.scope \in PageZones =>
            LET pages == documents[d].document.pages
                left(t) == \E k \in DOMAIN lines(t) : trim(lines(t)[k]) = trim(r.text)
            IN IF HasPages(case.docs[d], Entry(d, 1))
               THEN /\ <<r.id, d, UnreliablePages>> \notin DOMAIN combined.skipped
                    /\ r.matcher = "Literal" =>
                          \A p \in DOMAIN pages :
                              Len(lines(Entry(d, 1).pages[p])) <= PAGE_EDGE_LINE_COUNT => ~left(pages[p])
               ELSE <<r.id, d, UnreliablePages>> \in DOMAIN combined.skipped

(* Once there is a manifest, the texts are those it lists, each in a file of its own and
   whole, whatever failed or was edited meanwhile; a text or HTML source is exported from
   the bytes whose hash is listed, and one that could not be read is listed with an error. *)
FilesAreThoseListed ==
    /\ Cardinality(DOMAIN output.texts) = Len(case.docs)
    /\ \A d \in Docs : LET listed == output.manifest[d]
                      IN listed.path \in DOMAIN output.texts /\ output.texts[listed.path] = Whole(listed.text)
TextsComeFromTheBytesListed ==
    \A d \in Docs : LET listed == output.manifest[d]
                   IN case.docs[d].kind \in {"text", "html"} =>
                        listed.text = clean_text(WithoutMarkup(Entry(d, listed.source).text, case.config), case.config)
FailuresAreListed ==
    \A d \in Docs : LET listed == output.manifest[d]
                   IN ~Entry(d, taken[d]).readable => listed.text = <<>> /\ "ExtractionError" \in listed.warnings
(* What is left of a source that cannot be read is nothing, however it is cleaned. *)
FailuresLeaveNothing ==
    \A c \in Cases : \A d \in DOMAIN c.docs : \A v \in 0..Len(c.docs[d].contents) :
        ~EntryOf(c.docs[d], v).readable =>
            clean_text(TextToClean(c.docs[d], EntryOf(c.docs[d], v), c.config).text, c.config) = <<>>
ManifestStands == output.manifest # NoManifest /\ (case.overwrite => stage \in {"Log", "Done"})
ManifestListsWhatIsThere ==
    ManifestStands => FilesAreThoseListed /\ TextsComeFromTheBytesListed /\ FailuresAreListed

(* No export takes away a source that lies in the root of the corpus; another one goes only
   when a directory around it was to be overwritten. *)
SourcesAreKept ==
    [][\A d \in Docs : version[d] # 0 /\ version'[d] = 0 /\ stage # "Write" =>
           case.overwrite /\ case.docs[d].dir # <<>>]_vars
=============================================================================
