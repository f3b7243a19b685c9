---------------------------- MODULE DocumentTexts ---------------------------
(***************************************************************************)
(* The text of a source, processed, on each of its ways: to a preview and  *)
(* to the files of a project, to the count of its words, and to an export. *)
(* The ways share the cleaning and differ in how they come to it.          *)
(* An entry is what the extraction of a source has left: its text, the     *)
(* pages it comes from when they are known, and the warnings.              *)
(***************************************************************************)
EXTENDS PdfCleanup

NoLimit == -1

(* Tags go, and what is between them is laid out in lines of its own length. *)
extract_html(t) == join(split_whitespace(SelectSeq(t, LAMBDA c : Kind(c) # "tag")), <<" ">>)
WithoutMarkup(t, config) == IF "extract_html" \in config.options THEN extract_html(t) ELSE t

IsPdf(doc) == doc.kind = "pdf"
HasPages(doc, entry) == IsPdf(doc) /\ entry.paged /\ entry.readable

(***************************************************************************)
(* Previews and the files of a project                                     *)
(***************************************************************************)
prepare_document_text_for_cleaning(doc, t, config, reliable) ==
    IF ~IsPdf(doc) THEN [text |-> WithoutMarkup(t, config), warnings |-> <<>>]
    ELSE The(UNION {{[text |-> WithoutMarkup(cleaned.text, config), warnings |-> cleaned.warnings] :
                       cleaned \in {clean_extracted_pdf_text(t, pdfConfig)}} :
                    pdfConfig \in {IF ~reliable THEN config
                                   ELSE [config EXCEPT !.options = @ \ {"remove_repeated_pdf_headers_footers"}]}})

DocumentText(t, pages, warnings, report) ==
    [text |-> t, paged |-> pages # <<>>, pages |-> pages, warnings |-> warnings, report |-> report]
ReportedText(clean, pages, warnings) ==
    DocumentText(clean.text, pages, warnings, finish(clean.events, clean.skipped))

(* The pages are shown with their text when they come to the text of the whole, or must. *)
TextByPages(entry, pdf, clean, whole, config) ==
    IF requires_reliable_page_metadata(config) \/ (clean.paged /\ clean.text = whole)
    THEN ReportedText(clean, IF clean.paged THEN clean.pages ELSE <<>>, entry.warnings \o pdf.warnings)
    ELSE DocumentText(whole, <<>>, entry.warnings, NoReport)
PagedText(doc, entry, config, context) ==
    The(UNION {{TextByPages(entry, pdf, clean, whole, config) :
                  clean \in UNION {{clean_structured_document_impl(document, config, context, TRUE)} :
                                    document \in {from_pages(pdf.pages)}},
                  whole \in UNION {{clean_text(prepared.text, config)} :
                                    prepared \in {prepare_document_text_for_cleaning(doc, entry.text, config, TRUE)}}} :
               pdf \in {clean_extracted_pdf_pages_and_text(entry.pages, config)}})

FlatText(doc, entry, config, context) ==
    The(UNION {{ReportedText(clean, <<>>, entry.warnings \o prepared.warnings) :
                  clean \in {IF requires_reliable_page_metadata(config)
                             THEN clean_structured_document_impl(from_flat_text_as_single_page(prepared.text),
                                                                 config, context, TRUE)
                             ELSE clean_text_impl(prepared.text, config, context, NothingCollected, TRUE)}} :
               prepared \in {prepare_document_text_for_cleaning(doc, entry.text, config, FALSE)}})

document_text_from_cache_entry(doc, entry, config, context) ==
    IF HasPages(doc, entry) THEN PagedText(doc, entry, config, context)
    ELSE FlatText(doc, entry, config, context)

(* A PDF read by OCR must have been read before; a source that cannot be read has no text. *)
Warning(what) == [what |-> what, pages |-> 0, lines |-> 0, blocks |-> 0]
MissingOcr == Warning("OCR text is not materialised")
ReadFailed == Warning("Failed")
document_text_for_record(doc, entry, config, context) ==
    IF doc.ocr /\ ~doc.cached THEN [ok |-> FALSE, error |-> MissingOcr]
    ELSE IF ~entry.readable THEN [ok |-> FALSE, error |-> ReadFailed]
    ELSE [ok |-> TRUE, document |-> document_text_from_cache_entry(doc, entry, config, context)]

limit_text(t, max) ==
    [text |-> IF max = NoLimit THEN t ELSE SubSeq(t, 1, Min({max, Len(t)})),
     truncated |-> max # NoLimit /\ Len(t) > max]
preview_char_limit_for_explicit_selection(selected, requested) ==
    IF selected = 1 THEN NoLimit ELSE Max({requested, 1})

(* A source as it is, or what may come of one that cannot be read: a PDF or a DOCX that
   cannot be extracted has an empty text and says why, a file that cannot be opened gives
   an error, and then nothing is shown of the others either. *)
preview_file_with_config(doc, entry, max) ==
    LET shown(t, warnings) ==
            LET read == limit_text(t, max)
            IN [ok |-> TRUE, file |-> [text |-> read.text, truncated |-> read.truncated,
                                       report |-> NoReport, warnings |-> warnings]]
    IN IF entry.readable THEN {shown(entry.text, entry.warnings)}
       ELSE {[ok |-> FALSE, error |-> ReadFailed]}
            \cup {shown(<<>>, <<ReadFailed>>) : kind \in {doc.kind} \cap {"docx", "pdf"}}
preview_files_with_config(results) ==
    IF \A d \in DOMAIN results : results[d].ok THEN [d \in DOMAIN results |-> results[d].file] ELSE <<>>

(* A source processed: one that fails has an empty text and says why. *)
ShownDocument(result, max) ==
    LET d == IF result.ok THEN result.document ELSE DocumentText(<<>>, <<>>, <<result.error>>, NoReport)
    IN The({[text |-> read.text, truncated |-> read.truncated, report |-> d.report, warnings |-> d.warnings] :
              read \in {limit_text(d.text, max)}})

(***************************************************************************)
(* Counts of words                                                         *)
(***************************************************************************)
cleaned_word_count_text(t, config) == clean_text(WithoutMarkup(t, config), config)
CountsAsWord(token) == \E i \in DOMAIN token : is_alphabetic(token[i])
count_words_in_processed_text(t, config) ==
    Len(SelectSeq(split_whitespace(cleaned_word_count_text(t, config)), CountsAsWord))
TextToCount(doc, entry, config) ==
    IF IsPdf(doc) THEN clean_extracted_pdf_text(entry.text, config).text ELSE entry.text
count_words_for_record(doc, entry, config) ==
    IF doc.ocr /\ ~doc.cached THEN [count |-> 0, skipped |-> TRUE]
    ELSE IF ~entry.readable THEN [count |-> 0, skipped |-> FALSE]
    ELSE The({[count |-> count_words_in_processed_text(t, config), skipped |-> FALSE] :
                t \in {TextToCount(doc, entry, config)}})

(***************************************************************************)
(* Exports                                                                 *)
(***************************************************************************)
ExportKind(warning) ==
    IF warning = ReadFailed THEN "ExtractionError" ELSE "ExtractionWarning"

\* Mutant: the pages are put together before they are cleaned.
PagesTogether(doc, entry, config) ==
    [text |-> clean_text(IF HasPages(doc, entry)
                         THEN clean_extracted_pdf_pages_and_text(entry.pages, config).text
                         ELSE IF IsPdf(doc) THEN clean_extracted_pdf_text(entry.text, config).text
                         ELSE WithoutMarkup(entry.text, config), config),
     warnings |-> entry.warnings]
TextToClean(doc, entry, config) ==
    IF HasPages(doc, entry) THEN clean_extracted_pdf_pages_and_text(entry.pages, config)
    ELSE IF IsPdf(doc) THEN clean_extracted_pdf_text(entry.text, config)
    ELSE [text |-> WithoutMarkup(entry.text, config), warnings |-> <<>>]
(* The text an export writes for a source and the warnings it gathers. A source that
   cannot be read is exported empty. *)
ExportedText(doc, entry, config) ==
    The({[text |-> IF HasPages(doc, entry)
                   THEN clean_structured_document_impl(from_pages(prepared.pages), config,
                                                       [source |-> NoSource, page |-> 0], FALSE).text
                   ELSE clean_text(prepared.text, config),
          warnings |-> (IF entry.readable THEN entry.warnings ELSE <<ReadFailed>>) \o prepared.warnings] :
           prepared \in {TextToClean(doc, entry, config)}})

(***************************************************************************)
(* Where an export writes                                                  *)
(***************************************************************************)
CONSTANTS MaxSuffix,      \* the highest number that tells names apart
          WINDOWS_RESERVED_NAMES
ASSUME SuffixAssumption == MaxSuffix \in Nat \ {0}

BadInNames == {"<", ">", ":", "/", "\\", "|", "?", "*"}
SafeUnits(t) == [i \in 1..Len(t) |-> IF t[i] \in BadInNames THEN "_" ELSE t[i]]
SingleUnderscores(t) ==
    LET upTo[i \in 0..Len(t)] ==
            IF i = 0 THEN <<>>
            ELSE IF t[i] = "_" /\ Is(t, i - 1, {"_"}) THEN upTo[i - 1] ELSE Append(upTo[i - 1], t[i])
    IN upTo[Len(t)]
(* A folder or a file name that any platform takes; underscores in a row become one. The
   cap on its length is left out. *)
sanitize_path_component(name, fallback) ==
    LET bare(t) == trim(trim_end_matches(t, {"."}))
        allowed(t) == IF to_lowercase(t) \in WINDOWS_RESERVED_NAMES THEN Append(t, "_") ELSE t
    IN The({allowed(IF t = <<>> THEN fallback ELSE t) : t \in {bare(SingleUnderscores(SafeUnits(trim(name))))}})

SafeDir(doc) == [k \in 1..Len(doc.dir) |-> sanitize_path_component(doc.dir[k], <<"folder">>)]
SafeStem(doc) == sanitize_path_component(doc.stem, <<"document">>)
TextPath(dir, stem, suffix) == Append(dir, stem \o suffix \o <<".txt">>)

\* Mutant: the number after a name is not raised when it is taken.
NumberedOnce(doc, used) ==
    LET path(suffix) == TextPath(SafeDir(doc), SafeStem(doc), suffix)
    IN IF path(<<>>) \notin used THEN path(<<>>) ELSE path(<<"_", "_", "2">>)
(* The first free name: without a number, with one, and then with a hash of the source,
   which is not looked up. *)
Number(n) == IF n = 1 THEN <<>> ELSE <<"_", "_", ToString(n)>>
unique_output_relative_path(doc, used) ==
    LET dir == SafeDir(doc)
        stem == SafeStem(doc)
        free == {n \in 1..MaxSuffix : TextPath(dir, stem, Number(n)) \notin used}
    IN TextPath(dir, stem, IF free = {} THEN <<"_", "_", doc.hash>> ELSE Number(Min(free)))

(* In the order of the corpus. *)
OutputPaths(docs) ==
    LET upTo[i \in 0..Len(docs)] ==
            IF i = 0 THEN <<>>
            ELSE Append(upTo[i - 1], unique_output_relative_path(docs[i], ToSet(upTo[i - 1])))
    IN upTo[Len(docs)]

(* Folders are sequences of names; the root of a source is its folder without the folders
   of its relative path. *)
infer_source_roots(docs) ==
    {SubSeq(docs[i].folder, 1, Len(docs[i].folder) - Len(docs[i].dir)) : i \in DOMAIN docs}
\* Mutant: an output around a root is taken for a safe one.
OnlyTheRoot(docs, output) == \A root \in infer_source_roots(docs) : output # root
validate_output_path(docs, output) == \A root \in infer_source_roots(docs) : ~IsPrefix(output, root)
=============================================================================
