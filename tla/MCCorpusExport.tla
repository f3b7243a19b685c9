--------------------------- MODULE MCCorpusExport ---------------------------
(* One document of every kind, PDFs of up to three pages under each group of options;
   then small corpora whose names meet, whose sources change, and whose export fails,
   stops or lies among the sources. *)
EXTENDS CorpusExport

Row(kind, lower, chars, alphabetic, digits, upper) ==
    [kind |-> kind, lower |-> lower, plain |-> <<lower>>, chars |-> chars, alphabetic |-> alphabetic,
     digits |-> digits, upper |-> upper]
LowerWords == [page |-> 4, folder |-> 6, document |-> 8, mean |-> 4, function |-> 8, of |-> 2, con |-> 3]
MCSign ==
    [c \in {"a", "b", "x", "y", "i", "v", "p"} |-> Row("letter", c, 1, 1, 0, 0)]
    @@ [w \in DOMAIN LowerWords |-> Row("letter", w, LowerWords[w], LowerWords[w], 0, 0)]
    @@ [w \in {"H", "A"} |-> Row("letter", IF w = "A" THEN "a" ELSE "H", 1, 1, 0, 1)]
    @@ "alpha" :> Row("letter", "alpha", 1, 1, 0, 0)
    @@ [c \in {" ", "\t"} |-> Row("space", c, 1, 0, 0, 0)]
    @@ [c \in {"\n", "\r"} |-> Row("break", c, 1, 0, 0, 0)]
    @@ [c \in {"-", "_", ".", "|", "=", "(", ")", "<", ":", ";", "#", "bullet", ".txt"} |-> Row("symbol", c, 1, 0, 0, 0)]
    @@ [c \in {"1", "2", "3"} |-> Row("digit", c, 1, 0, 1, 0)]
    @@ "<br>" :> Row("tag", "<br>", 4, 2, 0, 0)
MCUnit == DOMAIN MCSign
MCComposed == [pair \in {} |-> "a"]
MCHeadings == {}
MCPageLabels == {<<"page", " ", "#">>}
MCTableHeaders == {"mean"}
MCGraphicalMarkers == {"bullet"}
MCGreekOrMath == {"alpha"}
MCNotAscii == {"bullet", "alpha"}
MCReservedNames == {<<"con">>}

Base == [options |-> {}, remove_patterns |-> <<>>, removal_rules |-> <<>>, replace_patterns |-> <<>>]
With_(options) == [Base EXCEPT !.options = options]
Rule(id, matcher, text, scope) == [id |-> id, matcher |-> matcher, text |-> text, scope |-> scope, enabled |-> TRUE]

Code == <<"x", " ", "<", "-", " ", "function", "(", "a", ")", ";">>
Formula == <<"alpha", " ", "=", " ", "x", " ", "-", " ", "y">>
Bullets == <<"bullet", " ", "bullet", " ", "bullet">>
Running(n) == <<"H", " ", n>>
Lines(ls) == join(ls, <<"\n">>)
Long == Lines(<<Running("2"), <<"a">>, <<"b">>, <<"-", " ", "2", " ", "-">>, <<"x">>, <<"H">>, <<"page", " ", "v">>, <<"2">>>>)
Numbered == Lines(<<Running("1"), <<"a">>, <<"1">>>>)
PageTexts ==
    {<<>>, Numbered, Lines(<<<<"i">>, <<"b", " ", "x">>, <<>>, <<"y">>>>), Long,
     Lines(<<<<"H">>, Code, Code>>), Lines(<<Bullets, Formula, <<"2">>>>)}

Root == <<<<"a">>, <<"b">>>>
Doc(kind, contents) ==
    [kind |-> kind, ocr |-> FALSE, cached |-> FALSE, dir |-> <<>>, stem |-> <<"a">>, hash |-> "#1",
     folder |-> Root, contents |-> contents]
Plain(t) == [text |-> t, pages |-> <<>>, paged |-> FALSE, readable |-> TRUE, warnings |-> <<>>]
Paged(texts) == [text |-> flatten_pdf_page_texts(texts), pages |-> texts, paged |-> TRUE, readable |-> TRUE, warnings |-> <<>>]
Unreadable == [Plain(<<>>) EXCEPT !.readable = FALSE]

Case(config, docs) == [config |-> config, docs |-> docs, limit |-> 2, overwrite |-> FALSE, faults |-> FALSE,
                       existing |-> "none", output |-> <<<<"a">>, <<"x">>>>]

Top == Rule(1, "Literal", <<"H">>, "PageTop")
Bottom == Rule(2, "NormalizedLine", <<"#">>, "PageBottom")
Texts(S, n) == BoundedSeq(S, n) \ {<<>>}
PdfConfigs ==
    {Base,
     With_({"remove_repeated_pdf_headers_footers", "collapse_blank_lines"}),
     With_({"remove_pdf_page_labels", "remove_pdf_symbol_heavy_artifacts"}),
     With_({"remove_pdf_code_like_blocks", "remove_pdf_formula_like_lines"}),
     With_({"remove_standalone_page_numbers", "remove_standalone_roman_page_numbers"}),
     With_({"remove_page_indicators", "remove_page_delimiters"}),
     With_({"remove_isolated_page_markers"}),
     [With_({"join_line_breaks"}) EXCEPT !.removal_rules = <<Top, Bottom>>],
     [With_({"lowercase"}) EXCEPT !.removal_rules =
        <<[Top EXCEPT !.scope = "PageTopOrBottom"], Rule(3, "Literal", <<"x">>, "Anywhere")>>]}
PdfCases ==
    {Case(config, <<Doc("pdf", <<Paged(pages)>>)>>) : config \in PdfConfigs,
        pages \in Texts(PageTexts, 2) \cup Texts({<<>>, Numbered, Long}, 3)}
    \cup {Case(config, <<Doc("pdf", <<Plain(join(pages, BlankLine))>>)>>) :
            config \in PdfConfigs, pages \in Texts(PageTexts, 2)}
    \cup {Case(With_({"extract_html"}), <<[Doc("pdf", <<Paged(<<<<"a", "<br>">>>>)>>) EXCEPT !.ocr = TRUE, !.cached = c]>>) :
            c \in BOOLEAN}

PlainConfigs ==
    {Base, With_({"extract_html", "trim_lines"}), With_({"remove_standalone_page_numbers"}),
     [With_({"lowercase", "collapse_blank_lines"}) EXCEPT !.removal_rules = <<Top>>, !.remove_patterns = <<<<"b">>>>]}
PlainCases ==
    {Case(config, <<Doc(kind, <<Plain(t)>>)>>) : config \in PlainConfigs, kind \in {"text", "html", "docx"},
        t \in BoundedSeq({"H", "a", "b", "<br>", "\n"}, 3)}
    \cup {Case(config, <<Doc(kind, <<Unreadable>>)>>) : config \in PlainConfigs, kind \in {"docx", "pdf"}}

(* Three sources: names that meet after they are made safe, or that are each other's
   numbered names; a folder with the name of a text. *)
Named(stem, dir, n) ==
    [Doc(<<"text", "docx", "html">>[n], <<Plain(<<"a">>), Plain(<<"b">>)>>) EXCEPT
       !.stem = stem, !.dir = dir, !.folder = Root \o dir, !.hash = <<"#1", "#2", "#3">>[n]]
Meeting ==
    {<<Named(<<"a", ":">>, <<>>, 1), Named(<<"a", "_">>, <<>>, 2), Named(<<"a", "_">>, <<>>, 3)>>,
     <<Named(<<"a">>, <<>>, 1), Named(<<"a">>, <<>>, 2), Named(<<"a", "_", "_", "2">>, <<>>, 3)>>,
     <<Named(<<"a", "_", "2">>, <<>>, 1), Named(<<"con">>, <<>>, 2), Named(<<"con", "_">>, <<>>, 3)>>,
     <<Named(<<"a">>, <<>>, 1), Named(<<"b">>, <<<<"a", ".txt">>>>, 2)>>,
     <<Named(<<".">>, <<<<".">>>>, 1), Named(<<"a">>, <<>>, 2)>>}
FileCases ==
    LET asked(docs) == [Case(Base, docs) EXCEPT !.faults = TRUE]
    IN {[asked(docs) EXCEPT !.overwrite = o, !.existing = e] :
          docs \in Meeting, o \in BOOLEAN, e \in {"none", "directory"}}
       \cup {[asked(docs) EXCEPT !.overwrite = TRUE, !.existing = "file"] : docs \in Meeting}
       \cup {[asked(docs) EXCEPT !.overwrite = TRUE, !.existing = "directory", !.output = out] :
               docs \in Meeting, out \in {<<<<"a">>>>, Root, Append(Root, <<".">>), Append(Root, <<"a", ".txt">>)}}

ASSUME FailuresLeaveNothing

MCCases == PdfCases \cup PlainCases \cup FileCases
=============================================================================
