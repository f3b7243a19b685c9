----------------------------- MODULE PdfCleanup -----------------------------
(***************************************************************************)
(* What is taken out of the text of a PDF before it is cleaned: headers    *)
(* and footers that repeat, page labels, lines of symbols, blocks of code  *)
(* and formulas. A line that is kept is kept as it is.                     *)
(***************************************************************************)
EXTENDS PageCleaning

CONSTANTS GraphicalMarkers,     \* bullets, boxes and triangles
          GreekOrMath,          \* Greek letters and mathematical operators
          NotAscii              \* characters of more than one byte

(***************************************************************************)
(* Lines of symbols                                                        *)
(***************************************************************************)
is_noise_symbol(c) == c \in GraphicalMarkers \cup {".", "*", "+", "-", "_", "|", "~", "^", "=", "°"}
is_alphanumeric(c) == is_alphabetic(c) \/ Sign[c].digits > 0

(* At least seven characters, mostly symbols, at most one word, and then markers, one
   symbol that makes up the line, or a run of it. *)
MostlySymbols(t, solid) ==
    LET chars == Tally(solid, "chars")
        symbols == SelectSeq(solid, LAMBDA c : ~is_alphanumeric(c))
        words == SelectSeq(split_whitespace(t), LAMBDA w : \E i \in DOMAIN w : is_alphanumeric(w[i]))
        run(i) == i + 3 <= Len(solid) /\ ~is_alphanumeric(solid[i]) /\ \A k \in i..(i + 3) : solid[k] = solid[i]
    IN /\ Tally(t, "chars") >= 7
       /\ Symbols(solid) * 10 >= chars * 7 /\ Tally(solid, "alphabetic") * 5 <= chars
       /\ Len(words) <= 1
       /\ \/ CountOf(t, GraphicalMarkers) >= 5
          \/ \E c \in ToSet(symbols) : CountOf(symbols, {c}) * 10 >= chars * 7
          \/ \E i \in DOMAIN solid : run(i)
is_symbol_heavy_artifact(line) ==
    LET judged(t, solid) == /\ solid # <<>>
                            /\ (\A i \in DOMAIN solid : is_noise_symbol(solid[i])) \/ MostlySymbols(t, solid)
    IN The({judged(t, SelectSeq(t, LAMBDA c : ~is_whitespace(c))) : t \in {trim(line)}})

(***************************************************************************)
(* Headers, footers and page labels                                        *)
(***************************************************************************)
Punctuation == Dashes \cup {"[", "]", "(", ")", "{", "}", ".", ",", "*", "/", "\\", "_", "|", "bullet", "°"}
normalize_candidate_line(t) ==
    LET lower == to_lowercase(trim(trim_matches(trim(t), Punctuation)))
        hashed(i) == IF ~is_decimal_digit(lower[i]) THEN <<lower[i]>>
                     ELSE IF Is(lower, i - 1, Digits) THEN <<>> ELSE <<"#">>
    IN join(split_whitespace(FlattenSeq([i \in 1..Len(lower) |-> hashed(i)])), <<" ">>)

(* A canonical Roman numeral with any number of thousands. *)
CanonicalNumerals == {RomanNumerals[n] : n \in 0..999}
IsRoman(t) == t # <<>> /\ trim_start_matches(to_lowercase(t), {"m"}) \in CanonicalNumerals
IsPageNumber(t) == IsArabic(t) \/ IsRoman(t)

PageOfPages(t) ==
    \E bare \in {IF Is(t, 1, {"page"}) /\ Is(t, 2, White) THEN trim(Tail(t)) ELSE t} : \E i \in DOMAIN bare :
       /\ bare[i] \in {"/", "of"} /\ is_decimal_digit(bare[1]) /\ is_decimal_digit(Last(bare))
       /\ IsArabic(trim(SubSeq(bare, 1, i - 1))) /\ IsArabic(trim(From(bare, i + 1)))
Framed(t) ==
    Len(t) > 2 /\ t[1] \in Dashes /\ Last(t) \in Dashes /\ \E inner \in {trim(Tail(Front(t)))} : IsPageNumber(inner)
Worded(t) == Is(t, 1, {"page"}) /\ Is(t, 2, White) /\ \E number \in {trim(Tail(t))} : IsPageNumber(number)
Dotted(t) == Is(t, 1, {"p"}) /\ Is(t, 2, {"."}) /\ IsArabic(trim(From(t, 3)))
is_page_label(line) ==
    \E t \in {trim(line)} :
       /\ t # <<>>
       /\ \/ is_isolated_page_marker_line(t) \/ IsPageNumber(t) \/ Framed(t)
          \/ \E lower \in {to_lowercase(t)} : Worded(lower) \/ Dotted(lower) \/ PageOfPages(lower)

(***************************************************************************)
(* Code and formulas, by scores                                            *)
(***************************************************************************)
AsciiPunctuation == {c \in Unit : Kind(c) = "symbol"} \ NotAscii
Bytes(t) == Tally(t, "chars") + CountOf(t, NotAscii)
Stripped(token) == trim_matches(token, AsciiPunctuation)
IsProse(word) == Bytes(word) >= 2 /\ \A i \in DOMAIN word : is_alphabetic(word[i]) \/ word[i] \in {"-", "'"}
Points(condition, n) == IF condition THEN n ELSE 0
AnyOf(t, patterns) == \E p \in patterns : contains(t, p)

has_function_call(t) == \E i \in 1..(Len(t) - 1) : is_alphabetic(t[i]) /\ t[i + 1] = "("

is_extremely_code_like_single_line(line) ==
    LET judged(t, tokens) ==
            LET prose == Len(SelectSeq(tokens, LAMBDA w : IsProse(Stripped(w))))
                indicators == Points(AnyOf(t, {<<"<", "-">>, <<"|", ">">>, <<"%", ">", "%">>, <<":", ":">>}), 2)
                              + Points(AnyOf(t, {<<"[", "[">>, <<"]", "]">>, <<"$">>}), 2)
                              + Points(has_function_call(t), 1) + Points(Last(t) = ";", 1)
            IN indicators >= 3 \/ (indicators = 2 /\ prose * 5 < Len(tokens))
    IN \E t \in {trim(line)} : Tally(t, "chars") >= 15 /\ judged(t, split_whitespace(t))

(* What the scores are computed from. *)
LineTraits(t, tokens) ==
    LET one == {<<"a">>, <<"A">>, <<"i">>, <<"I">>}
        words == [k \in 1..Len(tokens) |-> Stripped(tokens[k])]
    IN [text |-> t, tokens |-> tokens, words |-> words,
        prose |-> Len(SelectSeq(words, LAMBDA w : w \in one \/ IsProse(w))),
        variables |-> Len(SelectSeq(words, LAMBDA w : w \notin one /\ Bytes(w) = 1 /\ is_alphabetic(w[1]))),
        calls |-> has_function_call(t), greek |-> ToSet(t) \cap GreekOrMath # {},
        signs |-> CountOf(t, {"=", "+", "-", "*", "/", "<", ">", "~", "±", "×", "÷"})]
MoreThan(x, percent) == x.prose * 100 > percent * Len(x.tokens)
LessThan(x, percent) == x.prose * 100 < percent * Len(x.tokens) /\ Len(x.tokens) >= 2

ProseScore(x) ==
    x.prose * 3 + Points(MoreThan(x, 70), 6) + Points(MoreThan(x, 90), 6)
    + Points(Is(to_lowercase(x.text), 1, {"figure", "table", "section", "chapter"}), 6)
    + Points(x.text[1] \in {"bullet", "-", "*"} /\ x.prose > 0, 5)

Keywords == {"for", "while", "if", "else", "function", "return", "def", "class", "lambda", "let", "mut",
             "library", "import", "from"}
CodeScore(x) ==
    LET brackets == CountOf(x.text, {"{", "}", "[", "]"}) > 0
        keyword(k) == \/ Len(x.words[k]) = 1 /\ x.words[k][1] \in Keywords
                      \/ Is(x.tokens[k], 1, Keywords) /\ Is(x.tokens[k], 2, {"("})
    IN Points(contains(x.text, <<"<", "-">>), 5) + Points(contains(x.text, <<":", "=">>), 5)
       + Points(contains(x.text, <<"=", ">">>), 3) + Points(contains(x.text, <<"|", ">">>), 5)
       + Points(contains(x.text, <<"%", ">", "%">>), 5) + Points(contains(x.text, <<":", ":">>), 4)
       + Points(contains(x.text, <<"$">>), 3) + Points(x.calls, 3) + Points(x.calls /\ x.prose = 0, 3)
       + Points(brackets, 2) + Points(AnyOf(x.text, {<<"[", "[">>, <<"]", "]">>}), 3)
       + 4 * Len(SelectSeq(Indices(x.tokens), keyword)) + Points(Last(x.text) = ";", 3)
       + Points(LessThan(x, 20), 4) - Points(MoreThan(x, 70), 6)

FormulaScore(x) ==
    LET named == {<<"H", "0">>, <<"H", "1">>, <<"E", "[">>, <<"Var", "(">>, <<"Pr", "(">>}
        probability(k) == Is(x.tokens[k], 1, {"p", "P", "Pr"}) /\ Is(x.tokens[k], 2, {"("})
    IN Points(x.greek, 4) + Points(x.signs > 0, 3) + Points(AnyOf(x.text, named), 5)
       + 3 * Len(SelectSeq(Indices(x.tokens), probability)) + Points(x.variables > 0, 2)
       + (IF LessThan(x, 20) THEN 4 ELSE Points(LessThan(x, 40), 2)) - Points(MoreThan(x, 70), 6)

(* Eight symbol points and four fifths of the line. *)
SymbolHeavy(x) == Symbols(x.text) * 2 + Points(Symbols(x.text) * 10 > Tally(x.text, "chars") * 7, 6) >= 8
                  /\ Symbols(x.text) * 5 > Tally(x.text, "chars") * 4

Decision(x, prose, code, formula) ==
    LET rest == prose - Points(code >= 5, 5) - Points(formula >= 5, 5)
    IN IF prose >= 8 /\ MoreThan(x, 50) THEN "Prose"
       ELSE IF code >= 5 /\ code > formula /\ code > rest THEN "CodeLike"
       ELSE IF formula >= 5 /\ formula > code /\ formula > rest
       THEN IF \/ x.prose * 10 < 3 * Len(x.tokens) \/ x.signs >= 2
               \/ x.greek /\ x.prose * 2 < Len(x.tokens)
            THEN "FormulaLike" ELSE "Ambiguous"
       ELSE IF SymbolHeavy(x) THEN "SymbolHeavy" ELSE "Ambiguous"

classify_pdf_line(line) ==
    LET ticks(t) == \A i \in DOMAIN t : is_whitespace(t[i]) \/ is_decimal_digit(t[i]) \/ t[i] \in {".", "-", "+"}
        scored(x) == Decision(x, ProseScore(x), CodeScore(x), FormulaScore(x))
        kind(t) == IF t = <<>> THEN "Ambiguous" ELSE IF ticks(t) THEN "Prose"
                   ELSE The({scored(x) : x \in {LineTraits(t, split_whitespace(t))}})
    IN The({kind(t) : t \in {trim(line)}})

(***************************************************************************)
(* The pages of a PDF                                                      *)
(***************************************************************************)
from_cleaning_config(config) ==
    LET on(S) == config.options \cap S # {}
    IN [headers |-> on({"remove_repeated_pdf_headers_footers"}),
        labels |-> on({"remove_pdf_page_labels", "remove_isolated_page_markers"}),
        symbols |-> on({"remove_pdf_symbol_heavy_artifacts", "remove_obvious_extraction_noise"}),
        code |-> on({"remove_pdf_code_like_blocks"}), formulas |-> on({"remove_pdf_formula_like_lines"})]

InZone(i, page) == is_page_top(i, Len(page)) \/ is_page_bottom(i, Len(page))
EdgeKeys(page) == {normalize_candidate_line(page[i]) : i \in {k \in DOMAIN page : InZone(k, page)}} \ {<<>>}

(* Keys at the edges of three pages and half of all of them. *)
RepeatedPatterns(pages) ==
    LET keys == [p \in 1..Len(pages) |-> EdgeKeys(pages[p])]
        threshold == Max({3, (Len(pages) + 1) \div 2})
        frequent(f) == {key \in UNION ToSet(f) : Cardinality({p \in DOMAIN f : key \in f[p]}) >= threshold}
    IN IF Len(pages) < 3 THEN {} ELSE UNION {frequent(f) : f \in {keys}}

(* Why a line goes, or "kept". *)
LineFate(page, i, options, patterns) ==
    IF InZone(i, page) /\ normalize_candidate_line(page[i]) \in patterns THEN "header"
    ELSE IF InZone(i, page) /\ options.labels /\ \E line \in {page[i]} : is_page_label(line) THEN "label"
    ELSE IF options.symbols /\ \E line \in {page[i]} : is_symbol_heavy_artifact(line) THEN "symbols" ELSE "kept"

(* The lines of code in blocks of two or more and single ones beyond doubt, and formulas. *)
CodeAndFormulas(page, kinds, options) ==
    LET code(i) == i \in DOMAIN page /\ kinds[i] = "CodeLike"
    IN {i \in DOMAIN page :
          \/ /\ options.code /\ code(i)
             /\ code(i - 1) \/ code(i + 1) \/ is_extremely_code_like_single_line(page[i])
          \/ options.formulas /\ kinds[i] = "FormulaLike"}

(* How many runs of neighbours a set of lines is. *)
Blocks(S) == Cardinality({i \in S : i - 1 \notin S})
Picked(page, S) == LET kept == SelectSeq(Indices(page), LAMBDA i : i \in S)
                   IN [n \in 1..Len(kept) |-> page[kept[n]]]

Removed(S) == [lines |-> Cardinality(S), blocks |-> Blocks(S)]
WithFate(fates, why) == {i \in DOMAIN fates : fates[i] = why}
(* `fates` of the lines of the page; of those kept, their `kinds` and the ones `gone` after. *)
PageOutcome(page, fates, kept, kinds, gone) ==
    [text |-> trim(join(Picked(kept, DOMAIN kept \ gone), Break)),
     keys |-> {normalize_candidate_line(page[i]) : i \in WithFate(fates, "header")},
     labels |-> WithFate(fates, "label") # {},
     symbols |-> Removed(WithFate(fates, "symbols")),
     code |-> Removed({i \in gone : kinds[i] = "CodeLike"}),
     formulas |-> Cardinality({i \in gone : kinds[i] = "FormulaLike"})]
KindsOf(page, options) ==
    [i \in 1..Len(page) |-> IF options.code \/ options.formulas
                            THEN The({classify_pdf_line(line) : line \in {page[i]}}) ELSE "Ambiguous"]
CleanedPage(page, options, patterns) ==
    The(UNION {UNION {UNION {{PageOutcome(page, fates, kept, kinds, gone) :
                                gone \in {CodeAndFormulas(kept, kinds, options)}} :
                               kinds \in {KindsOf(kept, options)}} :
                        kept \in {Picked(page, WithFate(fates, "kept"))}} :
                 fates \in {[i \in 1..Len(page) |-> LineFate(page, i, options, patterns)]}})

Warnings(pages) ==
    LET with(trait(_)) == {p \in DOMAIN pages : trait(pages[p])}
        sum(S, f(_)) == FoldSet(LAMBDA p, n : n + f(pages[p]), 0, S)
        warning(what, S, n, blocks) ==
            IF S = {} THEN <<>>
            ELSE << [what |-> what, pages |-> Cardinality(S), lines |-> n, blocks |-> blocks] >>
        headers == with(LAMBDA x : x.keys # {})
        symbols == with(LAMBDA x : x.symbols.lines > 0)
        code == with(LAMBDA x : x.code.lines > 0)
        formulas == with(LAMBDA x : x.formulas > 0)
    IN warning("headers", headers, Cardinality(UNION {pages[p].keys : p \in headers}), 0)
       \o warning("labels", with(LAMBDA x : x.labels), 0, 0)
       \o warning("symbols", symbols, sum(symbols, LAMBDA x : x.symbols.lines), sum(symbols, LAMBDA x : x.symbols.blocks))
       \o warning("code", code, sum(code, LAMBDA x : x.code.lines), sum(code, LAMBDA x : x.code.blocks))
       \o warning("formulas", formulas, sum(formulas, LAMBDA x : x.formulas), 0)

flatten_pdf_page_texts(texts) == join(SelectSeq(texts, LAMBDA t : trim(t) # <<>>), BlankLine)

\* Mutant: pages of which nothing is left are dropped.
OnlyFullPages(pages, options, reliable) ==
    LET patterns == IF options.headers /\ ~reliable THEN RepeatedPatterns(pages) ELSE {}
        cleaned == [p \in 1..Len(pages) |-> CleanedPage(pages[p], options, patterns)]
        full == SelectSeq(cleaned, LAMBDA page : page.text # <<>>)
        texts == [p \in 1..Len(full) |-> full[p].text]
    IN [text |-> flatten_pdf_page_texts(texts), warnings |-> Warnings(cleaned), pages |-> texts]
clean_pdf_page_lines(pages, options, reliable) ==
    The(UNION {UNION {{[text |-> flatten_pdf_page_texts(texts), warnings |-> Warnings(cleaned), pages |-> texts] :
                         texts \in {[p \in 1..Len(cleaned) |-> cleaned[p].text]}} :
                        cleaned \in {[p \in 1..Len(pages) |->
                                        The({CleanedPage(page, options, patterns) : page \in {pages[p]}})]}} :
                 patterns \in {IF options.headers /\ ~reliable THEN RepeatedPatterns(pages) ELSE {}}})

(* From flat text, where blank lines part the pages, and from the pages themselves. *)
clean_extracted_pdf_text(t, config) ==
    The(UNION {{clean_pdf_page_lines(pages, options, FALSE) :
                  pages \in UNION {{[p \in 1..Len(parts) |-> lines(parts[p])]} : parts \in {split(t, BlankLine)}}} :
                 options \in {from_cleaning_config(config)}})
clean_extracted_pdf_pages_and_text(texts, config) ==
    The({clean_pdf_page_lines(pages, options, TRUE) :
           pages \in {[p \in 1..Len(texts) |-> lines(texts[p])]}, options \in {from_cleaning_config(config)}})
=============================================================================
