---------------------------- MODULE TextProfile -----------------------------
(***************************************************************************)
(* Text as a sequence of characters, what the standard library does with   *)
(* it, and what a line looks like (corpuswright-core text/profile.rs): the *)
(* counts of its characters and tokens, the advisory label a reviewer of   *)
(* repeated artefacts is shown, the reasons for it, and whether the line   *)
(* is noise that the cleaning takes out. Ratios are compared by their      *)
(* numerators.                                                             *)
(*                                                                         *)
(* A unit is a character or a run of characters that no step of the        *)
(* cleaning takes apart: a word, an address, a tag. Sign tells of a unit   *)
(* what the cleaning reads of it.                                          *)
(***************************************************************************)
EXTENDS Integers, Sequences, FiniteSets, SequencesExt, FiniteSetsExt

CONSTANTS Unit,        \* every unit that occurs
          Sign,        \* what is read of a unit
          Composed     \* a letter and a combining mark, and the letter they compose to

Kinds == {"letter", "digit", "space", "break", "symbol", "ligature", "invisible", "mark",
          "replacement character", "tag", "entity", "url", "email", "doi"}

(* `lower` is the unit in lower case; a ligature expands to `plain` and a letter with a
   mark is `plain` without it; the counts are those of its characters. *)
ASSUME SignAssumption ==
    Sign \in [Unit -> [kind: Kinds, lower: Unit, plain: Seq(Unit), chars: Nat \ {0},
                       alphabetic: Nat, digits: Nat, upper: Nat]]

(* The only member of S. *)
The(S) == CHOOSE x \in S : TRUE

Kind(c) == Sign[c].kind
is_whitespace(c) == Kind(c) \in {"space", "break"}
is_decimal_digit(c) == Kind(c) = "digit"
is_alphabetic(c) == Kind(c) \in {"letter", "ligature"}
is_lowercase(c) == is_alphabetic(c) /\ Sign[c].lower = c
Is(t, i, S) == i \in DOMAIN t /\ t[i] \in S

Tally(t, field) == LET sum[n \in 0..Len(t)] == IF n = 0 THEN 0 ELSE sum[n - 1] + Sign[t[n]][field]
                   IN sum[Len(t)]
Indices(t) == [i \in 1..Len(t) |-> i]
From(t, i) == SubSeq(t, i, Len(t))

to_lowercase(t) == [i \in 1..Len(t) |-> Sign[t[i]].lower]

(* Without the members of S at its beginning, or at its end. *)
trim_start_matches(t, S) ==
    LET kept == {i \in 1..Len(t) : t[i] \notin S} IN IF kept = {} THEN <<>> ELSE From(t, Min(kept))
trim_end_matches(t, S) ==
    LET kept == {i \in 1..Len(t) : t[i] \notin S} IN SubSeq(t, 1, IF kept = {} THEN 0 ELSE Max(kept))
trim_matches(t, S) == trim_end_matches(trim_start_matches(t, S), S)
White == {c \in Unit : is_whitespace(c)}
Digits == {c \in Unit : is_decimal_digit(c)}
trim(t) == trim_matches(t, White)

At(t, pattern, i) == SubSeq(t, i, i + Len(pattern) - 1) = pattern
contains(t, pattern) == \E i \in 1..(Len(t) - Len(pattern) + 1) : At(t, pattern, i)

(* The occurrences of any of the patterns from left to right, none over another; the first
   pattern of the list wins at one place. Pairs of a place and the pattern there. *)
match_indices(t, patterns) ==
    LET fits(i) == {k \in 1..Len(patterns) : i + Len(patterns[k]) - 1 <= Len(t) /\ At(t, patterns[k], i)}
        here(i, k) == <<<<i, k>>>>
        from[i \in 1..(Len(t) + 1)] ==
            IF i > Len(t) THEN <<>>
            ELSE IF fits(i) = {} THEN from[i + 1]
            ELSE here(i, Min(fits(i))) \o from[i + Len(patterns[Min(fits(i))])]
    IN from[1]

Substitute(t, patterns, found, replacement) ==
    LET end(k) == IF k = 0 THEN 0 ELSE found[k][1] + Len(patterns[found[k][2]]) - 1
    IN FlattenSeq([k \in 1..Len(found) |-> SubSeq(t, end(k - 1) + 1, found[k][1] - 1) \o replacement])
       \o From(t, end(Len(found)) + 1)
replace(t, pattern, replacement) ==
    Substitute(t, <<pattern>>, match_indices(t, <<pattern>>), replacement)

(* The parts between the occurrences of a separator, one more than there are. *)
SplitAt(t, places, width) ==
    LET from(k) == IF k = 1 THEN 1 ELSE places[k - 1] + width
        to(k) == IF k > Len(places) THEN Len(t) ELSE places[k] - 1
    IN [k \in 1..(Len(places) + 1) |-> SubSeq(t, from(k), to(k))]
split(t, separator) ==
    LET found == match_indices(t, <<separator>>)
    IN SplitAt(t, [k \in 1..Len(found) |-> found[k][1]], Len(separator))
SplitBy(t, S) == SplitAt(t, SelectSeq(Indices(t), LAMBDA i : t[i] \in S), 1)
join(parts, separator) ==
    FlattenSeq([k \in 1..Len(parts) |-> IF k = 1 THEN parts[k] ELSE separator \o parts[k]])
split_whitespace(t) == SelectSeq(SplitBy(t, White), LAMBDA word : word # <<>>)

(* The lines with their ends; the last one only when it is not empty. *)
split_inclusive(t) ==
    LET parts == SplitBy(t, {"\n"})
        whole == [k \in 1..(Len(parts) - 1) |-> Append(parts[k], "\n")]
    IN IF Last(parts) = <<>> THEN whole ELSE Append(whole, Last(parts))

(* Two or more spaces or tabs in a row become one space. *)
SqueezeSpaces(t) ==
    LET in(i) == Is(t, i, {" ", "\t"})
        kept == SelectSeq(Indices(t), LAMBDA i : ~(in(i) /\ in(i - 1)))
    IN [n \in 1..Len(kept) |-> IF in(kept[n]) /\ in(kept[n] + 1) THEN " " ELSE t[kept[n]]]

(* Canonical composition. *)
nfc(t) ==
    LET composes(i) == i \in 1..(Len(t) - 1) /\ <<t[i], t[i + 1]>> \in DOMAIN Composed
        kept == SelectSeq(Indices(t), LAMBDA i : ~composes(i - 1))
    IN [n \in 1..Len(kept) |-> IF composes(kept[n]) THEN Composed[<<t[kept[n]], t[kept[n] + 1]>>]
                               ELSE t[kept[n]]]

(* Canonical decomposition, without the combining marks. *)
strip_diacritics(t) ==
    LET bare(c) == IF Kind(c) = "mark" THEN <<>> ELSE IF Kind(c) = "letter" THEN Sign[c].plain ELSE <<c>>
    IN FlattenSeq([i \in 1..Len(t) |-> bare(t[i])])

(* Boundary punctuation stripped, lower case, runs of digits replaced by #, white space
   collapsed. *)
BoundaryPunctuation == {"-", "[", "]", "(", ")", "{", "}", ".", ",", "*", "/", "_", "|"}
normalize_line_for_repeated_artifact(t) ==
    LET lower == to_lowercase(trim(trim_matches(trim(t), BoundaryPunctuation)))
        hashed(i) == IF ~is_decimal_digit(lower[i]) THEN <<lower[i]>>
                     ELSE IF Is(lower, i - 1, Digits) THEN <<>> ELSE <<"#">>
    IN join(split_whitespace(FlattenSeq([i \in 1..Len(lower) |-> hashed(i)])), <<" ">>)

(***************************************************************************)
(* What a line looks like                                                  *)
(***************************************************************************)
CONSTANTS SECTION_HEADING_KEYS, PAGE_LABEL_KEYS,    \* normalised lines
          TABLE_HEADERS                             \* lower-case words

Operators == {"+", "-", "*", "/", "=", "<", ">"}
Brackets == {"(", ")", "[", "]", "{", "}"}
MathSymbols == {"²", "χ"}
SentenceEnds == {".", "!", "?"}
NumberSigns == {".", ",", "%", "+", "-", "/", ":"}
Variables == {"p", "f", "t", "z", "r"}

CountOf(t, S) == Len(SelectSeq(t, LAMBDA c : c \in S))
HasKind(t, kind) == \E i \in DOMAIN t : Kind(t[i]) = kind
Symbols(t) == Tally(t, "chars") - Tally(t, "alphabetic") - Tally(t, "digits")
              - Len(SelectSeq(t, is_whitespace))

(* The longest run of one unit, white space aside. *)
RunFrom(t, i, n) == i + n - 1 <= Len(t) /\ \A k \in i..(i + n - 1) : t[k] = t[i]
LongestRun(t) == Max({0} \cup {n \in 1..Len(t) : \E i \in 1..Len(t) : RunFrom(t, i, n)})
max_repeated_non_whitespace_char_run(t) ==
    The({LongestRun(solid) : solid \in {SelectSeq(t, LAMBDA c : ~is_whitespace(c))}})

(* From an opening to a closing angle bracket with letters between, or one entity. *)
IsOf(c, kind, sign) == Kind(c) = kind \/ c = sign
is_markup_like_token(text) ==
    \E t \in {trim(text)} :
       /\ t # <<>>
       /\ \/ IsOf(t[1], "tag", "<") /\ IsOf(Last(t), "tag", ">") /\ Tally(t, "chars") <= 80
             /\ Tally(t, "alphabetic") > 0
          \/ Kind(t[1]) = "entity" /\ IsOf(Last(t), "entity", ";") /\ Tally(t, "chars") <= 32
is_cid_like_marker(t) ==
    \E lower \in {to_lowercase(trim(t))} :
       Len(lower) > 1 /\ Head(lower) = "cid:" /\ \A i \in 2..Len(lower) : is_decimal_digit(lower[i])

is_suspicious_token(token) ==
    \E chars \in {Tally(token, "chars")} :
       \/ is_markup_like_token(token)
       \/ is_cid_like_marker(token)
       \/ HasKind(token, "replacement character")
       \/ chars >= 3 /\ Symbols(token) * 2 >= chars
       \/ chars >= 4 /\ max_repeated_non_whitespace_char_run(token) >= 4
       \/ Tally(token, "alphabetic") = 0 /\ Tally(token, "digits") + Symbols(token) > 0

is_numeric_like_token(token) ==
    \E inner \in {trim_matches(token, Brackets \cup {",", ";"})} :
       /\ \E i \in DOMAIN inner : is_decimal_digit(inner[i])
       /\ \A i \in DOMAIN inner : is_decimal_digit(inner[i]) \/ inner[i] \in NumberSigns

NotInWords == {c \in Unit : Kind(c) \in {"symbol", "invisible", "mark", "replacement character"}}
strip_token_for_matching(token) == to_lowercase(trim_matches(token, NotInWords))

(* A variable compared with something, in one token or in two. *)
StatisticalAt(tokens, k, inner) ==
    \/ Is(inner, 1, Variables) /\ (Is(inner, 2, {"="}) \/ (inner[1] = "p" /\ Is(inner, 2, {"<"})))
    \/ inner = <<"p", ">", "=">>
    \/ /\ k < Len(tokens) /\ Head(tokens[k + 1]) \in {"=", "<"}
       /\ \E name \in {strip_token_for_matching(inner)} : Len(name) = 1 /\ name[1] \in Variables
has_statistical_pattern(t) ==
    \E lower \in {to_lowercase(t)} :
       \/ contains(lower, <<"χ", "²">>)
       \/ \E tokens \in {split_whitespace(lower)} : \E k \in DOMAIN tokens :
             \E inner \in {trim_matches(tokens[k], {",", ";", "(", ")", "[", "]"})} : StatisticalAt(tokens, k, inner)

(* A tab, or the second space of a run. *)
count_column_like_separators(t) ==
    Cardinality({i \in DOMAIN t :
        \/ t[i] = "\t"
        \/ t[i] = " " /\ Is(t, i - 1, {" "}) /\ ~Is(t, i - 2, {" "})})

is_table_header(token) == \E word \in {strip_token_for_matching(token)} : Len(word) = 1 /\ word[1] \in TABLE_HEADERS
IsTableRow(t, tokens, numeric) ==
    /\ Len(tokens) >= 2
    /\ \/ Len(tokens) >= 3 /\ \A k \in DOMAIN tokens : is_table_header(tokens[k])
       \/ has_statistical_pattern(t) /\ Len(tokens) >= 4
          /\ \E i \in DOMAIN t : is_decimal_digit(t[i])
       \/ numeric >= 3 /\ numeric * 2 >= Len(tokens)
       \/ /\ Tally(t, "digits") * 100 >= Tally(t, "chars") * 45
          /\ Tally(t, "alphabetic") * 100 < Tally(t, "chars") * 35
          /\ Len(tokens) >= 3
       \/ count_column_like_separators(t) >= 2 /\ numeric >= 2
looks_like_table_or_numeric_row(t) ==
    \E tokens \in {split_whitespace(t)} : \E numeric \in {Len(SelectSeq(tokens, is_numeric_like_token))} :
       IsTableRow(t, tokens, numeric)

HasAny(t, S) == \E i \in DOMAIN t : t[i] \in S
HasKeyword(lower) == \/ Is(lower, 1, {"if", "for", "while"}) /\ Is(lower, 2, {" ", "("})
                     \/ contains(lower, <<" ", "return", " ">>)
looks_like_formula_or_code(t) ==
    \E operators \in {CountOf(t, Operators)}, brackets \in {CountOf(t, Brackets)}, math \in {HasAny(t, MathSymbols)} :
       \/ brackets >= 2 /\ (operators > 0 \/ CountOf(t, {";"}) > 0 \/ \E lower \in {to_lowercase(t)} : HasKeyword(lower))
       \/ CountOf(t, {";"}) > 0 /\ (CountOf(t, {"=", "_"}) > 0 \/ brackets > 0)
       \/ /\ CountOf(t, {"="}) > 0
          /\ operators >= 2 \/ Tally(t, "digits") > 0 \/ CountOf(t, {"_"}) > 0 \/ math
       \/ math /\ (operators > 0 \/ Tally(t, "digits") > 0)

looks_like_markup_or_extraction_noise(t) ==
    \E chars \in {Tally(t, "chars")}, alphabetic \in {Tally(t, "alphabetic")} :
       \/ is_markup_like_token(t)
       \/ is_cid_like_marker(t)
       \/ HasKind(t, "replacement character")
       \/ max_repeated_non_whitespace_char_run(t) >= 4 /\ alphabetic * 4 < chars
       \/ Symbols(t) * 100 >= chars * 65 /\ alphabetic * 5 < chars
       \/ Symbols(t) * 5 >= chars * 4 /\ Len(split_whitespace(t)) <= 3

(* A blank line has a profile without characters. *)
Profile(t, tokens, key) ==
    [chars |-> Tally(t, "chars"), tokens |-> Len(tokens),
     alphabetic |-> Tally(t, "alphabetic"), digits |-> Tally(t, "digits"), symbols |-> Symbols(t),
     token_chars |-> Tally(SelectSeq(t, LAMBDA c : ~is_whitespace(c)), "chars"),
     run |-> max_repeated_non_whitespace_char_run(t),
     suspicious |-> Len(SelectSeq(tokens, is_suspicious_token)),
     sentence |-> CountOf(t, SentenceEnds) > 0,
     heading |-> key \in SECTION_HEADING_KEYS,
     page_label |-> key \in PAGE_LABEL_KEYS,
     table |-> looks_like_table_or_numeric_row(t),
     formula |-> t # <<>> /\ looks_like_formula_or_code(t),
     noise |-> t # <<>> /\ looks_like_markup_or_extraction_noise(t)]
profile_text_line(display) ==
    The(UNION {{Profile(t, tokens, key) : tokens \in {split_whitespace(t)},
                                          key \in {normalize_line_for_repeated_artifact(t)}} :
                 t \in UNION {{nfc(trimmed)} : trimmed \in {trim(display)}}})

(* What the scanner adds to a profile; page edges as a percentage. *)
NoContext == [text_dominant |-> FALSE, heading |-> FALSE, noise |-> FALSE, header_footer |-> FALSE,
              page_edge |-> 0]

classify_text_signal(p, context) ==
    IF p.heading \/ context.heading THEN "LikelySectionHeading"
    ELSE IF p.page_label THEN "LikelyPageLabel"
    ELSE IF p.noise \/ (context.noise /\ p.symbols * 2 >= p.chars /\ p.alphabetic * 10 < p.chars * 3)
    THEN "LikelyMarkupOrExtractionNoise"
    ELSE IF p.table THEN "LikelyTableOrNumericRow"
    ELSE IF p.formula THEN "LikelyFormulaOrCode"
    ELSE IF /\ context.text_dominant /\ ~context.header_footer /\ context.page_edge < 75
            /\ p.alphabetic * 100 >= p.chars * 65 /\ p.symbols * 100 <= p.chars * 15
            /\ p.tokens >= 4 /\ p.token_chars >= 3 * p.tokens
         THEN "LikelyNaturalText" ELSE "Ambiguous"

text_signal_reasons(display, p, label, page_edge) ==
    {r \in {"common_section_heading"} : label = "LikelySectionHeading"}
    \cup {r \in {"page_label_pattern"} : label = "LikelyPageLabel"}
    \cup {r \in {"table_or_numeric_row"} : label = "LikelyTableOrNumericRow"}
    \cup {r \in {"formula_or_code_symbols"} : label = "LikelyFormulaOrCode"}
    \cup {r \in {"mostly_alphabetic", "multi_token_text"} : label = "LikelyNaturalText"}
    \cup (IF label # "LikelyMarkupOrExtractionNoise" THEN {}
          ELSE {r \in {"markup_entity_or_tag"} : is_markup_like_token(display)}
               \cup {r \in {"cid_marker"} : is_cid_like_marker(display)}
               \cup {r \in {"replacement_character_junk"} : HasKind(display, "replacement character")}
               \cup {r \in {"high_symbol_ratio"} : p.symbols * 2 >= p.chars})
    \cup {r \in {"high_digit_ratio"} : p.chars > 0 /\ p.digits * 100 >= p.chars * 35}
    \cup {r \in {"long_repeated_character_run"} : p.run >= 4}
    \cup {r \in {"page_edge_repetition"} : page_edge >= 75}

(* The reasons that decide alone, before anything protects the line. *)
MarkerReasons(p, reasons) ==
    (reasons \cap {"cid_marker"})
    \cup {r \in reasons \cap {"markup_entity_or_tag"} :
             p.chars <= 12 /\ p.tokens <= 3 /\ p.symbols * 4 >= p.chars}

\* Mutant: formulas are not protected.
ProtectedButFormulas(p) ==
    \/ p.heading \/ p.page_label \/ p.table
    \/ p.alphabetic * 2 >= p.chars
    \/ p.sentence /\ p.alphabetic * 4 >= p.chars
(* What protects a line from the other reasons. *)
Protected(p) ==
    \/ p.heading \/ p.page_label \/ p.table \/ p.formula
    \/ p.alphabetic * 2 >= p.chars
    \/ /\ p.tokens >= 2 /\ p.alphabetic * 100 >= p.chars * 35
       /\ p.token_chars >= 2 * p.tokens /\ p.suspicious * 2 < p.tokens
    \/ p.sentence /\ p.alphabetic * 4 >= p.chars

(* The reasons to remove the line; none keep it. *)
obvious_extraction_noise_decisive_reasons(p, reasons) ==
    LET bare == p.alphabetic * 10 <= p.chars
        symbolic == p.symbols * 2 >= p.chars
    IN IF p.chars = 0 THEN {}
       ELSE IF MarkerReasons(p, reasons) # {} THEN MarkerReasons(p, reasons)
       ELSE IF Protected(p) \/ ~bare THEN {}
       ELSE {r \in reasons : r = "replacement_character_junk" /\ symbolic}
            \cup {r \in reasons : r = "long_repeated_character_run" /\ symbolic}
            \cup {r \in {"very_high_symbol_ratio"} : p.chars >= 4 /\ p.symbols * 100 >= p.chars * 85}
            \cup {r \in {"suspicious_symbol_tokens"} :
                     p.chars >= 4 /\ p.tokens <= 3 /\ p.suspicious * 4 >= 3 * p.tokens /\ symbolic}
=============================================================================
