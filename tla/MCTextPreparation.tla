------------------------- MODULE MCTextPreparation --------------------------
(* Every short text over small alphabets: white space and line ends, normalised
   characters, inline literals, lines that go as a whole, noise. *)
EXTENDS TextPreparation

Row(kind, lower, bare, chars, alphabetic, digits, upper) ==
    [kind |-> kind, lower |-> lower, plain |-> bare, chars |-> chars, alphabetic |-> alphabetic,
     digits |-> digits, upper |-> upper]
LowerWords == [hyphe |-> 5, nated |-> 5, table |-> 5, abstract |-> 8, page |-> 4, mean |-> 4, sd |-> 2]
MCSign ==
    [c \in {"a", "b", "x", "n", "p", "e"} |-> Row("letter", c, <<c>>, 1, 1, 0, 0)]
    @@ [w \in DOMAIN LowerWords |-> Row("letter", w, <<w>>, LowerWords[w], LowerWords[w], 0, 0)]
    @@ "A" :> Row("letter", "a", <<"A">>, 1, 1, 0, 1)
    @@ "Table" :> Row("letter", "table", <<"Table">>, 5, 5, 0, 1)
    @@ "é" :> Row("letter", "é", <<"e">>, 1, 1, 0, 0)
    @@ "acute" :> Row("mark", "acute", <<>>, 1, 0, 0, 0)
    @@ "fi" :> Row("ligature", "fi", <<"f", "i">>, 1, 1, 0, 0)
    @@ [c \in {"f", "i"} |-> Row("letter", c, <<c>>, 1, 1, 0, 0)]
    @@ "shy" :> Row("invisible", "shy", <<>>, 1, 0, 0, 0)
    @@ [c \in {" ", "\t"} |-> Row("space", c, <<c>>, 1, 0, 0, 0)]
    @@ [c \in {"\n", "\r"} |-> Row("break", c, <<c>>, 1, 0, 0, 0)]
    @@ [c \in {"-", "(", ")", "=", ".", "#", "["} |-> Row("symbol", c, <<c>>, 1, 0, 0, 0)]
    @@ "1" :> Row("digit", "1", <<"1">>, 1, 0, 1, 0)
    @@ "fffd" :> Row("replacement character", "fffd", <<>>, 1, 0, 0, 0)
    @@ "<br>" :> Row("tag", "<br>", <<>>, 4, 2, 0, 0)
    @@ "cid:" :> Row("symbol", "cid:", <<>>, 4, 3, 0, 0)
    @@ "doi:" :> Row("symbol", "doi:", <<>>, 4, 3, 0, 0)
    @@ "http://u" :> Row("url", "http://u", <<>>, 8, 5, 0, 0)
    @@ "m@b.de" :> Row("email", "m@b.de", <<>>, 6, 4, 0, 0)
    @@ "10.1000/x" :> Row("doi", "10.1000/x", <<>>, 9, 1, 6, 0)
MCUnit == DOMAIN MCSign
MCComposed == <<"e", "acute">> :> "é"
MCHeadings == {<<"abstract">>}
MCPageLabels == {<<"page", " ", "#">>}
MCTableHeaders == {"mean", "sd", "n", "p"}

Texts(S, n) == BoundedSeq(S, n)
Alone(S) == {<<t>> : t \in S}
Base == [options |-> {}, remove_patterns |-> <<>>, removal_rules |-> <<>>, replace_patterns |-> <<>>]
Literal(id, text) == [id |-> id, matcher |-> "Literal", text |-> text, scope |-> "Anywhere", enabled |-> TRUE]

Layouts == {{"normalize_whitespace_line_endings"}, {"trim_lines", "collapse_blank_lines"},
            {"join_line_breaks"}, {"repair_wrapped_pdf_line_breaks", "normalize_whitespace_line_endings"}}
LayoutPreparations ==
    {[config |-> [Base EXCEPT !.options = o \cup {"normalize_line_endings"}],
      texts |-> Alone(Texts({"a", " ", "\n", "\r"}, 5)
                      \cup {<<"hyphe", "-">> \o s : s \in Texts({"nated", "A", "\n", "\t"}, 4)})] : o \in Layouts}
EarlyPreparations ==
    {[config |-> [Base EXCEPT !.options = o],
      texts |-> {<<t, <<"shy", "fi", "\n", "shy", "shy">>>> : t \in Texts({"A", "e", "acute", "fi", "shy", "\n"}, 3)}] :
        o \in {{"normalize_line_endings", "expand_ligatures", "remove_invisible_controls", "normalize_unicode",
                "lowercase"},
               {"normalize_line_endings", "remove_invisible_controls", "replace_diacritics"}}}
LiteralPreparations ==
    {[config |-> c, texts |-> Alone(Texts({"a", "b", "x", "A"}, 5))] :
       c \in {[Base EXCEPT !.removal_rules = <<Literal(1, <<"x">>), Literal(2, <<"a", "b">>)>>],
              [Base EXCEPT !.removal_rules = <<Literal(1, <<"b">>), Literal(2, <<"x", "a", "x">>)>>],
              [Base EXCEPT !.removal_rules = <<Literal(1, <<"b", "x">>), Literal(2, <<"a", "b">>)>>],
              [Base EXCEPT !.remove_patterns = <<<<"A">>, <<>>, <<"b", "x">>>>, !.options = {"lowercase"},
                           !.replace_patterns = <<[pattern |-> <<"A", "A">>, replacement |-> <<"A">>]>>,
                           !.removal_rules = <<[Literal(1, <<"a", "\n">>) EXCEPT !.enabled = TRUE],
                               [Literal(2, <<"a">>) EXCEPT !.scope = "WholeLine"],
                               [Literal(3, <<"b">>) EXCEPT !.scope = "WholeLine", !.matcher = "NormalizedLine"]>>]}}
LinePreparations ==
    {[config |-> [Base EXCEPT !.options = ToSet(LineRules)],
      texts |-> {<<t, <<"http://u", "\n", "-", "-", "-", "-", "\n">>>> :
                   t \in {l \o <<"\n", "a", "\n">> : l \in
                     Texts({"-", "1", "(", "=", "a", " ", "fffd"}, 4)
                     \cup {<<w>> \o s : w \in {"http://u", "m@b.de", "doi:", "10.1000/x", "Table", "cid:", "<br>",
                                               "abstract", "page", "mean"},
                                        s \in Texts({" ", "1", "10.1000/x", "sd", "n"}, 3)}}}]}
Dashes == <<"-", "-", "-", "-", "\n">>
ManyPreparations ==
    {[config |-> [Base EXCEPT !.options = ToSet(LineRules)],
      texts |-> {<<Dashes \o t \o Dashes \o Dashes, t \o Dashes>> : t \in {<<>>, <<"a", "\n">>, <<"http://u", "\r", "\n">>}}],
     [config |-> [Base EXCEPT !.removal_rules = <<Literal(1, <<"x">>), Literal(2, <<"a", "b">>)>>],
      texts |-> {<<t, <<"x", "x", "\n", "x", "a", "b">>>> : t \in Texts({"a", "b", "x"}, 3)}]}
MCPreparations == ManyPreparations \cup LayoutPreparations \cup EarlyPreparations \cup LiteralPreparations \cup LinePreparations
=============================================================================
