------------------------ MODULE MCRepeatedArtefacts ------------------------
(* Two files of a small vocabulary: headers in several spellings, numbered page
   labels, numbers, symbols and inline patterns. *)
EXTENDS RepeatedArtefactScan, TLC

Row(trim0, lower, key, chars, alphabetic, digits, symbols, inline) ==
    [trim |-> trim0, lower |-> lower, key |-> key, early |-> lower, chars |-> chars,
     alphabetic |-> alphabetic, digits |-> digits, symbols |-> symbols, inline |-> inline]
Plain(t, lower, key, letters) == Row(t, lower, key, letters, letters, 0, 0, <<>>)

MCAttr ==
    "" :> Row("", "", "", 0, 0, 0, 0, <<>>)
    @@ "Head" :> Plain("Head", "head", "head", 4)
    @@ " Head" :> [Plain("Head", "head", "head", 4) EXCEPT !.early = "head"]
    @@ "HEAD" :> Plain("HEAD", "head", "head", 4)
    @@ "head" :> Plain("head", "head", "head", 4)
    @@ "body" :> Plain("body", "body", "body", 4)
    @@ "Page 1" :> Row("Page 1", "page 1", "page #", 6, 4, 1, 0, <<>>)
    @@ "Page 2" :> Row("Page 2", "page 2", "page #", 6, 4, 1, 0, <<>>)
    @@ "page 1" :> Row("page 1", "page 1", "page #", 6, 4, 1, 0, <<>>)
    @@ "page 2" :> Row("page 2", "page 2", "page #", 6, 4, 1, 0, <<>>)
    @@ "page #" :> Row("page #", "page #", "page #", 6, 4, 0, 1, <<>>)
    @@ "12" :> Row("12", "12", "#", 2, 0, 2, 0, <<>>)
    @@ "#" :> Row("#", "#", "#", 1, 0, 0, 1, <<>>)
    @@ "**" :> Row("**", "**", "", 2, 0, 0, 2, <<>>)
    @@ "[i]" :> Row("[i]", "[i]", "i", 3, 1, 0, 2, <<>>)
    @@ "i" :> Plain("i", "i", "i", 1)
    @@ "x" :> Plain("x", "x", "x", 1)
    @@ "x i" :> Row("x i", "x i", "x i", 3, 2, 0, 0, <<>>)
    @@ "x [i]" :> Row("x [i]", "x [i]", "x i", 5, 2, 0, 2,
                      <<[pattern |-> "[i]", before |-> "x", after |-> ""]>>)

MCText == DOMAIN MCAttr
MCTextOrder == LET order == <<"Page 2", "x", "Head", "#", "[i]", "body", "**", "HEAD", "page #", "i",
                              "12", "", "page 1", "head", " Head", "x i", "Page 1", "x [i]", "page 2">>
               IN [t \in MCText |-> CHOOSE n \in DOMAIN order : order[n] = t]
MCLn == (0 :> 0) @@ <<7, 11, 14, 16, 18, 19, 21, 22, 23, 24, 25, 26, 26, 27>>

Paged(pages) == from_pages(pages)
Flat(text) == from_flat_text_as_single_page(text)
MCDocuments ==
    {Paged(<<<<"Head", "body", "**", "12", "Head", "body", "Page 1">>, <<"HEAD", "body">>>>),
     Paged(<<<<"Head", "Page 2">>, <<"12", "x [i]", "Head">>>>),
     Flat(<<" Head", "body", "", "Head", "x [i]", "Page 1">>)}
MCRequests == {<<>>, <<1>>, <<2, 1>>}
MCRewrites == {[status |-> "Read", document |-> Paged(<<<<"Head", "Page 2">>, <<"12", "x [i]", "Head">>>>)]}

Classes == {"TextDominant", "MixedTextNumbers", "NumericDominant", "SymbolNoiseDominant"}
Base == [exact |-> TRUE, normalized |-> TRUE, inline |-> TRUE, two |-> TRUE, three |-> FALSE,
         classes |-> Classes, min_line_chars |-> 0, max_line_chars |-> 20, ceiling |-> 400,
         min_occurrences |-> 2, min_files |-> 1, max_candidates |-> NoLimit, max_examples |-> 1,
         processed |-> FALSE, normalises |-> FALSE, rules |-> <<>>]
HeadAtTop == [id |-> <<>>, matcher |-> "Literal", text |-> <<"Head">>, scope |-> "PageTop",
              enabled |-> TRUE]
MCConfigs ==
    {Base,
     [Base EXCEPT !.max_candidates = 2, !.three = TRUE, !.min_files = 2,
                  !.min_occurrences = 3],
     [Base EXCEPT !.max_candidates = 1, !.inline = FALSE, !.two = FALSE,
                  !.min_occurrences = 3],
     [Base EXCEPT !.exact = FALSE, !.classes = {"TextDominant"}, !.min_line_chars = 3,
                  !.normalises = TRUE],
     [Base EXCEPT !.ceiling = 36, !.two = FALSE, !.max_candidates = 2],
     [Base EXCEPT !.processed = TRUE, !.rules = <<HeadAtTop>>, !.two = FALSE]}
=============================================================================
