---------------------------- MODULE MCAnnotationBuild ----------------------------
(***************************************************************************)
(* A project of two documents for TLC. The long text has more tokens than  *)
(* the budget of a wave and two segments, the second of three chunks holds *)
(* a closing delimiter; with the short text it also fills two waves. The   *)
(* calm text has as many words as the short one and all of them occur in   *)
(* the long one, so that one may be annotated under the other's hash.      *)
(***************************************************************************)
EXTENDS AnnotationBuild

CONSTANTS FirstSource    \* the texts the documents start with

word(s) == [surface |-> s, kind |-> "word"]
mark(s) == [surface |-> s, kind |-> "punctuation"]

MCTokensOf ==
  [t \in {"long", "short", "calm", "blank"} |->
     CASE t = "long" -> <<word("sea"), word("wind"), word("was"), mark("."), mark(")"), word("sea")>>
       [] t = "short" -> <<word("was"), mark(".")>>
       [] t = "calm" -> <<word("sea"), mark(".")>>
       [] t = "blank" -> <<>>]
MCTokens == [t \in Text |-> MCTokensOf[t]]

MCLemmaOf ==
  [v \in Version |-> [l \in Language |->
     [s \in {"sea", "wind", "was", ".", ")"} |->
        IF s = "was" /\ l = "en" THEN (IF v = 1 THEN "be" ELSE "was-2") ELSE s]]]

MCDetected == [t \in Text |-> "en"]

MCInit == Init /\ source = FirstSource
MCSpec == MCInit /\ [][Next]_vars
MCFirst == <<"long", "short">>
================================================================================
