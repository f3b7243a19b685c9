---------------------------- MODULE SurfaceTokens ----------------------------
(***************************************************************************)
(* What searches and collocations read of a text (corpuswright-core        *)
(* analysis/concordance/mod.rs): its words, the keys they are compared     *)
(* by, and the parameters of a query after clamping.                       *)
(*                                                                         *)
(* A surface is a number, so that numbers compare as the strings do; Fold  *)
(* gives its case folding.  A text is a sequence of surfaces and Marks,    *)
(* the tokens that do not count as words.  Words are numbered from 0.      *)
(***************************************************************************)
EXTENDS Integers, Sequences, FiniteSets, SequencesExt, FiniteSetsExt, Functions

CONSTANTS Fold,              \* case_fold_surface
          Mark,
          DefaultWindow, MaxWindow,
          DefaultLimit, MaxLimit,
          DefaultDistributionLimit, MaxDistributionLimit

Surface == DOMAIN Fold
NoKey == <<>>

ASSUME FoldAssumption ==
  /\ \A s \in Surface : s \in Nat \ {0} /\ Fold[s] \in Surface /\ Fold[Fold[s]] = Fold[s]
  /\ Mark \notin Surface

counts_as_word(token) == token # Mark
analysis_word_tokens(text) == SelectSeq(text, counts_as_word)

concordance_key(surface, case_sensitive) == IF case_sensitive THEN surface ELSE Fold[surface]
Keys(surfaces, case_sensitive) ==
  [i \in DOMAIN surfaces |-> concordance_key(surfaces[i], case_sensitive)]

(* A window of words, given as a function on their numbers, shows the keys  *)
(* from its word c on; words that the window lacks match nothing.           *)
MatchesAt(window, c, keys, case_sensitive) ==
  \A k \in DOMAIN keys :
    /\ c + k - 1 \in DOMAIN window
    /\ concordance_key(window[c + k - 1], case_sensitive) = keys[k]

(* The keys occur within the words first..end-1. *)
RangeMatches(window, first, end, keys, case_sensitive) ==
  keys # <<>> /\ \E c \in first..(end - Len(keys)) : MatchesAt(window, c, keys, case_sensitive)

LeftStart(at, window) == IF at < window THEN 0 ELSE at - window
RightEnd(node_end, window, total) == Min({node_end + window, total})

Clamped(value, default, max) == IF value = 0 THEN default ELSE Min({value, max})
concordance_window_tokens(n) == Clamped(n, DefaultWindow, MaxWindow)
concordance_limit(n) == Clamped(n, DefaultLimit, MaxLimit)
concordance_distribution_limit(n) == Clamped(n, DefaultDistributionLimit, MaxDistributionLimit)

(* selection.ids is the excluded set when all documents are selected. *)
Selects(selection, id) == (id \in selection.ids) # selection.all

(* The members of S in the order of Less, a strict order on them. *)
Ordered(S, Less(_, _)) ==
  [r \in 1..Cardinality(S) |-> CHOOSE x \in S : Cardinality({y \in S : Less(y, x)}) = r - 1]

(***************************************************************************)
(* compute_dispersion_from_token_counts, as a fraction <<numerator,        *)
(* denominator>>: half the sum over the documents of the distance between  *)
(* a document's share of the hits and its share of the tokens; documents   *)
(* without a hit are accounted for together.                               *)
(***************************************************************************)
Distance(a, b) == IF a < b THEN b - a ELSE a - b
Total(f) == FoldFunction(LAMBDA a, b : a + b, 0, f)

compute_dispersion(hits, tokens) ==
  LET frequency == Total(hits)
      all == Total(tokens)
      present == {d \in DOMAIN hits : hits[d] > 0}
      difference == [d \in present |-> Distance(hits[d] * all, tokens[d] * frequency)]
      covered == Total([d \in present |-> tokens[d]])
  IN IF frequency = 0 \/ all = 0 THEN <<0, 1>>
     ELSE <<Total(difference) + (all - covered) * frequency, 2 * frequency * all>>

(***************************************************************************)
(* The words a streaming scan keeps of a document (corpuswright-core       *)
(* scan_concordance_document_into_collector and, with the largest span for *)
(* the lookaround, aggregate_collocation_document_streaming): a candidate  *)
(* is looked at once its right context has been read, or the document has  *)
(* ended, and words no later candidate looks at are dropped. window.buffer *)
(* is a function on the numbers of the words kept, which are window.start  *)
(* to window.total - 1.                                                    *)
(***************************************************************************)
NoWords == [total |-> 0, next |-> 0, start |-> 0, buffer |-> [i \in {} |-> 0]]

Pushed(window, word) ==
  [window EXCEPT !.total = @ + 1,
                 !.buffer = [i \in window.start..window.total |->
                               IF i = window.total THEN word ELSE window.buffer[i]]]

(* The candidate's lookaround has been read. *)
Ready(window, length, lookaround) == window.next + length + lookaround <= window.total

(* The candidate fits into the words read. *)
Remaining(window, length) == window.next + length <= window.total

KeepFrom(next, lookaround) == IF next < lookaround THEN 0 ELSE next - lookaround

AdvancedPast(window, keep_from) ==
  LET start == IF window.start < keep_from THEN keep_from ELSE window.start
  IN [window EXCEPT !.next = @ + 1, !.start = start,
                    !.buffer = [i \in start..(window.total - 1) |-> window.buffer[i]]]

Advanced(window, lookaround) == AdvancedPast(window, KeepFrom(window.next + 1, lookaround))
==============================================================================
