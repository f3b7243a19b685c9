---------------------------- MODULE AnnotationBuild ----------------------------
(***************************************************************************)
(* The annotation cache of a project: the builds that annotate a selection *)
(* of its documents and write the layer, salvaging what an earlier layer   *)
(* holds (corpuswright-core analysis/annotation_build.rs, annotation/      *)
(* cache.rs; desktop features/analysis/commands.rs).                       *)
(*                                                                         *)
(* A build reads its documents twice: once to make the surface corpus, or  *)
(* it borrows the session's, and once to annotate them. In between, users  *)
(* edit texts and languages, other builds write the same cache and the     *)
(* process may end. Progress reports only read the counters.               *)
(***************************************************************************)
EXTENDS AnnotationLayers, AnnotationCacheFile

CONSTANTS Document,         \* the records, numbered in the order of their paths
          NoLanguage,       \* no override
          DetectedLanguage, \* DetectedLanguage[t]: what detection says of t
          MaxEdits          \* bound on edits, overrides, session builds and restarts

ASSUME DocumentAssumption == Document \subseteq Nat /\ IsFiniteSet(Document)
ASSUME DetectionAssumption == DetectedLanguage \in [Text -> Language]

VARIABLES source,           \* source[d]: the text a load of d returns
          override,         \* override[d]: the language set for d
          version,          \* the version of the bundled models
          session,          \* the corpus of the analysis session
          build,            \* build[b]: what build b knows
          current,          \* the build that holds the cancellation slot
          edits,            \* counts MaxEdits
          seen              \* history: seen[d], the texts d has had; no step reads it

worldVars == <<source, override, version, session, edits, seen>>
jobVars == <<build, current>>

(***************************************************************************)
(* Corpora and manifests.                                                  *)
(***************************************************************************)
(* What the commands may be asked for: some of the records. *)
Selections == SUBSET Document \ {{}}

LanguageOf(text, chosen) == IF chosen = NoLanguage THEN DetectedLanguage[text] ELSE chosen

Ascending(S) == [i \in 1..Cardinality(S) |-> CHOOSE d \in S : Cardinality({e \in S : e < d}) = i - 1]

(* build_analysis_corpus, as far as the annotation reads its result: the   *)
(* usable documents of the selection in path order.                        *)
SurfaceCorpus(selection, over) ==
  [selection |-> selection,
   documents |->
     LET usable == Ascending({d \in selection : source[d] # Blank})
     IN [i \in DOMAIN usable |->
           [path |-> usable[i], text |-> source[usable[i]],
            language |-> LanguageOf(source[usable[i]], over[usable[i]]),
            overridden |-> over[usable[i]] # NoLanguage]]]

NoCorpus == [selection |-> {}, documents |-> <<>>]

(* validate_reusable_surface_corpus: the session's corpus was built from   *)
(* as many records as are asked for, its documents are among them, and     *)
(* their overrides are those it was built with. The texts are not looked   *)
(* at, nor are the records that gave no document.                          *)
Reusable(corpus, selection, over) ==
  /\ Cardinality(corpus.selection) = Cardinality(selection)
  /\ \A i \in DOMAIN corpus.documents :
        LET document == corpus.documents[i] IN
        /\ TokenCount[document.text] > 0
        /\ document.path \in selection
        /\ document.overridden <=> over[document.path] # NoLanguage
        /\ document.overridden => document.language = over[document.path]

Texts(documents) == [i \in DOMAIN documents |-> documents[i].text]
(* The sum of a function to numbers: so many things in all. *)
SumOver(f) == Cardinality(UNION {{i} \X (1..f[i]) : i \in DOMAIN f})
TokensTotal(documents) == SumOver([i \in DOMAIN documents |-> TokenCount[documents[i].text]])

(* build_expected_manifest, build_annotation_manifest: the documents with  *)
(* their hashes and languages, the vocabulary, the models.                 *)
Manifest(corpus, over) ==
  [documents |-> corpus.documents,
   terms |-> Vocabulary(Texts(corpus.documents)),
   overrides |-> [d \in corpus.selection |-> over[d]],
   model |-> version]

(* Every document of a manifest annotated on its own as one of the texts,  *)
(* one chunk after the other (annotate_annotation_document, the path       *)
(* without waves).                                                         *)
DocumentCounts(m, language, text) ==
  IF Chunks[text] = <<>> THEN NoCounts ELSE CountsOf[m][language][text][Range_(1, Len(Chunks[text]))]

CountsAs(m, i, t) == DocumentCounts(m.model, m.documents[i].language, t)

SequentialLayer(m, texts) ==
  [i \in DOMAIN m.documents |->
     [path |-> m.documents[i].path,
      counts |-> ByTermId(CountsAs(m, i, texts[i]), m.terms)]]

(* load_annotation_layer_cache for the manifest m: a file that parses,     *)
(* whose ids are in range and whose manifest is m.                         *)
Valid(e) ==
  \A i \in DOMAIN e.layer : \A k \in DOMAIN e.layer[i].counts : k[1] \in DOMAIN e.manifest.terms
Readable == Parsed(final) # None /\ Valid(Parsed(final))
Ready(m) == Readable /\ Parsed(final).manifest = m

(***************************************************************************)
(* A build.                                                                *)
(***************************************************************************)
Phases == {"not begun", "surface", "cache", "salvage", "inputs", "annotating", "writing",
           "ended"}
Outcomes == {"none", "Completed", "Reused", "Cancelled", "Failed", "Lost"}

NoManifest == [documents |-> <<>>, terms |-> <<>>, overrides |-> <<>>, model |-> 0]

NotBegun ==
  [phase |-> "not begun", outcome |-> "none", cancel |-> FALSE, over |-> <<>>,
   borrowed |-> FALSE,       \* the corpus is the session's
   corpus |-> NoCorpus, manifest |-> NoManifest,
   salvaging |-> FALSE,      \* an earlier layer was read
   done |-> <<>>,            \* done[i]: the counts of document i, for those that have them
   inputs |-> <<>>,          \* the documents to annotate
   next |-> 1,               \* next_input
   wave |-> <<>>,            \* the staged inputs
   segment |-> 0,            \* the segments of a long document that are done
   partial |-> NoCounts,     \* the counts they gave
   credited |-> 0,           \* the words credited for them
   docs_done |-> 0, tokens_done |-> 0]

(* What is left of a build that has returned. *)
Ended(b, outcome) == [NotBegun EXCEPT !.phase = "ended", !.outcome = outcome]

Set(b, value) == build' = [build EXCEPT ![b] = value]
End(b, outcome) == Set(b, Ended(b, outcome))
At(b, phase) == build[b].phase = phase

Init ==
  /\ source \in [Document -> Text]
  /\ override = [d \in Document |-> NoLanguage]
  /\ version = CHOOSE v \in Version : \A w \in Version : v <= w
  /\ session \in {NoCorpus} \cup {SurfaceCorpus(selection, override) : selection \in Selections}
  /\ build = [b \in Builds |-> NotBegun]
  /\ current = None
  /\ edits = 0
  /\ seen = [d \in Document |-> {source[d]}]
  /\ FileInit

(* build_annotation_cache_command: the selection and the overrides are     *)
(* read, the session's corpus is taken, the build takes the slot and the   *)
(* build before it is cancelled.                                           *)
Begin(b, selection) ==
  /\ At(b, "not begun")
  /\ \A c \in Builds : c < b => ~At(c, "not begun")
  /\ build' = [c \in Builds |->
        IF c = b
        THEN [NotBegun EXCEPT
                !.phase = "surface",
                !.over = [d \in selection |-> override[d]],
                !.borrowed = Reusable(session, selection, override),
                !.corpus = [selection |-> selection,
                             documents |-> IF Reusable(session, selection, override)
                                           THEN session.documents ELSE <<>>]]
        ELSE IF c = current THEN [build[c] EXCEPT !.cancel = TRUE] ELSE build[c]]
  /\ current' = b
  /\ UNCHANGED <<worldVars, fileVars>>

(* cancel_annotation_cache_build_command. *)
CancelCurrent ==
  /\ current # None /\ ~build[current].cancel
  /\ Set(current, [build[current] EXCEPT !.cancel = TRUE])
  /\ UNCHANGED <<worldVars, fileVars, current>>

(* annotation.finish, after the task returned. *)
Finish(b) ==
  /\ At(b, "ended") /\ current = b
  /\ current' = None
  /\ UNCHANGED <<worldVars, fileVars, build>>

(* ensure_annotation_not_cancelled, wherever it is asked. *)
StopIfCancelled(b) ==
  /\ build[b].phase \in {"surface", "salvage", "inputs", "annotating"}
  /\ build[b].cancel
  /\ End(b, "Cancelled")
  /\ UNCHANGED <<worldVars, fileVars, current>>

Continues(b, phase) ==
  /\ At(b, phase)
  /\ ~build[b].cancel
  /\ UNCHANGED <<worldVars, current>>

(* The surface corpus, unless the session's was borrowed, and the manifest *)
(* of what the layer will hold.                                            *)
BuildSurface(b) ==
  /\ Continues(b, "surface")
  /\ LET j == build[b]
         corpus == IF j.borrowed THEN j.corpus ELSE SurfaceCorpus(j.corpus.selection, j.over)
     IN Set(b, [j EXCEPT !.phase = "cache", !.corpus = corpus,
                         !.manifest = Manifest(corpus, j.over)])
  /\ UNCHANGED fileVars

(* The existing layer is the wanted one: nothing is built or written. *)
LoadCache(b) ==
  /\ At(b, "cache")
  /\ IF Ready(build[b].manifest) THEN End(b, "Reused")
     ELSE Set(b, [build[b] EXCEPT !.phase = "salvage"])
  /\ UNCHANGED <<worldVars, fileVars, current>>

(* AnnotationCacheReuseKey: what must agree for counts to be reused. *)
ReuseKeyOfText(m, i) == <<m.documents[i].text, m.model>>
ReuseKey(m, i) == <<m.documents[i].text, m.documents[i].language, m.model>>

(* token_count_for_document. *)
token_count_with_marks(j, i) == Len(TokensOf[j.corpus.documents[i].text])
token_count(j, i) == TokenCount[j.corpus.documents[i].text]

(* plan_annotation_cache_salvage: the counts the earlier layer has for a   *)
(* document of the new manifest, the first document with its key deciding. *)
ReusedFrom(old, m, i) ==
  LET same == {k \in DOMAIN old.layer : ReuseKey(old.manifest, k) = ReuseKey(m, i)}
  IN IF same = {} THEN {}
     ELSE {c \in {old.layer[Min(same)].counts} : Remappable(c, old.manifest.terms, m.terms)}

SalvagePlan(old, m) ==
  LET reused == {i \in DOMAIN m.documents : ReusedFrom(old, m, i) # {}}
  IN [i \in reused |->
        Remapped(CHOOSE c \in ReusedFrom(old, m, i) : TRUE, old.manifest.terms, m.terms)]

(* The envelope is read again; a file that parses is salvaged, any other   *)
(* is left aside. Documents taken over count as done.                      *)
Salvage(b) ==
  /\ Continues(b, "salvage")
  /\ LET j == build[b]
         done == IF Readable THEN SalvagePlan(Parsed(final), j.manifest) ELSE <<>>
     IN Set(b, [j EXCEPT !.phase = "inputs", !.salvaging = Readable, !.done = done,
                         !.docs_done = Cardinality(DOMAIN done),
                         !.tokens_done = SumOver([i \in DOMAIN done |-> token_count(j, i)])])
  /\ UNCHANGED fileVars

(* verify_annotation_document_identity: the loaded text of a document has  *)
(* as many words as the hashed one. The hashes are not compared.           *)
SameDocument(document, text) == TokenCount[text] = TokenCount[document.text]

(* load_annotation_document_inputs: all texts of the selection, which must *)
(* be the documents of the corpus; ..._for_indices: the texts of the       *)
(* documents that could not be salvaged.                                   *)
ToAnnotate(j) == DOMAIN j.corpus.documents \ DOMAIN j.done

InputsAgree(j) ==
  /\ \/ j.salvaging
     \/ {d \in j.corpus.selection : source[d] # Blank}
           = {j.corpus.documents[i].path : i \in DOMAIN j.corpus.documents}
  /\ \A i \in ToAnnotate(j) :
        LET document == j.corpus.documents[i] IN
        /\ source[document.path] # Blank
        /\ SameDocument(document, source[document.path])

Inputs(j) ==
  LET indices == Ascending(ToAnnotate(j))
  IN [n \in DOMAIN indices |->
        LET document == j.corpus.documents[indices[n]] IN
        [index |-> indices[n], text |-> source[document.path], language |-> document.language]]

(* stage_next_annotation_wave: inputs as long as they fit the budget, and  *)
(* at least one. An input staged beyond it waits for the next wave.        *)
Staged(inputs, first) ==
  LET weight(n) == SumOver([i \in first..n |-> StagedWeight(inputs[i].text)])
      fits == {n \in first..Len(inputs) : n = first \/ weight(n) <= TokenBudget}
  IN IF fits = {} THEN <<>> ELSE SubSeq(inputs, first, Max(fits))

WithNextWave(j) ==
  LET wave == Staged(j.inputs, j.next)
  IN [j EXCEPT !.wave = wave, !.next = j.next + Len(wave)]

LoadInputs(b) ==
  /\ Continues(b, "inputs")
  /\ IF InputsAgree(build[b])
     THEN Set(b, WithNextWave([build[b] EXCEPT !.phase = "annotating",
                                               !.inputs = Inputs(build[b])]))
     ELSE End(b, "Failed")
  /\ UNCHANGED fileVars

(* A wave of one document above the budget is done segment by segment. *)
Segmented(wave) == Len(wave) = 1 /\ StagedWeight(wave[1].text) > TokenBudget

CountsOfInput(input) == DocumentCounts(version, input.language, input.text)

(* annotate_staged_annotation_wave_documents: every document of the wave,  *)
(* and each is credited with the words the corpus counted.                 *)
AnnotateWave(b) ==
  /\ Continues(b, "annotating")
  /\ build[b].wave # <<>> /\ ~Segmented(build[b].wave)
  /\ LET j == build[b]
         input(i) == CHOOSE x \in Range(j.wave) : x.index = i
         indices == {x.index : x \in Range(j.wave)}
     IN IF \A x \in Range(j.wave) : Resolvable(CountsOfInput(x), j.manifest.terms)
        THEN Set(b, WithNextWave([j EXCEPT
               !.done = [i \in indices \cup DOMAIN j.done |->
                           IF i \in indices
                           THEN ByTermId(CountsOfInput(input(i)), j.manifest.terms) ELSE j.done[i]],
               !.docs_done = j.docs_done + Cardinality(indices),
               !.tokens_done = j.tokens_done + SumOver([i \in indices |-> token_count(j, i)])]))
        ELSE End(b, "Failed")
  /\ UNCHANGED fileVars

(* annotate_segmented_staged_annotation_document: the next segment; the    *)
(* last one gives the document its counts and the words still missing.     *)
AnnotateSegment(b) ==
  /\ Continues(b, "annotating")
  /\ build[b].wave # <<>> /\ Segmented(build[b].wave)
  /\ \E input \in {build[b].wave[1]} :
     LET j == build[b]
         words == token_count(j, input.index)
         stretch == Segments[input.text][j.segment + 1]
         counts == CountsOf[version][input.language][input.text][stretch]
         credit == proportional_segment_token_credit(words, Len(TokensOf[input.text]),
                      Chunks[input.text][stretch.last].last, j.credited)
     IN IF ~Resolvable(counts, j.manifest.terms) THEN End(b, "Failed")
        ELSE IF j.segment + 1 < Len(Segments[input.text])
        THEN Set(b, [j EXCEPT !.segment = j.segment + 1,
                              !.partial = Plus(j.partial, counts),
                              !.credited = j.credited + credit,
                              !.tokens_done = j.tokens_done + credit])
        ELSE Set(b, WithNextWave([j EXCEPT
               !.segment = 0, !.partial = NoCounts, !.credited = 0,
               !.done = [i \in {input.index} \cup DOMAIN j.done |->
                           IF i = input.index
                           THEN ByTermId(Plus(j.partial, counts), j.manifest.terms) ELSE j.done[i]],
               !.docs_done = j.docs_done + 1,
               !.tokens_done = j.tokens_done + Max({words - j.credited, 0})]))
  /\ UNCHANGED fileVars

(* A model, a load or a call of UDPipe fails. *)
BuildFails(b) ==
  /\ build[b].phase \in {"surface", "inputs", "annotating"}
  /\ End(b, "Failed")
  /\ UNCHANGED <<worldVars, fileVars, current>>

(* reduce_annotation_documents. *)
Layer(j) == [i \in DOMAIN j.corpus.documents |->
               [path |-> j.corpus.documents[i].path, counts |-> j.done[i]]]

(* Everything is annotated and the build, not cancelled so far, opens the  *)
(* temporary file. From here on nobody asks for the token.                 *)
StartWriting(b) ==
  /\ Continues(b, "annotating")
  /\ build[b].wave = <<>>
  /\ CreateTemp(b, [manifest |-> build[b].manifest, layer |-> Layer(build[b])])
  /\ Set(b, [NotBegun EXCEPT !.phase = "writing", !.cancel = build[b].cancel])

Write(b) ==
  /\ At(b, "writing")
  /\ WriteManifest(b) \/ WriteLayer(b) \/ RemoveFinal(b)
  /\ UNCHANGED <<worldVars, jobVars>>

CompleteBuild(b) ==
  /\ At(b, "writing")
  /\ Rename(b) \/ RenameAgain(b)
  /\ End(b, "Completed")
  /\ UNCHANGED <<worldVars, current>>

WriteFails(b) ==
  /\ At(b, "writing")
  /\ GiveUp(b)
  /\ End(b, "Failed")
  /\ UNCHANGED <<worldVars, current>>

(***************************************************************************)
(* What happens around the builds.                                         *)
(***************************************************************************)
Edits == edits < MaxEdits /\ edits' = edits + 1

(* A text is edited, cleaned differently or removed. *)
EditText(d, t) ==
  /\ Edits
  /\ t # source[d]
  /\ source' = [source EXCEPT ![d] = t]
  /\ seen' = [seen EXCEPT ![d] = @ \cup {t}]
  /\ UNCHANGED <<override, version, session, jobVars, fileVars>>

SetOverride(d, l) ==
  /\ Edits
  /\ l # override[d]
  /\ override' = [override EXCEPT ![d] = l]
  /\ UNCHANGED <<source, version, session, seen, jobVars, fileVars>>

(* build_analysis_corpus_command for the session. *)
BuildSession(selection) ==
  /\ Edits
  /\ session' = SurfaceCorpus(selection, override)
  /\ UNCHANGED <<source, override, version, seen, jobVars, fileVars>>

(* The application ends and starts again, maybe with newer models. *)
Restart(v) ==
  /\ Edits
  /\ v >= version
  /\ version' = v
  /\ session' = NoCorpus
  /\ build' = [b \in Builds |->
        IF build[b].phase \in {"not begun", "ended"} THEN build[b] ELSE Ended(b, "Lost")]
  /\ current' = None
  /\ FileCrash
  /\ UNCHANGED <<source, override, seen>>

(* Every build has ended and nothing is left to happen. *)
Rest == (\A b \in Builds : At(b, "ended")) /\ UNCHANGED <<worldVars, jobVars, fileVars>>

BuildStep(b) ==
  \/ BuildSurface(b) \/ LoadCache(b) \/ Salvage(b) \/ LoadInputs(b) \/ AnnotateWave(b)
  \/ AnnotateSegment(b) \/ StartWriting(b) \/ StopIfCancelled(b)
  \/ Write(b) \/ CompleteBuild(b) \/ WriteFails(b) \/ BuildFails(b) \/ Finish(b)

Next ==
  \/ \E b \in Builds : BuildStep(b)
  \/ \E b \in Builds, selection \in Selections : Begin(b, selection)
  \/ CancelCurrent
  \/ \E d \in Document, t \in Text : EditText(d, t)
  \/ \E d \in Document, l \in Language \cup {NoLanguage} : SetOverride(d, l)
  \/ \E selection \in Selections : BuildSession(selection)
  \/ \E v \in Version : Restart(v)
  \/ Rest

vars == <<worldVars, jobVars, fileVars>>
Spec == Init /\ [][Next]_vars

(***************************************************************************)
(* Properties.                                                             *)
(***************************************************************************)

(* A text that may be annotated under the hash of another: it has as many  *)
(* words, and some document has had both of them.                          *)
PassesFor(history, t, text) ==
  t = text \/ (TokenCount[t] = TokenCount[text] /\ \E d \in DOMAIN history : {t, text} \subseteq history[d])

(* A text whose annotation the layer may hold for document i of m: it      *)
(* passes for the hashed one and has no word the vocabulary lacks.         *)
MayStand(history, m, i, t) ==
  PassesFor(history, t, m.documents[i].text) /\ Resolvable(CountsAs(m, i, t), m.terms)

(* Whatever was salvaged, cut into waves and segments, cancelled, failed   *)
(* or lost before: a layer that loads is, to the last count and term id,   *)
(* the one that annotating every document of its manifest on its own       *)
(* gives, each as the text its hash names or as one that it, or a document *)
(* its counts were salvaged from, was edited from or to without changing   *)
(* the number of words and bringing words the project lacks: more is not   *)
(* checked of a text that is read after its hash was taken                 *)
(* (verify_annotation_document_identity), and the session's corpus may     *)
(* have been hashed long before (validate_reusable_surface_corpus,         *)
(* plan_annotation_cache_salvage, annotate_annotation_documents).          *)
CachedLayerAnnotatesItsTexts ==
  ~overlapped /\ Readable =>
    \E m \in {Parsed(final).manifest} :
    \E texts \in [DOMAIN m.documents -> Text] :
      /\ \A i \in DOMAIN m.documents : MayStand(seen, m, i, texts[i])
      /\ Parsed(final).layer = SequentialLayer(m, texts)

(* The words credited while annotating (reused, by wave or by segment)     *)
(* never pass the total, and have reached it when the last document is     *)
(* done: the monitor's caps and its jump to the total change nothing.      *)
CreditIsExact ==
  \A b \in Builds : At(b, "annotating") =>
     /\ build[b].tokens_done <= TokensTotal(build[b].corpus.documents)
     /\ build[b].docs_done <= Len(build[b].corpus.documents)
     /\ build[b].wave = <<>> =>
          /\ build[b].tokens_done = TokensTotal(build[b].corpus.documents)
          /\ build[b].docs_done = Len(build[b].corpus.documents)
================================================================================
