-------------------------- MODULE SurfaceIndexStore --------------------------
(***************************************************************************)
(* The surface index (corpuswright-core analysis/concordance/index.rs):    *)
(* the words of the documents in one stream of surface ids, with the       *)
(* positions of every normalised surface, built document by document and   *)
(* word by word under a limit on its size, kept in a file and read back.   *)
(*                                                                         *)
(* Ids are places in the symbol tables, from 1; positions in the stream    *)
(* and offsets into the postings are numbered from 0.  A symbol takes one  *)
(* byte, a path and a name none.  The hash tables that speed the look-up   *)
(* of a symbol are left out, and so is a failing allocation.               *)
(***************************************************************************)
EXTENDS SurfaceTokens

CONSTANTS Corpora,          \* what the documents may say: functions from ids to texts
          ResidentLimits,   \* values of max_projected_resident_index_bytes
          MaxStagedBytes,   \* max_staged_prepared_text_bytes
          Population,       \* what a u32 position can number
          EnforceEvery,     \* words between two checks of the size (4096)
          NoFile

VARIABLES text,             \* text[d]: what document d says
          limit,            \* the limit on the resident size
          phase,            \* of the build
          adding,           \* the document being added and the tokens visited of it
          store,            \* the index
          cursors, place,   \* build_postings: where the next position of an id goes
          file,             \* the cache file
          cancelled         \* the token of the build

indexVars == <<text, limit, phase, adding, store, cursors, place, file, cancelled>>

EmptyStore ==
  [documents |-> <<>>, surfaces |-> <<>>, normalised |-> <<>>, map |-> <<>>, tokens |-> <<>>,
   offsets |-> <<>>, positions |-> <<>>]

NoDocument == [doc |-> 0, visited |-> 0, start |-> 0]

IndexInit ==
  /\ text \in Corpora /\ limit \in ResidentLimits
  /\ phase = "opening" /\ adding = NoDocument /\ store = EmptyStore
  /\ cursors = <<>> /\ place = 0
  /\ file = NoFile /\ cancelled = FALSE

(***************************************************************************)
(* Sizes in bytes.                                                         *)
(***************************************************************************)
fixed_array_bytes(s) ==
  4 * (Len(s.map) + Len(s.tokens) + Len(s.positions)) + 8 * Len(s.offsets)
symbol_utf8_bytes(s) == Len(s.surfaces) + Len(s.normalised)
lookup_overhead_estimate(s) == 88 * (Len(s.surfaces) + Len(s.normalised))
estimated_resident_bytes(s) ==
  fixed_array_bytes(s) + symbol_utf8_bytes(s) + lookup_overhead_estimate(s)
  + 64 * Len(s.documents)

(* A mutant: the offsets of the postings are forgotten. *)
ProjectedWithoutOffsets(s) == estimated_resident_bytes(s) + 4 * Len(s.tokens)

(* The arrays of the postings are counted before they exist. *)
ProjectedBytes(s) ==
  estimated_resident_bytes(s) + 4 * Len(s.tokens) + 8 * (Len(s.normalised) + 1)
WithinLimit(s) == ProjectedBytes(s) <= limit

(***************************************************************************)
(* Symbols.                                                                *)
(***************************************************************************)
Interned(symbols, symbol) ==
  IF symbol \in Range(symbols) THEN symbols ELSE Append(symbols, symbol)
lookup_symbol_id(symbols, symbol) == CHOOSE i \in DOMAIN symbols : symbols[i] = symbol

intern_normalised(s, surface) == [s EXCEPT !.normalised = Interned(@, Fold[surface])]

intern_surface(s, surface) ==
  IF surface \in Range(s.surfaces) THEN s
  ELSE LET n == intern_normalised(s, surface)
       IN [n EXCEPT !.surfaces = Append(@, surface),
                    !.map = Append(@, lookup_symbol_id(n.normalised, Fold[surface]))]

WithWord(s, surface) ==
  LET i == intern_surface(s, surface)
  IN [i EXCEPT !.tokens = Append(@, lookup_symbol_id(i.surfaces, surface))]

(***************************************************************************)
(* SurfaceIndexBuilder.                                                    *)
(***************************************************************************)
Waiting == {d \in DOMAIN text : \A i \in DOMAIN store.documents : store.documents[i].id < d}

(* Stop the build; what was built is dropped. *)
Stop(outcome) == /\ phase' = outcome /\ adding' = NoDocument /\ store' = EmptyStore
                 /\ UNCHANGED <<text, limit, cursors, place, file, cancelled>>

OpenDocument ==
  /\ phase = "opening" /\ Waiting # {}
  /\ LET d == Min(Waiting)
     IN IF cancelled THEN Stop("cancelled")
        ELSE IF Len(text[d]) > MaxStagedBytes THEN Stop("refused")
        ELSE /\ adding' = [doc |-> d, visited |-> 0, start |-> Len(store.tokens)]
             /\ phase' = "adding"
             /\ UNCHANGED <<text, limit, store, cursors, place, file, cancelled>>

AddToken ==
  /\ phase = "adding" /\ adding.visited < Len(text[adding.doc])
  /\ \E token \in {text[adding.doc][adding.visited + 1]} :
     \E s \in {IF counts_as_word(token) THEN WithWord(store, token) ELSE store} :
       IF \/ Len(s.tokens) > Population
          \/ s # store /\ Len(s.tokens) % EnforceEvery = 0 /\ ~WithinLimit(s)
       THEN Stop("refused")
       ELSE /\ store' = s
            /\ adding' = [adding EXCEPT !.visited = @ + 1]
            /\ UNCHANGED <<text, limit, phase, cursors, place, file, cancelled>>

CloseDocument ==
  /\ phase = "adding" /\ adding.visited = Len(text[adding.doc])
  /\ \E s \in {[store EXCEPT !.documents = Append(@,
                  [id |-> adding.doc, start |-> adding.start,
                   count |-> Len(store.tokens) - adding.start])]} :
       IF ~WithinLimit(s) THEN Stop("refused")
       ELSE /\ store' = s /\ adding' = NoDocument /\ phase' = "opening"
            /\ UNCHANGED <<text, limit, cursors, place, file, cancelled>>

(* build_postings: the number of positions of each id, and where its list starts. *)
NormalisedAt(s, position) == s.map[s.tokens[position + 1]]
PostingCount(s, id) == Cardinality({p \in 0..(Len(s.tokens) - 1) : NormalisedAt(s, p) = id})
PostingOffsets(s) ==
  LET offset[id \in 0..Len(s.normalised)] ==
        IF id = 0 THEN 0 ELSE offset[id - 1] + PostingCount(s, id)
  IN [i \in 1..(Len(s.normalised) + 1) |-> offset[i - 1]]

StartPostings ==
  /\ phase = "opening" /\ Waiting = {}
  /\ IF ~WithinLimit(store) THEN Stop("refused")
     ELSE IF cancelled /\ store.tokens # <<>> THEN Stop("cancelled")
     ELSE \E offsets \in {PostingOffsets(store)} :
            /\ store' = [store EXCEPT !.offsets = offsets,
                                      !.positions = [i \in DOMAIN store.tokens |-> 0]]
            /\ cursors' = Front(offsets) /\ place' = 0 /\ phase' = "placing"
            /\ UNCHANGED <<text, limit, adding, file, cancelled>>

PlacePosting ==
  /\ phase = "placing" /\ place < Len(store.tokens)
  /\ \E id \in {NormalisedAt(store, place)} :
       /\ store' = [store EXCEPT !.positions[cursors[id] + 1] = place]
       /\ cursors' = [cursors EXCEPT ![id] = @ + 1]
  /\ place' = place + 1
  /\ UNCHANGED <<text, limit, phase, adding, file, cancelled>>

FinishBuild ==
  /\ phase = "placing" /\ place = Len(store.tokens)
  /\ IF estimated_resident_bytes(store) > limit THEN Stop("outgrown")
     ELSE /\ phase' = "ready" /\ cursors' = <<>> /\ place' = 0
          /\ UNCHANGED <<text, limit, adding, store, file, cancelled>>

CancelBuild ==
  /\ phase \in {"opening", "adding", "placing"} /\ ~cancelled
  /\ cancelled' = TRUE
  /\ UNCHANGED <<text, limit, phase, adding, store, cursors, place, file>>

(***************************************************************************)
(* IndexStore: what queries read.                                          *)
(***************************************************************************)
postings(s, normalised_surface) ==
  IF normalised_surface \notin Range(s.normalised) THEN <<>>
  ELSE LET id == lookup_symbol_id(s.normalised, normalised_surface)
       IN SubSeq(s.positions, s.offsets[id] + 1, s.offsets[id + 1])

document_of(s, id) == CHOOSE document \in Range(s.documents) : document.id = id

records_for_document(s, id) ==
  LET document == document_of(s, id)
  IN SubSeq(s.tokens, document.start + 1, document.start + document.count)

(* A mutant: the document before is taken for a position at the start of one. *)
document_strictly_before_position(s, position) ==
  LET index == Max({1, Cardinality({i \in DOMAIN s.documents : s.documents[i].start < position})})
      document == s.documents[index]
  IN [doc |-> document.id, ordinal |-> position - document.start, found |-> TRUE]

(* The last document that starts at or before the position, if it reaches it. *)
document_and_ordinal_for_position(s, position) ==
  LET index == Cardinality({i \in DOMAIN s.documents : s.documents[i].start <= position})
      document == s.documents[index]
  IN [doc |-> document.id, ordinal |-> position - document.start,
      found |-> position - document.start < document.count]

surface_for_record(s, record) == s.surfaces[record]
concordance_key_for_record(s, record, case_sensitive) ==
  IF case_sensitive THEN s.surfaces[record] ELSE s.normalised[s.map[record]]
concordance_symbol_id_for_record(s, record, case_sensitive) ==
  IF case_sensitive THEN record ELSE s.map[record]
concordance_symbol_for_id(s, id, case_sensitive) ==
  IF case_sensitive THEN s.surfaces[id] ELSE s.normalised[id]

(***************************************************************************)
(* The cache file.  Its checksum is that of the content it was written     *)
(* with; what the disk does to a file changes the one or the other, cuts   *)
(* the file, or leaves one of another version or of other texts.           *)
(***************************************************************************)
Counts(s) == [maps |-> Len(s.map), surfaces |-> Len(s.surfaces), tokens |-> Len(s.tokens),
              positions |-> Len(s.positions), offsets |-> Len(s.offsets),
              normalised |-> Len(s.normalised), documents |-> Len(s.documents)]
Content(s, version, texts) ==
  [version |-> version, manifest |-> texts, counts |-> Counts(s), body |-> s]

FileOf(content) == [content |-> content, checksum |-> content, whole |-> TRUE]
Written == FileOf(Content(store, "current", text))

WriteCache ==
  /\ phase = "ready" /\ file = NoFile
  /\ file' = Written
  /\ UNCHANGED <<text, limit, phase, adding, store, cursors, place, cancelled>>

Damaged(f) ==
  {[f EXCEPT !.whole = FALSE],
   [f EXCEPT !.content.version = "older", !.checksum.version = "older"],
   [f EXCEPT !.content.manifest = <<>>, !.checksum.manifest = <<>>],
   [f EXCEPT !.content.counts.tokens = @ + 1],
   [f EXCEPT !.content.body.tokens = Reverse(@)],
   [f EXCEPT !.content.body.positions = Reverse(@)],
   [f EXCEPT !.content.body.surfaces = Reverse(@)]}

DamageCache ==
  /\ phase = "ready" /\ file = Written
  /\ file' \in Damaged(file)
  /\ UNCHANGED <<text, limit, phase, adding, store, cursors, place, cancelled>>

CountsAgree(counts) ==
  /\ counts.maps = counts.surfaces /\ counts.positions = counts.tokens
  /\ counts.offsets = counts.normalised + 1

(* The size announced by the header, with 80 bytes for a symbol. *)
AnnouncedBytes(counts) ==
  4 * (counts.maps + counts.tokens + counts.positions) + 8 * counts.offsets
  + 64 * counts.documents + 81 * (counts.surfaces + counts.normalised)

PostingsAreInOrder(s, id) ==
  \A i \in (s.offsets[id] + 1)..s.offsets[id + 1] :
    /\ i < s.offsets[id + 1] => s.positions[i] < s.positions[i + 1]
    /\ NormalisedAt(s, s.positions[i]) = id

has_valid_internal_references(s) ==
  /\ \A i \in 1..(Len(s.documents) - 1) : s.documents[i].id < s.documents[i + 1].id
  /\ \A i \in DOMAIN s.documents :
       s.documents[i].start = IF i = 1 THEN 0
                              ELSE s.documents[i - 1].start + s.documents[i - 1].count
  /\ Range(s.map) \subseteq DOMAIN s.normalised /\ Range(s.tokens) \subseteq DOMAIN s.surfaces
  /\ s.offsets[1] = 0 /\ Last(s.offsets) = Len(s.positions)
  /\ \A id \in DOMAIN s.normalised : PostingsAreInOrder(s, id)

(* read_surface_index_cache: what the file yields, "stale" or "invalid". *)
ReadCache(f) ==
  LET content == f.content
      counts == content.counts
  IN IF content.version # "current" THEN "stale"
     ELSE IF ~CountsAgree(counts) \/ AnnouncedBytes(counts) > limit THEN "invalid"
     ELSE IF content.manifest # text THEN "stale"
     ELSE IF ~f.whole \/ f.checksum # content \/ counts # Counts(content.body) THEN "invalid"
     ELSE IF ~has_valid_internal_references(content.body) THEN "invalid"
     ELSE "ready"

(* A file that cannot be used makes the index be built again. *)
LoadCache ==
  /\ phase = "ready" /\ file # NoFile
  /\ file' = NoFile
  /\ \E outcome \in {ReadCache(file)} :
       IF outcome = "ready" THEN store' = file.content.body /\ UNCHANGED phase
       ELSE store' = EmptyStore /\ phase' = "opening"
  /\ UNCHANGED <<text, limit, adding, cursors, place, cancelled>>

IndexNext ==
  \/ OpenDocument \/ AddToken \/ CloseDocument
  \/ StartPostings \/ PlacePosting \/ FinishBuild \/ CancelBuild
  \/ WriteCache \/ DamageCache \/ LoadCache

(***************************************************************************)
(* Properties.                                                             *)
(***************************************************************************)
TextWords(d) == analysis_word_tokens(text[d])

(* A finished index, whether built or read from a file, is one of the      *)
(* texts: it lists the documents in order, gives back the words of each,   *)
(* and finds every occurrence of a key, in order, and nothing else.        *)
StoreIndexesTheTexts ==
  phase = "ready" =>
    /\ {document.id : document \in Range(store.documents)} = DOMAIN text
    /\ \A d \in DOMAIN text : \E records \in {records_for_document(store, d)} :
         [i \in DOMAIN records |-> surface_for_record(store, records[i])] = TextWords(d)
    /\ \A key \in Range(Fold) :
         LET found == postings(store, key)
             places == [i \in DOMAIN found |-> document_and_ordinal_for_position(store, found[i])]
         IN /\ \A i \in 1..(Len(found) - 1) : found[i] < found[i + 1]
            /\ {<<places[i].doc, places[i].ordinal>> : i \in DOMAIN found}
                 = {<<d, p>> \in (DOMAIN text) \X (0..Population) :
                      p < Len(TextWords(d)) /\ Fold[TextWords(d)[p + 1]] = key}
==============================================================================
