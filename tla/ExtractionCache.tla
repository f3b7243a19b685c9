---------------------------- MODULE ExtractionCache ----------------------------
(***************************************************************************)
(* The in-memory cache of extracted texts (sources/cache.rs), shared by    *)
(* every command that needs the text of a document, together with the      *)
(* files it is extracted from.  A call locks the cache twice, once to look *)
(* up and once to insert, and reads the file between the two; the files,   *)
(* the other calls and a reload of the corpus may move at every such gap.  *)
(*                                                                         *)
(* A text is known by the second its content was written to disk, by its   *)
(* size in bytes, and by the way it came into the cache.                   *)
(***************************************************************************)
EXTENDS Integers, Sequences, FiniteSets, TLC

CONSTANTS
  Files,
  OcrFiles,        \* the PDFs whose text source is Ocr or ForceOcr
  ForceOcrFiles,   \* those whose text source is ForceOcr
  Variants,        \* scanned size, document type and options: the rest of a key
  Clients,         \* calls in progress
  Sizes,           \* sizes a text may have
  MaxSecond,       \* bound: the clock stops here
  max_total_bytes, max_entry_bytes,
  NoKey, NoText

ASSUME OcrFilesAssumption == ForceOcrFiles \subseteq OcrFiles /\ OcrFiles \subseteq Files
ASSUME SizesAssumption == Sizes \subseteq Nat
ASSUME MaxSecondAssumption == MaxSecond \in Nat
ASSUME LimitsAssumption == max_total_bytes \in Nat /\ max_entry_bytes \in Nat

Seconds == 0 .. MaxSecond
Key == [file : Files, variant : Variants, stamp : Seconds]
Text == [second : Seconds, bytes : Sizes, by : {"extraction", "materialisation"}]

ASSUME NoKeyAssumption == NoKey \notin Key
ASSUME NoTextAssumption == NoText \notin Text

VARIABLES
  clock,
  disk,            \* disk[f]: second and size of the content f has now
  entries, order, total_bytes,     \* CacheInner
  call             \* call[c]: the call c has in progress, if any

vars == <<clock, disk, entries, order, total_bytes, call>>
cacheVars == <<entries, order, total_bytes>>

Stages == {"idle", "keyed", "missed", "extracted", "materialised", "rekeyed",
           "returned", "failed"}
Call == [stage : Stages, purpose : {"read", "materialise"},
         key : Key \cup {NoKey}, text : Text \cup {NoText}]
Idle == [stage |-> "idle", purpose |-> "read", key |-> NoKey, text |-> NoText]

TypeOK ==
  /\ clock \in Seconds
  /\ disk \in [Files -> [second : Seconds, bytes : Sizes]]
  /\ DOMAIN entries \subseteq Key
  /\ entries \in [DOMAIN entries -> Text]
  /\ order \in Seq(Key)
  /\ call \in [Clients -> Call]

Init ==
  /\ clock = 0
  /\ disk \in [Files -> [second : {0}, bytes : Sizes]]
  /\ entries = [k \in {} |-> NoText]
  /\ order = << >>
  /\ total_bytes = 0
  /\ call = [c \in Clients |-> Idle]

-------------------------------------------------------------------------------
(* The map, its insertion order and its size.                              *)

Cached(k) == k \in DOMAIN entries

Popped(o, n) == {o[i] : i \in 1 .. n}

(* The bytes of the texts under the keys of K, each by its key and place. *)
BytesOf(es, K) == UNION {{k} \X (1 .. es[k].bytes) : k \in K}

(* What popping the n oldest keys of o frees in the map es. *)
FreedBytes(es, o, n) == Cardinality(BytesOf(es, Popped(o, n) \cap DOMAIN es))

AsNatural(n) == IF n < 0 THEN 0 ELSE n     \* saturating_sub

(* The number of keys the eviction loop pops: no more than it must. *)
Evictions(es, o, total, bytes) ==
  LET enough(n) == AsNatural(total - FreedBytes(es, o, n)) + bytes <= max_total_bytes
  IN  CHOOSE n \in 0 .. Len(o) :
        /\ enough(n) \/ n = Len(o)
        /\ \A fewer \in 0 .. n - 1 : ~ enough(fewer)

(* Eviction that leaves the bytes of what it evicts in the total. *)
EvictKeepingTotal(es, o, total, k, text) ==
  LET n    == Evictions(es, o, total, text.bytes)
      kept == DOMAIN es \ Popped(o, n)
  IN  /\ entries' = [x \in kept \cup {k} |-> IF x = k THEN text ELSE es[x]]
      /\ order' = Append(SubSeq(o, n + 1, Len(o)), k)
      /\ total_bytes' = total + text.bytes

(* Evict, then insert k last; es, o and total are what the map held when   *)
(* the loop started.                                                       *)
EvictAndStore(es, o, total, k, text) ==
  LET n    == Evictions(es, o, total, text.bytes)
      kept == DOMAIN es \ Popped(o, n)
  IN  /\ entries' = [x \in kept \cup {k} |-> IF x = k THEN text ELSE es[x]]
      /\ order' = Append(SubSeq(o, n + 1, Len(o)), k)
      /\ total_bytes' = AsNatural(total - FreedBytes(es, o, n)) + text.bytes

Without(k) == [x \in DOMAIN entries \ {k} |-> entries[x]]
(* order.retain runs when k was cached, and then k has one place in order. *)
OrderWithout(k) ==
  IF ~ Cached(k) THEN order
  ELSE LET i == CHOOSE i \in 1 .. Len(order) : order[i] = k
       IN  SubSeq(order, 1, i - 1) \o SubSeq(order, i + 1, Len(order))
TotalWithout(k) ==
  IF Cached(k) THEN AsNatural(total_bytes - entries[k].bytes) ELSE total_bytes

-------------------------------------------------------------------------------
(* Files and clock: the filesystem stamps a write with the current second. *)

Tick ==
  /\ clock < MaxSecond
  /\ clock' = clock + 1
  /\ UNCHANGED <<disk, cacheVars, call>>

WriteFile(f, bytes) ==
  /\ disk' = [disk EXCEPT ![f] = [second |-> clock, bytes |-> bytes]]
  /\ UNCHANGED <<clock, cacheVars, call>>

-------------------------------------------------------------------------------
(* ExtractionKey::from_record reads the modification time as it runs. *)
KeyNow(f, v) == [file |-> f, variant |-> v, stamp |-> disk[f].second]

Advance(c, stage, text) ==
  call' = [call EXCEPT ![c].stage = stage, ![c].text = text]

(* The text is in hand: a reader has its answer, an intake caches it again. *)
Deliver(c, text) ==
  Advance(c, IF call[c].purpose = "read" THEN "returned" ELSE "materialised", text)

(* get_or_extract or try_get: build the key, before any lock or read. *)
BeginCall(c, f, v, purpose) ==
  /\ call[c].stage = "idle"
  /\ call' = [call EXCEPT ![c] = [stage |-> "keyed", purpose |-> purpose,
                                  key |-> KeyNow(f, v), text |-> NoText]]
  /\ UNCHANGED <<clock, disk, cacheVars>>

(* Only try_get answers for an OCR document that is not being taken in. *)
LookupOnly(c) == call[c].purpose = "read" /\ call[c].key.file \in OcrFiles

(* Force-OCR intake never looks the text up. *)
SkipsLookup(c) == call[c].purpose = "materialise" /\ call[c].key.file \in ForceOcrFiles

Hit(c) ==
  /\ call[c].stage = "keyed"
  /\ ~ SkipsLookup(c)
  /\ Cached(call[c].key)
  /\ Deliver(c, entries[call[c].key])
  /\ UNCHANGED <<clock, disk, cacheVars>>

Miss(c) ==
  /\ call[c].stage = "keyed"
  /\ SkipsLookup(c) \/ ~ Cached(call[c].key)
  /\ Advance(c, IF LookupOnly(c) THEN "failed" ELSE "missed", NoText)
  /\ UNCHANGED <<clock, disk, cacheVars>>

(* extract_text_from_record reads the file as it is now, with no lock held. *)
Extract(c) ==
  /\ call[c].stage = "missed"
  /\ LET now == disk[call[c].key.file]
         text == [second |-> now.second, bytes |-> now.bytes, by |-> "extraction"]
     IN  IF SkipsLookup(c) THEN Deliver(c, text) ELSE Advance(c, "extracted", text)
  /\ UNCHANGED <<clock, disk, cacheVars>>

(* The read or the decoder fails, or the intake is cancelled on the way. *)
ExtractionFails(c) ==
  /\ call[c].stage = "missed"
  /\ Advance(c, "failed", NoText)
  /\ UNCHANGED <<clock, disk, cacheVars>>

(* Over the per-entry limit: returned, not cached. *)
ReturnUncached(c) ==
  /\ call[c].stage = "extracted"
  /\ call[c].text.bytes > max_entry_bytes
  /\ Deliver(c, call[c].text)
  /\ UNCHANGED <<clock, disk, cacheVars>>

(* Another call inserted first: its entry is the answer. *)
ReturnExisting(c) ==
  /\ call[c].stage = "extracted"
  /\ call[c].text.bytes <= max_entry_bytes
  /\ Cached(call[c].key)
  /\ Deliver(c, entries[call[c].key])
  /\ UNCHANGED <<clock, disk, cacheVars>>

(* The insertion without the second look-up under the write lock. *)
InsertAlways(c) ==
  /\ call[c].stage = "extracted"
  /\ call[c].text.bytes <= max_entry_bytes
  /\ EvictAndStore(entries, order, total_bytes, call[c].key, call[c].text)
  /\ Deliver(c, call[c].text)
  /\ UNCHANGED <<clock, disk>>

(* The insertion under a key built once the text is there. *)
InsertUnderLateKey(c) ==
  LET late == KeyNow(call[c].key.file, call[c].key.variant)
  IN  /\ call[c].stage = "extracted"
      /\ call[c].text.bytes <= max_entry_bytes
      /\ ~ Cached(late)
      /\ EvictAndStore(entries, order, total_bytes, late, call[c].text)
      /\ Deliver(c, call[c].text)
      /\ UNCHANGED <<clock, disk>>

(* Insert if still absent under the write lock. *)
InsertIfAbsent(c) ==
  /\ call[c].stage = "extracted"
  /\ call[c].text.bytes <= max_entry_bytes
  /\ ~ Cached(call[c].key)
  /\ EvictAndStore(entries, order, total_bytes, call[c].key, call[c].text)
  /\ Deliver(c, call[c].text)
  /\ UNCHANGED <<clock, disk>>

(* insert_extracted builds a key of its own, long after the file was read. *)
Rekey(c) ==
  /\ call[c].stage = "materialised"
  /\ call' = [call EXCEPT ![c].stage = "rekeyed",
                          ![c].key = KeyNow(call[c].key.file, call[c].key.variant)]
  /\ UNCHANGED <<clock, disk, cacheVars>>

(* insert_extracted replaces what the key held; a text over the total      *)
(* limit takes the place of everything else.                               *)
InsertExtracted(c) ==
  LET k == call[c].key
      text == [call[c].text EXCEPT !.by = "materialisation"]
  IN  /\ call[c].stage = "rekeyed"
      /\ IF text.bytes > max_total_bytes
         THEN /\ entries' = [x \in {k} |-> text]
              /\ order' = <<k>>
              /\ total_bytes' = text.bytes
         ELSE EvictAndStore(Without(k), OrderWithout(k), TotalWithout(k), k, text)
      /\ Advance(c, "returned", text)
      /\ UNCHANGED <<clock, disk>>

EndCall(c) ==
  /\ call[c].stage \in {"returned", "failed"}
  /\ call' = [call EXCEPT ![c] = Idle]
  /\ UNCHANGED <<clock, disk, cacheVars>>

(* Corpus reload and clear empty the cache, whatever calls are under way. *)
Clear ==
  /\ entries' = [k \in {} |-> NoText]
  /\ order' = << >>
  /\ total_bytes' = 0
  /\ UNCHANGED <<clock, disk, call>>

Next ==
  \/ Tick \/ Clear
  \/ \E f \in Files, b \in Sizes : WriteFile(f, b)
  \/ \E c \in Clients :
       \/ \E f \in Files, v \in Variants, p \in {"read", "materialise"} : BeginCall(c, f, v, p)
       \/ Hit(c) \/ Miss(c) \/ Extract(c) \/ ExtractionFails(c)
       \/ ReturnUncached(c) \/ ReturnExisting(c) \/ InsertIfAbsent(c)
       \/ Rekey(c) \/ InsertExtracted(c) \/ EndCall(c)

Spec == Init /\ [][Next]_vars

-------------------------------------------------------------------------------

(* The eviction queue lists every cached key once and no other: an entry   *)
(* missing from it could never be evicted, a key twice in it would evict   *)
(* an entry inserted later.                                                *)
OrderListsKeys ==
  /\ \A i, j \in 1 .. Len(order) : order[i] = order[j] => i = j
  /\ {order[i] : i \in 1 .. Len(order)} = DOMAIN entries

(* The running total is the sum of the sizes of the entries, through       *)
(* replacement, eviction and the saturating subtractions.                  *)
TotalIsExact == total_bytes = Cardinality(BytesOf(entries, DOMAIN entries))

(* The total limit is exceeded by a single materialised text at most, and  *)
(* get_or_extract never stores a text over the per-entry limit.            *)
OnlyMaterialisedOversized ==
  /\ total_bytes > max_total_bytes =>
       \E k \in Key : /\ DOMAIN entries = {k}
                      /\ entries[k].by = "materialisation"
  /\ \A k \in DOMAIN entries :
       entries[k].bytes > max_entry_bytes => entries[k].by = "materialisation"

(* A text get_or_extract stores or returns was written in the second its   *)
(* key names or later, however the file, the clock and the other calls     *)
(* move between building the key, reading the file and inserting.          *)
ExtractionNotOlderThanKey ==
  /\ \A k \in DOMAIN entries :
       entries[k].by = "extraction" => entries[k].second >= k.stamp
  /\ \A c \in Clients :
       call[c].stage = "returned" /\ call[c].text.by = "extraction"
         => call[c].text.second >= call[c].key.stamp

\* For model checking: calls are interchangeable.
ClientSymmetry == Permutations(Clients)
================================================================================
