------------------------- MODULE ExtractionCacheProofs -------------------------
(***************************************************************************)
(* What holds of the extraction cache for any files, calls and limits: its *)
(* types, its queue, its running total and the age and size of its texts.  *)
(***************************************************************************)
EXTENDS ExtractionCache, FiniteSetTheorems, TLAPS

(* Every nonempty set of naturals has a least element. *)
LEMMA LeastNatural ==
  ASSUME NEW T, T \subseteq Nat, T # {}
  PROVE  \E x \in T : \A y \in T : x <= y
<1>1. PICK x \in T : \A y \in T : ~ (<<y, x>> \in OpToRel(<, Nat))
  BY WFMin, NatLessThanWellFounded, Zenon
<1>2. \A y \in T : ~ (y < x)
  <2> TAKE y \in T
  <2>1. <<y, x>> \in Nat \X Nat
    OBVIOUS
  <2>2. <<y, x>> \notin {ss \in Nat \X Nat : ss[1] < ss[2]}
    BY <1>1, Zenon DEF OpToRel
  <2>q. QED  BY <2>1, <2>2
<1>q. QED  BY <1>2

(* The eviction loop stops when there is room or the queue is empty. *)
LEMMA EvictionsType ==
  ASSUME NEW es, NEW o \in Seq(Key), NEW total, NEW bytes
  PROVE  LET n == Evictions(es, o, total, bytes)
         IN  /\ n \in 0 .. Len(o)
             /\ \/ AsNatural(total - FreedBytes(es, o, n)) + bytes <= max_total_bytes
                \/ n = Len(o)
<1> DEFINE enough(n) == AsNatural(total - FreedBytes(es, o, n)) + bytes <= max_total_bytes
           stops == {n \in 0 .. Len(o) : enough(n) \/ n = Len(o)}
<1>0. Len(o) \in Nat
  OBVIOUS
<1>1. stops \subseteq Nat /\ stops # {}
  <2>1. Len(o) \in stops
    BY <1>0
  <2>q. QED  BY <2>1
<1> HIDE DEF enough
<1>2. PICK least \in stops : \A y \in stops : least <= y
  BY <1>1, LeastNatural
<1>3. \A fewer \in 0 .. least - 1 : ~ enough(fewer)
  <2> TAKE fewer \in 0 .. least - 1
  <2>1. fewer \in 0 .. Len(o) /\ fewer < least
    BY <1>0, <1>2
  <2>q. QED  BY <2>1, <1>2, <1>0
<1>4. \E n \in 0 .. Len(o) : /\ enough(n) \/ n = Len(o)
                             /\ \A fewer \in 0 .. n - 1 : ~ enough(fewer)
  BY <1>2, <1>3
<1>5. Evictions(es, o, total, bytes) =
        CHOOSE n \in 0 .. Len(o) : /\ enough(n) \/ n = Len(o)
                                   /\ \A fewer \in 0 .. n - 1 : ~ enough(fewer)
  BY Zenon DEF Evictions, enough
<1> DEFINE n == Evictions(es, o, total, bytes)
<1>6. n \in 0 .. Len(o) /\ (enough(n) \/ n = Len(o))
  BY <1>4, <1>5, Zenon
<1>q. QED  BY <1>6, Zenon DEF enough

(* o lists the keys of the map es, each once. *)
Lists(o, es) ==
  /\ o \in Seq(Key)
  /\ \A i, j \in 1 .. Len(o) : o[i] = o[j] => i = j
  /\ {o[i] : i \in 1 .. Len(o)} = DOMAIN es

(* Evicting from a listed map and storing an absent key leaves it listed. *)
LEMMA EvictAndStoreLists ==
  ASSUME NEW es, NEW o, Lists(o, es), NEW total, NEW k \in Key, NEW text \in Text,
         k \notin DOMAIN es, EvictAndStore(es, o, total, k, text)
  PROVE  Lists(order', entries')
<1> DEFINE n == Evictions(es, o, total, text.bytes)
           kept == DOMAIN es \ Popped(o, n)
           rest == SubSeq(o, n + 1, Len(o))
<1>1. n \in 0 .. Len(o)
  BY EvictionsType DEF Lists
<1>2. /\ DOMAIN entries' = kept \cup {k}
      /\ order' = Append(rest, k)
  BY Zenon DEF EvictAndStore
<1> HIDE DEF n
<1>3. /\ rest \in Seq(Key)
      /\ Len(rest) = Len(o) - n
      /\ \A i \in 1 .. Len(rest) : rest[i] = o[n + i]
  BY <1>1 DEF Lists
<1>4. {rest[i] : i \in 1 .. Len(rest)} = kept
  <2>1. ASSUME NEW i \in 1 .. Len(rest)  PROVE rest[i] \in kept
    <3>1. n + i \in 1 .. Len(o) /\ rest[i] = o[n + i]
      BY <1>1, <1>3
    <3>2. o[n + i] \in DOMAIN es
      BY <3>1 DEF Lists
    <3>3. \A j \in 1 .. n : o[j] # o[n + i]
      BY <3>1, <1>1 DEF Lists
    <3>q. QED  BY <3>1, <3>2, <3>3 DEF Popped
  <2>2. ASSUME NEW x \in kept  PROVE \E i \in 1 .. Len(rest) : x = rest[i]
    <3>1. PICK j \in 1 .. Len(o) : x = o[j]
      BY <2>2 DEF Lists
    <3>2. ~ (j <= n)
      BY <2>2, <3>1, <1>1 DEF Popped
    <3>3. j - n \in 1 .. Len(rest) /\ n + (j - n) = j
      BY <3>1, <3>2, <1>1, <1>3
    <3>4. rest[j - n] = o[j]
      BY <3>3, <1>3
    <3>q. QED  BY <3>1, <3>3, <3>4
  <2>q. QED  BY <2>1, <2>2
<1>5. \A i, j \in 1 .. Len(rest) : rest[i] = rest[j] => i = j
  <2> TAKE i, j \in 1 .. Len(rest)
  <2>1. n + i \in 1 .. Len(o) /\ n + j \in 1 .. Len(o)
    BY <1>1, <1>3
  <2>q. QED  BY <2>1, <1>1, <1>3 DEF Lists
<1> HIDE DEF rest
<1>6. /\ order' \in Seq(Key)
      /\ Len(order') = Len(rest) + 1
      /\ \A i \in 1 .. Len(rest) : order'[i] = rest[i]
      /\ order'[Len(rest) + 1] = k
  BY <1>2, <1>3
<1>7. \A i \in 1 .. Len(rest) : rest[i] # k
  BY <1>4
<1>8. \A i, j \in 1 .. Len(order') : order'[i] = order'[j] => i = j
  BY <1>3, <1>5, <1>6, <1>7
<1>9. {order'[i] : i \in 1 .. Len(order')} = kept \cup {k}
  BY <1>3, <1>4, <1>6
<1>q. QED  BY <1>2, <1>6, <1>8, <1>9 DEF Lists

-------------------------------------------------------------------------------
(* The invariant.  That stored texts are no older than their keys rests on *)
(* what the calls carry, that on the order in which a call reads the       *)
(* modification time and the content, and that on writes never stamping a  *)
(* file with a time to come.                                               *)

DiskWrittenByNow == \A f \in Files : disk[f].second <= clock

KeyBeforeContent ==
  \A c \in Clients : call[c].stage \in {"keyed", "missed"}
                       => call[c].key.stamp <= disk[call[c].key.file].second

CallsCarry ==
  \A c \in Clients :
    /\ call[c].stage # "idle" => call[c].key \in Key
    /\ call[c].stage \in {"extracted", "materialised", "rekeyed", "returned"}
         => call[c].text \in Text
    /\ call[c].stage \in {"extracted", "returned"} /\ call[c].text.by = "extraction"
         => call[c].text.second >= call[c].key.stamp

StoredNotOlder ==
  \A k \in DOMAIN entries : entries[k].by = "extraction" => entries[k].second >= k.stamp

IInv ==
  /\ TypeOK /\ OrderListsKeys
  /\ DiskWrittenByNow /\ KeyBeforeContent /\ CallsCarry /\ StoredNotOlder

LEMMA InitEstablishes == Init => IInv
<1> SUFFICES ASSUME Init PROVE IInv
  OBVIOUS
<1>1. TypeOK
  <2>1. clock \in Seconds
    BY MaxSecondAssumption DEF Init, Seconds
  <2>2. disk \in [Files -> [second : Seconds, bytes : Sizes]]
    BY MaxSecondAssumption DEF Init, Seconds
  <2>3. call \in [Clients -> Call]
    BY DEF Init, Call, Idle, Stages
  <2>4. DOMAIN entries \subseteq Key /\ entries \in [DOMAIN entries -> Text] /\ order \in Seq(Key)
    BY DEF Init
  <2>q. QED  BY <2>1, <2>2, <2>3, <2>4 DEF TypeOK
<1>2. OrderListsKeys
  BY DEF Init, OrderListsKeys
<1>3. DiskWrittenByNow /\ KeyBeforeContent /\ CallsCarry /\ StoredNotOlder
  BY DEF Init, DiskWrittenByNow, KeyBeforeContent, CallsCarry, StoredNotOlder, Idle
<1>q. QED  BY <1>1, <1>2, <1>3 DEF IInv

(* A step that stores text under k and evicts what the loop says. *)
LEMMA StoreKeepsMap ==
  ASSUME NEW es, NEW o, Lists(o, es), DOMAIN es \subseteq Key, es \in [DOMAIN es -> Text],
         NEW total, NEW k \in Key, NEW text \in Text, k \notin DOMAIN es,
         EvictAndStore(es, o, total, k, text),
         \A x \in DOMAIN es : es[x].by = "extraction" => es[x].second >= x.stamp,
         text.by = "extraction" => text.second >= k.stamp
  PROVE  /\ DOMAIN entries' \subseteq Key /\ entries' \in [DOMAIN entries' -> Text]
         /\ order' \in Seq(Key)
         /\ OrderListsKeys'
         /\ StoredNotOlder'
<1>1. Lists(order', entries')
  BY EvictAndStoreLists
<1> DEFINE kept == DOMAIN es \ Popped(o, Evictions(es, o, total, text.bytes))
<1>2. entries' = [x \in kept \cup {k} |-> IF x = k THEN text ELSE es[x]]
  BY Zenon DEF EvictAndStore
<1> HIDE DEF kept
<1>3. kept \subseteq DOMAIN es
  BY DEF kept
<1>q. QED  BY <1>1, <1>2, <1>3 DEF Lists, OrderListsKeys, StoredNotOlder

(* The queue without k lists the map without k. *)
LEMMA WithoutLists ==
  ASSUME TypeOK, OrderListsKeys, NEW k \in Key
  PROVE  Lists(OrderWithout(k), Without(k))
<1> DEFINE es == Without(k)
           o == OrderWithout(k)
<1>1. /\ DOMAIN es = DOMAIN entries \ {k}
      /\ order \in Seq(Key)
  BY DEF Without, TypeOK
<1>2. CASE k \notin DOMAIN entries
  <2>1. o = order /\ DOMAIN es = DOMAIN entries
    BY <1>1, <1>2, Zenon DEF OrderWithout, Cached
  <2>q. QED  BY <2>1, <1>1 DEF OrderListsKeys, Lists
<1>3. CASE k \in DOMAIN entries
  <2> DEFINE at == CHOOSE i \in 1 .. Len(order) : order[i] = k
             lo == SubSeq(order, 1, at - 1)
             hi == SubSeq(order, at + 1, Len(order))
  <2>1. at \in 1 .. Len(order) /\ order[at] = k
    BY <1>3 DEF OrderListsKeys
  <2>2. o = lo \o hi
    BY <1>3, Zenon DEF OrderWithout, Cached
  <2> HIDE DEF at
  <2>3. /\ lo \in Seq(Key) /\ Len(lo) = at - 1
        /\ \A i \in 1 .. Len(lo) : lo[i] = order[i]
    BY <1>1, <2>1
  <2>4. /\ hi \in Seq(Key) /\ Len(hi) = Len(order) - at
        /\ \A i \in 1 .. Len(hi) : hi[i] = order[at + i]
    BY <1>1, <2>1
  <2> HIDE DEF lo, hi, o
  <2>5. /\ o \in Seq(Key) /\ Len(o) = Len(order) - 1
        /\ \A i \in 1 .. Len(o) : o[i] = IF i < at THEN order[i] ELSE order[i + 1]
    <3>0. lo \in Seq(Key) /\ hi \in Seq(Key)
      BY <2>3, <2>4
    <3>1. o \in Seq(Key) /\ Len(o) = (at - 1) + (Len(order) - at)
      <4>1. lo \o hi \in Seq(Key) /\ Len(lo \o hi) = Len(lo) + Len(hi)
        BY <3>0
      <4>q. QED  BY <4>1, <2>2, <2>3, <2>4
    <3>2. \A i \in 1 .. Len(o) : o[i] = IF i <= at - 1 THEN lo[i] ELSE hi[i - (at - 1)]
      BY <2>2, <2>3, <2>4
    <3>3. ASSUME NEW i \in 1 .. Len(o), i < at  PROVE o[i] = order[i]
      BY <3>2, <3>3, <2>1, <2>3, <1>1
    <3>4. ASSUME NEW i \in 1 .. Len(o), ~ (i < at)  PROVE o[i] = order[i + 1]
      <4>1. i - (at - 1) \in 1 .. Len(hi) /\ at + (i - (at - 1)) = i + 1
        BY <3>1, <3>4, <2>1, <2>4, <1>1
      <4>2. o[i] = hi[i - (at - 1)]
        BY <3>2, <3>4, <2>1, <1>1
      <4>q. QED  BY <4>1, <4>2, <2>4
    <3>q. QED  BY <3>1, <3>3, <3>4, <2>1, <1>1
  <2>6. \A i, j \in 1 .. Len(o) : o[i] = o[j] => i = j
    <3> TAKE i, j \in 1 .. Len(o)
    <3> DEFINE place(x) == IF x < at THEN x ELSE x + 1
    <3>1. place(i) \in 1 .. Len(order) /\ place(j) \in 1 .. Len(order)
      BY <1>1, <2>1, <2>5
    <3>2. o[i] = order[place(i)] /\ o[j] = order[place(j)]
      BY <2>5
    <3>3. o[i] = o[j] => place(i) = place(j)
      BY <3>1, <3>2 DEF OrderListsKeys
    <3>q. QED  BY <3>3, <2>1, <2>5, <1>1
  <2>7. {o[i] : i \in 1 .. Len(o)} = DOMAIN es
    <3>1. ASSUME NEW i \in 1 .. Len(o)  PROVE o[i] \in DOMAIN es
      <4> DEFINE place == IF i < at THEN i ELSE i + 1
      <4>1. place \in 1 .. Len(order) /\ place # at /\ o[i] = order[place]
        BY <1>1, <2>1, <2>5
      <4>q. QED  BY <4>1, <1>1, <2>1 DEF OrderListsKeys
    <3>2. ASSUME NEW x \in DOMAIN es  PROVE \E i \in 1 .. Len(o) : x = o[i]
      <4>1. PICK j \in 1 .. Len(order) : x = order[j]
        BY <1>1 DEF OrderListsKeys
      <4>2. j # at
        BY <4>1, <2>1, <1>1
      <4>3. CASE j < at
        <5>1. j \in 1 .. Len(o) /\ o[j] = order[j]
          BY <4>3, <2>1, <2>5, <1>1
        <5>q. QED  BY <5>1, <4>1
      <4>4. CASE j > at
        <5>1. j - 1 \in 1 .. Len(o) /\ ~ (j - 1 < at) /\ (j - 1) + 1 = j
          BY <4>4, <2>1, <2>5, <1>1
        <5>2. o[j - 1] = order[j]
          BY <5>1, <2>5
        <5>q. QED  BY <5>1, <5>2, <4>1
      <4>q. QED  BY <4>2, <4>3, <4>4, <2>1, <1>1
    <3>q. QED  BY <3>1, <3>2
  <2>q. QED  BY <2>5, <2>6, <2>7 DEF Lists, o
<1>q. QED  BY <1>2, <1>3

-------------------------------------------------------------------------------
(* Steps that leave the map alone or empty it keep its part of IInv. *)

MapInv ==
  /\ DOMAIN entries \subseteq Key /\ entries \in [DOMAIN entries -> Text] /\ order \in Seq(Key)
  /\ OrderListsKeys /\ StoredNotOlder

CallInv ==
  /\ clock \in Seconds /\ disk \in [Files -> [second : Seconds, bytes : Sizes]]
  /\ call \in [Clients -> Call]
  /\ DiskWrittenByNow /\ KeyBeforeContent /\ CallsCarry

LEMMA InvParts == IInv <=> MapInv /\ CallInv
  BY Zenon DEF IInv, MapInv, CallInv, TypeOK

LEMMA MapUnchanged == MapInv /\ UNCHANGED cacheVars => MapInv'
<1> SUFFICES ASSUME MapInv, UNCHANGED cacheVars PROVE MapInv'
  OBVIOUS
<1>1. entries' = entries /\ order' = order
  BY DEF cacheVars
<1>q. QED  BY <1>1, Zenon DEF MapInv, OrderListsKeys, StoredNotOlder

LEMMA ClearKeepsMap == Clear => MapInv'
  BY DEF Clear, MapInv, OrderListsKeys, StoredNotOlder

LEMMA InsertIfAbsentKeepsMap ==
  ASSUME IInv, NEW c \in Clients, InsertIfAbsent(c)
  PROVE  MapInv'
<1> DEFINE k == call[c].key
           text == call[c].text
<1>1. k \in Key /\ text \in Text /\ (text.by = "extraction" => text.second >= k.stamp)
  BY DEF IInv, CallsCarry, InsertIfAbsent
<1>2. Lists(order, entries)
  BY DEF IInv, TypeOK, OrderListsKeys, Lists
<1>3. k \notin DOMAIN entries /\ EvictAndStore(entries, order, total_bytes, k, text)
  BY Zenon DEF InsertIfAbsent, Cached
<1>4. \A x \in DOMAIN entries : entries[x].by = "extraction" => entries[x].second >= x.stamp
  BY DEF IInv, StoredNotOlder
<1>5. DOMAIN entries \subseteq Key /\ entries \in [DOMAIN entries -> Text]
  BY DEF IInv, TypeOK
<1> HIDE DEF k, text
<1>q. QED  BY <1>1, <1>2, <1>3, <1>4, <1>5, StoreKeepsMap, Zenon DEF MapInv

LEMMA InsertExtractedKeepsMap ==
  ASSUME IInv, NEW c \in Clients, InsertExtracted(c)
  PROVE  MapInv'
<1> DEFINE k == call[c].key
           text == [call[c].text EXCEPT !.by = "materialisation"]
<1>1. k \in Key /\ text \in Text /\ text.by = "materialisation"
  <2>1. k \in Key /\ call[c].text \in Text
    BY DEF IInv, CallsCarry, InsertExtracted
  <2>q. QED  BY <2>1 DEF Text
<1>2. CASE text.bytes > max_total_bytes
  <2>1. entries' = [x \in {k} |-> text] /\ order' = <<k>>
    BY <1>2, Zenon DEF InsertExtracted
  <2> HIDE DEF k, text
  <2>q. QED  BY <1>1, <2>1 DEF MapInv, OrderListsKeys, StoredNotOlder
<1>3. CASE ~ (text.bytes > max_total_bytes)
  <2>1. EvictAndStore(Without(k), OrderWithout(k), TotalWithout(k), k, text)
    BY <1>3, Zenon DEF InsertExtracted
  <2>2. Lists(OrderWithout(k), Without(k))
    BY <1>1, WithoutLists DEF IInv
  <2>3. DOMAIN Without(k) = DOMAIN entries \ {k}
    BY DEF Without
  <2>4. \A x \in DOMAIN Without(k) : Without(k)[x] = entries[x]
    BY DEF Without
  <2>5. \A x \in DOMAIN Without(k) :
          Without(k)[x].by = "extraction" => Without(k)[x].second >= x.stamp
    BY <2>3, <2>4 DEF IInv, StoredNotOlder
  <2>6. DOMAIN Without(k) \subseteq Key /\ Without(k) \in [DOMAIN Without(k) -> Text]
    BY <2>3 DEF IInv, TypeOK, Without
  <2>7. k \notin DOMAIN Without(k)
    BY <2>3
  <2>8. text.by = "extraction" => text.second >= k.stamp
    BY <1>1
  <2> HIDE DEF k, text
  <2>q. QED  BY <1>1, <2>1, <2>2, <2>5, <2>6, <2>7, <2>8, StoreKeepsMap, Zenon DEF MapInv
<1>q. QED  BY <1>2, <1>3

-------------------------------------------------------------------------------
(* Steps of calls, of the clock and of the files. *)

(* A call moves on and takes a text along. *)
LEMMA AdvanceKeepsCalls ==
  ASSUME CallInv, NEW c \in Clients, NEW stage \in Stages, NEW text \in Text \cup {NoText},
         Advance(c, stage, text), UNCHANGED <<clock, disk>>,
         call[c].stage # "idle",
         stage # "keyed", stage = "missed" => call[c].stage = "keyed",
         stage \in {"extracted", "materialised", "rekeyed", "returned"} => text \in Text,
         stage \in {"extracted", "returned"} /\ text.by = "extraction"
           => text.second >= call[c].key.stamp
  PROVE  CallInv'
<1>1. call[c] \in Call /\ call[c].key \in Key
  BY DEF CallInv, CallsCarry
<1>2. call' = [call EXCEPT ![c] = [call[c] EXCEPT !.stage = stage, !.text = text]]
  BY DEF Advance, CallInv
<1>3. [call[c] EXCEPT !.stage = stage, !.text = text] \in Call
  BY <1>1 DEF Call
<1>4. call' \in [Clients -> Call]
  BY <1>2, <1>3 DEF CallInv
<1>5. /\ call'[c].stage = stage /\ call'[c].text = text /\ call'[c].key = call[c].key
      /\ \A d \in Clients \ {c} : call'[d] = call[d]
  BY <1>1, <1>2 DEF CallInv, Call
<1>6. KeyBeforeContent'
  BY <1>5 DEF CallInv, KeyBeforeContent
<1>7. CallsCarry'
  BY <1>1, <1>5 DEF CallInv, CallsCarry
<1>q. QED  BY <1>4, <1>6, <1>7 DEF CallInv, DiskWrittenByNow

(* A text is handed to the call that asked for it. *)
LEMMA DeliverKeepsCalls ==
  ASSUME CallInv, NEW c \in Clients, NEW text \in Text,
         Deliver(c, text), UNCHANGED <<clock, disk>>, call[c].stage # "idle",
         text.by = "extraction" => text.second >= call[c].key.stamp
  PROVE  CallInv'
<1>1. CASE call[c].purpose = "read"
  <2>1. Advance(c, "returned", text)
    BY <1>1, Zenon DEF Deliver
  <2>q. QED  BY <2>1, AdvanceKeepsCalls DEF Stages
<1>2. CASE call[c].purpose # "read"
  <2>1. Advance(c, "materialised", text)
    BY <1>2, Zenon DEF Deliver
  <2>q. QED  BY <2>1, AdvanceKeepsCalls DEF Stages
<1>q. QED  BY <1>1, <1>2

(* A call takes a key that the disk has now. *)
LEMMA KeyNowKeepsCalls ==
  ASSUME CallInv, NEW c \in Clients, NEW f \in Files, NEW v \in Variants, NEW new \in Call,
         call' = [call EXCEPT ![c] = new], UNCHANGED <<clock, disk>>,
         new.key = KeyNow(f, v),
         \/ new.stage = "keyed"
         \/ new.stage = "rekeyed" /\ new.text \in Text
  PROVE  CallInv'
<1>1. KeyNow(f, v) \in Key /\ KeyNow(f, v).stamp = disk[f].second /\ KeyNow(f, v).file = f
  BY DEF CallInv, KeyNow, Key
<1>2. call' \in [Clients -> Call]
  BY DEF CallInv
<1>3. call'[c] = new /\ \A d \in Clients \ {c} : call'[d] = call[d]
  BY DEF CallInv
<1>4. disk[f].second \in Int
  BY DEF CallInv, Seconds
<1>5. KeyBeforeContent'
  BY <1>1, <1>3, <1>4 DEF CallInv, KeyBeforeContent
<1>6. CallsCarry'
  BY <1>1, <1>3 DEF CallInv, CallsCarry
<1>q. QED  BY <1>2, <1>5, <1>6 DEF CallInv, DiskWrittenByNow

LEMMA TickKeepsCalls ==
  ASSUME CallInv, Tick
  PROVE  CallInv'
<1>1. clock' \in Seconds
  BY MaxSecondAssumption DEF CallInv, Tick, Seconds
<1>2. DiskWrittenByNow'
  <2> SUFFICES ASSUME NEW f \in Files PROVE disk'[f].second <= clock'
    BY DEF DiskWrittenByNow
  <2>1. disk'[f] = disk[f] /\ clock' = clock + 1
    BY DEF Tick
  <2>2. disk[f].second \in Int /\ clock \in Int /\ disk[f].second <= clock
    BY MaxSecondAssumption DEF CallInv, DiskWrittenByNow, Seconds
  <2>q. QED  BY <2>1, <2>2
<1>3. (KeyBeforeContent /\ CallsCarry)'
  BY DEF CallInv, Tick, KeyBeforeContent, CallsCarry
<1>q. QED  BY <1>1, <1>2, <1>3 DEF CallInv, Tick

LEMMA WriteFileKeepsCalls ==
  ASSUME CallInv, NEW f \in Files, NEW b \in Sizes, WriteFile(f, b)
  PROVE  CallInv'
<1>1. disk' = [disk EXCEPT ![f] = [second |-> clock, bytes |-> b]] /\ UNCHANGED <<clock, call>>
  BY DEF WriteFile
<1>2. disk' \in [Files -> [second : Seconds, bytes : Sizes]]
  BY <1>1 DEF CallInv
<1>3. \A g \in Files : /\ disk'[g].second <= clock
                       /\ disk[g].second <= disk'[g].second
                       /\ disk[g].second \in Int /\ disk'[g].second \in Int
  BY <1>1, MaxSecondAssumption DEF CallInv, DiskWrittenByNow, Seconds
<1>4. KeyBeforeContent'
  <2> SUFFICES ASSUME NEW c \in Clients, call[c].stage \in {"keyed", "missed"}
               PROVE  call[c].key.stamp <= disk'[call[c].key.file].second
    BY <1>1 DEF KeyBeforeContent
  <2>1. call[c].key \in Key /\ call[c].key.stamp <= disk[call[c].key.file].second
    BY DEF CallInv, CallsCarry, KeyBeforeContent
  <2>2. call[c].key.file \in Files /\ call[c].key.stamp \in Int
    BY <2>1 DEF Key, Seconds
  <2>q. QED  BY <2>1, <2>2, <1>3
<1>5. CallsCarry'
  BY <1>1 DEF CallInv, CallsCarry
<1>q. QED  BY <1>1, <1>2, <1>3, <1>4, <1>5 DEF CallInv, DiskWrittenByNow


-------------------------------------------------------------------------------
LEMMA StepKeeps == IInv /\ [Next]_vars => IInv'
<1> SUFFICES ASSUME IInv, [Next]_vars PROVE MapInv' /\ CallInv'
  BY Zenon DEF IInv, MapInv, CallInv, TypeOK
<1> MapInv /\ CallInv
  BY InvParts
<1>1. CASE UNCHANGED vars
  <2>1. UNCHANGED cacheVars /\ UNCHANGED <<clock, disk, call>>
    BY <1>1, Zenon DEF vars, cacheVars
  <2>2. MapInv'
    BY <2>1, MapUnchanged, Zenon
  <2>q. QED  BY <2>1, <2>2, Zenon DEF CallInv, DiskWrittenByNow, KeyBeforeContent, CallsCarry
<1>2. CASE Tick
  BY <1>2, TickKeepsCalls, MapUnchanged, Zenon DEF Tick, cacheVars
<1>3. CASE Clear
  <2>1. UNCHANGED <<clock, disk, call>>
    BY <1>3, Zenon DEF Clear
  <2>q. QED  BY <1>3, <2>1, ClearKeepsMap, Zenon
                DEF CallInv, DiskWrittenByNow, KeyBeforeContent, CallsCarry
<1>4. ASSUME NEW f \in Files, NEW b \in Sizes, WriteFile(f, b)  PROVE MapInv' /\ CallInv'
  BY <1>4, WriteFileKeepsCalls, MapUnchanged, Zenon DEF WriteFile, cacheVars
<1>5. ASSUME NEW c \in Clients, NEW f \in Files, NEW v \in Variants,
             NEW p \in {"read", "materialise"}, BeginCall(c, f, v, p)
      PROVE  MapInv' /\ CallInv'
  <2> DEFINE new == [stage |-> "keyed", purpose |-> p, key |-> KeyNow(f, v), text |-> NoText]
  <2>1. new \in Call
    BY DEF Call, Stages, KeyNow, Key, CallInv
  <2>2. call' = [call EXCEPT ![c] = new] /\ UNCHANGED <<clock, disk>> /\ UNCHANGED cacheVars
    BY <1>5, Zenon DEF BeginCall, cacheVars
  <2>3. new.key = KeyNow(f, v) /\ new.stage = "keyed"
    OBVIOUS
  <2> HIDE DEF new
  <2>4. CallInv'
    BY <2>1, <2>2, <2>3, KeyNowKeepsCalls
  <2>q. QED  BY <2>2, <2>4, MapUnchanged, Zenon
<1>6. ASSUME NEW c \in Clients, Hit(c)  PROVE MapInv' /\ CallInv'
  <2>1. entries[call[c].key] \in Text /\ call[c].key \in DOMAIN entries
    BY <1>6 DEF Hit, Cached, MapInv
  <2>2. entries[call[c].key].by = "extraction"
          => entries[call[c].key].second >= call[c].key.stamp
    BY <2>1 DEF MapInv, StoredNotOlder
  <2>3. call[c].stage # "idle" /\ Deliver(c, entries[call[c].key]) /\ UNCHANGED <<clock, disk>>
    BY <1>6 DEF Hit
  <2>4. CallInv'
    BY <2>1, <2>2, <2>3, DeliverKeepsCalls
  <2>q. QED  BY <1>6, <2>4, MapUnchanged, Zenon DEF Hit, cacheVars
<1>7. ASSUME NEW c \in Clients, Miss(c)  PROVE MapInv' /\ CallInv'
  <2>1. PICK stage \in {"failed", "missed"} : Advance(c, stage, NoText)
    BY <1>7, Zenon DEF Miss
  <2>2. call[c].stage = "keyed" /\ UNCHANGED <<clock, disk>>
    BY <1>7 DEF Miss
  <2>3. CallInv'
    BY <2>1, <2>2, AdvanceKeepsCalls DEF Stages
  <2>q. QED  BY <1>7, <2>3, MapUnchanged, Zenon DEF Miss, cacheVars
<1>8. ASSUME NEW c \in Clients, Extract(c)  PROVE MapInv' /\ CallInv'
  <2> DEFINE now == disk[call[c].key.file]
             text == [second |-> now.second, bytes |-> now.bytes, by |-> "extraction"]
  <2>1. call[c].stage = "missed" /\ UNCHANGED <<clock, disk>> /\ UNCHANGED cacheVars
    BY <1>8, Zenon DEF Extract, cacheVars
  <2>2. call[c].key \in Key
    BY <2>1 DEF CallInv, CallsCarry
  <2>3. now \in [second : Seconds, bytes : Sizes]
    BY <2>2 DEF CallInv, Key
  <2>4. text \in Text /\ text.second = now.second
    BY <2>3 DEF Text
  <2>5. text.second >= call[c].key.stamp
    <3>1. call[c].key.stamp <= now.second
      BY <2>1 DEF CallInv, KeyBeforeContent
    <3>2. call[c].key.stamp \in Int /\ now.second \in Int
      BY <2>2, <2>3 DEF Key, Seconds
    <3>q. QED  BY <3>1, <3>2, <2>4
  <2>6. \/ Deliver(c, text)
        \/ Advance(c, "extracted", text)
    BY <1>8, Zenon DEF Extract
  <2> HIDE DEF text
  <2>7. CallInv'
    BY <2>1, <2>4, <2>5, <2>6, DeliverKeepsCalls, AdvanceKeepsCalls DEF Stages
  <2>q. QED  BY <2>1, <2>7, MapUnchanged, Zenon
<1>9. ASSUME NEW c \in Clients, ExtractionFails(c)  PROVE MapInv' /\ CallInv'
  <2>1. CallInv'
    BY <1>9, AdvanceKeepsCalls DEF ExtractionFails, Stages
  <2>q. QED  BY <1>9, <2>1, MapUnchanged, Zenon DEF ExtractionFails, cacheVars
<1>10. ASSUME NEW c \in Clients, ReturnUncached(c)  PROVE MapInv' /\ CallInv'
  <2>1. call[c].text \in Text
        /\ (call[c].text.by = "extraction" => call[c].text.second >= call[c].key.stamp)
    BY <1>10 DEF ReturnUncached, CallInv, CallsCarry
  <2>2. CallInv'
    BY <1>10, <2>1, DeliverKeepsCalls DEF ReturnUncached
  <2>q. QED  BY <1>10, <2>2, MapUnchanged, Zenon DEF ReturnUncached, cacheVars
<1>11. ASSUME NEW c \in Clients, ReturnExisting(c)  PROVE MapInv' /\ CallInv'
  <2>1. entries[call[c].key] \in Text /\ call[c].key \in DOMAIN entries
    BY <1>11 DEF ReturnExisting, Cached, MapInv
  <2>2. entries[call[c].key].by = "extraction"
          => entries[call[c].key].second >= call[c].key.stamp
    BY <2>1 DEF MapInv, StoredNotOlder
  <2>3. call[c].stage # "idle" /\ Deliver(c, entries[call[c].key]) /\ UNCHANGED <<clock, disk>>
    BY <1>11 DEF ReturnExisting
  <2>4. CallInv'
    BY <2>1, <2>2, <2>3, DeliverKeepsCalls
  <2>q. QED  BY <1>11, <2>4, MapUnchanged, Zenon DEF ReturnExisting, cacheVars
<1>12. ASSUME NEW c \in Clients, InsertIfAbsent(c)  PROVE MapInv' /\ CallInv'
  <2>1. call[c].text \in Text
        /\ (call[c].text.by = "extraction" => call[c].text.second >= call[c].key.stamp)
    BY <1>12 DEF InsertIfAbsent, CallInv, CallsCarry
  <2>2. CallInv'
    BY <1>12, <2>1, DeliverKeepsCalls DEF InsertIfAbsent
  <2>q. QED  BY <1>12, <2>2, InsertIfAbsentKeepsMap
<1>13. ASSUME NEW c \in Clients, Rekey(c)  PROVE MapInv' /\ CallInv'
  <2> DEFINE f == call[c].key.file
             v == call[c].key.variant
             new == [call[c] EXCEPT !.stage = "rekeyed", !.key = KeyNow(f, v)]
  <2>1. call[c].key \in Key /\ call[c].text \in Text /\ call[c] \in Call
    BY <1>13 DEF Rekey, CallInv, CallsCarry
  <2>2. f \in Files /\ v \in Variants
    BY <2>1 DEF Key
  <2>3. KeyNow(f, v) \in Key
    BY <2>2 DEF KeyNow, Key, CallInv
  <2>4. new \in Call /\ new.key = KeyNow(f, v) /\ new.stage = "rekeyed" /\ new.text = call[c].text
    BY <2>1, <2>3 DEF Call, Stages
  <2>5. call' = [call EXCEPT ![c] = new] /\ UNCHANGED <<clock, disk>>
    BY <1>13 DEF Rekey, CallInv
  <2> HIDE DEF new
  <2>6. CallInv'
    BY <2>1, <2>2, <2>4, <2>5, KeyNowKeepsCalls
  <2>q. QED  BY <1>13, <2>6, MapUnchanged, Zenon DEF Rekey, cacheVars
<1>14. ASSUME NEW c \in Clients, InsertExtracted(c)  PROVE MapInv' /\ CallInv'
  <2> DEFINE text == [call[c].text EXCEPT !.by = "materialisation"]
  <2>1. call[c].text \in Text /\ call[c].stage = "rekeyed" /\ UNCHANGED <<clock, disk>>
    BY <1>14 DEF InsertExtracted, CallInv, CallsCarry
  <2>2. text \in Text /\ text.by = "materialisation"
    BY <2>1 DEF Text
  <2>3. Advance(c, "returned", text)
    BY <1>14, Zenon DEF InsertExtracted
  <2> HIDE DEF text
  <2>4. CallInv'
    BY <2>1, <2>2, <2>3, AdvanceKeepsCalls DEF Stages
  <2>q. QED  BY <1>14, <2>4, InsertExtractedKeepsMap
<1>15. ASSUME NEW c \in Clients, EndCall(c)  PROVE MapInv' /\ CallInv'
  <2>1. call' = [call EXCEPT ![c] = Idle] /\ UNCHANGED <<clock, disk>>
    BY <1>15 DEF EndCall
  <2>2. Idle \in Call /\ Idle.stage = "idle"
    BY DEF Idle, Call, Stages
  <2>3. CallInv'
    BY <2>1, <2>2 DEF CallInv, DiskWrittenByNow, KeyBeforeContent, CallsCarry
  <2>q. QED  BY <1>15, <2>3, MapUnchanged, Zenon DEF EndCall, cacheVars
<1>q. QED
  BY <1>1, <1>2, <1>3, <1>4, <1>5, <1>6, <1>7, <1>8, <1>9, <1>10, <1>11, <1>12, <1>13,
     <1>14, <1>15, Zenon DEF Next

LEMMA InvariantHolds == Spec => []IInv
  BY InitEstablishes, StepKeeps, PTL DEF Spec

-------------------------------------------------------------------------------
(* Bytes. *)

(* A map of finitely many texts. *)
Holds(es) == IsFiniteSet(DOMAIN es) /\ es \in [DOMAIN es -> Text]
Bytes(es) == Cardinality(BytesOf(es, DOMAIN es))

LEMMA BytesAreFinite ==
  ASSUME NEW es, Holds(es), NEW K \in SUBSET DOMAIN es
  PROVE  IsFiniteSet(BytesOf(es, K)) /\ Cardinality(BytesOf(es, K)) \in Nat
<1> DEFINE OfKey(k) == {k} \X (1 .. es[k].bytes)
           sets == {OfKey(k) : k \in K}
<1>1. IsFiniteSet(K)
  BY FS_Subset DEF Holds
<1>2. IsFiniteSet(sets)
  <2> DEFINE f == [k \in K |-> OfKey(k)]
  <2> HIDE DEF OfKey
  <2>1. f \in Surjection(K, sets)
    BY DEF Surjection
  <2> HIDE DEF sets, f
  <2> QED  BY <1>1, <2>1, FS_Surjection
<1>3. \A T \in sets : IsFiniteSet(T)
  <2> SUFFICES ASSUME NEW k \in K PROVE IsFiniteSet(OfKey(k))
    OBVIOUS
  <2>1. es[k].bytes \in Int
    BY SizesAssumption DEF Holds, Text
  <2>2. IsFiniteSet(1 .. es[k].bytes)
    BY <2>1, FS_Interval
  <2>3. IsFiniteSet({k})
    BY FS_Singleton
  <2> HIDE DEF OfKey
  <2>4. IsFiniteSet({k} \X (1 .. es[k].bytes))
    BY <2>2, <2>3, FS_Product
  <2> QED  BY <2>4, Zenon DEF OfKey
<1>4. BytesOf(es, K) = UNION sets
  BY Zenon DEF BytesOf
<1> HIDE DEF sets
<1>5. IsFiniteSet(BytesOf(es, K))
  BY <1>2, <1>3, <1>4, FS_UNION
<1> QED  BY <1>5, FS_CardinalityType

(* The bytes of keys apart add up. *)
LEMMA BytesAddUp ==
  ASSUME NEW es, Holds(es), NEW K \in SUBSET DOMAIN es, NEW L \in SUBSET DOMAIN es,
         K \cap L = {}
  PROVE  Cardinality(BytesOf(es, K \cup L))
           = Cardinality(BytesOf(es, K)) + Cardinality(BytesOf(es, L))
<1> DEFINE S == BytesOf(es, K)
           T == BytesOf(es, L)
<1>1. BytesOf(es, K \cup L) = S \cup T
  BY DEF BytesOf
<1>2. S \cap T = {}
  <2>1. \A b \in S : b[1] \in K
    BY DEF BytesOf
  <2>2. \A b \in T : b[1] \in L
    BY DEF BytesOf
  <2> QED  BY <2>1, <2>2
<1>3. /\ IsFiniteSet(S) /\ Cardinality(S) \in Nat
      /\ IsFiniteSet(T) /\ Cardinality(T) \in Nat
  BY BytesAreFinite
<1> HIDE DEF S, T
<1>4. Cardinality(S \cup T) = Cardinality(S) + Cardinality(T) - Cardinality(S \cap T)
  BY <1>3, FS_Union
<1>5. Cardinality(S \cap T) = 0
  BY <1>2, FS_EmptySet
<1>6. Cardinality(S \cup T) = Cardinality(S) + Cardinality(T)
  BY <1>3, <1>4, <1>5
<1> QED  BY <1>1, <1>6 DEF S, T

LEMMA BytesOfOne ==
  ASSUME NEW es, NEW k, es[k].bytes \in Nat
  PROVE  Cardinality(BytesOf(es, {k})) = es[k].bytes
<1> DEFINE n == es[k].bytes
<1>1. BytesOf(es, {k}) = {k} \X (1 .. n)
  BY DEF BytesOf
<1>2. n \in Nat
  OBVIOUS
<1> HIDE DEF n
<1>3. IsFiniteSet({k}) /\ Cardinality({k}) = 1
  BY FS_Singleton
<1>4. IsFiniteSet(1 .. n) /\ Cardinality(1 .. n) = IF 1 > n THEN 0 ELSE n - 1 + 1
  BY <1>2, FS_Interval
<1>5. Cardinality(1 .. n) = n
  BY <1>2, <1>4
<1>6. Cardinality({k} \X (1 .. n)) = Cardinality({k}) * Cardinality(1 .. n)
  BY <1>3, <1>4, FS_Product
<1>7. Cardinality({k} \X (1 .. n)) = n
  BY <1>2, <1>3, <1>5, <1>6
<1>8. Cardinality(BytesOf(es, {k})) = n
  BY <1>1, <1>7, Zenon
<1> QED  BY <1>8 DEF n

LEMMA BytesOfNone ==
  ASSUME NEW es
  PROVE  Cardinality(BytesOf(es, {})) = 0
<1>1. BytesOf(es, {}) = {}
  BY DEF BytesOf
<1> QED  BY <1>1, FS_EmptySet

(* Keys that are listed are finitely many. *)
LEMMA ListedAreFinite ==
  ASSUME NEW es, NEW o, Lists(o, es)
  PROVE  IsFiniteSet(DOMAIN es)
<1>1. Len(o) \in Nat
  BY DEF Lists
<1>2. [i \in 1 .. Len(o) |-> o[i]] \in Surjection(1 .. Len(o), DOMAIN es)
  BY <1>1 DEF Lists, Surjection
<1>3. ExistsSurjection(1 .. Len(o), DOMAIN es)
  BY <1>2 DEF ExistsSurjection
<1> QED  BY <1>1, <1>3, FS_NatSurjection

(* Evicting and storing keep the total the bytes of the map, and within    *)
(* the limit when the new text is.                                         *)
LEMMA EvictAndStoreTotal ==
  ASSUME NEW es, NEW o, Lists(o, es), es \in [DOMAIN es -> Text],
         NEW k \in Key, NEW text \in Text, k \notin DOMAIN es,
         EvictAndStore(es, o, Bytes(es), k, text)
  PROVE  /\ total_bytes' = Bytes(entries')
         /\ text.bytes <= max_total_bytes => total_bytes' <= max_total_bytes
<1> DEFINE n == Evictions(es, o, Bytes(es), text.bytes)
           gone == Popped(o, n) \cap DOMAIN es
           kept == DOMAIN es \ Popped(o, n)
           lost == Cardinality(BytesOf(es, gone))
           left == Cardinality(BytesOf(es, kept))
<1>1. Holds(es)
  BY ListedAreFinite DEF Holds
<1>2. /\ lost \in Nat /\ left \in Nat
      /\ IsFiniteSet(BytesOf(es, kept))
  BY <1>1, BytesAreFinite
<1>3. Bytes(es) = lost + left
  <2>1. gone \cup kept = DOMAIN es /\ gone \cap kept = {}
        /\ gone \in SUBSET DOMAIN es /\ kept \in SUBSET DOMAIN es
    OBVIOUS
  <2> HIDE DEF gone, kept
  <2>2. Cardinality(BytesOf(es, gone \cup kept)) = lost + left
    BY <1>1, <2>1, BytesAddUp
  <2> QED  BY <2>1, <2>2, Zenon DEF Bytes
<1>4. text.bytes \in Nat
  BY SizesAssumption DEF Text
<1>5. AsNatural(Bytes(es) - FreedBytes(es, o, n)) = left
  <2>1. FreedBytes(es, o, n) = lost
    BY Zenon DEF FreedBytes
  <2> HIDE DEF lost, left
  <2> QED  BY <1>2, <1>3, <2>1 DEF AsNatural
<1>6. total_bytes' = left + text.bytes
  <2>1. total_bytes' = AsNatural(Bytes(es) - FreedBytes(es, o, n)) + text.bytes
    BY Zenon DEF EvictAndStore
  <2> HIDE DEF left, n
  <2> QED  BY <1>5, <2>1
<1>7. entries' = [x \in kept \cup {k} |-> IF x = k THEN text ELSE es[x]]
  BY Zenon DEF EvictAndStore
<1>8. /\ n \in 0 .. Len(o)
      /\ \/ AsNatural(Bytes(es) - FreedBytes(es, o, n)) + text.bytes <= max_total_bytes
         \/ n = Len(o)
  BY EvictionsType DEF Lists
<1>9. n = Len(o) => kept = {}
  <2> HIDE DEF n
  <2> QED  BY DEF Lists, Popped
<1> HIDE DEF n, gone, kept
<1>10. total_bytes' = Bytes(entries')
  <2>1. /\ DOMAIN entries' = kept \cup {k} /\ k \notin kept /\ kept \subseteq DOMAIN es
        /\ entries'[k] = text
        /\ \A x \in kept : entries'[x] = es[x]
    BY <1>7 DEF kept
  <2>2. Lists(order', entries')
    BY EvictAndStoreLists
  <2>3. Holds(entries')
    BY <2>1, <2>2, <1>7, ListedAreFinite DEF Holds
  <2>4. BytesOf(entries', kept) = BytesOf(es, kept)
    BY <2>1 DEF BytesOf
  <2>5. kept \in SUBSET DOMAIN entries' /\ {k} \in SUBSET DOMAIN entries' /\ kept \cap {k} = {}
    BY <2>1
  <2>6. Cardinality(BytesOf(entries', kept \cup {k}))
          = Cardinality(BytesOf(entries', kept)) + Cardinality(BytesOf(entries', {k}))
    BY <2>3, <2>5, BytesAddUp
  <2>7. Cardinality(BytesOf(entries', {k})) = text.bytes
    BY <1>4, <2>1, BytesOfOne
  <2>8. Bytes(entries') = Cardinality(BytesOf(entries', kept \cup {k}))
    BY <2>1, Zenon DEF Bytes
  <2>9. Cardinality(BytesOf(entries', kept)) = left
    BY <2>4, Zenon
  <2> HIDE DEF left
  <2> QED  BY <1>6, <2>6, <2>7, <2>8, <2>9
<1>11. ASSUME text.bytes <= max_total_bytes PROVE total_bytes' <= max_total_bytes
  <2>1. CASE n = Len(o)
    <3>1. left = 0
      BY <1>9, <2>1, BytesOfNone, Zenon
    <3> QED  BY <1>4, <1>6, <1>11, <3>1
  <2>2. CASE n # Len(o)
    <3> HIDE DEF left
    <3> QED  BY <1>5, <1>6, <1>8, <2>2
  <2> QED  BY <2>1, <2>2
<1> QED  BY <1>10, <1>11

(* Taking a key out of the map takes its bytes off the total. *)
LEMMA TotalWithoutIsExact ==
  ASSUME TypeOK, OrderListsKeys, TotalIsExact, NEW k \in Key
  PROVE  TotalWithout(k) = Bytes(Without(k))
<1> DEFINE rest == DOMAIN entries \ {k}
<1>1. Holds(entries) /\ total_bytes = Bytes(entries)
  <2>1. Lists(order, entries)
    BY DEF TypeOK, OrderListsKeys, Lists
  <2> QED  BY <2>1, ListedAreFinite DEF TypeOK, Holds, TotalIsExact, Bytes
<1>2. Without(k) = [x \in rest |-> entries[x]]
  BY DEF Without
<1>3. DOMAIN Without(k) = rest /\ BytesOf(Without(k), rest) = BytesOf(entries, rest)
  BY <1>2 DEF BytesOf
<1>4. Bytes(Without(k)) = Cardinality(BytesOf(entries, rest))
  BY <1>3, Zenon DEF Bytes
<1>5. CASE k \in DOMAIN entries
  <2>1. entries[k].bytes \in Nat
    BY <1>1, <1>5, SizesAssumption DEF Holds, Text
  <2>2. /\ rest \in SUBSET DOMAIN entries /\ {k} \in SUBSET DOMAIN entries
        /\ rest \cap {k} = {} /\ rest \cup {k} = DOMAIN entries
    BY <1>5
  <2> HIDE DEF rest
  <2>3. Cardinality(BytesOf(entries, rest \cup {k}))
          = Cardinality(BytesOf(entries, rest)) + Cardinality(BytesOf(entries, {k}))
    BY <1>1, <2>2, BytesAddUp
  <2>4. Cardinality(BytesOf(entries, {k})) = entries[k].bytes
    BY <2>1, BytesOfOne
  <2>5. Cardinality(BytesOf(entries, rest)) \in Nat
    BY <1>1, <2>2, BytesAreFinite
  <2>6. total_bytes = Cardinality(BytesOf(entries, rest \cup {k}))
    BY <1>1, <2>2, Zenon DEF Bytes
  <2>7. TotalWithout(k) = AsNatural(total_bytes - entries[k].bytes)
    BY <1>5, Zenon DEF TotalWithout, Cached
  <2> QED  BY <1>4, <2>1, <2>3, <2>4, <2>5, <2>6, <2>7 DEF AsNatural
<1>6. CASE k \notin DOMAIN entries
  <2>1. TotalWithout(k) = total_bytes
    BY <1>6, Zenon DEF TotalWithout, Cached
  <2>2. rest = DOMAIN entries
    BY <1>6
  <2> QED  BY <1>1, <1>4, <2>1, <2>2, Zenon DEF Bytes
<1> QED  BY <1>5, <1>6

(* What the two insertions do to the total and to the sizes stored. *)
LEMMA InsertIfAbsentTotal ==
  ASSUME IInv, TotalIsExact, NEW c \in Clients, InsertIfAbsent(c)
  PROVE  /\ TotalIsExact'
         /\ max_entry_bytes <= max_total_bytes /\ OnlyMaterialisedOversized
              => OnlyMaterialisedOversized'
<1> DEFINE k == call[c].key
           text == call[c].text
           kept == DOMAIN entries \ Popped(order, Evictions(entries, order, total_bytes, text.bytes))
<1>1. /\ k \in Key /\ text \in Text /\ k \notin DOMAIN entries
      /\ text.bytes <= max_entry_bytes
  BY DEF IInv, CallsCarry, InsertIfAbsent, Cached
<1>2. EvictAndStore(entries, order, total_bytes, k, text)
  BY Zenon DEF InsertIfAbsent
<1>3. Lists(order, entries) /\ entries \in [DOMAIN entries -> Text] /\ total_bytes = Bytes(entries)
  BY DEF IInv, TypeOK, OrderListsKeys, Lists, TotalIsExact, Bytes
<1>4. entries' = [x \in kept \cup {k} |-> IF x = k THEN text ELSE entries[x]]
  BY <1>2, Zenon DEF EvictAndStore
<1>5. text.bytes \in Nat
  BY <1>1, SizesAssumption DEF Text
<1> HIDE DEF k, text, kept
<1>6. /\ total_bytes' = Bytes(entries')
      /\ text.bytes <= max_total_bytes => total_bytes' <= max_total_bytes
  BY <1>1, <1>2, <1>3, EvictAndStoreTotal
<1>7. TotalIsExact'
  BY <1>6, Zenon DEF TotalIsExact, Bytes
<1>8. ASSUME max_entry_bytes <= max_total_bytes, OnlyMaterialisedOversized
      PROVE  OnlyMaterialisedOversized'
  <2>1. total_bytes' <= max_total_bytes
    BY <1>1, <1>5, <1>6, <1>8, LimitsAssumption
  <2>2. total_bytes' \in Nat
    <3>1. Lists(order', entries')
      BY <1>1, <1>2, <1>3, EvictAndStoreLists
    <3>2. Holds(entries')
      BY <1>1, <1>3, <1>4, <3>1, ListedAreFinite DEF Holds, kept
    <3>3. DOMAIN entries' \in SUBSET DOMAIN entries'
      OBVIOUS
    <3> QED  BY <1>6, <3>2, <3>3, BytesAreFinite, Zenon DEF Bytes
  <2>3. ~ (total_bytes' > max_total_bytes)
    BY <2>1, <2>2, LimitsAssumption
  <2>4. \A x \in DOMAIN entries' :
          entries'[x].bytes > max_entry_bytes => entries'[x].by = "materialisation"
    <3> SUFFICES ASSUME NEW x \in kept \cup {k}, entries'[x].bytes > max_entry_bytes
                 PROVE  entries'[x].by = "materialisation"
      BY <1>4
    <3>1. x # k
      BY <1>1, <1>4, <1>5, LimitsAssumption
    <3>2. x \in DOMAIN entries /\ entries'[x] = entries[x]
      BY <1>4, <3>1 DEF kept
    <3> QED  BY <1>8, <3>2 DEF OnlyMaterialisedOversized
  <2> QED  BY <2>3, <2>4 DEF OnlyMaterialisedOversized
<1> QED  BY <1>7, <1>8

LEMMA InsertExtractedTotal ==
  ASSUME IInv, TotalIsExact, NEW c \in Clients, InsertExtracted(c)
  PROVE  /\ TotalIsExact'
         /\ OnlyMaterialisedOversized => OnlyMaterialisedOversized'
<1> DEFINE k == call[c].key
           text == [call[c].text EXCEPT !.by = "materialisation"]
<1>1. /\ k \in Key /\ text \in Text /\ text.by = "materialisation"
      /\ text.bytes \in Nat
  <2>1. k \in Key /\ call[c].text \in Text
    BY DEF IInv, CallsCarry, InsertExtracted
  <2> QED  BY <2>1, SizesAssumption DEF Text
<1>2. CASE text.bytes > max_total_bytes
  <2>1. entries' = [x \in {k} |-> text] /\ total_bytes' = text.bytes
    BY <1>2, Zenon DEF InsertExtracted
  <2> HIDE DEF k, text
  <2>2. DOMAIN entries' = {k} /\ entries'[k] = text
    BY <2>1
  <2>3. Cardinality(BytesOf(entries', {k})) = text.bytes
    BY <1>1, <2>2, BytesOfOne
  <2>4. TotalIsExact'
    BY <2>1, <2>2, <2>3, Zenon DEF TotalIsExact
  <2>5. OnlyMaterialisedOversized'
    BY <1>1, <2>2 DEF OnlyMaterialisedOversized
  <2> QED  BY <2>4, <2>5
<1>3. CASE ~ (text.bytes > max_total_bytes)
  <2> DEFINE es == Without(k)
             o == OrderWithout(k)
             kept == DOMAIN es \ Popped(o, Evictions(es, o, TotalWithout(k), text.bytes))
  <2>1. EvictAndStore(es, o, TotalWithout(k), k, text)
    BY <1>3, Zenon DEF InsertExtracted
  <2>2. /\ Lists(o, es) /\ TotalWithout(k) = Bytes(es)
    BY <1>1, WithoutLists, TotalWithoutIsExact DEF IInv
  <2>3. /\ DOMAIN es = DOMAIN entries \ {k} /\ \A x \in DOMAIN es : es[x] = entries[x]
        /\ es \in [DOMAIN es -> Text]
    BY DEF Without, IInv, TypeOK
  <2>4. entries' = [x \in kept \cup {k} |-> IF x = k THEN text ELSE es[x]]
    BY <2>1, Zenon DEF EvictAndStore
  <2> HIDE DEF k, text, es, o, kept
  <2>5. k \notin DOMAIN es
    BY <2>3
  <2>6. EvictAndStore(es, o, Bytes(es), k, text)
    BY <2>1, <2>2
  <2>7. /\ total_bytes' = Bytes(entries')
        /\ text.bytes <= max_total_bytes => total_bytes' <= max_total_bytes
    BY <1>1, <2>2, <2>3, <2>5, <2>6, EvictAndStoreTotal
  <2>8. TotalIsExact'
    BY <2>7, Zenon DEF TotalIsExact, Bytes
  <2>9. total_bytes' \in Nat
    <3>1. Lists(order', entries')
      BY <1>1, <2>2, <2>5, <2>6, EvictAndStoreLists
    <3>2. Holds(entries')
      BY <1>1, <2>3, <2>4, <3>1, ListedAreFinite DEF Holds, kept
    <3>3. DOMAIN entries' \in SUBSET DOMAIN entries'
      OBVIOUS
    <3> QED  BY <2>7, <3>2, <3>3, BytesAreFinite, Zenon DEF Bytes
  <2>10. ~ (total_bytes' > max_total_bytes)
    BY <1>1, <1>3, <2>7, <2>9, LimitsAssumption
  <2>11. ASSUME OnlyMaterialisedOversized PROVE OnlyMaterialisedOversized'
    <3>1. \A x \in DOMAIN entries' : \/ entries'[x].by = "materialisation"
                                     \/ x \in DOMAIN entries /\ entries'[x] = entries[x]
      BY <1>1, <2>3, <2>4 DEF kept
    <3> QED  BY <2>10, <2>11, <3>1 DEF OnlyMaterialisedOversized
  <2> QED  BY <2>8, <2>11
<1> QED  BY <1>2, <1>3

(* Every other step leaves the map and its total alone, or empties both. *)
LEMMA StepKeepsTotal ==
  ASSUME IInv, TotalIsExact, [Next]_vars
  PROVE  /\ TotalIsExact'
         /\ max_entry_bytes <= max_total_bytes /\ OnlyMaterialisedOversized
              => OnlyMaterialisedOversized'
<1>1. CASE Clear
  <2>1. DOMAIN entries' = {} /\ total_bytes' = 0
    BY <1>1 DEF Clear
  <2>2. TotalIsExact'
    BY <2>1, BytesOfNone, Zenon DEF TotalIsExact
  <2>3. OnlyMaterialisedOversized'
    BY <2>1, LimitsAssumption DEF OnlyMaterialisedOversized
  <2> QED  BY <2>2, <2>3
<1>2. CASE \E c \in Clients : InsertIfAbsent(c)
  BY <1>2, InsertIfAbsentTotal
<1>3. CASE \E c \in Clients : InsertExtracted(c)
  BY <1>3, InsertExtractedTotal
<1>4. CASE UNCHANGED cacheVars
  BY <1>4 DEF cacheVars, TotalIsExact, OnlyMaterialisedOversized, BytesOf
<1>5. \/ Clear \/ UNCHANGED cacheVars
      \/ \E c \in Clients : InsertIfAbsent(c) \/ InsertExtracted(c)
  BY Zenon DEF Next, vars, cacheVars, Tick, WriteFile, BeginCall, Hit, Miss, Extract,
               ExtractionFails, ReturnUncached, ReturnExisting, Rekey, EndCall
<1> QED  BY <1>1, <1>2, <1>3, <1>4, <1>5

LEMMA InitTotal == Init => TotalIsExact /\ OnlyMaterialisedOversized
<1> SUFFICES ASSUME Init PROVE TotalIsExact /\ OnlyMaterialisedOversized
  OBVIOUS
<1>1. DOMAIN entries = {} /\ total_bytes = 0
  BY DEF Init
<1>2. TotalIsExact
  BY <1>1, BytesOfNone, Zenon DEF TotalIsExact
<1> QED  BY <1>1, <1>2, LimitsAssumption DEF OnlyMaterialisedOversized

-------------------------------------------------------------------------------
(* The map, its queue and the calls keep their types. *)
THEOREM TypeCorrect == Spec => []TypeOK
<1>1. IInv => TypeOK
  BY Zenon DEF IInv
<1>q. QED  BY <1>1, InvariantHolds, PTL

(* The eviction queue lists every cached key exactly once, whatever the    *)
(* calls of get_or_extract, insert_extracted and clear and their overlaps. *)
THEOREM OrderAlwaysListsKeys == Spec => []OrderListsKeys
<1>1. IInv => OrderListsKeys
  BY Zenon DEF IInv
<1>q. QED  BY <1>1, InvariantHolds, PTL

(* get_or_extract never stores or returns a text of its own older than the *)
(* modification time in the key it was asked for.                          *)
THEOREM ExtractionNeverOlderThanKey == Spec => []ExtractionNotOlderThanKey
<1>1. IInv => ExtractionNotOlderThanKey
  BY DEF IInv, CallsCarry, StoredNotOlder, ExtractionNotOlderThanKey
<1>q. QED  BY <1>1, InvariantHolds, PTL

(* The running total is the number of bytes of the entries, through        *)
(* replacement, eviction and the subtractions that stop at zero.           *)
THEOREM TotalStaysExact == Spec => []TotalIsExact
<1>1. IInv /\ TotalIsExact /\ [Next]_vars => TotalIsExact'
  BY StepKeepsTotal
<1>q. QED  BY <1>1, InitTotal, InvariantHolds, PTL DEF Spec

(* With an entry limit no higher than the total limit, as the two of the   *)
(* program are, the total limit is exceeded by one materialised text alone *)
(* in the cache or not at all, and no extraction over the entry limit is   *)
(* stored.                                                                 *)
THEOREM MemoryStaysBounded ==
  ASSUME max_entry_bytes <= max_total_bytes
  PROVE  Spec => []OnlyMaterialisedOversized
<1>1. IInv /\ TotalIsExact /\ OnlyMaterialisedOversized /\ [Next]_vars
        => OnlyMaterialisedOversized'
  BY StepKeepsTotal
<1>q. QED  BY <1>1, InitTotal, InvariantHolds, TotalStaysExact, PTL DEF Spec

================================================================================
