------------------------- MODULE ConcordanceIndexProofs -------------------------
(***************************************************************************)
(* For any number of queries, reloads and failures: the variables keep     *)
(* their types, a query that holds the mutex works on an index of its      *)
(* corpus version, an index is disabled only after two failures, and the   *)
(* cancellation slot tracks only queries at work.                          *)
(***************************************************************************)
EXTENDS ConcordanceIndex, TLAPS

InIndex == {"hashing", "building", "searching"}

(* The mutex is held exactly by a query whose work is in the index. *)
HolderIsInIndex == \A j \in Queries : query[j].stage \in InIndex <=> holder = j

(* A query under way was admitted for a version that was loaded. *)
AdmittedForVersion == \A j \in Queries : query[j].stage # "idle" => query[j].version \in Versions

(* An index kept in memory was built for the version it is kept under. *)
EntryIsOfItsKey == entry.built \in {0, entry.version}

(* A failure on record was preceded by that many errors. *)
FailureIsCounted ==
  failure # NoFailure => /\ failure.version \in Versions
                         /\ errors[failure.version] >= (IF failure.state = "disabled" THEN 2 ELSE 1)

(* A reload under way has a version left to give. *)
ReloadHasRoom == reload # "idle" => version < MaxVersion

IInv ==
  /\ TypeOK
  /\ ReloadHasRoom
  /\ HolderIsInIndex
  /\ AdmittedForVersion
  /\ EntryIsOfItsKey
  /\ IndexServesItsVersion
  /\ FailureIsCounted
  /\ SlotTracksRunningQuery

LEMMA InitEstablishesIInv == Init => IInv
<1> SUFFICES ASSUME Init PROVE IInv
  OBVIOUS
<1>1. TypeOK
  BY BoundAssumption DEF Init, TypeOK, CancellationInit, CancellationTypeOK, NoEntry, NoFailure,
     Query, Idle, Stages, Kinds, Versions
<1>2. \A j \in Queries : query[j].stage = "idle"
  BY DEF Init, Idle
<1>3. HolderIsInIndex /\ AdmittedForVersion /\ IndexServesItsVersion
  BY <1>2, NoneAssumption DEF Init, HolderIsInIndex, AdmittedForVersion, IndexServesItsVersion, InIndex
<1>4. EntryIsOfItsKey /\ FailureIsCounted /\ SlotTracksRunningQuery /\ ReloadHasRoom
  BY DEF Init, EntryIsOfItsKey, FailureIsCounted, SlotTracksRunningQuery, NoEntry, CancellationInit,
     ReloadHasRoom
<1> QED
  BY <1>1, <1>3, <1>4 DEF IInv

-------------------------------------------------------------------------------
(* A step of one query that leaves the index and the mutex alone, and does *)
(* not enter or leave the index.                                           *)
LEMMA OutsideStep ==
  ASSUME IInv, NEW j \in Queries, NEW t \in Query, query' = [query EXCEPT ![j] = t],
         t.stage \notin InIndex, query[j].stage \notin InIndex,
         t.stage # "idle" => t.version \in Versions,
         UNCHANGED <<holder, entry, failure, errors, disk>>, CancellationTypeOK',
         UNCHANGED corpus, collocations' \in 0..MaxVersion, started' \in 0..MaxQueries,
         active' # NoQuery => query'[active'].stage \in Tracked
  PROVE  IInv'
<1>1. query \in [Queries -> Query]
  BY DEF IInv, TypeOK
<1>2. TypeOK'
  BY <1>1 DEF IInv, TypeOK, corpus
<1>3. \A k \in Queries : query'[k] = IF k = j THEN t ELSE query[k]
  BY <1>1
<1>4. HolderIsInIndex'
  BY <1>3 DEF IInv, HolderIsInIndex
<1>5. AdmittedForVersion'
  BY <1>3 DEF IInv, AdmittedForVersion
<1>6. IndexServesItsVersion'
  <2>1. holder # j /\ holder \in Queries \cup {NoQuery}
    BY DEF IInv, HolderIsInIndex, TypeOK
  <2> QED
    BY <1>3, <2>1 DEF IInv, IndexServesItsVersion
<1>7. EntryIsOfItsKey' /\ FailureIsCounted' /\ ReloadHasRoom'
  BY DEF IInv, EntryIsOfItsKey, FailureIsCounted, ReloadHasRoom, corpus
<1> QED
  BY <1>2, <1>4, <1>5, <1>6, <1>7 DEF IInv, SlotTracksRunningQuery

(* A step that leaves the queries alone while nobody holds the mutex. *)
LEMMA QuietStep ==
  ASSUME IInv, UNCHANGED <<query, holder>>,
         UNCHANGED entry \/ (Unlocked /\ entry' = NoEntry),
         UNCHANGED <<failure, errors>> \/ (failure' = NoFailure /\ errors' = [v \in Versions |-> 0]),
         active' \in {active, NoQuery}, cancelled' \in [Queries -> BOOLEAN], UNCHANGED disk,
         mode' \in Modes, version' \in 0..MaxVersion, reload' \in {"idle", "begun", "cleared"},
         reload' # "idle" => version' < MaxVersion,
         collocations' \in 0..MaxVersion, started' \in 0..MaxQueries
  PROVE  IInv'
<1>1. TypeOK'
  BY BoundAssumption DEF IInv, TypeOK, CancellationTypeOK, NoEntry, NoFailure, Versions
<1>2. HolderIsInIndex' /\ AdmittedForVersion'
  BY DEF IInv, HolderIsInIndex, AdmittedForVersion
<1>3. IndexServesItsVersion' /\ EntryIsOfItsKey'
  BY DEF IInv, IndexServesItsVersion, EntryIsOfItsKey, Unlocked, NoEntry
<1>4. FailureIsCounted'
  BY DEF IInv, FailureIsCounted
<1>5. SlotTracksRunningQuery'
  BY DEF IInv, SlotTracksRunningQuery
<1> QED
  BY <1>1, <1>2, <1>3, <1>4, <1>5 DEF IInv, ReloadHasRoom

(* A step of the query j that leaves the index in memory and the failures  *)
(* alone, past the idle stage.                                             *)
LEMMA InsideStep ==
  ASSUME IInv, NEW j \in Queries, NEW t \in Query, query' = [query EXCEPT ![j] = t],
         query[j].stage \in InIndex, t.stage \in Tracked, t.version = query[j].version,
         holder' = IF t.stage \in InIndex THEN j ELSE NoQuery,
         entry' \in {entry, [entry EXCEPT !.built = query[j].version]},
         \/ UNCHANGED <<failure, errors>>
         \/ /\ failure' = IF failure.version = query[j].version THEN NoFailure ELSE failure
            /\ errors' = [errors EXCEPT ![query[j].version] = 0],
         disk' \in [Texts -> Texts \cup {NoText}], UNCHANGED <<corpus, slot, collocations, started>>
  PROVE  IInv'
<1>1. /\ query \in [Queries -> Query] /\ query[j] \in Query
      /\ entry \in [version : 0..MaxVersion, built : 0..MaxVersion]
      /\ failure \in [version : 0..MaxVersion, state : {"retry_pending", "disabled"}]
      /\ errors \in [Versions -> 0..2]
  BY DEF IInv, TypeOK
<1>2. holder = j /\ \A k \in Queries : query[k].stage \in InIndex => k = j
  BY DEF IInv, HolderIsInIndex
<1>3. query[j].version \in Versions /\ entry.version = query[j].version
  BY <1>2, NoneAssumption DEF IInv, AdmittedForVersion, IndexServesItsVersion, InIndex
<1>4. /\ entry' \in [version : 0..MaxVersion, built : 0..MaxVersion]
      /\ entry'.version = entry.version /\ entry'.built \in {0, entry.version}
  BY <1>1, <1>3, BoundAssumption DEF IInv, EntryIsOfItsKey, Versions
<1>5. /\ failure' \in [version : 0..MaxVersion, state : {"retry_pending", "disabled"}]
      /\ errors' \in [Versions -> 0..2]
  BY <1>1, <1>3, BoundAssumption DEF NoFailure
<1>6. \A k \in Queries : query'[k] = IF k = j THEN t ELSE query[k]
  BY <1>1
<1>7. TypeOK'
  BY <1>1, <1>4, <1>5 DEF IInv, TypeOK, corpus, slot, CancellationTypeOK
<1>8. HolderIsInIndex'
  BY <1>2, <1>6, NoneAssumption DEF HolderIsInIndex
<1>9. AdmittedForVersion'
  BY <1>3, <1>6 DEF IInv, AdmittedForVersion
<1>10. IndexServesItsVersion' /\ EntryIsOfItsKey'
  BY <1>3, <1>4, <1>6 DEF IndexServesItsVersion, EntryIsOfItsKey
<1>11. FailureIsCounted'
  BY <1>1, <1>3 DEF IInv, FailureIsCounted
<1>12. SlotTracksRunningQuery'
  BY <1>6 DEF IInv, SlotTracksRunningQuery, slot
<1>13. ReloadHasRoom'
  BY DEF IInv, ReloadHasRoom, corpus
<1> QED
  BY <1>7, <1>8, <1>9, <1>10, <1>11, <1>12, <1>13 DEF IInv

-------------------------------------------------------------------------------
(* What the stages of a record that goes on are.                           *)
LEMMA GotoGives ==
  ASSUME IInv, NEW j \in Queries, NEW stage \in Stages, Goto(j, stage)
  PROVE  LET t == [query[j] EXCEPT !.stage = stage]
         IN /\ t \in Query /\ t.stage = stage /\ t.version = query[j].version
            /\ query' = [query EXCEPT ![j] = t]
<1>1. query[j] \in Query
  BY DEF IInv, TypeOK
<1> QED
  BY <1>1 DEF Goto, Query

(* A step that moves a query between stages outside the index and leaves   *)
(* everything else alone, but for handing back the slot.                   *)
LEMMA GotoOutside ==
  ASSUME IInv, NEW j \in Queries, NEW stage \in Stages, Goto(j, stage),
         stage \notin InIndex, query[j].stage \notin InIndex \cup {"idle"},
         stage \in Tracked \/ query[j].stage \notin Tracked,
         UNCHANGED <<corpus, slot, holder, index, collocations, started>>
  PROVE  IInv'
<1> DEFINE t == [query[j] EXCEPT !.stage = stage]
<1>1. /\ t \in Query /\ t.stage = stage /\ t.version = query[j].version
      /\ query' = [query EXCEPT ![j] = t]
  BY GotoGives
<1>2. query[j].version \in Versions
  BY DEF IInv, AdmittedForVersion
<1> HIDE DEF t
<1>3. active' # NoQuery => query'[active'].stage \in Tracked
  BY <1>1 DEF IInv, SlotTracksRunningQuery, slot, TypeOK, CancellationTypeOK
<1>4. CancellationTypeOK' /\ collocations' \in 0..MaxVersion /\ started' \in 0..MaxQueries
  BY DEF IInv, TypeOK, slot, corpus, CancellationTypeOK
<1> QED
  BY <1>1, <1>2, <1>3, <1>4, OutsideStep DEF index

(* The same for a query that comes to its end. *)
LEMMA GoIdle ==
  ASSUME IInv, NEW j \in Queries, query' = [query EXCEPT ![j] = Idle],
         query[j].stage \notin InIndex, query[j].stage \notin Tracked,
         UNCHANGED <<corpus, slot, holder, index, started>>, collocations' \in 0..MaxVersion
  PROVE  IInv'
<1>1. Idle \in Query /\ Idle.stage = "idle" /\ "idle" \notin InIndex
  BY BoundAssumption DEF Idle, Query, Stages, Kinds, InIndex
<1>2. active' # NoQuery => query'[active'].stage \in Tracked
  BY DEF IInv, SlotTracksRunningQuery, slot, TypeOK, CancellationTypeOK
<1>3. CancellationTypeOK' /\ started' \in 0..MaxQueries
  BY DEF IInv, TypeOK, slot, corpus, CancellationTypeOK
<1> HIDE DEF Idle
<1> QED
  BY <1>1, <1>2, <1>3, OutsideStep DEF index

-------------------------------------------------------------------------------
(* The steps that enter the index, leave it for good or admit a query.     *)
LEMMA StartQueryStep ==
  ASSUME IInv, NEW j \in Queries, NEW kind \in Kinds, StartQuery(j, kind)
  PROVE  IInv'
<1>1. /\ CancellationTypeOK' /\ mode' \in Modes /\ version' \in 0..MaxVersion
      /\ reload' \in {"idle", "begun", "cleared"} /\ collocations' \in 0..MaxVersion
      /\ started' \in 0..MaxQueries
  BY BoundAssumption DEF StartQuery, IInv, TypeOK, slot, corpus, CancellationTypeOK
<1>2. CASE UNCHANGED query
  <2>1. cancelled' \in [Queries -> BOOLEAN]
    BY <1>1 DEF CancellationTypeOK
  <2>2. /\ UNCHANGED <<query, holder, entry, failure, errors, disk>> /\ active' = active
        /\ reload' # "idle" => version' < MaxVersion
    BY <1>2 DEF StartQuery, slot, index, corpus, IInv, ReloadHasRoom
  <2> QED
    BY <1>1, <2>1, <2>2, QuietStep
<1> DEFINE t == [Idle EXCEPT !.stage = "admitted", !.kind = kind, !.version = version]
<1>3. CASE query' = [query EXCEPT ![j] = t]
  <2>1. version \in Versions
    BY DEF StartQuery, IInv, TypeOK, Versions
  <2>2. /\ t \in Query /\ t.stage = "admitted" /\ t.version = version
        /\ "admitted" \notin InIndex
    <3>1. Idle \in Query /\ version \in 0..MaxVersion /\ "admitted" \in Stages
      BY BoundAssumption DEF Idle, Query, Stages, Kinds, IInv, TypeOK
    <3> HIDE DEF Idle
    <3>2. t \in Query /\ t.stage = "admitted" /\ t.version = version
      BY <3>1 DEF Query
    <3> QED
      BY <3>2 DEF InIndex
  <2>3. query[j].stage = "idle"
    BY DEF StartQuery
  <2> HIDE DEF t
  <2>4. active' # NoQuery => query'[active'].stage \in Tracked
    BY <1>3, <2>3 DEF StartQuery, IInv, SlotTracksRunningQuery, slot, TypeOK, CancellationTypeOK, Tracked
  <2> QED
    BY <1>1, <1>3, <2>1, <2>2, <2>3, <2>4, OutsideStep DEF StartQuery, index, InIndex
<1> QED
  BY <1>2, <1>3 DEF StartQuery

LEMMA BeginQueryStep ==
  ASSUME IInv, NEW j \in Queries, BeginQuery(j)
  PROVE  IInv'
<1> DEFINE stage == IF mode = "scan" THEN "scanning" ELSE "begun"
<1> DEFINE t == [query[j] EXCEPT !.stage = stage]
<1>1. stage \in Stages /\ stage \in Tracked /\ stage \notin InIndex /\ Goto(j, stage)
  BY DEF BeginQuery, Stages, Tracked, InIndex
<1> HIDE DEF stage
<1>2. /\ t \in Query /\ t.stage = stage /\ t.version = query[j].version
      /\ query' = [query EXCEPT ![j] = t]
  BY <1>1, GotoGives
<1> HIDE DEF t
<1>3. query[j].stage = "chosen" /\ query[j].version \in Versions
  BY DEF BeginQuery, IInv, AdmittedForVersion
<1>4. /\ CancellationTypeOK' /\ active' = j
      /\ collocations' \in 0..MaxVersion /\ started' \in 0..MaxQueries
  BY DEF BeginQuery, Begin, IInv, TypeOK, corpus, CancellationTypeOK
<1>5. query'[active'].stage \in Tracked
  BY <1>1, <1>2, <1>4 DEF IInv, TypeOK
<1> QED
  BY <1>1, <1>2, <1>3, <1>4, <1>5, OutsideStep DEF BeginQuery, index, InIndex

LEMMA TakeIndexStep ==
  ASSUME IInv, NEW j \in Queries, TakeIndex(j)
  PROVE  IInv'
<1> DEFINE stage == IF entry'.built = 0 THEN "hashing" ELSE "searching"
<1> DEFINE t == [query[j] EXCEPT !.stage = stage]
<1>1. stage \in Stages /\ stage \in Tracked /\ stage \in InIndex /\ Goto(j, stage)
  BY DEF TakeIndex, Stages, Tracked, InIndex
<1> HIDE DEF stage
<1>2. /\ t \in Query /\ t.stage = stage /\ t.version = query[j].version
      /\ query' = [query EXCEPT ![j] = t]
  BY <1>1, GotoGives
<1> HIDE DEF t
<1>3. /\ query \in [Queries -> Query] /\ query[j].version \in Versions
      /\ entry \in [version : 0..MaxVersion, built : 0..MaxVersion]
      /\ holder' = j /\ holder = NoQuery /\ entry' = EntryFor(query[j].version)
  BY DEF TakeIndex, IInv, AdmittedForVersion, TypeOK, Unlocked
<1>4. /\ entry' \in [version : 0..MaxVersion, built : 0..MaxVersion]
      /\ entry'.version = query[j].version /\ entry'.built \in {0, query[j].version}
  BY <1>3, BoundAssumption DEF EntryFor, IInv, EntryIsOfItsKey, Versions
<1>5. \A k \in Queries : query'[k] = IF k = j THEN t ELSE query[k]
  BY <1>2, <1>3
<1>6. TypeOK'
  BY <1>2, <1>3, <1>4 DEF TakeIndex, IInv, TypeOK, corpus, slot, CancellationTypeOK
<1>7. HolderIsInIndex'
  BY <1>1, <1>2, <1>3, <1>5, NoneAssumption DEF IInv, HolderIsInIndex
<1>8. AdmittedForVersion' /\ IndexServesItsVersion' /\ EntryIsOfItsKey'
  BY <1>2, <1>3, <1>4, <1>5 DEF IInv, AdmittedForVersion, IndexServesItsVersion, EntryIsOfItsKey
<1>9. FailureIsCounted'
  BY DEF TakeIndex, IInv, FailureIsCounted
<1>10. SlotTracksRunningQuery'
  BY <1>1, <1>2, <1>5 DEF TakeIndex, IInv, SlotTracksRunningQuery, slot, TypeOK, CancellationTypeOK
<1>11. ReloadHasRoom'
  BY DEF TakeIndex, IInv, ReloadHasRoom, corpus
<1> QED
  BY <1>6, <1>7, <1>8, <1>9, <1>10, <1>11 DEF IInv

LEMMA RecordErrorStep ==
  ASSUME IInv, NEW j \in Queries, RecordError(j)
  PROVE  IInv'
<1> DEFINE v == query[j].version
<1> DEFINE t == [query[j] EXCEPT !.stage = "rescanning"]
<1>1. /\ query \in [Queries -> Query] /\ query[j] \in Query /\ CancellationTypeOK
      /\ entry \in [version : 0..MaxVersion, built : 0..MaxVersion]
      /\ failure \in [version : 0..MaxVersion, state : {"retry_pending", "disabled"}]
      /\ errors \in [Versions -> 0..2]
  BY DEF IInv, TypeOK
<1>2. "rescanning" \in Stages /\ Goto(j, "rescanning") /\ query[j].stage = "recording"
  BY DEF RecordError, Stages
<1>3. /\ t \in Query /\ t.stage = "rescanning" /\ t.version = v
      /\ query' = [query EXCEPT ![j] = t]
  BY <1>2, GotoGives
<1>4. v \in Versions
  BY <1>2 DEF IInv, AdmittedForVersion
<1>5. /\ holder = NoQuery /\ UNCHANGED <<corpus, slot, holder, disk, collocations, started>>
      /\ entry' = IF entry.version = v THEN NoEntry ELSE entry
      /\ failure' = NextFailure(v)
      /\ errors' = [errors EXCEPT ![v] = IF @ < 2 THEN @ + 1 ELSE @]
  BY DEF RecordError, Unlocked
<1> HIDE DEF t, v
<1>6. \A k \in Queries : query'[k] = IF k = j THEN t ELSE query[k]
  BY <1>1, <1>3
<1>7. /\ entry' \in [version : 0..MaxVersion, built : 0..MaxVersion]
      /\ failure' \in [version : 0..MaxVersion, state : {"retry_pending", "disabled"}]
      /\ errors' \in [Versions -> 0..2]
  <2>1. entry' \in [version : 0..MaxVersion, built : 0..MaxVersion]
    BY <1>1, <1>5, BoundAssumption DEF NoEntry
  <2>2. failure' \in [version : 0..MaxVersion, state : {"retry_pending", "disabled"}]
    BY <1>4, <1>5, BoundAssumption DEF NextFailure, Versions
  <2>3. errors' \in [Versions -> 0..2]
    BY <1>1, <1>4, <1>5
  <2> QED
    BY <2>1, <2>2, <2>3
<1>8. TypeOK'
  BY <1>1, <1>3, <1>5, <1>7 DEF IInv, TypeOK, corpus, slot, CancellationTypeOK
<1>9. HolderIsInIndex' /\ AdmittedForVersion'
  BY <1>2, <1>3, <1>4, <1>5, <1>6 DEF IInv, HolderIsInIndex, AdmittedForVersion, InIndex
<1>10. IndexServesItsVersion' /\ EntryIsOfItsKey'
  BY <1>5 DEF IInv, IndexServesItsVersion, EntryIsOfItsKey, NoEntry
<1>11. FailureIsCounted'
  <2>1. failure'.version = v
    BY <1>5 DEF NextFailure
  <2>2. errors'[v] = IF errors[v] < 2 THEN errors[v] + 1 ELSE errors[v]
    BY <1>1, <1>4, <1>5
  <2>3. errors[v] \in 0..2
    BY <1>1, <1>4
  <2>4. CASE failure'.state = "disabled"
    <3>1. failure.version = v /\ failure.state = "retry_pending"
      BY <1>5, <2>4 DEF NextFailure
    <3>2. failure # NoFailure
      BY <1>4, <3>1, BoundAssumption DEF NoFailure, Versions
    <3>3. errors[v] >= 1
      BY <3>1, <3>2 DEF IInv, FailureIsCounted
    <3> QED
      BY <1>4, <2>1, <2>2, <2>3, <2>4, <3>3 DEF FailureIsCounted
  <2>5. CASE failure'.state # "disabled"
    BY <1>4, <2>1, <2>2, <2>3, <2>5 DEF FailureIsCounted
  <2> QED
    BY <2>4, <2>5
<1>12. SlotTracksRunningQuery'
  BY <1>2, <1>5, <1>6 DEF IInv, SlotTracksRunningQuery, slot, TypeOK, CancellationTypeOK, Tracked
<1>13. ReloadHasRoom'
  BY DEF RecordError, IInv, ReloadHasRoom, corpus
<1> QED
  BY <1>8, <1>9, <1>10, <1>11, <1>12, <1>13 DEF IInv

(* Each step of a query. *)
LEMMA QueryStep ==
  ASSUME IInv, NEW j \in Queries, Step(j)
  PROVE  IInv'
<1>0. /\ query \in [Queries -> Query] /\ query[j] \in Query /\ CancellationTypeOK
      /\ query[j].stage # "idle" => query[j].version \in Versions
  BY DEF IInv, TypeOK, AdmittedForVersion
<1>1. CASE ChooseBackend(j)
  <2> DEFINE stage == IF query[j].kind = "search"
                         /\ (mode = "scan" \/ (mode = "default" /\ Disabled(query[j].version)))
                      THEN "rescanning" ELSE "chosen"
  <2>1. /\ stage \in Stages /\ stage \notin InIndex /\ Goto(j, stage) /\ query[j].stage = "admitted"
        /\ UNCHANGED <<corpus, slot, holder, index, collocations, started>>
    BY <1>1 DEF ChooseBackend, Stages, InIndex
  <2> HIDE DEF stage
  <2> QED
    BY <2>1, GotoOutside DEF InIndex, Tracked
<1>2. CASE BeginQuery(j)
  BY <1>2, BeginQueryStep
<1>3. CASE TakeIndex(j)
  BY <1>3, TakeIndexStep
<1>4. ASSUME NEW text \in Texts, HashTexts(j, text)
      PROVE  IInv'
  <2> DEFINE t == [query[j] EXCEPT !.stage = "building", !.hashed = text]
  <2>1. /\ t \in Query /\ t.stage = "building" /\ t.version = query[j].version
        /\ query' = [query EXCEPT ![j] = t]
    BY <1>0, <1>4 DEF HashTexts, Query, Stages
  <2> HIDE DEF t
  <2>2. /\ query[j].stage \in InIndex /\ t.stage \in InIndex /\ t.stage \in Tracked /\ holder = j
    BY <1>4, <2>1 DEF HashTexts, InIndex, Tracked, IInv, HolderIsInIndex
  <2>3. /\ UNCHANGED <<corpus, slot, collocations, started, failure, errors, entry, holder>>
        /\ disk' \in [Texts -> Texts \cup {NoText}]
    BY <1>4 DEF HashTexts, index, IInv, TypeOK
  <2> QED
    BY <2>1, <2>2, <2>3, InsideStep
<1>5. ASSUME NEW text \in Texts, BuildIndex(j, text)
      PROVE  IInv'
  <2> DEFINE t == [query[j] EXCEPT !.stage = "searching", !.hashed = NoText]
  <2>1. /\ t \in Query /\ t.stage = "searching" /\ t.version = query[j].version
        /\ query' = [query EXCEPT ![j] = t]
    BY <1>0, <1>5 DEF BuildIndex, Query, Stages
  <2> HIDE DEF t
  <2>2. /\ query[j].stage \in InIndex /\ t.stage \in InIndex /\ t.stage \in Tracked /\ holder = j
    BY <1>5, <2>1 DEF BuildIndex, InIndex, Tracked, IInv, HolderIsInIndex
  <2>3. disk \in [Texts -> Texts \cup {NoText}]
    BY DEF IInv, TypeOK
  <2>4. disk' \in [Texts -> Texts \cup {NoText}]
    BY <1>5, <2>3 DEF BuildIndex
  <2>5. /\ UNCHANGED <<corpus, slot, collocations, started, failure, errors, holder>>
        /\ entry' = [entry EXCEPT !.built = query[j].version]
    BY <1>5 DEF BuildIndex
  <2> QED
    BY <2>1, <2>2, <2>4, <2>5, InsideStep
<1>6. CASE Answer(j)
  <2> DEFINE t == [query[j] EXCEPT !.stage = "answered"]
  <2>1. /\ t \in Query /\ t.stage = "answered" /\ t.version = query[j].version
        /\ query' = [query EXCEPT ![j] = t]
    BY <1>0, <1>6 DEF Answer, Goto, Query, Stages
  <2> HIDE DEF t
  <2>2. /\ query[j].stage \in InIndex /\ t.stage \notin InIndex /\ t.stage \in Tracked
    BY <1>6, <2>1 DEF Answer, InIndex, Tracked
  <2>3. /\ UNCHANGED <<corpus, slot, collocations, started, entry>>
        /\ disk' \in [Texts -> Texts \cup {NoText}]
        /\ holder' = NoQuery
        /\ failure' = IF failure.version = query[j].version THEN NoFailure ELSE failure
        /\ errors' = [errors EXCEPT ![query[j].version] = 0]
    BY <1>6 DEF Answer, IInv, TypeOK
  <2> QED
    BY <2>1, <2>2, <2>3, InsideStep
<1>7. CASE LeaveWithError(j)
  <2>1. PICK outcome \in {"refused", "failed"} :
          query' = [query EXCEPT ![j].stage = outcome, ![j].hashed = NoText]
    BY <1>7 DEF LeaveWithError
  <2> DEFINE t == [query[j] EXCEPT !.stage = outcome, !.hashed = NoText]
  <2>2. /\ t \in Query /\ t.stage = outcome /\ t.version = query[j].version
        /\ query' = [query EXCEPT ![j] = t]
    BY <1>0, <2>1 DEF Query, Stages
  <2> HIDE DEF t
  <2>3. /\ query[j].stage \in InIndex /\ t.stage \notin InIndex /\ t.stage \in Tracked
    BY <1>7, <2>2 DEF LeaveWithError, InIndex, Tracked
  <2>4. /\ UNCHANGED <<corpus, slot, collocations, started, entry, failure, errors>>
        /\ disk' \in [Texts -> Texts \cup {NoText}]
        /\ holder' = NoQuery
    BY <1>7 DEF LeaveWithError, index, IInv, TypeOK
  <2> QED
    BY <2>2, <2>3, <2>4, InsideStep
<1>8. CASE ScanCollocations(j)
  <2>1. /\ query[j].stage = "scanning"
        /\ Goto(j, "answered") \/ Goto(j, "refused")
        /\ UNCHANGED <<corpus, slot, holder, index, collocations, started>>
    BY <1>8 DEF ScanCollocations
  <2>2. {"answered", "refused"} \subseteq (Stages \cap Tracked) \ InIndex /\ "scanning" \notin InIndex \cup {"idle"}
    BY DEF Stages, Tracked, InIndex
  <2> QED
    BY <2>1, <2>2, GotoOutside
<1>9. CASE FinishQuery(j)
  <2>1. PICK t \in {[query[j] EXCEPT !.stage = "recording"], [query[j] EXCEPT !.stage = "inserting"], Idle} :
          query' = [query EXCEPT ![j] = t]
    BY <1>9 DEF FinishQuery
  <2>2. /\ t \in Query /\ t.stage \in {"recording", "inserting", "idle"}
        /\ t.stage # "idle" => t.version = query[j].version
    BY <1>0, BoundAssumption DEF Query, Stages, Kinds, Idle
  <2>3. /\ query[j].stage \in {"answered", "refused", "failed"} /\ CancellationTypeOK'
        /\ active' = IF active = j THEN NoQuery ELSE active
        /\ UNCHANGED <<corpus, holder, index, collocations, started>>
    BY <1>0, <1>9 DEF FinishQuery, Finish, CancellationTypeOK
  <2>4. active' # NoQuery => query'[active'].stage \in Tracked
    BY <1>0, <2>1, <2>3 DEF IInv, SlotTracksRunningQuery, CancellationTypeOK
  <2>5. query[j].stage \notin InIndex /\ t.stage \notin InIndex /\ (t.stage # "idle" => t.version \in Versions)
    BY <1>0, <2>2, <2>3 DEF InIndex
  <2>6. collocations' \in 0..MaxVersion /\ started' \in 0..MaxQueries
    BY <2>3 DEF IInv, TypeOK, corpus
  <2> QED
    BY <2>1, <2>2, <2>3, <2>4, <2>5, <2>6, OutsideStep DEF index
<1>10. CASE RecordError(j)
  BY <1>10, RecordErrorStep
<1>11. CASE Rescan(j)
  <2>1. /\ query' = [query EXCEPT ![j] = Idle] /\ query[j].stage = "rescanning"
        /\ UNCHANGED <<corpus, slot, holder, index, started>> /\ collocations' \in 0..MaxVersion
    BY <1>11 DEF Rescan, IInv, TypeOK
  <2> QED
    BY <2>1, GoIdle DEF InIndex, Tracked
<1>12. CASE InsertCollocations(j)
  <2>1. /\ query' = [query EXCEPT ![j] = Idle] /\ query[j].stage = "inserting"
        /\ UNCHANGED <<corpus, slot, holder, index, started>> /\ collocations' \in 0..MaxVersion
    BY <1>0, <1>12 DEF InsertCollocations, Query
  <2> QED
    BY <2>1, GoIdle DEF InIndex, Tracked
<1> QED
  BY <1>1, <1>2, <1>3, <1>4, <1>5, <1>6, <1>7, <1>8, <1>9, <1>10, <1>11, <1>12 DEF Step

-------------------------------------------------------------------------------
(* Every step of the specification. *)
LEMMA NextPreservesIInv == IInv /\ [Next]_vars => IInv'
<1> SUFFICES ASSUME IInv, [Next]_vars PROVE IInv'
  OBVIOUS
<1>0. /\ CancellationTypeOK /\ mode \in Modes /\ version \in 0..MaxVersion
      /\ reload \in {"idle", "begun", "cleared"} /\ collocations \in 0..MaxVersion
      /\ started \in 0..MaxQueries /\ (reload # "idle" => version < MaxVersion)
  BY DEF IInv, TypeOK, ReloadHasRoom
<1>1. ASSUME NEW j \in Queries, Step(j) PROVE IInv'
  BY <1>1, QueryStep
<1>2. ASSUME NEW j \in Queries, NEW kind \in Kinds, StartQuery(j, kind) PROVE IInv'
  BY <1>2, StartQueryStep
<1>3. CASE StartReload
  <2>1. UNCHANGED <<query, holder, entry, failure, errors, disk, active, cancelled, mode, version, started>>
        /\ reload' = "begun" /\ collocations' = 0 /\ version < MaxVersion
    BY <1>3 DEF StartReload, slot, index
  <2> QED
    BY <1>0, <2>1, BoundAssumption, QuietStep DEF CancellationTypeOK
<1>4. CASE ClearIndex
  <2>1. /\ UNCHANGED <<query, holder, disk, cancelled, mode, version, collocations, started>>
        /\ Unlocked /\ reload = "begun" /\ reload' = "cleared" /\ entry' = NoEntry /\ failure' = NoFailure
        /\ active' = NoQuery /\ errors' = [v \in Versions |-> 0]
    BY <1>4 DEF ClearIndex
  <2> QED
    BY <1>0, <2>1, QuietStep DEF CancellationTypeOK
<1>5. CASE LoadCorpus
  <2>1. UNCHANGED <<query, holder, entry, failure, errors, disk, active, cancelled, mode, collocations, started>>
        /\ reload' = "idle"
    BY <1>5 DEF LoadCorpus, slot, index
  <2>2. version' \in 0..MaxVersion
    BY <1>0, <1>5, BoundAssumption DEF LoadCorpus
  <2> QED
    BY <1>0, <2>1, <2>2, QuietStep DEF CancellationTypeOK
<1>6. CASE ProcessSources
  <2>1. /\ UNCHANGED <<query, holder, disk, cancelled, mode, version, reload, collocations, started>>
        /\ Unlocked /\ entry' = NoEntry /\ failure' = NoFailure
        /\ active' = NoQuery /\ errors' = [v \in Versions |-> 0]
    BY <1>6 DEF ProcessSources, corpus
  <2> QED
    BY <1>0, <2>1, QuietStep DEF CancellationTypeOK
<1>7. CASE RequestCancel
  <2>1. UNCHANGED <<query, holder, entry, failure, errors, disk, active, mode, version, reload, collocations, started>>
        /\ cancelled' \in [Queries -> BOOLEAN]
    BY <1>0, <1>7 DEF RequestCancel, Cancel, corpus, index, CancellationTypeOK
  <2> QED
    BY <1>0, <2>1, QuietStep
<1>8. CASE UNCHANGED vars
  <2>1. UNCHANGED <<query, holder, entry, failure, errors, disk, active, cancelled, mode, version, reload, collocations, started>>
    BY <1>8 DEF vars
  <2> QED
    BY <1>0, <2>1, QuietStep DEF CancellationTypeOK
<1> QED
  BY <1>1, <1>2, <1>3, <1>4, <1>5, <1>6, <1>7, <1>8 DEF Next

LEMMA IInvAlways == Spec => []IInv
  BY InitEstablishesIInv, NextPreservesIInv, PTL DEF Spec

(* The state of the index, the slot and the queries keeps its types.       *)
THEOREM TypeCorrect == Spec => []TypeOK
<1> IInv => TypeOK
  BY DEF IInv
<1> QED
  BY IInvAlways, PTL

(* A query that holds the mutex works on an index of the corpus version it *)
(* was admitted for, whatever went by while it waited                      *)
(* (ConcordanceIndexContextKey).                                           *)
THEOREM IndexAlwaysServesItsVersion == Spec => []IndexServesItsVersion
<1> IInv => IndexServesItsVersion
  BY DEF IInv
<1> QED
  BY IInvAlways, PTL

(* The index is disabled for a version only after two searches failed in   *)
(* it without a success in between (record_default_index_error).           *)
THEOREM OnlyTwoErrorsDisable == Spec => []DisabledAfterTwoErrors
<1>1. IInv => DisabledAfterTwoErrors
  <2> SUFFICES ASSUME IInv, failure.state = "disabled"
               PROVE  failure.version \in Versions /\ errors[failure.version] = 2
    BY DEF DisabledAfterTwoErrors
  <2>1. failure # NoFailure
    BY DEF NoFailure
  <2>2. failure.version \in Versions /\ errors[failure.version] >= 2
    BY <2>1 DEF IInv, FailureIsCounted
  <2>3. errors[failure.version] \in 0..2
    BY <2>2 DEF IInv, TypeOK
  <2> QED
    BY <2>2, <2>3
<1> QED
  BY <1>1, IInvAlways, PTL

(* The cancellation slot tracks only queries at work, however they end     *)
(* (search_concordance_command).                                           *)
THEOREM SlotAlwaysTracksRunningQuery == Spec => []SlotTracksRunningQuery
<1> IInv => SlotTracksRunningQuery
  BY DEF IInv
<1> QED
  BY IInvAlways, PTL

===============================================================================
