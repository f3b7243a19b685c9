--------------------------- MODULE ConcordanceIndex ---------------------------
(***************************************************************************)
(* Concordance queries (src-tauri/src/features/concordance).  Searches and *)
(* collocations share one index of the whole corpus, held in memory under  *)
(* the corpus version it was built for and on disk under the hash of the   *)
(* texts.  One mutex guards it and is held for the whole of an indexed     *)
(* query.  A search that meets an error in the index answers by scanning   *)
(* instead; after a second one the index is no longer tried.  The cleaning *)
(* configuration, part of every key beside the version, and the selection  *)
(* of documents are left out, and the texts of a corpus are one value,     *)
(* which may be another at each reading: anybody may write to the files.   *)
(* The auditing mode, which answers each query both ways, is left out.     *)
(***************************************************************************)
EXTENDS Naturals

CONSTANTS
  Queries, NoQuery,   \* query invocations
  Texts, NoText,      \* what the documents of the corpus may say
  MaxVersion,         \* bound on reloads
  MaxQueries          \* bound on queries started

ASSUME NoneAssumption == NoQuery \notin Queries /\ NoText \notin Texts
ASSUME BoundAssumption == MaxVersion \in Nat /\ MaxQueries \in Nat

VARIABLES
  mode,               \* DesktopRuntimeConfig: the backend, fixed at start
  version,            \* the loaded corpus
  reload,             \* progress of a command that replaces the corpus
  active, cancelled,  \* the cancellation slot beside the index
  holder,             \* the query that holds the mutex over its work
  entry,              \* the index in memory: the version of its key, and the one
                      \* it was built for (0: not built)
  failure,            \* default_index_failure
  disk,               \* disk[h]: what the index file named by the hash of h indexes
  collocations,       \* the version of the last aggregate of collocations, or 0
  query,              \* query[j]: the stages of the invocations
  started,            \* queries started
  errors              \* history: errors under a version since its index last worked

INSTANCE ActiveCancellation WITH Jobs <- Queries, NoJob <- NoQuery

vars == <<mode, version, reload, active, cancelled, holder, entry, failure, disk,
          collocations, query, started, errors>>
corpus == <<mode, version, reload>>
slot == <<active, cancelled>>
index == <<entry, failure, disk, errors>>

Modes == {"default", "strict", "scan"}
Versions == 1..MaxVersion
Kinds == {"search", "collocations"}
Stages == {"idle", "admitted", "chosen", "begun", "hashing", "building", "searching", "scanning",
           "answered", "refused", "failed", "recording", "rescanning", "inserting"}

NoEntry == [version |-> 0, built |-> 0]
NoFailure == [version |-> 0, state |-> "retry_pending"]

Query == [stage : Stages, kind : Kinds, version : 0..MaxVersion, hashed : Texts \cup {NoText}]
Idle == [stage |-> "idle", kind |-> "search", version |-> 0, hashed |-> NoText]

TypeOK ==
  /\ mode \in Modes
  /\ version \in 0..MaxVersion
  /\ reload \in {"idle", "begun", "cleared"}
  /\ CancellationTypeOK
  /\ holder \in Queries \cup {NoQuery}
  /\ entry \in [version : 0..MaxVersion, built : 0..MaxVersion]
  /\ failure \in [version : 0..MaxVersion, state : {"retry_pending", "disabled"}]
  /\ disk \in [Texts -> Texts \cup {NoText}]
  /\ collocations \in 0..MaxVersion
  /\ query \in [Queries -> Query]
  /\ started \in 0..MaxQueries
  /\ errors \in [Versions -> 0..2]

Init ==
  /\ mode \in Modes
  /\ version = 0
  /\ reload = "idle"
  /\ CancellationInit
  /\ holder = NoQuery
  /\ entry = NoEntry /\ failure = NoFailure
  /\ disk = [h \in Texts |-> NoText]
  /\ collocations = 0
  /\ query = [j \in Queries |-> Idle]
  /\ started = 0
  /\ errors = [v \in Versions |-> 0]

Goto(j, stage) == query' = [query EXCEPT ![j].stage = stage]
Unlocked == holder = NoQuery

-------------------------------------------------------------------------------
(* The corpus.                                                             *)

(* A command that replaces the corpus clears the collocations, *)
StartReload ==
  /\ reload = "idle" /\ version < MaxVersion
  /\ reload' = "begun"
  /\ collocations' = 0
  /\ UNCHANGED <<mode, version, slot, holder, index, query, started>>

(* then the index, with the slot and the failure beside it: it waits for   *)
(* the query that holds the mutex, and cancels nothing,                    *)
ClearIndex ==
  /\ reload = "begun" /\ Unlocked
  /\ reload' = "cleared"
  /\ entry' = NoEntry /\ failure' = NoFailure
  /\ active' = NoQuery
  /\ errors' = [v \in Versions |-> 0]
  /\ UNCHANGED <<mode, version, cancelled, holder, disk, collocations, query, started>>

(* then loads the new one, or fails to.                                    *)
LoadCorpus ==
  /\ reload = "cleared"
  /\ version' \in {version, version + 1}
  /\ reload' = "idle"
  /\ UNCHANGED <<mode, slot, holder, index, collocations, query, started>>

(* process_project_sources_command clears the index and not the collocations. *)
ProcessSources ==
  /\ Unlocked
  /\ entry' = NoEntry /\ failure' = NoFailure
  /\ active' = NoQuery
  /\ errors' = [v \in Versions |-> 0]
  /\ UNCHANGED <<corpus, cancelled, holder, disk, collocations, query, started>>

-------------------------------------------------------------------------------
(* A query, step by step.                                                  *)

(* A query is admitted for the loaded corpus version; collocations may be  *)
(* answered from the last aggregate.                                       *)
StartQuery(j, kind) ==
  /\ query[j].stage = "idle" /\ started < MaxQueries /\ version > 0
  /\ started' = started + 1
  /\ IF kind = "collocations" /\ collocations = version THEN UNCHANGED query
     ELSE query' = [query EXCEPT ![j] = [Idle EXCEPT !.stage = "admitted", !.kind = kind,
                                                     !.version = version]]
  /\ UNCHANGED <<corpus, slot, holder, index, collocations>>

Disabled(v) == failure.version = v /\ failure.state = "disabled"

(* A search goes without the index in the scanning mode, and in the default *)
(* mode once the index is disabled for its version.                        *)
ChooseBackend(j) ==
  /\ query[j].stage = "admitted"
  /\ query[j].kind = "search" /\ mode = "default" => Unlocked
  /\ Goto(j, IF query[j].kind = "search"
                /\ (mode = "scan" \/ (mode = "default" /\ Disabled(query[j].version)))
             THEN "rescanning" ELSE "chosen")
  /\ UNCHANGED <<corpus, slot, holder, index, collocations, started>>

BeginQuery(j) ==
  /\ query[j].stage = "chosen" /\ Unlocked
  /\ Begin(j)
  /\ Goto(j, IF mode = "scan" THEN "scanning" ELSE "begun")
  /\ UNCHANGED <<corpus, holder, index, collocations, started>>

(* An entry kept whatever version it is of. *)
EntryAsItIs(v) == IF entry = NoEntry THEN [version |-> v, built |-> 0] ELSE entry

(* An entry of another version is thrown away. *)
EntryFor(v) == IF entry.version = v THEN entry ELSE [version |-> v, built |-> 0]

(* The mutex is taken and kept until the query leaves the index. *)
TakeIndex(j) ==
  /\ query[j].stage = "begun" /\ Unlocked
  /\ holder' = j
  /\ entry' = EntryFor(query[j].version)
  /\ Goto(j, IF entry'.built = 0 THEN "hashing" ELSE "searching")
  /\ UNCHANGED <<corpus, slot, failure, disk, errors, collocations, started>>

(* The texts are read a first time to name the index, *)
HashTexts(j, text) ==
  /\ query[j].stage = "hashing"
  /\ query' = [query EXCEPT ![j].stage = "building", ![j].hashed = text]
  /\ UNCHANGED <<corpus, slot, holder, index, collocations, started>>

(* and, unless a file of that name is found, a second time to build it:    *)
(* the documents may have been written to since.  The file written may     *)
(* push out others, or fail to be written.                                 *)
BuildIndex(j, text) ==
  /\ query[j].stage = "building"
  /\ LET h == query[j].hashed
         found == disk[h] # NoText
         indexed == IF found THEN disk[h] ELSE text
     IN \/ \E kept \in SUBSET Texts :
             disk' = [g \in Texts |-> IF g = h THEN indexed
                                      ELSE IF g \in kept THEN disk[g] ELSE NoText]
        \/ ~ found /\ UNCHANGED disk
  /\ entry' = [entry EXCEPT !.built = query[j].version]
  /\ query' = [query EXCEPT ![j].stage = "searching", ![j].hashed = NoText]
  /\ UNCHANGED <<corpus, slot, holder, failure, errors, collocations, started>>

(* An error that keeps the mutex for the rest of the command. *)
LeaveHoldingIndex(j) ==
  /\ query[j].stage \in {"hashing", "building", "searching"}
  /\ \E outcome \in {"refused", "failed"} :
       query' = [query EXCEPT ![j].stage = outcome, ![j].hashed = NoText]
  /\ UNCHANGED <<corpus, slot, holder, index, collocations, started>>

(* Leaving the index: with an answer, refused for want of memory (or, for  *)
(* collocations, cancelled), or with another error.                        *)
Answer(j) ==
  /\ query[j].stage = "searching"
  /\ ~ (query[j].kind = "collocations" /\ cancelled[j])
  /\ holder' = NoQuery
  /\ failure' = IF failure.version = query[j].version THEN NoFailure ELSE failure
  /\ errors' = [errors EXCEPT ![query[j].version] = 0]
  /\ Goto(j, "answered")
  /\ UNCHANGED <<corpus, slot, entry, disk, collocations, started>>

LeaveWithError(j) ==
  /\ query[j].stage \in {"hashing", "building", "searching"}
  /\ holder' = NoQuery
  /\ \E outcome \in {"refused", "failed"} :
       query' = [query EXCEPT ![j].stage = outcome, ![j].hashed = NoText]
  /\ UNCHANGED <<corpus, slot, index, collocations, started>>

(* Collocations by scanning leave the mutex free.  They poll the token now *)
(* and then, and never when the expression is rare.                        *)
ScanCollocations(j) ==
  /\ query[j].stage = "scanning"
  /\ Goto(j, "answered") \/ Goto(j, "refused")
  /\ UNCHANGED <<corpus, slot, holder, index, collocations, started>>

(* The slot is handed back whatever the outcome; then only a search in the *)
(* default mode goes on after an error, and collocations store the answer. *)
FinishQuery(j) ==
  /\ query[j].stage \in {"answered", "refused", "failed"} /\ Unlocked
  /\ Finish(j)
  /\ query' = [query EXCEPT ![j] =
       IF query[j].stage = "failed" /\ query[j].kind = "search" /\ mode = "default"
       THEN [query[j] EXCEPT !.stage = "recording"]
       ELSE IF query[j].stage = "answered" /\ query[j].kind = "collocations"
       THEN [query[j] EXCEPT !.stage = "inserting"]
       ELSE Idle]
  /\ UNCHANGED <<corpus, holder, index, collocations, started>>

(* A failure that disables for good whichever version it was recorded for. *)
NextFailureOfAny(v) ==
  [version |-> v, state |-> IF failure # NoFailure THEN "disabled" ELSE "retry_pending"]

NextFailure(v) ==
  [version |-> v, state |-> IF failure.version = v /\ failure.state = "retry_pending"
                            THEN "disabled" ELSE "retry_pending"]

(* record_default_index_error; the answer is then found by scanning. *)
RecordError(j) ==
  /\ query[j].stage = "recording" /\ Unlocked
  /\ LET v == query[j].version
     IN /\ entry' = IF entry.version = v THEN NoEntry ELSE entry
        /\ failure' = NextFailure(v)
        /\ errors' = [errors EXCEPT ![v] = IF @ < 2 THEN @ + 1 ELSE @]
  /\ Goto(j, "rescanning")
  /\ UNCHANGED <<corpus, slot, holder, disk, collocations, started>>

Rescan(j) ==
  /\ query[j].stage = "rescanning"
  /\ query' = [query EXCEPT ![j] = Idle]
  /\ UNCHANGED <<corpus, slot, holder, index, collocations, started>>

InsertCollocations(j) ==
  /\ query[j].stage = "inserting"
  /\ collocations' = query[j].version
  /\ query' = [query EXCEPT ![j] = Idle]
  /\ UNCHANGED <<corpus, slot, holder, index, started>>

(* cancel_concordance_command waits for the mutex, too. *)
RequestCancel ==
  /\ Unlocked
  /\ Cancel
  /\ UNCHANGED <<corpus, holder, index, collocations, query, started>>

Step(j) ==
  \/ ChooseBackend(j) \/ BeginQuery(j) \/ TakeIndex(j)
  \/ \E text \in Texts : HashTexts(j, text) \/ BuildIndex(j, text)
  \/ Answer(j) \/ LeaveWithError(j) \/ ScanCollocations(j)
  \/ FinishQuery(j) \/ RecordError(j) \/ Rescan(j) \/ InsertCollocations(j)

Next ==
  \/ \E j \in Queries : Step(j)
  \/ \E j \in Queries, kind \in Kinds : StartQuery(j, kind)
  \/ StartReload \/ ClearIndex \/ LoadCorpus \/ ProcessSources
  \/ RequestCancel

Spec == Init /\ [][Next]_vars /\ \A j \in Queries : WF_vars(Step(j))

-------------------------------------------------------------------------------
(* Properties.                                                             *)

(* A query that holds the mutex works on an index of the corpus version it *)
(* was admitted for, however many reloads, clears and queries for other    *)
(* versions went by while it waited (ConcordanceIndexContextKey).          *)
IndexServesItsVersion ==
  holder # NoQuery =>
    /\ entry.version = query[holder].version
    /\ entry.built \in {0, query[holder].version}

(* The index is given up for a version only after two searches failed in   *)
(* it and none succeeded in between (record_default_index_error,           *)
(* clear_default_index_failure_for).                                       *)
DisabledAfterTwoErrors ==
  failure.state = "disabled" => failure.version \in Versions /\ errors[failure.version] = 2

Tracked == {"begun", "hashing", "building", "searching", "scanning", "answered", "refused", "failed"}

(* The slot holds the token of a query only while that query is at work,   *)
(* whether it succeeds or fails: a cancel request never hits a query that  *)
(* is over (search_concordance_command,                                    *)
(* query_concordance_collocations_command).                                *)
SlotTracksRunningQuery == active # NoQuery => query[active].stage \in Tracked

(* Every query comes to its end: nobody keeps the mutex and waits.         *)
QueriesEnd == \A j \in Queries : query[j].stage # "idle" ~> query[j].stage = "idle"

===============================================================================
