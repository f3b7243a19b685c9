--------------------------- MODULE AnalysisLifecycle ---------------------------
(***************************************************************************)
(* The loaded corpus, the analysis corpus built from it, and the commands  *)
(* that change either.  Every command is an independent invocation: Tauri  *)
(* runs each one on a worker thread, nothing serialises them, and they     *)
(* meet only at the RwLock of CorpusState, the RwLock of AnalysisState and *)
(* the mutex of its cancellation slot.  One action is one critical section *)
(* (or one step outside any lock), so actions of different invocations     *)
(* interleave exactly where the locks are released.                        *)
(*                                                                         *)
(* A corpus is identified by the version under which it was loaded: the    *)
(* documents themselves matter only through whether there are any.  An     *)
(* analysis corpus is identified by the version its records came from.     *)
(* AnalysisStateInner::error is Some exactly in the state Failed (the two  *)
(* are always written together) and is left out.                           *)
(*                                                                         *)
(* The commands also empty the extraction, page, collocation and index     *)
(* caches between the two steps modelled here; ExtractionCache models the  *)
(* first, and none of them is read by the state below.                     *)
(***************************************************************************)

EXTENDS Naturals

CONSTANTS Builds,          \* concurrent invocations of the build command
          Loads,           \* concurrent invocations of the other commands
          NoBuild,         \* the empty cancellation slot
          MaxVersion,      \* bound on corpus versions (u64 in the code)
          MaxGeneration    \* bound on analysis generations (u64 in the code)

ASSUME LifecycleAssumption ==
  /\ NoBuild \notin Builds
  /\ MaxVersion \in Nat
  /\ MaxGeneration \in Nat

VARIABLES
  version,     \* CorpusStateInner::version
  loaded,      \* whether the current version has any record
  analysis,    \* AnalysisStateInner
  active, cancelled,   \* AnalysisState::cancel
  build,       \* build[b]: local state of a build invocation
  load         \* load[l]: local state of another invocation

Token == INSTANCE ActiveCancellation WITH Jobs <- Builds, NoJob <- NoBuild

corpusVars == <<version, loaded>>
tokenVars == <<active, cancelled>>
vars == <<version, loaded, analysis, active, cancelled, build, load>>

-------------------------------------------------------------------------------
(* Types *)

Versions == 0 .. MaxVersion
Generations == 0 .. MaxGeneration

(* Version 0 is the state before any load and generation 0 that before any *)
(* build, so 0 also stands for None in the fields below.                   *)
NoCorpus == 0
NoProgress == 0

StateKinds == {"notBuilt", "building", "ready", "failed", "cancelled"}

AnalysisStates ==
  [generation : Generations,
   state      : StateKinds,
   progress   : Generations,   \* the build whose progress is shown
   corpus     : Versions]      \* the records the corpus was built from

BuildStages == {"idle", "resolved", "admitted", "begun", "running",
                "assembling", "returned", "released", "confirmed"}

Outcomes == {"none", "built", "empty", "cancelled", "failed"}

BuildLocals ==
  [stage      : BuildStages,
   records    : Versions,      \* the version its records were cloned from
   generation : Generations,   \* build_generation
   outcome    : Outcomes]      \* task_result

(* "load": scan_directory, load_files, load_project_source_records;        *)
(* "clear": clear_corpus; "intake": load_pdf_intake_files and              *)
(* prepare_project_pdf_sources; "process": process_project_sources.        *)
LoadKinds == {"load", "clear", "intake", "process"}

LoadStages == {"idle", "processing", "cancelling", "clearing", "unloading",
               "reading"}

LoadLocals == [stage : LoadStages, kind : LoadKinds]

TypeOK ==
  /\ version \in Versions
  /\ loaded \in BOOLEAN
  /\ analysis \in AnalysisStates
  /\ Token!CancellationTypeOK
  /\ build \in [Builds -> BuildLocals]
  /\ load \in [Loads -> LoadLocals]

Idle == [stage |-> "idle", records |-> NoCorpus, generation |-> 0,
         outcome |-> "none"]

Init ==
  /\ version = 0
  /\ loaded = FALSE
  /\ analysis = [generation |-> 0, state |-> "notBuilt",
                 progress |-> NoProgress, corpus |-> NoCorpus]
  /\ Token!CancellationInit
  /\ build = [b \in Builds |-> Idle]
  /\ load = [l \in Loads |-> [stage |-> "idle", kind |-> "load"]]
-------------------------------------------------------------------------------
(* The build command *)

At(b, st) == build[b].stage = st

MoveTo(b, st) == build' = [build EXCEPT ![b].stage = st]

Return(b) == build' = [build EXCEPT ![b] = Idle]

(* Under the corpus lock the request's version is compared with the        *)
(* current one and the records are cloned.  A request for another version, *)
(* or a corpus with no record, returns an error and changes nothing.       *)
ResolveRecords(b) ==
  /\ At(b, "idle")
  /\ loaded
  /\ build' = [build EXCEPT ![b].stage = "resolved", ![b].records = version]
  /\ UNCHANGED <<corpusVars, analysis, tokenVars, load>>

(* A build that runs already makes this one return an error. *)
RefuseWhileBuilding(b) ==
  /\ At(b, "resolved")
  /\ analysis.state = "building"
  /\ Return(b)
  /\ UNCHANGED <<corpusVars, analysis, tokenVars, load>>

Admit(b) ==
  /\ At(b, "resolved")
  /\ analysis.state # "building"
  /\ MoveTo(b, "admitted")
  /\ UNCHANGED <<corpusVars, analysis, tokenVars, load>>

(* The inventory summary or the language overrides cannot be read. *)
FailPreparation(b) ==
  /\ At(b, "admitted")
  /\ Return(b)
  /\ UNCHANGED <<corpusVars, analysis, tokenVars, load>>

TakeToken(b) ==
  /\ At(b, "admitted")
  /\ Token!Begin(b)
  /\ MoveTo(b, "begun")
  /\ UNCHANGED <<corpusVars, analysis, load>>

Building(g) == [generation |-> g, state |-> "building",
                progress |-> NoProgress, corpus |-> NoCorpus]

(* The build receives its generation and the shared state is reset. *)
PublishBuilding(b) ==
  /\ At(b, "begun")
  /\ analysis.generation < MaxGeneration
  /\ analysis' = Building(analysis.generation + 1)
  /\ build' = [build EXCEPT ![b].stage = "running",
                            ![b].generation = analysis.generation + 1]
  /\ UNCHANGED <<corpusVars, tokenVars, load>>

(* A progress callback that does not compare the generation. *)
ReportProgressUnchecked(b) ==
  /\ build[b].stage \in {"running", "assembling"}
  /\ analysis' = [analysis EXCEPT !.progress = build[b].generation]
  /\ UNCHANGED <<corpusVars, tokenVars, build, load>>

(* The worker's progress callback, in any phase of build_analysis_corpus.  *)
ReportProgress(b) ==
  /\ build[b].stage \in {"running", "assembling"}
  /\ build[b].generation = analysis.generation
  /\ analysis' = [analysis EXCEPT !.progress = build[b].generation]
  /\ UNCHANGED <<corpusVars, tokenVars, build, load>>

TaskReturns(b, result) ==
  build' = [build EXCEPT ![b].stage = "returned", ![b].outcome = result]

(* The worker polls the flag before every record, before mapping and       *)
(* before every term.                                                      *)
ObserveCancel(b) ==
  /\ At(b, "running")
  /\ cancelled[b]
  /\ TaskReturns(b, "cancelled")
  /\ UNCHANGED <<corpusVars, analysis, tokenVars, load>>

PassLastCheck(b) ==
  /\ At(b, "running")
  /\ ~cancelled[b]
  /\ MoveTo(b, "assembling")
  /\ UNCHANGED <<corpusVars, analysis, tokenVars, load>>

(* An error or a panic of the worker, before the last check or after it. *)
TaskFails(b) ==
  /\ build[b].stage \in {"running", "assembling"}
  /\ TaskReturns(b, "failed")
  /\ UNCHANGED <<corpusVars, analysis, tokenVars, load>>

(* After the last check the corpus is built, whatever the flag says; it    *)
(* may turn out to hold no document with usable text.                      *)
Assemble(b) ==
  /\ At(b, "assembling")
  /\ \E result \in {"built", "empty"} : TaskReturns(b, result)
  /\ UNCHANGED <<corpusVars, analysis, tokenVars, load>>

(* Back in the command, after the await. *)
ReleaseToken(b) ==
  /\ At(b, "returned")
  /\ Token!Finish(b)
  /\ MoveTo(b, "released")
  /\ UNCHANGED <<corpusVars, analysis, load>>

(* A command that returns early when its task was cancelled. *)
ConfirmUnlessCancelled(b) ==
  /\ At(b, "released")
  /\ IF /\ analysis.generation = build[b].generation
        /\ build[b].outcome # "cancelled"
       THEN MoveTo(b, "confirmed")
       ELSE Return(b)
  /\ UNCHANGED <<corpusVars, analysis, tokenVars, load>>

(* The generation is compared under a read lock, which is then released.   *)
ConfirmGeneration(b) ==
  /\ At(b, "released")
  /\ IF analysis.generation = build[b].generation
       THEN MoveTo(b, "confirmed")
       ELSE Return(b)
  /\ UNCHANGED <<corpusVars, analysis, tokenVars, load>>

(* A completion that leaves the corpus unset for any result but success.   *)
SettledWithRecordsOnly(a, result, records) ==
  [a EXCEPT !.state = result, !.corpus = records]

(* What the result of the task makes of the shared state. *)
Settled(a, result, records) ==
  CASE result = "built"     -> [a EXCEPT !.state = "ready", !.corpus = records]
    [] result = "cancelled" -> [a EXCEPT !.state = "cancelled"]
    [] OTHER                -> [a EXCEPT !.state = "failed"]

(* The outcome is written under a new write lock. *)
Settle(b) ==
  /\ At(b, "confirmed")
  /\ analysis' = Settled(analysis, build[b].outcome, build[b].records)
  /\ Return(b)
  /\ UNCHANGED <<corpusVars, tokenVars, load>>

(* cancel_analysis_build_command, at any moment. *)
CancelBuild ==
  /\ Token!Cancel
  /\ UNCHANGED <<corpusVars, analysis, build, load>>

-------------------------------------------------------------------------------
(* The commands that replace the corpus or its texts *)

LoadAt(l, st) == load[l].stage = st

LoadMoves(l, st) == load' = [load EXCEPT ![l].stage = st]

FirstStage(kind) ==
  CASE kind = "intake"  -> "unloading"
    [] kind = "process" -> "processing"
    [] OTHER            -> "cancelling"

(* process_project_sources resolves records of the current version; an     *)
(* empty selection is an error.                                            *)
StartLoad(l, kind) ==
  /\ LoadAt(l, "idle")
  /\ kind = "process" => loaded
  /\ load' = [load EXCEPT ![l] = [stage |-> FirstStage(kind), kind |-> kind]]
  /\ UNCHANGED <<corpusVars, analysis, tokenVars, build>>

(* The outputs are written; recording them in the inventory may fail, and  *)
(* then the command returns before it clears the analysis.                 *)
WriteOutputs(l) ==
  /\ LoadAt(l, "processing")
  /\ LoadMoves(l, "cancelling") \/ LoadMoves(l, "idle")
  /\ UNCHANGED <<corpusVars, analysis, tokenVars, build>>

(* AnalysisState::clear, first half: the token of the active build. *)
ClearCancelsBuild(l) ==
  /\ LoadAt(l, "cancelling")
  /\ Token!Cancel
  /\ LoadMoves(l, "clearing")
  /\ UNCHANGED <<corpusVars, analysis, build>>

Cleared(g) == [Building(g) EXCEPT !.state = "notBuilt"]

(* AnalysisState::clear, second half, under the write lock. *)
ClearAnalysis(l) ==
  /\ LoadAt(l, "clearing")
  /\ analysis.generation < MaxGeneration
  /\ analysis' = Cleared(analysis.generation + 1)
  /\ LoadMoves(l, CASE load[l].kind = "load"  -> "reading"
                    [] load[l].kind = "clear" -> "unloading"
                    [] OTHER                  -> "idle")
  /\ UNCHANGED <<corpusVars, tokenVars, build>>

(* CorpusStateInner::clear: the end of clear_corpus, the start of an       *)
(* intake, which clears no analysis.                                       *)
UnloadCorpus(l) ==
  /\ LoadAt(l, "unloading")
  /\ version < MaxVersion
  /\ version' = version + 1
  /\ loaded' = FALSE
  /\ LoadMoves(l, IF load[l].kind = "intake" THEN "reading" ELSE "idle")
  /\ UNCHANGED <<analysis, tokenVars, build>>

(* Scanning, reading or extracting the files fails or is cancelled: the    *)
(* corpus stays what it was.                                               *)
ReadingFails(l) ==
  /\ LoadAt(l, "reading")
  /\ LoadMoves(l, "idle")
  /\ UNCHANGED <<corpusVars, analysis, tokenVars, build>>

(* CorpusStateInner::load; a scan may find no file at all. *)
LoadCorpus(l) ==
  /\ LoadAt(l, "reading")
  /\ version < MaxVersion
  /\ version' = version + 1
  /\ loaded' \in BOOLEAN
  /\ load[l].kind = "intake" => loaded'
  /\ LoadMoves(l, "idle")
  /\ UNCHANGED <<analysis, tokenVars, build>>

-------------------------------------------------------------------------------

BuildStep(b) ==
  \/ ResolveRecords(b) \/ RefuseWhileBuilding(b) \/ Admit(b)
  \/ FailPreparation(b) \/ TakeToken(b) \/ PublishBuilding(b)
  \/ ReportProgress(b) \/ ObserveCancel(b) \/ PassLastCheck(b)
  \/ TaskFails(b) \/ Assemble(b) \/ ReleaseToken(b)
  \/ ConfirmGeneration(b) \/ Settle(b)

LoadStep(l) ==
  \/ \E kind \in LoadKinds : StartLoad(l, kind)
  \/ WriteOutputs(l) \/ ClearCancelsBuild(l) \/ ClearAnalysis(l)
  \/ UnloadCorpus(l) \/ ReadingFails(l) \/ LoadCorpus(l)

Next ==
  \/ \E b \in Builds : BuildStep(b)
  \/ \E l \in Loads : LoadStep(l)
  \/ CancelBuild

(* Once its generation is published a build is driven by the runtime: the  *)
(* blocking task runs to its end, the awaiting command is resumed, and no  *)
(* lock is held across an await.  Nothing obliges a user to start a        *)
(* command, and the other commands may stay in their file I/O.             *)
BuildProceeds(b) ==
  \/ ObserveCancel(b) \/ PassLastCheck(b) \/ TaskFails(b) \/ Assemble(b)
  \/ ReleaseToken(b) \/ ConfirmGeneration(b) \/ Settle(b)

Fairness == \A b \in Builds : WF_vars(BuildProceeds(b))

Spec == Init /\ [][Next]_vars /\ Fairness

-------------------------------------------------------------------------------
(* Properties *)

(* A build owns its token from begin to finish. *)
HoldsToken(b) ==
  build[b].stage \in {"begun", "running", "assembling", "returned"}

(* A build has a generation of its own from publication to its end. *)
HasGeneration(b) ==
  build[b].stage \in {"running", "assembling", "returned", "released",
                      "confirmed"}

(* The progress shown was reported by the build of the current generation: *)
(* a superseded build never overwrites the progress of its successor, and  *)
(* clearing leaves none behind.                                            *)
ProgressIsCurrent ==
  analysis.progress # NoProgress => analysis.progress = analysis.generation

(* Whenever the state says Building, some build invocation that has not    *)
(* returned carries the current generation and will settle it, so that no  *)
(* early return, error, cancellation or superseding command can leave the  *)
(* state stuck and every later build refused.                              *)
BuildingHasOwner ==
  analysis.state = "building" =>
    \E b \in Builds : HasGeneration(b) /\ build[b].generation = analysis.generation

(* No two builds ever believe in the same generation. *)
GenerationsAreUnique ==
  \A b, c \in Builds :
    /\ HasGeneration(b) /\ HasGeneration(c)
    /\ build[b].generation = build[c].generation
    => b = c

(* A build whose token is clear is the one the cancel command would reach. *)
LiveBuildIsTracked ==
  \A b \in Builds : HoldsToken(b) /\ ~cancelled[b] => active = b

(* The state never stays Building: the build that owns it settles, or a    *)
(* later command replaces it.                                              *)
BuildingEnds == analysis.state = "building" ~> analysis.state # "building"

===============================================================================
