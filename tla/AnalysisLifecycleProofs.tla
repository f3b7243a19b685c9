------------------------ MODULE AnalysisLifecycleProofs ------------------------
(***************************************************************************)
(* Proofs about AnalysisLifecycle for any number of build invocations and  *)
(* other commands and any bounds on versions and generations.              *)
(***************************************************************************)
EXTENDS AnalysisLifecycle, TLAPS

USE DEF Versions, Generations, NoCorpus, NoProgress

LEMMA TokenTypes ==
  ASSUME TypeOK, NEW b \in Builds,
         Token!Begin(b) \/ Token!Cancel \/ Token!Finish(b)
  PROVE  Token!CancellationTypeOK'
BY DEF TypeOK, Token!CancellationTypeOK, Token!Begin, Token!Cancel, Token!Finish

LEMMA InitTypeOK == Init => TypeOK
<1> SUFFICES ASSUME Init
             PROVE  TypeOK
  OBVIOUS
<1> USE LifecycleAssumption DEF Init
<1>1. /\ version \in Versions
      /\ loaded \in BOOLEAN
  <2>1. version \in Versions
    OBVIOUS
  <2>2. loaded \in BOOLEAN
    BY Zenon
  <2>3. QED
    BY <2>1, <2>2
<1>2. analysis \in AnalysisStates
  BY DEF AnalysisStates, StateKinds
<1>3. Token!CancellationTypeOK
  BY DEF Token!CancellationTypeOK, Token!CancellationInit
<1>4. build \in [Builds -> BuildLocals]
  BY DEF Idle, BuildLocals, BuildStages, Outcomes
<1>5. load \in [Loads -> LoadLocals]
  BY DEF LoadLocals, LoadStages, LoadKinds
<1>6. QED
  BY <1>1, <1>2, <1>3, <1>4, <1>5 DEF TypeOK

(* Each step of a build keeps the types.  Most steps only move the local   *)
(* state of the invocation.                                                *)
LEMMA BuildStepTypeOK ==
  ASSUME TypeOK, NEW b \in Builds, BuildStep(b)
  PROVE  TypeOK'
<1> USE LifecycleAssumption DEF At, MoveTo, Return, TaskReturns
<1>1. build' \in [Builds -> BuildLocals]
  <2> USE DEF TypeOK, BuildLocals, BuildStages, Outcomes
  <2>1. CASE ResolveRecords(b)
    BY <2>1, ZenonT(60) DEF ResolveRecords
  <2>2. CASE RefuseWhileBuilding(b) \/ FailPreparation(b) \/ Settle(b)
    BY <2>2 DEF RefuseWhileBuilding, FailPreparation, Settle, Idle
  <2>3. CASE Admit(b) \/ TakeToken(b) \/ PassLastCheck(b) \/ ReleaseToken(b)
    BY <2>3 DEF Admit, TakeToken, PassLastCheck, ReleaseToken
  <2>4. CASE PublishBuilding(b)
    <3>1. analysis.generation + 1 \in Generations
      BY <2>4 DEF PublishBuilding, AnalysisStates
    <3>2. QED
      BY <2>4, <3>1, ZenonT(60) DEF PublishBuilding
  <2>5. CASE ReportProgress(b)
    BY <2>5 DEF ReportProgress
  <2>6. CASE ObserveCancel(b) \/ TaskFails(b) \/ Assemble(b)
    BY <2>6 DEF ObserveCancel, TaskFails, Assemble
  <2>7. CASE ConfirmGeneration(b)
    BY <2>7 DEF ConfirmGeneration, Idle
  <2>8. QED
    BY BuildStep(b), <2>1, <2>2, <2>3, <2>4, <2>5, <2>6, <2>7 DEF BuildStep
<1>2. analysis' \in AnalysisStates
  <2> USE DEF TypeOK, AnalysisStates, StateKinds
  <2>1. CASE PublishBuilding(b)
    BY <2>1 DEF PublishBuilding, Building
  <2>2. CASE ReportProgress(b)
    BY <2>2 DEF ReportProgress
  <2>3. CASE Settle(b)
    <3>1. /\ build[b].records \in Versions
          /\ analysis' = Settled(analysis, build[b].outcome, build[b].records)
      BY <2>3 DEF Settle, BuildLocals
    <3>2. ASSUME NEW result, NEW records \in Versions
          PROVE  Settled(analysis, result, records) \in AnalysisStates
      BY DEF Settled
    <3>3. QED
      BY <3>1, <3>2
  <2>4. CASE UNCHANGED analysis
    BY <2>4
  <2>5. QED
    BY BuildStep(b), <2>1, <2>2, <2>3, <2>4
    DEF BuildStep, ResolveRecords, RefuseWhileBuilding, Admit, FailPreparation,
        TakeToken, ObserveCancel, PassLastCheck, TaskFails, Assemble,
        ReleaseToken, ConfirmGeneration
<1>3. Token!CancellationTypeOK'
  <2>1. CASE TakeToken(b) \/ ReleaseToken(b)
    BY <2>1, TokenTypes DEF TakeToken, ReleaseToken
  <2>2. CASE UNCHANGED tokenVars
    BY <2>2 DEF tokenVars, TypeOK, Token!CancellationTypeOK
  <2>3. QED
    BY BuildStep(b), <2>1, <2>2
    DEF BuildStep, ResolveRecords, RefuseWhileBuilding, Admit, FailPreparation,
        PublishBuilding, ReportProgress, ObserveCancel, PassLastCheck,
        TaskFails, Assemble, ConfirmGeneration, Settle
<1>4. UNCHANGED <<corpusVars, load>>
  BY BuildStep(b)
  DEF BuildStep, ResolveRecords, RefuseWhileBuilding, Admit, FailPreparation,
      TakeToken, PublishBuilding, ReportProgress, ObserveCancel, PassLastCheck,
      TaskFails, Assemble, ReleaseToken, ConfirmGeneration, Settle
<1>5. QED
  BY <1>1, <1>2, <1>3, <1>4 DEF TypeOK, corpusVars

(* Each step of another command keeps the types. *)
LEMMA LoadStepTypeOK ==
  ASSUME TypeOK, NEW l \in Loads, LoadStep(l)
  PROVE  TypeOK'
<1> USE LifecycleAssumption DEF LoadAt, LoadMoves, corpusVars, tokenVars
<1>1. ASSUME NEW kind \in LoadKinds, StartLoad(l, kind)
      PROVE  TypeOK'
  <2>1. FirstStage(kind) \in LoadStages
    BY DEF FirstStage, LoadKinds, LoadStages
  <2>2. load' \in [Loads -> LoadLocals]
    BY <1>1, <2>1 DEF StartLoad, TypeOK, LoadLocals
  <2>3. QED
    BY <1>1, <2>2 DEF StartLoad, TypeOK, Token!CancellationTypeOK
<1>2. CASE WriteOutputs(l) \/ ReadingFails(l)
  <2>1. load' \in [Loads -> LoadLocals]
    BY <1>2 DEF WriteOutputs, ReadingFails, TypeOK, LoadLocals, LoadStages
  <2>2. QED
    BY <1>2, <2>1
    DEF WriteOutputs, ReadingFails, TypeOK, Token!CancellationTypeOK
<1>3. CASE ClearCancelsBuild(l)
  <2>1. load' \in [Loads -> LoadLocals]
    BY <1>3 DEF ClearCancelsBuild, TypeOK, LoadLocals, LoadStages
  <2>2. Token!CancellationTypeOK'
    BY <1>3 DEF ClearCancelsBuild, Token!Cancel, TypeOK, Token!CancellationTypeOK
  <2>3. QED
    BY <1>3, <2>1, <2>2 DEF ClearCancelsBuild, TypeOK
<1>4. CASE ClearAnalysis(l)
  <2>1. analysis' \in AnalysisStates
    BY <1>4
    DEF ClearAnalysis, Cleared, Building, TypeOK, AnalysisStates, StateKinds
  <2>2. load' \in [Loads -> LoadLocals]
    BY <1>4 DEF ClearAnalysis, TypeOK, LoadLocals, LoadStages
  <2>3. QED
    BY <1>4, <2>1, <2>2 DEF ClearAnalysis, TypeOK, Token!CancellationTypeOK
<1>5. CASE UnloadCorpus(l) \/ LoadCorpus(l)
  <2>1. version' \in Versions
    BY <1>5 DEF UnloadCorpus, LoadCorpus, TypeOK
  <2>2. loaded' \in BOOLEAN
    <3>1. CASE UnloadCorpus(l)
      BY <3>1, Zenon DEF UnloadCorpus
    <3>2. CASE LoadCorpus(l)
      BY <3>2, Zenon DEF LoadCorpus
    <3>3. QED
      BY <1>5, <3>1, <3>2
  <2>3. load' \in [Loads -> LoadLocals]
    BY <1>5 DEF UnloadCorpus, LoadCorpus, TypeOK, LoadLocals, LoadStages
  <2>4. QED
    BY <1>5, <2>1, <2>2, <2>3
    DEF UnloadCorpus, LoadCorpus, TypeOK, Token!CancellationTypeOK
<1>6. QED
  BY LoadStep(l), <1>1, <1>2, <1>3, <1>4, <1>5 DEF LoadStep

LEMMA NextTypeOK == TypeOK /\ [Next]_vars => TypeOK'
<1> SUFFICES ASSUME TypeOK, [Next]_vars
             PROVE  TypeOK'
  OBVIOUS
<1>1. CASE CancelBuild
  BY <1>1 DEF CancelBuild, corpusVars, Token!Cancel, TypeOK,
              Token!CancellationTypeOK
<1>2. CASE UNCHANGED vars
  BY <1>2 DEF vars, TypeOK, Token!CancellationTypeOK
<1>3. QED
  BY <1>1, <1>2, BuildStepTypeOK, LoadStepTypeOK DEF Next

(* Every variable keeps its type; in particular the analysis state, the    *)
(* slot and the local states of all invocations stay within the kinds the  *)
(* code distinguishes.                                                     *)
THEOREM TypeCorrect == Spec => []TypeOK
BY InitTypeOK, NextTypeOK, PTL DEF Spec

-------------------------------------------------------------------------------
(* The inductive invariant.  GenerationsAreUnique and BuildingHasOwner need *)
(* to know that every generation handed out is positive and not above the   *)
(* current one, so that the next one is new.                                *)

GenerationsAreIssued ==
  \A b \in Builds :
    HasGeneration(b) => build[b].generation \in 1 .. analysis.generation

IInv ==
  /\ ProgressIsCurrent
  /\ BuildingHasOwner
  /\ GenerationsAreUnique
  /\ GenerationsAreIssued
  /\ LiveBuildIsTracked

LEMMA InitIInv == Init => IInv
BY DEF Init, Idle, Token!CancellationInit, IInv, ProgressIsCurrent,
       BuildingHasOwner, GenerationsAreUnique, GenerationsAreIssued,
       LiveBuildIsTracked, HasGeneration, HoldsToken

(* What the build table looks like after a step of b: every other entry is *)
(* unchanged.                                                              *)
LEMMA OtherBuildsUnchanged ==
  ASSUME TypeOK, NEW b \in Builds, BuildStep(b),
         NEW c \in Builds, c # b
  PROVE  build'[c] = build[c]
BY DEF TypeOK, BuildStep, ResolveRecords, RefuseWhileBuilding, Admit,
       FailPreparation, TakeToken, PublishBuilding, ReportProgress,
       ObserveCancel, PassLastCheck, TaskFails, Assemble, ReleaseToken,
       ConfirmGeneration, Settle, MoveTo, Return, TaskReturns

(* A step that leaves the analysis state and the slot alone and changes    *)
(* neither what b holds nor its generation preserves the invariant.        *)
LEMMA QuietStep ==
  ASSUME TypeOK, IInv, NEW b \in Builds,
         UNCHANGED <<analysis, tokenVars>>,
         \A c \in Builds : (HasGeneration(c)' <=> HasGeneration(c)),
         \A c \in Builds : HoldsToken(c)' => HoldsToken(c),
         \A c \in Builds : HasGeneration(c) =>
                            build'[c].generation = build[c].generation
  PROVE  IInv'
<1>1. ProgressIsCurrent' /\ BuildingHasOwner'
  BY DEF IInv, ProgressIsCurrent, BuildingHasOwner
<1>2. GenerationsAreUnique' /\ GenerationsAreIssued'
  BY DEF IInv, GenerationsAreUnique, GenerationsAreIssued
<1>3. LiveBuildIsTracked'
  BY DEF IInv, LiveBuildIsTracked, tokenVars
<1>4. QED
  BY <1>1, <1>2, <1>3 DEF IInv

(* The steps of a build before it has a generation, and of its worker. *)
LEMMA LocalStepIInv ==
  ASSUME TypeOK, IInv, NEW b \in Builds,
         \/ ResolveRecords(b) \/ RefuseWhileBuilding(b) \/ Admit(b)
         \/ FailPreparation(b) \/ ObserveCancel(b) \/ PassLastCheck(b)
         \/ TaskFails(b) \/ Assemble(b)
  PROVE  IInv'
<1> USE DEF ResolveRecords, RefuseWhileBuilding, Admit, FailPreparation,
            ObserveCancel, PassLastCheck, TaskFails, Assemble
<1> USE DEF At, MoveTo, Return, TaskReturns, Idle
<1>1. UNCHANGED <<analysis, tokenVars>>
  OBVIOUS
<1>2. \A c \in Builds \ {b} : build'[c] = build[c]
  BY DEF TypeOK
<1>3. \/ /\ build[b].stage \in {"idle", "resolved", "admitted"}
         /\ build'[b].stage \in {"idle", "resolved", "admitted"}
      \/ /\ build[b].stage \in {"running", "assembling"}
         /\ build'[b].stage \in {"assembling", "returned"}
         /\ build'[b].generation = build[b].generation
  BY DEF TypeOK, BuildLocals
<1>4. \A c \in Builds : HasGeneration(c)' <=> HasGeneration(c)
  BY <1>2, <1>3 DEF HasGeneration
<1>5. \A c \in Builds : HoldsToken(c)' => HoldsToken(c)
  BY <1>2, <1>3 DEF HoldsToken
<1>6. \A c \in Builds : HasGeneration(c) =>
                         build'[c].generation = build[c].generation
  BY <1>2, <1>3 DEF HasGeneration
<1>7. QED
  BY <1>1, <1>4, <1>5, <1>6, QuietStep

(* The steps that touch the slot. *)
LEMMA TokenStepIInv ==
  ASSUME TypeOK, IInv, NEW b \in Builds, TakeToken(b) \/ ReleaseToken(b)
  PROVE  IInv'
<1> USE DEF TakeToken, ReleaseToken, At, MoveTo, TypeOK
<1>1. \A c \in Builds : /\ (HasGeneration(c)' <=> HasGeneration(c))
                        /\ build'[c].generation = build[c].generation
  BY DEF HasGeneration, BuildLocals
<1>2. ProgressIsCurrent' /\ BuildingHasOwner'
  BY <1>1 DEF IInv, ProgressIsCurrent, BuildingHasOwner
<1>3. GenerationsAreUnique' /\ GenerationsAreIssued'
  BY <1>1 DEF IInv, GenerationsAreUnique, GenerationsAreIssued
<1>4. LiveBuildIsTracked'
  <2>1. CASE TakeToken(b)
    BY <2>1 DEF IInv, LiveBuildIsTracked, HoldsToken, Token!Begin,
                Token!CancellationTypeOK
  <2>2. CASE ReleaseToken(b)
    BY <2>2, LifecycleAssumption
    DEF IInv, LiveBuildIsTracked, HoldsToken, Token!Finish
  <2>3. QED
    BY <2>1, <2>2
<1>5. QED
  BY <1>2, <1>3, <1>4 DEF IInv

LEMMA PublishIInv ==
  ASSUME TypeOK, IInv, NEW b \in Builds, PublishBuilding(b)
  PROVE  IInv'
<1> DEFINE g == analysis.generation + 1
<1> USE DEF PublishBuilding, At, TypeOK
<1>1. /\ analysis' = Building(g)
      /\ g \in Nat \ {0}
      /\ analysis.generation < g
      /\ analysis.generation \in Nat
  BY DEF AnalysisStates
<1>2. build'[b].generation = g /\ HasGeneration(b)'
  BY DEF HasGeneration, BuildLocals
<1>3. \A c \in Builds \ {b} : build'[c] = build[c]
  OBVIOUS
<1>4. \A c \in Builds \ {b} :
        /\ (HasGeneration(c)' <=> HasGeneration(c))
        /\ HasGeneration(c) => build'[c].generation \in 1 .. analysis.generation
  BY <1>3 DEF HasGeneration, IInv, GenerationsAreIssued
<1>5. ProgressIsCurrent' /\ BuildingHasOwner'
  BY <1>1, <1>2 DEF ProgressIsCurrent, BuildingHasOwner, Building
<1>6. GenerationsAreUnique'
  BY <1>1, <1>2, <1>3, <1>4 DEF IInv, GenerationsAreUnique
<1>7. GenerationsAreIssued'
  BY <1>1, <1>2, <1>4 DEF GenerationsAreIssued, Building
<1>8. LiveBuildIsTracked'
  BY DEF IInv, LiveBuildIsTracked, HoldsToken, tokenVars
<1>9. QED
  BY <1>5, <1>6, <1>7, <1>8 DEF IInv

LEMMA ProgressIInv ==
  ASSUME TypeOK, IInv, NEW b \in Builds, ReportProgress(b)
  PROVE  IInv'
BY DEF ReportProgress, tokenVars, TypeOK, AnalysisStates, IInv, ProgressIsCurrent,
       BuildingHasOwner, GenerationsAreUnique, GenerationsAreIssued,
       LiveBuildIsTracked, HasGeneration, HoldsToken

(* Only a build whose generation is not current leaves at the check. *)
LEMMA ConfirmIInv ==
  ASSUME TypeOK, IInv, NEW b \in Builds, ConfirmGeneration(b)
  PROVE  IInv'
<1> USE DEF ConfirmGeneration, At, MoveTo, Return, Idle, TypeOK
<1>1. \A c \in Builds : HasGeneration(c)' =>
        HasGeneration(c) /\ build'[c].generation = build[c].generation
  BY DEF HasGeneration, BuildLocals
<1>2. \A c \in Builds :
        HasGeneration(c) /\ build[c].generation = analysis.generation =>
        HasGeneration(c)' /\ build'[c].generation = build[c].generation
  BY DEF HasGeneration, BuildLocals
<1>3. ProgressIsCurrent' /\ BuildingHasOwner'
  BY <1>2 DEF IInv, ProgressIsCurrent, BuildingHasOwner
<1>4. GenerationsAreUnique' /\ GenerationsAreIssued'
  BY <1>1 DEF IInv, GenerationsAreUnique, GenerationsAreIssued
<1>5. LiveBuildIsTracked'
  <2>1. \A c \in Builds : HoldsToken(c)' => HoldsToken(c)
    <3>1. \A c \in Builds \ {b} : build'[c] = build[c]
      OBVIOUS
    <3>2. ~HoldsToken(b)'
      BY DEF HoldsToken, BuildLocals
    <3>3. QED
      BY <3>1, <3>2 DEF HoldsToken
  <2>2. QED
    BY <2>1 DEF IInv, LiveBuildIsTracked, tokenVars
<1>6. QED
  BY <1>3, <1>4, <1>5 DEF IInv

(* Settling ends the state Building, even when it comes too late. *)
LEMMA SettleIInv ==
  ASSUME TypeOK, IInv, NEW b \in Builds, Settle(b)
  PROVE  IInv'
<1> USE DEF Settle, At, Return, Idle, TypeOK
<1>1. /\ analysis'.generation = analysis.generation
      /\ analysis'.progress = analysis.progress
      /\ analysis'.state # "building"
  BY DEF Settled, AnalysisStates
<1>2. \A c \in Builds : HasGeneration(c)' =>
        HasGeneration(c) /\ build'[c].generation = build[c].generation
  BY DEF HasGeneration
<1>3. ProgressIsCurrent' /\ BuildingHasOwner'
  BY <1>1 DEF IInv, ProgressIsCurrent, BuildingHasOwner
<1>4. GenerationsAreUnique' /\ GenerationsAreIssued'
  BY <1>1, <1>2 DEF IInv, GenerationsAreUnique, GenerationsAreIssued
<1>5. LiveBuildIsTracked'
  BY DEF IInv, LiveBuildIsTracked, HoldsToken, tokenVars
<1>6. QED
  BY <1>3, <1>4, <1>5 DEF IInv

(* Setting the flag of the tracked build cannot make another one live. *)
LEMMA CancelKeepsTracked ==
  ASSUME TypeOK, IInv, Token!Cancel, UNCHANGED build
  PROVE  LiveBuildIsTracked'
BY DEF TypeOK, IInv, LiveBuildIsTracked, HoldsToken, Token!Cancel,
       Token!CancellationTypeOK

LEMMA LoadStepIInv ==
  ASSUME TypeOK, IInv, NEW l \in Loads, LoadStep(l)
  PROVE  IInv'
<1>1. CASE ClearAnalysis(l)
  <2>1. /\ analysis'.generation = analysis.generation + 1
        /\ analysis'.progress = NoProgress
        /\ analysis'.state = "notBuilt"
        /\ analysis.generation \in Nat
    BY <1>1 DEF ClearAnalysis, Cleared, Building, TypeOK, AnalysisStates
  <2>2. UNCHANGED <<build, active, cancelled>>
    BY <1>1 DEF ClearAnalysis, tokenVars
  <2>3. ProgressIsCurrent' /\ BuildingHasOwner'
    BY <2>1 DEF ProgressIsCurrent, BuildingHasOwner
  <2>4. GenerationsAreUnique' /\ GenerationsAreIssued'
    BY <2>1, <2>2
    DEF IInv, GenerationsAreUnique, GenerationsAreIssued, HasGeneration
  <2>5. LiveBuildIsTracked'
    BY <2>2 DEF IInv, LiveBuildIsTracked, HoldsToken
  <2>6. QED
    BY <2>3, <2>4, <2>5 DEF IInv
<1>2. CASE ClearCancelsBuild(l)
  <2>1. LiveBuildIsTracked'
    BY <1>2, CancelKeepsTracked DEF ClearCancelsBuild
  <2>2. QED
    BY <1>2, <2>1
    DEF ClearCancelsBuild, IInv, ProgressIsCurrent, BuildingHasOwner,
        GenerationsAreUnique, GenerationsAreIssued, HasGeneration
<1>3. CASE UNCHANGED <<analysis, tokenVars, build>>
  BY <1>3
  DEF IInv, ProgressIsCurrent, BuildingHasOwner, GenerationsAreUnique,
      GenerationsAreIssued, LiveBuildIsTracked, HasGeneration, HoldsToken,
      tokenVars
<1>4. QED
  BY LoadStep(l), <1>1, <1>2, <1>3
  DEF LoadStep, StartLoad, WriteOutputs, UnloadCorpus, ReadingFails, LoadCorpus

LEMMA NextIInv == TypeOK /\ IInv /\ [Next]_vars => IInv'
<1> SUFFICES ASSUME TypeOK, IInv, [Next]_vars
             PROVE  IInv'
  OBVIOUS
<1>1. ASSUME NEW b \in Builds, BuildStep(b)
      PROVE  IInv'
  BY <1>1, LocalStepIInv, TokenStepIInv, PublishIInv, ProgressIInv,
     ConfirmIInv, SettleIInv DEF BuildStep
<1>2. CASE CancelBuild
  <2>1. LiveBuildIsTracked'
    BY <1>2, CancelKeepsTracked DEF CancelBuild
  <2>2. QED
    BY <1>2, <2>1
    DEF CancelBuild, IInv, ProgressIsCurrent, BuildingHasOwner,
        GenerationsAreUnique, GenerationsAreIssued, HasGeneration
<1>3. CASE UNCHANGED vars
  BY <1>3
  DEF vars, IInv, ProgressIsCurrent, BuildingHasOwner, GenerationsAreUnique,
      GenerationsAreIssued, LiveBuildIsTracked, HasGeneration, HoldsToken
<1>4. QED
  BY <1>1, <1>2, <1>3, LoadStepIInv DEF Next

LEMMA Invariance == Spec => [](TypeOK /\ IInv)
<1>1. Init => TypeOK /\ IInv
  BY InitTypeOK, InitIInv
<1>2. TypeOK /\ IInv /\ [Next]_vars => (TypeOK /\ IInv)'
  BY NextTypeOK, NextIInv
<1>3. QED
  BY <1>1, <1>2, PTL DEF Spec

(* The progress shown always belongs to the current generation, however    *)
(* builds and clears overlap.                                              *)
THEOREM ProgressAlwaysCurrent == Spec => []ProgressIsCurrent
<1>1. IInv => ProgressIsCurrent
  BY DEF IInv
<1>2. QED
  BY <1>1, Invariance, PTL

(* The state Building always has a build that will settle it.              *)
THEOREM BuildingAlwaysOwned == Spec => []BuildingHasOwner
<1>1. IInv => BuildingHasOwner
  BY DEF IInv
<1>2. QED
  BY <1>1, Invariance, PTL

(* Two builds in flight never hold the same generation.                    *)
THEOREM GenerationsAlwaysUnique == Spec => []GenerationsAreUnique
<1>1. IInv => GenerationsAreUnique
  BY DEF IInv
<1>2. QED
  BY <1>1, Invariance, PTL

(* Every build that is not cancelled can be cancelled.                     *)
THEOREM LiveBuildAlwaysTracked == Spec => []LiveBuildIsTracked
<1>1. IInv => LiveBuildIsTracked
  BY DEF IInv
<1>2. QED
  BY <1>1, Invariance, PTL

-------------------------------------------------------------------------------
(* The builds that may still be cancelled and deliver, as the jobs of      *)
(* OneActiveJob.                                                           *)
LiveBuilds == {b \in Builds : HoldsToken(b) /\ ~cancelled[b]}

Promise == INSTANCE OneActiveJob WITH Jobs <- Builds, live <- LiveBuilds

(* A step that moves one invocation outside the stretch in which it holds  *)
(* its token, or within it, changes nothing about who is live.             *)
LEMMA StretchKept ==
  ASSUME TypeOK, NEW b \in Builds, UNCHANGED cancelled,
         \A c \in Builds : c # b => build'[c] = build[c],
         HoldsToken(b) <=> HoldsToken(b)'
  PROVE  UNCHANGED LiveBuilds
<1>1. ASSUME NEW c \in Builds PROVE HoldsToken(c) <=> HoldsToken(c)'
  BY DEF HoldsToken
<1> QED
  BY <1>1 DEF LiveBuilds

LEMMA BuildStepImplements ==
  ASSUME TypeOK, IInv, NEW b \in Builds, BuildStep(b)
  PROVE  Promise!Next \/ UNCHANGED LiveBuilds
<1> USE DEF At, MoveTo, Return, TaskReturns
<1>0. /\ build \in [Builds -> BuildLocals] /\ cancelled \in [Builds -> BOOLEAN]
      /\ LiveBuildIsTracked
  BY DEF TypeOK, Token!CancellationTypeOK, IInv
<1>1. CASE TakeToken(b)
  <2>1. /\ cancelled' = [k \in Builds |-> k # b /\ (cancelled[k] \/ k = active)]
        /\ build' = [build EXCEPT ![b].stage = "begun"]
    BY <1>1 DEF TakeToken, Token!Begin
  <2>2. HoldsToken(b)' /\ ~cancelled'[b]
    BY <1>0, <2>1 DEF HoldsToken, BuildLocals
  <2>3. ASSUME NEW c \in Builds, c # b, HoldsToken(c)' PROVE cancelled'[c]
    BY <1>0, <2>1, <2>3 DEF HoldsToken, LiveBuildIsTracked
  <2>4. Promise!Start(b)
    BY <2>2, <2>3 DEF LiveBuilds, Promise!Start
  <2> QED
    BY <2>4 DEF Promise!Next
<1>2. CASE ReleaseToken(b)
  <2>1. /\ UNCHANGED cancelled
        /\ build' = [build EXCEPT ![b].stage = "released"]
    BY <1>2 DEF ReleaseToken, Token!Finish
  <2>2. ~HoldsToken(b)' /\ \A c \in Builds : c # b => (HoldsToken(c) <=> HoldsToken(c)')
    BY <1>0, <2>1 DEF HoldsToken, BuildLocals
  <2>3. Promise!Leave(b)
    BY <2>1, <2>2 DEF LiveBuilds, Promise!Leave
  <2> QED
    BY <2>3 DEF Promise!Next
<1>3. CASE ~TakeToken(b) /\ ~ReleaseToken(b)
  <2>1. UNCHANGED cancelled
    BY <1>3, BuildStep(b)
    DEF BuildStep, ResolveRecords, RefuseWhileBuilding, Admit, FailPreparation,
        PublishBuilding, ReportProgress, ObserveCancel, PassLastCheck,
        TaskFails, Assemble, ConfirmGeneration, Settle, tokenVars
  <2>2. \A c \in Builds : c # b => build'[c] = build[c]
    BY <1>0, <1>3, BuildStep(b)
    DEF BuildStep, ResolveRecords, RefuseWhileBuilding, Admit, FailPreparation,
        PublishBuilding, ReportProgress, ObserveCancel, PassLastCheck,
        TaskFails, Assemble, ConfirmGeneration, Settle
  <2>3. HoldsToken(b) <=> HoldsToken(b)'
    <3> USE <1>0 DEF HoldsToken, BuildLocals, Idle
    <3>1. CASE ResolveRecords(b) \/ RefuseWhileBuilding(b) \/ Admit(b) \/ FailPreparation(b)
      BY <3>1 DEF ResolveRecords, RefuseWhileBuilding, Admit, FailPreparation
    <3>2. CASE PublishBuilding(b) \/ ReportProgress(b)
      BY <3>2 DEF PublishBuilding, ReportProgress
    <3>3. CASE ObserveCancel(b) \/ PassLastCheck(b) \/ TaskFails(b) \/ Assemble(b)
      BY <3>3 DEF ObserveCancel, PassLastCheck, TaskFails, Assemble
    <3>4. CASE ConfirmGeneration(b) \/ Settle(b)
      BY <3>4 DEF ConfirmGeneration, Settle
    <3> QED
      BY <1>3, BuildStep(b), <3>1, <3>2, <3>3, <3>4 DEF BuildStep
  <2> QED
    BY <2>1, <2>2, <2>3, StretchKept
<1> QED
  BY <1>1, <1>2, <1>3

(* A cancellation request, from the command or from a clear, leaves nobody *)
(* live: the build it reaches is the only one.                             *)
LEMMA CancelImplements ==
  ASSUME TypeOK, IInv, Token!Cancel, UNCHANGED build
  PROVE  Promise!Next
<1>1. cancelled' = [k \in Builds |-> cancelled[k] \/ k = active]
  BY DEF Token!Cancel
<1>2. ASSUME NEW c \in Builds, HoldsToken(c)' PROVE cancelled'[c]
  BY <1>1, <1>2 DEF HoldsToken, IInv, LiveBuildIsTracked
<1>3. Promise!Stop
  BY <1>2 DEF LiveBuilds, Promise!Stop
<1> QED
  BY <1>3 DEF Promise!Next

LEMMA StepImplements == TypeOK /\ IInv /\ [Next]_vars => [Promise!Next]_LiveBuilds
<1> SUFFICES ASSUME TypeOK, IInv, [Next]_vars
             PROVE  Promise!Next \/ UNCHANGED LiveBuilds
  OBVIOUS
<1>1. ASSUME NEW b \in Builds, BuildStep(b)
      PROVE  Promise!Next \/ UNCHANGED LiveBuilds
  BY <1>1, BuildStepImplements
<1>2. ASSUME NEW l \in Loads, LoadStep(l)
      PROVE  Promise!Next \/ UNCHANGED LiveBuilds
  <2>1. CASE ClearCancelsBuild(l)
    BY <2>1, CancelImplements DEF ClearCancelsBuild
  <2>2. CASE UNCHANGED <<build, cancelled>>
    BY <2>2 DEF LiveBuilds, HoldsToken
  <2> QED
    BY <1>2, <2>1, <2>2
    DEF LoadStep, StartLoad, WriteOutputs, ClearAnalysis, UnloadCorpus,
        ReadingFails, LoadCorpus, tokenVars
<1>3. CASE CancelBuild
  BY <1>3, CancelImplements DEF CancelBuild
<1>4. CASE UNCHANGED vars
  BY <1>4 DEF vars, LiveBuilds, HoldsToken
<1> QED
  BY <1>1, <1>2, <1>3, <1>4 DEF Next

(* The builds that hold a token and were not cancelled implement           *)
(* OneActiveJob: of overlapping build commands at most one is live, the    *)
(* last to take a token; the cancel command and every clear leave none     *)
(* (AnalysisState::cancel, analysis/commands.rs).                          *)
THEOREM BuildsImplementOneActiveJob == Spec => Promise!Spec
<1>1. Init => Promise!Init
  BY DEF Init, Promise!Init, LiveBuilds, HoldsToken, Idle
<1> QED
  BY <1>1, StepImplements, Invariance, PTL DEF Spec, Promise!Spec
===============================================================================
