------------------------- MODULE CancellableJobsProofs -------------------------
(***************************************************************************)
(* Proofs about CancellableJobs for any set of jobs: the slot invariants   *)
(* and the implementation of OneActiveJob.                                 *)
(***************************************************************************)
EXTENDS CancellableJobs, TLAPS

LEMMA InitTypeOK == Init => TypeOK
BY DEF Init, CancellationInit, TypeOK, CancellationTypeOK, Stages

LEMMA NextTypeOK == TypeOK /\ [Next]_vars => TypeOK'
<1> SUFFICES ASSUME TypeOK, [Next]_vars
             PROVE  TypeOK'
  OBVIOUS
<1> USE DEF TypeOK, CancellationTypeOK, Stages
<1>1. ASSUME NEW j \in Jobs, StartJob(j)
      PROVE  TypeOK'
  BY <1>1 DEF StartJob, Begin
<1>2. ASSUME NEW j \in Jobs, Abort(j) \/ Complete(j)
      PROVE  TypeOK'
  BY <1>2 DEF Abort, Complete
<1>3. ASSUME NEW j \in Jobs, EndJob(j)
      PROVE  TypeOK'
  BY <1>3 DEF EndJob, Finish
<1>4. CASE RequestCancel
  BY <1>4 DEF RequestCancel, Cancel
<1>5. CASE UNCHANGED vars
  BY <1>5 DEF vars
<1>6. QED
  BY <1>1, <1>2, <1>3, <1>4, <1>5 DEF Next

(* The variables keep their types: every slot content is a job or the     *)
(* empty slot, whatever the interleaving of begin, cancel and finish.      *)
THEOREM TypeCorrect == Spec => []TypeOK
<1>1. Init /\ [][Next]_vars => []TypeOK
  BY InitTypeOK, NextTypeOK, PTL
<1>2. QED
  BY <1>1, PTL DEF Spec

-------------------------------------------------------------------------------

LEMMA InitInv == Init => Inv
BY DEF Init, CancellationInit, Inv, LiveJobIsTracked, Live, Running,
       TrackedJobRuns

LEMMA NextInv == TypeOK /\ Inv /\ [Next]_vars => Inv'
<1> SUFFICES ASSUME TypeOK, Inv, [Next]_vars
             PROVE  Inv'
  OBVIOUS
<1> USE NoJobAssumption DEF TypeOK, CancellationTypeOK, Stages, Inv,
        LiveJobIsTracked, Live, Running, TrackedJobRuns
<1>1. ASSUME NEW j \in Jobs, StartJob(j)
      PROVE  Inv'
  BY <1>1 DEF StartJob, Begin
<1>2. ASSUME NEW j \in Jobs, Abort(j) \/ Complete(j)
      PROVE  Inv'
  BY <1>2 DEF Abort, Complete
<1>3. ASSUME NEW j \in Jobs, EndJob(j)
      PROVE  Inv'
  BY <1>3 DEF EndJob, Finish
<1>4. CASE RequestCancel
  BY <1>4 DEF RequestCancel, Cancel
<1>5. CASE UNCHANGED vars
  BY <1>5 DEF vars
<1>6. QED
  BY <1>1, <1>2, <1>3, <1>4, <1>5 DEF Next

LEMMA Invariance == Spec => [](TypeOK /\ Inv)
<1>1. Init => TypeOK /\ Inv
  BY InitTypeOK, InitInv
<1>2. TypeOK /\ Inv /\ [Next]_vars => (TypeOK /\ Inv)'
  BY NextTypeOK, NextInv
<1>3. QED
  BY <1>1, <1>2, PTL DEF Spec

(* ActiveCancellation: a running job whose token is clear is the one the   *)
(* slot tracks, for any number of overlapping begins, cancels and finishes.*)
THEOREM LiveJobAlwaysTracked == Spec => []LiveJobIsTracked
<1>1. Inv => LiveJobIsTracked
  BY DEF Inv
<1>2. QED
  BY <1>1, Invariance, PTL

(* ActiveCancellation: the slot never holds the token of a returned job.   *)
THEOREM TrackedJobAlwaysRuns == Spec => []TrackedJobRuns
<1>1. Inv => TrackedJobRuns
  BY DEF Inv
<1>2. QED
  BY <1>1, Invariance, PTL

(* The cancel command leaves no running job uncancelled.                   *)
THEOREM CancelAlwaysReachesAll == Spec => CancelReachesAll
<1>1. TypeOK /\ Inv /\ [Next]_vars
        => [RequestCancel => \A j \in Jobs : Running(j) => cancelled'[j]]_vars
  BY DEF RequestCancel, Cancel, TypeOK, CancellationTypeOK, Inv,
         LiveJobIsTracked, Live, Running
<1>2. QED
  BY <1>1, Invariance, PTL DEF Spec, CancelReachesAll

-------------------------------------------------------------------------------

LEMMA StepImplements == TypeOK /\ Inv /\ [Next]_vars => [Promise!Next]_Live
<1> SUFFICES ASSUME TypeOK, Inv, [Next]_vars
             PROVE  Promise!Next \/ UNCHANGED Live
  OBVIOUS
<1> USE DEF TypeOK, CancellationTypeOK, Inv, LiveJobIsTracked, Live, Running
<1>1. ASSUME NEW j \in Jobs, StartJob(j)
      PROVE  Promise!Start(j)
  BY <1>1 DEF StartJob, Begin, Promise!Start
<1>2. ASSUME NEW j \in Jobs, Abort(j) \/ Complete(j)
      PROVE  UNCHANGED Live
  BY <1>2 DEF Abort, Complete
<1>3. ASSUME NEW j \in Jobs, EndJob(j)
      PROVE  Promise!Leave(j)
  BY <1>3 DEF EndJob, Finish, Promise!Leave
<1>4. ASSUME RequestCancel
      PROVE  Promise!Stop
  BY <1>4 DEF RequestCancel, Cancel, Promise!Stop
<1>5. ASSUME UNCHANGED vars
      PROVE  UNCHANGED Live
  BY <1>5 DEF vars
<1>6. QED
  BY <1>1, <1>2, <1>3, <1>4, <1>5 DEF Next, Promise!Next

(* The jobs that may still deliver implement OneActiveJob: at most one at  *)
(* a time, taken over by begin, emptied by cancel.                         *)
THEOREM ImplementsPromise == Spec => PromiseSpec
<1>1. Init => Promise!Init
  BY DEF Init, Promise!Init, Live, Running
<1>2. QED
  BY <1>1, StepImplements, Invariance, PTL DEF Spec, PromiseSpec, Promise!Spec
===============================================================================
