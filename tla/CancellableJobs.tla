---------------------------- MODULE CancellableJobs ----------------------------
(***************************************************************************)
(* Jobs run under one cancellation slot: ActiveCancellation::run and the   *)
(* commands that spell it out (repeated-artefact scan, PDF intake,         *)
(* annotation build).  A job begins, polls its token between units of      *)
(* work, and finishes whatever its result was.                             *)
(***************************************************************************)

CONSTANTS Jobs, NoJob

ASSUME NoJobAssumption == NoJob \notin Jobs

VARIABLES active, cancelled,
          stage      \* stage[j]: how far the current run of j has come

INSTANCE ActiveCancellation

vars == <<active, cancelled, stage>>

Stages == {"idle", "working", "complete", "aborted"}

TypeOK ==
  /\ CancellationTypeOK
  /\ stage \in [Jobs -> Stages]

Init ==
  /\ CancellationInit
  /\ stage = [j \in Jobs |-> "idle"]

(* run that asks for cancellation before it has a token of its own. *)
StartWithoutSlot(j) ==
  /\ stage[j] = "idle"
  /\ active' = j
  /\ cancelled' = [cancelled EXCEPT ![j] = NoJob]
  /\ stage' = [stage EXCEPT ![j] = "working"]

(* run: the token is taken before the operation starts. *)
StartJob(j) ==
  /\ stage[j] = "idle"
  /\ Begin(j)
  /\ stage' = [stage EXCEPT ![j] = "working"]

(* A checkpoint finds the flag set: the operation returns Err(Cancelled). *)
Abort(j) ==
  /\ stage[j] = "working"
  /\ cancelled[j]
  /\ stage' = [stage EXCEPT ![j] = "aborted"]
  /\ UNCHANGED <<active, cancelled>>

(* The last checkpoint finds the flag clear: the operation completes,      *)
(* whatever happens to the flag from here on.                              *)
Complete(j) ==
  /\ stage[j] = "working"
  /\ ~cancelled[j]
  /\ stage' = [stage EXCEPT ![j] = "complete"]
  /\ UNCHANGED <<active, cancelled>>

(* run: the slot is released after the operation, with either result. *)
EndJob(j) ==
  /\ stage[j] \in {"complete", "aborted"}
  /\ Finish(j)
  /\ stage' = [stage EXCEPT ![j] = "idle"]

(* The cancel command of the feature that owns the slot. *)
RequestCancel ==
  /\ Cancel
  /\ UNCHANGED stage

Next ==
  \/ \E j \in Jobs : StartJob(j) \/ Abort(j) \/ Complete(j) \/ EndJob(j)
  \/ RequestCancel

(* A job's thread keeps running; users need not start or cancel anything. *)
Fairness == \A j \in Jobs : WF_vars(Abort(j) \/ Complete(j) \/ EndJob(j))

Spec == Init /\ [][Next]_vars /\ Fairness

-------------------------------------------------------------------------------

Running(j) == stage[j] # "idle"

Live == {j \in Jobs : Running(j) /\ ~cancelled[j]}

(* A running job whose token is clear is the one in the slot, so that the  *)
(* cancel command reaches it: no replacement and no late finish of another *)
(* job may leave a running job that nobody can stop.                       *)
LiveJobIsTracked == \A j \in Live : active = j

(* The slot never keeps the token of a job that has returned.              *)
TrackedJobRuns == active # NoJob => Running(active)

Inv == LiveJobIsTracked /\ TrackedJobRuns

(* A cancel request reaches every job that runs, not only the latest.      *)
CancelReachesAll ==
  [][RequestCancel => \A j \in Jobs : Running(j) => cancelled'[j]]_vars

(* The jobs that may still deliver implement the promise of one live job.  *)
Promise == INSTANCE OneActiveJob WITH live <- Live

PromiseSpec == Promise!Spec
===============================================================================
