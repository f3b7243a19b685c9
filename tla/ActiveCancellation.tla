-------------------------- MODULE ActiveCancellation --------------------------
(***************************************************************************)
(* Ownership of at most one active cooperative-cancellation job            *)
(* (src-tauri/src/runtime/cancellation.rs).  The owner keeps a clone of    *)
(* the token of the job it tracks; the token itself is a flag shared with  *)
(* the job, which polls it.  A job stands for one call of begin: the code  *)
(* allocates a fresh token each time, so tokens never alias.               *)
(*                                                                         *)
(* Each operation holds the mutex from its first to its last access, so    *)
(* each is one atomic step.  The module declares no behaviour of its own:  *)
(* the components that own a cancellation slot instantiate it.             *)
(***************************************************************************)

CONSTANTS Jobs,     \* the jobs that may ask for a token
          NoJob     \* the empty slot, Option::None

VARIABLES active,     \* the tracked job, or NoJob
          cancelled   \* cancelled[j]: the flag of j's latest token

(* begin, without cancelling the job it replaces. *)
BeginForgetsPrevious(j) ==
  /\ active' = j
  /\ cancelled' = [cancelled EXCEPT ![j] = FALSE]

(* finish, without asking whether the caller still owns the slot. *)
FinishUnconditionally(j) ==
  /\ active' = NoJob
  /\ UNCHANGED cancelled

CancellationInit ==
  /\ active = NoJob
  /\ cancelled = [j \in Jobs |-> FALSE]

(* j gets a fresh token; the job that held the slot is cancelled. *)
Begin(j) ==
  /\ active' = j
  /\ cancelled' = [k \in Jobs |-> k # j /\ (cancelled[k] \/ k = active)]

(* The tracked job is cancelled but stays in the slot until it finishes. *)
Cancel ==
  /\ cancelled' = [k \in Jobs |-> cancelled[k] \/ k = active]
  /\ UNCHANGED active

(* Only the job in the slot empties it. *)
Finish(j) ==
  /\ active' = IF active = j THEN NoJob ELSE active
  /\ UNCHANGED cancelled

CancellationTypeOK ==
  /\ active \in Jobs \cup {NoJob}
  /\ cancelled \in [Jobs -> BOOLEAN]
===============================================================================
