----------------------------- MODULE OneActiveJob -----------------------------
(***************************************************************************)
(* What an owner of a cancellation slot promises, without the slot: at any *)
(* moment at most one job is live, that is, still entitled to deliver its  *)
(* result.  Starting a job takes that right from the job that had it.      *)
(***************************************************************************)

CONSTANT Jobs

VARIABLE live   \* the jobs that run and were not cancelled

Init == live = {}

Start(j) == live' = {j}

(* A request to stop everything that runs. *)
Stop == live' = {}

(* A job ends; its end concerns nobody else. *)
Leave(j) == live' = live \ {j}

Next ==
  \/ \E j \in Jobs : Start(j) \/ Leave(j)
  \/ Stop

Spec == Init /\ [][Next]_live

(* At most one job is live. *)
AtMostOneLive == \A j, k \in live : j = k
===============================================================================
