-------------------------------- MODULE Job --------------------------------
(***************************************************************************)
(* What one operation in a worker promises to whoever started it: its      *)
(* promise settles once and keeps its outcome, no worker starts for an     *)
(* operation that has ended, and a worker outlives its operation only      *)
(* until it can be stopped.  The contract of WorkerJob (web/runtime.js),   *)
(* which WorkerJob.tla implements.                                         *)
(***************************************************************************)
CONSTANT Outcomes        \* how an operation may end

VARIABLES outcome,       \* "pending" or how the promise settled
          life           \* the worker: "none", "live" or "gone"

jobVars == <<outcome, life>>

Init == outcome = "pending" /\ life = "none"

(* The worker starts, for an operation that still waits for its outcome.   *)
Launch ==
  /\ outcome = "pending" /\ life = "none"
  /\ life' = "live"
  /\ UNCHANGED outcome

(* The operation ends once; its worker, if any, stops now or later.        *)
Settle ==
  /\ outcome = "pending"
  /\ outcome' \in Outcomes
  /\ \/ UNCHANGED life
     \/ life = "none" /\ life' = "live"
     \/ life = "live" /\ life' = "gone"

(* A worker left over stops.                                               *)
Reap ==
  /\ outcome # "pending" /\ life = "live"
  /\ life' = "gone"
  /\ UNCHANGED outcome

Next == Launch \/ Settle \/ Reap

Spec == Init /\ [][Next]_jobVars /\ WF_jobVars(Reap)
=============================================================================
