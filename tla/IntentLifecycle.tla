-------------------------- MODULE IntentLifecycle --------------------------
(***************************************************************************)
(* What an intent's status promises to whoever polls GET /intents/:id.     *)
(* The status moves forward one phase at a time, and it reads succeeded    *)
(* only when the outcome of the receipt token is on record (sealed).       *)
(*                                                                         *)
(* Two edges are easy to forget.  An intent that succeeded can still turn  *)
(* failed, when the last write about it (its narration) cannot be stored;  *)
(* and failed can turn back into succeeded, when a retry of the receipt    *)
(* token writes back the row it read before.  Only an intent that failed   *)
(* before its token's outcome was on record stays failed for good.  A      *)
(* store in memory forgets everything when the process exits.              *)
(***************************************************************************)
CONSTANTS
  Intents,
  Durable        (* TRUE: receipts survive the process                       *)

VARIABLES
  status,        (* status[i]: the status a reader sees, none if no receipt  *)
  sealed         (* sealed[i]: the outcome of the receipt token is on record *)

lifecycleVars == <<status, sealed>>

Successors(s) ==
  CASE s = "none"       -> {"created"}
    [] s = "created"    -> {"quoted", "needs_approval", "planned", "failed"}
    [] s = "planned"    -> {"bridging", "failed"}
    [] s = "bridging"   -> {"executing", "failed"}
    [] s = "executing"  -> {"finalizing", "failed"}
    [] s = "finalizing" -> {"succeeded", "failed"}
    [] s = "succeeded"  -> {"failed"}
    [] s = "failed"     -> {"succeeded"}
    [] OTHER            -> {}

LifecycleInit ==
  /\ status = [i \in Intents |-> "none"]
  /\ sealed = [i \in Intents |-> FALSE]

Advance(i) ==
  \E s \in Successors(status[i]) :
    /\ s = "succeeded" => sealed[i]
    /\ status' = [status EXCEPT ![i] = s]
    /\ UNCHANGED sealed

Seal(i) ==
  /\ status[i] = "finalizing"
  /\ sealed' = [sealed EXCEPT ![i] = TRUE]
  /\ UNCHANGED status

Forget ==
  /\ ~Durable
  /\ status' = [i \in Intents |-> "none"]
  /\ sealed' = [i \in Intents |-> FALSE]

LifecycleNext == Forget \/ \E i \in Intents : Advance(i) \/ Seal(i)

LifecycleSpec == LifecycleInit /\ [][LifecycleNext]_lifecycleVars
=============================================================================
