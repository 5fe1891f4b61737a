------------------------------ MODULE TraceLog ------------------------------
(***************************************************************************)
(* What the on-chain trace of an intent promises to the analytics that     *)
(* read it: every intent has one log that only grows at its end, the log   *)
(* opens when the intent is registered, it is never opened twice, and the  *)
(* verdict on the intent can only be given once the log is open.           *)
(*                                                                         *)
(* IntentTraceRegistry implements it with a counter and a mapping from     *)
(* step indices to records.                                                *)
(***************************************************************************)
EXTENDS Sequences

CONSTANTS
  IntentIds,   (* the intents a log is kept for            *)
  Entries      (* what one entry of a log may say          *)

VARIABLES
  log,         (* the entries of each intent, oldest first *)
  verdict      (* the last status reported for each intent *)

logVars == <<log, verdict>>

Verdicts == {"registered", "completed", "failed"}

LogInit ==
  /\ log = [i \in IntentIds |-> <<>>]
  /\ verdict = [i \in IntentIds |-> "unknown"]

(* An intent is opened once, with an empty log. *)
Open(i) ==
  /\ verdict[i] = "unknown"
  /\ verdict' = [verdict EXCEPT ![i] = "registered"]
  /\ UNCHANGED log

(* One entry is added at the end of the log of an open intent. *)
Extend(i, e) ==
  /\ verdict[i] # "unknown"
  /\ log' = [log EXCEPT ![i] = Append(@, e)]
  /\ UNCHANGED verdict

(* A recorder gives its verdict on an open intent; it may change its mind. *)
Judge(i, v) ==
  /\ verdict[i] # "unknown"
  /\ verdict' = [verdict EXCEPT ![i] = v]
  /\ UNCHANGED log

LogNext ==
  \E i \in IntentIds :
    \/ Open(i)
    \/ \E e \in Entries : Extend(i, e)
    \/ \E v \in Verdicts : Judge(i, v)

LogSpec == LogInit /\ [][LogNext]_logVars
=============================================================================
