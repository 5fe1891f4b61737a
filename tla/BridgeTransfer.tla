--------------------------- MODULE BridgeTransfer ---------------------------
(***************************************************************************)
(* What the orchestrator may rely on in a bridge service, whichever it is  *)
(* (bridgeHandled and the branches on bridgeReceipt.status in              *)
(* intentOrchestrator.ts).  A call asks for the funds of a transfer at     *)
(* most once and never after it was answered; they land only once they     *)
(* were taken; submitted is answered only when they were taken, untouched  *)
(* only when they were never asked for, so that they never will be taken.  *)
(* It promises less than one might hope: what was asked for may be taken   *)
(* or land long after the caller was told of a failure, and what was taken *)
(* may never land although it was told of success.                         *)
(***************************************************************************)
CONSTANT Transfers

VARIABLES
  told,    (* what the caller was told: nothing, submitted, untouched (it    *)
           (* failed and nothing was asked for) or atRisk (anything else)    *)
  wire     (* the funds: none, asked (a request to take them is out),        *)
           (* refused, taken, landed                                         *)

BridgeInit ==
  /\ told = [t \in Transfers |-> "nothing"]
  /\ wire = [t \in Transfers |-> "none"]

Step(t, from, to) ==
  /\ wire[t] = from
  /\ wire' = [wire EXCEPT ![t] = to]
  /\ UNCHANGED told

Ask(t)    == told[t] = "nothing" /\ Step(t, "none", "asked")
Refuse(t) == Step(t, "asked", "refused")
Take(t)   == Step(t, "asked", "taken")
Land(t)   == Step(t, "taken", "landed")

Tell(t, outcome) ==
  /\ told[t] = "nothing"
  /\ outcome = "submitted" => wire[t] \in {"taken", "landed"}
  /\ outcome = "untouched" => wire[t] = "none"
  /\ told' = [told EXCEPT ![t] = outcome]
  /\ UNCHANGED wire

BridgeNext ==
  \E t \in Transfers :
    \/ Ask(t)
    \/ Refuse(t)
    \/ Take(t)
    \/ Land(t)
    \/ \E outcome \in {"submitted", "untouched", "atRisk"} : Tell(t, outcome)

BridgeSpec == BridgeInit /\ [][BridgeNext]_<<told, wire>>
=============================================================================
