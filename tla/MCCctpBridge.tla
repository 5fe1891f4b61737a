---------------------------- MODULE MCCctpBridge ----------------------------
(* Two calls over every kind of source and destination.  The EVM wallet    *)
(* can pay for two of the small burns or for the large one.                *)
EXTENDS CctpBridge

CONSTANTS t1, t2

MCTransfers == {t1, t2}

Plan(from, to, amount, bridgeOnly, recipient) ==
  [from |-> from, to |-> to, amount |-> amount, bridgeOnly |-> bridgeOnly,
   recipient |-> recipient, router |-> TRUE]

EvmPlans == {Plan("evm", "evm", 1, FALSE, "none"), Plan("evm", "evm", 2, TRUE, "valid")}
OtherPlans == {Plan("evm", "soroban", 1, FALSE, "none"), Plan("evm", "svm", 1, TRUE, "valid"),
               Plan("svm", "evm", 1, FALSE, "none"), Plan("soroban", "svm", 1, FALSE, "invalid"),
               Plan("soroban", "svm", 1, TRUE, "valid")}
AllPlans == EvmPlans \union OtherPlans

MCFunds == [vm \in Vms |-> IF vm = "evm" THEN 2 ELSE 1]
=============================================================================
