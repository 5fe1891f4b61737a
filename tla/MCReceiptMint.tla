--------------------------- MODULE MCReceiptMint ---------------------------
(* Intents at the end of their pipelines, and requests to retry the token  *)
(* of the first of them.                                                   *)
EXTENDS ReceiptMint

CONSTANT i1

MCTargetOf == [r \in Retries |-> i1]
=============================================================================
