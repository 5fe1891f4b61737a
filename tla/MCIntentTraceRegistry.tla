----------------------- MODULE MCIntentTraceRegistry -----------------------
(* A two-account, one-intent instance of the registry for TLC. *)
EXTENDS IntentTraceRegistry

CONSTANTS alice, bob, i1, p1, p2

MCAccounts  == {alice, bob}
MCIntentIds == {i1}
MCPayloads  == {p1, p2}
=============================================================================
