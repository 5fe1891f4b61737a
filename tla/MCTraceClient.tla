--------------------------- MODULE MCTraceClient ---------------------------
(* One intent, one key of the service and one other account, which is the  *)
(* registry's admin.                                                       *)
EXTENDS TraceClient

CONSTANTS operator, other, i1

MCAccounts   == {operator, other}
MCIntentIds  == {i1}
MCCandidates == <<operator>>
MCExternal   == {"protocol"}
MCMaxSteps   == [source |-> 1, bridge |-> 2, protocol |-> 1, receipt |-> 1]
MCPayloads   == {"source", "bridge", "protocol", "receipt", "foreign"}
=============================================================================
