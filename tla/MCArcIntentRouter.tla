------------------------- MODULE MCArcIntentRouter -------------------------
(***************************************************************************)
(* One user, adapter key and adapter; the treasury is an address of its    *)
(* own or the router.  The amount 150 has a fee that rounds down, the      *)
(* amount 0 is refused.  A pool may ask for 149, all but a unit of what an *)
(* adapter is sent without a fee.  An operator may record an id of another *)
(* chain, and the id of a local execution.                                 *)
(***************************************************************************)
EXTENDS ArcIntentRouter

CONSTANTS u1, k1, a1, t1, r1

MCUsers       == {u1}
MCAdapterKeys == {k1}
MCAdapters    == {a1}
MCTreasuries  == {t1, Router}
MCRemoteIds   == {r1}
MCAmounts     == {0, 150}
MCPoolAsks    == {149}
MCFeeInputs   == {100, 200}
MCOperatorIds ==
  {r1, [party |-> u1, key |-> k1, amount |-> 150, stamp |-> <<"timestamp", 0>>]}
=============================================================================
