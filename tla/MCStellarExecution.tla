------------------------- MODULE MCStellarExecution -------------------------
(* Two calls of the operator and one stranger; a call pays 0, 1 or 2, so   *)
(* that two swaps may pay the same.  One swap relays by itself, and one    *)
(* names a token the pool does not pay.                                    *)
EXTENDS StellarExecution, TLC

CONSTANTS c1, c2, operator, stranger

MCCalls    == {c1, c2}
Symmetry   == Permutations(MCCalls)
MCAccounts == {operator, stranger}
MCOuts     == {0, 1, 2}
MCSettings == {[dryRun |-> FALSE, key |-> TRUE, addressed |-> Contracts],
               [dryRun |-> TRUE, key |-> FALSE, addressed |-> {"blend"}]}
MCConfig   == [admin |-> operator, executor |-> operator, targets |-> Targets,
               permissionless |-> FALSE, paused |-> FALSE]
MCDeployed == {[aquarius |-> [MCConfig EXCEPT !.paused = b], blend |-> NoConfig] : b \in BOOLEAN}

Request(service, mode, swap, args, to) ==
  [service |-> service, mode |-> mode, swap |-> swap, within |-> FALSE, args |-> args, to |-> to, token |-> "paid"]
MCRequests ==
  {Request("aquarius", "execute", TRUE, "fit", to) : to \in {"none", "invalid", "valid"}}
    \union
  {Request("aquarius", "execute", FALSE, "fit", "valid"), Request("aquarius", "execute", FALSE, "unfit", "none"),
   [Request("aquarius", "execute", TRUE, "fit", "valid") EXCEPT !.within = TRUE],
   [Request("aquarius", "execute", TRUE, "fit", "valid") EXCEPT !.token = "other"],
   Request("aquarius", "execute", TRUE, "malformed", "valid"),
   Request("aquarius", "simulate", TRUE, "fit", "valid"), Request("aquarius", "execute", TRUE, "missing", "valid"),
   Request("blend", "execute", FALSE, "fit", "valid"), Request("blend", "execute", FALSE, "missing", "none"),
   Request("blend", "simulate", FALSE, "fit", "none")}
=============================================================================
