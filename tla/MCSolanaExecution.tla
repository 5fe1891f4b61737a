------------------------- MODULE MCSolanaExecution -------------------------
(* Two calls, the service's key and one stranger's; the pool pays more or  *)
(* less than a quote's margin, and amounts on both sides of 100 lamports;  *)
(* 150 lamports, as a deposit or a minimum, are less than the better quote.*)
EXTENDS SolanaExecution, TLC

CONSTANTS c1, c2, operator, stranger, user

MCCalls      == {c1, c2}
MCSigners    == {operator, stranger}
Symmetry     == Permutations(MCCalls)
MCRecipients == {user}
MCPrices     == {90, 160, 200}
MCAsked      == {150}
MCSettings   ==
  {[dryRun |-> FALSE, keypair |-> TRUE, addressed |-> Services],
   [dryRun |-> TRUE, keypair |-> FALSE, addressed |-> {"marinade"}]}
MCConfig     ==
  [admin |-> operator, executor |-> stranger, program |-> "listed", permissionless |-> FALSE, paused |-> FALSE]
MCDeployed   == {[p \in Services |-> IF p = "kamino" THEN NoConfig ELSE MCConfig]}

Kept(service, mode, given, special, known) ==
  [service |-> service, mode |-> mode, given |-> given, special |-> special, known |-> known]
Staked(mode, given, special, asked, least) ==
  [service |-> "marinade", mode |-> mode, given |-> given, special |-> special,
   asked |-> asked, least |-> least, to |-> user]
MCRequests ==
  {Kept("kamino", "execute", "foreign", FALSE, TRUE), Kept("kamino", "execute", "nothing", FALSE, TRUE),
   Kept("kamino", "simulate", "nothing", FALSE, TRUE),
   Kept("raydium", "execute", "fit", FALSE, FALSE), Kept("raydium", "execute", "synthetic", FALSE, FALSE),
   Kept("raydium", "simulate", "nothing", FALSE, TRUE),
   Staked("execute", "nothing", FALSE, 0, 0), Staked("execute", "nothing", FALSE, 150, 0),
   Staked("execute", "nothing", FALSE, 0, 150), Staked("execute", "fit", FALSE, 150, 150),
   Staked("execute", "nothing", TRUE, 0, 0), Staked("simulate", "nothing", FALSE, 0, 0)}
=============================================================================
