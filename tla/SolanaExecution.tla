-------------------------- MODULE SolanaExecution --------------------------
(***************************************************************************)
(* The Solana half of the protocol executors: the adapter programs under   *)
(* programs/solana/adapters, the services that build a call to them        *)
(* (solanaKamino.ts, solanaRaydium.ts, solanaMarinade.ts) and the          *)
(* submitter that sends it (solanaAdapterSubmitter.ts).                    *)
(*                                                                         *)
(* A call is one buildAndMaybeSubmit, for an intent of its own: it names   *)
(* the call's intent too.  Whoever the programs let may execute for that   *)
(* intent behind its back, the administrators change the programs, and the *)
(* Raydium pool moves.  A payload is "fit" when the program called accepts *)
(* its discriminator and its accounts; the tokens a recording program's    *)
(* CPI moves are left out, those of Marinade's deposit are not.            *)
(***************************************************************************)
EXTENDS Integers, FiniteSets

CONSTANTS
  Calls,         (* the calls of the services                               *)
  Settings,      (* the settings a process may be started with              *)
  Signers,       (* who signs transactions                                  *)
  Deployed,      (* how the programs may already be deployed                *)
  Requests,      (* the requests a service may get                          *)
  Operator,      (* the service's key                                       *)
  Recipients,    (* whose mSOL account a deposit names                      *)
  Prices,        (* the lamports the pool may pay for a call's USDC         *)
  Asked,         (* the deposits and minimums a request may name itself     *)
  MaxOutside     (* bound on what everyone but the services does            *)

Recording == {"kamino", "raydium"}      (* they write a receipt per intent  *)
Services  == Recording \union {"marinade"}

NoConfig  == [admin |-> "none"]
Configs   == [admin : Signers, executor : Signers, program : {"listed", "other"},
              permissionless : BOOLEAN, paused : BOOLEAN]

Modes == {"execute", "simulate"}
Given == {"nothing", "fit", "foreign", "synthetic"}
AllRequests ==
  [service : Recording, mode : Modes, given : Given, special : BOOLEAN, known : BOOLEAN]
    \union
  [service : {"marinade"}, mode : Modes, given : Given, special : BOOLEAN,
   asked : {0} \union Asked, least : {0} \union Asked, to : Recipients]

ASSUME SettingsAssumption ==
  Settings \subseteq [dryRun : BOOLEAN, keypair : BOOLEAN, addressed : SUBSET Services]
ASSUME SignersAssumption == Operator \in Signers
ASSUME DeployedAssumption == Deployed \subseteq [Services -> Configs \union {NoConfig}]
ASSUME RequestsAssumption == Requests \subseteq AllRequests
ASSUME AmountsAssumption == Prices \subseteq Nat \ {0} /\ Asked \subseteq Nat \ {0} /\ MaxOutside \in Nat

VARIABLES
  env,           (* the process's settings                                  *)
  config,        (* the config account of each program                      *)
  receipts,      (* the receipt accounts that exist, by program and intent  *)
  executed,      (* how often each program ran a CPI for each intent        *)
  price,         (* what the pool pays now                                  *)
  accounts,      (* the token accounts that exist: "wsol" and recipients    *)
  call,          (* each call: where it is suspended and what it knows      *)
  tx,            (* what became of the transaction each call sent           *)
  moved,         (* the lamports each call's transaction swapped and staked *)
  outside        (* how often the others acted                              *)

vars == <<env, config, receipts, executed, price, accounts, call, tx, moved, outside>>

NoRequest == [service |-> "none"]
Payloads  == {"none", "fit", "unfit"}
Answers   == {"none", "simulated", "succeeded", "already_executed", "failed",
              "planned", "builder_only", "not_configured", "threw"}
Steps     == {"idle", "building", "simulating", "checking", "sending", "confirming", "answered"}
Idle      == [at |-> "idle", req |-> NoRequest, payload |-> "none", min |-> 0,
              deposit |-> 0, creates |-> {}, answer |-> "none"]

Init ==
  /\ env \in Settings
  /\ config \in Deployed
  /\ receipts = {}
  /\ executed = [p \in Recording |-> [i \in Calls |-> 0]]
  /\ price \in Prices
  /\ accounts = {}
  /\ call = [c \in Calls |-> Idle]
  /\ tx = [c \in Calls |-> "none"]
  /\ moved = [c \in Calls |-> [out |-> 0, staked |-> 0]]
  /\ outside = 0
-----------------------------------------------------------------------------
(* The adapter programs.                                                   *)

Live(p)      == config[p] # NoConfig
Outside      == outside < MaxOutside /\ outside' = outside + 1
ByOthers     == UNCHANGED <<env, call, tx, moved>>
SetConfig(p, f, v) ==
  /\ Outside /\ Live(p)
  /\ config' = [config EXCEPT ![p][f] = v]
  /\ UNCHANGED <<receipts, executed, price, accounts>> /\ ByOthers

(* The config account is created once; whoever creates it is its admin.    *)
Initialize(p, s, executor, permissionless) ==
  /\ Outside /\ ~Live(p)
  /\ config' = [config EXCEPT ![p] = [admin |-> s, executor |-> executor, program |-> "listed",
                                      permissionless |-> permissionless, paused |-> FALSE]]
  /\ UNCHANGED <<receipts, executed, price, accounts>> /\ ByOthers

SetExecutor(p, s)       == SetConfig(p, "executor", s)
SetProgram(p, which)    == SetConfig(p, "program", which)
SetPermissionless(p, b) == SetConfig(p, "permissionless", b)
SetPaused(p, b)         == SetConfig(p, "paused", b)

Authorized(p, s) == config[p].permissionless \/ s \in {config[p].admin, config[p].executor}

(* Faulty variant: the receipt account is written whether or not it exists. *)
CanExecuteAgain(p, s, i, payload) ==
  /\ Live(p) /\ ~config[p].paused /\ Authorized(p, s)
  /\ config[p].program = "listed"
  /\ payload = "fit"

(* What execute requires; the receipt account must not exist yet, because  *)
(* the instruction creates it.                                             *)
CanExecute(p, s, i, payload) ==
  /\ Live(p) /\ ~config[p].paused /\ Authorized(p, s)
  /\ config[p].program = "listed"
  /\ payload = "fit"
  /\ <<p, i>> \notin receipts

(* The CPI, and the receipt after it, in one transaction.                  *)
Execute(p, i) ==
  /\ executed' = [executed EXCEPT ![p][i] = @ + 1]
  /\ receipts' = receipts \union {<<p, i>>}

(* Another signer executes for an intent.                                  *)
ExecuteDirectly(p, s, i) ==
  /\ Outside /\ CanExecute(p, s, i, "fit")
  /\ Execute(p, i)
  /\ UNCHANGED <<config, price, accounts>> /\ ByOthers

ReceiptProgram(p) ==
  \/ \E s, e \in Signers, b \in BOOLEAN : Initialize(p, s, e, b)
  \/ \E s \in Signers : SetExecutor(p, s)
  \/ \E which \in {"listed", "other"} : SetProgram(p, which)
  \/ \E b \in BOOLEAN : SetPermissionless(p, b) \/ SetPaused(p, b)
  \/ \E s \in Signers, i \in Calls : ExecuteDirectly(p, s, i)

KaminoProgram  == ReceiptProgram("kamino")
RaydiumProgram == ReceiptProgram("raydium")

(* Marinade's program has an admin and nothing else to set; force_init     *)
(* writes the config account again, for whoever signs.                     *)
MarinadeInitialize(s) == Initialize("marinade", s, s, FALSE)
ForceInit(s) ==
  /\ Outside /\ Live("marinade")
  /\ config' = [config EXCEPT !["marinade"].admin = s, !["marinade"].paused = FALSE]
  /\ UNCHANGED <<receipts, executed, price, accounts>> /\ ByOthers
SetAdmin(s) == SetConfig("marinade", "admin", s)
MarinadeProgram == \E s \in Signers : MarinadeInitialize(s) \/ ForceInit(s) \/ SetAdmin(s)

(* deposit_with_swap: the USDC is swapped for at least min lamports of     *)
(* wSOL, the wSOL account is closed to its owner, and deposit lamports are *)
(* staked, all or nothing.  An account the transaction creates must be     *)
(* missing, one it does not create must be there.                          *)
CanDeposit(k) ==
  /\ Live("marinade") /\ ~config["marinade"].paused
  /\ config["marinade"].admin = Operator
  /\ k.payload = "fit"
  /\ price >= k.min /\ k.deposit > 0
  /\ {"wsol", k.req.to} \ accounts = k.creates
DepositWithSwap(c) ==
  /\ moved' = [moved EXCEPT ![c] = [out |-> price, staked |-> call[c].deposit]]
  /\ accounts' = (accounts \union {call[c].req.to}) \ {"wsol"}

(* The pool's other traders, and whoever opens a token account.            *)
MovePool ==
  /\ Outside /\ price' \in Prices
  /\ UNCHANGED <<config, receipts, executed, accounts>> /\ ByOthers
OpenAccount(a) ==
  /\ Outside /\ accounts' = accounts \union {a}
  /\ UNCHANGED <<config, receipts, executed, price>> /\ ByOthers
-----------------------------------------------------------------------------
(* The services.                                                           *)

World == <<env, config, receipts, executed, price, accounts, tx, moved, outside>>

To(c, step) == call' = [call EXCEPT ![c].at = step] /\ UNCHANGED World
Answer(c, a) == call' = [call EXCEPT ![c].at = "answered", ![c].answer = a] /\ UNCHANGED World

(* resolveSolanaAdapterPayload: a payload or an instruction in the request *)
(* is used if its discriminator is the action's, and rejected otherwise.   *)
Validated == [fit |-> "fit", synthetic |-> "unfit", nothing |-> "none"]

(* Nothing looks at a request's own payload twice.                         *)
Read(r) == [r EXCEPT !.given = "nothing"]

(* What is not submitted is planned, or cannot be.                         *)
Unsubmitted(configured) ==
  IF env.dryRun THEN "planned" ELSE IF configured THEN "builder_only" ELSE "not_configured"

(* The two branches of a service once it has its payload.                  *)
Decide(c, r, payload, min, deposit) ==
  LET configured == payload # "none" /\ r.service \in env.addressed
      step == IF configured /\ r.mode = "simulate" THEN "simulating"
              ELSE IF configured /\ ~env.dryRun THEN "checking" ELSE "answered"
  IN /\ call' = [call EXCEPT ![c] =
           [Idle EXCEPT !.at = step, !.req = Read(r), !.payload = payload, !.min = min, !.deposit = deposit,
                        !.answer = IF step = "answered" THEN Unsubmitted(configured) ELSE "none"]]
     /\ UNCHANGED World

OwnDeposit(r) == IF r.service = "marinade" THEN r.asked ELSE 0
OwnMin(r)     == IF r.service = "marinade" THEN r.least ELSE 0

(* A request's own payload decides; without one the service looks for it.  *)
Begin(c, r, looks) ==
  /\ call[c].at = "idle"
  /\ \/ r.given = "foreign"
        /\ call' = [call EXCEPT ![c] = [Idle EXCEPT !.at = "answered", !.req = Read(r), !.answer = "threw"]]
        /\ UNCHANGED World
     \/ r.given = "nothing" /\ looks
        /\ call' = [call EXCEPT ![c] = [Idle EXCEPT !.at = "building", !.req = Read(r)]]
        /\ UNCHANGED World
     \/ (r.given \in {"fit", "synthetic"} \/ (r.given = "nothing" /\ ~looks))
        /\ Decide(c, r, Validated[r.given], OwnMin(r), OwnDeposit(r))

Building(c, service) == call[c].at = "building" /\ call[c].req.service = service

(* Kamino: the SDK is asked if the market and the asset are known; of the  *)
(* actions, RefreshReserve ("special") has a payload made by hand, and     *)
(* what the SDK returns first may be a set-up instruction.                 *)
KaminoBegin(c, r) == r.service = "kamino" /\ Begin(c, r, r.known)
KaminoBuild(c) ==
  /\ Building(c, "kamino")
  /\ \/ \E payload \in IF call[c].req.special THEN {"none", "fit"} ELSE Payloads :
           Decide(c, call[c].req, payload, 0, 0)
     \/ ~call[c].req.special /\ Answer(c, "threw")

(* Raydium: the pool is named in the memo, which the pipeline overwrites,  *)
(* so only a quote finds it; without a payload the service throws.         *)
RaydiumBegin(c, r) == r.service = "raydium" /\ Begin(c, r, TRUE)
RaydiumBuild(c) ==
  /\ Building(c, "raydium")
  /\ \/ /\ call[c].req.mode = "simulate" /\ call[c].req.known
        /\ \E payload \in {"fit", "unfit"} : Decide(c, call[c].req, payload, 0, 0)
     \/ Answer(c, "threw")

(* What the quote lets the swap lose: a twentieth.                         *)
Quoted(p) == IF p > 100 THEN (p * 95) \div 100 ELSE p

(* An amount the request names, or the quote where it names none.          *)
OrQuoted(amount) == IF amount = 0 THEN Quoted(price) ELSE amount

(* Faulty variant: the quote makes the deposit but not the minimum. *)
MarinadeBuildUnbounded(c) ==
  LET r == call[c].req IN
  /\ Building(c, "marinade")
  /\ \/ ~r.special /\ Decide(c, r, "fit", r.least, OrQuoted(r.asked))
     \/ Decide(c, r, "unfit", r.least, r.asked)

(* Marinade: of a deposit and the minimum of its swap, what the request    *)
(* does not name is quoted from the pool's reserves; a failed quote leaves *)
(* a synthetic payload the transaction cannot be built from.  For          *)
(* LiquidUnstake ("special") the service calls execute, which the program  *)
(* does not have.                                                          *)
MarinadeBegin(c, r) == r.service = "marinade" /\ Begin(c, r, TRUE)
MarinadeBuild(c) ==
  LET r == call[c].req IN
  /\ Building(c, "marinade")
  /\ \/ ~r.special /\ Decide(c, r, "fit", OrQuoted(r.least), OrQuoted(r.asked))
     \/ Decide(c, r, "unfit", r.least, r.asked)

(* Whether a call's transaction would run now.                             *)
Deposits(k) == k.req.service = "marinade" /\ ~k.req.special
Runs(c) ==
  IF call[c].req.service \in Recording
  THEN CanExecute(call[c].req.service, Operator, c, call[c].payload)
  ELSE Deposits(call[c]) /\ CanDeposit(call[c])
-----------------------------------------------------------------------------
(* A simulation that fails, or cannot be made, is thrown; Marinade's is    *)
(* answered with the quote instead.                                        *)
Simulating(c, service) == call[c].at = "simulating" /\ call[c].req.service = service
KaminoSimulate(c) ==
  /\ Simulating(c, "kamino")
  /\ (env.keypair /\ Runs(c) /\ Answer(c, "simulated")) \/ Answer(c, "threw")
RaydiumSimulate(c) ==
  /\ Simulating(c, "raydium")
  /\ (env.keypair /\ Runs(c) /\ Answer(c, "simulated")) \/ Answer(c, "threw")
MarinadeSimulate(c) == Simulating(c, "marinade") /\ Answer(c, "simulated")
-----------------------------------------------------------------------------
(* The submitter, inside the service's try: whatever it throws is "failed". *)

Submitted == {"checking", "sending", "confirming"}

Throw(c) == call[c].at \in Submitted /\ Answer(c, "failed")

(* Faulty variant: the early return is lost. *)
CheckReceiptAndGoOn(c) ==
  /\ call[c].at = "checking" /\ ~Deposits(call[c]) /\ env.keypair
  /\ call' = [call EXCEPT ![c].at = "sending",
                         ![c].answer = IF <<call[c].req.service, c>> \in receipts THEN "already_executed" ELSE "none"]
  /\ UNCHANGED World

(* submitSolanaAdapter looks for the intent's receipt before it sends.     *)
CheckReceipt(c) ==
  /\ call[c].at = "checking" /\ ~Deposits(call[c]) /\ env.keypair
  /\ IF <<call[c].req.service, c>> \in receipts THEN Answer(c, "already_executed") ELSE To(c, "sending")

(* submitMarinadeDepositWithSwap looks at the accounts it must create.     *)
ReadAccounts(c) ==
  /\ call[c].at = "checking" /\ Deposits(call[c]) /\ env.keypair
  /\ call' = [call EXCEPT ![c].at = "sending", ![c].creates = {"wsol", call[c].req.to} \ accounts]
  /\ UNCHANGED World

(* The transaction is sent if the RPC node's simulation of it succeeds.    *)
Send(c) ==
  /\ call[c].at = "sending" /\ Runs(c)
  /\ tx' = [tx EXCEPT ![c] = "flying"]
  /\ call' = [call EXCEPT ![c].at = "confirming"]
  /\ UNCHANGED <<env, config, receipts, executed, price, accounts, moved, outside>>

(* Faulty variant: a transaction that can no longer land is taken for done. *)
ConfirmExpired(c) ==
  /\ call[c].at = "confirming" /\ tx[c] \in {"landed", "expired"}
  /\ Answer(c, "succeeded")

(* The confirmation; asking for its fee afterwards may still throw.        *)
Confirm(c) ==
  /\ call[c].at = "confirming" /\ tx[c] = "landed"
  /\ Answer(c, "succeeded")

Submitting(c, service) == call[c].req.service = service
KaminoSubmit(c)   == Submitting(c, "kamino") /\ (CheckReceipt(c) \/ Send(c) \/ Confirm(c) \/ Throw(c))
RaydiumSubmit(c)  == Submitting(c, "raydium") /\ (CheckReceipt(c) \/ Send(c) \/ Confirm(c) \/ Throw(c))
MarinadeSubmit(c) ==
  Submitting(c, "marinade") /\ (CheckReceipt(c) \/ ReadAccounts(c) \/ Send(c) \/ Confirm(c) \/ Throw(c))

(* A transaction under way lands and runs, lands and is rejected, or its   *)
(* blockhash expires; no answer the service has given stops it.            *)
Settle(c, fate) ==
  /\ tx[c] = "flying"
  /\ tx' = [tx EXCEPT ![c] = fate]
  /\ UNCHANGED <<env, config, price, call, outside>>
Land(c) ==
  /\ Settle(c, "landed") /\ Runs(c)
  /\ IF Deposits(call[c])
     THEN DepositWithSwap(c) /\ UNCHANGED <<receipts, executed>>
     ELSE Execute(call[c].req.service, c) /\ UNCHANGED <<accounts, moved>>
Lapse(c) ==
  /\ Settle(c, "rejected") \/ Settle(c, "expired")
  /\ UNCHANGED <<receipts, executed, accounts, moved>>
-----------------------------------------------------------------------------
Kamino(c)   == KaminoBuild(c) \/ KaminoSimulate(c) \/ KaminoSubmit(c)
Raydium(c)  == RaydiumBuild(c) \/ RaydiumSimulate(c) \/ RaydiumSubmit(c)
Marinade(c) == MarinadeBuild(c) \/ MarinadeSimulate(c) \/ MarinadeSubmit(c)
Proceed(c)  == Kamino(c) \/ Raydium(c) \/ Marinade(c)

Next ==
  \/ KaminoProgram \/ RaydiumProgram \/ MarinadeProgram \/ MovePool
  \/ \E a \in {"wsol"} \union Recipients : OpenAccount(a)
  \/ \E c \in Calls :
       \/ \E r \in Requests : KaminoBegin(c, r) \/ RaydiumBegin(c, r) \/ MarinadeBegin(c, r)
       \/ Proceed(c) \/ Land(c) \/ Lapse(c)

Spec == Init /\ [][Next]_vars
-----------------------------------------------------------------------------
(* Properties.                                                             *)

TypeOK ==
  /\ env \in Settings
  /\ config \in [Services -> Configs \union {NoConfig}]
  /\ receipts \subseteq Recording \X Calls
  /\ executed \in [Recording -> [Calls -> Nat]]
  /\ price \in Prices
  /\ accounts \subseteq {"wsol"} \union Recipients
  /\ call \in [Calls -> [at : Steps, req : AllRequests \union {NoRequest}, payload : Payloads, min : Nat,
                         deposit : Nat, creates : SUBSET ({"wsol"} \union Recipients), answer : Answers]]
  /\ tx \in [Calls -> {"none", "flying", "landed", "rejected", "expired"}]
  /\ moved \in [Calls -> [out : Nat, staked : Nat]]
  /\ outside \in 0..MaxOutside
  /\ \A c \in Calls : call[c].at = "answered" <=> call[c].answer # "none"

(* An intent is executed at most once by a program that records it: the    *)
(* receipt account it creates is the only thing that stops the service, a  *)
(* permissionless caller or a transaction that lands after the service     *)
(* gave it up from executing it again.                                     *)
AtMostOnce ==
  \A p \in Recording, i \in Calls : executed[p][i] = IF <<p, i>> \in receipts THEN 1 ELSE 0

(* What the service answers of a call is so: what succeeded is on the      *)
(* chain, what was already executed is, and not by this call's             *)
(* transaction, and of everything else but "failed" nothing was sent.      *)
AnswersAreTrue ==
  \A c \in Calls :
    /\ call[c].answer = "succeeded" => tx[c] = "landed"
    /\ call[c].answer = "already_executed" => tx[c] = "none" /\ <<call[c].req.service, c>> \in receipts
    /\ call[c].answer \in {"simulated", "planned", "builder_only", "not_configured", "threw"} => tx[c] = "none"

(* Whatever the pool does between the quote and the block, what is staked  *)
(* was swapped for at least the minimum the request names, and if it names *)
(* neither an amount nor a minimum, its swap paid for all of the stake.    *)
(* (If it names either, the operator's SOL may pay for a part: a deposit   *)
(* is made as named, and a quoted one when the swap pays less than the     *)
(* quote but not less than a smaller minimum of the request's.)            *)
SwapCoversDeposit ==
  \A c \in Calls : LET req == call[c].req IN
    moved[c].staked > 0 =>
      /\ moved[c].out >= req.least
      /\ req.asked = 0 /\ req.least = 0 => moved[c].out >= moved[c].staked
=============================================================================
