-------------------------- MODULE StellarExecution --------------------------
(***************************************************************************)
(* The Stellar half of the protocol executors: the adapter contracts under *)
(* programs/stellar/contracts, the services that build a call to them      *)
(* (stellarAquarius.ts, stellarBlend.ts) and the submitter that sends it   *)
(* (stellarAdapterSubmitter.ts).                                           *)
(*                                                                         *)
(* Every transaction is the operator's: it bears the sequence number read  *)
(* when it was built and is valid only right after the account's.  A swap  *)
(* pays the operator, and the submitter sends as much of the token the     *)
(* request names on to the recipient with a second transaction; any other  *)
(* Aquarius call relays within the contract, and so does a swap whose      *)
(* arguments, given by the request, say so.  The arguments name the intent *)
(* they are given for.  "held" says of each token what the calls have left *)
(* with the operator, less what it relayed, and what requests have had it  *)
(* relay that their own calls do not leave.                                *)
(***************************************************************************)
EXTENDS Integers, FiniteSets

CONSTANTS
  Calls,         (* the calls of the services                               *)
  Settings,      (* the settings a process may be started with              *)
  Deployed,      (* how the contracts may already be deployed               *)
  Requests,      (* the requests a service may get                          *)
  Accounts,      (* who calls the contracts                                 *)
  Operator,      (* the service's account                                   *)
  Outs,          (* what a call may pay                                     *)
  MaxOutside     (* bound on what everyone but the services does            *)

Contracts == {"aquarius", "blend"}
Targets   == {"pool", "router"}        (* whom a contract may be told to call *)
Tokens    == {"paid", "other"}         (* what the calls pay, and any other   *)
NoConfig  == [admin |-> "none", paused |-> FALSE]
Configs   == [admin : Accounts, executor : Accounts, targets : SUBSET Targets,
              permissionless : BOOLEAN, paused : BOOLEAN]
AllRequests ==
  [service : Contracts, mode : {"execute", "simulate"}, swap : BOOLEAN, within : BOOLEAN,
   args : {"fit", "unfit", "missing", "malformed"}, to : {"none", "invalid", "valid"}, token : Tokens]

ASSUME CallsAssumption == IsFiniteSet(Calls)
ASSUME SettingsAssumption ==
  Settings \subseteq [dryRun : BOOLEAN, key : BOOLEAN, addressed : SUBSET Contracts]
ASSUME DeployedAssumption == Deployed \subseteq [Contracts -> Configs \union {NoConfig}]
ASSUME RequestsAssumption ==
  /\ Requests \subseteq AllRequests
  /\ \A r \in Requests : (r.service = "blend" => ~r.swap) /\ (r.within => r.swap)
ASSUME AccountsAssumption == Operator \in Accounts
ASSUME AmountsAssumption == Outs \subseteq Nat /\ MaxOutside \in Nat

VARIABLES
  env,           (* the process's settings                                  *)
  config,        (* the instance storage of each contract                   *)
  receipts,      (* whose receipt each contract has for each intent         *)
  seq,           (* the sequence number of the operator's account           *)
  sent,          (* the transactions sent, and what became of them          *)
  out,           (* what the transaction of each call returned              *)
  held,          (* of each token, what is left with the operator           *)
  call,          (* each call: where it is suspended and what it knows      *)
  outside        (* how often the others acted                              *)

vars   == <<env, config, receipts, seq, sent, out, held, call, outside>>
ledger == <<seq, sent, out, held>>

NoRequest == [service |-> "none"]
Steps     == {"idle", "simulating", "reading", "sending", "waiting",
              "relayReading", "relaySending", "relayWaiting", "answered"}
Answers   == {"none", "simulated", "succeeded", "failed", "planned", "not_configured", "threw"}
Idle      == [at |-> "idle", req |-> NoRequest, seq |-> 0, answer |-> "none"]

(* A transaction is known by its contents: two relays of one amount of one *)
(* token that were built on one sequence number are one transaction.       *)
CallTx(c)  == [by |-> c, seq |-> call[c].seq]
RelayTx(c) == [amount |-> out[c], token |-> call[c].req.token, seq |-> call[c].seq]
Fate(t)    == IF t \in DOMAIN sent THEN sent[t] ELSE "none"
SentAs(t, fate) == [u \in DOMAIN sent \union {t} |-> IF u = t THEN fate ELSE sent[u]]

Init ==
  /\ env \in Settings
  /\ config \in Deployed
  /\ receipts = [a \in Contracts |-> [c \in Calls |-> "none"]]
  /\ seq = 0
  /\ sent = [t \in {} |-> "none"]
  /\ out = [c \in Calls |-> 0]
  /\ held = [k \in Tokens |-> [left |-> 0, unbacked |-> 0]]
  /\ call = [c \in Calls |-> Idle]
  /\ outside = 0
-----------------------------------------------------------------------------
(* The contracts.                                                          *)

Outside      == outside < MaxOutside /\ outside' = outside + 1
Ready(a)     == config[a] # NoConfig /\ ~config[a].paused
Authorized(a, s) == config[a].permissionless \/ s \in {config[a].admin, config[a].executor}

Initialize(a, s, executor, targets, permissionless) ==
  /\ Outside /\ config[a] = NoConfig
  /\ config' = [config EXCEPT ![a] = [admin |-> s, executor |-> executor, targets |-> targets,
                                      permissionless |-> permissionless, paused |-> FALSE]]
  /\ UNCHANGED <<env, receipts, ledger, call>>

(* Faulty variant: an administrator need not find the contract ready. *)
SetConfigAlways(a, field, value) ==
  /\ Outside /\ config[a] # NoConfig
  /\ config' = [config EXCEPT ![a][field] = value]
  /\ UNCHANGED <<env, receipts, ledger, call>>

(* Every setter goes through require_admin, which goes through             *)
(* require_ready.                                                          *)
SetConfig(a, field, value) ==
  /\ Outside /\ Ready(a)
  /\ config' = [config EXCEPT ![a][field] = value]
  /\ UNCHANGED <<env, receipts, ledger, call>>

SetExecutor(a, s)       == SetConfig(a, "executor", s)
SetPermissionless(a, b) == SetConfig(a, "permissionless", b)
SetPaused(a, b)         == SetConfig(a, "paused", b)
SetRouter(listed) ==
  Ready("aquarius") /\ SetConfig("aquarius", "targets", (config["aquarius"].targets \ {"router"}) \union listed)
SetPool(listed) ==
  Ready("aquarius") /\ SetConfig("aquarius", "targets", (config["aquarius"].targets \ {"pool"}) \union listed)
SetTargets(listed) == SetConfig("blend", "targets", listed)

(* What execute and swap_direct require; the target's own checks are in    *)
(* whether the call succeeds.                                              *)
Target(r) == IF r.service = "blend" \/ r.swap THEN "pool" ELSE "router"
CanRun(r, s) ==
  Ready(r.service) /\ Authorized(r.service, s) /\ Target(r) \in config[r.service].targets /\ r.args = "fit"

(* A receipt is written over the one an intent already has.                *)
ExecuteDirectly(r, s, c) ==
  /\ Outside /\ CanRun(r, s)
  /\ receipts' = [receipts EXCEPT ![r.service][c] = "theirs"]
  /\ UNCHANGED <<env, config, ledger, call>>

(* Blend is given its pool at once, Aquarius only its router.              *)
FirstTargets(a) == IF a = "aquarius" THEN {"router"} ELSE {"pool"}
Administrate(a) ==
  \/ \E s, e \in Accounts, b \in BOOLEAN : Initialize(a, s, e, FirstTargets(a), b)
  \/ \E s \in Accounts : SetExecutor(a, s)
  \/ \E b \in BOOLEAN : SetPermissionless(a, b) \/ SetPaused(a, b)
AquariusAdapter ==
  Administrate("aquarius") \/ SetRouter({}) \/ SetRouter({"router"}) \/ SetPool({}) \/ SetPool({"pool"})
BlendAdapter == Administrate("blend") \/ \E listed \in SUBSET {"pool"} : SetTargets(listed)
-----------------------------------------------------------------------------
(* The ledger.  A transaction that does not follow the account's sequence  *)
(* number, or is not taken for 300 seconds, lapses; one that fails has     *)
(* used its number up.                                                     *)

Take(t, fate) ==
  /\ Fate(t) = "pending" /\ t.seq = seq + 1
  /\ sent' = SentAs(t, fate)
  /\ seq' = t.seq
Lapse(t) ==
  /\ Fate(t) = "pending"
  /\ sent' = SentAs(t, "lapsed")
  /\ UNCHANGED <<env, config, receipts, seq, out, held, call, outside>>
Fail(t) == Take(t, "failed") /\ UNCHANGED <<env, config, receipts, out, held, call, outside>>

(* Whether the call pays a recipient before it returns: what it brought    *)
(* the operator of the token named, which is nothing of any other.         *)
RelaysItself(r) == r.service = "aquarius" /\ (r.within \/ (~r.swap /\ r.to = "valid" /\ r.token = "paid"))

(* What a call leaves with the operator, and what it will have it relay    *)
(* though the call does not leave it.                                      *)
Left(r, k)     == k = "paid" /\ ~RelaysItself(r)
Unbacked(r, k) == r.swap /\ r.to = "valid" /\ k = r.token /\ ~Left(r, k)
Booked(r, paid) ==
  [k \in Tokens |-> [left     |-> held[k].left + (IF Left(r, k) THEN paid ELSE 0),
                     unbacked |-> held[k].unbacked + (IF Unbacked(r, k) THEN paid ELSE 0)]]

Execute(c, paid) ==
  /\ Take(CallTx(c), "success") /\ CanRun(call[c].req, Operator)
  /\ receipts' = [receipts EXCEPT ![call[c].req.service][c] = "own"]
  /\ out' = [out EXCEPT ![c] = paid]
  /\ held' = Booked(call[c].req, paid)
  /\ UNCHANGED <<env, config, call, outside>>

TransferRelay(t) ==
  /\ Take(t, "success")
  /\ held' = [held EXCEPT ![t.token].left = @ - t.amount]
  /\ UNCHANGED <<env, config, receipts, out, call, outside>>

(* Another service uses the account: a burn, a trustline.                  *)
UseAccount ==
  /\ Outside /\ seq' = seq + 1
  /\ UNCHANGED <<env, config, receipts, sent, out, held, call>>
-----------------------------------------------------------------------------
(* The services.                                                           *)

World == <<env, config, receipts, ledger, outside>>
To(c, step)  == call' = [call EXCEPT ![c].at = step] /\ UNCHANGED World
Answer(c, a) == call' = [call EXCEPT ![c].at = "answered", ![c].answer = a] /\ UNCHANGED World
Enter(c, r, step, a) ==
  /\ call[c].at = "idle"
  /\ call' = [call EXCEPT ![c] = [Idle EXCEPT !.at = step, !.req = r, !.answer = a]]
  /\ UNCHANGED World

(* Aquarius answers what it does not submit; Blend throws, except that it  *)
(* answers a dry run.  Arguments that cannot be read make both throw.      *)
Callable(r) == r.service \in env.addressed /\ r.args # "missing"
Malformed(c, r) == r.args = "malformed" /\ Enter(c, r, "answered", "threw")
AquariusBegin(c, r) ==
  /\ r.service = "aquarius" /\ r.args # "malformed"
  /\ \/ Callable(r) /\ r.mode = "simulate" /\ Enter(c, r, "simulating", "none")
     \/ Callable(r) /\ r.mode = "execute" /\ ~env.dryRun /\ Enter(c, r, "reading", "none")
     \/ /\ ~Callable(r) \/ (r.mode = "execute" /\ env.dryRun)
        /\ Enter(c, r, "answered", IF env.dryRun THEN "planned" ELSE "not_configured")
BlendBegin(c, r) ==
  /\ r.service = "blend" /\ r.args # "malformed"
  /\ \/ Callable(r) /\ r.mode = "simulate" /\ Enter(c, r, "simulating", "none")
     \/ Callable(r) /\ r.mode = "execute" /\ ~env.dryRun /\ Enter(c, r, "reading", "none")
     \/ ~Callable(r) /\ (r.mode = "simulate" \/ ~env.dryRun) /\ Enter(c, r, "answered", "threw")
     \/ r.mode = "execute" /\ env.dryRun /\ Enter(c, r, "answered", "planned")

(* A recipient that is no address is noticed while the arguments of        *)
(* execute are made, and by a swap not until its relay is.                 *)
Encodable(r) == r.service = "blend" \/ r.swap \/ r.to # "invalid"
Simulate(c) ==
  /\ call[c].at = "simulating"
  /\ \/ /\ env.key /\ Encodable(call[c].req) /\ CanRun(call[c].req, Operator)
        /\ Answer(c, "simulated")
     \/ Answer(c, "threw")
-----------------------------------------------------------------------------
(* The submitter, inside the service's try: whatever it throws is "failed". *)

Throw(c) == call[c].at \notin {"idle", "simulating", "answered"} /\ Answer(c, "failed")

ReadsAt(c, step, next) ==
  /\ call[c].at = step /\ env.key
  /\ call' = [call EXCEPT ![c].at = next, ![c].seq = seq + 1]
  /\ UNCHANGED World

(* Sent, or found to be under way already, which is as good.               *)
Sends(c, t, next) ==
  /\ \/ Fate(t) = "pending"
     \/ t.seq = seq + 1 /\ \A u \in DOMAIN sent : sent[u] # "pending"
  /\ sent' = SentAs(t, "pending")
  /\ call' = [call EXCEPT ![c].at = next]
  /\ UNCHANGED <<env, config, receipts, seq, out, held, outside>>

ReadAccount(c) == ReadsAt(c, "reading", "sending")

(* Prepared, which simulates it, signed and sent.                          *)
Send(c) ==
  /\ call[c].at = "sending" /\ Encodable(call[c].req) /\ CanRun(call[c].req, Operator)
  /\ Sends(c, CallTx(c), "waiting")

Relayed(c) == call[c].req.swap /\ call[c].req.to # "none" /\ out[c] > 0

(* Faulty variant: the answer does not wait for the relay. *)
FinalEarly(c) ==
  /\ call[c].at = "waiting" /\ Fate(CallTx(c)) = "success"
  /\ call' = [call EXCEPT ![c].at = IF Relayed(c) THEN "relayReading" ELSE "answered", ![c].answer = "succeeded"]
  /\ UNCHANGED World

(* Faulty variant: whatever the ledger says of the transaction is final. *)
FinalUnread(c) ==
  /\ call[c].at = "waiting" /\ Fate(CallTx(c)) \in {"success", "failed"}
  /\ IF Relayed(c) THEN To(c, "relayReading") ELSE Answer(c, "succeeded")

Final(c) ==
  /\ call[c].at = "waiting" /\ Fate(CallTx(c)) = "success"
  /\ IF Relayed(c) THEN To(c, "relayReading") ELSE Answer(c, "succeeded")

ReadForRelay(c) == ReadsAt(c, "relayReading", "relaySending")
SendRelay(c) ==
  /\ call[c].at = "relaySending" /\ call[c].req.to = "valid"
  /\ Sends(c, RelayTx(c), "relayWaiting")

(* Faulty variant: a relay nobody has seen for 120 seconds is sent anew. *)
RelayFinalOrAgain(c) ==
  /\ call[c].at = "relayWaiting"
  /\ \/ Fate(RelayTx(c)) = "success" /\ Answer(c, "succeeded")
     \/ Fate(RelayTx(c)) = "pending" /\ To(c, "relayReading")

RelayFinal(c) ==
  /\ call[c].at = "relayWaiting" /\ Fate(RelayTx(c)) = "success"
  /\ Answer(c, "succeeded")

Submit(c) ==
  ReadAccount(c) \/ Send(c) \/ Final(c) \/ ReadForRelay(c) \/ SendRelay(c) \/ RelayFinal(c) \/ Throw(c)
-----------------------------------------------------------------------------
IsRelay(t) == "amount" \in DOMAIN t

Next ==
  \/ AquariusAdapter \/ BlendAdapter \/ UseAccount
  \/ \E r \in Requests, s \in Accounts, c \in Calls : ExecuteDirectly(r, s, c)
  \/ \E t \in DOMAIN sent : Lapse(t) \/ Fail(t) \/ (IsRelay(t) /\ TransferRelay(t))
  \/ \E c \in Calls :
       \/ \E r \in Requests : AquariusBegin(c, r) \/ BlendBegin(c, r) \/ Malformed(c, r)
       \/ \E paid \in Outs : Execute(c, paid)
       \/ Simulate(c) \/ Submit(c)

Spec == Init /\ [][Next]_vars
-----------------------------------------------------------------------------
(* Properties.                                                             *)

MaxSeq == 2 * Cardinality(Calls) + MaxOutside
TypeOK ==
  /\ env \in Settings
  /\ config \in [Contracts -> Configs \union {NoConfig}]
  /\ receipts \in [Contracts -> [Calls -> {"none", "own", "theirs"}]]
  /\ seq \in 0..MaxSeq
  /\ DOMAIN sent \subseteq [by : Calls, seq : 1..MaxSeq] \union [amount : Outs, token : Tokens, seq : 1..MaxSeq]
  /\ \A t \in DOMAIN sent : sent[t] \in {"pending", "success", "failed", "lapsed"}
  /\ out \in [Calls -> Outs \union {0}]
  /\ held \in [Tokens -> [left : Int, unbacked : Nat]]
  /\ call \in [Calls -> [at : Steps, req : AllRequests \union {NoRequest}, seq : 0..MaxSeq + 1, answer : Answers]]
  /\ outside \in 0..MaxOutside
  /\ \A c \in Calls : call[c].at = "answered" <=> call[c].answer # "none"

(* A call that succeeded ran, has left a receipt, and where it swapped for *)
(* a recipient a transfer of just that amount went through; whatever was   *)
(* answered otherwise, except "failed", moved nothing.                     *)
SucceededIsRelayed ==
  \A c \in Calls :
    /\ call[c].answer = "succeeded" =>
         /\ receipts[call[c].req.service][c] # "none"
         /\ Relayed(c) => Fate(RelayTx(c)) = "success"
    /\ call[c].answer \in {"simulated", "planned", "not_configured", "threw"} =>
         out[c] = 0 /\ \A t \in DOMAIN sent : ~IsRelay(t) => t.by # c

(* The operator relays no more of any token than the calls leave it, but   *)
(* for what requests have it relay once more or in another token than      *)
(* their swap pays: timeouts, transfers that land after their call failed  *)
(* and transfers two calls share leave it with more, never with less.      *)
RelaysAreCovered == \A k \in Tokens : held[k].left + held[k].unbacked >= 0

(* A contract that was paused stays as it is: nobody can execute with it,  *)
(* and nobody can set anything, "paused" included.                         *)
PauseIsFinal ==
  [][\A a \in Contracts :
       config[a].paused => config'[a] = config[a] /\ receipts'[a] = receipts[a]]_vars
=============================================================================
