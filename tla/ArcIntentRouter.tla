-------------------------- MODULE ArcIntentRouter --------------------------
(***************************************************************************)
(* The contract contracts/src/routers/ArcIntentRouterUpgradeable.sol and   *)
(* the USDC it handles.  Bridges mint USDC to the router; an operator then *)
(* spends it with executeWithRouterBalance; users who hold USDC on the     *)
(* same chain go through routeLocal.                                       *)
(*                                                                         *)
(* One action per external function; a transaction is atomic, so a revert  *)
(* anywhere in it (in the token or in the adapter too) is an action that   *)
(* is not enabled.  Intent ids are hashes: they are modelled by the party, *)
(* the chain and protocol, the amount and the block stamp that are hashed. *)
(* The action data and the rest of the preimage are left out, so two ids   *)
(* of the model are equal more often than the hashes are, and the model    *)
(* sees more collisions than the contract.  uint256 sums of USDC cannot    *)
(* overflow and stay in Nat.                                               *)
(***************************************************************************)
EXTENDS Naturals, FiniteSets, FiniteSetsExt

CONSTANTS
  Users,         (* accounts that route funds or benefit from an intent       *)
  AdapterKeys,   (* (destination chain, protocol) pairs                       *)
  Adapters,      (* addresses of adapter contracts                            *)
  Treasuries,    (* addresses the admin may name as treasury                  *)
  Router,        (* the router's own address                                  *)
  Protocol,      (* every address an adapter pays into: pools, markets        *)
  RemoteIds,     (* ids of intents of other chains                            *)
  OperatorIds,   (* ids an operator records, of other chains or not           *)
  Amounts,       (* the amounts callers ask for, 0 among them                 *)
  PoolAsks,      (* what a pool may ask of an adapter, up to a given maximum  *)
  FeeInputs,     (* the fees the admin tries to set, in basis points          *)
  InitialFee,    (* the fee given to initialize                               *)
  Supply,        (* USDC the users hold at first, and the most a bridge mints *)
  MaxBlock,      (* bound on the block number                                 *)
  NoAdapter,     (* the zero address in an AdapterRecord                      *)
  NoIntent       (* an intents[] entry never written                          *)

MaxFeeBps == 100
BpsBase   == 10000

ASSUME FeeAssumption    == FeeInputs \subseteq Nat /\ InitialFee \in 0..MaxFeeBps
ASSUME AmountAssumption ==
  Amounts \subseteq Nat /\ PoolAsks \subseteq Nat /\ Supply \in Nat /\ MaxBlock \in Nat

(* The parties are different addresses, but nothing keeps the admin from   *)
(* naming the router itself as treasury.                                   *)
ASSUME PartiesAssumption ==
  /\ Router \notin Users \union Adapters \union {Protocol}
  /\ Protocol \notin Users \union Adapters \union Treasuries
  /\ Users \intersect Adapters = {} /\ Treasuries \intersect (Users \union Adapters) = {}
  /\ Treasuries # {} /\ NoAdapter \notin Adapters

VARIABLES
  paused,
  treasury,
  feeBps,
  adapters,      (* adapters[key]: [adapter, enabled]                         *)
  intents,       (* intents[id]: NoIntent or the record                       *)
  balance,       (* USDC.balanceOf                                            *)
  block,         (* block.number and block.timestamp                          *)
  minted,        (* USDC bridged or prefunded to the router so far            *)
  spent,         (* USDC that left the router through executeWithRouterBalance*)
  rescued        (* USDC that left the router through rescueToken             *)

configVars  == <<paused, treasury, feeBps, adapters>>
historyVars == <<minted, spent, rescued>>
vars        == <<configVars, intents, balance, block, historyVars>>

Holders == Users \union Adapters \union Treasuries \union {Router, Protocol}

(* What is kept of the preimage of an intent id.  routeLocal hashes        *)
(* block.number where executeWithRouterBalance hashes block.timestamp.     *)
LocalIds == [party : Users, key : AdapterKeys, amount : Amounts,
             stamp : {"number", "timestamp"} \X (0..MaxBlock)]
IntentIds == LocalIds \union RemoteIds

(* Only so many ids are asked for. *)
ASSUME IdsAssumption == OperatorIds \subseteq IntentIds /\ IsFiniteSet(LocalIds)

Records == [status : {"Executed", "RemoteRecorded"}, initiator : Users,
            amountIn : Nat, feeAmount : Nat]

(* A record is never taken for an entry not written. *)
ASSUME NoIntentAssumption == NoIntent \notin Records

FeeOf(amount) == (amount * feeBps) \div BpsBase

(* ERC20 transfers, the sender's balance checked by the guard of the action *)
Pay(b, from, to, n) ==
  LET paid == [b EXCEPT ![from] = @ - n] IN [paid EXCEPT ![to] = @ + n]

Init ==
  /\ paused = FALSE
  /\ treasury \in Treasuries
  /\ feeBps = InitialFee
  /\ adapters = [k \in AdapterKeys |-> [adapter |-> NoAdapter, enabled |-> FALSE]]
  /\ intents = [id \in IntentIds |-> NoIntent]
  /\ balance = [h \in Holders |-> IF h \in Users THEN Supply ELSE 0]
  /\ block = [number |-> 0, timestamp |-> 0]
  /\ minted = 0 /\ spent = 0 /\ rescued = 0
-----------------------------------------------------------------------------
(* Administration. *)

RegisterAdapter(k, a, enabled) ==
  /\ adapters' = [adapters EXCEPT ![k] = [adapter |-> a, enabled |-> enabled]]
  /\ UNCHANGED <<paused, treasury, feeBps, intents, balance, block, historyVars>>

SetAdapterStatus(k, enabled) ==
  /\ adapters[k].adapter # NoAdapter
  /\ adapters' = [adapters EXCEPT ![k].enabled = enabled]
  /\ UNCHANGED <<paused, treasury, feeBps, intents, balance, block, historyVars>>

SetTreasury(t) ==
  /\ treasury' = t
  /\ UNCHANGED <<paused, feeBps, adapters, intents, balance, block, historyVars>>

SetFeeBps(fee) ==
  /\ fee <= MaxFeeBps
  /\ feeBps' = fee
  /\ UNCHANGED <<paused, treasury, adapters, intents, balance, block, historyVars>>

SetPaused(value) ==
  /\ paused # value
  /\ paused' = value
  /\ UNCHANGED <<treasury, feeBps, adapters, intents, balance, block, historyVars>>
-----------------------------------------------------------------------------
(* What an adapter may do before it returns: pay what its action data asks *)
(* for into a protocol, nothing, the amount it was sent, all it holds,     *)
(* leftovers of earlier intents included, or what a swap to an exact       *)
(* output turns out to need; and, if it is one that refunds, send its      *)
(* whole remaining balance on.                                             *)
AdapterSpends(held, sent) ==
  {0, sent, held + sent} \union {n \in PoolAsks : n <= held + sent}

(* Where what is left goes: nowhere, if the adapter does not refund, to    *)
(* the user, or to an address the action data names, the router at worst.  *)
RefundTargets(k, user) == {adapters[k].adapter, user, Router}

AfterAdapter(b, a, paidIn, refundTo) ==
  Pay(Pay(b, a, Protocol, paidIn), a, refundTo, b[a] - paidIn)

Executable(k) == ~paused /\ adapters[k].adapter # NoAdapter /\ adapters[k].enabled

ExecutedRecord(party, amount) ==
  [status |-> "Executed", initiator |-> party,
   amountIn |-> amount - FeeOf(amount), feeAmount |-> FeeOf(amount)]

(* Faulty variant: only what the adapter gets is pulled from the sender.   *)
RouteLocalShort(user, k, amount, paidIn, refundTo) ==
  LET id == [party |-> user, key |-> k, amount |-> amount, stamp |-> <<"number", block.number>>]
      a  == adapters[k].adapter
      pulled == Pay(balance, user, Router, amount - FeeOf(amount))
      feePaid == Pay(pulled, Router, treasury, FeeOf(amount))
      sent   == Pay(feePaid, Router, a, amount - FeeOf(amount))
  IN
  /\ Executable(k) /\ amount > 0
  /\ intents[id] = NoIntent
  /\ balance[user] >= amount
  /\ balance[Router] >= FeeOf(amount)
  /\ intents' = [intents EXCEPT ![id] = ExecutedRecord(user, amount)]
  /\ balance' = AfterAdapter(sent, a, paidIn, refundTo)
  /\ UNCHANGED <<configVars, block, historyVars>>

(* routeLocal: the sender's USDC passes through the router to the treasury *)
(* and the adapter, which runs in the same transaction.                    *)
RouteLocal(user, k, amount, paidIn, refundTo) ==
  LET id == [party |-> user, key |-> k, amount |-> amount, stamp |-> <<"number", block.number>>]
      a  == adapters[k].adapter
      pulled == Pay(balance, user, Router, amount)
      feePaid == Pay(pulled, Router, treasury, FeeOf(amount))
      sent   == Pay(feePaid, Router, a, amount - FeeOf(amount))
  IN
  /\ Executable(k) /\ amount > 0
  /\ intents[id] = NoIntent
  /\ balance[user] >= amount
  /\ intents' = [intents EXCEPT ![id] = ExecutedRecord(user, amount)]
  /\ balance' = AfterAdapter(sent, a, paidIn, refundTo)
  /\ UNCHANGED <<configVars, block, historyVars>>

(* Faulty variant: the id is not looked up before the record is written.   *)
ExecuteWithRouterBalanceAgain(user, k, amount, paidIn, refundTo) ==
  LET id == [party |-> user, key |-> k, amount |-> amount, stamp |-> <<"timestamp", block.timestamp>>]
      a  == adapters[k].adapter
      feePaid == Pay(balance, Router, treasury, FeeOf(amount))
      sent   == Pay(feePaid, Router, a, amount - FeeOf(amount))
  IN
  /\ Executable(k) /\ amount > 0
  /\ balance[Router] >= amount
  /\ intents' = [intents EXCEPT ![id] = ExecutedRecord(user, amount)]
  /\ balance' = AfterAdapter(sent, a, paidIn, refundTo)
  /\ spent' = spent + amount
  /\ UNCHANGED <<configVars, block, minted, rescued>>

(* executeWithRouterBalance: the same with the router's own USDC, for an   *)
(* operator and on behalf of a beneficiary, who also gets the refund.      *)
ExecuteWithRouterBalance(user, k, amount, paidIn, refundTo) ==
  LET id == [party |-> user, key |-> k, amount |-> amount, stamp |-> <<"timestamp", block.timestamp>>]
      a  == adapters[k].adapter
      feePaid == Pay(balance, Router, treasury, FeeOf(amount))
      sent   == Pay(feePaid, Router, a, amount - FeeOf(amount))
  IN
  /\ Executable(k) /\ amount > 0
  /\ intents[id] = NoIntent
  /\ balance[Router] >= amount
  /\ intents' = [intents EXCEPT ![id] = ExecutedRecord(user, amount)]
  /\ balance' = AfterAdapter(sent, a, paidIn, refundTo)
  /\ spent' = spent + amount
  /\ UNCHANGED <<configVars, block, minted, rescued>>

(* Faulty variant: the id is taken without looking. *)
RecordRemoteOver(id, user, amount) ==
  /\ intents' = [intents EXCEPT ![id] = [status |-> "RemoteRecorded", initiator |-> user,
                                         amountIn |-> amount, feeAmount |-> 0]]
  /\ UNCHANGED <<configVars, balance, block, historyVars>>

(* recordRemoteIntent: pausing the router does not stop it, and the id is  *)
(* whatever the operator says.                                             *)
RecordRemoteIntent(id, user, amount) ==
  /\ intents[id] = NoIntent
  /\ intents' = [intents EXCEPT ![id] = [status |-> "RemoteRecorded", initiator |-> user,
                                         amountIn |-> amount, feeAmount |-> 0]]
  /\ UNCHANGED <<configVars, balance, block, historyVars>>

(* rescueToken: the admin takes USDC out, paused or not. *)
RescueToken(to, amount) ==
  /\ balance[Router] >= amount
  /\ balance' = Pay(balance, Router, to, amount)
  /\ rescued' = rescued + amount
  /\ UNCHANGED <<configVars, intents, block, minted, spent>>

(* A bridge mints USDC to the router, or the operator sends it some. *)
BridgeMint(amount) ==
  /\ minted + amount <= Supply
  /\ balance' = [balance EXCEPT ![Router] = @ + amount]
  /\ minted' = minted + amount
  /\ UNCHANGED <<configVars, intents, block, spent, rescued>>

(* Blocks of the same second share a timestamp. *)
NextBlock(dt) ==
  /\ block.number < MaxBlock
  /\ block' = [number |-> block.number + 1, timestamp |-> block.timestamp + dt]
  /\ UNCHANGED <<configVars, intents, balance, historyVars>>

(* AdapterBase.sweep: a sweeper takes some or all of what an adapter holds. *)
Sweep(a, to, amount) ==
  /\ balance[a] >= amount
  /\ balance' = Pay(balance, a, to, amount)
  /\ UNCHANGED <<configVars, intents, block, historyVars>>

HeldBy(k) == IF adapters[k].adapter = NoAdapter THEN 0 ELSE balance[adapters[k].adapter]

Next ==
  \/ \E k \in AdapterKeys, a \in Adapters, on \in BOOLEAN : RegisterAdapter(k, a, on)
  \/ \E k \in AdapterKeys, on \in BOOLEAN : SetAdapterStatus(k, on)
  \/ \E t \in Treasuries : SetTreasury(t)
  \/ \E fee \in FeeInputs : SetFeeBps(fee)
  \/ \E value \in BOOLEAN : SetPaused(value)
  \/ \E user \in Users, k \in AdapterKeys, amount \in Amounts :
       \E paidIn \in AdapterSpends(HeldBy(k), amount - FeeOf(amount)),
          refundTo \in RefundTargets(k, user) :
         \/ RouteLocal(user, k, amount, paidIn, refundTo)
         \/ ExecuteWithRouterBalance(user, k, amount, paidIn, refundTo)
  \/ \E id \in OperatorIds, user \in Users, amount \in Amounts : RecordRemoteIntent(id, user, amount)
  \/ \E to \in Users, amount \in Amounts : RescueToken(to, amount)
  \/ \E a \in Adapters, to \in Users \union {Router} :
       \E amount \in Amounts \union {balance[a]} : Sweep(a, to, amount)
  \/ \E amount \in Amounts : BridgeMint(amount)
  \/ \E dt \in {0, 1} : NextBlock(dt)

Spec == Init /\ [][Next]_vars
-----------------------------------------------------------------------------
(* Type invariant; balances never go below zero. *)
TypeOK ==
  /\ paused \in BOOLEAN
  /\ treasury \in Treasuries
  /\ feeBps \in 0..MaxFeeBps
  /\ adapters \in [AdapterKeys -> [adapter : Adapters \union {NoAdapter}, enabled : BOOLEAN]]
  /\ intents \in [IntentIds -> Records \union {NoIntent}]
  /\ balance \in [Holders -> Nat]
  /\ block \in [number : 0..MaxBlock, timestamp : 0..MaxBlock]
  /\ minted \in Nat /\ spent \in Nat /\ rescued \in Nat

(* The router is never short: it still holds what bridges minted to it and *)
(* was neither executed nor rescued.  A local route, whatever the fee and  *)
(* whatever the adapter does, leaves the USDC of bridged intents where it  *)
(* is, and the fee of an execution comes out of its amount, not on top.    *)
CustodyCovered == balance[Router] + spent + rescued >= minted

(* What a record says was taken from the router's pooled USDC: the amount  *)
(* and the fee of an execution, nothing of a remote record or of a local   *)
(* route, which the sender paid for.                                       *)
Booked == [id \in LocalIds |->
  IF /\ id.stamp[1] = "timestamp"
     /\ intents[id] # NoIntent
     /\ intents[id].status = "Executed"
  THEN intents[id].amountIn + intents[id].feeAmount
  ELSE 0]

(* What was spent of the pooled USDC that bridges minted is on record, to  *)
(* the last unit: two executions in blocks with one timestamp, or an       *)
(* operator who records the id of an execution before or after it, never   *)
(* leave a spending without its record or a record of what was not spent,  *)
(* whatever the fee was by then and however it was rounded.                *)
SpendingIsOnRecord ==
  MapThenSumSet(LAMBDA id : Booked[id], LocalIds) = spent

(* The fee taken from an intent was at most 1% of what it came with, even  *)
(* when the admin changes the fee between intents.                         *)
FeeWithinCap ==
  \A id \in IntentIds : intents[id] # NoIntent =>
    intents[id].feeAmount * BpsBase <= MaxFeeBps * (intents[id].amountIn + intents[id].feeAmount)

(* An intent id is used once: an execution or a remote record never        *)
(* overwrites what is on record under the same id.                         *)
RecordsAreFinal ==
  [][\A id \in IntentIds : intents[id] # NoIntent => intents'[id] = intents[id]]_intents
=============================================================================
