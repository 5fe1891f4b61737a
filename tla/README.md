# Verification of Chrysalis V2

Chrysalis V2 takes an *intent* ("supply 50 USDC from Base Sepolia to Aave on Arc"),
plans a route for it with a set of agents, bridges the USDC, executes a protocol
behind a router contract, mints a receipt token and keeps a receipt that user
interfaces poll. This directory holds TLA+ models of the parts in which order,
failure and concurrency decide whether money and records agree, the TLC
configurations that check them, and proofs checked by TLAPS.

Source paths below are relative to `src/`; `api/` stands for `apps/api/src/`.

- [1 The system](#1-the-system)
- [2 Modules](#2-modules)
- [3 Runs](#3-runs)
- [4 Fairness](#4-fairness)
- [5 Proofs](#5-proofs)
- [6 What the checks show](#6-what-the-checks-show)
- [7 What is not modelled](#7-what-is-not-modelled)
- [8 Plan](#8-plan)

## 1 The system

### How the parts interact

```
 web / SDK / agent worker
        | HTTP
        v
 app.ts ----------------------------- POST /intents/:id/retry-nft
        |                                        |
        v                                        v
 IntentOrchestrator --- agents (plan, policy)   ArcReceiptMinter ---> ArcReceiptNFT (Arc)
   |      |      |                               ^
   |      |      +-------------------------------+
   |      +--- bridges: CCTP | BridgeKit | Gateway ---> USDC minted on the router
   |      +--- executors: EVM | Solana | Stellar ----> router / programs
   |                                  |
   |                        ArcIntentRouter ---> adapters ---> protocols
   +--- IntentStore (memory or Postgres)
   +--- trace client ---> IntentTraceRegistry (contract) ---> Dune
```

`createAndRun` stores a receipt, asks the agents and starts
`runExecutionPipeline` **without awaiting it**. Every pipeline of the process runs
interleaved at its `await`s, spends from the same operator wallet and pulls from
the same router per chain. Nothing persists how far a pipeline got.

### Inventory

| Component | State it keeps | Operations | What makes it correct |
|---|---|---|---|
| Trace registry, `contracts/src/IntentTraceRegistry.sol` | admin, recorders, pause; per intent a record, a uint16 step counter, a mapping of steps | register, recordStep, recordExternalStep, updateIntentStatus, administration | an append-only log; storage and events tell the same story; the counter never wraps |
| Router, `contracts/src/routers/ArcIntentRouterUpgradeable.sol` | adapters, fee, treasury, pause, intent records, its USDC | routeLocal, executeWithRouterBalance, recordRemoteIntent, rescueToken, administration | bridged USDC stays accounted for, and what is spent of it is on record; fees stay capped; records are final |
| EVM adapters, `contracts/src/adapters/*` | the tokens they hold | execute, sweep | what they do not spend is refunded; they take no more than they are sent |
| Orchestrator, `api/workflows/intentOrchestrator.ts` | the closures of its pipelines | createAndRun, runExecutionPipeline | a status says what the code is doing; success is complete; failure is quiet; every intent comes to rest |
| Intent store, `api/store/memory.ts` | receipts, in a map or in Postgres | create, get, update (read, patch, write all), list | no update makes an intent appear in flight that nobody works on |
| Executors, `api/services/protocols/ProtocolExecutorRegistry.ts`, `evmProtocolExecutor.ts` | none | dispatch, prefund, submit | what is reported as executed was executed |
| CCTP, `api/services/bridge/cctpService.ts` | none; shares balance, allowance and the Solana token account of the operator's wallets | approve, burn, await attestation, mint on EVM, Solana and Stellar | an answer never hides a burn; "submitted" means received; nothing is burnt twice or after the answer |
| BridgeKit, `api/services/bridge/circleBridgeKit.ts` | none | one transfer call | its fee is accounted for |
| Gateway, `api/services/bridge/gatewayService.ts` | none; draws on a balance at Circle that all flows of a user share | prepare, wait for the balance, submit the signed burn, poll | it answers "submitted" only for a confirmed transfer; a failure names what Gateway took |
| Web page, `apps/web/src/components/FlowBuilder.tsx` | the flow the user is in, what it read of balances | check balances, fund the operator or Gateway, sign, post | what it deposits is enough for what it signed |
| Receipt token, `contracts/src/ArcReceiptNFT.sol` | tokens, intent-to-token mapping, roles | mintReceipt(V2) | one token per intent |
| Receipt minter, `api/services/receipts/arcReceiptMinter.ts` | none | mint | it never throws; the token it answers is the intent's |
| Trace client, `api/services/trace/intentTraceRegistry.ts` | a cached recorder | register, record, update | it never stops a pipeline; what it reports as written without an error is written; stages appear in order |
| HTTP API, `api/app.ts` | a cache of transaction statuses | create, read, retry token, quotes, status | a retry repairs and never damages |
| Agents, `api/agents/*` | a nanopayment ledger | plan, policy, quote, payload, narration | nothing runs that policy or user did not allow, and no router call that was not simulated; the route planned is the one required, or the best |
| Rebalancer and worker, `api/agents/TreasuryRebalancerAgent.ts`, `apps/agent-worker/` | a timer | propose, submit | no second rebalance while the first is under way |
| Fee services, `api/services/fees/*` | quote and price caches | route simulation, estimates | every request is answered, with bounded attempts |
| Solana services and programs, `api/services/protocols/solana*`, `programs/solana/adapters/*` | config and receipt accounts, token accounts | build, simulate, submit; initialize, set, execute, deposit | an intent executes at most once; answers are true; a swap pays the minimum asked for, and for the stake where the service chose both |
| Stellar services and contracts, `api/services/protocols/stellar*`, `programs/stellar/contracts/*_adapter` | instance storage and receipts, the operator's sequence number | build, simulate, submit, relay; initialize, set, execute | the operator relays no more than the calls left with it, unless a request asks for that; success means the recipient was paid; a paused contract does nothing |
| Balance monitor, paymaster, chat | none that others read | read and report | - |
| SDK, the rest of the web application, configuration, scripts, Dune queries | - | - | - |

### Where it is hard

The complete list with lines is under `hazards` in `PROJECT.json`. The themes:

1. **One pooled balance, many intents.** The router holds the USDC of every intent
   bridged to it. The orchestrator tells them apart by the difference between two
   readings of that balance.
2. **Answers that are not the truth.** Receipts of transactions are awaited and
   their status is not read; bridge services report failures while a mint may still
   land; a wait gives up and its transaction is mined afterwards.
3. **Exits.** Pipelines are background promises in one process. A rejection in a
   `catch` block, or a restart, ends all of them with transfers under way.
4. **Whole-row writes.** The store reads a receipt, awaits, and writes all of it
   back; the pipeline, its catch and a retry do this to the same row.
5. **Ids and counters at their limits**: a uint16 step counter, intent ids hashed
   from block data, token 0 as "none".
6. **Waits that end before the transaction does.** The trace client, the Solana and the
   Stellar submitter give up on transactions that may still land, and what they do next
   (the next stage, another call on the same account, a retry) races with them.
7. **Plans from stale numbers.** Routes are quoted concurrently from pools and prices that
   move; deposits are sized from a quote and executed later.

## 2 Modules

| Module | Models | Checked by | Proofs |
|---|---|---|---|
| `TraceLog` | abstract: an append-only log with a verdict per intent | refinement target | - |
| `IntentTraceRegistry` | the registry contract | `MCIntentTraceRegistry` | `IntentTraceRegistry_proofs` |
| `ArcIntentRouter` | the router, its adapters and the USDC they move | `MCArcIntentRouter` | `ArcIntentRouter_proofs` |
| `IntentLifecycle` | abstract: the statuses a reader of receipts may see | refinement target | - |
| `IntentPipeline` | orchestrator, store, executors, outcomes of bridges, router and operator balances, process exits | `MCIntentPipeline` | `IntentPipeline_proofs` |
| `BridgeTransfer` | abstract: what the orchestrator relies on in a bridge service | refinement target | - |
| `CctpBridge` | the CCTP service, its chains and attestation service | `MCCctpBridge` | `CctpBridge_proofs` |
| `GatewayTransfer` | the page's funding of a transfer and the Gateway service, over one balance per user | `MCGatewayTransfer` | `GatewayTransfer_proofs` |
| `ReceiptMint` | receipt token contract, minter, its two callers, the store with split updates | `MCReceiptMint` | `ReceiptMint_proofs` |
| `TraceClient` | the trace client and its calls by the pipelines; extends `IntentTraceRegistry` | `MCTraceClient` | `IntentTraceRegistry_proofs` |
| `SolanaExecution` | the three Solana services, their submitter and the adapter programs | `MCSolanaExecution` | `SolanaExecution_proofs` |
| `StellarExecution` | the two Stellar services, their submitter and the adapter contracts | `MCStellarExecution` | `StellarExecution_proofs` |
| `RoutePlanning` | policy, concurrent quotes with their simulation, plan, payload and the gate of `createAndRun` | `MCRoutePlanning` | `ArcIntentRouter_proofs` |

Definitions commented as a "Faulty variant", or with a remark in parentheses, are not part
of any specification. They are the code with a plausible mistake; every property is checked
to fail when the faulty form replaces the right one.

### IntentTraceRegistry

One action per external function, its modifiers as guards, a revert being a
disabled action. `traceSteps` is the storage mapping, `stepEvents` and
`externalEvents` the emitted logs: the contract's API readers use the first, Dune
the second, and `StorageMatchesEvents` and `ExternalEventsJoin` say they agree.
`stepCount` is a bounded counter whose maximum is the constant `MaxStepCount`
(65535 in the contract). Steps carry one opaque payload; block time is `now`.
`recordExternalStep` contains the whole of `recordStep` as the code does.
`StoredLog` maps counter and mapping to `TraceLog`'s log: registration starts it,
steps append, nothing is rewritten.

### ArcIntentRouter

`balance` is USDC's ledger over users, adapters, treasuries, the router and one account for
all protocols. `RouteLocal` and `ExecuteWithRouterBalance` are whole transactions: fee to
the treasury, the rest to the adapter, the adapter's spending and its refund. An adapter may
spend nothing, what it was sent, all it holds, or, in a swap to an exact output, an amount
of `PoolAsks` that it can pay (`contracts/src/adapters/UniswapV3Adapter.sol:92`), and refund
its remaining balance to itself (keep it), to the user or to any address the action data
names, the router at worst; this covers the adapters of the repository without calling their
protocols. `BridgeMint` is the environment: any bridge, or an operator's prefund. An intent
id is modelled by party, adapter key, amount and block number or time; the action data and
other fields that are hashed too are left out, so that two calls in one second collide
whenever the hashes would, and more often. `minted`, `spent` and `rescued` are history.

### IntentPipeline

`pc[i]` is the `await` at which intent i is suspended; an action is the code between
two of them. The order of actions is the order of the code: create, agents, source
verification, first balance reading, bridging, burn, bridge result, funding wait,
executing, (prefund,) submit, receipt, finalizing, mint, record, succeed, narrate.
`Stop` is a failure the code foresees (it writes a status and returns); `Reject` is a
promise that rejects at an await that can; `Catch` is the write in the catch block. A
quote's narration is returned unawaited from the `try`
(`api/workflows/intentOrchestrator.ts:82`): its rejection leaves the receipt as it is.
An x402 payload is answered `configured`, one without an executor `skipped`, and neither
is among the failures: `ExecuteNothing` goes on to a success without a transaction.
`RequestRetry` to `RetryFails` are `POST /intents/:id/retry-nft`, two updates that each
read the row and later write back all of it, whatever the pipeline's catch stored between.
The pipeline's own updates read and write in one step here; what is lost when theirs are
split, too, is `ReceiptMint`'s subject.
The chain moves on its own: `BridgeLands`, `PrefundMined`, `ExecutionMined` happen
whether or not the pipeline still waits. `Exit` ends the process at any moment,
leaves every pipeline dead and, with `Durable = FALSE`, forgets the receipts.
Trace writes are part of the step they follow: the client swallows its own errors and
what remains, a rejecting store, is in `MayReject`.

`disturbed` is history: whether another intent moved the router's USDC between an
intent's two looks at it. With it `ExclusiveWindowAttribution` can say exactly when
attribution by difference is right.

`IntentLifecycle` is what a reader of receipts may rely on: statuses advance along one path,
may fail anywhere on it but where a request is parked or only quoted, and are forgotten when
the store is in memory and the process exits. `succeeded` is read only when the outcome of
the receipt token is on record (`sealed`). `failed` is not the end: a retry may write back
the `succeeded` it read. Only an intent that failed before its token's outcome was on record
stays failed.

### CctpBridge

One call of `executeBridge` per element of `Transfers`, suspended at `pc[t]`; actions are
the code between two awaits that matter, on every pair of an EVM, a Solana and a Stellar
chain. Up to the burn: refusals and the settling of the mint recipient (`Begin`), the
Stellar trustline, balance, approval and its receipt, the burn. Then the receipt
(`BurnReceipt`, or `BurnWithoutMessage` when an EVM burn left no event), the polling of
Iris and its deadline, the Solana token account, and the mint with its receipt.
`Thrown` is what an exception becomes, which depends on how far the call was and on the
chain: it reaches the outer catch, which has forgotten the burn, or the receivers' own,
after which the burn is named. `Reject` may throw at every await that can, `Fail` throws
where a simulation or a confirmation failed for certain. The environment mines or
reverts each transaction (`ApproveMined`, `BurnMined`, `SetupMined`, `MintMined`), may
attest, and may have somebody else relay an attested message, except on Stellar, where
the message names its caller. Sending and simulating are one step, what the chain does
later another one, so that two calls can both pass a check only one of them survives.

Assumed: the operator's keys are set, and Iris answers by the burn's hash. Amounts are
whole units, and each kind of virtual machine has one chain, so that all calls with one
kind of source share a wallet. A call between two chains of one kind, which may have
different wallets, shares more in the model than in the code.

`BridgeTransfer` says what any bridge service owes the orchestrator. It tells apart asking
for the funds (a burn that is sent, a transfer that is posted), their being taken or
refused, which the chain or Circle does, and their landing. A call asks at most once and
never after its answer; funds land at most once and only when taken; "submitted" is answered
only when they *were* taken, and a failure that names nothing and does not say recoverable
("untouched") only when they were never asked for. What it does not promise: what was asked
for may be taken or land long after a failure was answered, and may never land after a
success. `Wire` maps the state of the burn transaction, or of the transfer at Gateway, to these
stages: pending is asked, reverted or refused is refused, mined or accepted is taken.
`IntentPipeline`'s bridge (`BridgeSend`, `BridgeLands` and the answers) makes the same
allowances.

### GatewayTransfer

One execution of the page's `handleExecute` per element of `Transfers`, on any route that
pays the x402 fee, and for a Gateway route the service call it leads to. `pc[t]` is the
`await` it is suspended at: first the page's (`prepare` or the transfer to the operator,
approval, deposit, their receipts, the POST), then the service's (`fullBalance`,
`minBalance`, `response`, `poll`). All flows of a user draw on one balance at Gateway,
`available`, as Circle has indexed it; the page reads it once (`ReadGateway`, 0 when
Circle does not answer) and deposits the difference to what it wants to have. The
service then waits 3 minutes for value and fee and one more for the value alone, posts,
and polls for up to 30 minutes. A page may be closed at any await (`Abandon`), a `fetch`
may reject (`Reject`), the process may exit (`Exit`). The environment mines or reverts
the wallet's transactions, indexes deposits whenever it likes, and accepts or refuses a
posted transfer with any fee up to the signed one.

`disturbed[t]` is history: whether another flow of the user drew on the balance since t
read it. With it `UndisturbedIsFunded` can say exactly when the difference is enough.

Assumed: a user has one wallet and one source chain; the x402 fee is settled from the
Gateway balance before the intent is created, as its memo says
(`api/agents/NanopaymentAgent.ts:141`), and POST /intents fails when the balance does not
hold it; the wallet's public client is there, so that receipts are awaited. What Circle
gives back of a transfer that failed is left out. `maxFee` is the larger of the quote and
Circle's estimate with its buffer, as constants of a quote. The terminal of
`DappShell.tsx` sends no BurnIntent, so a Gateway route from it is answered
`bridge_failed` at once (`gatewayService.ts:173`) and is not modelled.

### ReceiptMint

Starts where the pipelines are about to mint. A *run* is one call of `mint` with the
store updates around it: the pipeline's (`record`, `succeed`, `narrate`, `catch`) or a
retry request's (`refresh`, `record`). `CheckRole`, `CheckToken`, `SendMint` and
`MintMined` are the minter's four calls, `MintSkipped` its guards and its catch. With
Postgres an update is `ReadReceipt` followed by `WriteReceipt`, which writes back all
that was read. Transactions are mined or revert in any order, also after the run that
sent them gave up or its process ended. `roleLost` is history.

### TraceClient

Composes with the contract: it extends `IntentTraceRegistry` and its transactions are
the registry's actions. `at[i]` is the trace call pipeline i makes next or is in, with
`AfterCall` and `AfterReject` the order of the stages in `runExecutionPipeline`;
`call[i]` is that call's own progress: looking for a recorder among the configured keys
(`BeginProbing`, `KeyAccepted`, `KeyPassed`, `NoRecorder`, or `BeginCached`), checking
whether the intent is registered, sending (`Send`, which the gas estimate refuses when it
would revert now), waiting (`Confirm`, which does not read the status), giving up
(`Throw`), and merging the writes into the receipt one by one (`StoreWrite`,
`StoreFails`, `StoreRejects`). A key's transactions are mined in nonce order (`Mine`) and
may revert. The admin and another recorder act `MaxOthers` times (`OtherAdmin`,
`OtherRecorder`); `upset` is history, whose records or pending transactions they touched,
and `signers`, the keys an intent's transactions went through (`OneKey`).
Left out: the length of names and hashes and what a step says but for its stage.

### SolanaExecution

A call is one `buildAndMaybeSubmit`, for an intent of its own, at the granularity of its
awaits: payload (`Begin`, `KaminoBuild`, `RaydiumBuild`, `MarinadeBuild`), `Decide`,
simulation, and the submitter's (`CheckReceipt` or `ReadAccounts`, `Send`, `Confirm`,
`Throw`). A payload is `fit` if the program accepts its discriminator and accounts. The
Kamino and Raydium programs create one receipt account per intent within `execute`;
Marinade's has `deposit_with_swap`, which swaps USDC, closes the wSOL account and stakes,
and `force_init`, which lets any signer become its admin. A stake's request may name the
amount (`asked`) and the minimum its swap must pay (`least`); what it does not name is taken
from the quote (`OrQuoted`), as `api/services/protocols/solanaMarinade.ts:98` does. The
environment lands, rejects or lapses a transaction whatever was answered meanwhile, moves
the pool, opens token accounts and administrates the programs, `MaxOutside` times in all. As
shipped, `configs/protocols.json` registers Marinade only; Kamino and Raydium are modelled
as the services would run if it named them.

### StellarExecution

Both services sign with the operator's account. A transaction bears the sequence number
read when it was built (`ReadsAt`), is found again if an equal one is pending (`Sends`)
and is taken, fails or lapses (`Execute`, `TransferRelay`, `Fail`, `Lapse`) in sequence
order, whatever its call was answered meanwhile. A swap pays the operator and a second
transaction, the relay, pays the recipient; other Aquarius calls relay within the
contract; Blend pays nobody else. A request may give the swap's arguments itself, and with
them have the contract relay (`within`); the submitter relays once more. The relayed
token is what the request names (`tokenOut`, `memo`), which need not be what the pool pays;
arguments that cannot be parsed throw outside the `try` (`Malformed`). `held` keeps,
for each token, what the calls have left with the operator less what it relayed, and apart
from it, as `unbacked`, what such requests have it relay beyond that.
Contracts are administrated and called by others, and the account is used by the bridge
services, `MaxOutside` times in all.

### RoutePlanning

One request from `createAndRun` or a quote endpoint to its answer. `Allowed` and
`PolicyWantsApproval` are the policy, `Candidates`, `Eligible` and `Quoted` say which routes
are quoted; `quotes[r]` is one route's quote on its way through the legs of
`RouteSimulationService.simulate`, which all routes go through concurrently: Circle's fee,
prices (cached), source gas, the router's fee, Uniswap's tiers, the protocol's output, the
destination's gas, or the non-EVM adapter. Any leg may throw, which drops the route, or be
rate limited. `Selected` and `MakePlan` are the planner, `Decide` the gate with `approved`
and `quoteOnly`. What a pool or a protocol pays is rounded down and may be nothing. The
amounts a payload asks for (`amountInMaximum`, Morpho's assets, USYC's full amount) are left
out: no contract compares them with what arrives, and whether adapter and protocol accept
them is the outcome of the simulated call, which is free (`ExecutionLeg` or `Throw`).
Amounts are integers at a token's decimals, each lowered by four; a score is in hundredths,
with speed, reliability and compatibility of a route as the constant `merit`.

## 3 Runs

| Run | Instance | Shows |
|---|---|---|
| `trace_registry` | 2 accounts, 1 intent, 2 payloads, counter up to 3, time up to 2 | `RegistryInv`: storage, events, joins and times agree; `ImplementsTraceLog` |
| `router` | 1 user, 1 key, 1 adapter, treasury outside or the router itself, amounts with rounding, 300 units, 2 blocks | `CustodyCovered`, `SpendingIsOnRecord` (records of executions add up to what was spent), `RecordsAreFinal` |
| `pipeline` | 2 intents, 7 kinds of plan, 1 retry request, Postgres, 1 exit | `StatusFollowsPipeline`, `SucceededIsComplete`, `ExclusiveWindowAttribution`, `SettledIsQuiescent`, `ImplementsLifecycle` |
| `pipeline_settles` | 2 intents, router plans, one on a chain without router and a Gateway one, receipts in memory, 1 exit, fair scheduling | `EveryIntentSettles`: every intent comes to rest |
| `succeeded_executed` | 2 intents, router plans | violation, section 6 |
| `receipt_mint` | 2 intents, 1 retry, Postgres | `OneTokenPerIntent`, `RecordsAreHonest` (recorded tokens are the intent's own, token 0 is explained), `ResultStays` |
| `cctp` | 2 calls, each with one of 7 plans over the three kinds of chain, 1 exit, fair scheduling | `AnswersAreTrue` (no hidden burn, submitted is received), `AllowanceIsOneBurn`, `ImplementsBridgeTransfer`, `EveryCallIsAnswered` |
| `gateway` | 2 flows of one user, each with one of 3 quotes, 4 units in the wallet, 1 exit, fair scheduling | `UndisturbedIsFunded`, `AnswersAreTrue` (accepted transfers are named, submitted is confirmed), `ImplementsBridgeTransfer`, `EveryCallIsAnswered` |
| `trace_client` | 1 intent, 1 key, 1 other account that is the admin, 1 act of it, counter up to 3, time up to 1, exits, fair scheduling of the pipelines | `ClientTypeOK`, `ReportedIsStored`, `VerdictTellsResult`, `StagesInOrder`, `TracingEnds` |
| `solana` | 2 calls with one of 12 requests, 2 signers, 3 prices, 2 settings, 1 outside act | `TypeOK` (answered exactly when done), `AtMostOnce`, `AnswersAreTrue`, `SwapCoversDeposit` |
| `stellar` | 2 calls with one of 13 requests, 2 accounts, outputs 0 to 2, 2 settings, contract deployed, paused or missing, 1 outside act | `TypeOK`, `SucceededIsRelayed`, `RelaysAreCovered`, `PauseIsFinal` |
| `route_planning` | 25 requests over 4 chains and 11 protocols, 2 settings, 2 tiers, a rate of 0 and one of 1.5, 2 attempts, 1 move of pools or prices, fair scheduling | `PlanningTypeOK` (no call is made more than `RPC_MAX_ATTEMPTS` times), `RunsAreAuthorised`, `RouteIsTheOneWanted`, `PlanningEnds` |

Why the bounds are enough:

- *Two intents* are the least that share a router; each interference the pipeline has
  is between one intent and the balance, which a second one already moves in both
  directions (bridge, prefund, execution). Attribution is proved for any number.
- *Plans* are chosen by what the pipeline branches on, every pair of route and
  destination that takes its own path; a BridgeKit transfer without fee is a CCTP one.
  The amounts are equal, which is the worst case for telling two intents apart. A
  BridgeKit fee of 1 makes the landed amount differ from the planned one.
- *One exit* reaches every await; a second one finds only idle or dead pipelines and
  intents created since, which is a smaller instance of the first.
- *Two CCTP calls* are the least that share a wallet, an allowance and the Solana account;
  the EVM wallet holds what two small burns or one large one take, the others what one
  takes, so that either's checks can be undone by the other.
  The safety properties are proved for any number.
- *Two flows of one user* are the least that share a wallet, an allowance and a Gateway
  balance. The user starts with nothing at Gateway; what a first flow leaves there (an
  Arc deposit's buffer, a fee taken below the signed one, a deposit whose page was
  closed) is what the second one reads. The quotes are one from Arc, one from elsewhere
  whose estimate is above the quote, and one on another route, which only pays the fee.
  The wallet's 4 units pay for either flow and not for both.
- *The step counter* overflows at 3 instead of 65535: what matters is that it can be
  full, that it is checked and that there are steps before that.
- *Router amounts* include one whose fee rounds down and 0; fees include one above the
  cap. Two block numbers sharing or not sharing a timestamp are enough for ids to
  collide and to differ.
- *One retry request* at a time is enough in `pipeline` for a row to be written back over the
  failure that a rejected narration stored; the theorem is about any number.
- *A pipeline and a retry* of one intent are the pair that can race for one token and one
  row (two retries run the same code twice; the theorems cover any number of them); a
  second intent is there to give the wrong token a chance.

- *One traced intent* already meets itself: a transaction of an earlier stage mined among
  those of a later one, in one key's order, is what the wait that gives up can cause. A
  counter of 3 is below the 6 transactions a pipeline may send, so it fills up. One act of
  the admin or the other recorder falls between any two steps. Several intents share
  the remembered key and its queue; that a second key takes over while another intent looks
  for one needs two intents and two keys, which is left to the proofs.
- *Two Solana calls* share the wSOL and mSOL accounts, the pool and the programs; an
  intent's receipt is contended by its call and a stranger. Prices 90, 160 and 200 lie on both
  sides of the 100 lamports below which the quote keeps no margin, and of the 150 that are
  asked or named as minimum, so that a named minimum is below the quote and the pool
  pays something between. The safety properties are proved for any number of calls and
  prices.
- *Two Stellar calls* are the least that read one sequence number; outputs of 1 and 2 make
  two relays equal or different; one request relays twice and one relays another token.
  All four properties are proved for any number.
- *Planning requests* are one per branch: each kind of payload, each route preferred,
  required or not quoted, amounts and fees on both sides of the policy's limits, approved
  and not. Two attempts are the least with a retry. The safety properties are proved for
  any requests, prices, pools and fees.

`CHECK_DEADLOCK FALSE` stands where the system really stops: all intents at rest, the
clock at its bound, the counter full, every call answered, a request decided. The
receipt, `cctp` and `gateway` runs keep the check.

`SYMMETRY` permutes the intents in `pipeline` and the calls in `solana` and `stellar`, none of
which has a liveness property. No definition distinguishes them.

## 4 Fairness

`FairSpec` of `IntentPipeline` assumes weak fairness of each pipeline's `Proceed` (its own
steps but for rejections, which need never happen), of `PrefundMined` and of
`ExecutionMined`. The code justifies it: the event loop runs every settled promise; each
await is ended by the chain, by the service, by the code's own deadline (30 minutes for
funding and for Gateway, 20 for attestations, viem's for receipts). Transactions that were
accepted are assumed to be mined. `FairSpec` of `CctpBridge` does the same for a call's
`Proceed` and for the mining of what it sent. `Proceed` contains the end of the wait for
Iris, a deadline of 20 minutes in the code; that Circle attests is not assumed. `FairSpec`
of `GatewayTransfer` assumes weak fairness of `Proceed` alone: the service's waits end by
its own deadlines of 3, 1 and 30 minutes, and its POST by that of `fetch`. Nothing is asked
of users, of the chain or of Circle. `ClientSpec` of `TraceClient` assumes weak fairness of
each pipeline's `Proceed`, whose waits end in a receipt or an error (viem's own timeouts);
nothing is asked of the chain, so `TracingEnds` holds although no transaction need ever be
mined. `PlanningSpec` of `RoutePlanning` assumes weak fairness of `Process`: each `fetch` is
answered or rejects, and one of a route's two outcomes follows. `SolanaExecution` and
`StellarExecution` state safety only. Nothing is assumed of `BridgeLands`, or of
attestations: transfers may never land. Exits may happen in the pipeline's, the bridges' and
the client's specifications; an intent or a call whose process exited stays where it was for
good, as `StatusFollowsPipeline` says, and `EveryIntentSettles` and `EveryCallIsAnswered`
promise nothing about it.

## 5 Proofs

Everything is proved from the named assumptions on the constants (`RunsAssumption`,
`PlanAssumption`, `FundsAssumption`, `FeeAssumption`, `AmountAssumption`,
`PartiesAssumption`, `IdsAssumption`, `DeployerAssumption`, `BoundsAssumption`,
`PlansAssumption`, `DepositorsAssumption`, `QuotesAssumption`, `FeesAssumption`,
`SignersAssumption`, `DeployedAssumption`, `RequestsAssumption`, `AmountsAssumption` and
`CallsAssumption` of the two adapter modules, `KeysAssumption`, `StagesAssumption` and
`LimitsAssumption` of the trace client, and `ConstantsAssumption`, `SettingsAssumption` and
`RequestsAssumption` of the planner), which TLC evaluates on the instances. They say that
sets of things are disjoint, that what is summed over (the calls of the Stellar services,
the ids of intents asked for) is finite, and that amounts are natural; five have content. A
bridge's fee does not exceed the amount. Router, protocols, adapters, users and treasuries
are different addresses (the treasury may be the router). The x402 fee, 0.05 USDC, is at
most Arc's gas buffer, 0.05, and at most Gateway's quoted fee, which
`estimateGatewayMaxFeeUsdc` never puts below (0.2 + two gas fees) * 1.6 + 0.01. The
destination router of the planner takes at most 1%, as the contract enforces, Uniswap has
its four fee tiers, slippage is at most all, and USDC has six decimals on every EVM chain
and between six and twelve elsewhere.

**Registry** (`IntentTraceRegistry_proofs`). `RegistryInv` is the conjunction of the
four properties; none is inductive alone: an index of an external event stays below the
counter only because steps are appended at it, and a step is not overwritten only
because storage and events have equal length. With `TypeOK` the conjunction is
inductive. `RegistryImplementsTraceLog` maps registration to opening the log, a step to
an append, and everything else to a stutter.

**Trace client** (the second part of `IntentTraceRegistry_proofs`). `Sound` is the
registry's invariant with `ClientShape`: by the phase a call is in, what it holds, and that
a queue holds what a call may send. With it every step of the clients, in whatever
interleaving, is a step of the registry or leaves it alone (`ClientUsesRegistry`), so all
that is proved of the contract, its refinement included, holds with clients in front of it.
`ClientOrdered` carries `StagesInOrder`: what is stored, what is pending in one key's order,
and what is still to be sent have nondecreasing places in the list of stages; a call that
gave up goes on to the next stage while its transaction waits, which is why the pending ones
must be part of it. `ClientHonest` carries `ReportedIsStored`: while an intent is
undisturbed and nothing was reported as an error, it is either before its registration,
registering, or reporting, and in the last phase as many steps are stored or under way as
reported (`InPlace`); each claim once true stays so (`PrefixTold`), since steps are only
appended. That the client may skip reading whether a transaction reverted is
`ConfirmedIsStored`: what gas estimation let through is still fit when it is mined, unless
somebody acted in between. `ClientJudged` says the same of the verdict, whose transaction
must be the last of its key. All this is needed together: `StagesInOrder` alone says nothing
of a queue.

**Router** (`ArcIntentRouter_proofs`). A small calculus of `Pay` (what a transfer does
to each balance, also to oneself, `PayEffect` to `AdapterEffect`) gives for each of the
two big transactions that the router's balance falls by no more than the amount taken
from it. `RouterInv` is `TypeOK`, `CustodyCovered` and the fee bound on each record;
the fee bound rests on the nonlinear fact about the floor in `FeeBounds`.
`SpendingIsOnRecord` is a sum over all ids, by the library's fold. `SumExists` to
`SumMoves` show what that fold computes over any finite set: `Climb` is the induction
it takes, over the subsets of the set, from the theorem that the strict subset order is
well founded, and it speaks of sets of subsets, so that no operator need be instantiated.
`SumMoves` (when one entry changes the sum changes as much) then reduces a step to the one
record it writes: `ExecutionIsBooked` shows that an execution's record, new under its id,
accounts for the whole amount, fee included and however rounded (`RecordOfAll`), and
`NothingBooked` that a remote record or a local route's books nothing. That ids do not
meet an earlier record is the code's check; without it (the mutant) one of two spendings
goes unrecorded.

**Planner** (the second part of `ArcIntentRouter_proofs`). `GoodQuote` says of a
quote by its leg which destination it is for, that something has arrived there, and that an
eligible one that ends at a router has been simulated. `PlanInv` is that of every
quote, with types. The plan and the gate are one step, and what `Decided` says of them must
survive the quotes, pools and prices that still move (`DecisionStands`).
That the planner's sort has a first element, whatever the scores, is `BestOfFour`: equal
scores are told apart by the order of the candidates. `TierFound` does the same for
Uniswap's fee tiers. Rounding and decimals are `LessBounds` and `Decimals`.

**Pipeline** (`IntentPipeline_proofs`). `PipelineInv` is `TypeOK`, `PlanMade` (whoever got
past the agents has a plan), `StatusFollowsPipeline` and `Complete` (the outcomes stored
in a receipt are those its status stands for), which makes
`SucceededIsComplete` inductive; `Idle` does the same for `SettledIsQuiescent`. For the
attribution of funds, `Attribution` says what was sent by which await and, as long as
nobody disturbed, that the router's balance is the first reading plus what landed.
`GoingSteps` groups the steps
that only move the pc, so that each invariant has to look only at the steps that touch
it. `PipelineImplementsLifecycle` follows from `StatusFollowsPipeline`: the status before
a write is known from the await the write is made at. For the retries it needs `RetryInv`: an
intent a retry works on has no pipeline left but perhaps for its last narration or its catch,
and the rows the request holds and would write back have every outcome on record
(`Whole`); a row that reads failed is held only when nothing else will be written.

**CCTP** (`CctpBridge_proofs`). `Story(t)` says of one call what its await and its answer
mean for its burn and its mint: before `burnWait` no burn was sent, a mint await has an
attested message, an answer that hides its burn says recoverable, one that says submitted
was received or reverted on an EVM chain. `CctpInv` is `TypeOK`, `AllowanceIsOneBurn` and
everybody's story; `TypeOK` carries that no burn takes more than balance and allowance.
`ReturnTypes`, `GotoTypes` and `ReturnTells` treat the two ways an action ends once for all
actions. For the refinement a burn sent is `Ask`, one mined `Take` or, reverted, `Refuse`,
also after the answer; a message received, by whomever, is `Land`, an answer is `Tell`, all
else a stutter (`WireMoves`, `ReturnTells`). That an answer which names no burn and does not
say recoverable has sent none, and that a call with an attested message had its burn mined,
comes from `Story`.

**Gateway** (`GatewayTransfer_proofs`). `GatewayInv` is `TypeOK`, `Story`, `Deposited` and
`Money`. `Story` says what a flow's await and answer mean for its transfer: nothing was
posted before `response`, a poll has an accepted and named transfer. `Deposited` says that
a page past its deposit has one that was mined, unless nothing was missing. `Money` is
the induction behind `UndisturbedIsFunded`, which only speaks of flows at the service:
from the reading of the balance on, as long as nobody disturbed, what is indexed and what
is under way cover `DepositAmount`, and after the POST that amount without the fee;
`FeesAssumption` makes this at least the value. The refinement maps a posted transfer
to `Ask`, an accepted one to `Take` and a refused one to `Refuse`, which both may happen after
the answer, a confirmed one to `Land`, an answer to `Tell`.

**Receipt token** (`ReceiptMint_proofs`). What is recorded travels from the contract to
an answer, to a row, to a snapshot and back to a row; `HonestInv` states at each station
what `RecordedTokenIsReal` and `ZeroTokenMeansRival` state of the row, and is inductive
because tokens are written once (`TokensStay`). `ResultInv` says who holds the pen: while
a pipeline has not stored its success no retry of that intent is active, and every
snapshot a retry holds is already a result.

**Solana** (`SolanaExecution_proofs`). `Fits(c, k)` is what a call's record `k` promises
about the chain: nothing is on it before the service has sent, an answer is so, the minimum
its swap must pay is not below the one the request names, and bounds the deposit where the
request names neither. `Covered(c)` says that only a landed transaction has staked, and that
its swap paid what that promises. With `TypeOK` and
`AtMostOnce` they are inductive; `SwapCoversDeposit` alone is not, since the minimum and
the deposit are fixed at the quote and met only when the transaction lands. `LocalStep`
treats once every step that touches one call only, `OthersStep` what everyone but the
services does.

**Stellar** (`StellarExecution_proofs`). `SentOK` says that a transaction taken has used its
sequence number up and a call that was taken and did not fail has left a receipt;
`CallOK(c)` says what a call has sent, by where it is: nothing before `waiting`, one
transaction there, and only successful ones once the relay begins. That the last is needed
is the point: a call that answered failed may still land, one that is relaying may not be
executed again, or the amount relayed would no longer be the amount paid. That a success
is not sent again follows from its number (`SendsStep`). `PausedForGood` needs only the
shapes of `config` and `receipts`. Two facts count over all calls. `TypeOK` bounds the
sequence number by two transactions per call: `Counted` puts every number used up down to a
transaction taken or to somebody outside, and `FewSent` maps transactions to calls and
counts the set. `RelaysAreCovered` is a matter of books, one for each token: `Covered` says
that there are amounts owed, one per call, that add up to what is `left` and `unbacked` and of
which each is as much as what the call will have relayed of the token and has not yet, or as
what a relay under way will take (`Owes`).
`Rebalance` is what a change of one call's amount does to the sum, kept as a table of
partial sums along some order of the calls. Two calls may share a relay, which then
is put down to one of them: the sum being at least 0 is not inductive alone, because it does not
say that each relay under way has its own cover.

| Theorem | Property |
|---|---|
| `IntentTraceRegistry_proofs!TypeCorrect`, `StorageAgreesWithEvents`, `TimesAreOrdered`, `RegistrySafe`, `RegistryImplementsTraceLog` | types, storage = events, order of times, refinement |
| `IntentTraceRegistry_proofs!ClientTypeCorrect`, `ClientUsesRegistry`, `ClientImplementsTraceLog`, `ReportedStepsAreStored`, `RegistryVerdictIsTheResult`, `RegistryShowsStagesInOrder` | types, composition with the contract, refinement, reports of undisturbed intents, verdicts, order of stages |
| `ArcIntentRouter_proofs!TypeCorrect`, `CustodyIsCovered`, `FeeIsCapped`, `RecordsStay`, `SpendingOnRecord` | types, custody, fee cap, final records, spending on record |
| `ArcIntentRouter_proofs!PlanningTypeCorrect`, `RunsAuthorised`, `RouteWanted` | types and attempts, nothing runs unauthorised, the best route |
| `IntentPipeline_proofs!TypeCorrect`, `InFlightHasOwner`, `SuccessIsComplete`, `SettledStaysQuiet`, `ExclusiveAttribution`, `PipelineImplementsLifecycle` | types, status, completeness, quiescence, attribution, refinement |
| `CctpBridge_proofs!TypeCorrect`, `BurnsAreKnown`, `SubmittedArrived`, `AnswersStayTrue`, `AllowanceIsBounded`, `CctpImplementsBridgeTransfer` | types and cover, no hidden burns, submitted is received, allowance, refinement |
| `GatewayTransfer_proofs!TypeCorrect`, `UndisturbedFlowsAreFunded`, `AcceptedAreNamed`, `SubmittedAreConfirmed`, `AnswersStayTrue`, `GatewayImplementsBridgeTransfer` | types and cover, enough is deposited, failures name transfers, submitted is confirmed, refinement |
| `ReceiptMint_proofs!TypeCorrect`, `IntentHasOneToken`, `RecordsAreReal`, `ZeroHasARival`, `RecordsStayHonest`, `ResultsStay` | types, one token, real records, token 0, results |
| `SolanaExecution_proofs!TypeCorrect`, `ExecutedAtMostOnce`, `AnswersStayTrue`, `DepositsAreCovered` | types, one execution per intent, true answers, the swap pays the minimum, or for the stake |
| `StellarExecution_proofs!StellarTypeCorrect`, `SuccessIsRelayed`, `RelaysCovered`, `PausedForGood` | types and sequence numbers, success is relayed, relays are covered or asked for, a pause is final |

Only model-checked: `EveryIntentSettles`, `EveryCallIsAnswered`, `TracingEnds` and
`PlanningEnds`, since liveness under fairness is out of the prover's reach. Every safety
property a passing run checks is a theorem.

## 6 What the checks show

The code keeps what the properties ask. One run shows where a comment says more than the
code does.

- **`succeeded_executed`.** "Check if protocol execution actually succeeded on-chain"
  looks at a status that the executor sets without reading the receipt's; a reverted
  execution is a success.

More things the models make visible, without a run of their own. Two intents that wait on
one router can be attributed each other's USDC, which is why `ExclusiveWindowAttribution`
speaks of intents nobody disturbed; after a failed or pending bridge the router may yet
receive the USDC; a transfer to Solana is minted to the operator's token account; a retry's
answer, `skipped` on an RPC error, replaces the recorded token. "Burn succeeded but
MessageSent event not found" is also answered for a burn that reverted
(`BurnWithoutMessage`); a failing narration turns `succeeded` into `failed` after everything
was done; a retry and that failing write can undo each other's status, which is why
`IntentLifecycle` leads from `failed` back to `succeeded` and `ResultStays` only promises
that a result stays *a* result; an x402 intent, and one whose protocol has no executor,
succeeds without any execution (`ExecuteNothing`); and after an exit an intent in flight has
nobody working on it (`StatusFollowsPipeline` names exactly that case).

At Gateway: `executeGatewayMint` returns the promise of its transfer without awaiting it, so
a request that rejects escapes its `catch` and the orchestrator's stores an error that does
not name the transfer, which may have been accepted or may yet be (`Reject`): of an
exception `AnswersAreTrue` says only that something was posted, and `BridgeTransfer` calls
it at risk. Outside Arc the x402 fee is taken from the very balance the page topped up to
exactly value and `maxFee`; unless more was there, the first wait cannot end before its 3
minutes, and the transfer goes on with the value and a lower fee. The receipts of approval
and deposit are awaited, their status is not read; after a reverted deposit the page signs
and posts all the same.

In tracing: the client does not read whether its transactions reverted, yet what it reports
without an error is true unless somebody else interfered (`ReportedIsStored`): gas
estimation refuses what would revert, and a key's transactions are mined in order. With the
admin acting in between it is not, and the remembered recorder is never looked up again.
The proof of `StagesInOrder` needed a premise no run with one key shows: two pipelines that
look for a recorder at the same time may each find another key, the later one replaces the
remembered one (`api/services/trace/intentTraceRegistry.ts:423`), and an intent that began
with the first goes on with the second. Transactions of two keys are mined in any order, so
that a stage may be stored before an earlier one, and the verdict before the last step.

On Solana: a call answered `failed` may land later, so a receipt account, and nothing in the
service, is what keeps an intent from executing twice; an answer `succeeded` is always true.
Marinade's `force_init` writes the config account again, so that a deposit under way may
find another admin (`ForceInit`). `metadata` reaches the service
(`api/agents/ProtocolActionAgent.ts:127`): a deposit amount the request names is not bounded
by its swap, and a minimum it names below the quote lets the swap pay less than the quoted
deposit; either way the operator's SOL pays the rest.

On Stellar: an error between swap and relay, and two equal relays built on one sequence
number, leave output with the operator. A swap whose arguments relay within the contract is
relayed again (`api/services/protocols/stellarAdapterSubmitter.ts:111`), and a request may
name another token than its pool pays: both are paid from the operator's own.
`RelaysAreCovered` counts these apart, as `unbacked`, and says that nothing else is ever
paid from it. A paused contract stays paused: `set_paused(false)` passes through
`require_ready`, which a paused contract fails.

In planning: the executed payload is built anew from the request, so the tier a quote
resolved is not the one executed (`api/agents/AgentManager.ts:16`); static figures are
offered for a non-EVM adapter whose simulation fails, although
`api/agents/FeeQuoteAgent.ts:86` calls such a quote unavailable, with output and minimum at
different decimals when the output token's differ from the chain's (`AdapterLeg`); no amount
a payload asks for is compared with what arrives, so that an adapter's leftovers may pay for
it; an output quoted as 0 is accepted; `maxDailyUsdc` of the policy file is enforced
nowhere; the quote endpoints await the plan outside any `try`, so an unknown chain is not
answered (`Decide`).

## 7 What is not modelled

- Formatting: narration, payload encoding, fee lines, token metadata, SVG.
- Amounts are whole units; the floor of a floating point product at
  `api/services/protocols/evmProtocolExecutor.ts:59` is the identity on them.
- `OPERATOR_PRIVATE_KEY` is assumed to be set and `demoMode` off, as
  `api/config/index.ts` hard-codes.
- The router in a token other than USDC, role administration and UUPS upgrades.
- The inside of BridgeKit: `IntentPipeline` keeps its outcomes and the order of these with
  burn and mint.
- Of the web application all but the flow of `handleExecute` from an EVM chain.
- Components without state or order of their own that matters here: chat, paymaster, SDK,
  balance monitor, scripts, deployment, Dune queries, `gasEstimator` (used for its types).
- The narrator, the nanopayment agent (its fee is a constant of `GatewayTransfer`), the
  transaction-status cache, and the rebalancer with the agent worker, which reads fixed
  balances on a timer.
- The receipt programs `arc_solana_receipts` and `arc_stellar_receipts`, which nothing in the
  API calls.
- Inside the EVM adapters, the calls into the protocols and their approvals.
- In `RoutePlanning`: state overrides, the discovery of storage slots and the text of fee
  lines; they decide whether a simulation succeeds, which is free in the model.

## 8 Plan

What is left, in the order in which it matters:

1. The pipeline's bridge steps stated over `BridgeTransfer`, so that `CctpBridge` and
   `GatewayTransfer` compose with it, and the router's custody composed with the pipeline's
   balance.
2. `AdapterExecution`: the EVM adapters' own token flows with approvals; leftovers.
3. `Rebalancer`: the worker's timer against `POST /intents`; the transaction-status cache.
