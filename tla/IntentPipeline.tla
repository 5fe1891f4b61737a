--------------------------- MODULE IntentPipeline ---------------------------
(***************************************************************************)
(* apps/api/src/workflows/intentOrchestrator.ts and what it drives: the    *)
(* intents one API process accepts, each run by a background promise that  *)
(* nobody awaits, all of them spending from one destination router.        *)
(*                                                                         *)
(* An action is the code between two awaits of one pipeline, pc[i] the     *)
(* await intent i is suspended at.  The chain acts on its own: a bridge    *)
(* transfer lands, a transaction is mined, whether or not the pipeline     *)
(* still waits for it.  The process may exit at any point; pipelines die   *)
(* with it and nothing resumes them.                                       *)
(*                                                                         *)
(* The code it abstracts: fees, narration, trace writes and receipts are   *)
(* reduced to whether the write of them can fail; amounts are whole units. *)
(***************************************************************************)
EXTENDS Integers, FiniteSets

CONSTANTS
  Intents,
  Plans,            (* the plans the agents may come up with                 *)
  BridgeFees,       (* what BridgeKit's FAST transfer may keep of an amount  *)
  OperatorFunds,    (* USDC of the operator wallet, which prefunds LOCAL     *)
  Requests,         (* slots for the POST /intents/:id/retry-nft under way   *)
  Durable,          (* TRUE: receipts in Postgres; FALSE: in memory          *)
  MaxCrashes        (* bound on the times the process exits                  *)

Routes == {"LOCAL", "GATEWAY", "BRIDGEKIT", "CCTP_V2", "MOCK"}

(* Where a plan wants its USDC: a protocol behind the EVM router, an EVM   *)
(* chain for which no router address is configured, a Solana or Stellar    *)
(* program, just the recipient's wallet (a _USDC_TRANSFER protocol), or    *)
(* the EVM router for a resource that no contract is called for (x402).    *)
Destinations == {"router", "unset", "nonevm", "wallet", "x402"}

PlanRecords == [route : Routes, dest : Destinations, amount : Nat \ {0}]

NoPlan == [route |-> "none", dest |-> "none", amount |-> 0]

ASSUME PlanAssumption  == Plans \subseteq PlanRecords
ASSUME FundsAssumption == OperatorFunds \in Nat /\ MaxCrashes \in Nat /\ Durable \in BOOLEAN
ASSUME FeeAssumption ==
  BridgeFees \subseteq Nat /\ \A p \in Plans, fee \in BridgeFees : fee <= p.amount

VARIABLES
  store,            (* IntentStore: the receipt of each intent               *)
  plan,             (* the plan in the pipeline's closure                    *)
  pc,               (* the await the pipeline of an intent is suspended at   *)
  before,           (* destinationBalanceBeforeBridge                        *)
  execAmount,       (* plan.executionAmount, 0 while undefined               *)
  routerBalance,    (* USDC.balanceOf(router) on the destination chain       *)
  operatorBalance,  (* USDC.balanceOf(operator) on the destination chain     *)
  wire,             (* the bridge transfer of an intent: none, sent, landed  *)
  landed,           (* USDC the bridge minted for an intent, its fee deducted*)
  prefund,          (* the operator's transfer to the router, LOCAL only     *)
  tx,               (* the router transaction: none, pending, ok, reverted   *)
  crashes,          (* times the process exited                              *)
  retry,            (* the requests to mint a receipt token again: the       *)
                    (* intent, the row last read of it, the updates left     *)
  disturbed         (* history: another intent moved router USDC between an  *)
                    (* intent's first and last look at the balance           *)

localVars   == <<plan, before, execAmount>>
bridgeVars  == <<wire, landed>>
chainVars   == <<routerBalance, operatorBalance, bridgeVars, prefund, tx>>
processVars == <<crashes, retry>>
vars == <<store, pc, localVars, chainVars, processVars, disturbed>>

Receipt(s, b, p, n) == [status |-> s, bridge |-> b, protocol |-> p, nft |-> n]
NoReceipt == Receipt("none", "none", "none", "none")

Retry(i, row, left) == [of |-> i, row |-> row, left |-> left]
NoRetry == Retry("none", NoReceipt, 0)

(* The awaits of createAndRun and runExecutionPipeline, in their order.    *)
Awaits == {"analyze", "narrateQuote", "verify", "readBefore", "markBridging", "bridge",
           "bridgeWait", "waitFunding", "markExecuting", "execute", "prefundWait",
           "submit", "executeWait", "markFinalizing", "mint", "recordMint",
           "markSucceeded", "narrate", "stop", "catch", "timedOut"}

IsLocal(i)       == plan[i].route = "LOCAL"
UsesRouter(i)    == plan[i].dest \in {"router", "x402"}
CallsRouter(i)   == plan[i].dest = "router"
ReadsBalance(i)  == plan[i].dest \in {"router", "x402", "unset"}

(* Awaits of a chain or service that may reject, and of the receipt store, *)
(* which rejects only if it is a database.  Executing rejects where it     *)
(* calls a program or looks at the operator's balance.  CctpService and    *)
(* CircleBridgeKitService catch what they throw; GatewayService returns    *)
(* its promise unawaited from its try, so its rejections get through.      *)
RemoteAwaits == {"analyze", "readBefore", "waitFunding", "prefundWait", "submit",
                 "executeWait"}
StoreAwaits  == {"narrateQuote", "verify", "markBridging", "markExecuting",
                 "markFinalizing", "recordMint", "markSucceeded", "narrate", "stop"}

MayReject(i) ==
  \/ pc[i] \in RemoteAwaits
  \/ pc[i] = "execute" /\ (plan[i].dest = "nonevm" \/ (IsLocal(i) /\ CallsRouter(i)))
  \/ pc[i] \in {"bridge", "bridgeWait"} /\ plan[i].route = "GATEWAY"
  \/ pc[i] \in StoreAwaits /\ Durable

(* getDestinationRouterUsdcBalance: 0 when no router is configured.        *)
RouterBalanceSeen(i) == IF UsesRouter(i) THEN routerBalance ELSE 0

(* Faulty variant: what was there before the bridge counts too. *)
ReceivedInTotal(i) == RouterBalanceSeen(i)

(* What the funding wait makes of the balance it polls.                    *)
ReceivedForIntent(i) ==
  IF RouterBalanceSeen(i) > before[i] THEN RouterBalanceSeen(i) - before[i] ELSE 0

(* BigInt(Math.floor(Number(plan.executionAmount ?? plan.amount) * 1e6))   *)
RequestedAmount(i) == IF execAmount[i] = 0 THEN plan[i].amount ELSE execAmount[i]

Goto(i, label) == pc' = [pc EXCEPT ![i] = label]

Init ==
  /\ store = [i \in Intents |-> NoReceipt]
  /\ plan = [i \in Intents |-> NoPlan]
  /\ pc = [i \in Intents |-> "idle"]
  /\ before = [i \in Intents |-> 0]
  /\ execAmount = [i \in Intents |-> 0]
  /\ routerBalance = 0
  /\ operatorBalance = OperatorFunds
  /\ wire = [i \in Intents |-> "none"]
  /\ landed = [i \in Intents |-> 0]
  /\ prefund = [i \in Intents |-> "none"]
  /\ tx = [i \in Intents |-> "none"]
  /\ crashes = 0
  /\ retry = [r \in Requests |-> NoRetry]
  /\ disturbed = [i \in Intents |-> FALSE]
-----------------------------------------------------------------------------
(* createAndRun *)

(* The receipt is stored before the agents are asked.                      *)
CreateIntent(i) ==
  /\ pc[i] = "idle"
  /\ store' = [store EXCEPT ![i] = Receipt("created", "none", "none", "none")]
  /\ Goto(i, "analyze")
  /\ UNCHANGED <<localVars, chainVars, processVars, disturbed>>

(* The agents answer with a plan p; the request decides with the policy    *)
(* whether it is quoted, parked for approval or run.                       *)
Decide(i, p, quoteOnly, approved, requiresApproval, allowed) ==
  LET awaitingApproval == requiresApproval /\ ~approved
      blockedByPolicy  == ~allowed \/ p.route = "MOCK"
      status == IF quoteOnly THEN "quoted"
                ELSE IF awaitingApproval \/ blockedByPolicy THEN "needs_approval" ELSE "planned"
  IN
  /\ pc[i] = "analyze"
  /\ plan' = [plan EXCEPT ![i] = p]
  /\ store' = [store EXCEPT ![i].status = status]
  /\ Goto(i, IF status = "planned" THEN "verify" ELSE "narrateQuote")
  /\ UNCHANGED <<before, execAmount, chainVars, processVars, disturbed>>

NarrateQuote(i) ==
  /\ pc[i] = "narrateQuote"
  /\ Goto(i, "done")
  /\ UNCHANGED <<store, localVars, chainVars, processVars, disturbed>>
-----------------------------------------------------------------------------
(* runExecutionPipeline, up to the bridge *)

(* The intent is registered in the on-chain trace and the source           *)
(* transactions its request names are verified.                            *)
VerifySource(i, verified) ==
  /\ pc[i] = "verify"
  /\ Goto(i, IF ~verified THEN "stop" ELSE IF ReadsBalance(i) THEN "readBefore" ELSE "markBridging")
  /\ UNCHANGED <<store, localVars, chainVars, processVars, disturbed>>

ReadBalanceBefore(i) ==
  /\ pc[i] = "readBefore"
  /\ before' = [before EXCEPT ![i] = RouterBalanceSeen(i)]
  /\ Goto(i, "markBridging")
  /\ UNCHANGED <<store, plan, execAmount, chainVars, processVars, disturbed>>

MarkBridging(i) ==
  /\ pc[i] = "markBridging"
  /\ store' = [store EXCEPT ![i].status = "bridging"]
  /\ Goto(i, IF IsLocal(i) THEN "markExecuting" ELSE "bridge")
  /\ UNCHANGED <<localVars, chainVars, processVars, disturbed>>

(* The source chain takes the funds: they are burnt, or Gateway accepts    *)
(* the user's signed burn.                                                 *)
BridgeSend(i) ==
  /\ pc[i] = "bridge"
  /\ wire' = [wire EXCEPT ![i] = "sent"]
  /\ Goto(i, "bridgeWait")
  /\ UNCHANGED <<store, localVars, routerBalance, operatorBalance, landed, prefund, tx,
                 processVars, disturbed>>

(* Balance, allowance, configuration or burn: the bridge service gives up  *)
(* before the funds left.                                                  *)
BridgeRefused(i) ==
  /\ pc[i] = "bridge"
  /\ Goto(i, "stop")
  /\ UNCHANGED <<store, localVars, chainVars, processVars, disturbed>>

(* "submitted": Gateway was asked until the transfer was confirmed; CCTP   *)
(* does not look at the status of its mint, BridgeKit not at the result.   *)
BridgeSubmitted(i) ==
  /\ pc[i] = "bridgeWait"
  /\ plan[i].route = "GATEWAY" => wire[i] = "landed"
  /\ IF ReadsBalance(i)
       THEN /\ Goto(i, "waitFunding")
            /\ UNCHANGED execAmount
       ELSE /\ execAmount' = [execAmount EXCEPT ![i] = plan[i].amount]
            /\ Goto(i, "markExecuting")
  /\ UNCHANGED <<store, plan, before, chainVars, processVars, disturbed>>

(* bridge_failed or bridge_pending after the funds left: no attestation    *)
(* within 20 minutes, a Gateway transfer not confirmed within 30, a mint   *)
(* that was sent and whose receipt did not come.                           *)
BridgeGivesUp(i) ==
  /\ pc[i] = "bridgeWait"
  /\ Goto(i, "stop")
  /\ UNCHANGED <<store, localVars, chainVars, processVars, disturbed>>

(* waitForDestinationRouterFunding: a poll finds enough.                   *)
FundingSeen(i) ==
  /\ pc[i] = "waitFunding"
  /\ ReceivedForIntent(i) >= plan[i].amount
  /\ execAmount' = [execAmount EXCEPT ![i] = ReceivedForIntent(i)]
  /\ Goto(i, "markExecuting")
  /\ UNCHANGED <<store, plan, before, chainVars, processVars, disturbed>>

(* Faulty variant: the wait has no deadline. *)
FundingTimeoutNever(i) ==
  /\ pc[i] = "waitFunding" /\ ReceivedForIntent(i) < plan[i].amount
  /\ UNCHANGED vars

(* 30 minutes later the last poll did not (poll and deadline are one step) *)
(* and the wait throws.                                                    *)
FundingTimeout(i) ==
  /\ pc[i] = "waitFunding"
  /\ ReceivedForIntent(i) < plan[i].amount
  /\ Goto(i, "timedOut")
  /\ UNCHANGED <<store, localVars, chainVars, processVars, disturbed>>

MarkExecuting(i) ==
  /\ pc[i] = "markExecuting"
  /\ store' = [store EXCEPT ![i].status = "executing", ![i].bridge = "ok"]
  /\ Goto(i, "execute")
  /\ UNCHANGED <<localVars, chainVars, processVars, disturbed>>
-----------------------------------------------------------------------------
(* runExecutionPipeline, the protocol: ProtocolExecutorRegistry and        *)
(* EvmProtocolExecutor                                                     *)

(* No router configured: not_deployed.                                     *)
ExecuteUnset(i) ==
  /\ pc[i] = "execute" /\ plan[i].dest = "unset"
  /\ Goto(i, "stop")
  /\ UNCHANGED <<store, localVars, chainVars, processVars, disturbed>>

(* A wallet transfer needs no protocol: succeeded.                         *)
ExecuteTransfer(i) ==
  /\ pc[i] = "execute" /\ plan[i].dest = "wallet"
  /\ Goto(i, "markFinalizing")
  /\ UNCHANGED <<store, localVars, chainVars, processVars, disturbed>>

(* x402 answers configured, a protocol without an executor skipped.        *)
(* Neither is on the pipeline's list of failures.                          *)
ExecuteNothing(i) ==
  /\ pc[i] = "execute" /\ plan[i].dest = "x402"
  /\ Goto(i, "markFinalizing")
  /\ UNCHANGED <<store, localVars, chainVars, processVars, disturbed>>

(* The Solana and Stellar executors answer for themselves.                 *)
ExecuteNonEvm(i, executed) ==
  /\ pc[i] = "execute" /\ plan[i].dest = "nonevm"
  /\ Goto(i, IF executed THEN "markFinalizing" ELSE "stop")
  /\ UNCHANGED <<store, localVars, chainVars, processVars, disturbed>>

(* A LOCAL route has the operator send the amount to the router first.     *)
SendPrefund(i) ==
  /\ pc[i] = "execute" /\ CallsRouter(i) /\ IsLocal(i)
  /\ IF operatorBalance >= RequestedAmount(i)
       THEN prefund' = [prefund EXCEPT ![i] = "pending"] /\ Goto(i, "prefundWait")
       ELSE Goto(i, "catch") /\ UNCHANGED prefund
  /\ UNCHANGED <<store, localVars, routerBalance, operatorBalance, bridgeVars, tx,
                 processVars, disturbed>>

(* The receipt of the transfer; its status is not looked at.               *)
PrefundReceipt(i) ==
  /\ pc[i] = "prefundWait" /\ prefund[i] # "pending"
  /\ Goto(i, "submit")
  /\ UNCHANGED <<store, localVars, chainVars, processVars, disturbed>>

ExecuteBridged(i) ==
  /\ pc[i] = "execute" /\ CallsRouter(i) /\ ~IsLocal(i)
  /\ Goto(i, "submit")
  /\ UNCHANGED <<store, localVars, chainVars, processVars, disturbed>>

(* The router's balance is checked, the call is simulated and sent.        *)
SubmitExecution(i) ==
  /\ pc[i] = "submit"
  /\ IF routerBalance >= RequestedAmount(i)
       THEN tx' = [tx EXCEPT ![i] = "pending"] /\ Goto(i, "executeWait")
       ELSE Goto(i, "catch") /\ UNCHANGED tx
  /\ UNCHANGED <<store, localVars, routerBalance, operatorBalance, bridgeVars, prefund,
                 processVars, disturbed>>

(* The receipt of the transaction; its status is not looked at.            *)
ExecutionReceipt(i) ==
  /\ pc[i] = "executeWait" /\ tx[i] # "pending"
  /\ Goto(i, "markFinalizing")
  /\ UNCHANGED <<store, localVars, chainVars, processVars, disturbed>>
-----------------------------------------------------------------------------
(* runExecutionPipeline, its end *)

MarkFinalizing(i) ==
  /\ pc[i] = "markFinalizing"
  /\ store' = [store EXCEPT ![i].status = "finalizing", ![i].protocol = "ok"]
  /\ Goto(i, "mint")
  /\ UNCHANGED <<localVars, chainVars, processVars, disturbed>>

(* Faulty variant: the token is minted on the side. *)
MintReceiptUnrecorded(i) ==
  /\ pc[i] = "mint"
  /\ Goto(i, "markSucceeded")
  /\ UNCHANGED <<store, localVars, chainVars, processVars, disturbed>>

(* ArcReceiptMinter.mint never throws; it answers with a token or skipped. *)
MintReceipt(i) ==
  /\ pc[i] = "mint"
  /\ Goto(i, "recordMint")
  /\ UNCHANGED <<store, localVars, chainVars, processVars, disturbed>>

RecordMint(i, outcome) ==
  /\ pc[i] = "recordMint"
  /\ store' = [store EXCEPT ![i].nft = outcome]
  /\ Goto(i, "markSucceeded")
  /\ UNCHANGED <<localVars, chainVars, processVars, disturbed>>

MarkSucceeded(i) ==
  /\ pc[i] = "markSucceeded"
  /\ store' = [store EXCEPT ![i].status = "succeeded"]
  /\ Goto(i, "narrate")
  /\ UNCHANGED <<localVars, chainVars, processVars, disturbed>>

Narrate(i) ==
  /\ pc[i] = "narrate"
  /\ Goto(i, "done")
  /\ UNCHANGED <<store, localVars, chainVars, processVars, disturbed>>

(* Faulty variants: the failure is logged and not stored; the return is    *)
(* missing.                                                                *)
StopSilently(i) ==
  /\ pc[i] = "stop"
  /\ Goto(i, "done")
  /\ UNCHANGED <<store, localVars, chainVars, processVars, disturbed>>

StopAndGoOn(i) ==
  /\ pc[i] = "stop"
  /\ store' = [store EXCEPT ![i].status = "failed"]
  /\ Goto(i, "execute")
  /\ UNCHANGED <<localVars, chainVars, processVars, disturbed>>

(* The failures the pipeline foresees: it stores what it has and returns.  *)
Stop(i) ==
  /\ pc[i] = "stop"
  /\ LET r == store[i] IN
       store' = [store EXCEPT ![i] =
         Receipt("failed", IF r.status = "bridging" THEN "failed" ELSE r.bridge,
                 IF r.status = "executing" THEN "failed" ELSE r.protocol, r.nft)]
  /\ Goto(i, "done")
  /\ UNCHANGED <<localVars, chainVars, processVars, disturbed>>

(* Everything else ends in the catch of createAndRun or of the pipeline,   *)
(* but for the narration of a quote: that update is returned from the try  *)
(* without an await, so its rejection goes to the caller and the receipt   *)
(* stays as it is.                                                         *)
Reject(i) ==
  /\ MayReject(i)
  /\ Goto(i, IF pc[i] = "narrateQuote" THEN "done" ELSE "catch")
  /\ UNCHANGED <<store, localVars, chainVars, processVars, disturbed>>

Catch(i) ==
  /\ pc[i] \in {"catch", "timedOut"}
  /\ store' = [store EXCEPT ![i].status = "failed"]
  /\ Goto(i, "done")
  /\ UNCHANGED <<localVars, chainVars, processVars, disturbed>>
-----------------------------------------------------------------------------
(* POST /intents/:id/retry-nft: two updates of a receipt that read         *)
(* succeeded, the second with what became of the token.  An update reads   *)
(* the row and writes the whole of it back later.  The updates of the      *)
(* pipeline itself read and write in one step here: theirs can only bring  *)
(* back an older outcome of the token, which ReceiptMint is about.         *)

(* Faulty variant: a receipt of any status will do. *)
RequestRetryOfAny(r, i) ==
  /\ retry[r].left = 0
  /\ store[i] # NoReceipt
  /\ retry' = [retry EXCEPT ![r] = Retry(i, NoReceipt, 2)]
  /\ UNCHANGED <<store, pc, localVars, chainVars, crashes, disturbed>>

RequestRetry(r, i) ==
  /\ retry[r].left = 0
  /\ store[i].status = "succeeded"
  /\ retry' = [retry EXCEPT ![r] = Retry(i, NoReceipt, 2)]
  /\ UNCHANGED <<store, pc, localVars, chainVars, crashes, disturbed>>

RetryReads(r) ==
  /\ retry[r].left > 0 /\ retry[r].row = NoReceipt
  /\ retry' = [retry EXCEPT ![r].row = store[retry[r].of]]
  /\ UNCHANGED <<store, pc, localVars, chainVars, crashes, disturbed>>

RetryWrites(r, outcome) ==
  LET q == retry[r] IN
  /\ q.left > 0 /\ q.row # NoReceipt
  /\ store' = [store EXCEPT ![q.of] =
                 IF q.left = 1 THEN [q.row EXCEPT !.nft = outcome] ELSE q.row]
  /\ retry' = [retry EXCEPT ![r] = IF q.left = 1 THEN NoRetry ELSE Retry(q.of, NoReceipt, 1)]
  /\ UNCHANGED <<pc, localVars, chainVars, crashes, disturbed>>

(* The store rejects: the request answers with an error.                   *)
RetryFails(r) ==
  /\ Durable /\ retry[r].left > 0
  /\ retry' = [retry EXCEPT ![r] = NoRetry]
  /\ UNCHANGED <<store, pc, localVars, chainVars, crashes, disturbed>>

RetryStep(r) ==
  \/ \E i \in Intents : RequestRetry(r, i)
  \/ RetryReads(r)
  \/ \E outcome \in {"minted", "skipped"} : RetryWrites(r, outcome)
  \/ RetryFails(r)
-----------------------------------------------------------------------------
(* The chain and the process *)

(* Other intents between their first and last look at the router.          *)
Watching == {"markBridging", "bridge", "bridgeWait", "waitFunding"}

RouterMovedBy(i) ==
  disturbed' = [j \in Intents |-> disturbed[j] \/ (j # i /\ pc[j] \in Watching)]

(* The bridge mints to mintRecipient: the router, the operator where there *)
(* is none, or the user.  It does so whether or not anybody still waits.   *)
BridgeLands(i, fee) ==
  /\ wire[i] = "sent"
  /\ fee = 0 \/ plan[i].route = "BRIDGEKIT"
  /\ wire' = [wire EXCEPT ![i] = "landed"]
  /\ landed' = [landed EXCEPT ![i] = plan[i].amount - fee]
  /\ IF UsesRouter(i)
       THEN routerBalance' = routerBalance + plan[i].amount - fee /\ RouterMovedBy(i)
       ELSE UNCHANGED <<routerBalance, disturbed>>
  /\ operatorBalance' = operatorBalance +
       IF plan[i].dest = "unset" /\ plan[i].route # "GATEWAY" THEN plan[i].amount - fee ELSE 0
  /\ UNCHANGED <<store, pc, localVars, prefund, tx, processVars>>

PrefundMined(i) ==
  /\ prefund[i] = "pending"
  /\ IF operatorBalance >= RequestedAmount(i)
       THEN /\ prefund' = [prefund EXCEPT ![i] = "ok"]
            /\ operatorBalance' = operatorBalance - RequestedAmount(i)
            /\ routerBalance' = routerBalance + RequestedAmount(i)
            /\ RouterMovedBy(i)
       ELSE /\ prefund' = [prefund EXCEPT ![i] = "reverted"]
            /\ UNCHANGED <<operatorBalance, routerBalance, disturbed>>
  /\ UNCHANGED <<store, pc, localVars, bridgeVars, tx, processVars>>

(* executeWithRouterBalance takes the amount or reverts as a whole.        *)
ExecutionMined(i) ==
  /\ tx[i] = "pending"
  /\ \/ /\ routerBalance >= RequestedAmount(i)
        /\ tx' = [tx EXCEPT ![i] = "ok"]
        /\ routerBalance' = routerBalance - RequestedAmount(i)
        /\ RouterMovedBy(i)
     \/ /\ tx' = [tx EXCEPT ![i] = "reverted"]
        /\ UNCHANGED <<routerBalance, disturbed>>
  /\ UNCHANGED <<store, pc, localVars, operatorBalance, bridgeVars, prefund, processVars>>

(* The process exits, every pipeline in it is gone, and it is started      *)
(* again: killed, or because the write in a catch block rejects, which     *)
(* nobody handles.                                                         *)
Exit ==
  /\ crashes < MaxCrashes
  /\ crashes' = crashes + 1
  /\ pc' = [i \in Intents |-> IF pc[i] \in Awaits THEN "dead" ELSE pc[i]]
  /\ retry' = [r \in Requests |-> NoRetry]
  /\ store' = IF Durable THEN store ELSE [i \in Intents |-> NoReceipt]
  /\ UNCHANGED <<localVars, chainVars, disturbed>>
-----------------------------------------------------------------------------
(* What the code of intent i does next when nothing it awaits rejects.     *)
Proceed(i) ==
  \/ \E p \in Plans, quoteOnly, approved, requiresApproval, allowed \in BOOLEAN :
       Decide(i, p, quoteOnly, approved, requiresApproval, allowed)
  \/ NarrateQuote(i)
  \/ \E verified \in BOOLEAN : VerifySource(i, verified)
  \/ ReadBalanceBefore(i)
  \/ MarkBridging(i)
  \/ BridgeSend(i)
  \/ BridgeRefused(i)
  \/ BridgeSubmitted(i)
  \/ BridgeGivesUp(i)
  \/ FundingSeen(i)
  \/ FundingTimeout(i)
  \/ MarkExecuting(i)
  \/ ExecuteUnset(i)
  \/ ExecuteTransfer(i)
  \/ ExecuteNothing(i)
  \/ \E executed \in BOOLEAN : ExecuteNonEvm(i, executed)
  \/ SendPrefund(i)
  \/ PrefundReceipt(i)
  \/ ExecuteBridged(i)
  \/ SubmitExecution(i)
  \/ ExecutionReceipt(i)
  \/ MarkFinalizing(i)
  \/ MintReceipt(i)
  \/ \E outcome \in {"minted", "skipped"} : RecordMint(i, outcome)
  \/ MarkSucceeded(i)
  \/ Narrate(i)
  \/ Stop(i)
  \/ Catch(i)

PipelineStep(i) == Proceed(i) \/ Reject(i)

(* What the destination chain does with what was sent to it. *)
ChainStep(i) ==
  \/ \E fee \in BridgeFees \union {0} : BridgeLands(i, fee)
  \/ PrefundMined(i)
  \/ ExecutionMined(i)

Next ==
  \/ \E i \in Intents : CreateIntent(i) \/ PipelineStep(i) \/ ChainStep(i)
  \/ \E r \in Requests : RetryStep(r)
  \/ Exit

Spec == Init /\ [][Next]_vars

(* The process stays up and its event loop runs every pipeline: each await *)
(* ends, because the chain, the service or the code's own deadline ends    *)
(* it.  Nothing need ever reject.  Transactions that were sent are mined;  *)
(* transfers need not land.                                                *)
FairSpec ==
  /\ Spec
  /\ \A i \in Intents :
       /\ WF_vars(Proceed(i))
       /\ WF_vars(PrefundMined(i))
       /\ WF_vars(ExecutionMined(i))
-----------------------------------------------------------------------------
InFlight == {"created", "planned", "bridging", "executing", "finalizing"}
Parked   == {"quoted", "needs_approval"}
Settled  == Parked \union {"succeeded", "failed"}

Receipts == [status : {"none"} \union InFlight \union Settled,
             bridge : {"none", "ok", "failed"}, protocol : {"none", "ok", "failed"},
             nft : {"none", "minted", "skipped"}]

TypeOK ==
  /\ store \in [Intents -> Receipts]
  /\ plan \in [Intents -> Plans \union {NoPlan}]
  /\ pc \in [Intents -> Awaits \union {"idle", "done", "dead"}]
  /\ before \in [Intents -> Nat]
  /\ execAmount \in [Intents -> Nat]
  /\ routerBalance \in Nat
  /\ operatorBalance \in Nat
  /\ wire \in [Intents -> {"none", "sent", "landed"}]
  /\ landed \in [Intents -> Nat]
  /\ prefund \in [Intents -> {"none", "pending", "ok", "reverted"}]
  /\ tx \in [Intents -> {"none", "pending", "ok", "reverted"}]
  /\ crashes \in 0..MaxCrashes
  /\ retry \in [Requests -> [of : Intents \union {"none"}, row : Receipts, left : 0..2]]
  /\ disturbed \in [Intents -> BOOLEAN]

(* What a status says about the code: the statuses a receipt may have      *)
(* while the pipeline of its intent is suspended at an await.              *)
StatusesAt(label) ==
  CASE label = "idle" -> {"none"}
    [] label = "analyze" -> {"created"}
    [] label = "narrateQuote" -> Parked
    [] label \in {"verify", "readBefore", "markBridging"} -> {"planned"}
    [] label \in {"bridge", "bridgeWait", "waitFunding", "markExecuting", "timedOut"} -> {"bridging"}
    [] label \in {"execute", "prefundWait", "submit", "executeWait", "markFinalizing"} -> {"executing"}
    [] label \in {"mint", "recordMint", "markSucceeded"} -> {"finalizing"}
    [] label = "narrate" -> {"succeeded"}
    [] label = "stop" -> {"planned", "bridging", "executing"}
    [] label = "catch" -> InFlight \union {"succeeded"}
    [] label = "done" -> Settled
    [] label = "dead" -> (InFlight \union Settled) \ {"failed"}

(* A receipt never waits for a pipeline that returned, and never reports a *)
(* phase the pipeline is not in: only when the process exited under it may *)
(* an intent that is still in flight have nobody working on it.            *)
StatusFollowsPipeline ==
  \A i \in Intents :
    \/ store[i].status \in StatusesAt(pc[i])
    \/ ~Durable /\ crashes > 0 /\ pc[i] \in {"done", "dead"} /\ store[i] = NoReceipt

(* "best-effort, but record the outcome before success": when an intent    *)
(* reads succeeded its bridge and protocol receipts are stored and so is   *)
(* what became of its receipt token.                                       *)
SucceededIsComplete ==
  \A i \in Intents : store[i].status = "succeeded" =>
    store[i].bridge = "ok" /\ store[i].protocol = "ok" /\ store[i].nft # "none"

(* Once an intent reads settled, parked for approval included, nothing new *)
(* is sent on its behalf: no burn, no prefund, no router transaction.      *)
SettledIsQuiescent ==
  [][\A i \in Intents : store[i].status \in Settled =>
       /\ wire[i] = "none" => wire'[i] = "none"
       /\ prefund[i] = "none" => prefund'[i] = "none"
       /\ tx[i] = "none" => tx'[i] = "none"]_vars

(* Attribution by balance difference is exact for an intent that had the   *)
(* router to itself between its two looks at the balance: what it goes on  *)
(* to execute is what its own bridge transfer brought, old balances left   *)
(* by failed intents notwithstanding.                                      *)
ExclusiveWindowAttribution ==
  \A i \in Intents :
    UsesRouter(i) /\ execAmount[i] # 0 /\ ~disturbed[i] => execAmount[i] = landed[i]

(* Whatever pipelines, requests and exits do to the rows, the statuses a   *)
(* poller reads move as the abstract life cycle says: succeeded comes only *)
(* after the outcome of the receipt token is stored, also where a request  *)
(* writes an older row back, and an intent that failed before that stays   *)
(* failed.                                                                 *)
Lifecycle == INSTANCE IntentLifecycle WITH
               status <- [i \in Intents |-> store[i].status],
               sealed <- [i \in Intents |-> store[i].nft # "none"]
ImplementsLifecycle == Lifecycle!LifecycleSpec

(* Every accepted request comes to rest, unless the process exits.         *)
EveryIntentSettles ==
  \A i \in Intents : (store[i].status = "created") ~> (store[i].status \in Settled \/ pc[i] = "dead")
-----------------------------------------------------------------------------
(* What a comment of the code says and the code does not keep.             *)

(* "Check if protocol execution actually succeeded on-chain": an intent    *)
(* behind the router only succeeds if its transaction did.                 *)
SucceededExecuted ==
  \A i \in Intents : store[i].status = "succeeded" /\ CallsRouter(i) => tx[i] = "ok"
=============================================================================
