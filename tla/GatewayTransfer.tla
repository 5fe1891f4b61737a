-------------------------- MODULE GatewayTransfer --------------------------
(***************************************************************************)
(* A transfer over Circle Gateway, from the web page that funds and signs  *)
(* it (handleExecute in apps/web/src/components/FlowBuilder.tsx) to the    *)
(* service that submits it (apps/api/src/services/bridge/                  *)
(* gatewayService.ts).                                                     *)
(*                                                                         *)
(* A user deposits USDC into the GatewayWallet contract, Circle indexes    *)
(* it, and a signed BurnIntent draws on it.  All flows of a user draw on   *)
(* one balance: also the fee each POST /intents costs (x402), and flows    *)
(* over other bridges, which only deposit that fee.  A page reads the      *)
(* balance once and deposits what is missing.                              *)
(*                                                                         *)
(* Gateway, the wallet's chain and the payment of the fee are modelled     *)
(* from how the code uses them.                                            *)
(***************************************************************************)
EXTENDS Naturals

CONSTANTS
  Transfers,     (* executions of the page                                   *)
  Depositors,    (* users, each with one wallet on one EVM chain             *)
  DepositorOf,   (* whose execution it is                                    *)
  Quotes,        (* the quotes that may be selected                          *)
  X402Fee,       (* what POST /intents costs                                 *)
  GasBuffer,     (* what Arc's deposits are increased by                     *)
  SafetyBuffer,  (* what Gateway's estimate of its fee is increased by       *)
  Funds          (* what a user may have in wallet and Gateway at first      *)

(* quoted: the fee of the quote; estimated: Gateway's own estimate; arc:   *)
(* the source is Arc.                                                      *)
QuoteRecords == [route : {"GATEWAY", "other"}, value : Nat \ {0}, quoted : Nat,
                 estimated : Nat, arc : BOOLEAN]
NoQuote == [route |-> "other", value |-> 0, quoted |-> 0, estimated |-> 0, arc |-> FALSE]

ASSUME DepositorsAssumption == DepositorOf \in [Transfers -> Depositors]
ASSUME FundsAssumption == Funds \subseteq [wallet : Nat, gateway : Nat]
ASSUME QuotesAssumption == Quotes \subseteq QuoteRecords
(* estimateGatewayMaxFeeUsdc is more than 0.3 USDC; the x402 fee and the   *)
(* gas buffer are 0.05.                                                    *)
ASSUME FeesAssumption ==
  /\ X402Fee \in Nat /\ GasBuffer \in Nat /\ SafetyBuffer \in Nat
  /\ X402Fee <= GasBuffer
  /\ \A q \in Quotes : q.route = "GATEWAY" => X402Fee <= q.quoted

VARIABLES
  quote,       (* the quote a flow executes                                  *)
  pc,          (* the await a flow is suspended at                           *)
  walletSeen,  (* what the page read of the wallet's balance                 *)
  existing,    (* and of the Gateway balance                                 *)
  transferTx,  (* the transactions of a flow: none, pending, ok, reverted;   *)
  approveTx,   (* a deposit may be indexed                                   *)
  depositTx,
  wallet,      (* a user's USDC on the chain                                 *)
  allowance,   (* what GatewayWallet may take of it                          *)
  available,   (* the user's balance at Gateway, as indexed                  *)
  gateway,     (* Gateway's transfer: none, posted, refused, accepted,       *)
               (* confirmed, failed                                          *)
  response,    (* its response to the POST: none, refused, named, unnamed    *)
  answer,      (* the service's answer, and whether it has the transferId    *)
  disturbed    (* history: another flow of the user drew on the Gateway      *)
               (* balance since it was read                                  *)

pageVars  == <<quote, walletSeen, existing>>
txVars    == <<transferTx, approveTx, depositTx>>
chainVars == <<wallet, allowance>>
circleVars == <<gateway, response>>
vars == <<pageVars, pc, txVars, chainVars, available, circleVars, answer, disturbed>>

FrontAwaits   == {"prepare", "transfer", "transferWait", "approve", "approveWait", "deposit",
                  "depositWait", "post"}
ServiceAwaits == {"fullBalance", "minBalance", "response", "poll"}
Ends          == {"stopped", "elsewhere", "answered", "dead"}
TxStates      == {"none", "pending", "ok", "reverted"}

Owner(t)     == DepositorOf[t]
ByGateway(t) == quote[t].route = "GATEWAY"

(* addGatewayMaxFeeSafetyBuffer, or the quoted fee when that is more.      *)
MaxFee(q) ==
  IF q.estimated + SafetyBuffer >= q.quoted THEN q.estimated + SafetyBuffer ELSE q.quoted

(* Faulty variant: only the value is deposited. *)
DepositValueOnly(q) == IF q.route = "GATEWAY" THEN q.value ELSE X402Fee

(* What a flow wants to have at Gateway: prepareUserGatewayTransfer's      *)
(* depositAmount, or the fee of POST /intents.                             *)
DepositAmount(q) ==
  IF q.route = "GATEWAY"
    THEN q.value + MaxFee(q) + (IF q.arc THEN GasBuffer ELSE 0)
    ELSE X402Fee

(* What it must have in the wallet to begin: the deposit the quote asks    *)
(* for, and the fee.                                                       *)
Required(q) == q.value + (IF q.route = "GATEWAY" THEN q.quoted ELSE 0) + X402Fee

Missing(q, balance) == IF DepositAmount(q) > balance THEN DepositAmount(q) - balance ELSE 0
Delta(t) == Missing(quote[t], existing[t])

NoAnswer == [status |-> "none", transferId |-> FALSE]

Goto(t, label) == pc' = [pc EXCEPT ![t] = label]

Return(t, status, transferId) ==
  /\ answer' = [answer EXCEPT ![t] = [status |-> status, transferId |-> transferId]]
  /\ Goto(t, "answered")

Init ==
  /\ quote = [t \in Transfers |-> NoQuote]
  /\ pc = [t \in Transfers |-> "idle"]
  /\ walletSeen = [t \in Transfers |-> 0]
  /\ existing = [t \in Transfers |-> 0]
  /\ transferTx = [t \in Transfers |-> "none"]
  /\ approveTx = [t \in Transfers |-> "none"]
  /\ depositTx = [t \in Transfers |-> "none"]
  /\ \E start \in [Depositors -> Funds] :
       /\ wallet = [d \in Depositors |-> start[d].wallet]
       /\ available = [d \in Depositors |-> start[d].gateway]
  /\ allowance = [d \in Depositors |-> 0]
  /\ gateway = [t \in Transfers |-> "none"]
  /\ response = [t \in Transfers |-> "none"]
  /\ answer = [t \in Transfers |-> NoAnswer]
  /\ disturbed = [t \in Transfers |-> FALSE]
-----------------------------------------------------------------------------
(* The page *)

(* The wallet's balance is read; too little and the page says so.          *)
Execute(t, q) ==
  /\ pc[t] = "idle"
  /\ quote' = [quote EXCEPT ![t] = q]
  /\ walletSeen' = [walletSeen EXCEPT ![t] = wallet[Owner(t)]]
  /\ Goto(t, IF wallet[Owner(t)] < Required(q) THEN "stopped"
             ELSE IF q.route = "GATEWAY" THEN "prepare" ELSE "transfer")
  /\ UNCHANGED <<existing, txVars, chainVars, available, circleVars, answer, disturbed>>

(* On other routes the operator is sent the value first; the receipt's     *)
(* status is not looked at.                                                *)
SendTransfer(t) ==
  /\ pc[t] = "transfer"
  /\ transferTx' = [transferTx EXCEPT ![t] = "pending"]
  /\ Goto(t, "transferWait")
  /\ UNCHANGED <<pageVars, approveTx, depositTx, chainVars, available, circleVars, answer, disturbed>>

(* The quote is prepared or the transfer's receipt is there, and the       *)
(* Gateway balance is read; when Circle does not answer it is 0.  What is  *)
(* missing is deposited, on a Gateway route if the wallet had it when it   *)
(* was read.                                                               *)
ReadGateway(t, answered) ==
  /\ \/ pc[t] = "prepare"
     \/ pc[t] = "transferWait" /\ transferTx[t] \in {"ok", "reverted"}
  /\ LET balance == IF answered THEN available[Owner(t)] ELSE 0
         delta   == Missing(quote[t], balance)
     IN  /\ existing' = [existing EXCEPT ![t] = balance]
         /\ Goto(t, IF ByGateway(t) /\ walletSeen[t] < delta THEN "stopped"
                    ELSE IF delta > 0 THEN "approve" ELSE "post")
  /\ disturbed' = [disturbed EXCEPT ![t] = FALSE]
  /\ UNCHANGED <<quote, walletSeen, txVars, chainVars, available, circleVars, answer>>

Approve(t) ==
  /\ pc[t] = "approve"
  /\ approveTx' = [approveTx EXCEPT ![t] = "pending"]
  /\ Goto(t, "approveWait")
  /\ UNCHANGED <<pageVars, transferTx, depositTx, chainVars, available, circleVars, answer, disturbed>>

(* Neither receipt's status is looked at.                                  *)
ApproveReceipt(t) ==
  /\ pc[t] = "approveWait" /\ approveTx[t] \in {"ok", "reverted"}
  /\ Goto(t, "deposit")
  /\ UNCHANGED <<pageVars, txVars, chainVars, available, circleVars, answer, disturbed>>

Deposit(t) ==
  /\ pc[t] = "deposit"
  /\ depositTx' = [depositTx EXCEPT ![t] = "pending"]
  /\ Goto(t, "depositWait")
  /\ UNCHANGED <<pageVars, transferTx, approveTx, chainVars, available, circleVars, answer, disturbed>>

DepositReceipt(t) ==
  /\ pc[t] = "depositWait" /\ depositTx[t] \notin {"none", "pending"}
  /\ Goto(t, "post")
  /\ UNCHANGED <<pageVars, txVars, chainVars, available, circleVars, answer, disturbed>>

Disturb(t) ==
  disturbed' = [s \in Transfers |->
                  disturbed[s] \/ (s # t /\ Owner(s) = Owner(t))]

(* The BurnIntent and the payment are signed and POST /intents is sent:    *)
(* the fee is settled from the Gateway balance, or the page stops.  The    *)
(* pipeline calls the service unless it ends before or takes another       *)
(* route.                                                                  *)
PostIntent(t, reachesService) ==
  /\ pc[t] = "post"
  /\ IF available[Owner(t)] < X402Fee
       THEN Goto(t, "stopped") /\ UNCHANGED <<available, disturbed>>
       ELSE /\ available' = [available EXCEPT ![Owner(t)] = @ - X402Fee]
            /\ Disturb(t)
            /\ Goto(t, IF ByGateway(t) /\ reachesService THEN "fullBalance" ELSE "elsewhere")
  /\ UNCHANGED <<pageVars, txVars, chainVars, circleVars, answer>>

(* The user rejects a signature, a request fails or the page is closed.    *)
Abandon(t) ==
  /\ pc[t] \in FrontAwaits
  /\ Goto(t, "stopped")
  /\ UNCHANGED <<pageVars, txVars, chainVars, available, circleVars, answer, disturbed>>
-----------------------------------------------------------------------------
(* The service *)

PostTransfer(t) ==
  /\ gateway' = [gateway EXCEPT ![t] = "posted"]
  /\ Goto(t, "response")
  /\ UNCHANGED <<pageVars, txVars, chainVars, available, response, answer, disturbed>>

(* waitForGatewayBalance, until value and fee are there ...                *)
FullBalanceSeen(t) ==
  /\ pc[t] = "fullBalance"
  /\ available[Owner(t)] >= quote[t].value + MaxFee(quote[t])
  /\ PostTransfer(t)

(* ... or, 3 minutes later, they were not, or Circle did not answer.       *)
FullBalanceTimeout(t) ==
  /\ pc[t] = "fullBalance"
  /\ Goto(t, "minBalance")
  /\ UNCHANGED <<pageVars, txVars, chainVars, available, circleVars, answer, disturbed>>

(* Then the value will do, for another minute.                             *)
MinBalanceSeen(t) ==
  /\ pc[t] = "minBalance"
  /\ available[Owner(t)] >= quote[t].value
  /\ PostTransfer(t)

(* Faulty variant: the refusal does not return. *)
MinBalanceTimeoutGoesOn(t) ==
  /\ pc[t] = "minBalance"
  /\ answer' = [answer EXCEPT ![t] = [status |-> "bridge_failed", transferId |-> FALSE]]
  /\ gateway' = [gateway EXCEPT ![t] = "posted"]
  /\ Goto(t, "response")
  /\ UNCHANGED <<pageVars, txVars, chainVars, available, response, disturbed>>

MinBalanceTimeout(t) ==
  /\ pc[t] = "minBalance"
  /\ Return(t, "bridge_failed", FALSE)
  /\ UNCHANGED <<pageVars, txVars, chainVars, available, circleVars, disturbed>>

(* Faulty variant: a transfer that was accepted is not waited for. *)
ResponseUnpolled(t) ==
  /\ pc[t] = "response" /\ response[t] # "none"
  /\ IF response[t] = "named" THEN Return(t, "submitted", TRUE)
     ELSE Return(t, "bridge_failed", FALSE)
  /\ UNCHANGED <<pageVars, txVars, chainVars, available, circleVars, disturbed>>

Response(t) ==
  /\ pc[t] = "response" /\ response[t] # "none"
  /\ IF response[t] = "named"
       THEN Goto(t, "poll") /\ UNCHANGED answer
       ELSE Return(t, "bridge_failed", FALSE)
  /\ UNCHANGED <<pageVars, txVars, chainVars, available, circleVars, disturbed>>

(* A fetch that rejects.  executeGatewayMint returns the promise without   *)
(* awaiting it, so that its catch sees nothing and the caller's does.      *)
Reject(t) ==
  /\ pc[t] \in {"response", "poll"}
  /\ Return(t, "thrown", FALSE)
  /\ UNCHANGED <<pageVars, txVars, chainVars, available, circleVars, disturbed>>

(* fetch gives up on a response that does not come.                        *)
NoResponse(t) == pc[t] = "response" /\ response[t] = "none" /\ Reject(t)

(* waitForTransferStatus: confirmed, finalized or complete; failed or      *)
(* expired.                                                                *)
StatusSeen(t) ==
  /\ pc[t] = "poll"
  /\ \/ gateway[t] = "confirmed" /\ Return(t, "submitted", TRUE)
     \/ gateway[t] = "failed" /\ Return(t, "bridge_failed", TRUE)
  /\ UNCHANGED <<pageVars, txVars, chainVars, available, circleVars, disturbed>>

(* Faulty variant: the poll has no deadline. *)
StatusTimeoutNever(t) ==
  /\ pc[t] = "poll"
  /\ UNCHANGED vars

(* 30 minutes; every status read may have been an error.                   *)
StatusTimeout(t) ==
  /\ pc[t] = "poll"
  /\ Return(t, "bridge_failed", TRUE)
  /\ UNCHANGED <<pageVars, txVars, chainVars, available, circleVars, disturbed>>
-----------------------------------------------------------------------------
(* The chain and Circle *)

TransferMined(t) ==
  /\ transferTx[t] = "pending"
  /\ \/ /\ wallet[Owner(t)] >= quote[t].value
        /\ wallet' = [wallet EXCEPT ![Owner(t)] = @ - quote[t].value]
        /\ transferTx' = [transferTx EXCEPT ![t] = "ok"]
     \/ transferTx' = [transferTx EXCEPT ![t] = "reverted"] /\ UNCHANGED wallet
  /\ UNCHANGED <<pageVars, pc, approveTx, depositTx, allowance, available, circleVars, answer, disturbed>>

ApproveMined(t) ==
  /\ approveTx[t] = "pending"
  /\ \/ /\ allowance' = [allowance EXCEPT ![Owner(t)] = Delta(t)]
        /\ approveTx' = [approveTx EXCEPT ![t] = "ok"]
     \/ approveTx' = [approveTx EXCEPT ![t] = "reverted"] /\ UNCHANGED allowance
  /\ UNCHANGED <<pageVars, pc, transferTx, depositTx, wallet, available, circleVars, answer, disturbed>>

DepositPossible(t) == wallet[Owner(t)] >= Delta(t) /\ allowance[Owner(t)] >= Delta(t)

DepositMined(t) ==
  /\ depositTx[t] = "pending"
  /\ \/ /\ DepositPossible(t)
        /\ wallet' = [wallet EXCEPT ![Owner(t)] = @ - Delta(t)]
        /\ allowance' = [allowance EXCEPT ![Owner(t)] = @ - Delta(t)]
        /\ depositTx' = [depositTx EXCEPT ![t] = "ok"]
     \/ depositTx' = [depositTx EXCEPT ![t] = "reverted"] /\ UNCHANGED chainVars
  /\ UNCHANGED <<pageVars, pc, transferTx, approveTx, available, circleVars, answer, disturbed>>

Index(t) ==
  /\ depositTx[t] = "ok"
  /\ available' = [available EXCEPT ![Owner(t)] = @ + Delta(t)]
  /\ depositTx' = [depositTx EXCEPT ![t] = "indexed"]
  /\ UNCHANGED <<pageVars, pc, transferTx, approveTx, chainVars, circleVars, answer, disturbed>>

(* Gateway takes the value and a fee it may choose below the signed one,   *)
(* and may leave the transferId out of its response.                       *)
Accept(t, fee, reply) ==
  /\ gateway[t] = "posted" /\ response[t] = "none"
  /\ available[Owner(t)] >= quote[t].value + fee
  /\ available' = [available EXCEPT ![Owner(t)] = @ - (quote[t].value + fee)]
  /\ gateway' = [gateway EXCEPT ![t] = "accepted"]
  /\ response' = [response EXCEPT ![t] = reply]
  /\ Disturb(t)
  /\ UNCHANGED <<pageVars, pc, txVars, chainVars, answer>>

Refuse(t) ==
  /\ gateway[t] = "posted" /\ response[t] = "none"
  /\ gateway' = [gateway EXCEPT ![t] = "refused"]
  /\ response' = [response EXCEPT ![t] = "refused"]
  /\ UNCHANGED <<pageVars, pc, txVars, chainVars, available, answer, disturbed>>

(* The forwarder minted it, or it failed or expired; what Circle then      *)
(* gives back is left out.                                                 *)
Settle(t, outcome) ==
  /\ gateway[t] = "accepted"
  /\ gateway' = [gateway EXCEPT ![t] = outcome]
  /\ UNCHANGED <<pageVars, pc, txVars, chainVars, available, response, answer, disturbed>>

(* The API's process exits and its calls are gone. *)
Exit ==
  /\ pc' = [t \in Transfers |-> IF pc[t] \in ServiceAwaits THEN "dead" ELSE pc[t]]
  /\ UNCHANGED <<pageVars, txVars, chainVars, available, circleVars, answer, disturbed>>
-----------------------------------------------------------------------------
Page(t) ==
  \/ \E q \in Quotes : Execute(t, q)
  \/ SendTransfer(t)
  \/ \E answered \in BOOLEAN : ReadGateway(t, answered)
  \/ Approve(t)
  \/ ApproveReceipt(t)
  \/ Deposit(t)
  \/ DepositReceipt(t)
  \/ \E reachesService \in BOOLEAN : PostIntent(t, reachesService)
  \/ Abandon(t)

(* What the service does next.  Its waits have deadlines.                  *)
Proceed(t) ==
  \/ FullBalanceSeen(t)
  \/ FullBalanceTimeout(t)
  \/ MinBalanceSeen(t)
  \/ MinBalanceTimeout(t)
  \/ Response(t)
  \/ NoResponse(t)
  \/ StatusSeen(t)
  \/ StatusTimeout(t)

Outside(t) ==
  \/ TransferMined(t)
  \/ ApproveMined(t)
  \/ DepositMined(t)
  \/ Index(t)
  \/ \E fee \in 0..MaxFee(quote[t]), reply \in {"named", "unnamed"} : Accept(t, fee, reply)
  \/ Refuse(t)
  \/ \E outcome \in {"confirmed", "failed"} : Settle(t, outcome)

FlowNext == \E t \in Transfers : Page(t) \/ Proceed(t) \/ Reject(t) \/ Outside(t)

Next == FlowNext \/ Exit

Spec == Init /\ [][Next]_vars

(* The event loop runs every call whose await ended, and each wait ends.   *)
(* Nothing is asked of users, of the chain or of Circle.                   *)
FairSpec == Spec /\ \A t \in Transfers : WF_vars(Proceed(t))
-----------------------------------------------------------------------------
TypeOK ==
  /\ quote \in [Transfers -> Quotes \union {NoQuote}]
  /\ pc \in [Transfers -> {"idle"} \union FrontAwaits \union ServiceAwaits \union Ends]
  /\ walletSeen \in [Transfers -> Nat]
  /\ existing \in [Transfers -> Nat]
  /\ transferTx \in [Transfers -> TxStates]
  /\ approveTx \in [Transfers -> TxStates]
  /\ depositTx \in [Transfers -> TxStates \union {"indexed"}]
  /\ wallet \in [Depositors -> Nat]
  /\ allowance \in [Depositors -> Nat]
  /\ available \in [Depositors -> Nat]
  /\ gateway \in [Transfers -> {"none", "posted", "refused", "accepted", "confirmed", "failed"}]
  /\ response \in [Transfers -> {"none", "refused", "named", "unnamed"}]
  /\ answer \in [Transfers -> [status : {"none", "submitted", "bridge_failed", "thrown"},
                               transferId : BOOLEAN]]
  /\ disturbed \in [Transfers -> BOOLEAN]

(* What a flow has at Gateway or on the way there. *)
Funded(t) == available[Owner(t)] + (IF depositTx[t] = "ok" THEN Delta(t) ELSE 0)

(* The balance a page read once, its deposit and the fee of its own POST   *)
(* go together: unless another flow of the user drew on the balance, or    *)
(* the deposit reverted, the service finds the value, and from Arc the     *)
(* whole fee too, as soon as Circle has indexed them.                      *)
UndisturbedIsFunded ==
  \A t \in Transfers :
    /\ pc[t] \in ServiceAwaits /\ gateway[t] \in {"none", "posted"}
    /\ ~disturbed[t] /\ depositTx[t] # "reverted"
    => /\ Funded(t) >= quote[t].value
       /\ quote[t].arc => Funded(t) >= quote[t].value + MaxFee(quote[t])

(* A bridge_failed without a transferId means that Gateway never took the  *)
(* funds and never will: nothing is posted or Gateway refused it, unless   *)
(* Gateway accepted without telling the id.  An exception tells nothing,   *)
(* and is only met by what was posted: Gateway may still accept it.        *)
AcceptedIsNamed ==
  \A t \in Transfers :
    /\ answer[t].status = "bridge_failed" /\ ~answer[t].transferId
       => gateway[t] \in {"none", "refused"} \/ response[t] = "unnamed"
    /\ answer[t].status = "thrown" => gateway[t] # "none"

(* Who is told submitted finds the USDC minted: Gateway confirmed it.      *)
SubmittedIsConfirmed ==
  \A t \in Transfers : answer[t].status = "submitted" => gateway[t] = "confirmed"

(* What a call is answered can be relied on: bridge_failed hides no        *)
(* transfer whose id Gateway told, and submitted means confirmed.          *)
AnswersAreTrue == AcceptedIsNamed /\ SubmittedIsConfirmed

(* What the caller is told; no failure says that nothing was posted.       *)
Told(t) ==
  CASE answer[t].status = "none" -> "nothing"
    [] answer[t].status = "submitted" -> "submitted"
    [] answer[t].status \in {"bridge_failed", "thrown"} -> "atRisk"

(* A posted transfer asks for the funds; Gateway takes them when it        *)
(* accepts it, be that after the answer.                                   *)
Wire(t) ==
  CASE gateway[t] = "none" -> "none"
    [] gateway[t] = "posted" -> "asked"
    [] gateway[t] = "refused" -> "refused"
    [] gateway[t] \in {"accepted", "failed"} -> "taken"
    [] gateway[t] = "confirmed" -> "landed"

(* The service keeps what the orchestrator relies on. *)
Bridge == INSTANCE BridgeTransfer WITH told <- [t \in Transfers |-> Told(t)],
                                       wire <- [t \in Transfers |-> Wire(t)]
ImplementsBridgeTransfer == Bridge!BridgeSpec

(* Every call of the service is answered, unless the process exits.        *)
EveryCallIsAnswered ==
  \A t \in Transfers : (pc[t] \in ServiceAwaits) ~> (answer[t].status # "none" \/ pc[t] = "dead")
=============================================================================
