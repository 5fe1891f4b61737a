----------------------------- MODULE CctpBridge -----------------------------
(***************************************************************************)
(* CctpService, apps/api/src/services/bridge/cctpService.ts: USDC is burnt *)
(* from the operator's wallet on one chain, Circle attests to the burn,    *)
(* and the operator has the message received on another chain.             *)
(*                                                                         *)
(* Calls of executeBridge run interleaved at their awaits.  They share the *)
(* operator's balance and the allowance of TokenMessenger on each source   *)
(* chain, and the one token account Solana mints to.  There is one chain   *)
(* for each kind of virtual machine.                                       *)
(*                                                                         *)
(* The contracts, the chains and Circle's attestation service are modelled *)
(* from how the service uses them.  Anybody may have an attested message   *)
(* received, unless its destinationCaller says otherwise.                  *)
(***************************************************************************)
EXTENDS Naturals

CONSTANTS
  Transfers,   (* calls of executeBridge                                     *)
  Plans,       (* what a call may be asked for                               *)
  Funds        (* the operator's USDC on each chain in the beginning         *)

Vms        == {"evm", "svm", "soroban"}
Recipients == {"none", "valid", "invalid"}

(* bridgeOnly: a _USDC_TRANSFER protocol; router: one is configured there. *)
PlanRecords == [from : Vms, to : Vms, amount : Nat \ {0}, bridgeOnly : BOOLEAN,
                recipient : Recipients, router : BOOLEAN]

NoPlan == [from |-> "evm", to |-> "evm", amount |-> 0, bridgeOnly |-> FALSE,
           recipient |-> "none", router |-> FALSE]

ASSUME PlansAssumption == Plans \subseteq PlanRecords
ASSUME FundsAssumption == Funds \in [Vms -> Nat]

VARIABLES
  plan,         (* the plan of a call                                        *)
  pc,           (* the await a call is suspended at                          *)
  answer,       (* the answer's status, and whether it names the burn and    *)
                (* says recoverable                                          *)
  funds,        (* the operator's USDC on each chain                         *)
  allowance,    (* what TokenMessenger may take of it                        *)
  tempAccount,  (* the operator's token account on Solana exists             *)
  approveTx,    (* the transactions of a call: none, pending, ok, reverted   *)
  burnTx,
  setupTx,
  mintTx,
  message,      (* the burn's message: none, sent, attested                  *)
  received      (* who had it received: nobody, the operator, another        *)

txVars     == <<approveTx, burnTx, setupTx, mintTx>>
walletVars == <<funds, allowance, tempAccount>>
chainVars  == <<walletVars, txVars, message, received>>
vars       == <<plan, pc, answer, chainVars>>

From(t)   == plan[t].from
To(t)     == plan[t].to
Amount(t) == plan[t].amount

(* The awaits, in their order; at those from setup on USDC was burnt.      *)
SourceAwaits == {"trustline", "balance", "approve", "approveWait", "burn", "burnWait"}
MintAwaits   == {"setup", "setupWait", "mint", "mintWait"}
Awaits       == SourceAwaits \union {"attest"} \union MintAwaits

TxStates == {"none", "pending", "ok", "reverted"}

Answered(status, burn, recoverable) ==
  [status |-> status, burn |-> burn, recoverable |-> recoverable]
NoAnswer == Answered("none", FALSE, FALSE)

Goto(t, label) == pc' = [pc EXCEPT ![t] = label]

Return(t, status, burn, recoverable) ==
  /\ answer' = [answer EXCEPT ![t] = Answered(status, burn, recoverable)]
  /\ Goto(t, "answered")

(* An approval is a wallet's first await on Stellar, which does not look   *)
(* at the balance.                                                         *)
FirstAwait(from) == IF from = "soroban" THEN "approve" ELSE "balance"

(* Whom the message mints to: a router takes a plan's USDC unless the      *)
(* protocol is a transfer; Solana always mints to the operator's account.  *)
MintRecipient(p) ==
  CASE p.to = "evm" -> IF p.bridgeOnly /\ p.recipient # "none" THEN "recipient"
                       ELSE IF p.router THEN "router" ELSE "operator"
    [] p.to = "svm" -> "operator"
    [] p.to = "soroban" -> IF p.recipient # "none" /\ p.bridgeOnly THEN "recipient" ELSE "operator"

Init ==
  /\ plan = [t \in Transfers |-> NoPlan]
  /\ pc = [t \in Transfers |-> "idle"]
  /\ answer = [t \in Transfers |-> NoAnswer]
  /\ funds = Funds
  /\ allowance = [vm \in Vms |-> 0]
  /\ tempAccount \in BOOLEAN
  /\ approveTx = [t \in Transfers |-> "none"]
  /\ burnTx = [t \in Transfers |-> "none"]
  /\ setupTx = [t \in Transfers |-> "none"]
  /\ mintTx = [t \in Transfers |-> "none"]
  /\ message = [t \in Transfers |-> "none"]
  /\ received = [t \in Transfers |-> "nobody"]
-----------------------------------------------------------------------------
(* Before the burn *)

(* A recipient that is no address of the destination; only the two chains  *)
(* that are not EVM ones look at it.                                       *)
BadRecipient(p) == p.to # "evm" /\ p.recipient = "invalid"

(* Without a recipient Stellar's USDC is the operator's.                   *)
NeedsTrustline(p) == p.to = "soroban" /\ p.recipient = "none"

Problems == {"none", "missing", "thrown"}

(* Faulty variant: the refusal does not return. *)
BeginAndGoOn(t, p, problem) ==
  /\ pc[t] = "idle"
  /\ plan' = [plan EXCEPT ![t] = p]
  /\ answer' = [answer EXCEPT ![t] =
       IF BadRecipient(p) \/ problem # "none" THEN Answered("failed", FALSE, TRUE) ELSE NoAnswer]
  /\ Goto(t, IF NeedsTrustline(p) THEN "trustline" ELSE FirstAwait(p.from))
  /\ UNCHANGED chainVars

(* The call is refused, or the mint recipient is settled and the first     *)
(* await reached.  A problem is a contract the chain's configuration lacks *)
(* or an address that cannot be decoded, which throws.  The operator's     *)
(* keys are set.                                                           *)
Begin(t, p, problem) ==
  /\ pc[t] = "idle"
  /\ plan' = [plan EXCEPT ![t] = p]
  /\ IF BadRecipient(p) \/ problem # "none"
       THEN Return(t, "failed", FALSE, ~BadRecipient(p) /\ problem = "thrown")
       ELSE Goto(t, IF NeedsTrustline(p) THEN "trustline" ELSE FirstAwait(p.from))
            /\ UNCHANGED answer
  /\ UNCHANGED chainVars

(* ensureStellarTrustline, for the operator; whatever comes of it.         *)
EnsureTrustline(t) ==
  /\ pc[t] = "trustline"
  /\ Goto(t, FirstAwait(From(t)))
  /\ UNCHANGED <<plan, answer, chainVars>>

ReadBalance(t) ==
  /\ pc[t] = "balance"
  /\ IF funds[From(t)] < Amount(t)
       THEN Return(t, "failed", FALSE, From(t) = "svm")
       ELSE Goto(t, IF From(t) = "evm" THEN "approve" ELSE "burn") /\ UNCHANGED answer
  /\ UNCHANGED <<plan, chainVars>>

(* An EVM source keeps an allowance that is enough; Stellar always sets    *)
(* one.                                                                    *)
Approve(t) ==
  /\ pc[t] = "approve"
  /\ IF From(t) = "evm" /\ allowance["evm"] >= Amount(t)
       THEN Goto(t, "burn") /\ UNCHANGED approveTx
       ELSE approveTx' = [approveTx EXCEPT ![t] = "pending"] /\ Goto(t, "approveWait")
  /\ UNCHANGED <<plan, answer, walletVars, burnTx, setupTx, mintTx, message, received>>

(* The receipt of the approval; only Stellar's status is looked at.        *)
ApproveReceipt(t) ==
  /\ pc[t] = "approveWait" /\ approveTx[t] \in {"ok", "reverted"}
  /\ From(t) = "soroban" => approveTx[t] = "ok"
  /\ Goto(t, "burn")
  /\ UNCHANGED <<plan, answer, chainVars>>
-----------------------------------------------------------------------------
(* The burn *)

BurnPossible(t) ==
  /\ funds[From(t)] >= Amount(t)
  /\ From(t) # "svm" => allowance[From(t)] >= Amount(t)

BurnSent(t) ==
  /\ pc[t] = "burn" /\ BurnPossible(t)
  /\ burnTx' = [burnTx EXCEPT ![t] = "pending"]
  /\ Goto(t, "burnWait")
  /\ UNCHANGED <<plan, answer, walletVars, approveTx, setupTx, mintTx, message, received>>

(* Each sender simulates the call first and throws when that fails.        *)
SendBurn(t)        == From(t) = "evm" /\ BurnSent(t)
SendSolanaBurn(t)  == From(t) = "svm" /\ BurnSent(t)
SendStellarBurn(t) == From(t) = "soroban" /\ BurnSent(t)

BurnReceipt(t) ==
  /\ pc[t] = "burnWait" /\ burnTx[t] = "ok"
  /\ Goto(t, "attest")
  /\ UNCHANGED <<plan, answer, chainVars>>

(* The status of an EVM receipt is not looked at, but a burn that reverted *)
(* has no MessageSent event.                                               *)
BurnWithoutMessage(t) ==
  /\ pc[t] = "burnWait" /\ From(t) = "evm" /\ burnTx[t] = "reverted"
  /\ Return(t, "pending", TRUE, FALSE)
  /\ UNCHANGED <<plan, chainVars>>

(* Polling Iris, which answers by the burn's hash; accepted: the decoded   *)
(* message matches the plan and the destination is configured.             *)
AttestationSeen(t, accepted) ==
  /\ pc[t] = "attest" /\ message[t] = "attested"
  /\ IF accepted
       THEN Goto(t, IF To(t) = "svm" THEN "setup" ELSE "mint") /\ UNCHANGED answer
       ELSE Return(t, "failed", TRUE, FALSE)
  /\ UNCHANGED <<plan, chainVars>>

(* Faulty variant: the poll has no deadline. *)
AttestationTimeoutNever(t) ==
  /\ pc[t] = "attest" /\ message[t] # "attested"
  /\ UNCHANGED vars

(* 20 minutes later the last poll did not find it (poll and deadline are   *)
(* one step).                                                              *)
AttestationTimeout(t) ==
  /\ pc[t] = "attest" /\ message[t] # "attested"
  /\ Return(t, "pending", TRUE, FALSE)
  /\ UNCHANGED <<plan, chainVars>>
-----------------------------------------------------------------------------
(* The mint *)

(* receiveOnSolana creates the account it mints to when it finds none.     *)
SetUpSolana(t) ==
  /\ pc[t] = "setup"
  /\ IF tempAccount
       THEN Goto(t, "mint") /\ UNCHANGED setupTx
       ELSE setupTx' = [setupTx EXCEPT ![t] = "pending"] /\ Goto(t, "setupWait")
  /\ UNCHANGED <<plan, answer, walletVars, approveTx, burnTx, mintTx, message, received>>

SolanaIsSetUp(t) ==
  /\ pc[t] = "setupWait" /\ setupTx[t] = "ok"
  /\ Goto(t, "mint")
  /\ UNCHANGED <<plan, answer, chainVars>>

MintPossible(t) == received[t] = "nobody" /\ (To(t) = "svm" => tempAccount)

MintSent(t) ==
  /\ pc[t] = "mint" /\ MintPossible(t)
  /\ mintTx' = [mintTx EXCEPT ![t] = "pending"]
  /\ Goto(t, "mintWait")
  /\ UNCHANGED <<plan, answer, walletVars, approveTx, burnTx, setupTx, message, received>>

(* receiveMessage, receiveOnSolana and receiveOnStellar: the call that     *)
(* mints is simulated, as the burn is.                                     *)
ReceiveMessage(t)   == To(t) = "evm" /\ MintSent(t)
ReceiveOnSolana(t)  == To(t) = "svm" /\ MintSent(t)
ReceiveOnStellar(t) == To(t) = "soroban" /\ MintSent(t)

(* On an EVM chain the receipt's status is not looked at.                  *)
MintReceipt(t) ==
  /\ pc[t] = "mintWait" /\ mintTx[t] \in {"ok", "reverted"}
  /\ Return(t, IF To(t) = "evm" \/ mintTx[t] = "ok" THEN "submitted" ELSE "pending", TRUE, FALSE)
  /\ UNCHANGED <<plan, chainVars>>

(* Faulty variant: the catch forgets to say recoverable. *)
ThrownUnflagged(t) ==
  /\ IF pc[t] \in MintAwaits /\ To(t) # "evm"
       THEN Return(t, "pending", TRUE, FALSE)
       ELSE Return(t, "failed", FALSE, FALSE)
  /\ UNCHANGED <<plan, chainVars>>

(* What comes of an exception.  The catch of executeBridge, and its answer *)
(* to a failed burn on Solana or Stellar, know no burn; the receivers on   *)
(* Solana and Stellar catch for themselves and the burn is named.          *)
Thrown(t) ==
  /\ IF pc[t] \in MintAwaits /\ To(t) # "evm"
       THEN Return(t, "pending", TRUE, FALSE)
       ELSE Return(t, "failed", FALSE, TRUE)
  /\ UNCHANGED <<plan, chainVars>>

(* A node or service that does not answer, or an answer that does not come *)
(* in time, at any await that does not catch for itself.                   *)
Reject(t) ==
  /\ pc[t] \in (SourceAwaits \ {"trustline"}) \union MintAwaits
  /\ Thrown(t)

(* What throws for certain: a simulation or a confirmation that failed.    *)
Fail(t) ==
  /\ \/ pc[t] = "approveWait" /\ From(t) = "soroban" /\ approveTx[t] = "reverted"
     \/ pc[t] = "burn" /\ ~BurnPossible(t)
     \/ pc[t] = "burnWait" /\ From(t) # "evm" /\ burnTx[t] = "reverted"
     \/ pc[t] = "setupWait" /\ setupTx[t] = "reverted"
     \/ pc[t] = "mint" /\ ~MintPossible(t)
  /\ Thrown(t)
-----------------------------------------------------------------------------
(* The chains *)

(* Faulty variant: the approval adds to the allowance. *)
ApproveMinedAdds(t) ==
  /\ approveTx[t] = "pending"
  /\ approveTx' = [approveTx EXCEPT ![t] = "ok"]
  /\ allowance' = [allowance EXCEPT ![From(t)] = @ + Amount(t)]
  /\ UNCHANGED <<plan, pc, answer, funds, tempAccount, burnTx, setupTx, mintTx, message, received>>

ApproveMined(t) ==
  /\ approveTx[t] = "pending"
  /\ \/ /\ approveTx' = [approveTx EXCEPT ![t] = "ok"]
        /\ allowance' = [allowance EXCEPT ![From(t)] = Amount(t)]
     \/ /\ approveTx' = [approveTx EXCEPT ![t] = "reverted"]
        /\ UNCHANGED allowance
  /\ UNCHANGED <<plan, pc, answer, funds, tempAccount, burnTx, setupTx, mintTx, message, received>>

BurnMined(t) ==
  /\ burnTx[t] = "pending"
  /\ \/ /\ BurnPossible(t)
        /\ burnTx' = [burnTx EXCEPT ![t] = "ok"]
        /\ funds' = [funds EXCEPT ![From(t)] = @ - Amount(t)]
        /\ allowance' = IF From(t) = "svm" THEN allowance
                        ELSE [allowance EXCEPT ![From(t)] = @ - Amount(t)]
        /\ message' = [message EXCEPT ![t] = "sent"]
     \/ /\ burnTx' = [burnTx EXCEPT ![t] = "reverted"]
        /\ UNCHANGED <<funds, allowance, message>>
  /\ UNCHANGED <<plan, pc, answer, tempAccount, approveTx, setupTx, mintTx, received>>

Attest(t) ==
  /\ message[t] = "sent"
  /\ message' = [message EXCEPT ![t] = "attested"]
  /\ UNCHANGED <<plan, pc, answer, walletVars, txVars, received>>

(* An account is created once.                                             *)
SetupMined(t) ==
  /\ setupTx[t] = "pending"
  /\ \/ /\ ~tempAccount
        /\ tempAccount' = TRUE
        /\ setupTx' = [setupTx EXCEPT ![t] = "ok"]
     \/ /\ setupTx' = [setupTx EXCEPT ![t] = "reverted"]
        /\ UNCHANGED tempAccount
  /\ UNCHANGED <<plan, pc, answer, funds, allowance, approveTx, burnTx, mintTx, message, received>>

(* A message is received once.                                             *)
MintMined(t) ==
  /\ mintTx[t] = "pending"
  /\ \/ /\ MintPossible(t)
        /\ mintTx' = [mintTx EXCEPT ![t] = "ok"]
        /\ received' = [received EXCEPT ![t] = "operator"]
     \/ /\ mintTx' = [mintTx EXCEPT ![t] = "reverted"]
        /\ UNCHANGED received
  /\ UNCHANGED <<plan, pc, answer, walletVars, approveTx, burnTx, setupTx, message>>

(* destinationCaller is 0 but for Stellar: somebody else relays.           *)
Relay(t) ==
  /\ message[t] = "attested" /\ To(t) # "soroban" /\ MintPossible(t)
  /\ received' = [received EXCEPT ![t] = "another"]
  /\ UNCHANGED <<plan, pc, answer, walletVars, txVars, message>>

(* The process exits and its calls are gone. *)
Exit ==
  /\ pc' = [t \in Transfers |-> IF pc[t] \in Awaits THEN "dead" ELSE pc[t]]
  /\ UNCHANGED <<plan, answer, chainVars>>
-----------------------------------------------------------------------------
(* What a call does next when nothing it awaits lets it down.              *)
Proceed(t) ==
  \/ EnsureTrustline(t)
  \/ ReadBalance(t)
  \/ Approve(t)
  \/ ApproveReceipt(t)
  \/ SendBurn(t)
  \/ SendSolanaBurn(t)
  \/ SendStellarBurn(t)
  \/ BurnReceipt(t)
  \/ BurnWithoutMessage(t)
  \/ \E accepted \in BOOLEAN : AttestationSeen(t, accepted)
  \/ AttestationTimeout(t)
  \/ SetUpSolana(t)
  \/ SolanaIsSetUp(t)
  \/ ReceiveMessage(t)
  \/ ReceiveOnSolana(t)
  \/ ReceiveOnStellar(t)
  \/ MintReceipt(t)
  \/ Fail(t)

(* Transactions that were sent are mined; that the rest happens nobody     *)
(* promises.                                                               *)
Mined(t) == ApproveMined(t) \/ BurnMined(t) \/ SetupMined(t) \/ MintMined(t)

CallNext ==
  \E t \in Transfers :
    \/ \E p \in Plans, problem \in Problems : Begin(t, p, problem)
    \/ Proceed(t)
    \/ Reject(t)
    \/ Mined(t)
    \/ Attest(t)
    \/ Relay(t)

Next == CallNext \/ Exit

Spec == Init /\ [][Next]_vars

(* The event loop runs every call whose await ended, and what was sent is  *)
(* mined.  Nothing need ever reject or be attested.                        *)
FairSpec ==
  /\ Spec
  /\ \A t \in Transfers : WF_vars(Proceed(t)) /\ WF_vars(Mined(t))
-----------------------------------------------------------------------------
TypeOK ==
  /\ plan \in [Transfers -> Plans \union {NoPlan}]
  /\ pc \in [Transfers -> Awaits \union {"idle", "answered", "dead"}]
  /\ answer \in [Transfers -> [status : {"none", "submitted", "pending", "failed"},
                               burn : BOOLEAN, recoverable : BOOLEAN]]
  /\ funds \in [Vms -> Nat]
  /\ allowance \in [Vms -> Nat]
  /\ tempAccount \in BOOLEAN
  /\ approveTx \in [Transfers -> TxStates]
  /\ burnTx \in [Transfers -> TxStates]
  /\ setupTx \in [Transfers -> TxStates]
  /\ mintTx \in [Transfers -> TxStates]
  /\ message \in [Transfers -> {"none", "sent", "attested"}]
  /\ received \in [Transfers -> {"nobody", "operator", "another"}]

(* A burn that was sent can be told from the answer: it names the burn or  *)
(* says recoverable.  A failure that says neither took nothing.            *)
BurnIsNamedOrFlagged ==
  \A t \in Transfers :
    answer[t].status # "none" /\ burnTx[t] # "none" => answer[t].burn \/ answer[t].recoverable

(* Who is told submitted finds the USDC on the destination, whether the    *)
(* operator or another got it there first; only an EVM mint that reverted, *)
(* whose receipt is not read, may leave it behind.                         *)
SubmittedIsReceived ==
  \A t \in Transfers :
    answer[t].status = "submitted" =>
      received[t] # "nobody" \/ (To(t) = "evm" /\ mintTx[t] = "reverted")

(* What a call is answered can be relied on: no burn is hidden, and        *)
(* submitted means received.                                               *)
AnswersAreTrue == BurnIsNamedOrFlagged /\ SubmittedIsReceived

(* However calls interleave, TokenMessenger is never left with more than   *)
(* one of them asked for.                                                  *)
AllowanceIsOneBurn ==
  \A vm \in Vms : allowance[vm] # 0 =>
    \E t \in Transfers : From(t) = vm /\ approveTx[t] = "ok" /\ allowance[vm] <= Amount(t)

(* What the caller can tell from an answer.  A failure that neither names  *)
(* a burn nor says recoverable means that none was sent.                   *)
Told(t) ==
  CASE answer[t].status = "none" -> "nothing"
    [] answer[t].status = "submitted" -> "submitted"
    [] answer[t].status \in {"pending", "failed"} ->
         IF answer[t].burn \/ answer[t].recoverable THEN "atRisk" ELSE "untouched"

(* A burn that was sent asks for the funds; they are taken when it is      *)
(* mined, be that after the answer, and never when it reverts.             *)
Wire(t) ==
  IF received[t] # "nobody" THEN "landed"
  ELSE CASE burnTx[t] = "none" -> "none"
         [] burnTx[t] = "pending" -> "asked"
         [] burnTx[t] = "reverted" -> "refused"
         [] burnTx[t] = "ok" -> "taken"

(* The service keeps what the orchestrator relies on. *)
Bridge == INSTANCE BridgeTransfer WITH told <- [t \in Transfers |-> Told(t)],
                                       wire <- [t \in Transfers |-> Wire(t)]
ImplementsBridgeTransfer == Bridge!BridgeSpec

(* Every call that was made is answered, unless the process exits.         *)
EveryCallIsAnswered ==
  \A t \in Transfers : (pc[t] # "idle") ~> (answer[t].status # "none" \/ pc[t] = "dead")
=============================================================================
