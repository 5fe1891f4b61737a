----------------------- MODULE GatewayTransfer_proofs -----------------------
(***************************************************************************)
(* Proofs about GatewayTransfer, for every set of flows, users and quotes  *)
(* and whatever the users have in the beginning.                           *)
(***************************************************************************)
EXTENDS GatewayTransfer, TLAPS

(* A quote's amounts are naturals, also before one was selected.           *)
LEMMA QuoteAmounts ==
  ASSUME NEW q \in Quotes \union {NoQuote}
  PROVE  /\ q.value \in Nat /\ q.quoted \in Nat /\ q.estimated \in Nat
         /\ q.arc \in BOOLEAN /\ MaxFee(q) \in Nat /\ DepositAmount(q) \in Nat
         /\ \A balance \in Nat :
              /\ Missing(q, balance) \in Nat
              /\ balance + Missing(q, balance) >= DepositAmount(q)
<1>1. /\ q.value \in Nat /\ q.quoted \in Nat /\ q.estimated \in Nat /\ q.arc \in BOOLEAN
  <2>1. CASE q \in Quotes
    <3>1. q \in QuoteRecords
      BY <2>1, QuotesAssumption
    <3> QED
      BY <3>1 DEF QuoteRecords
  <2>2. CASE q = NoQuote
    BY <2>2 DEF NoQuote
  <2> QED
    BY <2>1, <2>2
<1>2. MaxFee(q) \in Nat
  BY <1>1, FeesAssumption DEF MaxFee
<1>3. DepositAmount(q) \in Nat
  BY <1>1, <1>2, FeesAssumption DEF DepositAmount
<1> QED
  BY <1>1, <1>2, <1>3 DEF Missing

LEMMA FlowAmounts ==
  ASSUME TypeOK, NEW t \in Transfers
  PROVE  /\ quote[t] \in Quotes \union {NoQuote} /\ existing[t] \in Nat
         /\ Owner(t) \in Depositors /\ quote[t].value \in Nat /\ MaxFee(quote[t]) \in Nat
         /\ Delta(t) \in Nat /\ existing[t] + Delta(t) >= DepositAmount(quote[t])
<1>1. quote[t] \in Quotes \union {NoQuote} /\ existing[t] \in Nat /\ Owner(t) \in Depositors
  BY DepositorsAssumption DEF TypeOK, Owner
<1> QED
  BY <1>1, QuoteAmounts DEF Delta

(* The initial states have the types.                                      *)
LEMMA TypeInit == Init => TypeOK
<1> SUFFICES ASSUME Init PROVE TypeOK
  OBVIOUS
<1>1. PICK start \in [Depositors -> Funds] :
        /\ wallet = [d \in Depositors |-> start[d].wallet]
        /\ available = [d \in Depositors |-> start[d].gateway]
  BY DEF Init
<1>2. \A d \in Depositors : start[d].wallet \in Nat /\ start[d].gateway \in Nat
  BY <1>1, FundsAssumption
<1>3. wallet \in [Depositors -> Nat] /\ available \in [Depositors -> Nat]
  BY <1>1, <1>2
<1> QED
  BY <1>3 DEF Init, TypeOK, TxStates, NoAnswer

(* What a return and a move to another await do to the types.              *)
LEMMA ReturnTypes ==
  ASSUME TypeOK, NEW t \in Transfers, NEW status \in {"submitted", "bridge_failed", "thrown"},
         NEW transferId \in BOOLEAN, Return(t, status, transferId),
         UNCHANGED <<pageVars, txVars, chainVars, available, circleVars, disturbed>>
  PROVE  TypeOK'
<1>1. [status |-> status, transferId |-> transferId] \in
        [status : {"none", "submitted", "bridge_failed", "thrown"}, transferId : BOOLEAN]
  BY Zenon
<1>2. answer' \in [Transfers -> [status : {"none", "submitted", "bridge_failed", "thrown"},
                               transferId : BOOLEAN]]
  BY <1>1, Zenon DEF TypeOK, Return
<1>3. pc' \in [Transfers -> {"idle"} \union FrontAwaits \union ServiceAwaits \union Ends]
  BY Zenon DEF TypeOK, Return, Goto, Ends
<1> QED
  BY <1>2, <1>3, Zenon DEF TypeOK, pageVars, txVars, chainVars, circleVars

Labels == FrontAwaits \union ServiceAwaits \union Ends

LEMMA GotoTypes ==
  ASSUME TypeOK, NEW t \in Transfers, NEW label \in Labels, Goto(t, label)
  PROVE  pc' \in [Transfers -> {"idle"} \union FrontAwaits \union ServiceAwaits \union Ends]
  BY Zenon DEF TypeOK, Goto, Labels

(* Each step keeps the types; no wallet and no balance is overdrawn.       *)
LEMMA TypeStep ==
  ASSUME TypeOK, [Next]_vars
  PROVE  TypeOK'
<1>1. ASSUME NEW t \in Transfers, NEW q \in Quotes, Execute(t, q)
      PROVE  TypeOK'
  <2>1. PICK label \in Labels : Goto(t, label)
    BY <1>1, Zenon DEF Execute, Labels, FrontAwaits, ServiceAwaits, Ends
  <2>2. pc' \in [Transfers -> {"idle"} \union FrontAwaits \union ServiceAwaits \union Ends]
    BY <2>1, GotoTypes
  <2> QED
    BY <1>1, <2>2, FlowAmounts DEF Execute, TypeOK, TxStates, vars, pageVars, txVars,
       chainVars, circleVars
<1>2. ASSUME NEW t \in Transfers, SendTransfer(t)
      PROVE  TypeOK'
  <2>1. PICK label \in Labels : Goto(t, label)
    BY <1>2, Zenon DEF SendTransfer, Labels, FrontAwaits, ServiceAwaits, Ends
  <2>2. pc' \in [Transfers -> {"idle"} \union FrontAwaits \union ServiceAwaits \union Ends]
    BY <2>1, GotoTypes
  <2> QED
    BY <1>2, <2>2, FlowAmounts DEF SendTransfer, TypeOK, TxStates, vars, pageVars, txVars,
       chainVars, circleVars
<1>3. ASSUME NEW t \in Transfers, NEW answered \in BOOLEAN, ReadGateway(t, answered)
      PROVE  TypeOK'
  <2>1. PICK label \in Labels : Goto(t, label)
    BY <1>3, Zenon DEF ReadGateway, Labels, FrontAwaits, ServiceAwaits, Ends
  <2>2. pc' \in [Transfers -> {"idle"} \union FrontAwaits \union ServiceAwaits \union Ends]
    BY <2>1, GotoTypes
  <2> QED
    BY <1>3, <2>2, FlowAmounts DEF ReadGateway, TypeOK, TxStates, vars, pageVars, txVars,
       chainVars, circleVars
<1>4. ASSUME NEW t \in Transfers, Approve(t)
      PROVE  TypeOK'
  <2>1. PICK label \in Labels : Goto(t, label)
    BY <1>4, Zenon DEF Approve, Labels, FrontAwaits, ServiceAwaits, Ends
  <2>2. pc' \in [Transfers -> {"idle"} \union FrontAwaits \union ServiceAwaits \union Ends]
    BY <2>1, GotoTypes
  <2> QED
    BY <1>4, <2>2, FlowAmounts DEF Approve, TypeOK, TxStates, vars, pageVars, txVars,
       chainVars, circleVars
<1>5. ASSUME NEW t \in Transfers, ApproveReceipt(t)
      PROVE  TypeOK'
  <2>1. PICK label \in Labels : Goto(t, label)
    BY <1>5, Zenon DEF ApproveReceipt, Labels, FrontAwaits, ServiceAwaits, Ends
  <2>2. pc' \in [Transfers -> {"idle"} \union FrontAwaits \union ServiceAwaits \union Ends]
    BY <2>1, GotoTypes
  <2> QED
    BY <1>5, <2>2, FlowAmounts DEF ApproveReceipt, TypeOK, TxStates, vars, pageVars, txVars,
       chainVars, circleVars
<1>6. ASSUME NEW t \in Transfers, Deposit(t)
      PROVE  TypeOK'
  <2>1. PICK label \in Labels : Goto(t, label)
    BY <1>6, Zenon DEF Deposit, Labels, FrontAwaits, ServiceAwaits, Ends
  <2>2. pc' \in [Transfers -> {"idle"} \union FrontAwaits \union ServiceAwaits \union Ends]
    BY <2>1, GotoTypes
  <2> QED
    BY <1>6, <2>2, FlowAmounts DEF Deposit, TypeOK, TxStates, vars, pageVars, txVars,
       chainVars, circleVars
<1>7. ASSUME NEW t \in Transfers, DepositReceipt(t)
      PROVE  TypeOK'
  <2>1. PICK label \in Labels : Goto(t, label)
    BY <1>7, Zenon DEF DepositReceipt, Labels, FrontAwaits, ServiceAwaits, Ends
  <2>2. pc' \in [Transfers -> {"idle"} \union FrontAwaits \union ServiceAwaits \union Ends]
    BY <2>1, GotoTypes
  <2> QED
    BY <1>7, <2>2, FlowAmounts DEF DepositReceipt, TypeOK, TxStates, vars, pageVars, txVars,
       chainVars, circleVars
<1>8. ASSUME NEW t \in Transfers, NEW reachesService \in BOOLEAN, PostIntent(t, reachesService)
      PROVE  TypeOK'
  <2>1. PICK label \in Labels : Goto(t, label)
    BY <1>8, Zenon DEF PostIntent, Labels, ServiceAwaits, Ends
  <2>2. pc' \in [Transfers -> {"idle"} \union FrontAwaits \union ServiceAwaits \union Ends]
    BY <2>1, GotoTypes
  <2>3. disturbed' \in [Transfers -> BOOLEAN]
    BY <1>8, Zenon DEF PostIntent, Disturb, TypeOK
  <2>4. available' \in [Depositors -> Nat]
    <3>1. CASE available[Owner(t)] < X402Fee
      BY <1>8, <3>1 DEF PostIntent, TypeOK
    <3>2. CASE ~(available[Owner(t)] < X402Fee)
      <4>1. available[Owner(t)] - X402Fee \in Nat
        BY <3>2, FlowAmounts, FeesAssumption DEF TypeOK
      <4>2. available' = [available EXCEPT ![Owner(t)] = @ - X402Fee]
        BY <1>8, <3>2, Zenon DEF PostIntent
      <4> QED
        BY <4>1, <4>2 DEF TypeOK
    <3> QED
      BY <3>1, <3>2
  <2> QED
    BY <1>8, <2>2, <2>3, <2>4 DEF PostIntent, TypeOK, pageVars, txVars, chainVars, circleVars
<1>9. ASSUME NEW t \in Transfers, Abandon(t)
      PROVE  TypeOK'
  <2>1. PICK label \in Labels : Goto(t, label)
    BY <1>9, Zenon DEF Abandon, Labels, FrontAwaits, ServiceAwaits, Ends
  <2>2. pc' \in [Transfers -> {"idle"} \union FrontAwaits \union ServiceAwaits \union Ends]
    BY <2>1, GotoTypes
  <2> QED
    BY <1>9, <2>2, FlowAmounts DEF Abandon, TypeOK, TxStates, vars, pageVars, txVars,
       chainVars, circleVars
<1>10. ASSUME NEW t \in Transfers, FullBalanceSeen(t)
      PROVE  TypeOK'
  <2>1. PICK label \in Labels : Goto(t, label)
    BY <1>10, Zenon DEF FullBalanceSeen, PostTransfer, Labels, FrontAwaits, ServiceAwaits, Ends
  <2>2. pc' \in [Transfers -> {"idle"} \union FrontAwaits \union ServiceAwaits \union Ends]
    BY <2>1, GotoTypes
  <2> QED
    BY <1>10, <2>2, FlowAmounts DEF FullBalanceSeen, PostTransfer, TypeOK, TxStates, vars,
       pageVars, txVars, chainVars, circleVars
<1>11. ASSUME NEW t \in Transfers, FullBalanceTimeout(t)
      PROVE  TypeOK'
  <2>1. PICK label \in Labels : Goto(t, label)
    BY <1>11, Zenon DEF FullBalanceTimeout, Labels, FrontAwaits, ServiceAwaits, Ends
  <2>2. pc' \in [Transfers -> {"idle"} \union FrontAwaits \union ServiceAwaits \union Ends]
    BY <2>1, GotoTypes
  <2> QED
    BY <1>11, <2>2, FlowAmounts DEF FullBalanceTimeout, TypeOK, TxStates, vars, pageVars,
       txVars, chainVars, circleVars
<1>12. ASSUME NEW t \in Transfers, MinBalanceSeen(t)
      PROVE  TypeOK'
  <2>1. PICK label \in Labels : Goto(t, label)
    BY <1>12, Zenon DEF MinBalanceSeen, PostTransfer, Labels, FrontAwaits, ServiceAwaits, Ends
  <2>2. pc' \in [Transfers -> {"idle"} \union FrontAwaits \union ServiceAwaits \union Ends]
    BY <2>1, GotoTypes
  <2> QED
    BY <1>12, <2>2, FlowAmounts DEF MinBalanceSeen, PostTransfer, TypeOK, TxStates, vars,
       pageVars, txVars, chainVars, circleVars
<1>13. ASSUME NEW t \in Transfers, MinBalanceTimeout(t)
      PROVE  TypeOK'
  BY <1>13, ReturnTypes, Zenon DEF MinBalanceTimeout
<1>14. ASSUME NEW t \in Transfers, Response(t)
      PROVE  TypeOK'
  <2>1. CASE response[t] = "named"
    <3>1. pc' \in [Transfers -> {"idle"} \union FrontAwaits \union ServiceAwaits \union Ends]
      <4>1. Goto(t, "poll")
        BY <1>14, <2>1, Zenon DEF Response
      <4> QED
        BY <4>1, GotoTypes DEF Labels, ServiceAwaits
    <3> QED
      BY <1>14, <2>1, <3>1, Zenon DEF Response, TypeOK, pageVars, txVars, chainVars, circleVars
  <2>2. CASE response[t] # "named"
    BY <1>14, <2>2, ReturnTypes, Zenon DEF Response
  <2> QED
    BY <2>1, <2>2
<1>15. ASSUME NEW t \in Transfers, Reject(t)
      PROVE  TypeOK'
  BY <1>15, ReturnTypes, Zenon DEF Reject
<1>16. ASSUME NEW t \in Transfers, StatusSeen(t)
      PROVE  TypeOK'
  BY <1>16, ReturnTypes, Zenon DEF StatusSeen
<1>17. ASSUME NEW t \in Transfers, StatusTimeout(t)
      PROVE  TypeOK'
  BY <1>17, ReturnTypes, Zenon DEF StatusTimeout
<1>18. ASSUME NEW t \in Transfers, TransferMined(t)
      PROVE  TypeOK'
  <2>1. transferTx' \in [Transfers -> TxStates]
    BY <1>18 DEF TransferMined, TypeOK, TxStates
  <2>2. wallet' \in [Depositors -> Nat]
    <3>1. CASE UNCHANGED wallet
      BY <3>1 DEF TypeOK
    <3>2. CASE wallet[Owner(t)] >= quote[t].value
               /\ wallet' = [wallet EXCEPT ![Owner(t)] = @ - quote[t].value]
      <4>1. wallet[Owner(t)] - quote[t].value \in Nat
        BY <3>2, FlowAmounts DEF TypeOK
      <4> QED
        BY <3>2, <4>1 DEF TypeOK
    <3> QED
      BY <1>18, <3>1, <3>2 DEF TransferMined
  <2> QED
    BY <1>18, <2>1, <2>2 DEF TransferMined, TypeOK, pageVars, circleVars
<1>19. ASSUME NEW t \in Transfers, ApproveMined(t)
      PROVE  TypeOK'
  BY <1>19, FlowAmounts DEF ApproveMined, TypeOK, TxStates, vars, pageVars, txVars, chainVars,
     circleVars
<1>20. ASSUME NEW t \in Transfers, DepositMined(t)
      PROVE  TypeOK'
  <2>1. depositTx' \in [Transfers -> TxStates \union {"indexed"}]
    BY <1>20 DEF DepositMined, TypeOK, TxStates
  <2>2. wallet' \in [Depositors -> Nat] /\ allowance' \in [Depositors -> Nat]
    <3>1. CASE UNCHANGED chainVars
      BY <3>1 DEF TypeOK, chainVars
    <3>2. CASE /\ DepositPossible(t)
               /\ wallet' = [wallet EXCEPT ![Owner(t)] = @ - Delta(t)]
               /\ allowance' = [allowance EXCEPT ![Owner(t)] = @ - Delta(t)]
      <4>1. wallet[Owner(t)] - Delta(t) \in Nat /\ allowance[Owner(t)] - Delta(t) \in Nat
        BY <3>2, FlowAmounts DEF DepositPossible, TypeOK
      <4> QED
        BY <3>2, <4>1 DEF TypeOK
    <3> QED
      BY <1>20, <3>1, <3>2 DEF DepositMined
  <2> QED
    BY <1>20, <2>1, <2>2 DEF DepositMined, TypeOK, pageVars, circleVars
<1>21. ASSUME NEW t \in Transfers, Index(t)
      PROVE  TypeOK'
  BY <1>21, FlowAmounts DEF Index, TypeOK, TxStates, vars, pageVars, txVars, chainVars,
     circleVars
<1>22. ASSUME NEW t \in Transfers, NEW fee \in 0..MaxFee(quote[t]),
              NEW reply \in {"named", "unnamed"}, Accept(t, fee, reply)
      PROVE  TypeOK'
  BY <1>22, FlowAmounts DEF Accept, TypeOK, TxStates, Disturb, vars, pageVars, txVars,
     chainVars, circleVars
<1>23. ASSUME NEW t \in Transfers, Refuse(t)
      PROVE  TypeOK'
  BY <1>23, FlowAmounts DEF Refuse, TypeOK, TxStates, vars, pageVars, txVars, chainVars,
     circleVars
<1>24. ASSUME NEW t \in Transfers, NEW outcome \in {"confirmed", "failed"}, Settle(t, outcome)
      PROVE  TypeOK'
  BY <1>24, FlowAmounts DEF Settle, TypeOK, TxStates, vars, pageVars, txVars, chainVars,
     circleVars
<1>25. CASE Exit
  BY <1>25 DEF Exit, TypeOK, Ends, ServiceAwaits, FrontAwaits, vars, pageVars, txVars,
     chainVars, circleVars
<1>26. CASE UNCHANGED vars
  BY <1>26 DEF TypeOK, vars, pageVars, txVars, chainVars, circleVars
<1> QED
  BY <1>1, <1>2, <1>3, <1>4, <1>5, <1>6, <1>7, <1>8, <1>9, <1>10, <1>11, <1>12, <1>13, <1>14,
     <1>15, <1>16, <1>17, <1>18, <1>19, <1>20, <1>21, <1>22, <1>23, <1>24, <1>25, <1>26
     DEF Next, FlowNext, Page, Proceed, Outside, NoResponse
-----------------------------------------------------------------------------
(* What a call's await and its answer mean for its transfer at Gateway.    *)
Story(t) ==
  /\ pc[t] = "answered" <=> answer[t].status # "none"
  /\ pc[t] \in {"response", "poll", "answered", "dead"} \/ gateway[t] = "none"
  /\ pc[t] = "response" => gateway[t] # "none"
  /\ response[t] = "none" <=> gateway[t] \in {"none", "posted"}
  /\ response[t] = "refused" <=> gateway[t] = "refused"
  /\ pc[t] = "poll" => response[t] = "named"
  /\ answer[t].status = "submitted" => gateway[t] = "confirmed"
  /\ answer[t].status = "bridge_failed"
       => gateway[t] # "posted" /\ (response[t] = "named" => answer[t].transferId)
  /\ answer[t].status = "thrown" => gateway[t] # "none"

(* Each step keeps everybody's story.                                      *)
LEMMA StoryStep ==
  ASSUME TypeOK, \A t \in Transfers : Story(t), [Next]_vars
  PROVE  (\A t \in Transfers : Story(t))'
<1> SUFFICES ASSUME NEW j \in Transfers
             PROVE  Story(j)'
  OBVIOUS
<1>1. ASSUME NEW t \in Transfers, NEW q \in Quotes, Execute(t, q)
      PROVE  Story(j)'
  BY <1>1 DEF Execute, Story, TypeOK, Goto, FrontAwaits, ServiceAwaits, Ends, TxStates, vars,
     pageVars, txVars, chainVars, circleVars
<1>2. ASSUME NEW t \in Transfers, SendTransfer(t)
      PROVE  Story(j)'
  BY <1>2 DEF SendTransfer, Story, TypeOK, Goto, FrontAwaits, ServiceAwaits, Ends, TxStates,
     vars, pageVars, txVars, chainVars, circleVars
<1>3. ASSUME NEW t \in Transfers, NEW answered \in BOOLEAN, ReadGateway(t, answered)
      PROVE  Story(j)'
  BY <1>3 DEF ReadGateway, Story, TypeOK, Goto, FrontAwaits, ServiceAwaits, Ends, TxStates,
     vars, pageVars, txVars, chainVars, circleVars
<1>4. ASSUME NEW t \in Transfers, Approve(t)
      PROVE  Story(j)'
  BY <1>4 DEF Approve, Story, TypeOK, Goto, FrontAwaits, ServiceAwaits, Ends, TxStates, vars,
     pageVars, txVars, chainVars, circleVars
<1>5. ASSUME NEW t \in Transfers, ApproveReceipt(t)
      PROVE  Story(j)'
  BY <1>5 DEF ApproveReceipt, Story, TypeOK, Goto, FrontAwaits, ServiceAwaits, Ends, TxStates,
     vars, pageVars, txVars, chainVars, circleVars
<1>6. ASSUME NEW t \in Transfers, Deposit(t)
      PROVE  Story(j)'
  BY <1>6 DEF Deposit, Story, TypeOK, Goto, FrontAwaits, ServiceAwaits, Ends, TxStates, vars,
     pageVars, txVars, chainVars, circleVars
<1>7. ASSUME NEW t \in Transfers, DepositReceipt(t)
      PROVE  Story(j)'
  BY <1>7 DEF DepositReceipt, Story, TypeOK, Goto, FrontAwaits, ServiceAwaits, Ends, TxStates,
     vars, pageVars, txVars, chainVars, circleVars
<1>8. ASSUME NEW t \in Transfers, NEW reachesService \in BOOLEAN, PostIntent(t, reachesService)
      PROVE  Story(j)'
  BY <1>8 DEF PostIntent, Story, TypeOK, Goto, FrontAwaits, ServiceAwaits, Ends, TxStates,
     vars, pageVars, txVars, chainVars, circleVars
<1>9. ASSUME NEW t \in Transfers, Abandon(t)
      PROVE  Story(j)'
  BY <1>9 DEF Abandon, Story, TypeOK, Goto, FrontAwaits, ServiceAwaits, Ends, TxStates, vars,
     pageVars, txVars, chainVars, circleVars
<1>10. ASSUME NEW t \in Transfers, FullBalanceSeen(t)
      PROVE  Story(j)'
  BY <1>10 DEF FullBalanceSeen, PostTransfer, Story, TypeOK, Goto, FrontAwaits, ServiceAwaits,
     Ends, TxStates, vars, pageVars, txVars, chainVars, circleVars
<1>11. ASSUME NEW t \in Transfers, FullBalanceTimeout(t)
      PROVE  Story(j)'
  BY <1>11 DEF FullBalanceTimeout, Story, TypeOK, Goto, FrontAwaits, ServiceAwaits, Ends,
     TxStates, vars, pageVars, txVars, chainVars, circleVars
<1>12. ASSUME NEW t \in Transfers, MinBalanceSeen(t)
      PROVE  Story(j)'
  BY <1>12 DEF MinBalanceSeen, PostTransfer, Story, TypeOK, Goto, FrontAwaits, ServiceAwaits,
     Ends, TxStates, vars, pageVars, txVars, chainVars, circleVars
<1>13. ASSUME NEW t \in Transfers, MinBalanceTimeout(t)
      PROVE  Story(j)'
  BY <1>13 DEF MinBalanceTimeout, Story, TypeOK, Return, Goto, FrontAwaits, ServiceAwaits,
     Ends, TxStates, vars, pageVars, txVars, chainVars, circleVars
<1>14. ASSUME NEW t \in Transfers, Response(t)
      PROVE  Story(j)'
  BY <1>14 DEF Response, Story, TypeOK, Return, Goto, FrontAwaits, ServiceAwaits, Ends,
     TxStates, vars, pageVars, txVars, chainVars, circleVars
<1>15. ASSUME NEW t \in Transfers, Reject(t)
      PROVE  Story(j)'
  <2>1. gateway[t] # "none"
    BY <1>15 DEF Reject, Story, TypeOK
  <2>2. CASE j = t
    <3>1. /\ answer'[t].status = "thrown" /\ pc'[t] = "answered"
          /\ pc[t] \in {"response", "poll"} /\ UNCHANGED <<gateway, response>>
      BY <1>15 DEF Reject, Return, Goto, TypeOK, circleVars
    <3>2. gateway'[t] = gateway[t] /\ response'[t] = response[t] /\ Story(t)
      BY <3>1
    <3> QED
      BY <2>1, <2>2, <3>1, <3>2 DEF Story
  <2>3. CASE j # t
    <3>1. answer'[j] = answer[j] /\ pc'[j] = pc[j] /\ UNCHANGED <<gateway, response>>
      BY <1>15, <2>3 DEF Reject, Return, Goto, TypeOK, circleVars
    <3> QED
      BY <3>1 DEF Story
  <2> QED
    BY <2>2, <2>3
<1>16. ASSUME NEW t \in Transfers, StatusSeen(t)
      PROVE  Story(j)'
  <2>1. UNCHANGED <<gateway, response>>
    BY <1>16 DEF StatusSeen, circleVars
  <2>2. CASE j = t
    <3>1. /\ pc[t] = "poll" /\ pc'[t] = "answered"
          /\ \/ gateway[t] = "confirmed" /\ answer'[t].status = "submitted"
             \/ /\ gateway[t] = "failed" /\ answer'[t].status = "bridge_failed"
                /\ answer'[t].transferId
      BY <1>16 DEF StatusSeen, Return, Goto, TypeOK
    <3> QED
      BY <2>1, <2>2, <3>1 DEF Story
  <2>3. CASE j # t
    <3>1. answer'[j] = answer[j] /\ pc'[j] = pc[j]
      BY <1>16, <2>3 DEF StatusSeen, Return, Goto, TypeOK
    <3> QED
      BY <2>1, <3>1 DEF Story
  <2> QED
    BY <2>2, <2>3
<1>17. ASSUME NEW t \in Transfers, StatusTimeout(t)
      PROVE  Story(j)'
  BY <1>17 DEF StatusTimeout, Story, TypeOK, Return, Goto, FrontAwaits, ServiceAwaits, Ends,
     TxStates, vars, pageVars, txVars, chainVars, circleVars
<1>18. ASSUME NEW t \in Transfers, TransferMined(t)
      PROVE  Story(j)'
  BY <1>18 DEF TransferMined, Story, TypeOK, FrontAwaits, ServiceAwaits, Ends, TxStates, vars,
     pageVars, txVars, chainVars, circleVars
<1>19. ASSUME NEW t \in Transfers, ApproveMined(t)
      PROVE  Story(j)'
  BY <1>19 DEF ApproveMined, Story, TypeOK, FrontAwaits, ServiceAwaits, Ends, TxStates, vars,
     pageVars, txVars, chainVars, circleVars
<1>20. ASSUME NEW t \in Transfers, DepositMined(t)
      PROVE  Story(j)'
  BY <1>20 DEF DepositMined, DepositPossible, Story, TypeOK, FrontAwaits, ServiceAwaits, Ends,
     TxStates, vars, pageVars, txVars, chainVars, circleVars
<1>21. ASSUME NEW t \in Transfers, Index(t)
      PROVE  Story(j)'
  BY <1>21 DEF Index, Story, TypeOK, FrontAwaits, ServiceAwaits, Ends, TxStates, vars,
     pageVars, txVars, chainVars, circleVars
<1>22. ASSUME NEW t \in Transfers, NEW fee \in 0..MaxFee(quote[t]),
              NEW reply \in {"named", "unnamed"}, Accept(t, fee, reply)
      PROVE  Story(j)'
  BY <1>22 DEF Accept, Story, TypeOK, FrontAwaits, ServiceAwaits, Ends, TxStates, vars,
     pageVars, txVars, chainVars, circleVars
<1>23. ASSUME NEW t \in Transfers, Refuse(t)
      PROVE  Story(j)'
  BY <1>23 DEF Refuse, Story, TypeOK, FrontAwaits, ServiceAwaits, Ends, TxStates, vars,
     pageVars, txVars, chainVars, circleVars
<1>24. ASSUME NEW t \in Transfers, NEW outcome \in {"confirmed", "failed"}, Settle(t, outcome)
      PROVE  Story(j)'
  BY <1>24 DEF Settle, Story, TypeOK, FrontAwaits, ServiceAwaits, Ends, TxStates, vars,
     pageVars, txVars, chainVars, circleVars
<1>25. CASE Exit
  BY <1>25 DEF Exit, Story, TypeOK, FrontAwaits, ServiceAwaits, Ends, TxStates, vars,
     pageVars, txVars, chainVars, circleVars
<1>26. CASE UNCHANGED vars
  BY <1>26 DEF vars, Story, TypeOK, FrontAwaits, ServiceAwaits, Ends, TxStates, pageVars,
     txVars, chainVars, circleVars
<1> QED
  BY <1>1, <1>2, <1>3, <1>4, <1>5, <1>6, <1>7, <1>8, <1>9, <1>10, <1>11, <1>12, <1>13, <1>14,
     <1>15, <1>16, <1>17, <1>18, <1>19, <1>20, <1>21, <1>22, <1>23, <1>24, <1>25, <1>26
     DEF Next, FlowNext, Page, Proceed, Outside, NoResponse
-----------------------------------------------------------------------------
ReadAwaits == {"approve", "approveWait", "deposit", "depositWait", "post"}

(* What a page's await means for its deposit; whoever calls the service    *)
(* has a Gateway quote, and has deposited what was missing if anything.    *)
Deposited(t) ==
  /\ pc[t] \in {"idle", "prepare", "transfer", "transferWait", "approve", "approveWait", "deposit"}
       => depositTx[t] = "none"
  /\ pc[t] \in {"post"} \union ServiceAwaits
       => depositTx[t] # "pending" /\ (depositTx[t] = "none" => Delta(t) = 0)
  /\ pc[t] \in {"prepare"} \union ServiceAwaits => ByGateway(t)
  /\ pc[t] # "idle" => quote[t] \in Quotes

(* Each step keeps this of everybody.                                      *)
LEMMA DepositedStep ==
  ASSUME TypeOK, \A t \in Transfers : Deposited(t), [Next]_vars
  PROVE  (\A t \in Transfers : Deposited(t))'
<1> SUFFICES ASSUME NEW j \in Transfers
             PROVE  Deposited(j)'
  OBVIOUS
<1>1. ASSUME NEW t \in Transfers, NEW q \in Quotes, Execute(t, q)
      PROVE  Deposited(j)'
  BY <1>1 DEF Execute, Deposited, Delta, ByGateway, TypeOK, Goto, FrontAwaits, ServiceAwaits,
     Ends, TxStates, vars, pageVars, txVars, chainVars, circleVars
<1>2. ASSUME NEW t \in Transfers, SendTransfer(t)
      PROVE  Deposited(j)'
  BY <1>2 DEF SendTransfer, Deposited, Delta, ByGateway, TypeOK, Goto, FrontAwaits,
     ServiceAwaits, Ends, TxStates, vars, pageVars, txVars, chainVars, circleVars
<1>3. ASSUME NEW t \in Transfers, NEW answered \in BOOLEAN, ReadGateway(t, answered)
      PROVE  Deposited(j)'
  <2>1. CASE j # t
    BY <1>3, <2>1 DEF ReadGateway, Deposited, Delta, ByGateway, TypeOK, Goto, txVars
  <2>2. CASE j = t
    <3>1. depositTx'[t] = "none" /\ quote'[t] = quote[t] /\ quote[t] \in Quotes
      BY <1>3 DEF ReadGateway, Deposited, txVars
    <3>2. pc'[t] \in {"stopped", "approve", "post"}
      BY <1>3 DEF ReadGateway, Goto, TypeOK
    <3>3. ASSUME pc'[t] = "post" PROVE Delta(t)' = 0
      <4> DEFINE balance == IF answered THEN available[Owner(t)] ELSE 0
      <4>1. existing'[t] = balance /\ ~(Missing(quote[t], balance) > 0)
        BY <1>3, <3>3 DEF ReadGateway, Goto, TypeOK
      <4>2. balance \in Nat
        BY FlowAmounts DEF TypeOK
      <4>3. Missing(quote[t], balance) \in Nat
        BY <4>2, <3>1, QuoteAmounts
      <4>4. Delta(t)' = Missing(quote[t], balance)
        BY <4>1, <3>1 DEF Delta
      <4> QED
        BY <4>1, <4>3, <4>4
    <3> QED
      BY <2>2, <3>1, <3>2, <3>3 DEF Deposited, ServiceAwaits
  <2> QED
    BY <2>1, <2>2
<1>4. ASSUME NEW t \in Transfers, Approve(t)
      PROVE  Deposited(j)'
  BY <1>4 DEF Approve, Deposited, Delta, ByGateway, TypeOK, Goto, FrontAwaits, ServiceAwaits,
     Ends, TxStates, vars, pageVars, txVars, chainVars, circleVars
<1>5. ASSUME NEW t \in Transfers, ApproveReceipt(t)
      PROVE  Deposited(j)'
  BY <1>5 DEF ApproveReceipt, Deposited, Delta, ByGateway, TypeOK, Goto, FrontAwaits,
     ServiceAwaits, Ends, TxStates, vars, pageVars, txVars, chainVars, circleVars
<1>6. ASSUME NEW t \in Transfers, Deposit(t)
      PROVE  Deposited(j)'
  BY <1>6 DEF Deposit, Deposited, Delta, ByGateway, TypeOK, Goto, FrontAwaits, ServiceAwaits,
     Ends, TxStates, vars, pageVars, txVars, chainVars, circleVars
<1>7. ASSUME NEW t \in Transfers, DepositReceipt(t)
      PROVE  Deposited(j)'
  BY <1>7 DEF DepositReceipt, Deposited, Delta, ByGateway, TypeOK, Goto, FrontAwaits,
     ServiceAwaits, Ends, TxStates, vars, pageVars, txVars, chainVars, circleVars
<1>8. ASSUME NEW t \in Transfers, NEW reachesService \in BOOLEAN, PostIntent(t, reachesService)
      PROVE  Deposited(j)'
  BY <1>8 DEF PostIntent, Deposited, Delta, ByGateway, TypeOK, Goto, FrontAwaits,
     ServiceAwaits, Ends, TxStates, vars, pageVars, txVars, chainVars, circleVars
<1>9. ASSUME NEW t \in Transfers, Abandon(t)
      PROVE  Deposited(j)'
  BY <1>9 DEF Abandon, Deposited, Delta, ByGateway, TypeOK, Goto, FrontAwaits, ServiceAwaits,
     Ends, TxStates, vars, pageVars, txVars, chainVars, circleVars
<1>10. ASSUME NEW t \in Transfers, FullBalanceSeen(t)
      PROVE  Deposited(j)'
  BY <1>10 DEF FullBalanceSeen, PostTransfer, Deposited, Delta, ByGateway, TypeOK, Goto,
     FrontAwaits, ServiceAwaits, Ends, TxStates, vars, pageVars, txVars, chainVars, circleVars
<1>11. ASSUME NEW t \in Transfers, FullBalanceTimeout(t)
      PROVE  Deposited(j)'
  BY <1>11 DEF FullBalanceTimeout, Deposited, Delta, ByGateway, TypeOK, Goto, FrontAwaits,
     ServiceAwaits, Ends, TxStates, vars, pageVars, txVars, chainVars, circleVars
<1>12. ASSUME NEW t \in Transfers, MinBalanceSeen(t)
      PROVE  Deposited(j)'
  BY <1>12 DEF MinBalanceSeen, PostTransfer, Deposited, Delta, ByGateway, TypeOK, Goto,
     FrontAwaits, ServiceAwaits, Ends, TxStates, vars, pageVars, txVars, chainVars, circleVars
<1>13. ASSUME NEW t \in Transfers, MinBalanceTimeout(t)
      PROVE  Deposited(j)'
  BY <1>13 DEF MinBalanceTimeout, Deposited, Delta, ByGateway, TypeOK, Return, Goto,
     FrontAwaits, ServiceAwaits, Ends, TxStates, vars, pageVars, txVars, chainVars, circleVars
<1>14. ASSUME NEW t \in Transfers, Response(t)
      PROVE  Deposited(j)'
  BY <1>14 DEF Response, Deposited, Delta, ByGateway, TypeOK, Return, Goto, FrontAwaits,
     ServiceAwaits, Ends, TxStates, vars, pageVars, txVars, chainVars, circleVars
<1>15. ASSUME NEW t \in Transfers, Reject(t)
      PROVE  Deposited(j)'
  BY <1>15 DEF Reject, Deposited, Delta, ByGateway, TypeOK, Return, Goto, FrontAwaits,
     ServiceAwaits, Ends, TxStates, vars, pageVars, txVars, chainVars, circleVars
<1>16. ASSUME NEW t \in Transfers, StatusSeen(t)
      PROVE  Deposited(j)'
  BY <1>16 DEF StatusSeen, Deposited, Delta, ByGateway, TypeOK, Return, Goto, FrontAwaits,
     ServiceAwaits, Ends, TxStates, vars, pageVars, txVars, chainVars, circleVars
<1>17. ASSUME NEW t \in Transfers, StatusTimeout(t)
      PROVE  Deposited(j)'
  BY <1>17 DEF StatusTimeout, Deposited, Delta, ByGateway, TypeOK, Return, Goto, FrontAwaits,
     ServiceAwaits, Ends, TxStates, vars, pageVars, txVars, chainVars, circleVars
<1>18. ASSUME NEW t \in Transfers, TransferMined(t)
      PROVE  Deposited(j)'
  BY <1>18 DEF TransferMined, Deposited, Delta, ByGateway, TypeOK, FrontAwaits, ServiceAwaits,
     Ends, TxStates, vars, pageVars, txVars, chainVars, circleVars
<1>19. ASSUME NEW t \in Transfers, ApproveMined(t)
      PROVE  Deposited(j)'
  BY <1>19 DEF ApproveMined, Deposited, Delta, ByGateway, TypeOK, FrontAwaits, ServiceAwaits,
     Ends, TxStates, vars, pageVars, txVars, chainVars, circleVars
<1>20. ASSUME NEW t \in Transfers, DepositMined(t)
      PROVE  Deposited(j)'
  BY <1>20 DEF DepositMined, DepositPossible, Deposited, Delta, ByGateway, TypeOK,
     FrontAwaits, ServiceAwaits, Ends, TxStates, vars, pageVars, txVars, chainVars, circleVars
<1>21. ASSUME NEW t \in Transfers, Index(t)
      PROVE  Deposited(j)'
  BY <1>21 DEF Index, Deposited, Delta, ByGateway, TypeOK, FrontAwaits, ServiceAwaits, Ends,
     TxStates, vars, pageVars, txVars, chainVars, circleVars
<1>22. ASSUME NEW t \in Transfers, NEW fee \in 0..MaxFee(quote[t]),
              NEW reply \in {"named", "unnamed"}, Accept(t, fee, reply)
      PROVE  Deposited(j)'
  BY <1>22 DEF Accept, Deposited, Delta, ByGateway, TypeOK, FrontAwaits, ServiceAwaits, Ends,
     TxStates, vars, pageVars, txVars, chainVars, circleVars
<1>23. ASSUME NEW t \in Transfers, Refuse(t)
      PROVE  Deposited(j)'
  BY <1>23 DEF Refuse, Deposited, Delta, ByGateway, TypeOK, FrontAwaits, ServiceAwaits, Ends,
     TxStates, vars, pageVars, txVars, chainVars, circleVars
<1>24. ASSUME NEW t \in Transfers, NEW outcome \in {"confirmed", "failed"}, Settle(t, outcome)
      PROVE  Deposited(j)'
  BY <1>24 DEF Settle, Deposited, Delta, ByGateway, TypeOK, FrontAwaits, ServiceAwaits, Ends,
     TxStates, vars, pageVars, txVars, chainVars, circleVars
<1>25. CASE Exit
  BY <1>25 DEF Exit, Deposited, Delta, ByGateway, TypeOK, FrontAwaits, ServiceAwaits, Ends,
     TxStates, vars, pageVars, txVars, chainVars, circleVars
<1>26. CASE UNCHANGED vars
  BY <1>26 DEF vars, Deposited, Delta, ByGateway, TypeOK, FrontAwaits, ServiceAwaits, Ends,
     TxStates, pageVars, txVars, chainVars, circleVars
<1> QED
  BY <1>1, <1>2, <1>3, <1>4, <1>5, <1>6, <1>7, <1>8, <1>9, <1>10, <1>11, <1>12, <1>13, <1>14,
     <1>15, <1>16, <1>17, <1>18, <1>19, <1>20, <1>21, <1>22, <1>23, <1>24, <1>25, <1>26
     DEF Next, FlowNext, Page, Proceed, Outside, NoResponse
-----------------------------------------------------------------------------
(* What a flow knows to be at Gateway for it.                              *)
Credit(t) == existing[t] + (IF depositTx[t] = "indexed" THEN Delta(t) ELSE 0)

(* While nobody else draws on the balance, what the page read and what it  *)
(* deposited are there, until the page's own fee is paid, and then but for *)
(* the fee, until Gateway takes the transfer.                              *)
Money(t) ==
  ~disturbed[t] =>
    /\ pc[t] \in ReadAwaits => available[Owner(t)] >= Credit(t)
    /\ pc[t] \in ServiceAwaits /\ gateway[t] \in {"none", "posted"}
         => available[Owner(t)] + X402Fee >= Credit(t)

(* A step that only moves a flow on, into no await of the kind it was not  *)
(* in before, keeps it.                                                    *)
LEMMA MoneyMoves ==
  ASSUME TypeOK, NEW j \in Transfers, Money(j),
         UNCHANGED <<quote, existing, depositTx, available, disturbed>>,
         pc'[j] \in ReadAwaits => pc[j] \in ReadAwaits,
         pc'[j] \in ServiceAwaits => pc[j] \in ServiceAwaits,
         gateway'[j] \in {"none", "posted"} => gateway[j] \in {"none", "posted"}
  PROVE  Money(j)'
  BY DEF Money, Credit, Delta

(* Each step keeps it of everybody.                                        *)
LEMMA MoneyStep ==
  ASSUME TypeOK, \A t \in Transfers : Story(t) /\ Deposited(t) /\ Money(t), [Next]_vars
  PROVE  (\A t \in Transfers : Money(t))'
<1> SUFFICES ASSUME NEW j \in Transfers
             PROVE  Money(j)'
  OBVIOUS
<1>0. /\ available \in [Depositors -> Nat] /\ X402Fee \in Nat /\ existing[j] \in Nat
      /\ Delta(j) \in Nat /\ Owner(j) \in Depositors
  BY FlowAmounts, FeesAssumption DEF TypeOK
<1>1. ASSUME NEW t \in Transfers, NEW q \in Quotes, Execute(t, q)
      PROVE  Money(j)'
  <2>1. CASE j = t
    <3>1. pc'[j] \in {"stopped", "prepare", "transfer"}
      BY <1>1, <2>1 DEF Execute, Goto, TypeOK
    <3> QED
      BY <3>1 DEF Money, ReadAwaits, ServiceAwaits
  <2>2. CASE j # t
    <3>1. UNCHANGED <<quote[j], existing, depositTx, available, disturbed, gateway, pc[j]>>
      BY <1>1, <2>2 DEF Execute, Goto, TypeOK, txVars, circleVars
    <3> QED
      BY <3>1 DEF Money, Credit, Delta
  <2> QED
    BY <2>1, <2>2
<1>2. ASSUME NEW t \in Transfers, SendTransfer(t)
      PROVE  Money(j)'
  <2>1. UNCHANGED <<quote, existing, depositTx, available, disturbed>>
    BY <1>2 DEF SendTransfer, vars, pageVars, txVars, chainVars, circleVars
  <2>2. /\ pc'[j] \in ReadAwaits => pc[j] \in ReadAwaits
        /\ pc'[j] \in ServiceAwaits => pc[j] \in ServiceAwaits
        /\ gateway'[j] \in {"none", "posted"} => gateway[j] \in {"none", "posted"}
    BY <1>2 DEF SendTransfer, Goto, TypeOK, ReadAwaits, ServiceAwaits, vars, pageVars, txVars,
       chainVars, circleVars
  <2> QED
    BY <2>1, <2>2, MoneyMoves
<1>3. ASSUME NEW t \in Transfers, NEW answered \in BOOLEAN, ReadGateway(t, answered)
      PROVE  Money(j)'
  <2>1. CASE j = t
    <3>1. pc'[j] \in {"stopped", "approve", "post"} /\ depositTx'[j] = "none"
      BY <1>3, <2>1 DEF ReadGateway, Goto, TypeOK, Deposited, txVars
    <3>2. existing'[j] <= available[Owner(j)] /\ UNCHANGED available /\ existing'[j] \in Nat
      BY <1>3, <1>0, <2>1 DEF ReadGateway, TypeOK
    <3>3. Credit(j)' = existing'[j]
      BY <3>1, <3>2 DEF Credit
    <3> QED
      BY <1>0, <3>1, <3>2, <3>3 DEF Money, ServiceAwaits
  <2>2. CASE j # t
    <3>1. UNCHANGED <<quote, existing[j], depositTx, available, disturbed[j], gateway, pc[j]>>
      BY <1>3, <2>2 DEF ReadGateway, Goto, TypeOK, txVars, circleVars
    <3> QED
      BY <3>1 DEF Money, Credit, Delta
  <2> QED
    BY <2>1, <2>2
<1>4. ASSUME NEW t \in Transfers, Approve(t)
      PROVE  Money(j)'
  <2>1. UNCHANGED <<quote, existing, depositTx, available, disturbed>>
    BY <1>4 DEF Approve, vars, pageVars, txVars, chainVars, circleVars
  <2>2. /\ pc'[j] \in ReadAwaits => pc[j] \in ReadAwaits
        /\ pc'[j] \in ServiceAwaits => pc[j] \in ServiceAwaits
        /\ gateway'[j] \in {"none", "posted"} => gateway[j] \in {"none", "posted"}
    BY <1>4 DEF Approve, Goto, TypeOK, ReadAwaits, ServiceAwaits, vars, pageVars, txVars,
       chainVars, circleVars
  <2> QED
    BY <2>1, <2>2, MoneyMoves
<1>5. ASSUME NEW t \in Transfers, ApproveReceipt(t)
      PROVE  Money(j)'
  <2>1. UNCHANGED <<quote, existing, depositTx, available, disturbed>>
    BY <1>5 DEF ApproveReceipt, vars, pageVars, txVars, chainVars, circleVars
  <2>2. /\ pc'[j] \in ReadAwaits => pc[j] \in ReadAwaits
        /\ pc'[j] \in ServiceAwaits => pc[j] \in ServiceAwaits
        /\ gateway'[j] \in {"none", "posted"} => gateway[j] \in {"none", "posted"}
    BY <1>5 DEF ApproveReceipt, Goto, TypeOK, ReadAwaits, ServiceAwaits, vars, pageVars,
       txVars, chainVars, circleVars
  <2> QED
    BY <2>1, <2>2, MoneyMoves
<1>6. ASSUME NEW t \in Transfers, Deposit(t)
      PROVE  Money(j)'
  <2>1. /\ pc'[j] \in ReadAwaits => pc[j] \in ReadAwaits
        /\ pc'[j] \in ServiceAwaits => pc[j] \in ServiceAwaits
        /\ UNCHANGED <<quote, existing, available, disturbed, gateway>>
    BY <1>6 DEF Deposit, Goto, TypeOK, ReadAwaits, ServiceAwaits, pageVars, circleVars
  <2>2. Credit(j)' = Credit(j)
    BY <1>6 DEF Deposit, Credit, Delta, Deposited, TypeOK, pageVars
  <2> QED
    BY <2>1, <2>2 DEF Money
<1>7. ASSUME NEW t \in Transfers, DepositReceipt(t)
      PROVE  Money(j)'
  <2>1. UNCHANGED <<quote, existing, depositTx, available, disturbed>>
    BY <1>7 DEF DepositReceipt, vars, pageVars, txVars, chainVars, circleVars
  <2>2. /\ pc'[j] \in ReadAwaits => pc[j] \in ReadAwaits
        /\ pc'[j] \in ServiceAwaits => pc[j] \in ServiceAwaits
        /\ gateway'[j] \in {"none", "posted"} => gateway[j] \in {"none", "posted"}
    BY <1>7 DEF DepositReceipt, Goto, TypeOK, ReadAwaits, ServiceAwaits, vars, pageVars,
       txVars, chainVars, circleVars
  <2> QED
    BY <2>1, <2>2, MoneyMoves
<1>8. ASSUME NEW t \in Transfers, NEW reachesService \in BOOLEAN, PostIntent(t, reachesService)
      PROVE  Money(j)'
  <2>1. CASE available[Owner(t)] < X402Fee
    <3>1. /\ UNCHANGED <<quote, existing, depositTx, available, disturbed, gateway>>
          /\ pc' = [pc EXCEPT ![t] = "stopped"]
      BY <1>8, <2>1 DEF PostIntent, Goto, pageVars, txVars, circleVars
    <3> QED
      BY <3>1, MoneyMoves DEF TypeOK, ReadAwaits, ServiceAwaits
  <2>2. CASE ~(available[Owner(t)] < X402Fee)
    <3>1. /\ UNCHANGED <<quote, existing, depositTx, gateway>>
          /\ available' = [available EXCEPT ![Owner(t)] = @ - X402Fee]
          /\ disturbed' = [s \in Transfers |-> disturbed[s] \/ (s # t /\ Owner(s) = Owner(t))]
          /\ pc' = [pc EXCEPT ![t] = IF ByGateway(t) /\ reachesService
                                      THEN "fullBalance" ELSE "elsewhere"]
      BY <1>8, <2>2 DEF PostIntent, Disturb, Goto, pageVars, txVars, circleVars
    <3>2. Credit(j)' = Credit(j) /\ Credit(j) \in Nat
      BY <1>0, <3>1 DEF Credit, Delta
    <3>3. CASE j = t
      <4>1. pc[j] \in ReadAwaits /\ pc'[j] \notin ReadAwaits
        BY <1>8, <3>1, <3>3 DEF PostIntent, ReadAwaits, TypeOK
      <4>2. available'[Owner(j)] = available[Owner(j)] - X402Fee
        BY <1>0, <3>1, <3>3
      <4>3. disturbed'[j] = disturbed[j]
        BY <3>1, <3>3 DEF TypeOK
      <4> QED
        BY <1>0, <3>2, <4>1, <4>2, <4>3 DEF Money
    <3>4. CASE j # t
      <4>1. CASE Owner(j) = Owner(t)
        BY <3>1, <3>4, <4>1 DEF Money
      <4>2. CASE Owner(j) # Owner(t)
        <5>1. /\ available'[Owner(j)] = available[Owner(j)] /\ pc'[j] = pc[j]
              /\ disturbed'[j] = disturbed[j]
          BY <1>0, <3>1, <3>4, <4>2 DEF TypeOK
        <5> QED
          BY <3>1, <3>2, <5>1 DEF Money
      <4> QED
        BY <4>1, <4>2
    <3> QED
      BY <3>3, <3>4
  <2> QED
    BY <2>1, <2>2
<1>9. ASSUME NEW t \in Transfers, Abandon(t)
      PROVE  Money(j)'
  <2>1. UNCHANGED <<quote, existing, depositTx, available, disturbed>>
    BY <1>9 DEF Abandon, vars, pageVars, txVars, chainVars, circleVars
  <2>2. /\ pc'[j] \in ReadAwaits => pc[j] \in ReadAwaits
        /\ pc'[j] \in ServiceAwaits => pc[j] \in ServiceAwaits
        /\ gateway'[j] \in {"none", "posted"} => gateway[j] \in {"none", "posted"}
    BY <1>9 DEF Abandon, Goto, TypeOK, ReadAwaits, ServiceAwaits, vars, pageVars, txVars,
       chainVars, circleVars
  <2> QED
    BY <2>1, <2>2, MoneyMoves
<1>10. ASSUME NEW t \in Transfers, FullBalanceSeen(t)
      PROVE  Money(j)'
  <2>1. UNCHANGED <<quote, existing, depositTx, available, disturbed>>
    BY <1>10 DEF FullBalanceSeen, PostTransfer, vars, pageVars, txVars, chainVars, circleVars
  <2>2. /\ pc'[j] \in ReadAwaits => pc[j] \in ReadAwaits
        /\ pc'[j] \in ServiceAwaits => pc[j] \in ServiceAwaits
        /\ gateway'[j] \in {"none", "posted"} => gateway[j] \in {"none", "posted"}
    BY <1>10 DEF FullBalanceSeen, PostTransfer, Story, Goto, TypeOK, ReadAwaits,
       ServiceAwaits, vars, pageVars, txVars, chainVars, circleVars
  <2> QED
    BY <2>1, <2>2, MoneyMoves
<1>11. ASSUME NEW t \in Transfers, FullBalanceTimeout(t)
      PROVE  Money(j)'
  <2>1. UNCHANGED <<quote, existing, depositTx, available, disturbed>>
    BY <1>11 DEF FullBalanceTimeout, vars, pageVars, txVars, chainVars, circleVars
  <2>2. /\ pc'[j] \in ReadAwaits => pc[j] \in ReadAwaits
        /\ pc'[j] \in ServiceAwaits => pc[j] \in ServiceAwaits
        /\ gateway'[j] \in {"none", "posted"} => gateway[j] \in {"none", "posted"}
    BY <1>11 DEF FullBalanceTimeout, Goto, TypeOK, ReadAwaits, ServiceAwaits, vars, pageVars,
       txVars, chainVars, circleVars
  <2> QED
    BY <2>1, <2>2, MoneyMoves
<1>12. ASSUME NEW t \in Transfers, MinBalanceSeen(t)
      PROVE  Money(j)'
  <2>1. UNCHANGED <<quote, existing, depositTx, available, disturbed>>
    BY <1>12 DEF MinBalanceSeen, PostTransfer, vars, pageVars, txVars, chainVars, circleVars
  <2>2. /\ pc'[j] \in ReadAwaits => pc[j] \in ReadAwaits
        /\ pc'[j] \in ServiceAwaits => pc[j] \in ServiceAwaits
        /\ gateway'[j] \in {"none", "posted"} => gateway[j] \in {"none", "posted"}
    BY <1>12 DEF MinBalanceSeen, PostTransfer, Story, Goto, TypeOK, ReadAwaits, ServiceAwaits,
       vars, pageVars, txVars, chainVars, circleVars
  <2> QED
    BY <2>1, <2>2, MoneyMoves
<1>13. ASSUME NEW t \in Transfers, MinBalanceTimeout(t)
      PROVE  Money(j)'
  <2>1. UNCHANGED <<quote, existing, depositTx, available, disturbed>>
    BY <1>13 DEF MinBalanceTimeout, vars, pageVars, txVars, chainVars, circleVars
  <2>2. /\ pc'[j] \in ReadAwaits => pc[j] \in ReadAwaits
        /\ pc'[j] \in ServiceAwaits => pc[j] \in ServiceAwaits
        /\ gateway'[j] \in {"none", "posted"} => gateway[j] \in {"none", "posted"}
    BY <1>13 DEF MinBalanceTimeout, Return, Goto, TypeOK, ReadAwaits, ServiceAwaits, vars,
       pageVars, txVars, chainVars, circleVars
  <2> QED
    BY <2>1, <2>2, MoneyMoves
<1>14. ASSUME NEW t \in Transfers, Response(t)
      PROVE  Money(j)'
  <2>1. UNCHANGED <<quote, existing, depositTx, available, disturbed>>
    BY <1>14 DEF Response, vars, pageVars, txVars, chainVars, circleVars
  <2>2. /\ pc'[j] \in ReadAwaits => pc[j] \in ReadAwaits
        /\ pc'[j] \in ServiceAwaits => pc[j] \in ServiceAwaits
        /\ gateway'[j] \in {"none", "posted"} => gateway[j] \in {"none", "posted"}
    BY <1>14 DEF Response, Return, Goto, TypeOK, ReadAwaits, ServiceAwaits, vars, pageVars,
       txVars, chainVars, circleVars
  <2> QED
    BY <2>1, <2>2, MoneyMoves
<1>15. ASSUME NEW t \in Transfers, Reject(t)
      PROVE  Money(j)'
  <2>1. UNCHANGED <<quote, existing, depositTx, available, disturbed>>
    BY <1>15 DEF Reject, vars, pageVars, txVars, chainVars, circleVars
  <2>2. /\ pc'[j] \in ReadAwaits => pc[j] \in ReadAwaits
        /\ pc'[j] \in ServiceAwaits => pc[j] \in ServiceAwaits
        /\ gateway'[j] \in {"none", "posted"} => gateway[j] \in {"none", "posted"}
    BY <1>15 DEF Reject, Return, Goto, TypeOK, ReadAwaits, ServiceAwaits, vars, pageVars,
       txVars, chainVars, circleVars
  <2> QED
    BY <2>1, <2>2, MoneyMoves
<1>16. ASSUME NEW t \in Transfers, StatusSeen(t)
      PROVE  Money(j)'
  <2>1. UNCHANGED <<quote, existing, depositTx, available, disturbed>>
    BY <1>16 DEF StatusSeen, vars, pageVars, txVars, chainVars, circleVars
  <2>2. /\ pc'[j] \in ReadAwaits => pc[j] \in ReadAwaits
        /\ pc'[j] \in ServiceAwaits => pc[j] \in ServiceAwaits
        /\ gateway'[j] \in {"none", "posted"} => gateway[j] \in {"none", "posted"}
    BY <1>16 DEF StatusSeen, Return, Goto, TypeOK, ReadAwaits, ServiceAwaits, vars, pageVars,
       txVars, chainVars, circleVars
  <2> QED
    BY <2>1, <2>2, MoneyMoves
<1>17. ASSUME NEW t \in Transfers, StatusTimeout(t)
      PROVE  Money(j)'
  <2>1. UNCHANGED <<quote, existing, depositTx, available, disturbed>>
    BY <1>17 DEF StatusTimeout, vars, pageVars, txVars, chainVars, circleVars
  <2>2. /\ pc'[j] \in ReadAwaits => pc[j] \in ReadAwaits
        /\ pc'[j] \in ServiceAwaits => pc[j] \in ServiceAwaits
        /\ gateway'[j] \in {"none", "posted"} => gateway[j] \in {"none", "posted"}
    BY <1>17 DEF StatusTimeout, Return, Goto, TypeOK, ReadAwaits, ServiceAwaits, vars,
       pageVars, txVars, chainVars, circleVars
  <2> QED
    BY <2>1, <2>2, MoneyMoves
<1>18. ASSUME NEW t \in Transfers, TransferMined(t)
      PROVE  Money(j)'
  <2>1. UNCHANGED <<quote, existing, depositTx, available, disturbed>>
    BY <1>18 DEF TransferMined, vars, pageVars, txVars, chainVars, circleVars
  <2>2. /\ pc'[j] \in ReadAwaits => pc[j] \in ReadAwaits
        /\ pc'[j] \in ServiceAwaits => pc[j] \in ServiceAwaits
        /\ gateway'[j] \in {"none", "posted"} => gateway[j] \in {"none", "posted"}
    BY <1>18 DEF TransferMined, TypeOK, ReadAwaits, ServiceAwaits, vars, pageVars, txVars,
       chainVars, circleVars
  <2> QED
    BY <2>1, <2>2, MoneyMoves
<1>19. ASSUME NEW t \in Transfers, ApproveMined(t)
      PROVE  Money(j)'
  <2>1. UNCHANGED <<quote, existing, depositTx, available, disturbed>>
    BY <1>19 DEF ApproveMined, vars, pageVars, txVars, chainVars, circleVars
  <2>2. /\ pc'[j] \in ReadAwaits => pc[j] \in ReadAwaits
        /\ pc'[j] \in ServiceAwaits => pc[j] \in ServiceAwaits
        /\ gateway'[j] \in {"none", "posted"} => gateway[j] \in {"none", "posted"}
    BY <1>19 DEF ApproveMined, TypeOK, ReadAwaits, ServiceAwaits, vars, pageVars, txVars,
       chainVars, circleVars
  <2> QED
    BY <2>1, <2>2, MoneyMoves
<1>20. ASSUME NEW t \in Transfers, DepositMined(t)
      PROVE  Money(j)'
  <2>1. UNCHANGED <<quote, existing, available, disturbed, gateway, pc>>
    BY <1>20 DEF DepositMined, pageVars, circleVars
  <2>2. Credit(j)' = Credit(j)
    BY <1>20 DEF DepositMined, Credit, Delta, TypeOK, pageVars
  <2> QED
    BY <2>1, <2>2 DEF Money
<1>21. ASSUME NEW t \in Transfers, Index(t)
      PROVE  Money(j)'
  <2>1. /\ UNCHANGED <<quote, existing, disturbed, gateway, pc>>
        /\ available' = [available EXCEPT ![Owner(t)] = @ + Delta(t)]
        /\ depositTx[t] = "ok" /\ depositTx' = [depositTx EXCEPT ![t] = "indexed"]
    BY <1>21 DEF Index, pageVars, circleVars
  <2>2. Delta(t) \in Nat /\ Delta(j)' = Delta(j)
    BY <2>1, FlowAmounts DEF Delta
  <2>3. CASE j = t
    <3>1. available'[Owner(j)] = available[Owner(j)] + Delta(j) /\ Credit(j)' = Credit(j) + Delta(j)
      BY <1>0, <2>1, <2>2, <2>3 DEF Credit, TypeOK
    <3>2. Credit(j) \in Nat
      BY <1>0 DEF Credit
    <3> QED
      BY <1>0, <2>1, <3>1, <3>2 DEF Money
  <2>4. CASE j # t
    <3>1. Credit(j)' = Credit(j) /\ Credit(j) \in Nat
      BY <1>0, <2>1, <2>2, <2>4 DEF Credit, TypeOK
    <3>2. available'[Owner(j)] >= available[Owner(j)] /\ available'[Owner(j)] \in Nat
      BY <1>0, <2>1, <2>2
    <3> QED
      BY <1>0, <2>1, <3>1, <3>2 DEF Money
  <2> QED
    BY <2>3, <2>4
<1>22. ASSUME NEW t \in Transfers, NEW fee \in 0..MaxFee(quote[t]),
              NEW reply \in {"named", "unnamed"}, Accept(t, fee, reply)
      PROVE  Money(j)'
  <2>1. /\ UNCHANGED <<quote, existing, depositTx, pc>>
        /\ gateway' = [gateway EXCEPT ![t] = "accepted"]
        /\ available' = [available EXCEPT ![Owner(t)] = @ - (quote[t].value + fee)]
        /\ disturbed' = [s \in Transfers |-> disturbed[s] \/ (s # t /\ Owner(s) = Owner(t))]
    BY <1>22 DEF Accept, Disturb, pageVars, txVars
  <2>2. CASE j = t
    <3>1. gateway'[j] = "accepted" /\ pc'[j] \notin ReadAwaits
      BY <1>22, <2>1, <2>2 DEF Accept, Story, TypeOK, ReadAwaits
    <3> QED
      BY <3>1 DEF Money
  <2>3. CASE j # t /\ Owner(j) = Owner(t)
    BY <2>1, <2>3 DEF Money
  <2>4. CASE j # t /\ Owner(j) # Owner(t)
    <3>1. /\ available'[Owner(j)] = available[Owner(j)] /\ gateway'[j] = gateway[j]
          /\ disturbed'[j] = disturbed[j]
      BY <1>0, <2>1, <2>4 DEF TypeOK
    <3>2. Credit(j)' = Credit(j)
      BY <2>1 DEF Credit, Delta
    <3> QED
      BY <2>1, <3>1, <3>2 DEF Money
  <2> QED
    BY <2>2, <2>3, <2>4
<1>23. ASSUME NEW t \in Transfers, Refuse(t)
      PROVE  Money(j)'
  <2>1. UNCHANGED <<quote, existing, depositTx, available, disturbed>>
    BY <1>23 DEF Refuse, vars, pageVars, txVars, chainVars, circleVars
  <2>2. /\ pc'[j] \in ReadAwaits => pc[j] \in ReadAwaits
        /\ pc'[j] \in ServiceAwaits => pc[j] \in ServiceAwaits
        /\ gateway'[j] \in {"none", "posted"} => gateway[j] \in {"none", "posted"}
    BY <1>23 DEF Refuse, TypeOK, ReadAwaits, ServiceAwaits, vars, pageVars, txVars, chainVars,
       circleVars
  <2> QED
    BY <2>1, <2>2, MoneyMoves
<1>24. ASSUME NEW t \in Transfers, NEW outcome \in {"confirmed", "failed"}, Settle(t, outcome)
      PROVE  Money(j)'
  <2>1. UNCHANGED <<quote, existing, depositTx, available, disturbed>>
    BY <1>24 DEF Settle, vars, pageVars, txVars, chainVars, circleVars
  <2>2. /\ pc'[j] \in ReadAwaits => pc[j] \in ReadAwaits
        /\ pc'[j] \in ServiceAwaits => pc[j] \in ServiceAwaits
        /\ gateway'[j] \in {"none", "posted"} => gateway[j] \in {"none", "posted"}
    BY <1>24 DEF Settle, TypeOK, ReadAwaits, ServiceAwaits, vars, pageVars, txVars, chainVars,
       circleVars
  <2> QED
    BY <2>1, <2>2, MoneyMoves
<1>25. CASE Exit
  <2>1. UNCHANGED <<quote, existing, depositTx, available, disturbed>>
    BY <1>25 DEF Exit, vars, pageVars, txVars, chainVars, circleVars
  <2>2. /\ pc'[j] \in ReadAwaits => pc[j] \in ReadAwaits
        /\ pc'[j] \in ServiceAwaits => pc[j] \in ServiceAwaits
        /\ gateway'[j] \in {"none", "posted"} => gateway[j] \in {"none", "posted"}
    BY <1>25 DEF Exit, TypeOK, ReadAwaits, ServiceAwaits, vars, pageVars, txVars, chainVars,
       circleVars
  <2> QED
    BY <2>1, <2>2, MoneyMoves
<1>26. CASE UNCHANGED vars
  <2>1. UNCHANGED <<quote, existing, depositTx, available, disturbed>>
    BY <1>26 DEF vars, pageVars, txVars, chainVars, circleVars
  <2>2. /\ pc'[j] \in ReadAwaits => pc[j] \in ReadAwaits
        /\ pc'[j] \in ServiceAwaits => pc[j] \in ServiceAwaits
        /\ gateway'[j] \in {"none", "posted"} => gateway[j] \in {"none", "posted"}
    BY <1>26 DEF vars, TypeOK, ReadAwaits, ServiceAwaits, pageVars, txVars, chainVars,
       circleVars
  <2> QED
    BY <2>1, <2>2, MoneyMoves
<1> QED
  BY <1>1, <1>2, <1>3, <1>4, <1>5, <1>6, <1>7, <1>8, <1>9, <1>10, <1>11, <1>12, <1>13, <1>14,
     <1>15, <1>16, <1>17, <1>18, <1>19, <1>20, <1>21, <1>22, <1>23, <1>24, <1>25, <1>26
     DEF Next, FlowNext, Page, Proceed, Outside, NoResponse

(* The arithmetic of it: what was read and deposited is the value, the     *)
(* most the fee may be and, from Arc, the gas buffer; the page's own fee   *)
(* is no more than the signed one, nor than the buffer.                    *)
LEMMA MoneyIsEnough ==
  ASSUME TypeOK, NEW t \in Transfers, Deposited(t), Money(t),
         pc[t] \in ServiceAwaits, gateway[t] \in {"none", "posted"},
         ~disturbed[t], depositTx[t] # "reverted"
  PROVE  /\ Funded(t) >= quote[t].value
         /\ quote[t].arc => Funded(t) >= quote[t].value + MaxFee(quote[t])
<1>1. /\ quote[t] \in Quotes /\ quote[t].route = "GATEWAY" /\ pc[t] # "idle"
      /\ depositTx[t] # "pending" /\ (depositTx[t] = "none" => Delta(t) = 0)
  BY DEF Deposited, ByGateway, ServiceAwaits
<1>2. /\ existing[t] \in Nat /\ Delta(t) \in Nat /\ available[Owner(t)] \in Nat
      /\ quote[t].value \in Nat /\ MaxFee(quote[t]) \in Nat /\ X402Fee \in Nat /\ GasBuffer \in Nat
      /\ existing[t] + Delta(t) >= DepositAmount(quote[t])
  BY FlowAmounts, FeesAssumption DEF TypeOK
<1>3. X402Fee <= MaxFee(quote[t]) /\ X402Fee <= GasBuffer
  <2>1. quote[t].quoted \in Nat /\ quote[t].estimated \in Nat /\ SafetyBuffer \in Nat
    BY <1>1, QuoteAmounts, FeesAssumption
  <2>2. X402Fee <= quote[t].quoted
    BY <1>1, FeesAssumption
  <2> QED
    BY <1>2, <2>1, <2>2, FeesAssumption DEF MaxFee
<1>4. available[Owner(t)] + X402Fee >= Credit(t)
  BY DEF Money
<1>5. Funded(t) + X402Fee >= existing[t] + Delta(t) /\ Funded(t) \in Nat
  <2>1. depositTx[t] \in {"none", "ok", "indexed"}
    BY <1>1 DEF TypeOK, TxStates
  <2> QED
    BY <1>1, <1>2, <1>4, <2>1 DEF Funded, Credit
<1>6. DepositAmount(quote[t]) = quote[t].value + MaxFee(quote[t])
                                  + (IF quote[t].arc THEN GasBuffer ELSE 0)
  BY <1>1 DEF DepositAmount
<1> QED
  BY <1>2, <1>3, <1>5, <1>6
-----------------------------------------------------------------------------
Stutter == UNCHANGED <<[t \in Transfers |-> Told(t)], [t \in Transfers |-> Wire(t)]>>

(* An answer is Tell, when submitted stands for a confirmed transfer.      *)
LEMMA ReturnTells ==
  ASSUME TypeOK, NEW t \in Transfers, Story(t),
         NEW status \in {"submitted", "bridge_failed", "thrown"}, NEW transferId \in BOOLEAN,
         Return(t, status, transferId), pc[t] # "answered", UNCHANGED gateway,
         status = "submitted" => gateway[t] = "confirmed"
  PROVE  Bridge!BridgeNext
<1>1. answer[t].status = "none"
  BY DEF Story
<1>2. answer' = [answer EXCEPT ![t] = [status |-> status, transferId |-> transferId]]
  BY DEF Return
<1>3. Told(t) = "nothing" /\ Told(t)' = (IF status = "submitted" THEN "submitted" ELSE "atRisk")
  BY <1>1, <1>2 DEF Told, TypeOK
<1>4. \A j \in Transfers : Wire(j)' = Wire(j)
  BY DEF Wire
<1>5. \A j \in Transfers \ {t} : Told(j)' = Told(j)
  BY <1>2 DEF Told, TypeOK
<1>6. status = "submitted" => Wire(t) \in {"taken", "landed"}
  BY DEF Wire
<1>7. PICK outcome \in {"submitted", "untouched", "atRisk"} :
        outcome = (IF status = "submitted" THEN "submitted" ELSE "atRisk")
  OBVIOUS
<1>8. Bridge!Tell(t, outcome)
  BY <1>3, <1>4, <1>5, <1>6, <1>7 DEF Bridge!Tell
<1> QED
  BY <1>8 DEF Bridge!BridgeNext

(* The funds of one call are asked for, taken, refused or land, and nobody *)
(* is told.                                                                *)
LEMMA WireMoves ==
  ASSUME TypeOK, NEW t \in Transfers, UNCHANGED answer,
         \A j \in Transfers \ {t} : gateway'[j] = gateway[j],
         \/ Told(t) = "nothing" /\ Wire(t) = "none" /\ Wire(t)' = "asked"
         \/ Wire(t) = "asked" /\ Wire(t)' \in {"taken", "refused"}
         \/ Wire(t) = "taken" /\ Wire(t)' = "landed"
  PROVE  Bridge!BridgeNext
<1>1. \A j \in Transfers : Told(j)' = Told(j)
  BY DEF Told
<1>2. \A j \in Transfers \ {t} : Wire(j)' = Wire(j)
  BY DEF Wire
<1>3. Bridge!Ask(t) \/ Bridge!Take(t) \/ Bridge!Refuse(t) \/ Bridge!Land(t)
  BY <1>1, <1>2 DEF Bridge!Ask, Bridge!Take, Bridge!Refuse, Bridge!Land, Bridge!Step
<1> QED
  BY <1>3 DEF Bridge!BridgeNext

(* Every step is one of BridgeTransfer's or one it does not see.           *)
LEMMA BridgeStep ==
  ASSUME TypeOK, \A t \in Transfers : Story(t), [Next]_vars
  PROVE  Bridge!BridgeNext \/ Stutter
<1>1. ASSUME NEW t \in Transfers, NEW q \in Quotes, Execute(t, q)
      PROVE  Bridge!BridgeNext \/ Stutter
  <2>1. UNCHANGED <<answer, gateway>>
    BY <1>1 DEF Execute, vars, pageVars, txVars, chainVars, circleVars
  <2> QED
    BY <2>1 DEF Stutter, Told, Wire
<1>2. ASSUME NEW t \in Transfers, SendTransfer(t)
      PROVE  Bridge!BridgeNext \/ Stutter
  <2>1. UNCHANGED <<answer, gateway>>
    BY <1>2 DEF SendTransfer, vars, pageVars, txVars, chainVars, circleVars
  <2> QED
    BY <2>1 DEF Stutter, Told, Wire
<1>3. ASSUME NEW t \in Transfers, NEW answered \in BOOLEAN, ReadGateway(t, answered)
      PROVE  Bridge!BridgeNext \/ Stutter
  <2>1. UNCHANGED <<answer, gateway>>
    BY <1>3 DEF ReadGateway, vars, pageVars, txVars, chainVars, circleVars
  <2> QED
    BY <2>1 DEF Stutter, Told, Wire
<1>4. ASSUME NEW t \in Transfers, Approve(t)
      PROVE  Bridge!BridgeNext \/ Stutter
  <2>1. UNCHANGED <<answer, gateway>>
    BY <1>4 DEF Approve, vars, pageVars, txVars, chainVars, circleVars
  <2> QED
    BY <2>1 DEF Stutter, Told, Wire
<1>5. ASSUME NEW t \in Transfers, ApproveReceipt(t)
      PROVE  Bridge!BridgeNext \/ Stutter
  <2>1. UNCHANGED <<answer, gateway>>
    BY <1>5 DEF ApproveReceipt, vars, pageVars, txVars, chainVars, circleVars
  <2> QED
    BY <2>1 DEF Stutter, Told, Wire
<1>6. ASSUME NEW t \in Transfers, Deposit(t)
      PROVE  Bridge!BridgeNext \/ Stutter
  <2>1. UNCHANGED <<answer, gateway>>
    BY <1>6 DEF Deposit, vars, pageVars, txVars, chainVars, circleVars
  <2> QED
    BY <2>1 DEF Stutter, Told, Wire
<1>7. ASSUME NEW t \in Transfers, DepositReceipt(t)
      PROVE  Bridge!BridgeNext \/ Stutter
  <2>1. UNCHANGED <<answer, gateway>>
    BY <1>7 DEF DepositReceipt, vars, pageVars, txVars, chainVars, circleVars
  <2> QED
    BY <2>1 DEF Stutter, Told, Wire
<1>8. ASSUME NEW t \in Transfers, NEW reachesService \in BOOLEAN, PostIntent(t, reachesService)
      PROVE  Bridge!BridgeNext \/ Stutter
  <2>1. UNCHANGED <<answer, gateway>>
    BY <1>8 DEF PostIntent, vars, pageVars, txVars, chainVars, circleVars
  <2> QED
    BY <2>1 DEF Stutter, Told, Wire
<1>9. ASSUME NEW t \in Transfers, Abandon(t)
      PROVE  Bridge!BridgeNext \/ Stutter
  <2>1. UNCHANGED <<answer, gateway>>
    BY <1>9 DEF Abandon, vars, pageVars, txVars, chainVars, circleVars
  <2> QED
    BY <2>1 DEF Stutter, Told, Wire
<1>10. ASSUME NEW t \in Transfers, FullBalanceSeen(t)
      PROVE  Bridge!BridgeNext \/ Stutter
  <2>1. /\ UNCHANGED answer /\ gateway' = [gateway EXCEPT ![t] = "posted"]
        /\ answer[t].status = "none" /\ gateway[t] = "none"
    BY <1>10 DEF FullBalanceSeen, PostTransfer, Story
  <2>2. Told(t) = "nothing" /\ Wire(t) = "none" /\ Wire(t)' = "asked"
    BY <2>1 DEF Told, Wire, TypeOK
  <2> QED
    BY <2>1, <2>2, WireMoves DEF TypeOK
<1>11. ASSUME NEW t \in Transfers, FullBalanceTimeout(t)
      PROVE  Bridge!BridgeNext \/ Stutter
  <2>1. UNCHANGED <<answer, gateway>>
    BY <1>11 DEF FullBalanceTimeout, vars, pageVars, txVars, chainVars, circleVars
  <2> QED
    BY <2>1 DEF Stutter, Told, Wire
<1>12. ASSUME NEW t \in Transfers, MinBalanceSeen(t)
      PROVE  Bridge!BridgeNext \/ Stutter
  <2>1. /\ UNCHANGED answer /\ gateway' = [gateway EXCEPT ![t] = "posted"]
        /\ answer[t].status = "none" /\ gateway[t] = "none"
    BY <1>12 DEF MinBalanceSeen, PostTransfer, Story
  <2>2. Told(t) = "nothing" /\ Wire(t) = "none" /\ Wire(t)' = "asked"
    BY <2>1 DEF Told, Wire, TypeOK
  <2> QED
    BY <2>1, <2>2, WireMoves DEF TypeOK
<1>13. ASSUME NEW t \in Transfers, MinBalanceTimeout(t)
      PROVE  Bridge!BridgeNext \/ Stutter
  <2>1. Return(t, "bridge_failed", FALSE) /\ UNCHANGED gateway /\ pc[t] # "answered"
    BY <1>13 DEF MinBalanceTimeout, circleVars
  <2> QED
    BY <2>1, ReturnTells
<1>14. ASSUME NEW t \in Transfers, Response(t)
      PROVE  Bridge!BridgeNext \/ Stutter
  <2>1. CASE response[t] = "named"
    <3>1. UNCHANGED <<answer, gateway>>
      BY <1>14, <2>1, Zenon DEF Response, circleVars
    <3> QED
      BY <3>1 DEF Stutter, Told, Wire
  <2>2. CASE response[t] # "named"
    <3>1. Return(t, "bridge_failed", FALSE) /\ UNCHANGED gateway /\ pc[t] # "answered"
      BY <1>14, <2>2 DEF Response, circleVars
    <3> QED
      BY <3>1, ReturnTells
  <2> QED
    BY <2>1, <2>2
<1>15. ASSUME NEW t \in Transfers, Reject(t)
      PROVE  Bridge!BridgeNext \/ Stutter
  <2>1. Return(t, "thrown", FALSE) /\ UNCHANGED gateway /\ pc[t] # "answered"
    BY <1>15 DEF Reject, circleVars
  <2> QED
    BY <2>1, ReturnTells
<1>16. ASSUME NEW t \in Transfers, StatusSeen(t)
      PROVE  Bridge!BridgeNext \/ Stutter
  <2>1. UNCHANGED gateway /\ pc[t] # "answered"
    BY <1>16 DEF StatusSeen, circleVars
  <2>2. CASE gateway[t] = "confirmed" /\ Return(t, "submitted", TRUE)
    BY <2>1, <2>2, ReturnTells
  <2>3. CASE Return(t, "bridge_failed", TRUE)
    BY <2>1, <2>3, ReturnTells
  <2> QED
    BY <1>16, <2>2, <2>3 DEF StatusSeen
<1>17. ASSUME NEW t \in Transfers, StatusTimeout(t)
      PROVE  Bridge!BridgeNext \/ Stutter
  <2>1. Return(t, "bridge_failed", TRUE) /\ UNCHANGED gateway /\ pc[t] # "answered"
    BY <1>17 DEF StatusTimeout, circleVars
  <2> QED
    BY <2>1, ReturnTells
<1>18. ASSUME NEW t \in Transfers, TransferMined(t)
      PROVE  Bridge!BridgeNext \/ Stutter
  <2>1. UNCHANGED <<answer, gateway>>
    BY <1>18 DEF TransferMined, vars, pageVars, txVars, chainVars, circleVars
  <2> QED
    BY <2>1 DEF Stutter, Told, Wire
<1>19. ASSUME NEW t \in Transfers, ApproveMined(t)
      PROVE  Bridge!BridgeNext \/ Stutter
  <2>1. UNCHANGED <<answer, gateway>>
    BY <1>19 DEF ApproveMined, vars, pageVars, txVars, chainVars, circleVars
  <2> QED
    BY <2>1 DEF Stutter, Told, Wire
<1>20. ASSUME NEW t \in Transfers, DepositMined(t)
      PROVE  Bridge!BridgeNext \/ Stutter
  <2>1. UNCHANGED <<answer, gateway>>
    BY <1>20 DEF DepositMined, DepositPossible, vars, pageVars, txVars, chainVars, circleVars
  <2> QED
    BY <2>1 DEF Stutter, Told, Wire
<1>21. ASSUME NEW t \in Transfers, Index(t)
      PROVE  Bridge!BridgeNext \/ Stutter
  <2>1. UNCHANGED <<answer, gateway>>
    BY <1>21 DEF Index, vars, pageVars, txVars, chainVars, circleVars
  <2> QED
    BY <2>1 DEF Stutter, Told, Wire
<1>22. ASSUME NEW t \in Transfers, NEW fee \in 0..MaxFee(quote[t]),
              NEW reply \in {"named", "unnamed"}, Accept(t, fee, reply)
      PROVE  Bridge!BridgeNext \/ Stutter
  <2>1. UNCHANGED answer /\ \A j \in Transfers \ {t} : gateway'[j] = gateway[j]
    BY <1>22 DEF Accept, TypeOK
  <2>2. Wire(t) = "asked" /\ Wire(t)' = "taken"
    BY <1>22 DEF Accept, Wire, TypeOK
  <2> QED
    BY <2>1, <2>2, WireMoves
<1>23. ASSUME NEW t \in Transfers, Refuse(t)
      PROVE  Bridge!BridgeNext \/ Stutter
  <2>1. UNCHANGED answer /\ \A j \in Transfers \ {t} : gateway'[j] = gateway[j]
    BY <1>23 DEF Refuse, TypeOK
  <2>2. Wire(t) = "asked" /\ Wire(t)' = "refused"
    BY <1>23 DEF Refuse, Wire, TypeOK
  <2> QED
    BY <2>1, <2>2, WireMoves
<1>24. ASSUME NEW t \in Transfers, NEW outcome \in {"confirmed", "failed"}, Settle(t, outcome)
      PROVE  Bridge!BridgeNext \/ Stutter
  <2>1. UNCHANGED answer /\ \A j \in Transfers \ {t} : gateway'[j] = gateway[j]
    BY <1>24 DEF Settle, TypeOK
  <2>2. Wire(t) = "taken" /\ Wire(t)' \in {"taken", "landed"}
    BY <1>24 DEF Settle, Wire, TypeOK
  <2>3. CASE Wire(t)' = "taken"
    <3>1. \A j \in Transfers : Wire(j)' = Wire(j)
      BY <2>1, <2>2, <2>3 DEF Wire
    <3> QED
      BY <2>1, <3>1 DEF Stutter, Told
  <2>4. CASE Wire(t)' = "landed"
    BY <2>1, <2>2, <2>4, WireMoves
  <2> QED
    BY <2>2, <2>3, <2>4
<1>25. CASE Exit
  <2>1. UNCHANGED <<answer, gateway>>
    BY <1>25 DEF Exit, vars, pageVars, txVars, chainVars, circleVars
  <2> QED
    BY <2>1 DEF Stutter, Told, Wire
<1>26. CASE UNCHANGED vars
  <2>1. UNCHANGED <<answer, gateway>>
    BY <1>26 DEF vars, pageVars, txVars, chainVars, circleVars
  <2> QED
    BY <2>1 DEF Stutter, Told, Wire
<1> QED
  BY <1>1, <1>2, <1>3, <1>4, <1>5, <1>6, <1>7, <1>8, <1>9, <1>10, <1>11, <1>12, <1>13, <1>14,
     <1>15, <1>16, <1>17, <1>18, <1>19, <1>20, <1>21, <1>22, <1>23, <1>24, <1>25, <1>26
     DEF Next, FlowNext, Page, Proceed, Outside, NoResponse
-----------------------------------------------------------------------------
(* The inductive invariant. *)
GatewayInv == TypeOK /\ \A t \in Transfers : Story(t) /\ Deposited(t) /\ Money(t)

(* It holds in every reachable state.                                      *)
THEOREM GatewaySafe == Spec => []GatewayInv
<1>1. Init => GatewayInv
  BY TypeInit DEF Init, GatewayInv, Story, Deposited, Money, NoAnswer, ServiceAwaits, ReadAwaits
<1>2. GatewayInv /\ [Next]_vars => GatewayInv'
  BY TypeStep, StoryStep, DepositedStep, MoneyStep DEF GatewayInv
<1> QED
  BY <1>1, <1>2, PTL DEF Spec

(* No wallet and no Gateway balance is overdrawn, whatever flows share it. *)
THEOREM TypeCorrect == Spec => []TypeOK
<1>1. GatewayInv => TypeOK
  BY DEF GatewayInv
<1> QED
  BY <1>1, GatewaySafe, PTL

(* A flow whose user draws on the balance with no other one finds its      *)
(* value at Gateway, and its fee if it comes from Arc.                     *)
THEOREM UndisturbedFlowsAreFunded == Spec => []UndisturbedIsFunded
<1>1. GatewayInv => UndisturbedIsFunded
  BY MoneyIsEnough DEF GatewayInv, UndisturbedIsFunded
<1> QED
  BY <1>1, GatewaySafe, PTL

(* A bridge_failed without a transferId is of a transfer that Gateway does *)
(* not take, or took without telling its id.                               *)
THEOREM AcceptedAreNamed == Spec => []AcceptedIsNamed
<1>1. GatewayInv => AcceptedIsNamed
  BY DEF GatewayInv, Story, AcceptedIsNamed, TypeOK
<1> QED
  BY <1>1, GatewaySafe, PTL

(* Submitted means that Gateway confirmed the transfer.                    *)
THEOREM SubmittedAreConfirmed == Spec => []SubmittedIsConfirmed
<1>1. GatewayInv => SubmittedIsConfirmed
  BY DEF GatewayInv, Story, SubmittedIsConfirmed
<1> QED
  BY <1>1, GatewaySafe, PTL

(* What the service answers, submitted or bridge_failed, holds of Circle   *)
(* Gateway in so far as Gateway told it; an exception says nothing.        *)
THEOREM AnswersStayTrue == Spec => []AnswersAreTrue
<1>1. AcceptedIsNamed /\ SubmittedIsConfirmed => AnswersAreTrue
  BY DEF AnswersAreTrue
<1> QED
  BY <1>1, AcceptedAreNamed, SubmittedAreConfirmed, PTL

(* The service asks Gateway for the funds of a call at most once and never *)
(* after it answered, though Gateway may take them after that; submitted   *)
(* is only answered when they were taken.                                  *)
THEOREM GatewayImplementsBridgeTransfer == Spec => ImplementsBridgeTransfer
<1>1. Init => Bridge!BridgeInit
  BY DEF Init, Bridge!BridgeInit, Told, Wire, NoAnswer
<1>2. GatewayInv /\ [Next]_vars
        => [Bridge!BridgeNext]_<<[t \in Transfers |-> Told(t)], [t \in Transfers |-> Wire(t)]>>
  BY BridgeStep DEF GatewayInv, Stutter
<1> QED
  BY <1>1, <1>2, GatewaySafe, PTL DEF Spec, ImplementsBridgeTransfer, Bridge!BridgeSpec
=============================================================================
