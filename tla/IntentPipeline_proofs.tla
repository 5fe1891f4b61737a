------------------------ MODULE IntentPipeline_proofs ------------------------
(***************************************************************************)
(* Proofs about IntentPipeline, for every set of intents and plans, either *)
(* kind of store and any number of exits of the process.                   *)
(***************************************************************************)
EXTENDS IntentPipeline, TLAPS

Statuses == {"none"} \union InFlight \union Settled

(* What a write to the store makes of a receipt. *)
LEMMA ReceiptWrites ==
  ASSUME NEW r \in Receipts
  PROVE  /\ NoReceipt \in Receipts
         /\ Receipt("created", "none", "none", "none") \in Receipts
         /\ \A s \in Statuses : [r EXCEPT !.status = s] \in Receipts
         /\ [r EXCEPT !.status = "executing", !.bridge = "ok"] \in Receipts
         /\ [r EXCEPT !.status = "finalizing", !.protocol = "ok"] \in Receipts
         /\ \A n \in {"minted", "skipped"} : [r EXCEPT !.nft = n] \in Receipts
         /\ \A b, p \in BOOLEAN :
              Receipt("failed", IF b THEN "failed" ELSE r.bridge,
                      IF p THEN "failed" ELSE r.protocol, r.nft) \in Receipts
  BY DEF Receipts, Receipt, NoReceipt, Statuses, InFlight, Settled, Parked

(* The amounts of a plan and of an execution are naturals. *)
LEMMA AmountsAreNat ==
  ASSUME TypeOK, NEW i \in Intents
  PROVE  /\ plan[i].amount \in Nat
         /\ RequestedAmount(i) \in Nat
         /\ RouterBalanceSeen(i) \in Nat
         /\ ReceivedForIntent(i) \in Nat
<1>1. plan[i] \in Plans \union {NoPlan} /\ execAmount[i] \in Nat /\ before[i] \in Nat
      /\ routerBalance \in Nat
  BY DEF TypeOK
<1>2. plan[i].amount \in Nat
  BY <1>1, PlanAssumption DEF PlanRecords, NoPlan
<1>3. RouterBalanceSeen(i) \in Nat
  BY <1>1 DEF RouterBalanceSeen
<1> QED
  BY <1>1, <1>2, <1>3 DEF RequestedAmount, ReceivedForIntent
-----------------------------------------------------------------------------
(* The awaits up to which nothing of an intent reached the router.         *)
BeforeSend    == {"idle", "analyze", "verify", "readBefore", "markBridging", "bridge"}
BeforeExecute == BeforeSend \union {"bridgeWait", "waitFunding", "markExecuting", "execute"}

(* A step that only moves the pipeline of i from one await to another, at  *)
(* which the receipt may keep the status it has.                           *)
OnlyGoes(i) ==
  /\ pc[i] \in Awaits \ {"catch", "timedOut"}
  /\ \E label \in Awaits \union {"done"} :
       /\ Goto(i, label)
       /\ StatusesAt(pc[i]) \subseteq StatusesAt(label)
       /\ pc[i] = "analyze" => label = "catch"
       /\ pc[i] = "narrate" => label \in {"catch", "done"}
       /\ label \notin {"markExecuting", "markSucceeded", "narrate"}
       /\ label \in BeforeExecute =>
            /\ pc[i] = "verify" /\ label \in {"readBefore", "markBridging"}
            /\ label = "markBridging" => ~UsesRouter(i)
  /\ UNCHANGED <<store, localVars, chainVars, processVars, disturbed>>

Goes(i) ==
  \/ NarrateQuote(i)
  \/ \E verified \in BOOLEAN : VerifySource(i, verified)
  \/ BridgeRefused(i)
  \/ BridgeGivesUp(i)
  \/ FundingTimeout(i)
  \/ ExecuteUnset(i)
  \/ ExecuteTransfer(i)
  \/ ExecuteNothing(i)
  \/ \E executed \in BOOLEAN : ExecuteNonEvm(i, executed)
  \/ PrefundReceipt(i)
  \/ ExecuteBridged(i)
  \/ ExecutionReceipt(i)
  \/ MintReceipt(i)
  \/ Narrate(i)
  \/ Reject(i)

LEMMA GoingSteps ==
  ASSUME NEW i \in Intents, Goes(i)
  PROVE  OnlyGoes(i)
<1>1. CASE NarrateQuote(i)
  BY <1>1 DEF BeforeExecute, BeforeSend, NarrateQuote, OnlyGoes, Awaits, StatusesAt
<1>2. CASE \E verified \in BOOLEAN : VerifySource(i, verified)
  BY <1>2 DEF VerifySource, ReadsBalance, UsesRouter, BeforeExecute, BeforeSend, OnlyGoes, Awaits, StatusesAt
<1>3. CASE BridgeRefused(i)
  BY <1>3 DEF BridgeRefused, BeforeExecute, BeforeSend, OnlyGoes, Awaits, StatusesAt
<1>4. CASE BridgeGivesUp(i)
  BY <1>4 DEF BridgeGivesUp, BeforeExecute, BeforeSend, OnlyGoes, Awaits, StatusesAt
<1>5. CASE FundingTimeout(i)
  BY <1>5 DEF FundingTimeout, BeforeExecute, BeforeSend, OnlyGoes, Awaits, StatusesAt
<1>6. CASE ExecuteUnset(i)
  BY <1>6 DEF ExecuteUnset, BeforeExecute, BeforeSend, OnlyGoes, Awaits, StatusesAt
<1>7. CASE ExecuteTransfer(i)
  BY <1>7 DEF ExecuteTransfer, BeforeExecute, BeforeSend, OnlyGoes, Awaits, StatusesAt
<1>8. CASE \E executed \in BOOLEAN : ExecuteNonEvm(i, executed)
  BY <1>8 DEF ExecuteNonEvm, BeforeExecute, BeforeSend, OnlyGoes, Awaits, StatusesAt
<1>9. CASE PrefundReceipt(i)
  BY <1>9 DEF PrefundReceipt, BeforeExecute, BeforeSend, OnlyGoes, Awaits, StatusesAt
<1>10. CASE ExecuteBridged(i)
  BY <1>10 DEF ExecuteBridged, BeforeExecute, BeforeSend, OnlyGoes, Awaits, StatusesAt
<1>11. CASE ExecutionReceipt(i)
  BY <1>11 DEF ExecutionReceipt, BeforeExecute, BeforeSend, OnlyGoes, Awaits, StatusesAt
<1>12. CASE MintReceipt(i)
  BY <1>12 DEF MintReceipt, BeforeExecute, BeforeSend, OnlyGoes, Awaits, StatusesAt
<1>13. CASE Narrate(i)
  BY <1>13 DEF Narrate, BeforeExecute, BeforeSend, OnlyGoes, Awaits, StatusesAt
<1>14. CASE Reject(i)
  <2>1. pc[i] \in Awaits \ {"catch", "timedOut"}
    BY <1>14 DEF Reject, MayReject, RemoteAwaits, StoreAwaits, Awaits
  <2>2. \A label \in Awaits \ {"catch", "timedOut", "narrateQuote"} :
          StatusesAt(label) \subseteq StatusesAt("catch")
    BY DEF StatusesAt, Awaits, InFlight, Settled, Parked
  <2>3. StatusesAt("narrateQuote") \subseteq StatusesAt("done")
    BY DEF StatusesAt, Settled
  <2>4. CASE pc[i] = "narrateQuote"
    BY <1>14, <2>1, <2>3, <2>4 DEF Reject, BeforeExecute, BeforeSend, OnlyGoes, Awaits
  <2>5. CASE pc[i] # "narrateQuote"
    BY <1>14, <2>1, <2>2, <2>5 DEF Reject, BeforeExecute, BeforeSend, OnlyGoes, Awaits
  <2> QED
    BY <2>4, <2>5
<1>15. CASE ExecuteNothing(i)
  BY <1>15 DEF ExecuteNothing, BeforeExecute, BeforeSend, OnlyGoes, Awaits, StatusesAt
<1> QED
  BY <1>1, <1>2, <1>3, <1>4, <1>5, <1>6, <1>7, <1>8, <1>9, <1>10, <1>11, <1>12, <1>13, <1>14, <1>15 DEF Goes

(* A request to mint a token again works on an intent that once read       *)
(* succeeded and has no pipeline left but perhaps for its last narration;  *)
(* the row it read is complete, and reads failed only if nothing else will *)
(* be written about the intent.                                            *)
LateAwaits == {"narrate", "catch", "done", "dead"}

Whole(r) ==
  /\ r.status \in {"succeeded", "failed"}
  /\ r.bridge = "ok" /\ r.protocol = "ok" /\ r.nft # "none"

Requested(r) ==
  retry[r].left > 0 =>
    /\ retry[r].of \in Intents
    /\ pc[retry[r].of] \in LateAwaits
    /\ Whole(store[retry[r].of])
    /\ retry[r].row # NoReceipt =>
         /\ Whole(retry[r].row)
         /\ retry[r].row.status = "failed" => pc[retry[r].of] = "done"

RetryInv == \A r \in Requests : Requested(r)

LEMMA NoRetryType == NoRetry \in [of : Intents \union {"none"}, row : Receipts, left : 0..2]
<1>1. NoReceipt \in Receipts
  BY DEF NoReceipt, Receipt, Receipts
<1> QED
  BY <1>1 DEF NoRetry, Retry

LEMMA RetryType ==
  ASSUME TypeOK, RetryInv, NEW r \in Requests, RetryStep(r)
  PROVE  TypeOK'
<1>a. /\ retry[r] \in [of : Intents \union {"none"}, row : Receipts, left : 0..2]
      /\ store \in [Intents -> Receipts]
      /\ NoRetry \in [of : Intents \union {"none"}, row : Receipts, left : 0..2]
  BY NoRetryType DEF TypeOK
<1>b. NoReceipt \in Receipts
  BY DEF NoReceipt, Receipt, Receipts
<1>1. ASSUME NEW i \in Intents, RequestRetry(r, i) PROVE TypeOK'
  <2>1. Retry(i, NoReceipt, 2) \in [of : Intents \union {"none"}, row : Receipts, left : 0..2]
    BY <1>b DEF Retry
  <2> QED
    BY <1>1, <2>1 DEF TypeOK, RequestRetry, localVars, chainVars, bridgeVars
<1>2. CASE RetryReads(r)
  <2>1. store[retry[r].of] \in Receipts
    BY <1>2, <1>a DEF RetryReads, RetryInv, Requested
  <2>2. retry' \in [Requests -> [of : Intents \union {"none"}, row : Receipts, left : 0..2]]
    BY <1>2, <2>1 DEF TypeOK, RetryReads
  <2> QED
    BY <1>2, <2>2 DEF TypeOK, RetryReads, localVars, chainVars, bridgeVars
<1>3. ASSUME NEW outcome \in {"minted", "skipped"}, RetryWrites(r, outcome) PROVE TypeOK'
  <2>1. retry[r].row \in Receipts /\ [retry[r].row EXCEPT !.nft = outcome] \in Receipts
    BY <1>a, ReceiptWrites
  <2>2. store' \in [Intents -> Receipts]
    BY <1>3, <2>1, <1>a DEF RetryWrites
  <2>3. Retry(retry[r].of, NoReceipt, 1) \in [of : Intents \union {"none"}, row : Receipts, left : 0..2]
    BY <1>a, <1>b DEF Retry
  <2>4. retry' \in [Requests -> [of : Intents \union {"none"}, row : Receipts, left : 0..2]]
    BY <1>3, <2>3, <1>a DEF TypeOK, RetryWrites
  <2> QED
    BY <1>3, <2>2, <2>4 DEF TypeOK, RetryWrites, localVars, chainVars, bridgeVars
<1>4. CASE RetryFails(r)
  BY <1>4, <1>a DEF TypeOK, RetryFails, localVars, chainVars, bridgeVars
<1> QED
  BY <1>1, <1>2, <1>3, <1>4 DEF RetryStep

(* What a request leaves alone: everything but its own state and one row.  *)
LEMMA RetryLeavesPipeline ==
  ASSUME NEW r \in Requests, RetryStep(r)
  PROVE  UNCHANGED <<pc, localVars, chainVars, crashes, disturbed>>
  BY DEF RetryStep, RequestRetry, RetryReads, RetryWrites, RetryFails

(* And what it makes of that row: another that is whole.                   *)
LEMMA RetryStores ==
  ASSUME TypeOK, RetryInv, NEW r \in Requests, RetryStep(r)
  PROVE  \/ store' = store
         \/ \E i \in Intents :
              /\ pc[i] \in LateAwaits
              /\ Whole(store[i]) /\ Whole(store'[i]) /\ store'[i] \in Receipts
              /\ store'[i].status = "failed" => pc[i] = "done"
              /\ \A j \in Intents \ {i} : store'[j] = store[j]
<1>1. ASSUME NEW outcome \in {"minted", "skipped"}, RetryWrites(r, outcome)
      PROVE  \E i \in Intents :
              /\ pc[i] \in LateAwaits
              /\ Whole(store[i]) /\ Whole(store'[i]) /\ store'[i] \in Receipts
              /\ store'[i].status = "failed" => pc[i] = "done"
              /\ \A j \in Intents \ {i} : store'[j] = store[j]
  <2>1. PICK i \in Intents : i = retry[r].of
    BY <1>1 DEF RetryWrites, RetryInv, Requested
  <2>2. /\ pc[i] \in LateAwaits /\ Whole(store[i]) /\ Whole(retry[r].row)
        /\ retry[r].row.status = "failed" => pc[i] = "done"
    BY <1>1, <2>1 DEF RetryWrites, RetryInv, Requested
  <2>3. retry[r].row \in Receipts /\ store \in [Intents -> Receipts]
    BY DEF TypeOK
  <2>4. store' = [store EXCEPT ![i] = retry[r].row]
          \/ store' = [store EXCEPT ![i] = [retry[r].row EXCEPT !.nft = outcome]]
    BY <1>1, <2>1 DEF RetryWrites
  <2>5. store'[i] = retry[r].row \/ store'[i] = [retry[r].row EXCEPT !.nft = outcome]
    BY <2>3, <2>4
  <2>6. /\ [retry[r].row EXCEPT !.nft = outcome] \in Receipts
        /\ Whole([retry[r].row EXCEPT !.nft = outcome])
        /\ [retry[r].row EXCEPT !.nft = outcome].status = retry[r].row.status
    <3>1. [retry[r].row EXCEPT !.nft = outcome] \in Receipts
      BY <2>3, ReceiptWrites
    <3>2. Whole([retry[r].row EXCEPT !.nft = outcome])
      BY <2>2, <2>3 DEF Whole, Receipts
    <3>3. [retry[r].row EXCEPT !.nft = outcome].status = retry[r].row.status
      BY <2>3 DEF Receipts
    <3> QED
      BY <3>1, <3>2, <3>3
  <2>7. \A j \in Intents \ {i} : store'[j] = store[j]
    BY <2>3, <2>4
  <2>8. Whole(store'[i]) /\ store'[i] \in Receipts /\ store'[i].status = retry[r].row.status
    BY <2>2, <2>3, <2>5, <2>6
  <2> QED
    BY <2>2, <2>7, <2>8
<1> QED
  BY <1>1 DEF RetryStep, RequestRetry, RetryReads, RetryFails

(* Whoever got past the agents has a plan.                                 *)
PlanMade ==
  \A i \in Intents : plan[i] = NoPlan =>
    wire[i] = "none" /\ pc[i] \in {"idle", "analyze", "catch", "done", "dead"}

LEMMA TypeStep ==
  ASSUME TypeOK, PlanMade, RetryInv, [Next]_vars
  PROVE  TypeOK'
<1>0. CASE UNCHANGED vars
  BY <1>0 DEF TypeOK, vars, localVars, chainVars, bridgeVars, processVars
<1>1. CASE Exit
  <2>1. store' \in [Intents -> Receipts]
    BY <1>1, ReceiptWrites DEF TypeOK, Exit
  <2>2. crashes' \in 0..MaxCrashes
    BY <1>1, FundsAssumption DEF TypeOK, Exit
  <2>3. pc' \in [Intents -> Awaits \union {"idle", "done", "dead"}]
    BY <1>1 DEF TypeOK, Exit
  <2>4. retry' \in [Requests -> [of : Intents \union {"none"}, row : Receipts, left : 0..2]]
    BY <1>1 DEF Exit, NoRetry, Retry, NoReceipt, Receipt, Receipts
  <2> QED
    BY <1>1, <2>1, <2>2, <2>3, <2>4 DEF TypeOK, Exit, localVars, chainVars, bridgeVars, processVars
<1>2. ASSUME NEW i \in Intents, CreateIntent(i) PROVE TypeOK'
  <2>1. store' \in [Intents -> Receipts]
    BY <1>2, ReceiptWrites DEF TypeOK, CreateIntent
  <2> QED
    BY <1>2, <2>1 DEF TypeOK, CreateIntent, Goto, Awaits, localVars, chainVars, bridgeVars, processVars
<1>3. ASSUME NEW i \in Intents, PipelineStep(i) PROVE TypeOK'
  <2>a. store[i] \in Receipts
    BY DEF TypeOK
  <2>b. /\ plan[i].amount \in Nat /\ RequestedAmount(i) \in Nat
        /\ RouterBalanceSeen(i) \in Nat /\ ReceivedForIntent(i) \in Nat
    BY AmountsAreNat
  <2>1. CASE Goes(i)
    BY <2>1, GoingSteps DEF OnlyGoes, Goto, TypeOK, localVars, chainVars, bridgeVars, processVars
  <2>2. ASSUME NEW p \in Plans, NEW quoteOnly \in BOOLEAN, NEW approved \in BOOLEAN,
               NEW requiresApproval \in BOOLEAN, NEW allowed \in BOOLEAN,
               Decide(i, p, quoteOnly, approved, requiresApproval, allowed)
        PROVE  TypeOK'
    <3>1. PICK s \in Statuses : store' = [store EXCEPT ![i].status = s]
      BY <2>2 DEF Decide, Statuses, InFlight, Settled, Parked
    <3>2. store' \in [Intents -> Receipts]
      BY <3>1, <2>a, ReceiptWrites DEF TypeOK
    <3> QED
      BY <2>2, <3>2 DEF TypeOK, Decide, Goto, Awaits, chainVars, bridgeVars, processVars
  <2>3. CASE ReadBalanceBefore(i)
    BY <2>3, <2>b DEF TypeOK, ReadBalanceBefore, Goto, Awaits, chainVars, bridgeVars, processVars
  <2>4. CASE MarkBridging(i)
    <3>1. store' \in [Intents -> Receipts]
      BY <2>4, <2>a, ReceiptWrites DEF TypeOK, MarkBridging, Statuses, InFlight, Settled, Parked
    <3> QED
      BY <2>4, <3>1 DEF TypeOK, MarkBridging, Goto, Awaits, localVars, chainVars, bridgeVars, processVars
  <2>5. CASE MarkExecuting(i)
    <3>1. store' \in [Intents -> Receipts]
      BY <2>5, <2>a, ReceiptWrites DEF TypeOK, MarkExecuting, Statuses, InFlight, Settled, Parked
    <3> QED
      BY <2>5, <3>1 DEF TypeOK, MarkExecuting, Goto, Awaits, localVars, chainVars, bridgeVars, processVars
  <2>6. CASE MarkFinalizing(i)
    <3>1. store' \in [Intents -> Receipts]
      BY <2>6, <2>a, ReceiptWrites DEF TypeOK, MarkFinalizing, Statuses, InFlight, Settled, Parked
    <3> QED
      BY <2>6, <3>1 DEF TypeOK, MarkFinalizing, Goto, Awaits, localVars, chainVars, bridgeVars, processVars
  <2>7. CASE MarkSucceeded(i)
    <3>1. store' \in [Intents -> Receipts]
      BY <2>7, <2>a, ReceiptWrites DEF TypeOK, MarkSucceeded, Statuses, InFlight, Settled, Parked
    <3> QED
      BY <2>7, <3>1 DEF TypeOK, MarkSucceeded, Goto, Awaits, localVars, chainVars, bridgeVars, processVars
  <2>8. CASE Stop(i)
    <3>1. store' \in [Intents -> Receipts]
      BY <2>8, <2>a, ReceiptWrites DEF TypeOK, Stop, Statuses, InFlight, Settled, Parked
    <3> QED
      BY <2>8, <3>1 DEF TypeOK, Stop, Goto, Awaits, localVars, chainVars, bridgeVars, processVars
  <2>9. CASE Catch(i)
    <3>1. store' \in [Intents -> Receipts]
      BY <2>9, <2>a, ReceiptWrites DEF TypeOK, Catch, Statuses, InFlight, Settled, Parked
    <3> QED
      BY <2>9, <3>1 DEF TypeOK, Catch, Goto, Awaits, localVars, chainVars, bridgeVars, processVars
  <2>10. ASSUME NEW outcome \in {"minted", "skipped"}, RecordMint(i, outcome) PROVE TypeOK'
    <3>1. store' \in [Intents -> Receipts]
      BY <2>10, <2>a, ReceiptWrites DEF TypeOK, RecordMint
    <3> QED
      BY <2>10, <3>1 DEF TypeOK, RecordMint, Goto, Awaits, localVars, chainVars, bridgeVars, processVars
  <2>11. CASE BridgeSend(i)
    BY <2>11, <2>b DEF TypeOK, BridgeSend, Goto, Awaits, localVars, chainVars, bridgeVars, processVars
  <2>12. CASE BridgeSubmitted(i)
    BY <2>12, <2>b DEF TypeOK, BridgeSubmitted, Goto, Awaits, localVars, chainVars, bridgeVars, processVars
  <2>13. CASE FundingSeen(i)
    BY <2>13, <2>b DEF TypeOK, FundingSeen, Goto, Awaits, localVars, chainVars, bridgeVars, processVars
  <2>14. CASE SendPrefund(i)
    BY <2>14, <2>b DEF TypeOK, SendPrefund, Goto, Awaits, localVars, chainVars, bridgeVars, processVars
  <2>15. CASE SubmitExecution(i)
    BY <2>15, <2>b DEF TypeOK, SubmitExecution, Goto, Awaits, localVars, chainVars, bridgeVars, processVars
  <2> QED
    BY <1>3, <2>1, <2>2, <2>3, <2>4, <2>5, <2>6, <2>7, <2>8, <2>9, <2>10, <2>11, <2>12, <2>13, <2>14, <2>15 DEF PipelineStep, Proceed, Goes
<1>4. ASSUME NEW i \in Intents, ChainStep(i) PROVE TypeOK'
  <2>a. /\ plan[i].amount \in Nat /\ RequestedAmount(i) \in Nat
        /\ routerBalance \in Nat /\ operatorBalance \in Nat
    BY AmountsAreNat DEF TypeOK
  <2>b. RouterMovedBy(i) => disturbed' \in [Intents -> BOOLEAN]
    BY Zenon DEF RouterMovedBy
  <2>c. disturbed \in [Intents -> BOOLEAN]
    BY DEF TypeOK
  <2>1. ASSUME NEW fee \in BridgeFees \union {0}, BridgeLands(i, fee) PROVE TypeOK'
    <3>1. plan[i] \in Plans
      BY <2>1 DEF BridgeLands, PlanMade, TypeOK
    <3>2. plan[i].amount - fee \in Nat
      BY <2>a, <3>1, FeeAssumption
    <3>3. disturbed' \in [Intents -> BOOLEAN]
      BY <2>1, <2>b, <2>c DEF BridgeLands
    <3>4. routerBalance' \in Nat /\ operatorBalance' \in Nat
      BY <2>1, <2>a, <3>2 DEF BridgeLands
    <3> QED
      BY <2>1, <3>2, <3>3, <3>4 DEF TypeOK, BridgeLands, localVars, processVars
  <2>2. CASE PrefundMined(i)
    <3>1. disturbed' \in [Intents -> BOOLEAN]
      BY <2>2, <2>b, <2>c DEF PrefundMined
    <3>2. routerBalance' \in Nat /\ operatorBalance' \in Nat
      BY <2>2, <2>a DEF PrefundMined
    <3> QED
      BY <2>2, <3>1, <3>2 DEF TypeOK, PrefundMined, localVars, bridgeVars, processVars
  <2>3. CASE ExecutionMined(i)
    <3>1. disturbed' \in [Intents -> BOOLEAN]
      BY <2>3, <2>b, <2>c DEF ExecutionMined
    <3>2. routerBalance' \in Nat
      BY <2>3, <2>a DEF ExecutionMined
    <3> QED
      BY <2>3, <3>1, <3>2 DEF TypeOK, ExecutionMined, localVars, bridgeVars, processVars
  <2> QED
    BY <1>4, <2>1, <2>2, <2>3 DEF ChainStep
<1>5. ASSUME NEW r \in Requests, RetryStep(r) PROVE TypeOK'
  BY <1>5, RetryType
<1> QED
  BY <1>0, <1>1, <1>2, <1>3, <1>4, <1>5 DEF Next

LEMMA PlanMadeStep ==
  ASSUME TypeOK, PlanMade, [Next]_vars
  PROVE  PlanMade'
<1>0. CASE UNCHANGED vars
  BY <1>0 DEF PlanMade, vars, localVars, chainVars, bridgeVars, processVars
<1>1. CASE Exit
  BY <1>1 DEF PlanMade, TypeOK, Exit, Awaits, localVars, chainVars, bridgeVars, processVars
<1>2. ASSUME NEW i \in Intents, CreateIntent(i) PROVE PlanMade'
  BY <1>2 DEF PlanMade, TypeOK, CreateIntent, Goto, localVars, chainVars, bridgeVars, processVars
<1>3. ASSUME NEW i \in Intents, PipelineStep(i) PROVE PlanMade'
  <2>1. CASE Goes(i)
    BY <2>1, GoingSteps DEF OnlyGoes, Awaits, Goto, TypeOK, PlanMade, localVars, chainVars, bridgeVars, processVars
  <2>2. ASSUME NEW p \in Plans, NEW quoteOnly \in BOOLEAN, NEW approved \in BOOLEAN,
               NEW requiresApproval \in BOOLEAN, NEW allowed \in BOOLEAN,
               Decide(i, p, quoteOnly, approved, requiresApproval, allowed)
        PROVE  PlanMade'
    <3>1. p # NoPlan
      BY PlanAssumption DEF PlanRecords, NoPlan
    <3> QED
      BY <2>2, <3>1 DEF TypeOK, PlanMade, Decide, Goto, chainVars, bridgeVars, processVars
  <2>3. CASE ReadBalanceBefore(i)
    BY <2>3 DEF TypeOK, PlanMade, ReadBalanceBefore, Goto, localVars, chainVars, bridgeVars, processVars
  <2>4. CASE MarkBridging(i)
    BY <2>4 DEF TypeOK, PlanMade, MarkBridging, Goto, localVars, chainVars, bridgeVars, processVars
  <2>5. CASE MarkExecuting(i)
    BY <2>5 DEF TypeOK, PlanMade, MarkExecuting, Goto, localVars, chainVars, bridgeVars, processVars
  <2>6. CASE MarkFinalizing(i)
    BY <2>6 DEF TypeOK, PlanMade, MarkFinalizing, Goto, localVars, chainVars, bridgeVars, processVars
  <2>7. CASE MarkSucceeded(i)
    BY <2>7 DEF TypeOK, PlanMade, MarkSucceeded, Goto, localVars, chainVars, bridgeVars, processVars
  <2>8. CASE Stop(i)
    BY <2>8 DEF TypeOK, PlanMade, Stop, Goto, localVars, chainVars, bridgeVars, processVars
  <2>9. CASE Catch(i)
    BY <2>9 DEF TypeOK, PlanMade, Catch, Goto, localVars, chainVars, bridgeVars, processVars
  <2>10. CASE BridgeSend(i)
    BY <2>10 DEF TypeOK, PlanMade, BridgeSend, Goto, localVars, chainVars, bridgeVars, processVars
  <2>11. CASE BridgeSubmitted(i)
    BY <2>11 DEF TypeOK, PlanMade, BridgeSubmitted, Goto, localVars, chainVars, bridgeVars, processVars
  <2>12. CASE FundingSeen(i)
    BY <2>12 DEF TypeOK, PlanMade, FundingSeen, Goto, localVars, chainVars, bridgeVars, processVars
  <2>13. CASE SendPrefund(i)
    BY <2>13 DEF TypeOK, PlanMade, SendPrefund, Goto, localVars, chainVars, bridgeVars, processVars
  <2>14. CASE SubmitExecution(i)
    BY <2>14 DEF TypeOK, PlanMade, SubmitExecution, Goto, localVars, chainVars, bridgeVars, processVars
  <2>15. ASSUME NEW outcome \in {"minted", "skipped"}, RecordMint(i, outcome) PROVE PlanMade'
    BY <2>15 DEF TypeOK, PlanMade, RecordMint, Goto, localVars, chainVars, bridgeVars, processVars
  <2> QED
    BY <1>3, <2>1, <2>2, <2>3, <2>4, <2>5, <2>6, <2>7, <2>8, <2>9, <2>10, <2>11, <2>12, <2>13, <2>14, <2>15 DEF PipelineStep, Proceed, Goes
<1>4. ASSUME NEW i \in Intents, ChainStep(i) PROVE PlanMade'
  <2>1. ASSUME NEW fee \in BridgeFees \union {0}, BridgeLands(i, fee) PROVE PlanMade'
    BY <2>1 DEF TypeOK, PlanMade, BridgeLands, localVars, processVars
  <2>2. CASE PrefundMined(i)
    BY <2>2 DEF PlanMade, PrefundMined, localVars, bridgeVars, processVars
  <2>3. CASE ExecutionMined(i)
    BY <2>3 DEF PlanMade, ExecutionMined, localVars, bridgeVars, processVars
  <2> QED
    BY <1>4, <2>1, <2>2, <2>3 DEF ChainStep
<1>5. ASSUME NEW r \in Requests, RetryStep(r) PROVE PlanMade'
  BY <1>5, RetryLeavesPipeline DEF PlanMade, localVars, chainVars, bridgeVars
<1> QED
  BY <1>0, <1>1, <1>2, <1>3, <1>4, <1>5 DEF Next

(* What the chain does leaves receipts and pipelines alone.                *)
LEMMA ChainLeavesCode ==
  ASSUME NEW i \in Intents, ChainStep(i)
  PROVE  UNCHANGED <<store, pc, processVars>>
  BY DEF ChainStep, BridgeLands, PrefundMined, ExecutionMined

(* The receipts as a table: from which await to which a step of i goes and *)
(* what it writes to the receipt of i, the others' left alone.             *)
KeepsReceipt(i) ==
  /\ pc[i] \in Awaits \ {"catch", "timedOut"}
  /\ StatusesAt(pc[i]) \subseteq StatusesAt(pc'[i])
  /\ pc'[i] \notin {"idle", "dead", "markSucceeded", "narrate"}
  /\ pc[i] = "narrate" => pc'[i] \in {"catch", "done"}
  /\ store'[i] = store[i]

Writes(i, from, to, r) == pc[i] = from /\ pc'[i] \in to /\ store'[i] = r

ReceiptStep(i) ==
  \/ KeepsReceipt(i)
  \/ Writes(i, "analyze", {"verify"}, [store[i] EXCEPT !.status = "planned"])
  \/ \E s \in Parked : Writes(i, "analyze", {"narrateQuote"}, [store[i] EXCEPT !.status = s])
  \/ Writes(i, "markBridging", {"bridge", "markExecuting"}, [store[i] EXCEPT !.status = "bridging"])
  \/ Writes(i, "markExecuting", {"execute"},
            [store[i] EXCEPT !.status = "executing", !.bridge = "ok"])
  \/ Writes(i, "markFinalizing", {"mint"},
            [store[i] EXCEPT !.status = "finalizing", !.protocol = "ok"])
  \/ \E n \in {"minted", "skipped"} :
       Writes(i, "recordMint", {"markSucceeded"}, [store[i] EXCEPT !.nft = n])
  \/ Writes(i, "markSucceeded", {"narrate"}, [store[i] EXCEPT !.status = "succeeded"])
  \/ /\ pc[i] \in {"stop", "catch", "timedOut"} /\ pc'[i] = "done" /\ store'[i].status = "failed"
     /\ store'[i].nft = store[i].nft
     /\ pc[i] = "catch" => store'[i] = [store[i] EXCEPT !.status = "failed"]

LEMMA ReceiptSteps ==
  ASSUME TypeOK, NEW i \in Intents, PipelineStep(i)
  PROVE  /\ ReceiptStep(i)
         /\ UNCHANGED processVars
         /\ \A j \in Intents \ {i} : store'[j] = store[j] /\ pc'[j] = pc[j]
<1> DEFINE Goal == /\ ReceiptStep(i)
                   /\ UNCHANGED processVars
                   /\ \A j \in Intents \ {i} : store'[j] = store[j] /\ pc'[j] = pc[j]
<1> SUFFICES Goal
  OBVIOUS
<1>a. /\ pc \in [Intents -> Awaits \union {"idle", "done", "dead"}]
      /\ store \in [Intents -> Receipts] /\ store[i] \in Receipts
  BY DEF TypeOK
<1>1. CASE Goes(i)
  <2>1. OnlyGoes(i)
    BY <1>1, GoingSteps
  <2>2. KeepsReceipt(i)
    BY <2>1, <1>a DEF OnlyGoes, KeepsReceipt, Goto, Awaits
  <2> QED
    BY <2>1, <2>2, <1>a DEF OnlyGoes, Goto, ReceiptStep
<1>2. ASSUME NEW p \in Plans, NEW quoteOnly \in BOOLEAN, NEW approved \in BOOLEAN,
             NEW requiresApproval \in BOOLEAN, NEW allowed \in BOOLEAN,
             Decide(i, p, quoteOnly, approved, requiresApproval, allowed)
      PROVE  Goal
  <2>1. \/ pc'[i] = "verify" /\ store' = [store EXCEPT ![i].status = "planned"]
        \/ \E s \in Parked : pc'[i] = "narrateQuote" /\ store' = [store EXCEPT ![i].status = s]
    BY <1>2, <1>a DEF Decide, Goto, Parked
  <2>2. ReceiptStep(i)
    BY <1>2, <1>a, <2>1 DEF Decide, ReceiptStep, Writes
  <2> QED
    BY <1>2, <1>a, <2>1, <2>2 DEF Decide, Goto
<1>3. CASE ReadBalanceBefore(i)
  <2>1. KeepsReceipt(i)
    BY <1>3, <1>a DEF ReadBalanceBefore, KeepsReceipt, Goto, Awaits, StatusesAt, InFlight, Settled
  <2> QED
    BY <1>3, <1>a, <2>1 DEF ReadBalanceBefore, ReceiptStep, Goto
<1>4. CASE BridgeSend(i)
  <2>1. KeepsReceipt(i)
    BY <1>4, <1>a DEF BridgeSend, KeepsReceipt, Goto, Awaits, StatusesAt, InFlight, Settled
  <2> QED
    BY <1>4, <1>a, <2>1 DEF BridgeSend, ReceiptStep, Goto
<1>5. CASE BridgeSubmitted(i)
  <2>1. KeepsReceipt(i)
    BY <1>5, <1>a DEF BridgeSubmitted, KeepsReceipt, Goto, Awaits, StatusesAt, InFlight, Settled
  <2> QED
    BY <1>5, <1>a, <2>1 DEF BridgeSubmitted, ReceiptStep, Goto
<1>6. CASE FundingSeen(i)
  <2>1. KeepsReceipt(i)
    BY <1>6, <1>a DEF FundingSeen, KeepsReceipt, Goto, Awaits, StatusesAt, InFlight, Settled
  <2> QED
    BY <1>6, <1>a, <2>1 DEF FundingSeen, ReceiptStep, Goto
<1>7. CASE SendPrefund(i)
  <2>1. KeepsReceipt(i)
    BY <1>7, <1>a DEF SendPrefund, KeepsReceipt, Goto, Awaits, StatusesAt, InFlight, Settled
  <2> QED
    BY <1>7, <1>a, <2>1 DEF SendPrefund, ReceiptStep, Goto
<1>8. CASE SubmitExecution(i)
  <2>1. KeepsReceipt(i)
    BY <1>8, <1>a DEF SubmitExecution, KeepsReceipt, Goto, Awaits, StatusesAt, InFlight, Settled
  <2> QED
    BY <1>8, <1>a, <2>1 DEF SubmitExecution, ReceiptStep, Goto
<1>9. CASE MarkBridging(i)
  <2>1. ReceiptStep(i)
    BY <1>9, <1>a DEF MarkBridging, ReceiptStep, Writes, Goto, Receipt, Receipts
  <2> QED
    BY <1>9, <1>a, <2>1 DEF MarkBridging, Goto
<1>10. CASE MarkExecuting(i)
  <2>1. ReceiptStep(i)
    BY <1>10, <1>a DEF MarkExecuting, ReceiptStep, Writes, Goto, Receipt, Receipts
  <2> QED
    BY <1>10, <1>a, <2>1 DEF MarkExecuting, Goto
<1>11. CASE MarkFinalizing(i)
  <2>1. ReceiptStep(i)
    BY <1>11, <1>a DEF MarkFinalizing, ReceiptStep, Writes, Goto, Receipt, Receipts
  <2> QED
    BY <1>11, <1>a, <2>1 DEF MarkFinalizing, Goto
<1>12. CASE MarkSucceeded(i)
  <2>1. ReceiptStep(i)
    BY <1>12, <1>a DEF MarkSucceeded, ReceiptStep, Writes, Goto, Receipt, Receipts
  <2> QED
    BY <1>12, <1>a, <2>1 DEF MarkSucceeded, Goto
<1>13. CASE Stop(i)
  <2>1. ReceiptStep(i)
    BY <1>13, <1>a DEF Stop, ReceiptStep, Writes, Goto, Receipt, Receipts
  <2> QED
    BY <1>13, <1>a, <2>1 DEF Stop, Goto
<1>14. CASE Catch(i)
  <2>1. ReceiptStep(i)
    BY <1>14, <1>a DEF Catch, ReceiptStep, Writes, Goto, Receipt, Receipts
  <2> QED
    BY <1>14, <1>a, <2>1 DEF Catch, Goto
<1>15. ASSUME NEW outcome \in {"minted", "skipped"}, RecordMint(i, outcome) PROVE Goal
  <2>1. ReceiptStep(i)
    BY <1>15, <1>a DEF RecordMint, ReceiptStep, Writes, Goto
  <2> QED
    BY <1>15, <1>a, <2>1 DEF RecordMint, Goto
<1> QED
  BY <1>1, <1>2, <1>3, <1>4, <1>5, <1>6, <1>7, <1>8, <1>9, <1>10, <1>11, <1>12, <1>13, <1>14, <1>15 DEF PipelineStep, Proceed, Goes

LEMMA StatusStep ==
  ASSUME TypeOK, RetryInv, StatusFollowsPipeline, [Next]_vars
  PROVE  StatusFollowsPipeline'
<1>0. CASE UNCHANGED vars
  BY <1>0 DEF StatusFollowsPipeline, vars, processVars
<1>1. CASE Exit
  <2> SUFFICES ASSUME NEW j \in Intents
               PROVE  \/ store'[j].status \in StatusesAt(pc'[j])
                      \/ ~Durable /\ crashes' > 0 /\ pc'[j] \in {"done", "dead"}
                           /\ store'[j] = NoReceipt
    BY DEF StatusFollowsPipeline
  <2>1. pc[j] \in Awaits \union {"idle", "done", "dead"} /\ crashes \in Nat /\ crashes' = crashes + 1
    BY <1>1, FundsAssumption DEF TypeOK, Exit
  <2>2. pc'[j] = IF pc[j] \in Awaits THEN "dead" ELSE pc[j]
    BY <1>1 DEF Exit, TypeOK
  <2>3. crashes' > 0
    BY <2>1
  <2>4. CASE ~Durable
    <3>1. store'[j] = NoReceipt
      BY <1>1, <2>4 DEF Exit
    <3>2. pc'[j] = "idle" => store'[j].status \in StatusesAt(pc'[j])
      BY <3>1 DEF StatusesAt, NoReceipt, Receipt
    <3> QED
      BY <2>1, <2>2, <2>3, <2>4, <3>1, <3>2 DEF Awaits
  <2>5. CASE Durable
    <3>1. store'[j] = store[j] /\ store[j].status \in StatusesAt(pc[j])
      BY <1>1, <2>5 DEF Exit, StatusFollowsPipeline
    <3>2. \A label \in Awaits : StatusesAt(label) \subseteq StatusesAt("dead")
      BY DEF StatusesAt, Awaits, InFlight, Settled, Parked
    <3> QED
      BY <2>1, <2>2, <3>1, <3>2
  <2> QED
    BY <2>4, <2>5
<1>2. ASSUME NEW i \in Intents, CreateIntent(i) PROVE StatusFollowsPipeline'
  <2>1. /\ pc'[i] = "analyze" /\ store'[i].status = "created" /\ crashes' = crashes
        /\ \A j \in Intents \ {i} : store'[j] = store[j] /\ pc'[j] = pc[j]
    BY <1>2 DEF TypeOK, CreateIntent, Goto, Receipt, processVars
  <2>2. store'[i].status \in StatusesAt(pc'[i])
    BY <2>1 DEF StatusesAt
  <2> QED
    BY <2>1, <2>2 DEF StatusFollowsPipeline
<1>3. ASSUME NEW i \in Intents, PipelineStep(i) PROVE StatusFollowsPipeline'
  <2>1. /\ ReceiptStep(i) /\ UNCHANGED processVars
        /\ \A j \in Intents \ {i} : store'[j] = store[j] /\ pc'[j] = pc[j]
    BY <1>3, ReceiptSteps
  <2>2. store'[i].status \in StatusesAt(pc'[i])
    <3>1. store[i] \in Receipts
      BY DEF TypeOK
    <3>2. CASE KeepsReceipt(i)
      BY <3>2 DEF KeepsReceipt, StatusFollowsPipeline, Awaits
    <3>3. ASSUME ~KeepsReceipt(i)
          PROVE  \/ pc'[i] = "verify" /\ store'[i].status = "planned"
                 \/ pc'[i] = "narrateQuote" /\ store'[i].status \in Parked
                 \/ pc'[i] \in {"bridge", "markExecuting"} /\ store'[i].status = "bridging"
                 \/ pc'[i] = "execute" /\ store'[i].status = "executing"
                 \/ pc'[i] = "mint" /\ store'[i].status = "finalizing"
                 \/ /\ pc[i] = "recordMint" /\ pc'[i] = "markSucceeded"
                    /\ store'[i].status = store[i].status
                 \/ pc'[i] = "narrate" /\ store'[i].status = "succeeded"
                 \/ pc'[i] = "done" /\ store'[i].status = "failed"
      BY <2>1, <3>1, <3>3 DEF ReceiptStep, Writes, Receipts
    <3>4. pc[i] = "recordMint" => store[i].status = "finalizing"
      BY DEF StatusFollowsPipeline, StatusesAt
    <3> QED
      BY <3>2, <3>3, <3>4 DEF StatusesAt, Settled, Parked
  <2> QED
    BY <2>1, <2>2 DEF StatusFollowsPipeline, processVars
<1>4. ASSUME NEW i \in Intents, ChainStep(i) PROVE StatusFollowsPipeline'
  BY <1>4, ChainLeavesCode DEF StatusFollowsPipeline, processVars
<1>5. ASSUME NEW r \in Requests, RetryStep(r) PROVE StatusFollowsPipeline'
  <2>1. pc' = pc /\ crashes' = crashes
    BY <1>5, RetryLeavesPipeline
  <2>2. CASE store' = store
    BY <2>1, <2>2 DEF StatusFollowsPipeline
  <2>3. ASSUME NEW i \in Intents, pc[i] \in LateAwaits, Whole(store[i]), Whole(store'[i]),
               store'[i].status = "failed" => pc[i] = "done",
               \A j \in Intents \ {i} : store'[j] = store[j]
        PROVE  StatusFollowsPipeline'
    <3>1. store'[i].status \in StatusesAt(pc'[i])
      BY <2>1, <2>3 DEF StatusesAt, LateAwaits, Whole, InFlight, Settled, Parked
    <3> QED
      BY <2>1, <2>3, <3>1 DEF StatusFollowsPipeline
  <2> QED
    BY <1>5, <2>2, <2>3, RetryStores
<1> QED
  BY <1>0, <1>1, <1>2, <1>3, <1>4, <1>5 DEF Next

(* What the receipts of an intent already say in each phase.               *)
Complete ==
  \A i \in Intents :
    /\ store[i].status \in {"executing", "finalizing", "succeeded"} => store[i].bridge = "ok"
    /\ store[i].status \in {"finalizing", "succeeded"} => store[i].protocol = "ok"
    /\ pc[i] = "markSucceeded" \/ store[i].status = "succeeded" => store[i].nft # "none"
    /\ pc[i] = "idle" => store[i] = NoReceipt

LEMMA CompleteStep ==
  ASSUME TypeOK, RetryInv, StatusFollowsPipeline, Complete, [Next]_vars
  PROVE  Complete'
<1>0. CASE UNCHANGED vars
  BY <1>0 DEF Complete, vars
<1>1. CASE Exit
  <2>1. \A i \in Intents : pc'[i] # "markSucceeded"
    BY <1>1 DEF Exit, TypeOK, Awaits
  <2>2. CASE Durable
    BY <1>1, <2>1, <2>2 DEF Exit, Complete
  <2>3. CASE ~Durable
    <3>1. \A i \in Intents : store'[i] = NoReceipt /\ pc'[i] # "markSucceeded"
      BY <1>1, <2>3 DEF Exit, TypeOK, Awaits
    <3> QED
      BY <3>1 DEF Complete, NoReceipt, Receipt
  <2> QED
    BY <2>2, <2>3
<1>2. ASSUME NEW i \in Intents, CreateIntent(i) PROVE Complete'
  BY <1>2 DEF TypeOK, Complete, CreateIntent, Goto, Receipt
<1>3. ASSUME NEW i \in Intents, PipelineStep(i) PROVE Complete'
  <2>1. /\ ReceiptStep(i) /\ UNCHANGED processVars
        /\ \A j \in Intents \ {i} : store'[j] = store[j] /\ pc'[j] = pc[j]
    BY <1>3, ReceiptSteps
  <2>2. store[i] \in Receipts
    BY DEF TypeOK
  <2>3. CASE KeepsReceipt(i)
    BY <2>1, <2>3 DEF KeepsReceipt, Complete
  <2>4. CASE ~KeepsReceipt(i)
    <3>1. /\ pc[i] = "markFinalizing" => store[i].status = "executing"
          /\ pc[i] \in {"recordMint", "markSucceeded"} => store[i].status = "finalizing"
      BY DEF StatusFollowsPipeline, StatusesAt
    <3>2. /\ store'[i].status \in {"executing", "finalizing", "succeeded"} => store'[i].bridge = "ok"
          /\ store'[i].status \in {"finalizing", "succeeded"} => store'[i].protocol = "ok"
          /\ pc'[i] = "markSucceeded" \/ store'[i].status = "succeeded" => store'[i].nft # "none"
          /\ pc'[i] # "idle"
      BY <2>1, <2>2, <2>4, <3>1 DEF ReceiptStep, Writes, Receipts, Complete, Parked
    <3> QED
      BY <2>1, <3>2 DEF Complete
  <2> QED
    BY <2>3, <2>4
<1>4. ASSUME NEW i \in Intents, ChainStep(i) PROVE Complete'
  BY <1>4, ChainLeavesCode DEF Complete
<1>5. ASSUME NEW r \in Requests, RetryStep(r) PROVE Complete'
  <2>1. pc' = pc
    BY <1>5, RetryLeavesPipeline
  <2> QED
    BY <1>5, <2>1, RetryStores DEF Complete, Whole, LateAwaits
<1> QED
  BY <1>0, <1>1, <1>2, <1>3, <1>4, <1>5 DEF Next

LEMMA RetryInvStep ==
  ASSUME TypeOK, StatusFollowsPipeline, Complete, RetryInv, [Next]_vars
  PROVE  RetryInv'
<1>a. retry \in [Requests -> [of : Intents \union {"none"}, row : Receipts, left : 0..2]]
      /\ store \in [Intents -> Receipts]
  BY DEF TypeOK
<1>0. CASE UNCHANGED vars
  BY <1>0 DEF RetryInv, Requested, vars, processVars
<1>1. CASE Exit
  BY <1>1 DEF Exit, RetryInv, Requested, NoRetry, Retry
<1>2. ASSUME NEW i \in Intents, CreateIntent(i) PROVE RetryInv'
  <2>1. /\ pc[i] = "idle" /\ retry' = retry
        /\ \A j \in Intents \ {i} : store'[j] = store[j] /\ pc'[j] = pc[j]
    BY <1>2, <1>a DEF CreateIntent, Goto, processVars, TypeOK
  <2> QED
    BY <2>1 DEF RetryInv, Requested, LateAwaits
<1>3. ASSUME NEW i \in Intents, PipelineStep(i) PROVE RetryInv'
  <2>1. /\ ReceiptStep(i) /\ retry' = retry
        /\ \A j \in Intents \ {i} : store'[j] = store[j] /\ pc'[j] = pc[j]
    BY <1>3, ReceiptSteps DEF processVars
  <2> SUFFICES ASSUME NEW r \in Requests, retry[r].left > 0 PROVE Requested(r)'
    BY <2>1 DEF RetryInv, Requested
  <2>2. Requested(r)
    BY DEF RetryInv
  <2>3. CASE retry[r].of # i
    BY <2>1, <2>2, <2>3 DEF Requested
  <2>4. CASE retry[r].of = i
    <3>1. pc[i] \in LateAwaits /\ Whole(store[i])
      BY <2>2, <2>4 DEF Requested
    <3>2. pc[i] \in {"narrate", "catch"}
      BY <2>1, <3>1 DEF ReceiptStep, KeepsReceipt, Writes, Awaits, LateAwaits
    <3>3. /\ pc'[i] \in {"catch", "done"}
          /\ store'[i] = store[i] \/ store'[i] = [store[i] EXCEPT !.status = "failed"]
      BY <2>1, <3>2 DEF ReceiptStep, KeepsReceipt, Writes
    <3>4. Whole(store'[i])
      BY <3>1, <3>3, <1>a DEF Whole, Receipts
    <3>5. retry[r].row # NoReceipt => Whole(retry[r].row) /\ retry[r].row.status # "failed"
      BY <2>2, <2>4, <3>2 DEF Requested
    <3> QED
      BY <2>1, <2>2, <2>4, <3>3, <3>4, <3>5 DEF Requested, LateAwaits
  <2> QED
    BY <2>3, <2>4
<1>4. ASSUME NEW i \in Intents, ChainStep(i) PROVE RetryInv'
  BY <1>4, ChainLeavesCode DEF RetryInv, Requested, processVars
<1>5. ASSUME NEW r \in Requests, RetryStep(r) PROVE RetryInv'
  <2>1. pc' = pc
    BY <1>5, RetryLeavesPipeline
  <2>2. ASSUME NEW q \in Requests, retry'[q] = retry[q] PROVE Requested(q)'
    <3>1. Requested(q)
      BY DEF RetryInv
    <3>2. \A i \in Intents : Whole(store[i]) => Whole(store'[i])
      BY <1>5, RetryStores
    <3> QED
      BY <2>1, <2>2, <3>1, <3>2 DEF Requested
  <2>3. \A q \in Requests \ {r} : retry'[q] = retry[q]
    BY <1>5, <1>a DEF RetryStep, RequestRetry, RetryReads, RetryWrites, RetryFails
  <2>4. Requested(r)'
    <3>a. Requested(r)
      BY DEF RetryInv
    <3>1. ASSUME NEW i \in Intents, RequestRetry(r, i) PROVE Requested(r)'
      <4>1. retry'[r] = Retry(i, NoReceipt, 2) /\ store' = store /\ store[i].status = "succeeded"
        BY <3>1, <1>a DEF RequestRetry
      <4>2. Whole(store[i])
        BY <4>1 DEF Complete, Whole
      <4>3. pc[i] \in LateAwaits
        BY <4>1 DEF StatusFollowsPipeline, StatusesAt, LateAwaits, InFlight, Settled, Parked,
           NoReceipt, Receipt, TypeOK, Awaits
      <4> QED
        BY <2>1, <4>1, <4>2, <4>3 DEF Requested, Retry
    <3>2. CASE RetryReads(r)
      <4>1. /\ retry[r].left > 0 /\ store' = store
            /\ retry'[r] = [retry[r] EXCEPT !.row = store[retry[r].of]]
        BY <3>2, <1>a DEF RetryReads
      <4>2. PICK i \in Intents : i = retry[r].of
        BY <3>a, <4>1 DEF Requested
      <4>3. /\ retry'[r].of = i /\ retry'[r].row = store[i]
            /\ pc[i] \in LateAwaits /\ Whole(store[i])
        BY <3>a, <4>1, <4>2, <1>a DEF Requested
      <4>4. store[i].status = "failed" => pc[i] = "done"
        BY <4>3 DEF StatusFollowsPipeline, StatusesAt, LateAwaits, InFlight, Settled, Parked,
           NoReceipt, Receipt
      <4>5. /\ Whole(store'[retry'[r].of]) /\ Whole(retry'[r].row) /\ pc'[retry'[r].of] \in LateAwaits
            /\ retry'[r].of \in Intents
            /\ retry'[r].row.status = "failed" => pc'[retry'[r].of] = "done"
        BY <2>1, <4>1, <4>2, <4>3, <4>4
      <4> QED
        BY <4>5 DEF Requested
    <3>3. ASSUME NEW outcome \in {"minted", "skipped"}, RetryWrites(r, outcome) PROVE Requested(r)'
      <4>1. /\ retry[r].left > 0
            /\ retry'[r] = NoRetry \/ retry'[r] = Retry(retry[r].of, NoReceipt, 1)
        BY <3>3, <1>a DEF RetryWrites
      <4>2. \A i \in Intents : Whole(store[i]) => Whole(store'[i])
        BY <1>5, RetryStores
      <4> QED
        BY <2>1, <3>a, <4>1, <4>2 DEF Requested, NoRetry, Retry
    <3>4. CASE RetryFails(r)
      <4>1. retry'[r] = NoRetry
        BY <3>4, <1>a DEF RetryFails
      <4> QED
        BY <4>1 DEF Requested, NoRetry, Retry
    <3> QED
      BY <1>5, <3>1, <3>2, <3>3, <3>4 DEF RetryStep
  <2> QED
    BY <2>2, <2>3, <2>4 DEF RetryInv
<1> QED
  BY <1>0, <1>1, <1>2, <1>3, <1>4, <1>5 DEF Next

(* Every step of the code is a step of the life cycle, or none.            *)
LEMMA LifecycleStep ==
  ASSUME TypeOK, RetryInv, StatusFollowsPipeline, Complete, [Next]_vars
  PROVE  [Lifecycle!LifecycleNext]_(<<[i \in Intents |-> store[i].status],
                                      [i \in Intents |-> store[i].nft # "none"]>>)
<1> DEFINE status == [i \in Intents |-> store[i].status]
           sealed == [i \in Intents |-> store[i].nft # "none"]
<1>a. ASSUME NEW i \in Intents, \A j \in Intents \ {i} : store'[j] = store[j],
             store'[i].status \in Lifecycle!Successors(store[i].status),
             store'[i].status = "succeeded" => store[i].nft # "none",
             (store'[i].nft # "none") = (store[i].nft # "none")
      PROVE  Lifecycle!LifecycleNext
  <2>1. status' = [status EXCEPT ![i] = store'[i].status] /\ sealed' = sealed
    BY <1>a
  <2>2. Lifecycle!Advance(i)
    BY <1>a, <2>1 DEF Lifecycle!Advance
  <2> QED
    BY <2>2 DEF Lifecycle!LifecycleNext
<1>0. CASE UNCHANGED vars
  BY <1>0 DEF vars
<1>1. CASE Exit
  <2>1. CASE Durable
    BY <1>1, <2>1 DEF Exit
  <2>2. CASE ~Durable
    <3>1. Lifecycle!Forget
      BY <1>1, <2>2 DEF Exit, Lifecycle!Forget, NoReceipt, Receipt
    <3> QED
      BY <3>1 DEF Lifecycle!LifecycleNext
  <2> QED
    BY <2>1, <2>2
<1>2. ASSUME NEW i \in Intents, CreateIntent(i) PROVE Lifecycle!LifecycleNext
  <2>1. store[i].status = "none" /\ store[i] = NoReceipt
    BY <1>2 DEF CreateIntent, StatusFollowsPipeline, StatusesAt, Complete
  <2>2. /\ store'[i] = Receipt("created", "none", "none", "none")
        /\ \A j \in Intents \ {i} : store'[j] = store[j]
    BY <1>2 DEF CreateIntent, TypeOK
  <2> QED
    BY <2>1, <2>2, <1>a DEF Lifecycle!Successors, NoReceipt, Receipt
<1>3. ASSUME NEW i \in Intents, PipelineStep(i)
      PROVE  Lifecycle!LifecycleNext \/ UNCHANGED <<status, sealed>>
  <2>1. /\ ReceiptStep(i)
        /\ \A j \in Intents \ {i} : store'[j] = store[j]
    BY <1>3, ReceiptSteps
  <2>a. store[i] \in Receipts
    BY DEF TypeOK
  <2>2. CASE KeepsReceipt(i)
    BY <2>1, <2>2 DEF KeepsReceipt
  <2>3. ASSUME NEW n \in {"minted", "skipped"},
               Writes(i, "recordMint", {"markSucceeded"}, [store[i] EXCEPT !.nft = n])
        PROVE  Lifecycle!LifecycleNext
    <3>1. store[i].status = "finalizing"
      BY <2>3 DEF Writes, StatusFollowsPipeline, StatusesAt
    <3>2. store'[i].status = store[i].status /\ store'[i].nft # "none"
      BY <2>3, <2>a DEF Writes, Receipts
    <3>3. Lifecycle!Seal(i)
      BY <2>1, <3>1, <3>2 DEF Lifecycle!Seal
    <3> QED
      BY <3>3 DEF Lifecycle!LifecycleNext
  <2>4. ASSUME ~KeepsReceipt(i),
               \A n \in {"minted", "skipped"} :
                 ~Writes(i, "recordMint", {"markSucceeded"}, [store[i] EXCEPT !.nft = n])
        PROVE  Lifecycle!LifecycleNext
    <3>1. /\ pc[i] = "analyze" => store[i].status = "created"
          /\ pc[i] = "markBridging" => store[i].status = "planned"
          /\ pc[i] = "markExecuting" => store[i].status = "bridging"
          /\ pc[i] = "markFinalizing" => store[i].status = "executing"
          /\ pc[i] = "markSucceeded" => store[i].status = "finalizing" /\ store[i].nft # "none"
          /\ pc[i] \in {"stop", "catch", "timedOut"} => store[i].status \in InFlight \union {"succeeded"}
      BY DEF StatusFollowsPipeline, StatusesAt, InFlight, Complete
    <3>2. /\ \/ store[i].status = "created" /\ store'[i].status \in {"planned", "quoted", "needs_approval"}
             \/ store[i].status = "planned" /\ store'[i].status = "bridging"
             \/ store[i].status = "bridging" /\ store'[i].status = "executing"
             \/ store[i].status = "executing" /\ store'[i].status = "finalizing"
             \/ store[i].status = "finalizing" /\ store'[i].status = "succeeded"
             \/ store[i].status \in InFlight \union {"succeeded"} /\ store'[i].status = "failed"
          /\ store'[i].nft = store[i].nft
          /\ store'[i].status = "succeeded" => store[i].nft # "none"
      BY <2>1, <2>4, <2>a, <3>1 DEF ReceiptStep, Writes, Receipts, Parked
    <3>3. store'[i].status \in Lifecycle!Successors(store[i].status)
      BY <3>2 DEF Lifecycle!Successors, InFlight
    <3> QED
      BY <2>1, <3>2, <3>3, <1>a
  <2> QED
    BY <2>2, <2>3, <2>4
<1>4. ASSUME NEW i \in Intents, ChainStep(i) PROVE UNCHANGED <<status, sealed>>
  BY <1>4, ChainLeavesCode
<1>5. ASSUME NEW r \in Requests, RetryStep(r)
      PROVE  Lifecycle!LifecycleNext \/ UNCHANGED <<status, sealed>>
  <2>1. CASE store' = store
    BY <2>1
  <2>2. ASSUME NEW i \in Intents, Whole(store[i]), Whole(store'[i]),
               \A j \in Intents \ {i} : store'[j] = store[j]
        PROVE  Lifecycle!LifecycleNext \/ UNCHANGED <<status, sealed>>
    <3>1. (store'[i].nft # "none") = (store[i].nft # "none")
      BY <2>2 DEF Whole
    <3>2. CASE store'[i].status = store[i].status
      BY <2>2, <3>1, <3>2
    <3>3. CASE store'[i].status # store[i].status
      <4>1. store'[i].status \in Lifecycle!Successors(store[i].status)
        BY <2>2, <3>3 DEF Whole, Lifecycle!Successors
      <4> QED
        BY <2>2, <3>1, <4>1, <1>a DEF Whole
    <3> QED
      BY <3>2, <3>3
  <2> QED
    BY <1>5, <2>1, <2>2, RetryStores
<1> QED
  BY <1>0, <1>1, <1>2, <1>3, <1>4, <1>5 DEF Next

(* Three awaits are followed by something being sent, and no others.       *)
Idle(i) ==
  /\ wire[i] = "none" /\ pc[i] # "bridge" => wire'[i] = "none"
  /\ prefund[i] = "none" /\ pc[i] # "execute" => prefund'[i] = "none"
  /\ tx[i] = "none" /\ pc[i] # "submit" => tx'[i] = "none"

LEMMA NothingElseSends ==
  ASSUME TypeOK, [Next]_vars, NEW i \in Intents
  PROVE  Idle(i)
<1>a. ASSUME UNCHANGED <<wire, prefund, tx>> PROVE Idle(i)
  BY <1>a DEF Idle
<1>0. CASE UNCHANGED vars
  BY <1>0, <1>a DEF vars, chainVars, bridgeVars, processVars
<1>1. CASE Exit
  BY <1>1, <1>a DEF Exit, chainVars, bridgeVars, processVars
<1>2. ASSUME NEW j \in Intents, CreateIntent(j) PROVE Idle(i)
  BY <1>2, <1>a DEF CreateIntent, chainVars, bridgeVars, processVars
<1>3. ASSUME NEW j \in Intents, PipelineStep(j) PROVE Idle(i)
  <2>1. CASE Goes(j)
    BY <2>1, GoingSteps, <1>a DEF OnlyGoes, chainVars, bridgeVars, processVars
  <2>2. CASE BridgeSend(j)
    BY <2>2 DEF BridgeSend, Idle, TypeOK
  <2>3. CASE SendPrefund(j)
    BY <2>3 DEF SendPrefund, Idle, TypeOK, bridgeVars, processVars
  <2>4. CASE SubmitExecution(j)
    BY <2>4 DEF SubmitExecution, Idle, TypeOK, bridgeVars, processVars
  <2>5. ASSUME ~Goes(j), ~BridgeSend(j), ~SendPrefund(j), ~SubmitExecution(j)
        PROVE  UNCHANGED chainVars
    BY <1>3, <2>5 DEF PipelineStep, Proceed, Goes, Decide, ReadBalanceBefore, MarkBridging, BridgeSubmitted,
       FundingSeen, MarkExecuting, MarkFinalizing, RecordMint, MarkSucceeded, Stop, Catch
  <2> QED
    BY <2>1, <2>2, <2>3, <2>4, <2>5, <1>a DEF chainVars, bridgeVars, processVars
<1>4. ASSUME NEW j \in Intents, ChainStep(j) PROVE Idle(i)
  <2>1. ASSUME NEW fee \in BridgeFees \union {0}, BridgeLands(j, fee) PROVE Idle(i)
    BY <2>1 DEF BridgeLands, Idle, TypeOK
  <2>2. CASE PrefundMined(j)
    BY <2>2 DEF PrefundMined, Idle, TypeOK, bridgeVars, processVars
  <2>3. CASE ExecutionMined(j)
    BY <2>3 DEF ExecutionMined, Idle, TypeOK, bridgeVars, processVars
  <2> QED
    BY <1>4, <2>1, <2>2, <2>3 DEF ChainStep
<1>5. ASSUME NEW r \in Requests, RetryStep(r) PROVE Idle(i)
  BY <1>5, <1>a, RetryLeavesPipeline DEF chainVars, bridgeVars
<1> QED
  BY <1>0, <1>1, <1>2, <1>3, <1>4, <1>5 DEF Next

-----------------------------------------------------------------------------
(* Attribution.  While an intent watches the router undisturbed, the       *)
(* balance is what it saw first plus what its own transfer brought.        *)
Attribution(i) ==
  /\ pc[i] \in BeforeSend => wire[i] = "none"
  /\ pc[i] \in BeforeExecute => tx[i] = "none" /\ prefund[i] = "none"
  /\ wire[i] # "landed" => landed[i] = 0
  /\ pc[i] \in BeforeExecute \ {"markExecuting", "execute"} => execAmount[i] = 0
  /\ pc[i] \in Watching /\ UsesRouter(i) /\ ~disturbed[i] => routerBalance = before[i] + landed[i]
  /\ UsesRouter(i) /\ execAmount[i] # 0 /\ ~disturbed[i] => execAmount[i] = landed[i]

(* What moves the router for another intent disturbs those that watch it.  *)
LEMMA OthersMove ==
  ASSUME TypeOK, NEW k \in Intents, NEW i \in Intents, i # k, Attribution(k),
         pc' = pc, UNCHANGED localVars, wire'[k] = wire[k], landed'[k] = landed[k],
         tx'[k] = tx[k], prefund'[k] = prefund[k],
         UNCHANGED routerBalance \/ RouterMovedBy(i), RouterMovedBy(i) \/ UNCHANGED disturbed
  PROVE  Attribution(k)'
<1>1. disturbed'[k] = disturbed[k] \/ (RouterMovedBy(i) /\ disturbed'[k])
  BY Zenon DEF TypeOK, RouterMovedBy
<1>2. RouterMovedBy(i) /\ pc[k] \in Watching => disturbed'[k]
  BY Zenon DEF RouterMovedBy
<1>3. CASE RouterMovedBy(i)
  BY <1>1, <1>2, <1>3 DEF Attribution, UsesRouter, localVars
<1>4. CASE ~RouterMovedBy(i)
  BY <1>4 DEF Attribution, UsesRouter, localVars
<1> QED
  BY <1>3, <1>4

LEMMA AttributionStep ==
  ASSUME TypeOK, [Next]_vars, \A i \in Intents : Attribution(i), NEW k \in Intents
  PROVE  Attribution(k)'
<1>a. Attribution(k)
  OBVIOUS
<1>b. pc \in [Intents -> Awaits \union {"idle", "done", "dead"}]
  BY DEF TypeOK
<1>c. /\ disturbed \in [Intents -> BOOLEAN] /\ execAmount \in [Intents -> Nat]
      /\ before \in [Intents -> Nat] /\ landed \in [Intents -> Nat]
      /\ plan \in [Intents -> Plans \union {NoPlan}]
      /\ wire \in [Intents -> {"none", "sent", "landed"}]
      /\ prefund \in [Intents -> {"none", "pending", "ok", "reverted"}]
      /\ tx \in [Intents -> {"none", "pending", "ok", "reverted"}]
      /\ routerBalance \in Nat
  BY DEF TypeOK
<1>d. ASSUME pc'[k] = pc[k], UNCHANGED <<localVars, chainVars, disturbed>> PROVE Attribution(k)'
  BY <1>a, <1>d DEF Attribution, UsesRouter, localVars, chainVars, bridgeVars, processVars
(* A pipeline step of another intent that sends at most its own.           *)
<1>e. ASSUME NEW i \in Intents, i # k, pc'[k] = pc[k], UNCHANGED <<routerBalance, landed, disturbed>>,
             plan'[k] = plan[k], before'[k] = before[k], execAmount'[k] = execAmount[k],
             wire'[k] = wire[k], prefund'[k] = prefund[k], tx'[k] = tx[k]
      PROVE  Attribution(k)'
  BY <1>a, <1>e DEF Attribution, UsesRouter
<1>0. CASE UNCHANGED vars
  BY <1>0, <1>d DEF vars
<1>1. CASE Exit
  BY <1>1, <1>a, <1>b DEF Exit, Attribution, UsesRouter, BeforeSend, BeforeExecute, Awaits, Watching,
     localVars, chainVars, bridgeVars, processVars
<1>2. ASSUME NEW i \in Intents, CreateIntent(i) PROVE Attribution(k)'
  BY <1>2, <1>a, <1>b DEF CreateIntent, Goto, Attribution, UsesRouter, BeforeSend, BeforeExecute,
     Watching, localVars, chainVars, bridgeVars, processVars
<1>3. ASSUME NEW i \in Intents, PipelineStep(i) PROVE Attribution(k)'
  <2>1. CASE Goes(i)
    <3>1. OnlyGoes(i)
      BY <2>1, GoingSteps
    <3> QED
      BY <3>1, <1>a, <1>b DEF OnlyGoes, Goto, Attribution, UsesRouter, BeforeSend, BeforeExecute,
         Watching, localVars, chainVars, bridgeVars, processVars
  <2>2. ASSUME NEW p \in Plans, NEW quoteOnly \in BOOLEAN, NEW approved \in BOOLEAN,
               NEW requiresApproval \in BOOLEAN, NEW allowed \in BOOLEAN,
               Decide(i, p, quoteOnly, approved, requiresApproval, allowed)
        PROVE  Attribution(k)'
    BY <2>2, <1>a, <1>b, <1>c DEF Decide, Goto, Attribution, UsesRouter, BeforeSend, BeforeExecute,
       Watching, chainVars, bridgeVars, processVars
  <2>3. CASE ReadBalanceBefore(i)
    <3>1. CASE i # k
      BY <3>1, <2>3, <1>b, <1>c, <1>e DEF ReadBalanceBefore, Goto, chainVars, bridgeVars, processVars
    <3>2. CASE i = k
      BY <3>2, <2>3, <1>a, <1>b, <1>c DEF ReadBalanceBefore, Goto, Attribution, UsesRouter, BeforeSend,
         RouterBalanceSeen, BeforeExecute, Watching, chainVars, bridgeVars, processVars
    <3> QED
      BY <3>1, <3>2
  <2>4. CASE BridgeSubmitted(i)
    <3>1. CASE i # k
      BY <3>1, <2>4, <1>b, <1>c, <1>e DEF BridgeSubmitted, Goto, chainVars, bridgeVars, processVars
    <3>2. CASE i = k
      BY <3>2, <2>4, <1>a, <1>b, <1>c DEF BridgeSubmitted, Goto, Attribution, UsesRouter, ReadsBalance,
         BeforeSend, BeforeExecute, Watching, chainVars, bridgeVars, processVars
    <3> QED
      BY <3>1, <3>2
  <2>5. CASE FundingSeen(i)
    <3>1. CASE i # k
      BY <3>1, <2>5, <1>b, <1>c, <1>e DEF FundingSeen, Goto, chainVars, bridgeVars, processVars
    <3>2. CASE i = k
      BY <3>2, <2>5, <1>a, <1>b, <1>c DEF FundingSeen, Goto, Attribution, UsesRouter, RouterBalanceSeen,
         ReceivedForIntent, BeforeSend, BeforeExecute, Watching, chainVars, bridgeVars, processVars
    <3> QED
      BY <3>1, <3>2
  <2>6. CASE BridgeSend(i)
    BY <2>6, <1>a, <1>b, <1>c DEF BridgeSend, Goto, Attribution, UsesRouter, BeforeSend, BeforeExecute,
       Watching, localVars
  <2>7. CASE SendPrefund(i)
    BY <2>7, <1>a, <1>b, <1>c DEF SendPrefund, Goto, Attribution, UsesRouter, BeforeSend, BeforeExecute,
       Watching, localVars, bridgeVars, processVars
  <2>8. CASE SubmitExecution(i)
    BY <2>8, <1>a, <1>b, <1>c DEF SubmitExecution, Goto, Attribution, UsesRouter, BeforeSend,
       BeforeExecute, Watching, localVars, bridgeVars, processVars
  <2>9. CASE MarkBridging(i)
    BY <2>9, <1>a, <1>b DEF MarkBridging, Goto, Attribution, UsesRouter, BeforeSend, BeforeExecute, Watching,
       localVars, chainVars, bridgeVars, processVars
  <2>10. CASE MarkExecuting(i)
    BY <2>10, <1>a, <1>b DEF MarkExecuting, Goto, Attribution, UsesRouter, BeforeSend, BeforeExecute, Watching,
       localVars, chainVars, bridgeVars, processVars
  <2>11. CASE MarkFinalizing(i)
    BY <2>11, <1>a, <1>b DEF MarkFinalizing, Goto, Attribution, UsesRouter, BeforeSend, BeforeExecute, Watching,
       localVars, chainVars, bridgeVars, processVars
  <2>12. CASE MarkSucceeded(i)
    BY <2>12, <1>a, <1>b DEF MarkSucceeded, Goto, Attribution, UsesRouter, BeforeSend, BeforeExecute, Watching,
       localVars, chainVars, bridgeVars, processVars
  <2>13. CASE Stop(i)
    BY <2>13, <1>a, <1>b DEF Stop, Goto, Attribution, UsesRouter, BeforeSend, BeforeExecute, Watching,
       localVars, chainVars, bridgeVars, processVars
  <2>14. CASE Catch(i)
    BY <2>14, <1>a, <1>b DEF Catch, Goto, Attribution, UsesRouter, BeforeSend, BeforeExecute, Watching,
       localVars, chainVars, bridgeVars, processVars
  <2>15. ASSUME NEW outcome \in {"minted", "skipped"}, RecordMint(i, outcome) PROVE Attribution(k)'
    BY <2>15, <1>a, <1>b DEF RecordMint, Goto, Attribution, UsesRouter, BeforeSend, BeforeExecute,
       Watching, localVars, chainVars, bridgeVars, processVars
  <2> QED
    BY <1>3, <2>1, <2>2, <2>3, <2>4, <2>5, <2>6, <2>7, <2>8, <2>9, <2>10, <2>11, <2>12, <2>13, <2>14, <2>15 DEF PipelineStep, Proceed, Goes
<1>4. ASSUME NEW i \in Intents, ChainStep(i) PROVE Attribution(k)'
  <2>a. pc' = pc /\ UNCHANGED localVars
    BY <1>4 DEF ChainStep, BridgeLands, PrefundMined, ExecutionMined
  <2>b. Attribution(i)
    OBVIOUS
  <2>1. ASSUME NEW fee \in BridgeFees \union {0}, BridgeLands(i, fee) PROVE Attribution(k)'
    <3>1. CASE i = k
      <4>1. /\ wire[k] = "sent" /\ wire'[k] = "landed" /\ landed[k] = 0
            /\ landed'[k] = plan[k].amount - fee
            /\ UNCHANGED <<tx, prefund, before, execAmount, plan, pc>>
            /\ UsesRouter(k) => routerBalance' = routerBalance + plan[k].amount - fee
        BY <2>1, <2>a, <3>1, <1>a, <1>c DEF BridgeLands, Attribution, localVars
      <4>2. disturbed'[k] = disturbed[k]
        BY <2>1, <3>1, <1>c, Zenon DEF BridgeLands, RouterMovedBy
      <4>3. plan[k].amount \in Nat /\ fee \in Nat
        BY AmountsAreNat, FeeAssumption
      <4> QED
        BY <4>1, <4>2, <4>3, <1>a, <1>c DEF Attribution, UsesRouter
    <3>2. CASE i # k
      <4>1. wire'[k] = wire[k] /\ landed'[k] = landed[k] /\ UNCHANGED <<tx, prefund>>
        BY <2>1, <3>2, <1>c DEF BridgeLands
      <4>2. UNCHANGED routerBalance \/ RouterMovedBy(i)
        BY <2>1 DEF BridgeLands
      <4>3. RouterMovedBy(i) \/ UNCHANGED disturbed
        BY <2>1 DEF BridgeLands
      <4> QED
        BY <4>1, <4>2, <4>3, <3>2, <2>a, OthersMove
    <3> QED
      BY <3>1, <3>2
  <2>2. CASE PrefundMined(i)
    <3>1. UNCHANGED <<wire, landed, tx>> /\ prefund[i] # "none"
      BY <2>2 DEF PrefundMined, bridgeVars, processVars
    <3>2. i # k => prefund'[k] = prefund[k]
      BY <2>2, <1>c DEF PrefundMined
    <3>3. (UNCHANGED routerBalance \/ RouterMovedBy(i)) /\ (RouterMovedBy(i) \/ UNCHANGED disturbed)
      BY <2>2 DEF PrefundMined
    <3>4. CASE i # k
      BY <3>1, <3>2, <3>3, <3>4, <2>a, OthersMove
    <3>5. CASE i = k
      <4>1. pc[k] \notin BeforeExecute
        BY <3>1, <3>5, <1>a DEF Attribution
      <4>2. disturbed'[k] = disturbed[k]
        BY <3>3, <3>5, <1>c, Zenon DEF RouterMovedBy
      <4> QED
        BY <4>1, <4>2, <3>1, <2>a, <1>a DEF Attribution, UsesRouter, localVars, BeforeExecute,
           BeforeSend, Watching
    <3> QED
      BY <3>4, <3>5
  <2>3. CASE ExecutionMined(i)
    <3>1. UNCHANGED <<wire, landed, prefund>> /\ tx[i] # "none"
      BY <2>3 DEF ExecutionMined, bridgeVars, processVars
    <3>2. i # k => tx'[k] = tx[k]
      BY <2>3, <1>c DEF ExecutionMined
    <3>3. (UNCHANGED routerBalance \/ RouterMovedBy(i)) /\ (RouterMovedBy(i) \/ UNCHANGED disturbed)
      BY <2>3 DEF ExecutionMined
    <3>4. CASE i # k
      BY <3>1, <3>2, <3>3, <3>4, <2>a, OthersMove
    <3>5. CASE i = k
      <4>1. pc[k] \notin BeforeExecute
        BY <3>1, <3>5, <1>a DEF Attribution
      <4>2. disturbed'[k] = disturbed[k]
        BY <3>3, <3>5, <1>c, Zenon DEF RouterMovedBy
      <4> QED
        BY <4>1, <4>2, <3>1, <2>a, <1>a DEF Attribution, UsesRouter, localVars, BeforeExecute,
           BeforeSend, Watching
    <3> QED
      BY <3>4, <3>5
  <2> QED
    BY <1>4, <2>1, <2>2, <2>3 DEF ChainStep
<1>5. ASSUME NEW r \in Requests, RetryStep(r) PROVE Attribution(k)'
  BY <1>5, <1>d, RetryLeavesPipeline
<1> QED
  BY <1>0, <1>1, <1>2, <1>3, <1>4, <1>5 DEF Next

-----------------------------------------------------------------------------
(* The inductive invariant: types, plans, who works on what, which         *)
(* receipts are already there, and which rows a request may write back.    *)
PipelineInv == TypeOK /\ PlanMade /\ StatusFollowsPipeline /\ Complete /\ RetryInv

LEMMA InvHolds == Spec => []PipelineInv
<1>1. Init => PipelineInv
  <2> SUFFICES ASSUME Init PROVE PipelineInv
    OBVIOUS
  <2>1. store \in [Intents -> Receipts]
    BY DEF Init, NoReceipt, Receipt, Receipts
  <2>2. TypeOK
    BY <2>1, FundsAssumption, NoRetryType DEF Init, TypeOK
  <2>3. PlanMade
    BY DEF Init, PlanMade
  <2>4. StatusFollowsPipeline
    BY DEF Init, StatusFollowsPipeline, StatusesAt, NoReceipt, Receipt
  <2>5. Complete
    BY DEF Init, Complete, NoReceipt, Receipt
  <2>6. RetryInv
    BY DEF Init, RetryInv, Requested, NoRetry, Retry
  <2> QED
    BY <2>2, <2>3, <2>4, <2>5, <2>6 DEF PipelineInv
<1>2. PipelineInv /\ [Next]_vars => PipelineInv'
  BY TypeStep, PlanMadeStep, StatusStep, CompleteStep, RetryInvStep DEF PipelineInv
<1> QED
  BY <1>1, <1>2, PTL DEF Spec

(* Type correctness: in particular the router and the operator never pay   *)
(* out more than they hold, whoever's funds they take for whose.           *)
THEOREM TypeCorrect == Spec => []TypeOK
<1>1. PipelineInv => TypeOK
  BY DEF PipelineInv
<1> QED
  BY <1>1, InvHolds, PTL

(* An intent in flight has a pipeline working on it, unless the process    *)
(* exited under it.                                                        *)
THEOREM InFlightHasOwner == Spec => []StatusFollowsPipeline
<1>1. PipelineInv => StatusFollowsPipeline
  BY DEF PipelineInv
<1> QED
  BY <1>1, InvHolds, PTL

(* An intent that reads succeeded has all its receipts, the outcome of the *)
(* receipt token among them.                                               *)
THEOREM SuccessIsComplete == Spec => []SucceededIsComplete
<1>1. PipelineInv => SucceededIsComplete
  BY DEF PipelineInv, Complete, SucceededIsComplete
<1> QED
  BY <1>1, InvHolds, PTL

(* Pipelines, requests that mint a token again with rows read before, and  *)
(* exits of the process together keep to the life cycle of a status.       *)
THEOREM PipelineImplementsLifecycle == Spec => ImplementsLifecycle
<1>1. Init => Lifecycle!LifecycleInit
  <2> SUFFICES ASSUME Init PROVE Lifecycle!LifecycleInit
    OBVIOUS
  <2>1. \A i \in Intents : store[i].status = "none" /\ store[i].nft = "none"
    BY DEF Init, NoReceipt, Receipt
  <2> QED
    BY <2>1 DEF Lifecycle!LifecycleInit
<1>2. PipelineInv /\ [Next]_vars
        => [Lifecycle!LifecycleNext]_(<<[i \in Intents |-> store[i].status],
                                        [i \in Intents |-> store[i].nft # "none"]>>)
  BY LifecycleStep DEF PipelineInv
<1> QED
  BY <1>1, <1>2, InvHolds, PTL DEF Spec, ImplementsLifecycle, Lifecycle!LifecycleSpec,
     Lifecycle!lifecycleVars

(* Nothing new is sent on behalf of an intent that reads settled.          *)
THEOREM SettledStaysQuiet == Spec => SettledIsQuiescent
<1> DEFINE Quiet(i) == store[i].status \in Settled =>
                         /\ wire[i] = "none" => wire'[i] = "none"
                         /\ prefund[i] = "none" => prefund'[i] = "none"
                         /\ tx[i] = "none" => tx'[i] = "none"
<1>1. ASSUME PipelineInv, [Next]_vars, NEW i \in Intents PROVE Quiet(i)
  <2>1. TypeOK /\ StatusFollowsPipeline
    BY <1>1 DEF PipelineInv
  <2>2. store[i].status \in Settled => pc[i] \notin {"bridge", "execute", "submit"}
    BY <2>1 DEF StatusFollowsPipeline, StatusesAt, Settled, Parked
  <2> QED
    BY <1>1, <2>1, <2>2, NothingElseSends DEF Idle
<1>2. PipelineInv /\ [Next]_vars => [\A i \in Intents : Quiet(i)]_vars
  BY <1>1
<1> QED
  BY <1>2, InvHolds, PTL DEF Spec, SettledIsQuiescent
(* Attribution by balance difference is exact for an intent that has the   *)
(* router to itself while it waits, whatever was left there before.        *)
THEOREM ExclusiveAttribution == Spec => []ExclusiveWindowAttribution
<1> DEFINE Attributed == \A i \in Intents : Attribution(i)
<1>1. Init => Attributed
  BY DEF Init, Attribution, Watching
<1>2. PipelineInv /\ Attributed /\ [Next]_vars => Attributed'
  BY AttributionStep DEF PipelineInv
<1>3. Attributed => ExclusiveWindowAttribution
  BY DEF Attribution, ExclusiveWindowAttribution
<1> HIDE DEF Attributed
<1> QED
  BY <1>1, <1>2, <1>3, InvHolds, PTL DEF Spec
=============================================================================
