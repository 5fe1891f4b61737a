-------------------------- MODULE CctpBridge_proofs --------------------------
(***************************************************************************)
(* Proofs about CctpBridge, for every set of calls and plans and whatever  *)
(* the wallets hold in the beginning.                                      *)
(***************************************************************************)
EXTENDS CctpBridge, TLAPS

(* Amounts are naturals, also of a call that was not made. *)
LEMMA AmountsAreNat ==
  ASSUME TypeOK, NEW t \in Transfers
  PROVE  Amount(t) \in Nat /\ From(t) \in Vms /\ To(t) \in Vms
  BY PlansAssumption DEF TypeOK, Amount, From, To, NoPlan, PlanRecords, Vms

(* The initial states have the types.                                      *)
LEMMA TypeInit == Init => TypeOK
  BY FundsAssumption DEF Init, TypeOK, TxStates, Answered, NoAnswer

(* What a return and a move to another await do to the types.              *)
LEMMA ReturnTypes ==
  ASSUME TypeOK, plan' \in [Transfers -> Plans \union {NoPlan}],
         NEW t \in Transfers, NEW status \in {"submitted", "pending", "failed"},
         NEW burn \in BOOLEAN, NEW recoverable \in BOOLEAN,
         Return(t, status, burn, recoverable), UNCHANGED chainVars
  PROVE  TypeOK'
<1>1. Answered(status, burn, recoverable) \in
        [status : {"none", "submitted", "pending", "failed"}, burn : BOOLEAN, recoverable : BOOLEAN]
  BY Zenon DEF Answered
<1>2. answer' \in [Transfers -> [status : {"none", "submitted", "pending", "failed"},
                                burn : BOOLEAN, recoverable : BOOLEAN]]
  BY <1>1, Zenon DEF TypeOK, Return
<1>3. pc' \in [Transfers -> Awaits \union {"idle", "answered", "dead"}]
  BY Zenon DEF TypeOK, Return, Goto
<1> QED
  BY <1>2, <1>3, Zenon DEF TypeOK, chainVars, walletVars, txVars

LEMMA GotoTypes ==
  ASSUME TypeOK, plan' \in [Transfers -> Plans \union {NoPlan}],
         NEW t \in Transfers, NEW label \in Awaits, Goto(t, label), UNCHANGED <<answer, chainVars>>
  PROVE  TypeOK'
<1>1. pc' \in [Transfers -> Awaits \union {"idle", "answered", "dead"}]
  BY Zenon DEF TypeOK, Goto
<1> QED
  BY <1>1, Zenon DEF TypeOK, chainVars, walletVars, txVars

(* Each step keeps the types; the burn takes no more than there is.        *)
LEMMA TypeStep ==
  ASSUME TypeOK, [Next]_vars
  PROVE  TypeOK'
<1>1. ASSUME NEW t \in Transfers, NEW p \in Plans, NEW problem \in Problems,
              Begin(t, p, problem)
       PROVE  TypeOK'
  <2>1. plan' \in [Transfers -> Plans \union {NoPlan}]
    BY <1>1, Zenon DEF Begin, TypeOK
  <2>2. CASE BadRecipient(p) \/ problem # "none"
    BY <1>1, <2>1, <2>2, ReturnTypes, Zenon DEF Begin
  <2>3. CASE ~(BadRecipient(p) \/ problem # "none")
    <3>1. PICK label \in Awaits : Goto(t, label)
      BY <1>1, <2>3, Zenon DEF Begin, FirstAwait, Awaits, SourceAwaits
    <3> QED
      BY <1>1, <2>1, <2>3, <3>1, GotoTypes, Zenon DEF Begin
  <2> QED
    BY <2>2, <2>3
<1>2. ASSUME NEW t \in Transfers, EnsureTrustline(t) PROVE TypeOK'
  BY AmountsAreNat, PlansAssumption, <1>2 DEF EnsureTrustline, FirstAwait, TypeOK, Goto,
     TxStates, Vms, Awaits, SourceAwaits, MintAwaits, vars, chainVars, walletVars, txVars
<1>3. ASSUME NEW t \in Transfers, ReadBalance(t) PROVE TypeOK'
  <2>1. plan' \in [Transfers -> Plans \union {NoPlan}]
    BY <1>3, Zenon DEF ReadBalance, TypeOK
  <2>2. CASE funds[From(t)] < Amount(t)
    BY <1>3, <2>1, <2>2, ReturnTypes, Zenon DEF ReadBalance
  <2>3. CASE ~(funds[From(t)] < Amount(t))
    <3>1. PICK label \in Awaits : Goto(t, label)
      BY <1>3, <2>3, Zenon DEF ReadBalance, Awaits, SourceAwaits
    <3> QED
      BY <1>3, <2>1, <2>3, <3>1, GotoTypes, Zenon DEF ReadBalance
  <2> QED
    BY <2>2, <2>3
<1>4. ASSUME NEW t \in Transfers, Approve(t) PROVE TypeOK'
  BY AmountsAreNat, PlansAssumption, <1>4 DEF Approve, TypeOK, Goto, TxStates, Vms, Awaits,
     SourceAwaits, MintAwaits, vars, chainVars, walletVars, txVars
<1>5. ASSUME NEW t \in Transfers, ApproveReceipt(t) PROVE TypeOK'
  BY AmountsAreNat, PlansAssumption, <1>5 DEF ApproveReceipt, TypeOK, Goto, TxStates, Vms,
     Awaits, SourceAwaits, MintAwaits, vars, chainVars, walletVars, txVars
<1>6. ASSUME NEW t \in Transfers, SendBurn(t) PROVE TypeOK'
  BY AmountsAreNat, PlansAssumption, <1>6 DEF SendBurn, BurnSent, TypeOK, Goto, TxStates, Vms,
     Awaits, SourceAwaits, MintAwaits, vars, chainVars, walletVars, txVars
<1>7. ASSUME NEW t \in Transfers, SendSolanaBurn(t) PROVE TypeOK'
  BY AmountsAreNat, PlansAssumption, <1>7 DEF SendSolanaBurn, BurnSent, TypeOK, Goto,
     TxStates, Vms, Awaits, SourceAwaits, MintAwaits, vars, chainVars, walletVars, txVars
<1>8. ASSUME NEW t \in Transfers, SendStellarBurn(t) PROVE TypeOK'
  BY AmountsAreNat, PlansAssumption, <1>8 DEF SendStellarBurn, BurnSent, TypeOK, Goto,
     TxStates, Vms, Awaits, SourceAwaits, MintAwaits, vars, chainVars, walletVars, txVars
<1>9. ASSUME NEW t \in Transfers, BurnReceipt(t) PROVE TypeOK'
  BY AmountsAreNat, PlansAssumption, <1>9 DEF BurnReceipt, TypeOK, Goto, TxStates, Vms,
     Awaits, SourceAwaits, MintAwaits, vars, chainVars, walletVars, txVars
<1>10. ASSUME NEW t \in Transfers, BurnWithoutMessage(t) PROVE TypeOK'
  BY AmountsAreNat, PlansAssumption, <1>10 DEF BurnWithoutMessage, Return, TypeOK, Answered,
     Goto, TxStates, Vms, Awaits, SourceAwaits, MintAwaits, vars, chainVars, walletVars, txVars
<1>11. ASSUME NEW t \in Transfers, NEW accepted \in BOOLEAN, AttestationSeen(t, accepted) PROVE TypeOK'
  <2>1. plan' \in [Transfers -> Plans \union {NoPlan}]
    BY <1>11, Zenon DEF AttestationSeen, TypeOK
  <2>2. CASE ~accepted
    BY <1>11, <2>1, <2>2, ReturnTypes, Zenon DEF AttestationSeen
  <2>3. CASE ~(~accepted)
    <3>1. PICK label \in Awaits : Goto(t, label)
      BY <1>11, <2>3, Zenon DEF AttestationSeen, Awaits, MintAwaits
    <3> QED
      BY <1>11, <2>1, <2>3, <3>1, GotoTypes, Zenon DEF AttestationSeen
  <2> QED
    BY <2>2, <2>3
<1>12. ASSUME NEW t \in Transfers, AttestationTimeout(t) PROVE TypeOK'
  BY AmountsAreNat, PlansAssumption, <1>12 DEF AttestationTimeout, Return, TypeOK, Answered,
     Goto, TxStates, Vms, Awaits, SourceAwaits, MintAwaits, vars, chainVars, walletVars, txVars
<1>13. ASSUME NEW t \in Transfers, SetUpSolana(t) PROVE TypeOK'
  <2>0. PICK label \in Awaits : Goto(t, label)
    BY <1>13, Zenon DEF SetUpSolana, Awaits, MintAwaits
  <2>1. pc' \in [Transfers -> Awaits \union {"idle", "answered", "dead"}]
    BY <2>0, Zenon DEF TypeOK, Goto
  <2>2. setupTx' \in [Transfers -> TxStates]
    BY <1>13, Zenon DEF SetUpSolana, TypeOK, TxStates
  <2> QED
    BY <1>13, <2>1, <2>2, Zenon DEF SetUpSolana, TypeOK, walletVars
<1>14. ASSUME NEW t \in Transfers, SolanaIsSetUp(t) PROVE TypeOK'
  BY AmountsAreNat, PlansAssumption, <1>14 DEF SolanaIsSetUp, TypeOK, Goto, TxStates, Vms,
     Awaits, SourceAwaits, MintAwaits, vars, chainVars, walletVars, txVars
<1>15. ASSUME NEW t \in Transfers, ReceiveMessage(t) PROVE TypeOK'
  BY AmountsAreNat, PlansAssumption, <1>15 DEF ReceiveMessage, MintSent, MintPossible, TypeOK,
     Goto, TxStates, Vms, Awaits, SourceAwaits, MintAwaits, vars, chainVars, walletVars, txVars
<1>16. ASSUME NEW t \in Transfers, ReceiveOnSolana(t) PROVE TypeOK'
  BY AmountsAreNat, PlansAssumption, <1>16 DEF ReceiveOnSolana, MintSent, MintPossible,
     TypeOK, Goto, TxStates, Vms, Awaits, SourceAwaits, MintAwaits, vars, chainVars,
     walletVars, txVars
<1>17. ASSUME NEW t \in Transfers, ReceiveOnStellar(t) PROVE TypeOK'
  BY AmountsAreNat, PlansAssumption, <1>17 DEF ReceiveOnStellar, MintSent, MintPossible,
     TypeOK, Goto, TxStates, Vms, Awaits, SourceAwaits, MintAwaits, vars, chainVars,
     walletVars, txVars
<1>18. ASSUME NEW t \in Transfers, MintReceipt(t) PROVE TypeOK'
  BY AmountsAreNat, PlansAssumption, <1>18 DEF MintReceipt, Return, TypeOK, Answered, Goto,
     TxStates, Vms, Awaits, SourceAwaits, MintAwaits, vars, chainVars, walletVars, txVars
<1>19. ASSUME NEW t \in Transfers, Fail(t) PROVE TypeOK'
  <2>1. plan' \in [Transfers -> Plans \union {NoPlan}]
    BY <1>19, Zenon DEF Fail, Thrown, TypeOK
  <2> QED
    BY <1>19, <2>1, ReturnTypes, Zenon DEF Fail, Thrown
<1>20. ASSUME NEW t \in Transfers, Reject(t) PROVE TypeOK'
  <2>1. plan' \in [Transfers -> Plans \union {NoPlan}]
    BY <1>20, Zenon DEF Reject, Thrown, TypeOK
  <2> QED
    BY <1>20, <2>1, ReturnTypes, Zenon DEF Reject, Thrown
<1>21. ASSUME NEW t \in Transfers, ApproveMined(t) PROVE TypeOK'
  <2>1. allowance' \in [Vms -> Nat]
    BY <1>21, AmountsAreNat, Zenon DEF ApproveMined, TypeOK
  <2>2. approveTx' \in [Transfers -> TxStates]
    BY <1>21, SMT DEF ApproveMined, TypeOK, TxStates
  <2> QED
    BY <1>21, <2>1, <2>2, Zenon DEF ApproveMined, TypeOK
<1>22. ASSUME NEW t \in Transfers, BurnMined(t) PROVE TypeOK'
  <2>1. CASE BurnPossible(t)
    <3>1. funds[From(t)] - Amount(t) \in Nat
          /\ (From(t) # "svm" => allowance[From(t)] - Amount(t) \in Nat)
      BY <2>1, AmountsAreNat DEF BurnPossible, TypeOK
    <3>2. funds' \in [Vms -> Nat] /\ allowance' \in [Vms -> Nat]
      BY <1>22, <3>1, AmountsAreNat, SMT DEF BurnMined, TypeOK
    <3>3. burnTx' \in [Transfers -> TxStates] /\ message' \in [Transfers -> {"none", "sent", "attested"}]
      BY <1>22, Zenon DEF BurnMined, TypeOK, TxStates
    <3> QED
      BY <1>22, <3>2, <3>3, Zenon DEF BurnMined, TypeOK
  <2>2. CASE ~BurnPossible(t)
    <3>1. burnTx' \in [Transfers -> TxStates]
      BY <1>22, <2>2, SMT DEF BurnMined, TypeOK, TxStates
    <3> QED
      BY <1>22, <2>2, <3>1, Zenon DEF BurnMined, TypeOK
  <2> QED
    BY <2>1, <2>2
<1>23. ASSUME NEW t \in Transfers, SetupMined(t) PROVE TypeOK'
  BY AmountsAreNat, PlansAssumption, <1>23 DEF SetupMined, TypeOK, TxStates, Vms, Awaits,
     SourceAwaits, MintAwaits, vars, chainVars, walletVars, txVars
<1>24. ASSUME NEW t \in Transfers, MintMined(t) PROVE TypeOK'
  BY AmountsAreNat, PlansAssumption, <1>24 DEF MintMined, MintPossible, TypeOK, TxStates, Vms,
     Awaits, SourceAwaits, MintAwaits, vars, chainVars, walletVars, txVars
<1>25. ASSUME NEW t \in Transfers, Attest(t) PROVE TypeOK'
  BY AmountsAreNat, PlansAssumption, <1>25 DEF Attest, TypeOK, TxStates, Vms, Awaits,
     SourceAwaits, MintAwaits, vars, chainVars, walletVars, txVars
<1>26. ASSUME NEW t \in Transfers, Relay(t) PROVE TypeOK'
  BY AmountsAreNat, PlansAssumption, <1>26 DEF Relay, MintPossible, TypeOK, TxStates, Vms,
     Awaits, SourceAwaits, MintAwaits, vars, chainVars, walletVars, txVars
<1>27. CASE Exit
  BY AmountsAreNat, PlansAssumption, <1>27 DEF Exit, TypeOK, TxStates, Vms, Awaits,
     SourceAwaits, MintAwaits, vars, chainVars, walletVars, txVars
<1>28. CASE UNCHANGED vars
  BY AmountsAreNat, PlansAssumption, <1>28 DEF vars, TypeOK, TxStates, Vms, Awaits,
     SourceAwaits, MintAwaits, chainVars, walletVars, txVars
<1> QED
  BY <1>1, <1>2, <1>3, <1>4, <1>5, <1>6, <1>7, <1>8, <1>9, <1>10, <1>11, <1>12, <1>13, <1>14,
     <1>15, <1>16, <1>17, <1>18, <1>19, <1>20, <1>21, <1>22, <1>23, <1>24, <1>25, <1>26,
     <1>27, <1>28 DEF Next, CallNext, Proceed, Mined

-----------------------------------------------------------------------------
(* How far the transactions of a call have come, told from where the call  *)
(* is: what every property below rests on.                                 *)
Story(t) ==
  /\ answer[t].status = "none" <=> pc[t] # "answered"
  /\ pc[t] \in {"idle", "trustline", "balance", "approve"} => approveTx[t] = "none"
  /\ pc[t] \in {"idle"} \union (SourceAwaits \ {"burnWait"}) => burnTx[t] = "none"
  /\ \/ pc[t] \in {"attest"} \union MintAwaits
     \/ message[t] # "none"
     \/ mintTx[t] # "none"
     \/ received[t] # "nobody"
     => burnTx[t] = "ok"
  /\ mintTx[t] = "ok" => received[t] # "nobody"
  /\ answer[t].status # "none" /\ burnTx[t] # "none" => answer[t].burn \/ answer[t].recoverable
  /\ answer[t].status = "submitted" =>
       received[t] # "nobody" \/ (To(t) = "evm" /\ mintTx[t] = "reverted")

(* Each step of any call keeps the story of every call.                    *)
LEMMA StoryStep ==
  ASSUME TypeOK, [Next]_vars, NEW k \in Transfers, Story(k)
  PROVE  Story(k)'
<1>1. ASSUME NEW t \in Transfers, NEW p \in Plans, NEW problem \in Problems,
              Begin(t, p, problem)
       PROVE  Story(k)'
  BY <1>1 DEF Begin, Return, FirstAwait, Story, TypeOK, To, Answered, Goto, Awaits,
     SourceAwaits, MintAwaits, vars, chainVars, walletVars, txVars
<1>2. ASSUME NEW t \in Transfers, EnsureTrustline(t) PROVE Story(k)'
  BY <1>2 DEF EnsureTrustline, FirstAwait, Story, TypeOK, To, Goto, Awaits, SourceAwaits,
     MintAwaits, vars, chainVars, walletVars, txVars
<1>3. ASSUME NEW t \in Transfers, ReadBalance(t) PROVE Story(k)'
  BY <1>3 DEF ReadBalance, Return, Story, TypeOK, To, Answered, Goto, Awaits, SourceAwaits,
     MintAwaits, vars, chainVars, walletVars, txVars
<1>4. ASSUME NEW t \in Transfers, Approve(t) PROVE Story(k)'
  BY <1>4 DEF Approve, Story, TypeOK, To, Goto, Awaits, SourceAwaits, MintAwaits, vars,
     chainVars, walletVars, txVars
<1>5. ASSUME NEW t \in Transfers, ApproveReceipt(t) PROVE Story(k)'
  BY <1>5 DEF ApproveReceipt, Story, TypeOK, To, Goto, Awaits, SourceAwaits, MintAwaits, vars,
     chainVars, walletVars, txVars
<1>6. ASSUME NEW t \in Transfers, SendBurn(t) PROVE Story(k)'
  BY <1>6 DEF SendBurn, BurnSent, Story, TypeOK, To, Goto, Awaits, SourceAwaits, MintAwaits,
     vars, chainVars, walletVars, txVars
<1>7. ASSUME NEW t \in Transfers, SendSolanaBurn(t) PROVE Story(k)'
  BY <1>7 DEF SendSolanaBurn, BurnSent, Story, TypeOK, To, Goto, Awaits, SourceAwaits,
     MintAwaits, vars, chainVars, walletVars, txVars
<1>8. ASSUME NEW t \in Transfers, SendStellarBurn(t) PROVE Story(k)'
  BY <1>8 DEF SendStellarBurn, BurnSent, Story, TypeOK, To, Goto, Awaits, SourceAwaits,
     MintAwaits, vars, chainVars, walletVars, txVars
<1>9. ASSUME NEW t \in Transfers, BurnReceipt(t) PROVE Story(k)'
  BY <1>9 DEF BurnReceipt, Story, TypeOK, To, Goto, Awaits, SourceAwaits, MintAwaits, vars,
     chainVars, walletVars, txVars
<1>10. ASSUME NEW t \in Transfers, BurnWithoutMessage(t) PROVE Story(k)'
  BY <1>10 DEF BurnWithoutMessage, Return, Story, TypeOK, To, Answered, Goto, Awaits,
     SourceAwaits, MintAwaits, vars, chainVars, walletVars, txVars
<1>11. ASSUME NEW t \in Transfers, NEW accepted \in BOOLEAN, AttestationSeen(t, accepted) PROVE Story(k)'
  BY <1>11 DEF AttestationSeen, Return, Story, TypeOK, To, Answered, Goto, Awaits,
     SourceAwaits, MintAwaits, vars, chainVars, walletVars, txVars
<1>12. ASSUME NEW t \in Transfers, AttestationTimeout(t) PROVE Story(k)'
  BY <1>12 DEF AttestationTimeout, Return, Story, TypeOK, To, Answered, Goto, Awaits,
     SourceAwaits, MintAwaits, vars, chainVars, walletVars, txVars
<1>13. ASSUME NEW t \in Transfers, SetUpSolana(t) PROVE Story(k)'
  BY <1>13 DEF SetUpSolana, Story, TypeOK, To, Goto, Awaits, SourceAwaits, MintAwaits, vars,
     chainVars, walletVars, txVars
<1>14. ASSUME NEW t \in Transfers, SolanaIsSetUp(t) PROVE Story(k)'
  BY <1>14 DEF SolanaIsSetUp, Story, TypeOK, To, Goto, Awaits, SourceAwaits, MintAwaits, vars,
     chainVars, walletVars, txVars
<1>15. ASSUME NEW t \in Transfers, ReceiveMessage(t) PROVE Story(k)'
  BY <1>15 DEF ReceiveMessage, MintSent, MintPossible, Story, TypeOK, To, Goto, Awaits,
     SourceAwaits, MintAwaits, vars, chainVars, walletVars, txVars
<1>16. ASSUME NEW t \in Transfers, ReceiveOnSolana(t) PROVE Story(k)'
  BY <1>16 DEF ReceiveOnSolana, MintSent, MintPossible, Story, TypeOK, To, Goto, Awaits,
     SourceAwaits, MintAwaits, vars, chainVars, walletVars, txVars
<1>17. ASSUME NEW t \in Transfers, ReceiveOnStellar(t) PROVE Story(k)'
  BY <1>17 DEF ReceiveOnStellar, MintSent, MintPossible, Story, TypeOK, To, Goto, Awaits,
     SourceAwaits, MintAwaits, vars, chainVars, walletVars, txVars
<1>18. ASSUME NEW t \in Transfers, MintReceipt(t) PROVE Story(k)'
  BY <1>18 DEF MintReceipt, Return, Story, TypeOK, To, Answered, Goto, Awaits, SourceAwaits,
     MintAwaits, vars, chainVars, walletVars, txVars
<1>19. ASSUME NEW t \in Transfers, Fail(t) PROVE Story(k)'
  BY <1>19 DEF Fail, Thrown, Return, Story, TypeOK, To, Answered, Goto, Awaits, SourceAwaits,
     MintAwaits, vars, chainVars, walletVars, txVars
<1>20. ASSUME NEW t \in Transfers, Reject(t) PROVE Story(k)'
  BY <1>20 DEF Reject, Thrown, Return, Story, TypeOK, To, Answered, Goto, Awaits,
     SourceAwaits, MintAwaits, vars, chainVars, walletVars, txVars
<1>21. ASSUME NEW t \in Transfers, ApproveMined(t) PROVE Story(k)'
  BY <1>21 DEF ApproveMined, Story, TypeOK, To, Awaits, SourceAwaits, MintAwaits, vars,
     chainVars, walletVars, txVars
<1>22. ASSUME NEW t \in Transfers, BurnMined(t) PROVE Story(k)'
  BY <1>22 DEF BurnMined, BurnPossible, Story, TypeOK, To, Awaits, SourceAwaits, MintAwaits,
     vars, chainVars, walletVars, txVars
<1>23. ASSUME NEW t \in Transfers, SetupMined(t) PROVE Story(k)'
  BY <1>23 DEF SetupMined, Story, TypeOK, To, Awaits, SourceAwaits, MintAwaits, vars,
     chainVars, walletVars, txVars
<1>24. ASSUME NEW t \in Transfers, MintMined(t) PROVE Story(k)'
  BY <1>24 DEF MintMined, MintPossible, Story, TypeOK, To, Awaits, SourceAwaits, MintAwaits,
     vars, chainVars, walletVars, txVars
<1>25. ASSUME NEW t \in Transfers, Attest(t) PROVE Story(k)'
  BY <1>25 DEF Attest, Story, TypeOK, To, Awaits, SourceAwaits, MintAwaits, vars, chainVars,
     walletVars, txVars
<1>26. ASSUME NEW t \in Transfers, Relay(t) PROVE Story(k)'
  BY <1>26 DEF Relay, MintPossible, Story, TypeOK, To, Awaits, SourceAwaits, MintAwaits, vars,
     chainVars, walletVars, txVars
<1>27. CASE Exit
  BY <1>27 DEF Exit, Story, TypeOK, To, Awaits, SourceAwaits, MintAwaits, vars, chainVars,
     walletVars, txVars
<1>28. CASE UNCHANGED vars
  BY <1>28 DEF vars, Story, TypeOK, To, Awaits, SourceAwaits, MintAwaits, chainVars,
     walletVars, txVars
<1> QED
  BY <1>1, <1>2, <1>3, <1>4, <1>5, <1>6, <1>7, <1>8, <1>9, <1>10, <1>11, <1>12, <1>13, <1>14,
     <1>15, <1>16, <1>17, <1>18, <1>19, <1>20, <1>21, <1>22, <1>23, <1>24, <1>25, <1>26,
     <1>27, <1>28 DEF Next, CallNext, Proceed, Mined

(* Each step keeps the allowance below one burn's: an approval sets it,    *)
(* a burn lowers it, and the plan of an approval that was made stays.      *)
LEMMA AllowanceStep ==
  ASSUME TypeOK, AllowanceIsOneBurn, \A k \in Transfers : Story(k), [Next]_vars
  PROVE  AllowanceIsOneBurn'
<1>1. ASSUME NEW t \in Transfers, NEW p \in Plans, NEW problem \in Problems,
              Begin(t, p, problem)
       PROVE  AllowanceIsOneBurn'
  BY <1>1 DEF Begin, Return, FirstAwait, Story, TypeOK, AllowanceIsOneBurn, From, Amount,
     Answered, Goto, vars, chainVars, walletVars, txVars
<1>2. ASSUME NEW t \in Transfers, EnsureTrustline(t) PROVE AllowanceIsOneBurn'
  BY <1>2 DEF EnsureTrustline, FirstAwait, Story, TypeOK, AllowanceIsOneBurn, From, Amount,
     Goto, vars, chainVars, walletVars, txVars
<1>3. ASSUME NEW t \in Transfers, ReadBalance(t) PROVE AllowanceIsOneBurn'
  BY <1>3 DEF ReadBalance, Return, Story, TypeOK, AllowanceIsOneBurn, From, Amount, Answered,
     Goto, vars, chainVars, walletVars, txVars
<1>4. ASSUME NEW t \in Transfers, Approve(t) PROVE AllowanceIsOneBurn'
  BY <1>4 DEF Approve, Story, TypeOK, AllowanceIsOneBurn, From, Amount, Goto, vars, chainVars,
     walletVars, txVars
<1>5. ASSUME NEW t \in Transfers, ApproveReceipt(t) PROVE AllowanceIsOneBurn'
  BY <1>5 DEF ApproveReceipt, Story, TypeOK, AllowanceIsOneBurn, From, Amount, Goto, vars,
     chainVars, walletVars, txVars
<1>6. ASSUME NEW t \in Transfers, SendBurn(t) PROVE AllowanceIsOneBurn'
  BY <1>6 DEF SendBurn, BurnSent, Story, TypeOK, AllowanceIsOneBurn, From, Amount, Goto, vars,
     chainVars, walletVars, txVars
<1>7. ASSUME NEW t \in Transfers, SendSolanaBurn(t) PROVE AllowanceIsOneBurn'
  BY <1>7 DEF SendSolanaBurn, BurnSent, Story, TypeOK, AllowanceIsOneBurn, From, Amount, Goto,
     vars, chainVars, walletVars, txVars
<1>8. ASSUME NEW t \in Transfers, SendStellarBurn(t) PROVE AllowanceIsOneBurn'
  BY <1>8 DEF SendStellarBurn, BurnSent, Story, TypeOK, AllowanceIsOneBurn, From, Amount,
     Goto, vars, chainVars, walletVars, txVars
<1>9. ASSUME NEW t \in Transfers, BurnReceipt(t) PROVE AllowanceIsOneBurn'
  BY <1>9 DEF BurnReceipt, Story, TypeOK, AllowanceIsOneBurn, From, Amount, Goto, vars,
     chainVars, walletVars, txVars
<1>10. ASSUME NEW t \in Transfers, BurnWithoutMessage(t) PROVE AllowanceIsOneBurn'
  BY <1>10 DEF BurnWithoutMessage, Return, Story, TypeOK, AllowanceIsOneBurn, From, Amount,
     Answered, Goto, vars, chainVars, walletVars, txVars
<1>11. ASSUME NEW t \in Transfers, NEW accepted \in BOOLEAN, AttestationSeen(t, accepted) PROVE AllowanceIsOneBurn'
  BY <1>11 DEF AttestationSeen, Return, Story, TypeOK, AllowanceIsOneBurn, From, Amount,
     Answered, Goto, vars, chainVars, walletVars, txVars
<1>12. ASSUME NEW t \in Transfers, AttestationTimeout(t) PROVE AllowanceIsOneBurn'
  BY <1>12 DEF AttestationTimeout, Return, Story, TypeOK, AllowanceIsOneBurn, From, Amount,
     Answered, Goto, vars, chainVars, walletVars, txVars
<1>13. ASSUME NEW t \in Transfers, SetUpSolana(t) PROVE AllowanceIsOneBurn'
  BY <1>13 DEF SetUpSolana, Story, TypeOK, AllowanceIsOneBurn, From, Amount, Goto, vars,
     chainVars, walletVars, txVars
<1>14. ASSUME NEW t \in Transfers, SolanaIsSetUp(t) PROVE AllowanceIsOneBurn'
  BY <1>14 DEF SolanaIsSetUp, Story, TypeOK, AllowanceIsOneBurn, From, Amount, Goto, vars,
     chainVars, walletVars, txVars
<1>15. ASSUME NEW t \in Transfers, ReceiveMessage(t) PROVE AllowanceIsOneBurn'
  BY <1>15 DEF ReceiveMessage, MintSent, MintPossible, Story, TypeOK, AllowanceIsOneBurn,
     From, Amount, Goto, vars, chainVars, walletVars, txVars
<1>16. ASSUME NEW t \in Transfers, ReceiveOnSolana(t) PROVE AllowanceIsOneBurn'
  BY <1>16 DEF ReceiveOnSolana, MintSent, MintPossible, Story, TypeOK, AllowanceIsOneBurn,
     From, Amount, Goto, vars, chainVars, walletVars, txVars
<1>17. ASSUME NEW t \in Transfers, ReceiveOnStellar(t) PROVE AllowanceIsOneBurn'
  BY <1>17 DEF ReceiveOnStellar, MintSent, MintPossible, Story, TypeOK, AllowanceIsOneBurn,
     From, Amount, Goto, vars, chainVars, walletVars, txVars
<1>18. ASSUME NEW t \in Transfers, MintReceipt(t) PROVE AllowanceIsOneBurn'
  BY <1>18 DEF MintReceipt, Return, Story, TypeOK, AllowanceIsOneBurn, From, Amount, Answered,
     Goto, vars, chainVars, walletVars, txVars
<1>19. ASSUME NEW t \in Transfers, Fail(t) PROVE AllowanceIsOneBurn'
  BY <1>19 DEF Fail, Thrown, Return, Story, TypeOK, AllowanceIsOneBurn, From, Amount,
     Answered, Goto, vars, chainVars, walletVars, txVars
<1>20. ASSUME NEW t \in Transfers, Reject(t) PROVE AllowanceIsOneBurn'
  BY <1>20 DEF Reject, Thrown, Return, Story, TypeOK, AllowanceIsOneBurn, From, Amount,
     Answered, Goto, vars, chainVars, walletVars, txVars
<1>21. ASSUME NEW t \in Transfers, ApproveMined(t) PROVE AllowanceIsOneBurn'
  <2>0. From(t)' = From(t) /\ \A j \in Transfers : From(j)' = From(j) /\ Amount(j)' = Amount(j)
    BY <1>21 DEF ApproveMined, From, Amount
  <2>1. CASE approveTx' = [approveTx EXCEPT ![t] = "ok"] /\ allowance' = [allowance EXCEPT ![From(t)] = Amount(t)]
    <3>1. ASSUME NEW vm \in Vms, allowance'[vm] # 0, vm # From(t)
          PROVE  \E j \in Transfers : From(j) = vm /\ approveTx'[j] = "ok" /\ allowance'[vm] <= Amount(j)
      <4>1. allowance'[vm] = allowance[vm]
        BY <2>1, <3>1 DEF TypeOK
      <4>2. PICK j \in Transfers : From(j) = vm /\ approveTx[j] = "ok" /\ allowance[vm] <= Amount(j)
        BY <3>1, <4>1 DEF AllowanceIsOneBurn
      <4> QED
        BY <2>1, <4>1, <4>2 DEF TypeOK
    <3>2. approveTx'[t] = "ok" /\ (From(t) \in Vms => allowance'[From(t)] <= Amount(t))
      BY <2>1, AmountsAreNat DEF TypeOK
    <3> QED
      BY <2>0, <3>1, <3>2 DEF AllowanceIsOneBurn
  <2>2. CASE approveTx' = [approveTx EXCEPT ![t] = "reverted"] /\ UNCHANGED allowance
    BY <1>21, <2>0, <2>2 DEF ApproveMined, AllowanceIsOneBurn, TypeOK
  <2> QED
    BY <1>21, <2>1, <2>2 DEF ApproveMined
<1>22. ASSUME NEW t \in Transfers, BurnMined(t) PROVE AllowanceIsOneBurn'
  <2>1. UNCHANGED <<plan, approveTx>>
    BY <1>22 DEF BurnMined
  <2>2. \A vm \in Vms : allowance'[vm] \in Nat /\ allowance'[vm] <= allowance[vm]
    BY <1>22, AmountsAreNat DEF BurnMined, BurnPossible, TypeOK
  <2>3. ASSUME NEW vm \in Vms, allowance'[vm] # 0
        PROVE  \E j \in Transfers : From(j) = vm /\ approveTx[j] = "ok" /\ allowance'[vm] <= Amount(j)
    <3>1. allowance[vm] # 0 /\ allowance[vm] \in Nat
      BY <2>2, <2>3 DEF TypeOK
    <3>2. PICK j \in Transfers : From(j) = vm /\ approveTx[j] = "ok" /\ allowance[vm] <= Amount(j)
      BY <3>1 DEF AllowanceIsOneBurn
    <3> QED
      BY <2>2, <3>1, <3>2, AmountsAreNat
  <2> QED
    BY <2>1, <2>3 DEF AllowanceIsOneBurn, From, Amount
<1>23. ASSUME NEW t \in Transfers, SetupMined(t) PROVE AllowanceIsOneBurn'
  BY <1>23 DEF SetupMined, Story, TypeOK, AllowanceIsOneBurn, From, Amount, vars, chainVars,
     walletVars, txVars
<1>24. ASSUME NEW t \in Transfers, MintMined(t) PROVE AllowanceIsOneBurn'
  BY <1>24 DEF MintMined, MintPossible, Story, TypeOK, AllowanceIsOneBurn, From, Amount, vars,
     chainVars, walletVars, txVars
<1>25. ASSUME NEW t \in Transfers, Attest(t) PROVE AllowanceIsOneBurn'
  BY <1>25 DEF Attest, Story, TypeOK, AllowanceIsOneBurn, From, Amount, vars, chainVars,
     walletVars, txVars
<1>26. ASSUME NEW t \in Transfers, Relay(t) PROVE AllowanceIsOneBurn'
  BY <1>26 DEF Relay, MintPossible, Story, TypeOK, AllowanceIsOneBurn, From, Amount, vars,
     chainVars, walletVars, txVars
<1>27. CASE Exit
  BY <1>27 DEF Exit, Story, TypeOK, AllowanceIsOneBurn, From, Amount, vars, chainVars,
     walletVars, txVars
<1>28. CASE UNCHANGED vars
  BY <1>28 DEF vars, Story, TypeOK, AllowanceIsOneBurn, From, Amount, chainVars, walletVars,
     txVars
<1> QED
  BY <1>1, <1>2, <1>3, <1>4, <1>5, <1>6, <1>7, <1>8, <1>9, <1>10, <1>11, <1>12, <1>13, <1>14,
     <1>15, <1>16, <1>17, <1>18, <1>19, <1>20, <1>21, <1>22, <1>23, <1>24, <1>25, <1>26,
     <1>27, <1>28 DEF Next, CallNext, Proceed, Mined

-----------------------------------------------------------------------------
(* An answer is the caller's being told, and changes nothing else; it may  *)
(* hide a burn only if none was sent.                                      *)
LEMMA ReturnTells ==
  ASSUME TypeOK, NEW t \in Transfers, Story(t), pc[t] # "answered",
         NEW status \in {"submitted", "pending", "failed"}, NEW burn \in BOOLEAN,
         NEW recoverable \in BOOLEAN,
         Return(t, status, burn, recoverable), UNCHANGED <<burnTx, received>>,
         status = "submitted" => burnTx[t] = "ok",
         burn \/ recoverable \/ burnTx[t] = "none"
  PROVE  Bridge!BridgeNext
<1>1. answer' = [answer EXCEPT ![t] = Answered(status, burn, recoverable)]
  BY DEF Return
<1>2. /\ answer[t].status = "none" /\ answer'[t].status = status
      /\ answer'[t].burn = burn /\ answer'[t].recoverable = recoverable
  BY <1>1 DEF Story, TypeOK, Answered
<1>3. PICK outcome \in {"submitted", "untouched", "atRisk"} :
        outcome = IF status = "submitted" THEN "submitted"
                  ELSE IF burn \/ recoverable THEN "atRisk" ELSE "untouched"
  OBVIOUS
<1>4. Told(t) = "nothing" /\ Told(t)' = outcome
  BY <1>2, <1>3 DEF Told
<1>5. \A j \in Transfers \ {t} : Told(j)' = Told(j)
  BY <1>1 DEF Told, TypeOK
<1>6. \A j \in Transfers : Wire(j)' = Wire(j)
  BY DEF Wire
<1>7. /\ outcome = "submitted" => Wire(t) \in {"taken", "landed"}
      /\ outcome = "untouched" => Wire(t) = "none"
  BY <1>3 DEF Wire, Story
<1>8. Bridge!Tell(t, outcome)
  BY <1>4, <1>5, <1>6, <1>7 DEF Bridge!Tell
<1> QED
  BY <1>8 DEF Bridge!BridgeNext

(* Where only the burn or the receipt of the message changes, the wire is  *)
(* what changes.                                                           *)
LEMMA WireMoves ==
  ASSUME TypeOK, NEW t \in Transfers, UNCHANGED answer,
         \A j \in Transfers \ {t} : burnTx'[j] = burnTx[j] /\ received'[j] = received[j],
         \/ Wire(t) = "none" /\ Wire(t)' = "asked" /\ Told(t) = "nothing"
         \/ Wire(t) = "asked" /\ Wire(t)' \in {"taken", "refused"}
         \/ Wire(t) = "taken" /\ Wire(t)' = "landed"
  PROVE  Bridge!BridgeNext
<1>1. \A j \in Transfers : Told(j)' = Told(j)
  BY DEF Told
<1>2. \A j \in Transfers \ {t} : Wire(j)' = Wire(j)
  <2> SUFFICES ASSUME NEW j \in Transfers \ {t} PROVE Wire(j)' = Wire(j)
    OBVIOUS
  <2>1. burnTx[j] \in TxStates /\ burnTx'[j] = burnTx[j] /\ received'[j] = received[j]
    BY DEF TypeOK
  <2> QED
    BY <2>1 DEF Wire, TxStates
<1>3. Bridge!Ask(t) \/ Bridge!Take(t) \/ Bridge!Refuse(t) \/ Bridge!Land(t)
  BY <1>1, <1>2 DEF Bridge!Ask, Bridge!Take, Bridge!Refuse, Bridge!Land, Bridge!Step
<1> QED
  BY <1>3 DEF Bridge!BridgeNext

(* Each step of the service is one the orchestrator knows of, or none.     *)
LEMMA BridgeStep ==
  ASSUME TypeOK, \A k \in Transfers : Story(k), [Next]_vars
  PROVE  [Bridge!BridgeNext]_<<[t \in Transfers |-> Told(t)], [t \in Transfers |-> Wire(t)]>>
<1> DEFINE told == [t \in Transfers |-> Told(t)]
           wire == [t \in Transfers |-> Wire(t)]
           Stutter == told' = told /\ wire' = wire
<1>1. ASSUME NEW t \in Transfers, NEW p \in Plans, NEW problem \in Problems,
              Begin(t, p, problem)
       PROVE  Bridge!BridgeNext \/ Stutter
  <2>1. CASE BadRecipient(p) \/ problem # "none"
    <3>1. burnTx[t] = "none" /\ pc[t] # "answered"
      BY <1>1 DEF Begin, Story
    <3>2. PICK thrown \in BOOLEAN : thrown = (~BadRecipient(p) /\ problem = "thrown")
      OBVIOUS
    <3>3. Return(t, "failed", FALSE, thrown) /\ UNCHANGED <<burnTx, received>>
      BY <1>1, <2>1, <3>2, Zenon DEF Begin, chainVars, txVars
    <3> QED
      BY <3>1, <3>3, ReturnTells
  <2>2. CASE ~(BadRecipient(p) \/ problem # "none")
    <3>1. UNCHANGED answer /\ UNCHANGED chainVars
      BY <1>1, <2>2, Zenon DEF Begin
    <3> QED
      BY <3>1 DEF Told, Wire, chainVars, txVars
  <2> QED
    BY <2>1, <2>2
<1>2. ASSUME NEW t \in Transfers, EnsureTrustline(t) PROVE Bridge!BridgeNext \/ Stutter
  BY <1>2 DEF EnsureTrustline, FirstAwait, Story, TypeOK, Told, Wire, Goto, Awaits,
     SourceAwaits, MintAwaits, vars, chainVars, walletVars, txVars
<1>3. ASSUME NEW t \in Transfers, ReadBalance(t) PROVE Bridge!BridgeNext \/ Stutter
  <2>1. CASE funds[From(t)] < Amount(t)
    <3>1. burnTx[t] = "none" /\ pc[t] # "answered"
      BY <1>3 DEF ReadBalance, Story, SourceAwaits
    <3>2. PICK svm \in BOOLEAN : svm = (From(t) = "svm")
      OBVIOUS
    <3>3. Return(t, "failed", FALSE, svm) /\ UNCHANGED <<burnTx, received>>
      BY <1>3, <2>1, <3>2, Zenon DEF ReadBalance, chainVars, txVars
    <3> QED
      BY <3>1, <3>3, ReturnTells
  <2>2. CASE ~(funds[From(t)] < Amount(t))
    <3>1. UNCHANGED answer /\ UNCHANGED chainVars
      BY <1>3, <2>2, Zenon DEF ReadBalance
    <3> QED
      BY <3>1 DEF Told, Wire, chainVars, txVars
  <2> QED
    BY <2>1, <2>2
<1>4. ASSUME NEW t \in Transfers, Approve(t) PROVE Bridge!BridgeNext \/ Stutter
  BY <1>4 DEF Approve, Story, TypeOK, Told, Wire, Goto, Awaits, SourceAwaits, MintAwaits,
     vars, chainVars, walletVars, txVars
<1>5. ASSUME NEW t \in Transfers, ApproveReceipt(t) PROVE Bridge!BridgeNext \/ Stutter
  BY <1>5 DEF ApproveReceipt, Story, TypeOK, Told, Wire, Goto, Awaits, SourceAwaits,
     MintAwaits, vars, chainVars, walletVars, txVars
<1>6. ASSUME NEW t \in Transfers, SendBurn(t) PROVE Bridge!BridgeNext \/ Stutter
  <2>1. Wire(t) = "none" /\ Told(t) = "nothing"
    BY <1>6 DEF SendBurn, BurnSent, Story, Wire, Told, SourceAwaits
  <2>2. Wire(t)' = "asked"
    BY <1>6 DEF SendBurn, BurnSent, Story, Wire, TypeOK, SourceAwaits
  <2>3. \A j \in Transfers \ {t} : burnTx'[j] = burnTx[j] /\ received'[j] = received[j]
    BY <1>6 DEF SendBurn, BurnSent, TypeOK
  <2> QED
    BY <1>6, <2>1, <2>2, <2>3, WireMoves DEF SendBurn, BurnSent
<1>7. ASSUME NEW t \in Transfers, SendSolanaBurn(t) PROVE Bridge!BridgeNext \/ Stutter
  <2>1. Wire(t) = "none" /\ Told(t) = "nothing"
    BY <1>7 DEF SendSolanaBurn, BurnSent, Story, Wire, Told, SourceAwaits
  <2>2. Wire(t)' = "asked"
    BY <1>7 DEF SendSolanaBurn, BurnSent, Story, Wire, TypeOK, SourceAwaits
  <2>3. \A j \in Transfers \ {t} : burnTx'[j] = burnTx[j] /\ received'[j] = received[j]
    BY <1>7 DEF SendSolanaBurn, BurnSent, TypeOK
  <2> QED
    BY <1>7, <2>1, <2>2, <2>3, WireMoves DEF SendSolanaBurn, BurnSent
<1>8. ASSUME NEW t \in Transfers, SendStellarBurn(t) PROVE Bridge!BridgeNext \/ Stutter
  <2>1. Wire(t) = "none" /\ Told(t) = "nothing"
    BY <1>8 DEF SendStellarBurn, BurnSent, Story, Wire, Told, SourceAwaits
  <2>2. Wire(t)' = "asked"
    BY <1>8 DEF SendStellarBurn, BurnSent, Story, Wire, TypeOK, SourceAwaits
  <2>3. \A j \in Transfers \ {t} : burnTx'[j] = burnTx[j] /\ received'[j] = received[j]
    BY <1>8 DEF SendStellarBurn, BurnSent, TypeOK
  <2> QED
    BY <1>8, <2>1, <2>2, <2>3, WireMoves DEF SendStellarBurn, BurnSent
<1>9. ASSUME NEW t \in Transfers, BurnReceipt(t) PROVE Bridge!BridgeNext \/ Stutter
  BY <1>9 DEF BurnReceipt, Story, TypeOK, Told, Wire, Goto, Awaits, SourceAwaits, MintAwaits,
     vars, chainVars, walletVars, txVars
<1>10. ASSUME NEW t \in Transfers, BurnWithoutMessage(t) PROVE Bridge!BridgeNext \/ Stutter
  BY <1>10, ReturnTells, Zenon DEF BurnWithoutMessage, chainVars, txVars
<1>11. ASSUME NEW t \in Transfers, NEW accepted \in BOOLEAN, AttestationSeen(t, accepted) PROVE Bridge!BridgeNext \/ Stutter
  <2>1. CASE ~accepted
    BY <1>11, <2>1, ReturnTells, Zenon DEF AttestationSeen, chainVars, txVars
  <2>2. CASE accepted
    <3>1. UNCHANGED answer /\ UNCHANGED chainVars
      BY <1>11, <2>2, Zenon DEF AttestationSeen
    <3> QED
      BY <3>1 DEF Told, Wire, chainVars, txVars
  <2> QED
    BY <2>1, <2>2
<1>12. ASSUME NEW t \in Transfers, AttestationTimeout(t) PROVE Bridge!BridgeNext \/ Stutter
  BY <1>12, ReturnTells, Zenon DEF AttestationTimeout, chainVars, txVars
<1>13. ASSUME NEW t \in Transfers, SetUpSolana(t) PROVE Bridge!BridgeNext \/ Stutter
  BY <1>13 DEF SetUpSolana, Story, TypeOK, Told, Wire, Goto, Awaits, SourceAwaits, MintAwaits,
     vars, chainVars, walletVars, txVars
<1>14. ASSUME NEW t \in Transfers, SolanaIsSetUp(t) PROVE Bridge!BridgeNext \/ Stutter
  BY <1>14 DEF SolanaIsSetUp, Story, TypeOK, Told, Wire, Goto, Awaits, SourceAwaits,
     MintAwaits, vars, chainVars, walletVars, txVars
<1>15. ASSUME NEW t \in Transfers, ReceiveMessage(t) PROVE Bridge!BridgeNext \/ Stutter
  BY <1>15 DEF ReceiveMessage, MintSent, MintPossible, Story, TypeOK, Told, Wire, Goto,
     Awaits, SourceAwaits, MintAwaits, vars, chainVars, walletVars, txVars
<1>16. ASSUME NEW t \in Transfers, ReceiveOnSolana(t) PROVE Bridge!BridgeNext \/ Stutter
  BY <1>16 DEF ReceiveOnSolana, MintSent, MintPossible, Story, TypeOK, Told, Wire, Goto,
     Awaits, SourceAwaits, MintAwaits, vars, chainVars, walletVars, txVars
<1>17. ASSUME NEW t \in Transfers, ReceiveOnStellar(t) PROVE Bridge!BridgeNext \/ Stutter
  BY <1>17 DEF ReceiveOnStellar, MintSent, MintPossible, Story, TypeOK, Told, Wire, Goto,
     Awaits, SourceAwaits, MintAwaits, vars, chainVars, walletVars, txVars
<1>18. ASSUME NEW t \in Transfers, MintReceipt(t) PROVE Bridge!BridgeNext \/ Stutter
  <2>1. burnTx[t] = "ok"
    BY <1>18 DEF MintReceipt, Story, MintAwaits
  <2> QED
    BY <1>18, <2>1, ReturnTells, Zenon DEF MintReceipt, chainVars, txVars
<1>19. ASSUME NEW t \in Transfers, Fail(t) PROVE Bridge!BridgeNext \/ Stutter
  <2>1. pc[t] # "answered"
    BY <1>19 DEF Fail
  <2> QED
    BY <1>19, <2>1, ReturnTells, Zenon DEF Fail, Thrown, chainVars, txVars
<1>20. ASSUME NEW t \in Transfers, Reject(t) PROVE Bridge!BridgeNext \/ Stutter
  <2>1. pc[t] # "answered"
    BY <1>20 DEF Reject, SourceAwaits, MintAwaits
  <2> QED
    BY <1>20, <2>1, ReturnTells, Zenon DEF Reject, Thrown, chainVars, txVars
<1>21. ASSUME NEW t \in Transfers, ApproveMined(t) PROVE Bridge!BridgeNext \/ Stutter
  BY <1>21 DEF ApproveMined, Story, TypeOK, Told, Wire, Awaits, SourceAwaits, MintAwaits,
     vars, chainVars, walletVars, txVars
<1>22. ASSUME NEW t \in Transfers, BurnMined(t) PROVE Bridge!BridgeNext \/ Stutter
  <2>1. Wire(t) = "asked" /\ Wire(t)' \in {"taken", "refused"}
    BY <1>22 DEF BurnMined, Story, Wire, TypeOK
  <2>2. \A j \in Transfers \ {t} : burnTx'[j] = burnTx[j] /\ received'[j] = received[j]
    BY <1>22 DEF BurnMined, TypeOK
  <2> QED
    BY <1>22, <2>1, <2>2, WireMoves DEF BurnMined
<1>23. ASSUME NEW t \in Transfers, SetupMined(t) PROVE Bridge!BridgeNext \/ Stutter
  BY <1>23 DEF SetupMined, Story, TypeOK, Told, Wire, Awaits, SourceAwaits, MintAwaits, vars,
     chainVars, walletVars, txVars
<1>24. ASSUME NEW t \in Transfers, MintMined(t) PROVE Bridge!BridgeNext \/ Stutter
  <2>1. CASE UNCHANGED received
    BY <1>24, <2>1 DEF MintMined, Told, Wire
  <2>2. CASE received' = [received EXCEPT ![t] = "operator"] /\ received[t] = "nobody"
    <3>1. Wire(t) = "taken" /\ Wire(t)' = "landed"
      BY <1>24, <2>2 DEF MintMined, Story, Wire, TypeOK
    <3>2. \A j \in Transfers \ {t} : burnTx'[j] = burnTx[j] /\ received'[j] = received[j]
      BY <1>24, <2>2 DEF MintMined, TypeOK
    <3> QED
      BY <1>24, <3>1, <3>2, WireMoves DEF MintMined
  <2> QED
    BY <1>24, <2>1, <2>2 DEF MintMined, MintPossible
<1>25. ASSUME NEW t \in Transfers, Attest(t) PROVE Bridge!BridgeNext \/ Stutter
  BY <1>25 DEF Attest, Story, TypeOK, Told, Wire, Awaits, SourceAwaits, MintAwaits, vars,
     chainVars, walletVars, txVars
<1>26. ASSUME NEW t \in Transfers, Relay(t) PROVE Bridge!BridgeNext \/ Stutter
  <2>1. Wire(t) = "taken" /\ Wire(t)' = "landed"
    BY <1>26 DEF Relay, MintPossible, Story, Wire, TypeOK, txVars
  <2>2. \A j \in Transfers \ {t} : burnTx'[j] = burnTx[j] /\ received'[j] = received[j]
    BY <1>26 DEF Relay, TypeOK, txVars
  <2> QED
    BY <1>26, <2>1, <2>2, WireMoves DEF Relay
<1>27. CASE Exit
  BY <1>27 DEF Exit, Story, TypeOK, Told, Wire, Awaits, SourceAwaits, MintAwaits, vars,
     chainVars, walletVars, txVars
<1>28. CASE UNCHANGED vars
  BY <1>28 DEF vars, Story, TypeOK, Told, Wire, Awaits, SourceAwaits, MintAwaits, chainVars,
     walletVars, txVars
<1> QED
  BY <1>1, <1>2, <1>3, <1>4, <1>5, <1>6, <1>7, <1>8, <1>9, <1>10, <1>11, <1>12, <1>13, <1>14,
     <1>15, <1>16, <1>17, <1>18, <1>19, <1>20, <1>21, <1>22, <1>23, <1>24, <1>25, <1>26,
     <1>27, <1>28 DEF Next, CallNext, Proceed, Mined

-----------------------------------------------------------------------------
(* The inductive invariant. *)
CctpInv == TypeOK /\ AllowanceIsOneBurn /\ \A t \in Transfers : Story(t)

(* It holds in every reachable state.                                      *)
THEOREM CctpSafe == Spec => []CctpInv
<1>1. Init => CctpInv
  BY TypeInit DEF Init, CctpInv, AllowanceIsOneBurn, Story, NoAnswer, Answered, SourceAwaits,
     MintAwaits
<1>2. CctpInv /\ [Next]_vars => CctpInv'
  BY TypeStep, StoryStep, AllowanceStep DEF CctpInv
<1> QED
  BY <1>1, <1>2, PTL DEF Spec

(* The wallets are never overdrawn, whatever calls share them.             *)
THEOREM TypeCorrect == Spec => []TypeOK
<1>1. CctpInv => TypeOK
  BY DEF CctpInv
<1> QED
  BY <1>1, CctpSafe, PTL

(* A failure that names no burn and does not say recoverable took nothing. *)
THEOREM BurnsAreKnown == Spec => []BurnIsNamedOrFlagged
<1>1. CctpInv => BurnIsNamedOrFlagged
  BY DEF CctpInv, Story, BurnIsNamedOrFlagged
<1> QED
  BY <1>1, CctpSafe, PTL

(* Submitted means received, but for an EVM mint that reverted.            *)
THEOREM SubmittedArrived == Spec => []SubmittedIsReceived
<1>1. CctpInv => SubmittedIsReceived
  BY DEF CctpInv, Story, SubmittedIsReceived
<1> QED
  BY <1>1, CctpSafe, PTL

(* Whatever executeBridge answers holds of the chains.                     *)
THEOREM AnswersStayTrue == Spec => []AnswersAreTrue
<1>1. BurnIsNamedOrFlagged /\ SubmittedIsReceived => AnswersAreTrue
  BY DEF AnswersAreTrue
<1> QED
  BY <1>1, BurnsAreKnown, SubmittedArrived, PTL

(* TokenMessenger may never take more than one call asked for.             *)
THEOREM AllowanceIsBounded == Spec => []AllowanceIsOneBurn
<1>1. CctpInv => AllowanceIsOneBurn
  BY DEF CctpInv
<1> QED
  BY <1>1, CctpSafe, PTL

(* The service asks for the funds of a call at most once and never after   *)
(* it answered, though they may be taken after that; submitted is only     *)
(* answered when they were taken, and a failure that names no burn and is  *)
(* not recoverable means that they were and will be left alone.            *)
THEOREM CctpImplementsBridgeTransfer == Spec => ImplementsBridgeTransfer
<1>1. Init => Bridge!BridgeInit
  BY DEF Init, Bridge!BridgeInit, Told, Wire, NoAnswer, Answered
<1>2. CctpInv /\ [Next]_vars
        => [Bridge!BridgeNext]_<<[t \in Transfers |-> Told(t)], [t \in Transfers |-> Wire(t)]>>
  BY BridgeStep DEF CctpInv
<1> QED
  BY <1>1, <1>2, CctpSafe, PTL DEF Spec, ImplementsBridgeTransfer, Bridge!BridgeSpec
=============================================================================
