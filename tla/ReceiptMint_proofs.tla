------------------------- MODULE ReceiptMint_proofs -------------------------
(***************************************************************************)
(* Proofs about the receipt token, for every number of intents and of      *)
(* retries.                                                                *)
(*                                                                         *)
(* What is recorded travels: from the contract's event or its mapping into *)
(* a run's answer, from there into a stored receipt, and from that into    *)
(* the snapshots other runs write back.  The inductive invariants say of   *)
(* every place on the way what the properties say of its end.              *)
(***************************************************************************)
EXTENDS ReceiptMint, TLAPS

(* A rival mint of the intent went through, or the operator's role was     *)
(* away: what a transaction that reverted proves.                          *)
Rival(i) == intentToToken[i] # 0 \/ roleLost

(* The token of an answer or of a receipt is the intent's, and is 0 only   *)
(* where a rival explains it.                                              *)
Honest(i, nft) ==
  /\ nft.token # 0 => nft.token = intentToToken[i]
  /\ nft.kind = "token" /\ nft.token = 0 => Rival(i)

TxHonest ==
  \A r \in Runs :
    /\ event[r] # 0 => event[r] = intentToToken[IntentOf(r)]
    /\ tx[r] = "ok" => event[r] # 0
    /\ tx[r] = "reverted" => Rival(IntentOf(r))

AnswerHonest   == \A r \in Runs : Honest(IntentOf(r), answer[r])
SnapshotHonest == \A r \in Runs : Honest(IntentOf(r), snapshot[r].nft)
StoreHonest    == \A i \in Intents : Honest(i, store[i].nft)

RoleHonest == ~isMinter => roleLost

HonestInv == TypeOK /\ RoleHonest /\ TxHonest /\ AnswerHonest /\ SnapshotHonest /\ StoreHonest

LEMMA IntentOfType == \A r \in Runs : IntentOf(r) \in Intents
BY RunsAssumption DEF Runs, IntentOf

(* What is typed stays typed when the counter moves. *)
LEMMA TypesGrow ==
  ASSUME TypeOK, nextTokenId' = nextTokenId + 1
  PROVE  /\ nextTokenId' \in Nat
         /\ store \in [Intents -> Receipts']
         /\ snapshot \in [Runs -> Receipts']
         /\ answer \in [Runs -> Nfts']
         /\ tokens \subseteq [id : 1..nextTokenId', intent : Intents]
         /\ intentToToken \in [Intents -> 0..nextTokenId']
         /\ event \in [Runs -> 0..nextTokenId']
<1> USE DEF TypeOK
<1>1. 0..nextTokenId \subseteq 0..nextTokenId' /\ 1..nextTokenId \subseteq 1..nextTokenId'
  OBVIOUS
<1>2. Nfts \subseteq Nfts'
  BY <1>1 DEF Nfts
<1>3. Receipts \subseteq Receipts'
  BY <1>2 DEF Receipts
<1>4. /\ store \in [Intents -> Receipts'] /\ snapshot \in [Runs -> Receipts']
      /\ answer \in [Runs -> Nfts']
  BY <1>2, <1>3
<1>5. /\ intentToToken \in [Intents -> 0..nextTokenId']
      /\ event \in [Runs -> 0..nextTokenId']
  BY <1>1
<1>6. tokens \subseteq [id : 1..nextTokenId', intent : Intents]
  BY <1>1
<1> QED
  BY <1>4, <1>5, <1>6

LEMMA TypeInit == Init => TypeOK
<1> SUFFICES ASSUME Init PROVE TypeOK
  OBVIOUS
<1> USE DEF Init
<1>1. nextTokenId = 0 /\ 0 \in 0..nextTokenId
  OBVIOUS
<1>2. NoNft \in Nfts
  BY <1>1 DEF NoNft, Nfts
<1>3. NoReceipt \in Receipts /\ Receipt("finalizing", NoNft) \in Receipts
  BY <1>2 DEF Receipts, Receipt, NoReceipt
<1> QED
  BY <1>1, <1>2, <1>3 DEF TypeOK, Awaits, MintAwaits

LEMMA TypeStep == TypeOK /\ [Next]_vars => TypeOK'
<1> SUFFICES ASSUME TypeOK, [Next]_vars PROVE TypeOK'
  OBVIOUS
<1> USE IntentOfType DEF TypeOK, contractVars, roleVars, txVars
<1>0. /\ NoNft \in Nfts /\ Skipped \in Nfts /\ NoReceipt \in Receipts
      /\ \A n \in 0..nextTokenId : TokenNft(n) \in Nfts
  BY DEF Nfts, Receipts, NoNft, Skipped, NoReceipt, Receipt, TokenNft
<1>1. ASSUME nextTokenId' = nextTokenId PROVE Nfts' = Nfts /\ Receipts' = Receipts
  BY <1>1 DEF Nfts, Receipts
<1>2. ASSUME NEW r \in Runs, MintReceiptV2(r) PROVE TypeOK'
  <2>1. nextTokenId' = nextTokenId + 1 /\ nextTokenId' \in 0..nextTokenId' /\ nextTokenId' \in 1..nextTokenId'
    BY <1>2 DEF MintReceiptV2
  <2>2. tokens' \subseteq [id : 1..nextTokenId', intent : Intents]
    BY <1>2, <2>1, TypesGrow DEF MintReceiptV2
  <2>3. intentToToken' \in [Intents -> 0..nextTokenId'] /\ event' \in [Runs -> 0..nextTokenId']
    BY <1>2, <2>1, TypesGrow DEF MintReceiptV2
  <2> QED
    BY <1>2, <2>1, <2>2, <2>3, TypesGrow DEF MintReceiptV2
<1>3. ASSUME NEW r \in Runs, MintReverts(r) PROVE TypeOK'
  BY <1>3, <1>1 DEF MintReverts
<1>4. ASSUME NEW r \in Runs, MintSkipped(r) PROVE TypeOK'
  BY <1>4, <1>1, <1>0 DEF MintSkipped, Answer, Goto, Awaits, UpdateAwaits
<1>5. ASSUME NEW r \in Runs, CheckRole(r) PROVE TypeOK'
  BY <1>5, <1>1, <1>0 DEF CheckRole, Answer, Goto, Awaits, UpdateAwaits, MintAwaits
<1>6. ASSUME NEW r \in Runs, CheckToken(r) PROVE TypeOK'
  BY <1>6, <1>1, <1>0 DEF CheckToken, Answer, Goto, Awaits, UpdateAwaits, MintAwaits
<1>7. ASSUME NEW r \in Runs, SendMint(r) PROVE TypeOK'
  BY <1>7, <1>1 DEF SendMint, Goto, Awaits, MintAwaits
<1>8. ASSUME NEW r \in Runs, MintMined(r) PROVE TypeOK'
  BY <1>8, <1>1, <1>0 DEF MintMined, Answer, Goto, Awaits, UpdateAwaits
<1>9. ASSUME NEW r \in Runs, RequestRetry(r) PROVE TypeOK'
  BY <1>9, <1>1 DEF RequestRetry, Goto, Awaits, UpdateAwaits
<1>10. ASSUME NEW r \in Runs, ReadReceipt(r) PROVE TypeOK'
  BY <1>10, <1>1 DEF ReadReceipt
<1>11. ASSUME NEW r \in Runs, WriteReceipt(r) PROVE TypeOK'
  <2> DEFINE current == IF Durable THEN snapshot[r] ELSE store[IntentOf(r)]
  <2>1. current \in Receipts /\ answer[r] \in Nfts
    OBVIOUS
  <2>2. Patch(r, current) \in Receipts
    BY <2>1 DEF Patch, Receipts
  <2>3. AfterUpdate(r) \in Awaits \union {"idle", "done"}
    BY DEF AfterUpdate, Awaits, MintAwaits, UpdateAwaits
  <2> QED
    BY <1>11, <1>1, <1>0, <2>2, <2>3 DEF WriteReceipt, Goto
<1>12. ASSUME NEW r \in Runs, UpdateRejects(r) PROVE TypeOK'
  BY <1>12, <1>1, <1>0 DEF UpdateRejects, Goto, Awaits, UpdateAwaits
<1>13. CASE SetMinterRole
  BY <1>13, <1>1 DEF SetMinterRole
<1>14. CASE Exit
  BY <1>14, <1>1, <1>0 DEF Exit
<1>15. CASE UNCHANGED vars
  BY <1>15, <1>1 DEF vars
<1> QED
  BY <1>2, <1>3, <1>4, <1>5, <1>6, <1>7, <1>8, <1>9, <1>10, <1>11, <1>12, <1>13, <1>14,
     <1>15 DEF Next

(* The types; in particular tokens are numbered from 1 to the counter, so  *)
(* that 0 can stand for "none" in intentToToken.                           *)
THEOREM TypeCorrect == Spec => []TypeOK
BY TypeInit, TypeStep, PTL DEF Spec
-----------------------------------------------------------------------------
(* The contract *)

(* The token of an intent is written once. *)
LEMMA TokensStay ==
  ASSUME TypeOK, [Next]_vars, NEW i \in Intents, intentToToken[i] # 0
  PROVE  intentToToken'[i] = intentToToken[i]
<1> USE IntentOfType DEF TypeOK, contractVars, roleVars, txVars
<1>1. ASSUME NEW r \in Runs, MintReceiptV2(r) PROVE intentToToken'[i] = intentToToken[i]
  BY <1>1 DEF MintReceiptV2
<1>2. CASE UNCHANGED contractVars
  BY <1>2
<1> QED
  BY <1>1, <1>2 DEF Next, vars, MintReverts, MintSkipped, CheckRole, CheckToken, SendMint,
     MintMined, RequestRetry, ReadReceipt, WriteReceipt, UpdateRejects, SetMinterRole, Exit

LEMMA OneTokenStep == TypeOK /\ OneTokenPerIntent /\ [Next]_vars => OneTokenPerIntent'
<1> SUFFICES ASSUME TypeOK, OneTokenPerIntent, [Next]_vars PROVE OneTokenPerIntent'
  OBVIOUS
<1> USE IntentOfType DEF TypeOK, contractVars, roleVars, txVars
<1>1. ASSUME NEW r \in Runs, MintReceiptV2(r) PROVE OneTokenPerIntent'
  <2> DEFINE new == [id |-> nextTokenId', intent |-> IntentOf(r)]
  <2>1. /\ tokens' = tokens \union {new}
        /\ intentToToken' = [intentToToken EXCEPT ![IntentOf(r)] = nextTokenId']
        /\ intentToToken[IntentOf(r)] = 0 /\ IntentOf(r) \in Intents
    BY <1>1 DEF MintReceiptV2
  <2>2. ASSUME NEW t \in tokens PROVE t.intent # IntentOf(r) /\ t.id = intentToToken'[t.intent]
    <3>1. t.id \in 1..nextTokenId /\ t.intent \in Intents /\ t.id = intentToToken[t.intent]
      BY DEF OneTokenPerIntent
    <3> QED
      BY <2>1, <3>1
  <2>3. new.id = intentToToken'[new.intent]
    BY <2>1
  <2>4. ASSUME NEW i \in Intents, intentToToken'[i] # 0
        PROVE [id |-> intentToToken'[i], intent |-> i] \in tokens'
    <3>1. CASE i = IntentOf(r)
      BY <2>1, <3>1
    <3>2. CASE i # IntentOf(r)
      BY <2>1, <2>4, <3>2 DEF OneTokenPerIntent
    <3> QED
      BY <3>1, <3>2
  <2> QED
    BY <2>1, <2>2, <2>3, <2>4 DEF OneTokenPerIntent
<1>2. CASE UNCHANGED contractVars
  BY <1>2 DEF OneTokenPerIntent
<1> QED
  BY <1>1, <1>2 DEF Next, vars, MintReverts, MintSkipped, CheckRole, CheckToken, SendMint,
     MintMined, RequestRetry, ReadReceipt, WriteReceipt, UpdateRejects, SetMinterRole, Exit

(* However many mints of an intent race, it gets one token, and the two    *)
(* mappings of the contract agree on it.                                   *)
THEOREM IntentHasOneToken == Spec => []OneTokenPerIntent
<1>1. Init => OneTokenPerIntent
  BY DEF Init, OneTokenPerIntent
<1> QED
  BY <1>1, TypeInit, TypeStep, OneTokenStep, PTL DEF Spec
-----------------------------------------------------------------------------
(* What is recorded *)

(* Whatever was honest stays so: tokens and a lost role are for good. *)
LEMMA HonestyStays ==
  ASSUME TypeOK, [Next]_vars, NEW i \in Intents, NEW nft \in Nfts, Honest(i, nft)
  PROVE  /\ nft.token # 0 => nft.token = intentToToken'[i]
         /\ nft.kind = "token" /\ nft.token = 0 => Rival(i)'
<1>1. roleLost => roleLost'
  BY DEF Next, vars, contractVars, roleVars, txVars, MintReceiptV2, MintReverts, MintSkipped,
     CheckRole, CheckToken, SendMint, MintMined, RequestRetry, ReadReceipt, WriteReceipt,
     UpdateRejects, SetMinterRole, Exit
<1>2. nft.token # 0 => nft.token = intentToToken'[i]
  BY TokensStay DEF Honest
<1>3. Rival(i) => Rival(i)'
  BY <1>1, TokensStay DEF Rival
<1> QED
  BY <1>2, <1>3 DEF Honest

LEMMA HonestInit == Init => HonestInv
<1> SUFFICES ASSUME Init PROVE HonestInv
  OBVIOUS
<1>1. RoleHonest /\ TxHonest
  BY DEF Init, RoleHonest, TxHonest
<1>2. AnswerHonest /\ SnapshotHonest /\ StoreHonest
  BY DEF Init, AnswerHonest, SnapshotHonest, StoreHonest, Honest, NoReceipt, Receipt, NoNft
<1> QED
  BY <1>1, <1>2, TypeInit DEF HonestInv

LEMMA HonestStep == HonestInv /\ [Next]_vars => HonestInv'
<1> SUFFICES ASSUME HonestInv, [Next]_vars PROVE HonestInv'
  OBVIOUS
<1> USE IntentOfType DEF contractVars, roleVars, txVars
<1>0. TypeOK /\ TypeOK'
  BY TypeStep DEF HonestInv
<1>1. \A i \in Intents, nft \in Nfts : Honest(i, nft) =>
        /\ nft.token # 0 => nft.token = intentToToken'[i]
        /\ nft.kind = "token" /\ nft.token = 0 => Rival(i)'
  BY <1>0, HonestyStays
<1>2. \A i \in Intents : Rival(i) => Rival(i)'
  <2>1. ASSUME NEW i \in Intents, Rival(i) PROVE Rival(i)'
    <3>1. TokenNft(0) \in Nfts /\ Honest(i, TokenNft(0))
      BY <1>0, <2>1 DEF TokenNft, Nfts, Honest, TypeOK
    <3> QED
      BY <1>1, <3>1 DEF TokenNft
  <2> QED
    BY <2>1
<1>3. RoleHonest'
  <2>1. CASE SetMinterRole
    BY <2>1 DEF SetMinterRole, RoleHonest
  <2>2. CASE UNCHANGED roleVars
    BY <2>2 DEF RoleHonest, HonestInv
  <2> QED
    BY <2>1, <2>2 DEF Next, vars, MintReceiptV2, MintReverts, MintSkipped, CheckRole,
       CheckToken, SendMint, MintMined, RequestRetry, ReadReceipt, WriteReceipt,
       UpdateRejects, Exit
<1>4. TxHonest'
  <2>1. ASSUME NEW q \in Runs PROVE event[q] # 0 => event[q] = intentToToken'[IntentOf(q)]
    <3>1. TokenNft(event[q]) \in Nfts /\ TokenNft(event[q]).token = event[q]
      BY <1>0 DEF TypeOK, Nfts, TokenNft
    <3>2. event[q] # 0 => Honest(IntentOf(q), TokenNft(event[q]))
      BY DEF HonestInv, TxHonest, Honest, TokenNft
    <3> QED
      BY <1>1, <3>1, <3>2
  <2>2. ASSUME NEW r \in Runs, MintReceiptV2(r) PROVE TxHonest'
    <3>1. nextTokenId' # 0 /\ intentToToken'[IntentOf(r)] = nextTokenId'
      BY <1>0, <2>2 DEF MintReceiptV2, TypeOK
    <3> QED
      BY <1>0, <1>2, <2>1, <2>2, <3>1 DEF MintReceiptV2, TypeOK, TxHonest, HonestInv
  <2>3. ASSUME NEW r \in Runs, MintReverts(r) PROVE TxHonest'
    <3>1. Rival(IntentOf(r))
      BY <2>3 DEF MintReverts, Rival, RoleHonest, HonestInv
    <3> QED
      BY <1>0, <1>2, <2>1, <2>3, <3>1 DEF MintReverts, TypeOK, TxHonest, HonestInv
  <2>4. ASSUME NEW r \in Runs, SendMint(r) PROVE TxHonest'
    BY <1>0, <1>2, <2>1, <2>4 DEF SendMint, TypeOK, TxHonest, HonestInv
  <2>5. CASE UNCHANGED txVars
    BY <1>2, <2>1, <2>5 DEF TxHonest, HonestInv
  <2> QED
    BY <2>2, <2>3, <2>4, <2>5 DEF Next, vars, MintSkipped, CheckRole, CheckToken, MintMined,
       RequestRetry, ReadReceipt, WriteReceipt, UpdateRejects, SetMinterRole, Exit
<1>5. AnswerHonest'
  <2>1. ASSUME NEW q \in Runs
        PROVE /\ answer[q].token # 0 => answer[q].token = intentToToken'[IntentOf(q)]
              /\ answer[q].kind = "token" /\ answer[q].token = 0 => Rival(IntentOf(q))'
    BY <1>0, <1>1 DEF TypeOK, HonestInv, AnswerHonest
  <2>2. ASSUME NEW r \in Runs, NEW nft \in Nfts, Honest(IntentOf(r), nft),
               answer' = [answer EXCEPT ![r] = nft]
        PROVE AnswerHonest'
    <3>1. ASSUME NEW q \in Runs PROVE Honest(IntentOf(q), answer[q])'
      <4>1. CASE q = r
        BY <1>0, <1>1, <2>2, <4>1 DEF TypeOK, Honest
      <4>2. CASE q # r
        BY <1>0, <2>1, <2>2, <4>2 DEF TypeOK, Honest
      <4> QED
        BY <4>1, <4>2
    <3> QED
      BY <3>1 DEF AnswerHonest
  <2>3. \A i \in Intents : Honest(i, Skipped) /\ Skipped \in Nfts
    BY <1>0 DEF Honest, Skipped, Nfts, TypeOK
  <2>4. ASSUME NEW r \in Runs, MintSkipped(r) PROVE AnswerHonest'
    BY <2>2, <2>3, <2>4 DEF MintSkipped, Answer
  <2>5. CASE UNCHANGED answer
    BY <2>1, <2>5 DEF AnswerHonest, Honest
  <2>6. ASSUME NEW r \in Runs, CheckRole(r) PROVE AnswerHonest'
    BY <2>2, <2>3, <2>5, <2>6 DEF CheckRole, Answer
  <2>7. ASSUME NEW r \in Runs, CheckToken(r) PROVE AnswerHonest'
    <3>1. CASE intentToToken[IntentOf(r)] > 0
      <4>1. LET nft == TokenNft(intentToToken[IntentOf(r)]) IN
              nft \in Nfts /\ Honest(IntentOf(r), nft)
        BY <1>0, <3>1 DEF TypeOK, Nfts, TokenNft, Honest
      <4> QED
        BY <2>2, <2>7, <3>1, <4>1 DEF CheckToken, Answer
    <3>2. CASE ~(intentToToken[IntentOf(r)] > 0)
      BY <2>5, <2>7, <3>2 DEF CheckToken
    <3> QED
      BY <3>1, <3>2
  <2>8. ASSUME NEW r \in Runs, MintMined(r) PROVE AnswerHonest'
    <3>1. TokenNft(event[r]) \in Nfts
      BY <1>0 DEF TypeOK, Nfts, TokenNft
    <3>2. Honest(IntentOf(r), TokenNft(event[r]))
      BY <2>8 DEF MintMined, HonestInv, TxHonest, Honest, TokenNft
    <3> QED
      BY <2>2, <2>8, <3>1, <3>2 DEF MintMined, Answer
  <2> QED
    BY <2>4, <2>5, <2>6, <2>7, <2>8 DEF Next, vars, MintReceiptV2, MintReverts, SendMint,
       RequestRetry, ReadReceipt, WriteReceipt, UpdateRejects, SetMinterRole, Exit
<1>6. \A i \in Intents : Honest(i, NoReceipt.nft) /\ Honest(i, NoReceipt.nft)'
  BY DEF Honest, NoReceipt, Receipt, NoNft
<1>7. ASSUME NEW q \in Runs
      PROVE /\ snapshot[q].nft.token # 0 => snapshot[q].nft.token = intentToToken'[IntentOf(q)]
            /\ snapshot[q].nft.kind = "token" /\ snapshot[q].nft.token = 0 => Rival(IntentOf(q))'
  <2>1. snapshot[q].nft \in Nfts
    BY <1>0 DEF TypeOK, Receipts
  <2> QED
    BY <1>1, <2>1 DEF HonestInv, SnapshotHonest
<1>8. ASSUME NEW i \in Intents
      PROVE /\ store[i].nft.token # 0 => store[i].nft.token = intentToToken'[i]
            /\ store[i].nft.kind = "token" /\ store[i].nft.token = 0 => Rival(i)'
  <2>1. store[i].nft \in Nfts
    BY <1>0 DEF TypeOK, Receipts
  <2> QED
    BY <1>1, <2>1 DEF HonestInv, StoreHonest
<1>9. SnapshotHonest'
  <2>1. ASSUME NEW r \in Runs, ReadReceipt(r) PROVE SnapshotHonest'
    <3>1. ASSUME NEW q \in Runs PROVE Honest(IntentOf(q), snapshot[q].nft)'
      <4>1. CASE q = r
        BY <1>0, <1>8, <2>1, <4>1 DEF ReadReceipt, TypeOK, Honest
      <4>2. CASE q # r
        BY <1>0, <1>7, <2>1, <4>2 DEF ReadReceipt, TypeOK, Honest
      <4> QED
        BY <4>1, <4>2
    <3> QED
      BY <3>1 DEF SnapshotHonest
  <2>2. ASSUME NEW r \in Runs, snapshot' = [snapshot EXCEPT ![r] = NoReceipt] PROVE SnapshotHonest'
    <3>1. ASSUME NEW q \in Runs PROVE Honest(IntentOf(q), snapshot[q].nft)'
      <4>1. CASE q = r
        BY <1>0, <1>6, <2>2, <4>1 DEF TypeOK, Honest
      <4>2. CASE q # r
        BY <1>0, <1>7, <2>2, <4>2 DEF TypeOK, Honest
      <4> QED
        BY <4>1, <4>2
    <3> QED
      BY <3>1 DEF SnapshotHonest
  <2>3. CASE Exit
    BY <1>6, <2>3 DEF Exit, SnapshotHonest, Honest
  <2>4. CASE UNCHANGED snapshot
    BY <1>7, <2>4 DEF SnapshotHonest, Honest
  <2> QED
    BY <2>1, <2>2, <2>3, <2>4 DEF Next, vars, MintReceiptV2, MintReverts, MintSkipped,
       CheckRole, CheckToken, SendMint, MintMined, RequestRetry, WriteReceipt, UpdateRejects,
       SetMinterRole
<1>10. StoreHonest'
  <2>1. ASSUME NEW r \in Runs, WriteReceipt(r) PROVE StoreHonest'
    <3> DEFINE current == IF Durable THEN snapshot[r] ELSE store[IntentOf(r)]
               new == Patch(r, current)
    <3>1. current \in Receipts /\ answer[r] \in Nfts
      BY <1>0 DEF TypeOK
    <3>2. new.nft = current.nft \/ new.nft = answer[r]
      BY <3>1 DEF Patch, Receipts
    <3>3. /\ intentToToken' = intentToToken /\ Rival(IntentOf(r))' = Rival(IntentOf(r))
          /\ store' = [store EXCEPT ![IntentOf(r)] = new]
      BY <2>1 DEF WriteReceipt, Rival
    <3>4. Honest(IntentOf(r), current.nft) /\ Honest(IntentOf(r), answer[r])
      BY DEF HonestInv, SnapshotHonest, StoreHonest, AnswerHonest
    <3>5. Honest(IntentOf(r), new.nft)
      BY <3>2, <3>4
    <3>6. ASSUME NEW i \in Intents PROVE Honest(i, store[i].nft)'
      <4>1. CASE i = IntentOf(r)
        <5>1. store'[i] = new
          BY <1>0, <3>3, <4>1 DEF TypeOK
        <5> QED
          BY <3>3, <3>5, <4>1, <5>1 DEF Honest
      <4>2. CASE i # IntentOf(r)
        <5>1. store'[i] = store[i]
          BY <1>0, <3>3, <4>2 DEF TypeOK
        <5> QED
          BY <1>8, <5>1 DEF Honest
      <4> QED
        BY <4>1, <4>2
    <3> QED
      BY <3>6 DEF StoreHonest
  <2>2. CASE UNCHANGED store
    BY <1>8, <2>2 DEF StoreHonest, Honest
  <2>3. CASE Exit
    BY <1>6, <2>2, <2>3 DEF Exit, StoreHonest, Honest
  <2> QED
    BY <2>1, <2>2, <2>3 DEF Next, vars, MintReceiptV2, MintReverts, MintSkipped, CheckRole,
       CheckToken, SendMint, MintMined, RequestRetry, ReadReceipt, UpdateRejects, SetMinterRole
<1> QED
  BY <1>0, <1>3, <1>4, <1>5, <1>9, <1>10 DEF HonestInv

(* A token on record is the one the contract keeps for that intent, no     *)
(* matter which runs raced and whose write came last.                      *)
THEOREM RecordsAreReal == Spec => []RecordedTokenIsReal
<1>1. HonestInv => RecordedTokenIsReal
  BY DEF HonestInv, StoreHonest, Honest, RecordedTokenIsReal
<1> QED
  BY <1>1, HonestInit, HonestStep, PTL DEF Spec

(* Where 0 is on record the intent has a token all the same, or the        *)
(* operator once was not allowed to mint.                                  *)
THEOREM ZeroHasARival == Spec => []ZeroTokenMeansRival
<1>1. HonestInv => ZeroTokenMeansRival
  BY DEF HonestInv, StoreHonest, Honest, Rival, TokenNft, ZeroTokenMeansRival
<1> QED
  BY <1>1, HonestInit, HonestStep, PTL DEF Spec

(* Whatever a stored receipt says of a token holds of the contract.        *)
THEOREM RecordsStayHonest == Spec => []RecordsAreHonest
<1>1. RecordedTokenIsReal /\ ZeroTokenMeansRival => RecordsAreHonest
  BY DEF RecordsAreHonest
<1> QED
  BY <1>1, RecordsAreReal, ZeroHasARival, PTL
-----------------------------------------------------------------------------
(* Results *)

IsResult(status) == status \in {"succeeded", "failed"}

(* What the runs know of their intent: a pipeline that has not stored its  *)
(* success holds the only pen, for a retry works only on a result; and     *)
(* what either has read is no older than the phase it is in.               *)
RetryView ==
  \A r \in Retries :
    /\ pc[r] \in Awaits => IsResult(store[IntentOf(r)].status)
    /\ snapshot[r] # NoReceipt => IsResult(snapshot[r].status)

PipelineView ==
  \A i \in Intents :
    /\ pc[i] \notin {"idle", "refresh"}
    /\ pc[i] \in MintAwaits \union {"record", "succeed"} => store[i].status = "finalizing"
    /\ pc[i] \in MintAwaits \union {"record"} /\ snapshot[i] # NoReceipt =>
         snapshot[i].status = "finalizing"
    /\ pc[i] = "narrate" =>
         /\ IsResult(store[i].status)
         /\ snapshot[i] # NoReceipt => IsResult(snapshot[i].status)

ResultInv == TypeOK /\ RetryView /\ PipelineView

KeepsResult ==
  \A i \in Intents : store[i].status \in {"succeeded", "failed"} =>
    \/ store'[i].status \in {"succeeded", "failed"}
    \/ store'[i] = NoReceipt /\ ~Durable

LEMMA ResultInit == Init => ResultInv
BY TypeInit, RunsAssumption
   DEF Init, ResultInv, RetryView, PipelineView, Runs, IntentOf, Awaits, MintAwaits,
       UpdateAwaits, Receipt, NoReceipt

(* What a write leaves: a result where a retry or the narration writes,    *)
(* finalizing or a result where the pipeline does.                         *)
LEMMA WriteLeaves ==
  ASSUME ResultInv, NEW r \in Runs, WriteReceipt(r)
  PROVE  LET i == IntentOf(r) IN
         /\ store' = [store EXCEPT ![i] = store'[i]]
         /\ r \in Retries => IsResult(store'[i].status)
         /\ r \in Intents /\ pc[r] = "record" => store'[i].status = "finalizing"
         /\ r \in Intents /\ pc[r] # "record" => IsResult(store'[i].status)
<1> DEFINE i == IntentOf(r)
           current == IF Durable THEN snapshot[r] ELSE store[i]
<1>1. TypeOK /\ i \in Intents /\ pc[r] \in UpdateAwaits /\ current # NoReceipt
  BY IntentOfType DEF ResultInv, WriteReceipt
<1>2. store' = [store EXCEPT ![i] = Patch(r, current)] /\ store'[i] = Patch(r, current)
  BY <1>1 DEF WriteReceipt, TypeOK
<1>3. current \in Receipts
  BY <1>1 DEF TypeOK
<1>4. CASE r \in Retries
  <2>1. IsResult(current.status)
    BY <1>1, <1>4 DEF ResultInv, RetryView, Awaits
  <2>2. IsResult(Patch(r, current).status)
    BY <1>3, <2>1 DEF Patch, Receipts, IsResult
  <2>3. r \notin Intents
    BY <1>4, RunsAssumption
  <2> QED
    BY <1>2, <2>2, <2>3
<1>5. CASE r \in Intents
  <2>1. i = r /\ r \notin Retries
    BY <1>5, RunsAssumption DEF IntentOf
  <2>2. pc[r] \in {"record", "succeed", "narrate", "catch"}
    BY <1>1, <1>5 DEF ResultInv, PipelineView, UpdateAwaits
  <2>3. CASE pc[r] = "record"
    <3>1. current.status = "finalizing"
      BY <1>1, <1>5, <2>1, <2>3 DEF ResultInv, PipelineView
    <3>2. Patch(r, current).status = "finalizing"
      BY <1>3, <2>3, <3>1 DEF Patch, Receipts
    <3> QED
      BY <1>2, <2>1, <2>3, <3>2
  <2>4. CASE pc[r] = "narrate"
    <3>1. IsResult(current.status)
      BY <1>1, <1>5, <2>1, <2>4 DEF ResultInv, PipelineView
    <3>2. Patch(r, current) = current
      BY <2>4 DEF Patch
    <3> QED
      BY <1>2, <2>1, <2>4, <3>1, <3>2
  <2>5. CASE pc[r] \in {"succeed", "catch"}
    <3>1. IsResult(Patch(r, current).status)
      BY <1>3, <2>5 DEF Patch, Receipts, IsResult
    <3> QED
      BY <1>2, <2>1, <2>5, <3>1
  <2> QED
    BY <2>2, <2>3, <2>4, <2>5
<1> QED
  BY <1>4, <1>5 DEF Runs

LEMMA WriteKeepsResult ==
  ASSUME ResultInv, NEW r \in Runs, WriteReceipt(r)
  PROVE  KeepsResult
<1>1. ASSUME r \in Intents, pc[r] = "record" PROVE ~IsResult(store[IntentOf(r)].status)
  BY <1>1 DEF ResultInv, PipelineView, IntentOf, IsResult
<1>2. \A i \in Intents : i # IntentOf(r) => store'[i] = store[i]
  BY WriteLeaves, IntentOfType DEF ResultInv, TypeOK
<1>3. IsResult(store[IntentOf(r)].status) => IsResult(store'[IntentOf(r)].status)
  BY <1>1, WriteLeaves DEF Runs
<1> QED
  BY <1>2, <1>3 DEF KeepsResult, IsResult

LEMMA StepKeepsResult == ResultInv /\ [Next]_vars => KeepsResult
<1> SUFFICES ASSUME ResultInv, [Next]_vars PROVE KeepsResult
  OBVIOUS
<1>1. CASE UNCHANGED store
  BY <1>1 DEF KeepsResult
<1>2. CASE Exit
  BY <1>1, <1>2 DEF Exit, KeepsResult
<1> QED
  BY <1>1, <1>2, WriteKeepsResult DEF Next, vars, MintReceiptV2, MintReverts, MintSkipped,
     CheckRole, CheckToken, SendMint, MintMined, RequestRetry, ReadReceipt, UpdateRejects,
     SetMinterRole

LEMMA ResultStep == ResultInv /\ [Next]_vars => ResultInv'
<1> SUFFICES ASSUME ResultInv, [Next]_vars PROVE ResultInv'
  OBVIOUS
<1> USE IntentOfType, RunsAssumption DEF contractVars, roleVars, txVars, Runs
<1>0. TypeOK /\ TypeOK' /\ RetryView /\ PipelineView
  BY TypeStep DEF ResultInv
<1>1. CASE UNCHANGED <<store, pc, snapshot>>
  BY <1>0, <1>1 DEF ResultInv, RetryView, PipelineView
<1>2. ASSUME NEW r \in Runs, UNCHANGED <<store, snapshot>>, pc[r] \in MintAwaits,
             NEW to \in MintAwaits \union {"record"}, pc' = [pc EXCEPT ![r] = to]
      PROVE ResultInv'
  <2>1. RetryView'
    BY <1>0, <1>2 DEF RetryView, TypeOK, Awaits
  <2>2. PipelineView'
    BY <1>0, <1>2 DEF PipelineView, TypeOK, MintAwaits
  <2> QED
    BY <1>0, <2>1, <2>2 DEF ResultInv
<1>3. ASSUME NEW r \in Runs, MintSkipped(r) \/ CheckRole(r) \/ CheckToken(r) \/ SendMint(r) \/ MintMined(r)
      PROVE ResultInv'
  <2>1. UNCHANGED <<store, snapshot>> /\ pc[r] \in MintAwaits
    BY <1>3 DEF MintSkipped, CheckRole, CheckToken, SendMint, MintMined, MintAwaits
  <2>2. \E to \in MintAwaits \union {"record"} : pc' = [pc EXCEPT ![r] = to]
    BY <1>3 DEF MintSkipped, CheckRole, CheckToken, SendMint, MintMined, MintAwaits, Answer, Goto
  <2> QED
    BY <1>2, <2>1, <2>2
<1>4. ASSUME NEW r \in Runs, RequestRetry(r) PROVE ResultInv'
  <2>1. r \in Retries /\ r \notin Intents /\ UNCHANGED <<store, snapshot>>
    BY <1>4 DEF RequestRetry
  <2>2. \/ pc' = [pc EXCEPT ![r] = "refresh"] /\ IsResult(store[IntentOf(r)].status)
        \/ pc' = [pc EXCEPT ![r] = "done"]
    BY <1>4 DEF RequestRetry, Goto, IsResult
  <2>3. RetryView'
    BY <1>0, <2>1, <2>2 DEF RetryView, TypeOK, Awaits, MintAwaits, UpdateAwaits
  <2>4. PipelineView'
    BY <1>0, <2>1, <2>2 DEF PipelineView, TypeOK
  <2> QED
    BY <1>0, <2>3, <2>4 DEF ResultInv
<1>5. ASSUME NEW r \in Runs, ReadReceipt(r) PROVE ResultInv'
  <2>1. /\ snapshot' = [snapshot EXCEPT ![r] = store[IntentOf(r)]]
        /\ pc[r] \in UpdateAwaits /\ UNCHANGED <<store, pc>>
    BY <1>5 DEF ReadReceipt
  <2>2. RetryView'
    BY <1>0, <2>1 DEF RetryView, TypeOK, Awaits
  <2>3. PipelineView'
    BY <1>0, <2>1 DEF PipelineView, TypeOK, IntentOf, MintAwaits, UpdateAwaits
  <2> QED
    BY <1>0, <2>2, <2>3 DEF ResultInv
<1>6. ASSUME NEW r \in Runs, WriteReceipt(r) PROVE ResultInv'
  <2> DEFINE i == IntentOf(r)
  <2>1. /\ snapshot' = [snapshot EXCEPT ![r] = NoReceipt]
        /\ pc' = [pc EXCEPT ![r] = AfterUpdate(r)]
        /\ pc[r] \in UpdateAwaits
    BY <1>6 DEF WriteReceipt, Goto
  <2>2. /\ store' = [store EXCEPT ![i] = store'[i]]
        /\ r \in Retries => IsResult(store'[i].status)
        /\ r \in Intents /\ pc[r] = "record" => store'[i].status = "finalizing"
        /\ r \in Intents /\ pc[r] # "record" => IsResult(store'[i].status)
    BY <1>6, WriteLeaves
  <2>3. KeepsResult /\ \A j \in Intents : j # i => store'[j] = store[j]
    BY <1>0, <1>6, <2>2, WriteKeepsResult DEF TypeOK
  <2>4. i \in Intents
    OBVIOUS
  <2>5. \A j \in Intents : IsResult(store[j].status) => IsResult(store'[j].status)
    <3>1. r \in Intents /\ pc[r] = "record" => ~IsResult(store[i].status)
      BY <1>0 DEF PipelineView, IntentOf, IsResult
    <3> QED
      BY <2>2, <2>3, <3>1
  <2>6. RetryView'
    <3>1. ASSUME NEW q \in Retries, pc'[q] \in Awaits PROVE IsResult(store'[IntentOf(q)].status)
      <4>1. CASE q = r
        BY <2>2, <4>1
      <4>2. CASE q # r
        BY <1>0, <2>1, <2>5, <3>1, <4>2 DEF RetryView, TypeOK
      <4> QED
        BY <4>1, <4>2
    <3>2. ASSUME NEW q \in Retries, snapshot'[q] # NoReceipt PROVE IsResult(snapshot'[q].status)
      BY <1>0, <2>1, <3>2 DEF RetryView, TypeOK
    <3> QED
      BY <3>1, <3>2 DEF RetryView
  <2>7. ASSUME NEW j \in Intents, j # r
        PROVE (pc[j] \in MintAwaits \union {"record", "succeed"} => store'[j] = store[j])
    <3>1. CASE j # i
      BY <2>3, <3>1
    <3>2. CASE j = i
      <4>1. r \in Retries /\ pc[r] \in Awaits
        BY <2>1, <2>7, <3>2 DEF IntentOf, Awaits
      <4>2. IsResult(store[j].status)
        BY <1>0, <3>2, <4>1 DEF RetryView
      <4> QED
        BY <1>0, <4>2 DEF PipelineView, IsResult
    <3> QED
      BY <3>1, <3>2
  <2>8. PipelineView'
    <3>1. ASSUME NEW j \in Intents, j # r
          PROVE /\ pc'[j] \notin {"idle", "refresh"}
                /\ pc'[j] \in MintAwaits \union {"record", "succeed"} => store'[j].status = "finalizing"
                /\ pc'[j] \in MintAwaits \union {"record"} /\ snapshot'[j] # NoReceipt =>
                     snapshot'[j].status = "finalizing"
                /\ pc'[j] = "narrate" =>
                     /\ IsResult(store'[j].status)
                     /\ snapshot'[j] # NoReceipt => IsResult(snapshot'[j].status)
      <4>1. pc'[j] = pc[j] /\ snapshot'[j] = snapshot[j]
        BY <1>0, <2>1, <3>1 DEF TypeOK
      <4> QED
        BY <1>0, <2>5, <2>7, <3>1, <4>1 DEF PipelineView
    <3>2. ASSUME NEW j \in Intents, j = r
          PROVE /\ pc'[j] \notin {"idle", "refresh"}
                /\ pc'[j] \in MintAwaits \union {"record", "succeed"} => store'[j].status = "finalizing"
                /\ snapshot'[j] = NoReceipt
                /\ pc'[j] = "narrate" => IsResult(store'[j].status)
      <4>1. i = j /\ pc[r] \in {"record", "succeed", "narrate", "catch"}
        BY <1>0, <2>1, <3>2 DEF PipelineView, IntentOf, UpdateAwaits
      <4>2. pc'[j] = AfterUpdate(r) /\ snapshot'[j] = NoReceipt
        BY <1>0, <2>1, <3>2 DEF TypeOK
      <4> QED
        BY <2>2, <3>2, <4>1, <4>2 DEF AfterUpdate, MintAwaits
    <3> QED
      BY <3>1, <3>2 DEF PipelineView
  <2> QED
    BY <1>0, <2>6, <2>8 DEF ResultInv
<1>7. ASSUME NEW r \in Runs, UpdateRejects(r) PROVE ResultInv'
  <2>1. /\ snapshot' = [snapshot EXCEPT ![r] = NoReceipt] /\ UNCHANGED store
        /\ \E to \in {"catch", "done"} :
             pc' = [pc EXCEPT ![r] = to] /\ (to = "catch" => r \in Intents)
    BY <1>7 DEF UpdateRejects, Goto
  <2>2. RetryView'
    BY <1>0, <2>1 DEF RetryView, TypeOK, Awaits, MintAwaits, UpdateAwaits
  <2>3. PipelineView'
    BY <1>0, <2>1 DEF PipelineView, TypeOK, MintAwaits
  <2> QED
    BY <1>0, <2>2, <2>3 DEF ResultInv
<1>8. CASE Exit
  <2>1. RetryView'
    BY <1>0, <1>8 DEF Exit, RetryView, TypeOK, Awaits, MintAwaits, UpdateAwaits
  <2>2. PipelineView'
    BY <1>0, <1>8 DEF Exit, PipelineView, TypeOK, Awaits, MintAwaits, UpdateAwaits
  <2> QED
    BY <1>0, <2>1, <2>2 DEF ResultInv
<1> QED
  BY <1>1, <1>3, <1>4, <1>5, <1>6, <1>7, <1>8
     DEF Next, vars, MintReceiptV2, MintReverts, SetMinterRole

(* No stale write of a retry, of the pipeline or of its catch turns a      *)
(* result back into finalizing.                                            *)
THEOREM ResultsStay == Spec => ResultStays
<1>1. ResultInv /\ [Next]_vars => [KeepsResult]_vars
  BY StepKeepsResult
<1>2. [KeepsResult]_vars =>
        [\A i \in Intents : store[i].status \in {"succeeded", "failed"} =>
           \/ store'[i].status \in {"succeeded", "failed"}
           \/ store'[i] = NoReceipt /\ ~Durable]_vars
  BY DEF KeepsResult
<1> QED
  BY <1>1, <1>2, ResultInit, ResultStep, PTL DEF Spec, ResultStays
=============================================================================
