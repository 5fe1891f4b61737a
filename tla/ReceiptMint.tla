---------------------------- MODULE ReceiptMint ----------------------------
(***************************************************************************)
(* The receipt token of an intent: contracts/src/ArcReceiptNFT.sol, the    *)
(* minter of apps/api/src/services/receipts/arcReceiptMinter.ts, and its   *)
(* two callers, the end of the pipeline in intentOrchestrator.ts and the   *)
(* request POST /intents/:id/retry-nft of app.ts.                          *)
(*                                                                         *)
(* A run is one call of the minter together with the store updates around  *)
(* it.  An action is the code between two awaits, a store update in        *)
(* Postgres being two: the row is read, then written back as a whole.      *)
(*                                                                         *)
(* Of the stored receipt it keeps the status and the token; the input's    *)
(* metadata, the fee lines, the trace and the narration are left out, the  *)
(* writes that store them are not: they put back all that was read.        *)
(***************************************************************************)
EXTENDS Integers

CONSTANTS
  Intents,   (* intents whose protocol succeeded; each one is its own run    *)
  Retries,   (* requests to retry a token, a run each                        *)
  TargetOf,  (* the intent such a request names                              *)
  Durable    (* TRUE: receipts in Postgres; FALSE: in memory                 *)

ASSUME RunsAssumption ==
  /\ Intents \intersect Retries = {}
  /\ TargetOf \in [Retries -> Intents]
  /\ Durable \in BOOLEAN

Runs == Intents \union Retries
IntentOf(r) == IF r \in Intents THEN r ELSE TargetOf[r]

VARIABLES
  nextTokenId,    (* ArcReceiptNFT: tokens minted so far                     *)
  intentToToken,  (* ArcReceiptNFT: the token of an intent, 0 if none        *)
  tokens,         (* ArcReceiptNFT: receipts, which intent a token is of     *)
  isMinter,       (* the operator holds MINTER_ROLE                          *)
  roleLost,       (* history: it once did not                                *)
  store,          (* status and nftReceipt of each intent                    *)
  pc,             (* the await a run is suspended at                         *)
  snapshot,       (* the receipt a run's store update has read               *)
  answer,         (* what mint answered a run                                *)
  tx,             (* the mint transaction of a run                           *)
  event           (* the token in its ReceiptMinted event, 0 if none         *)

contractVars == <<nextTokenId, intentToToken, tokens>>
roleVars     == <<isMinter, roleLost>>
txVars       == <<tx, event>>
vars == <<contractVars, roleVars, store, pc, snapshot, answer, txVars>>

NoNft       == [kind |-> "none", token |-> 0]
Skipped     == [kind |-> "skipped", token |-> 0]
TokenNft(n) == [kind |-> "token", token |-> n]

Receipt(status, nft) == [status |-> status, nft |-> nft]
NoReceipt == Receipt("none", NoNft)

(* The awaits of mint, of the store updates around it, and all of them.    *)
MintAwaits   == {"checkRole", "checkToken", "send", "receipt"}
UpdateAwaits == {"refresh", "record", "succeed", "narrate", "catch"}
Awaits       == MintAwaits \union UpdateAwaits

Goto(r, label) == pc' = [pc EXCEPT ![r] = label]

(* The pipelines have stored their protocol receipts. *)
Init ==
  /\ nextTokenId = 0
  /\ intentToToken = [i \in Intents |-> 0]
  /\ tokens = {}
  /\ isMinter \in BOOLEAN
  /\ roleLost = ~isMinter
  /\ store = [i \in Intents |-> Receipt("finalizing", NoNft)]
  /\ pc = [r \in Runs |-> IF r \in Intents THEN "checkRole" ELSE "idle"]
  /\ snapshot = [r \in Runs |-> NoReceipt]
  /\ answer = [r \in Runs |-> NoNft]
  /\ tx = [r \in Runs |-> "none"]
  /\ event = [r \in Runs |-> 0]
-----------------------------------------------------------------------------
(* ArcReceiptNFT *)

(* Faulty variant: AlreadyMinted is not checked. *)
MintReceiptV2Again(r) ==
  /\ tx[r] = "pending" /\ isMinter
  /\ nextTokenId' = nextTokenId + 1
  /\ tokens' = tokens \union {[id |-> nextTokenId', intent |-> IntentOf(r)]}
  /\ intentToToken' = [intentToToken EXCEPT ![IntentOf(r)] = nextTokenId']
  /\ event' = [event EXCEPT ![r] = nextTokenId']
  /\ tx' = [tx EXCEPT ![r] = "ok"]
  /\ UNCHANGED <<roleVars, store, pc, snapshot, answer>>

(* The operator's transaction is mined and goes through: the role is there *)
(* and the intent has no token yet.                                        *)
MintReceiptV2(r) ==
  /\ tx[r] = "pending" /\ isMinter
  /\ intentToToken[IntentOf(r)] = 0
  /\ nextTokenId' = nextTokenId + 1
  /\ tokens' = tokens \union {[id |-> nextTokenId', intent |-> IntentOf(r)]}
  /\ intentToToken' = [intentToToken EXCEPT ![IntentOf(r)] = nextTokenId']
  /\ event' = [event EXCEPT ![r] = nextTokenId']
  /\ tx' = [tx EXCEPT ![r] = "ok"]
  /\ UNCHANGED <<roleVars, store, pc, snapshot, answer>>

(* It reverts: no role, or AlreadyMinted. *)
MintReverts(r) ==
  /\ tx[r] = "pending"
  /\ ~isMinter \/ intentToToken[IntentOf(r)] # 0
  /\ tx' = [tx EXCEPT ![r] = "reverted"]
  /\ UNCHANGED <<contractVars, roleVars, store, pc, snapshot, answer, event>>

(* The contract's admin grants or revokes the operator's role. *)
SetMinterRole ==
  /\ isMinter' = ~isMinter
  /\ roleLost' = TRUE
  /\ UNCHANGED <<contractVars, store, pc, snapshot, answer, txVars>>
-----------------------------------------------------------------------------
(* ArcReceiptMinter.mint *)

Answer(r, nft) ==
  /\ answer' = [answer EXCEPT ![r] = nft]
  /\ Goto(r, "record")

(* No contract address or no wallet on Arc to mint to; and, at any await,  *)
(* an error of the RPC: the catch answers skipped.  A wait for the receipt *)
(* gives up this way too, its transaction stays where it is.               *)
MintSkipped(r) ==
  /\ pc[r] \in MintAwaits
  /\ Answer(r, Skipped)
  /\ UNCHANGED <<contractVars, roleVars, store, snapshot, txVars>>

CheckRole(r) ==
  /\ pc[r] = "checkRole"
  /\ IF isMinter THEN Goto(r, "checkToken") /\ UNCHANGED answer ELSE Answer(r, Skipped)
  /\ UNCHANGED <<contractVars, roleVars, store, snapshot, txVars>>

(* "Idempotency check: has this intent already been minted?"               *)
CheckToken(r) ==
  /\ pc[r] = "checkToken"
  /\ LET existingTokenId == intentToToken[IntentOf(r)] IN
       IF existingTokenId > 0 THEN Answer(r, TokenNft(existingTokenId))
       ELSE Goto(r, "send") /\ UNCHANGED answer
  /\ UNCHANGED <<contractVars, roleVars, store, snapshot, txVars>>

(* writeContract estimates the gas first, which fails where the call would *)
(* revert on the state it is estimated on; otherwise it is sent.           *)
SendMint(r) ==
  /\ pc[r] = "send"
  /\ isMinter /\ intentToToken[IntentOf(r)] = 0
  /\ tx' = [tx EXCEPT ![r] = "pending"]
  /\ Goto(r, "receipt")
  /\ UNCHANGED <<contractVars, roleVars, store, snapshot, answer, event>>

(* Faulty variant: the token is taken from totalMinted. *)
MintMinedLatest(r) ==
  /\ pc[r] = "receipt" /\ tx[r] \in {"ok", "reverted"}
  /\ Answer(r, TokenNft(nextTokenId))
  /\ UNCHANGED <<contractVars, roleVars, store, snapshot, txVars>>

(* The token is the one of the event; without an event, and the status of  *)
(* the transaction is not looked at, it is the existingTokenId: 0.         *)
MintMined(r) ==
  /\ pc[r] = "receipt" /\ tx[r] \in {"ok", "reverted"}
  /\ Answer(r, TokenNft(event[r]))
  /\ UNCHANGED <<contractVars, roleVars, store, snapshot, txVars>>
-----------------------------------------------------------------------------
(* Its callers and the store *)

(* Faulty variant: an intent about to succeed is, too. *)
RequestRetryEarly(r) ==
  /\ r \in Retries /\ pc[r] = "idle"
  /\ Goto(r, IF store[IntentOf(r)].status \in {"finalizing", "succeeded"} THEN "refresh" ELSE "done")
  /\ UNCHANGED <<contractVars, roleVars, store, snapshot, answer, txVars>>

(* Only an intent that succeeded is given another try. *)
RequestRetry(r) ==
  /\ r \in Retries /\ pc[r] = "idle"
  /\ Goto(r, IF store[IntentOf(r)].status = "succeeded" THEN "refresh" ELSE "done")
  /\ UNCHANGED <<contractVars, roleVars, store, snapshot, answer, txVars>>

(* What the update a run is at changes of a receipt; refresh stores the    *)
(* metadata of the request, narrate the narration.                         *)
Patch(r, receipt) ==
  CASE pc[r] = "record"  -> [receipt EXCEPT !.nft = answer[r]]
    [] pc[r] = "succeed" -> [receipt EXCEPT !.nft = answer[r], !.status = "succeeded"]
    [] pc[r] = "catch"   -> [receipt EXCEPT !.status = "failed"]
    [] OTHER             -> receipt

AfterUpdate(r) ==
  CASE pc[r] = "refresh" -> "checkRole"
    [] pc[r] = "record"  -> IF r \in Intents THEN "succeed" ELSE "done"
    [] pc[r] = "succeed" -> "narrate"
    [] OTHER             -> "done"

(* update: SELECT.  The receipt is there: rows are never deleted.          *)
ReadReceipt(r) ==
  /\ Durable /\ pc[r] \in UpdateAwaits /\ snapshot[r] = NoReceipt
  /\ snapshot' = [snapshot EXCEPT ![r] = store[IntentOf(r)]]
  /\ UNCHANGED <<contractVars, roleVars, store, pc, answer, txVars>>

(* update: the whole of it is written back, the map's entry at once.       *)
WriteReceipt(r) ==
  LET current == IF Durable THEN snapshot[r] ELSE store[IntentOf(r)] IN
  /\ pc[r] \in UpdateAwaits /\ current # NoReceipt
  /\ store' = [store EXCEPT ![IntentOf(r)] = Patch(r, current)]
  /\ snapshot' = [snapshot EXCEPT ![r] = NoReceipt]
  /\ Goto(r, AfterUpdate(r))
  /\ UNCHANGED <<contractVars, roleVars, answer, txVars>>

(* The database rejects.  The pipeline stores its failure in the catch; a  *)
(* request ends, and so does a catch.                                      *)
UpdateRejects(r) ==
  /\ Durable /\ pc[r] \in UpdateAwaits
  /\ snapshot' = [snapshot EXCEPT ![r] = NoReceipt]
  /\ Goto(r, IF r \in Intents /\ pc[r] # "catch" THEN "catch" ELSE "done")
  /\ UNCHANGED <<contractVars, roleVars, store, answer, txVars>>

(* The process exits and is started again; what was sent stays sent. *)
Exit ==
  /\ pc' = [r \in Runs |-> IF pc[r] \in Awaits THEN "done" ELSE pc[r]]
  /\ snapshot' = [r \in Runs |-> NoReceipt]
  /\ store' = IF Durable THEN store ELSE [i \in Intents |-> NoReceipt]
  /\ UNCHANGED <<contractVars, roleVars, answer, txVars>>
-----------------------------------------------------------------------------
Next ==
  \/ \E r \in Runs :
       \/ MintReceiptV2(r)
       \/ MintReverts(r)
       \/ MintSkipped(r)
       \/ CheckRole(r)
       \/ CheckToken(r)
       \/ SendMint(r)
       \/ MintMined(r)
       \/ RequestRetry(r)
       \/ ReadReceipt(r)
       \/ WriteReceipt(r)
       \/ UpdateRejects(r)
  \/ SetMinterRole
  \/ Exit

Spec == Init /\ [][Next]_vars
-----------------------------------------------------------------------------
Nfts == [kind : {"none", "skipped", "token"}, token : 0..nextTokenId]
Receipts == [status : {"none", "finalizing", "succeeded", "failed"}, nft : Nfts]

TypeOK ==
  /\ nextTokenId \in Nat
  /\ intentToToken \in [Intents -> 0..nextTokenId]
  /\ tokens \subseteq [id : 1..nextTokenId, intent : Intents]
  /\ isMinter \in BOOLEAN
  /\ roleLost \in BOOLEAN
  /\ store \in [Intents -> Receipts]
  /\ pc \in [Runs -> Awaits \union {"idle", "done"}]
  /\ snapshot \in [Runs -> Receipts]
  /\ answer \in [Runs -> Nfts]
  /\ tx \in [Runs -> {"none", "pending", "ok", "reverted"}]
  /\ event \in [Runs -> 0..nextTokenId]

(* However many mints of an intent are under way, the contract ends up     *)
(* with at most one token of it, and its two mappings agree on which.      *)
OneTokenPerIntent ==
  /\ \A t \in tokens : t.id = intentToToken[t.intent]
  /\ \A i \in Intents : intentToToken[i] # 0 => [id |-> intentToToken[i], intent |-> i] \in tokens

(* A token a stored receipt shows is the token of that intent, whoever     *)
(* wrote the receipt last; 0, from a transaction that reverted, excepted.  *)
RecordedTokenIsReal ==
  \A i \in Intents : store[i].nft.token # 0 => store[i].nft.token = intentToToken[i]

(* A receipt that shows token 0 belongs to an intent that does have one: a *)
(* rival mint got there first (or the operator lost its role meanwhile),   *)
(* so that another retry finds it.                                         *)
ZeroTokenMeansRival ==
  \A i \in Intents :
    store[i].nft = TokenNft(0) => intentToToken[i] # 0 \/ roleLost

(* What a stored receipt shows of a token can be relied on: both of these. *)
RecordsAreHonest == RecordedTokenIsReal /\ ZeroTokenMeansRival

(* A result that is on record is not taken back to finalizing by a stale  *)
(* write: retries and the pipeline write back whole receipts they read     *)
(* earlier, so they may undo each other's success or failure, but never    *)
(* leave an intent in flight that nobody works on any more.                *)
ResultStays ==
  [][\A i \in Intents : store[i].status \in {"succeeded", "failed"} =>
       \/ store'[i].status \in {"succeeded", "failed"}
       \/ store'[i] = NoReceipt /\ ~Durable]_vars
=============================================================================
