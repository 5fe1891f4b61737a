----------------------- MODULE SolanaExecution_proofs -----------------------
(***************************************************************************)
(* Proofs about SolanaExecution, for every set of calls, signers, settings,*)
(* deployments and prices.                                                 *)
(***************************************************************************)
EXTENDS SolanaExecution, TLAPS

Accounts    == {"wsol"} \union Recipients
CallRecords ==
  [at : Steps, req : AllRequests \union {NoRequest}, payload : Payloads, min : Nat,
   deposit : Nat, creates : SUBSET Accounts, answer : Answers]

(* What a call's record promises about the chain: nothing is on it before  *)
(* the service has sent, an answer is so, the minimum the swap must pay is *)
(* not below the request's, and bounds a deposit if the request names      *)
(* neither.                                                                *)
Fits(c, k) ==
  /\ k.at = "answered" <=> k.answer # "none"
  /\ k.at \notin {"confirming", "answered"} => tx[c] = "none"
  /\ k.answer = "succeeded" => tx[c] = "landed"
  /\ k.answer = "already_executed" => tx[c] = "none" /\ <<k.req.service, c>> \in receipts
  /\ k.answer \in {"simulated", "planned", "builder_only", "not_configured", "threw"} => tx[c] = "none"
  /\ k.req.service = "marinade" /\ k.payload = "fit" => k.req.least <= k.min
  /\ k.req.service = "marinade" /\ k.req.asked = 0 /\ k.req.least = 0 => k.deposit <= k.min

(* Only a transaction that landed has staked, and its swap paid for it     *)
(* what the request lets it rely on.                                       *)
Covered(c) ==
  /\ tx[c] # "landed" => moved[c].staked = 0
  /\ moved[c].staked > 0 => moved[c].out >= call[c].req.least
  /\ moved[c].staked > 0 /\ call[c].req.asked = 0 /\ call[c].req.least = 0 => moved[c].out >= moved[c].staked

IInv ==
  /\ TypeOK
  /\ AtMostOnce
  /\ \A c \in Calls : Fits(c, call[c]) /\ Covered(c)

LEMMA TypeCall == TypeOK => call \in [Calls -> CallRecords]
BY DEF TypeOK, CallRecords, Accounts

(* A request is one of the two kinds, and reading it leaves it one.        *)
LEMMA ReadRequest ==
  ASSUME NEW r \in AllRequests
  PROVE  /\ Read(r) \in AllRequests
         /\ Read(r).service = r.service
         /\ r.service \in Services
         /\ r.service = "marinade" => r.asked \in Nat /\ Read(r).asked = r.asked
         /\ r.service = "marinade" => r.least \in Nat /\ Read(r).least = r.least
<1>1. CASE r \in [service : Recording, mode : Modes, given : Given, special : BOOLEAN, known : BOOLEAN]
  <2>1. Read(r) \in [service : Recording, mode : Modes, given : Given, special : BOOLEAN, known : BOOLEAN]
    BY <1>1 DEF Read, Given
  <2> QED
    BY <1>1, <2>1 DEF AllRequests, Read, Recording, Services
<1>2. CASE r \in [service : {"marinade"}, mode : Modes, given : Given, special : BOOLEAN,
                  asked : {0} \union Asked, least : {0} \union Asked, to : Recipients]
  <2>1. Read(r) \in [service : {"marinade"}, mode : Modes, given : Given, special : BOOLEAN,
                     asked : {0} \union Asked, least : {0} \union Asked, to : Recipients]
    BY <1>2 DEF Read, Given
  <2>2. r.asked \in Nat /\ r.least \in Nat
    <3>1. r.asked \in {0} \union Asked /\ r.least \in {0} \union Asked
      BY <1>2
    <3>2. \A x \in {0} \union Asked : x \in Nat
      BY AmountsAssumption
    <3> QED
      BY <3>1, <3>2, Zenon
  <2>3. Read(r) \in AllRequests /\ r.service = "marinade" /\ r.service \in Services
    BY <1>2, <2>1 DEF AllRequests, Services
  <2>4. Read(r).service = r.service /\ Read(r).asked = r.asked /\ Read(r).least = r.least
    BY <1>2 DEF Read
  <2> QED
    BY <2>2, <2>3, <2>4
<1> QED
  BY <1>1, <1>2 DEF AllRequests

LEMMA Quote == ASSUME NEW p \in Nat PROVE Quoted(p) \in Nat
BY DEF Quoted

(* The initial states have what the proof carries along.                   *)
LEMMA InitInv == Init => IInv
<1> SUFFICES ASSUME Init PROVE IInv
  OBVIOUS
<1>1. Idle \in CallRecords
  BY DEF Idle, CallRecords, Steps, Payloads, Answers
<1>2. TypeOK
  <2>1. call \in [Calls -> CallRecords]
    BY <1>1 DEF Init
  <2>2. \A c \in Calls : call[c].at = "answered" <=> call[c].answer # "none"
    BY DEF Init, Idle
  <2>3. config \in [Services -> Configs \union {NoConfig}]
    BY DeployedAssumption DEF Init
  <2>4. moved \in [Calls -> [out : Nat, staked : Nat]]
    BY DEF Init
  <2> QED
    BY <2>1, <2>2, <2>3, <2>4, AmountsAssumption DEF Init, TypeOK, CallRecords, Accounts
<1>3. AtMostOnce
  BY DEF Init, AtMostOnce
<1>4. \A c \in Calls : Fits(c, call[c]) /\ Covered(c)
  BY DEF Init, Fits, Covered, Idle, NoRequest
<1> QED
  BY <1>2, <1>3, <1>4 DEF IInv

(* A step of one call that touches nothing else: it is enough that the     *)
(* call's new record fits the chain, and asks for the same once something  *)
(* was staked.                                                             *)
LEMMA LocalStep ==
  ASSUME IInv, NEW c \in Calls, NEW k \in CallRecords,
         call' = [call EXCEPT ![c] = k], UNCHANGED World,
         Fits(c, k), moved[c].staked = 0 \/ k.req = call[c].req
  PROVE  IInv'
<1> USE DEF World
<1>1. call' \in [Calls -> CallRecords]
  BY TypeCall DEF IInv
<1>2. call'[c] = k /\ \A d \in Calls \ {c} : call'[d] = call[d]
  BY DEF IInv, TypeOK
<1>3. \A d \in Calls : Fits(d, call[d])'
  BY <1>2 DEF IInv, Fits
<1>4. \A d \in Calls : Covered(d)'
  <2> SUFFICES ASSUME NEW d \in Calls PROVE Covered(d)'
    OBVIOUS
  <2>1. CASE d # c
    BY <1>2, <2>1 DEF IInv, Covered
  <2>2. CASE d = c
    BY <1>2, <2>2 DEF IInv, Covered
  <2> QED
    BY <2>1, <2>2
<1>5. TypeOK'
  BY <1>1, <1>3 DEF IInv, TypeOK, Fits, CallRecords, Accounts
<1>6. AtMostOnce'
  BY DEF IInv, AtMostOnce
<1> QED
  BY <1>3, <1>4, <1>5, <1>6 DEF IInv

(* Nothing was sent, so nothing was staked, before the service sends.      *)
LEMMA Unsent ==
  ASSUME IInv, NEW c \in Calls, call[c].at \notin {"confirming", "answered"}
  PROVE  tx[c] = "none" /\ moved[c].staked = 0
BY DEF IInv, Fits, Covered

(* Answering, where the answer is so.                                      *)
LEMMA AnswerStep ==
  ASSUME IInv, NEW c \in Calls, NEW a \in Answers \ {"none"}, Answer(c, a),
         a = "succeeded" => tx[c] = "landed",
         a = "already_executed" => tx[c] = "none" /\ <<call[c].req.service, c>> \in receipts,
         a \notin {"succeeded", "failed"} => tx[c] = "none"
  PROVE  IInv'
<1> DEFINE k == [call[c] EXCEPT !.at = "answered", !.answer = a]
<1>1. call[c] \in CallRecords
  BY TypeCall DEF IInv
<1>2. /\ k \in CallRecords /\ k.at = "answered" /\ k.answer = a /\ k.req = call[c].req
      /\ k.deposit = call[c].deposit /\ k.min = call[c].min /\ k.payload = call[c].payload
  BY <1>1 DEF CallRecords, Steps
<1>3. call' = [call EXCEPT ![c] = k] /\ UNCHANGED World
  BY DEF Answer
<1>4. Fits(c, k)
  BY <1>2 DEF IInv, Fits
<1> HIDE DEF k
<1> QED
  BY <1>2, <1>3, <1>4, LocalStep

(* The branches of a service once it has its payload.                      *)
LEMMA DecideStep ==
  ASSUME IInv, NEW c \in Calls, call[c].at \notin {"confirming", "answered"},
         NEW r \in AllRequests, NEW payload \in Payloads, NEW min \in Nat, NEW deposit \in Nat,
         r.service = "marinade" /\ payload = "fit" => r.least <= min,
         r.service = "marinade" /\ r.asked = 0 /\ r.least = 0 => deposit <= min,
         Decide(c, r, payload, min, deposit)
  PROVE  IInv'
<1> DEFINE configured == payload # "none" /\ r.service \in env.addressed
           step == IF configured /\ r.mode = "simulate" THEN "simulating"
                   ELSE IF configured /\ ~env.dryRun THEN "checking" ELSE "answered"
           answer == IF step = "answered" THEN Unsubmitted(configured) ELSE "none"
           k == [Idle EXCEPT !.at = step, !.req = Read(r), !.payload = payload, !.min = min,
                             !.deposit = deposit, !.answer = answer]
<1>1. step \in {"simulating", "checking", "answered"}
  OBVIOUS
<1>2. /\ answer \in {"none", "planned", "builder_only", "not_configured"}
      /\ step = "answered" <=> answer # "none"
  BY DEF Unsubmitted
<1>3. call' = [call EXCEPT ![c] = k] /\ UNCHANGED World
  BY DEF Decide
<1> HIDE DEF configured, step, answer
<1>4. /\ k \in CallRecords /\ k.at = step /\ k.answer = answer /\ k.req = Read(r)
      /\ k.deposit = deposit /\ k.min = min /\ k.payload = payload
  BY <1>1, <1>2, ReadRequest DEF Idle, CallRecords, Steps, Answers
<1> HIDE DEF k
<1>5. tx[c] = "none" /\ moved[c].staked = 0
  BY Unsent
<1>6. Fits(c, k)
  BY <1>1, <1>2, <1>4, <1>5, ReadRequest DEF Fits
<1> QED
  BY <1>3, <1>4, <1>5, <1>6, LocalStep

(* A request's own payload.                                                *)
LEMMA BeginStep ==
  ASSUME IInv, NEW c \in Calls, NEW r \in AllRequests, NEW looks \in BOOLEAN, Begin(c, r, looks)
  PROVE  IInv'
<1>1. call[c].at = "idle" /\ tx[c] = "none" /\ moved[c].staked = 0
  BY Unsent DEF Begin
<1>2. CASE /\ r.given = "foreign"
           /\ call' = [call EXCEPT ![c] = [Idle EXCEPT !.at = "answered", !.req = Read(r), !.answer = "threw"]]
           /\ UNCHANGED World
  <2> DEFINE k == [Idle EXCEPT !.at = "answered", !.req = Read(r), !.answer = "threw"]
  <2>1. /\ k \in CallRecords /\ k.at = "answered" /\ k.answer = "threw" /\ k.payload = "none" /\ k.deposit = 0 /\ k.min = 0
    BY ReadRequest DEF Idle, CallRecords, Steps, Answers, Payloads
  <2>2. Fits(c, k)
    BY <1>1, <2>1 DEF Fits
  <2>3. call' = [call EXCEPT ![c] = k] /\ UNCHANGED World
    BY <1>2
  <2> HIDE DEF k
  <2> QED
    BY <1>1, <2>1, <2>2, <2>3, LocalStep
<1>3. CASE /\ call' = [call EXCEPT ![c] = [Idle EXCEPT !.at = "building", !.req = Read(r)]]
           /\ UNCHANGED World
  <2> DEFINE k == [Idle EXCEPT !.at = "building", !.req = Read(r)]
  <2>1. /\ k \in CallRecords /\ k.at = "building" /\ k.answer = "none" /\ k.payload = "none" /\ k.deposit = 0 /\ k.min = 0
    BY ReadRequest DEF Idle, CallRecords, Steps, Answers, Payloads
  <2>2. Fits(c, k)
    BY <1>1, <2>1 DEF Fits
  <2>3. call' = [call EXCEPT ![c] = k] /\ UNCHANGED World
    BY <1>3
  <2> HIDE DEF k
  <2> QED
    BY <1>1, <2>1, <2>2, <2>3, LocalStep
<1>4. CASE r.given \in {"fit", "synthetic", "nothing"} /\ Decide(c, r, Validated[r.given], OwnMin(r), OwnDeposit(r))
  <2>1. Validated[r.given] \in Payloads
    BY <1>4 DEF Validated, Payloads
  <2>2. /\ OwnDeposit(r) \in Nat /\ OwnMin(r) \in Nat
        /\ r.service = "marinade" => r.least <= OwnMin(r)
        /\ r.service = "marinade" /\ r.asked = 0 => OwnDeposit(r) <= OwnMin(r)
    BY ReadRequest DEF OwnDeposit, OwnMin
  <2> QED
    BY <1>1, <1>4, <2>1, <2>2, DecideStep
<1> QED
  BY <1>2, <1>3, <1>4 DEF Begin

(* A service finds a payload or fails to.                                  *)
LEMMA BuildStep ==
  ASSUME IInv, NEW c \in Calls, KaminoBuild(c) \/ RaydiumBuild(c) \/ MarinadeBuild(c)
  PROVE  IInv'
<1> DEFINE r == call[c].req
<1>1. call[c].at = "building" /\ r.service \in Services /\ tx[c] = "none"
  BY Unsent DEF KaminoBuild, RaydiumBuild, MarinadeBuild, Building, Services, Recording
<1>2. r \in AllRequests
  <2>1. r \in AllRequests \union {NoRequest}
    BY TypeCall DEF IInv, CallRecords
  <2> QED
    BY <1>1, <2>1 DEF NoRequest, Services, Recording
<1>3. CASE Answer(c, "threw")
  BY <1>1, <1>3, AnswerStep DEF Answers
<1>4. CASE \E payload \in Payloads : r.service # "marinade" /\ Decide(c, r, payload, 0, 0)
  BY <1>1, <1>2, <1>4, DecideStep
<1>5. CASE MarinadeBuild(c)
  <2>1. Quoted(price) \in Nat
    BY Quote, AmountsAssumption DEF IInv, TypeOK
  <2>2. r.service = "marinade" /\ r.asked \in Nat /\ r.least \in Nat
    BY <1>2, <1>5, ReadRequest DEF MarinadeBuild, Building
  <2>3. CASE Decide(c, r, "fit", OrQuoted(r.least), OrQuoted(r.asked))
    <3>1. /\ OrQuoted(r.least) \in Nat /\ OrQuoted(r.asked) \in Nat /\ r.least <= OrQuoted(r.least)
          /\ r.asked = 0 /\ r.least = 0 => OrQuoted(r.asked) <= OrQuoted(r.least)
      BY <2>1, <2>2 DEF OrQuoted
    <3> HIDE DEF r
    <3> QED
      BY <1>1, <1>2, <2>1, <2>3, <3>1, DecideStep DEF Payloads, r
  <2>4. CASE Decide(c, r, "unfit", r.least, r.asked)
    BY <1>1, <1>2, <2>2, <2>4, DecideStep DEF Payloads
  <2> QED
    BY <1>5, <2>3, <2>4 DEF MarinadeBuild
<1> QED
  BY <1>3, <1>4, <1>5 DEF KaminoBuild, RaydiumBuild, Building, Payloads

LEMMA SimulateStep ==
  ASSUME IInv, NEW c \in Calls, KaminoSimulate(c) \/ RaydiumSimulate(c) \/ MarinadeSimulate(c)
  PROVE  IInv'
<1>1. tx[c] = "none"
  BY Unsent DEF KaminoSimulate, RaydiumSimulate, MarinadeSimulate, Simulating
<1>2. CASE Answer(c, "simulated")
  BY <1>1, <1>2, AnswerStep DEF Answers
<1>3. CASE Answer(c, "threw")
  BY <1>1, <1>3, AnswerStep DEF Answers
<1> QED
  BY <1>2, <1>3 DEF KaminoSimulate, RaydiumSimulate, MarinadeSimulate

LEMMA CheckReceiptStep ==
  ASSUME IInv, NEW c \in Calls, CheckReceipt(c)
  PROVE  IInv'
<1>1. call[c].at = "checking" /\ tx[c] = "none" /\ moved[c].staked = 0
  BY Unsent DEF CheckReceipt
<1>2. CASE <<call[c].req.service, c>> \in receipts /\ Answer(c, "already_executed")
  BY <1>1, <1>2, AnswerStep DEF Answers
<1>3. CASE To(c, "sending")
  <2> DEFINE k == [call[c] EXCEPT !.at = "sending"]
  <2>1. call[c] \in CallRecords
    BY TypeCall DEF IInv
  <2>2. /\ k \in CallRecords /\ k.at = "sending" /\ k.req = call[c].req /\ k.min = call[c].min
        /\ k.payload = call[c].payload
        /\ k.deposit = call[c].deposit /\ k.answer = call[c].answer
    BY <2>1 DEF CallRecords, Steps
  <2>3. call' = [call EXCEPT ![c] = k] /\ UNCHANGED World
    BY <1>3 DEF To
  <2>4. Fits(c, k)
    BY <1>1, <2>2 DEF IInv, Fits
  <2> HIDE DEF k
  <2> QED
    BY <2>2, <2>3, <2>4, LocalStep
<1> QED
  BY <1>2, <1>3 DEF CheckReceipt

LEMMA ReadAccountsStep ==
  ASSUME IInv, NEW c \in Calls, ReadAccounts(c)
  PROVE  IInv'
<1> DEFINE creates == {"wsol", call[c].req.to} \ accounts
           k == [call[c] EXCEPT !.at = "sending", !.creates = creates]
<1>1. call[c].at = "checking" /\ call[c].req.service = "marinade" /\ tx[c] = "none"
  BY Unsent DEF ReadAccounts, Deposits
<1>2. call[c] \in CallRecords
  BY TypeCall DEF IInv
<1>3. call[c].req.to \in Recipients
  <2>1. call[c].req \in AllRequests \union {NoRequest}
    BY <1>2 DEF CallRecords
  <2>2. call[c].req \in [service : {"marinade"}, mode : Modes, given : Given, special : BOOLEAN,
                         asked : {0} \union Asked, least : {0} \union Asked, to : Recipients]
    BY <1>1, <2>1 DEF AllRequests, NoRequest, Recording
  <2> QED
    BY <2>2
<1>4. creates \in SUBSET Accounts
  BY <1>3 DEF Accounts
<1>5. call' = [call EXCEPT ![c] = k] /\ UNCHANGED World
  BY DEF ReadAccounts
<1> HIDE DEF creates
<1>6. /\ k \in CallRecords /\ k.at = "sending" /\ k.req = call[c].req /\ k.min = call[c].min
      /\ k.payload = call[c].payload
      /\ k.deposit = call[c].deposit /\ k.answer = call[c].answer
  BY <1>2, <1>4 DEF CallRecords, Steps
<1>7. Fits(c, k)
  BY <1>1, <1>6 DEF IInv, Fits
<1> HIDE DEF k
<1> QED
  BY <1>5, <1>6, <1>7, LocalStep

(* Sending: the call's transaction is under way from now on.               *)
LEMMA SendStep ==
  ASSUME IInv, NEW c \in Calls, Send(c)
  PROVE  IInv'
<1> DEFINE k == [call[c] EXCEPT !.at = "confirming"]
<1>1. call[c].at = "sending" /\ call[c].answer = "none" /\ moved[c].staked = 0
  BY Unsent DEF Send, IInv, Fits
<1>2. call[c] \in CallRecords
  BY TypeCall DEF IInv
<1>3. /\ k \in CallRecords /\ k.at = "confirming" /\ k.req = call[c].req /\ k.min = call[c].min
      /\ k.payload = call[c].payload
      /\ k.deposit = call[c].deposit /\ k.answer = "none"
  BY <1>1, <1>2 DEF CallRecords, Steps
<1>4. /\ call' = [call EXCEPT ![c] = k] /\ tx' = [tx EXCEPT ![c] = "flying"]
      /\ UNCHANGED <<env, config, receipts, executed, price, accounts, moved, outside>>
  BY DEF Send
<1> HIDE DEF k
<1>5. /\ call' \in [Calls -> CallRecords] /\ call'[c] = k /\ tx'[c] = "flying"
      /\ \A d \in Calls \ {c} : call'[d] = call[d] /\ tx'[d] = tx[d]
  BY <1>3, <1>4, TypeCall DEF IInv, TypeOK
<1>6. \A d \in Calls : Fits(d, call[d])' /\ Covered(d)'
  <2> SUFFICES ASSUME NEW d \in Calls PROVE Fits(d, call[d])' /\ Covered(d)'
    OBVIOUS
  <2>1. CASE d = c
    BY <1>1, <1>3, <1>4, <1>5, <2>1 DEF IInv, Fits, Covered
  <2>2. CASE d # c
    BY <1>4, <1>5, <2>2 DEF IInv, Fits, Covered
  <2> QED
    BY <2>1, <2>2
<1>7. TypeOK'
  BY <1>4, <1>5, <1>6 DEF IInv, TypeOK, Fits, CallRecords, Accounts
<1>8. AtMostOnce'
  BY <1>4 DEF IInv, AtMostOnce
<1> QED
  BY <1>6, <1>7, <1>8 DEF IInv

LEMMA ConfirmStep ==
  ASSUME IInv, NEW c \in Calls, Confirm(c) \/ Throw(c)
  PROVE  IInv'
<1>1. CASE Confirm(c)
  BY <1>1, AnswerStep DEF Confirm, Answers
<1>2. CASE Throw(c)
  BY <1>2, AnswerStep DEF Throw, Answers
<1> QED
  BY <1>1, <1>2

(* An execution writes the receipt it required not to exist.               *)
LEMMA ExecuteStep ==
  ASSUME TypeOK, AtMostOnce, NEW p \in Recording, NEW i \in Calls,
         <<p, i>> \notin receipts, Execute(p, i)
  PROVE  /\ receipts' \subseteq Recording \X Calls /\ receipts \subseteq receipts'
         /\ executed' \in [Recording -> [Calls -> Nat]]
         /\ AtMostOnce'
<1>1. executed[p][i] = 0 /\ executed \in [Recording -> [Calls -> Nat]]
  BY DEF AtMostOnce, TypeOK
<1>2. \A q \in Recording, j \in Calls :
        executed'[q][j] = IF <<q, j>> = <<p, i>> THEN 1 ELSE executed[q][j]
  BY <1>1 DEF Execute
<1>3. executed' \in [Recording -> [Calls -> Nat]]
  BY <1>1 DEF Execute
<1>4. AtMostOnce'
  <2> SUFFICES ASSUME NEW q \in Recording, NEW j \in Calls
               PROVE  executed'[q][j] = IF <<q, j>> \in receipts' THEN 1 ELSE 0
    BY DEF AtMostOnce
  <2>1. CASE <<q, j>> = <<p, i>>
    BY <1>2, <2>1 DEF Execute
  <2>2. CASE <<q, j>> # <<p, i>>
    <3>1. <<q, j>> \in receipts' <=> <<q, j>> \in receipts
      BY <2>2 DEF Execute
    <3> QED
      BY <1>2, <2>2, <3>1 DEF AtMostOnce
  <2> QED
    BY <2>1, <2>2
<1>5. receipts' \subseteq Recording \X Calls /\ receipts \subseteq receipts'
  BY DEF Execute, TypeOK
<1> QED
  BY <1>3, <1>4, <1>5

(* What a deposit that runs may rely on of its swap.                       *)
LEMMA DepositCovered ==
  ASSUME IInv, NEW c \in Calls, Deposits(call[c]), CanDeposit(call[c])
  PROVE  /\ price >= call[c].req.least
         /\ call[c].req.asked = 0 /\ call[c].req.least = 0 => price >= call[c].deposit
<1>1. price \in Nat
  BY AmountsAssumption DEF IInv, TypeOK
<1>2. call[c].deposit \in Nat /\ call[c].min \in Nat
  BY TypeCall DEF IInv, CallRecords
<1>3. /\ price >= call[c].min /\ call[c].req.least <= call[c].min
      /\ call[c].req.asked = 0 /\ call[c].req.least = 0 => call[c].deposit <= call[c].min
  BY DEF IInv, Fits, Deposits, CanDeposit
<1>4. call[c].req.least \in Nat
  <2>1. call[c].req \in AllRequests
    BY TypeCall DEF IInv, CallRecords, Deposits, NoRequest
  <2> QED
    BY <2>1, ReadRequest DEF Deposits
<1> QED
  BY <1>1, <1>2, <1>3, <1>4

LEMMA LandStep ==
  ASSUME IInv, NEW c \in Calls, Land(c)
  PROVE  IInv'
<1>1. /\ tx[c] = "flying" /\ tx' = [tx EXCEPT ![c] = "landed"]
      /\ UNCHANGED <<env, config, price, call, outside>>
  BY DEF Land, Settle
<1>2. tx'[c] = "landed" /\ \A d \in Calls \ {c} : tx'[d] = tx[d]
  BY <1>1 DEF IInv, TypeOK
<1>3. tx' \in [Calls -> {"none", "flying", "landed", "rejected", "expired"}]
  BY <1>1 DEF IInv, TypeOK
<1>4. ASSUME receipts \subseteq receipts' PROVE \A d \in Calls : Fits(d, call[d])'
  <2> SUFFICES ASSUME NEW d \in Calls PROVE Fits(d, call[d])'
    OBVIOUS
  <2>1. Fits(d, call[d]) /\ call' = call
    BY <1>1 DEF IInv
  <2>2. CASE d = c
    BY <1>1, <1>2, <1>4, <2>1, <2>2 DEF Fits
  <2>3. CASE d # c
    BY <1>2, <1>4, <2>1, <2>3 DEF Fits
  <2> QED
    BY <2>2, <2>3
<1>5. CASE Deposits(call[c])
  <2>1. /\ moved' = [moved EXCEPT ![c] = [out |-> price, staked |-> call[c].deposit]]
        /\ accounts' = (accounts \union {call[c].req.to}) \ {"wsol"}
        /\ UNCHANGED <<receipts, executed>>
    BY <1>5 DEF Land, DepositWithSwap
  <2>2. CanDeposit(call[c])
    BY <1>5 DEF Land, Runs, Deposits, Recording
  <2>3. price \in Nat /\ call[c].deposit \in Nat
    BY AmountsAssumption, TypeCall DEF IInv, TypeOK, CallRecords
  <2>4. moved' \in [Calls -> [out : Nat, staked : Nat]]
    BY <2>1, <2>3 DEF IInv, TypeOK
  <2>5. /\ moved'[c] = [out |-> price, staked |-> call[c].deposit]
        /\ \A d \in Calls \ {c} : moved'[d] = moved[d]
    BY <2>1 DEF IInv, TypeOK
  <2>6. \A d \in Calls : Covered(d)'
    <3> SUFFICES ASSUME NEW d \in Calls PROVE Covered(d)'
      OBVIOUS
    <3>1. CASE d = c
      BY <1>1, <1>2, <1>5, <2>2, <2>5, <3>1, DepositCovered DEF Covered
    <3>2. CASE d # c
      BY <1>1, <1>2, <2>5, <3>2 DEF IInv, Covered
    <3> QED
      BY <3>1, <3>2
  <2>7. call[c].req.to \in Recipients
    <3>1. call[c].req \in AllRequests \union {NoRequest} /\ call[c].req.service = "marinade"
      BY <1>5, TypeCall DEF IInv, CallRecords, Deposits
    <3>2. call[c].req \in [service : {"marinade"}, mode : Modes, given : Given, special : BOOLEAN,
                           asked : {0} \union Asked, least : {0} \union Asked, to : Recipients]
      BY <3>1 DEF AllRequests, NoRequest, Recording
    <3> QED
      BY <3>2
  <2>8. accounts' \subseteq Accounts
    BY <2>1, <2>7 DEF IInv, TypeOK, Accounts
  <2>9. TypeOK'
    BY <1>1, <1>3, <2>1, <2>4, <2>8 DEF IInv, TypeOK, Accounts
  <2>10. AtMostOnce'
    BY <2>1 DEF IInv, AtMostOnce
  <2> QED
    BY <1>4, <2>1, <2>6, <2>9, <2>10 DEF IInv
<1>6. CASE ~Deposits(call[c])
  <2>1. call[c].req.service \in Recording /\ <<call[c].req.service, c>> \notin receipts
    BY <1>6 DEF Land, Runs, CanExecute
  <2>2. Execute(call[c].req.service, c) /\ UNCHANGED <<accounts, moved>>
    BY <1>6 DEF Land
  <2>3. /\ receipts' \subseteq Recording \X Calls /\ receipts \subseteq receipts'
        /\ executed' \in [Recording -> [Calls -> Nat]] /\ AtMostOnce'
    BY <2>1, <2>2, ExecuteStep DEF IInv
  <2>4. \A d \in Calls : Covered(d)'
    <3> SUFFICES ASSUME NEW d \in Calls PROVE Covered(d)'
      OBVIOUS
    <3>1. Covered(d) /\ moved' = moved /\ call' = call
      BY <1>1, <2>2 DEF IInv
    <3> QED
      BY <1>1, <1>2, <3>1 DEF Covered
  <2>5. TypeOK'
    BY <1>1, <1>3, <2>2, <2>3 DEF IInv, TypeOK
  <2> QED
    BY <1>4, <2>3, <2>4, <2>5 DEF IInv
<1> QED
  BY <1>5, <1>6

LEMMA LapseStep ==
  ASSUME IInv, NEW c \in Calls, Lapse(c)
  PROVE  IInv'
<1>1. PICK fate \in {"rejected", "expired"} :
        /\ tx[c] = "flying" /\ tx' = [tx EXCEPT ![c] = fate]
        /\ UNCHANGED <<env, config, price, call, outside, receipts, executed, accounts, moved>>
  BY DEF Lapse, Settle
<1>2. /\ tx' \in [Calls -> {"none", "flying", "landed", "rejected", "expired"}]
      /\ tx'[c] = fate /\ \A d \in Calls \ {c} : tx'[d] = tx[d]
  BY <1>1 DEF IInv, TypeOK
<1>3. \A d \in Calls : Fits(d, call[d])' /\ Covered(d)'
  <2> SUFFICES ASSUME NEW d \in Calls PROVE Fits(d, call[d])' /\ Covered(d)'
    OBVIOUS
  <2>1. Fits(d, call[d]) /\ Covered(d)
    BY DEF IInv
  <2>2. CASE d = c
    BY <1>1, <1>2, <2>1, <2>2 DEF Fits, Covered
  <2>3. CASE d # c
    BY <1>1, <1>2, <2>1, <2>3 DEF Fits, Covered
  <2> QED
    BY <2>2, <2>3
<1>4. TypeOK' /\ AtMostOnce'
  BY <1>1, <1>2 DEF IInv, TypeOK, AtMostOnce
<1> QED
  BY <1>3, <1>4 DEF IInv

(* Whatever the others do, the calls and their transactions stay as they   *)
(* were, and receipts are only added.                                      *)
LEMMA OthersStep ==
  ASSUME IInv, ByOthers, TypeOK', AtMostOnce', receipts \subseteq receipts'
  PROVE  IInv'
<1>1. \A d \in Calls : Fits(d, call[d])' /\ Covered(d)'
  <2> SUFFICES ASSUME NEW d \in Calls PROVE Fits(d, call[d])' /\ Covered(d)'
    OBVIOUS
  <2>1. Fits(d, call[d]) /\ Covered(d) /\ UNCHANGED <<call, tx, moved>>
    BY DEF IInv, ByOthers
  <2> QED
    BY <2>1 DEF Fits, Covered
<1> QED
  BY <1>1 DEF IInv

LEMMA OutsideBound == TypeOK /\ Outside => outside' \in 0..MaxOutside
BY AmountsAssumption DEF TypeOK, Outside

(* A step that changes the programs' configurations only.                  *)
LEMMA ConfigStep ==
  ASSUME IInv, Outside, ByOthers, UNCHANGED <<receipts, executed, price, accounts>>,
         config' \in [Services -> Configs \union {NoConfig}]
  PROVE  IInv'
<1>1. TypeOK'
  BY OutsideBound DEF IInv, TypeOK, ByOthers
<1>2. AtMostOnce'
  BY DEF IInv, AtMostOnce
<1> QED
  BY <1>1, <1>2, OthersStep

LEMMA ChangedConfig ==
  ASSUME TypeOK, NEW p \in Services, NEW k \in Configs, config' = [config EXCEPT ![p] = k]
  PROVE  config' \in [Services -> Configs \union {NoConfig}]
BY DEF TypeOK

LEMMA LiveConfig ==
  ASSUME TypeOK, NEW p \in Services, Live(p)
  PROVE  config[p] \in Configs
BY DEF TypeOK, Live

LEMMA InitializeStep ==
  ASSUME IInv, NEW p \in Services, NEW s \in Signers, NEW e \in Signers, NEW b \in BOOLEAN,
         Initialize(p, s, e, b)
  PROVE  IInv'
<1>1. [admin |-> s, executor |-> e, program |-> "listed", permissionless |-> b, paused |-> FALSE]
        \in Configs
  BY DEF Configs
<1>2. config' \in [Services -> Configs \union {NoConfig}]
  BY <1>1, ChangedConfig DEF Initialize, IInv
<1> QED
  BY <1>2, ConfigStep DEF Initialize

LEMMA SettingStep ==
  ASSUME IInv, NEW p \in Services,
         \/ \E s \in Signers : SetConfig(p, "executor", s) \/ SetConfig(p, "admin", s)
         \/ \E w \in {"listed", "other"} : SetConfig(p, "program", w)
         \/ \E b \in BOOLEAN : SetConfig(p, "permissionless", b) \/ SetConfig(p, "paused", b)
  PROVE  IInv'
<1>1. config[p] \in Configs
  BY LiveConfig DEF IInv, SetConfig
<1>2. /\ \A s \in Signers : /\ [config[p] EXCEPT !["executor"] = s] \in Configs
                            /\ [config[p] EXCEPT !["admin"] = s] \in Configs
      /\ \A w \in {"listed", "other"} : [config[p] EXCEPT !["program"] = w] \in Configs
      /\ \A b \in BOOLEAN : /\ [config[p] EXCEPT !["permissionless"] = b] \in Configs
                            /\ [config[p] EXCEPT !["paused"] = b] \in Configs
  BY <1>1 DEF Configs
<1>3. PICK k \in Configs : config' = [config EXCEPT ![p] = k]
  BY <1>2 DEF SetConfig
<1>4. config' \in [Services -> Configs \union {NoConfig}]
  BY <1>3, ChangedConfig DEF IInv
<1> QED
  BY <1>4, ConfigStep DEF SetConfig

LEMMA ForceInitStep ==
  ASSUME IInv, NEW s \in Signers, ForceInit(s)
  PROVE  IInv'
<1> DEFINE k == [config["marinade"] EXCEPT !.admin = s, !.paused = FALSE]
<1>1. "marinade" \in Services
  BY DEF Services
<1>2. config["marinade"] \in Configs
  BY <1>1, LiveConfig DEF IInv, ForceInit
<1>3. k \in Configs
  BY <1>2 DEF Configs
<1>4. config' = [config EXCEPT !["marinade"] = k]
  BY DEF ForceInit
<1> HIDE DEF k
<1>5. config' \in [Services -> Configs \union {NoConfig}]
  BY <1>1, <1>3, <1>4, ChangedConfig DEF IInv
<1> QED
  BY <1>5, ConfigStep DEF ForceInit

LEMMA DirectStep ==
  ASSUME IInv, NEW p \in Recording, NEW s \in Signers, NEW i \in Calls, ExecuteDirectly(p, s, i)
  PROVE  IInv'
<1>1. /\ receipts' \subseteq Recording \X Calls /\ receipts \subseteq receipts'
      /\ executed' \in [Recording -> [Calls -> Nat]] /\ AtMostOnce'
  BY ExecuteStep DEF ExecuteDirectly, CanExecute, IInv
<1>2. TypeOK'
  BY <1>1, OutsideBound DEF IInv, TypeOK, ExecuteDirectly, ByOthers
<1> QED
  BY <1>1, <1>2, OthersStep DEF ExecuteDirectly

LEMMA ReceiptProgramStep ==
  ASSUME IInv, NEW p \in Recording, ReceiptProgram(p)
  PROVE  IInv'
<1>1. p \in Services
  BY DEF Services
<1>2. CASE \E s, e \in Signers, b \in BOOLEAN : Initialize(p, s, e, b)
  BY <1>1, <1>2, InitializeStep
<1>3. CASE \/ \E s \in Signers : SetExecutor(p, s)
           \/ \E which \in {"listed", "other"} : SetProgram(p, which)
           \/ \E b \in BOOLEAN : SetPermissionless(p, b) \/ SetPaused(p, b)
  BY <1>1, <1>3, SettingStep DEF SetExecutor, SetProgram, SetPermissionless, SetPaused
<1>4. CASE \E s \in Signers, i \in Calls : ExecuteDirectly(p, s, i)
  BY <1>4, DirectStep
<1> QED
  BY <1>2, <1>3, <1>4 DEF ReceiptProgram

LEMMA MarinadeProgramStep ==
  ASSUME IInv, MarinadeProgram
  PROVE  IInv'
<1>1. "marinade" \in Services
  BY DEF Services
<1>2. PICK s \in Signers : MarinadeInitialize(s) \/ ForceInit(s) \/ SetAdmin(s)
  BY DEF MarinadeProgram
<1>3. CASE MarinadeInitialize(s)
  BY <1>1, <1>3, InitializeStep DEF MarinadeInitialize
<1>4. CASE ForceInit(s)
  BY <1>4, ForceInitStep
<1>5. CASE SetAdmin(s)
  BY <1>1, <1>5, SettingStep DEF SetAdmin
<1> QED
  BY <1>2, <1>3, <1>4, <1>5

LEMMA MarketStep ==
  ASSUME IInv, MovePool \/ \E a \in Accounts : OpenAccount(a)
  PROVE  IInv'
<1>1. /\ Outside /\ ByOthers /\ UNCHANGED <<receipts, executed, config>>
      /\ price' \in Prices /\ accounts' \subseteq Accounts
  BY DEF MovePool, OpenAccount, IInv, TypeOK, Accounts
<1>2. TypeOK'
  BY <1>1, OutsideBound DEF IInv, TypeOK, ByOthers, Accounts
<1>3. AtMostOnce'
  BY <1>1 DEF IInv, AtMostOnce
<1> QED
  BY <1>1, <1>2, <1>3, OthersStep

LEMMA ProceedStep ==
  ASSUME IInv, NEW c \in Calls, Proceed(c)
  PROVE  IInv'
<1>1. CASE KaminoBuild(c) \/ RaydiumBuild(c) \/ MarinadeBuild(c)
  BY <1>1, BuildStep
<1>2. CASE KaminoSimulate(c) \/ RaydiumSimulate(c) \/ MarinadeSimulate(c)
  BY <1>2, SimulateStep
<1>3. CASE KaminoSubmit(c) \/ RaydiumSubmit(c) \/ MarinadeSubmit(c)
  BY <1>3, CheckReceiptStep, ReadAccountsStep, SendStep, ConfirmStep
     DEF KaminoSubmit, RaydiumSubmit, MarinadeSubmit
<1> QED
  BY <1>1, <1>2, <1>3 DEF Proceed, Kamino, Raydium, Marinade

LEMMA BeginsStep ==
  ASSUME IInv, NEW c \in Calls, NEW r \in Requests,
         KaminoBegin(c, r) \/ RaydiumBegin(c, r) \/ MarinadeBegin(c, r)
  PROVE  IInv'
<1>1. r \in AllRequests
  BY RequestsAssumption
<1>2. CASE KaminoBegin(c, r)
  <2>1. r.known \in BOOLEAN
    <3>1. r \in [service : Recording, mode : Modes, given : Given, special : BOOLEAN, known : BOOLEAN]
      BY <1>1, <1>2 DEF AllRequests, KaminoBegin
    <3> QED
      BY <3>1
  <2> QED
    BY <1>1, <1>2, <2>1, BeginStep DEF KaminoBegin
<1>3. CASE RaydiumBegin(c, r) \/ MarinadeBegin(c, r)
  BY <1>1, <1>3, BeginStep DEF RaydiumBegin, MarinadeBegin
<1> QED
  BY <1>2, <1>3

LEMMA StutterStep ==
  ASSUME IInv, UNCHANGED vars
  PROVE  IInv'
<1>1. TypeOK' /\ AtMostOnce' /\ ByOthers /\ receipts \subseteq receipts'
  BY DEF vars, IInv, TypeOK, AtMostOnce, ByOthers
<1> QED
  BY <1>1, OthersStep

LEMMA NextInv == IInv /\ [Next]_vars => IInv'
<1> SUFFICES ASSUME IInv, [Next]_vars PROVE IInv'
  OBVIOUS
<1>1. CASE KaminoProgram \/ RaydiumProgram
  BY <1>1, ReceiptProgramStep DEF KaminoProgram, RaydiumProgram, Recording
<1>2. CASE MarinadeProgram
  BY <1>2, MarinadeProgramStep
<1>3. CASE MovePool \/ \E a \in {"wsol"} \union Recipients : OpenAccount(a)
  BY <1>3, MarketStep DEF Accounts
<1>4. ASSUME NEW c \in Calls, Proceed(c) PROVE IInv'
  BY <1>4, ProceedStep
<1>5. ASSUME NEW c \in Calls, NEW r \in Requests,
             KaminoBegin(c, r) \/ RaydiumBegin(c, r) \/ MarinadeBegin(c, r)
      PROVE  IInv'
  BY <1>5, BeginsStep
<1>6. ASSUME NEW c \in Calls, Land(c) \/ Lapse(c) PROVE IInv'
  BY <1>6, LandStep, LapseStep
<1>7. CASE UNCHANGED vars
  BY <1>7, StutterStep
<1> QED
  BY <1>1, <1>2, <1>3, <1>4, <1>5, <1>6, <1>7 DEF Next

LEMMA Invariant == Spec => []IInv
BY InitInv, NextInv, PTL DEF Spec

(* Every variable keeps its type, and a call is answered exactly when it   *)
(* has an answer.                                                          *)
THEOREM TypeCorrect == Spec => []TypeOK
<1>1. IInv => TypeOK
  BY DEF IInv
<1> QED
  BY <1>1, Invariant, PTL

(* No intent is executed twice by a program that records it, whoever may   *)
(* execute, however the config changes and whenever a transaction lands.   *)
THEOREM ExecutedAtMostOnce == Spec => []AtMostOnce
<1>1. IInv => AtMostOnce
  BY DEF IInv
<1> QED
  BY <1>1, Invariant, PTL

(* What a service has answered stays so: "succeeded" is on the chain,      *)
(* "already_executed" was someone else's, and of a call that was not       *)
(* submitted nothing was sent.                                             *)
THEOREM AnswersStayTrue == Spec => []AnswersAreTrue
<1>1. IInv => AnswersAreTrue
  BY DEF IInv, Fits, AnswersAreTrue
<1> QED
  BY <1>1, Invariant, PTL

(* A swap pays what the request names as its minimum; if the request names *)
(* neither that nor an amount, it pays for all of the stake.               *)
THEOREM DepositsAreCovered == Spec => []SwapCoversDeposit
<1>1. IInv => SwapCoversDeposit
  BY DEF IInv, Covered, SwapCoversDeposit
<1> QED
  BY <1>1, Invariant, PTL
=============================================================================
