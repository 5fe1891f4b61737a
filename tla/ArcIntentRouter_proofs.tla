----------------------- MODULE ArcIntentRouter_proofs -----------------------
(***************************************************************************)
(* Proofs about the router and about what decides that it is used.  First  *)
(* ArcIntentRouter, for every set of users, adapters, amounts and fees,    *)
(* and whatever an adapter spends or refunds: what is owed is covered, and *)
(* what was spent is on record.  Then RoutePlanning, for every price, pool and *)
(* request: what is offered, what is chosen and what is run.               *)
(***************************************************************************)
EXTENDS ArcIntentRouter, RoutePlanning, FiniteSetTheorems, TLAPS

(* A fee of at most 1%, rounded down, is at most 1% of the amount.         *)
LEMMA FeeBounds ==
  ASSUME NEW a \in Nat, NEW f \in 0..MaxFeeBps
  PROVE  /\ (a * f) \div BpsBase \in Nat
         /\ (a * f) \div BpsBase <= a
         /\ a - (a * f) \div BpsBase \in Nat
         /\ ((a * f) \div BpsBase) * BpsBase <= MaxFeeBps * a
<1> DEFINE p == a * f
           q == p \div 10000
<1>1. p \in Nat /\ p <= 100 * a
  <2>1. f \in Nat /\ 100 - f \in Nat
    BY DEF MaxFeeBps
  <2>2. a * (100 - f) \in Nat /\ a * f \in Nat
    BY <2>1
  <2>3. a * (100 - f) = 100 * a - a * f
    BY <2>1
  <2> QED
    BY <2>2, <2>3
<1> HIDE DEF p
<1>2. q \in Nat /\ q * 10000 <= p
  BY <1>1
<1> HIDE DEF q
<1>3. q \in Nat /\ q <= a /\ a - q \in Nat /\ q * 10000 <= 100 * a
  BY <1>1, <1>2
<1> QED
  BY <1>3 DEF p, q, MaxFeeBps, BpsBase
(* The parties are holders, and an adapter is none of the others; the      *)
(* router may be its own treasury.                                         *)
LEMMA PartyFacts ==
  /\ Router \in Holders /\ Protocol \in Holders /\ Router # Protocol
  /\ \A u \in Users : u \in Holders /\ u # Router
  /\ \A a \in Adapters : a \in Holders /\ a # Router /\ a # Protocol /\ a \notin Users
  /\ \A t \in Treasuries : t \in Holders /\ t \notin Adapters
  BY PartiesAssumption DEF Holders

(* A transfer between two different holders.                               *)
LEMMA PayEffect ==
  ASSUME NEW b \in [Holders -> Nat], NEW from \in Holders, NEW to \in Holders, from # to,
         NEW n \in Nat, n <= b[from]
  PROVE  /\ Pay(b, from, to, n) \in [Holders -> Nat]
         /\ Pay(b, from, to, n)[from] = b[from] - n
         /\ Pay(b, from, to, n)[to] = b[to] + n
         /\ \A h \in Holders \ {from, to} : Pay(b, from, to, n)[h] = b[h]
<1>1. b[from] - n \in Nat /\ b[to] + n \in Nat
  OBVIOUS
<1> QED
  BY <1>1 DEF Pay

(* A transfer to oneself changes nothing.                                  *)
LEMMA PaySelf ==
  ASSUME NEW b \in [Holders -> Nat], NEW h \in Holders, NEW n \in Nat, n <= b[h]
  PROVE  Pay(b, h, h, n) = b
<1> DEFINE c == [b EXCEPT ![h] = @ - n]
<1>1. c \in [Holders -> Int] /\ c[h] = b[h] - n /\ \A g \in Holders \ {h} : c[g] = b[g]
  OBVIOUS
<1>2. Pay(b, h, h, n) = [c EXCEPT ![h] = c[h] + n]
  BY DEF Pay
<1>3. c[h] + n = b[h]
  BY <1>1
<1> HIDE DEF c
<1>4. [c EXCEPT ![h] = b[h]] = b
  BY <1>1
<1> QED
  BY <1>2, <1>3, <1>4

(* A transfer out of the router, possibly to itself.                       *)
LEMMA PayOut ==
  ASSUME NEW b \in [Holders -> Nat], NEW to \in Holders, NEW n \in Nat, n <= b[Router]
  PROVE  /\ Pay(b, Router, to, n) \in [Holders -> Nat]
         /\ Pay(b, Router, to, n)[Router] >= b[Router] - n
         /\ \A h \in Holders \ {Router, to} : Pay(b, Router, to, n)[h] = b[h]
<1>1. b[Router] \in Nat /\ Router \in Holders
  BY PartyFacts
<1>2. CASE to = Router
  BY <1>1, <1>2, PaySelf
<1>3. CASE to # Router
  BY <1>1, <1>3, PayEffect
<1> QED
  BY <1>2, <1>3

(* A transfer out of an adapter, possibly to itself, takes nothing from    *)
(* the router.                                                             *)
LEMMA PayFromAdapter ==
  ASSUME NEW b \in [Holders -> Nat], NEW a \in Adapters, NEW to \in Holders,
         NEW n \in Nat, n <= b[a]
  PROVE  /\ Pay(b, a, to, n) \in [Holders -> Nat]
         /\ Pay(b, a, to, n)[Router] >= b[Router]
<1>1. a \in Holders /\ a # Router /\ Router \in Holders /\ b[Router] \in Nat
  BY PartyFacts
<1>2. CASE to = a
  <2>1. Pay(b, a, to, n) = b
    BY <1>1, <1>2, PaySelf
  <2> QED
    BY <1>1, <2>1
<1>3. CASE to # a
  <2>1. /\ Pay(b, a, to, n) \in [Holders -> Nat]
        /\ Pay(b, a, to, n)[to] = b[to] + n
        /\ \A h \in Holders \ {a, to} : Pay(b, a, to, n)[h] = b[h]
    BY <1>1, <1>3, PayEffect
  <2>2. CASE to = Router
    <3>1. Pay(b, a, to, n)[Router] = b[Router] + n
      BY <2>1, <2>2
    <3> QED
      BY <1>1, <2>1, <3>1
  <2>3. CASE to # Router
    <3>1. Pay(b, a, to, n)[Router] = b[Router]
      BY <1>1, <2>1, <2>3
    <3> QED
      BY <1>1, <2>1, <3>1
  <2> QED
    BY <2>2, <2>3
<1> QED
  BY <1>2, <1>3

(* Whatever an adapter does, it does with what it holds, and the router's  *)
(* USDC is not part of that.                                               *)
LEMMA AdapterEffect ==
  ASSUME NEW b \in [Holders -> Nat], NEW a \in Adapters, NEW refundTo \in Holders,
         NEW paidIn \in Nat, paidIn <= b[a]
  PROVE  /\ AfterAdapter(b, a, paidIn, refundTo) \in [Holders -> Nat]
         /\ AfterAdapter(b, a, paidIn, refundTo)[Router] >= b[Router]
<1> DEFINE c == Pay(b, a, Protocol, paidIn)
<1>1. a \in Holders /\ a # Protocol /\ Protocol \in Holders /\ Router \in Holders /\ b[Router] \in Nat
  BY PartyFacts
<1>2. c \in [Holders -> Nat] /\ c[Router] >= b[Router]
  BY <1>1, PayFromAdapter
<1>3. c[a] = b[a] - paidIn
  BY <1>1, PayEffect
<1>4. AfterAdapter(b, a, paidIn, refundTo) = Pay(c, a, refundTo, c[a])
  BY <1>3 DEF AfterAdapter
<1> HIDE DEF c
<1>5. c[a] \in Nat /\ c[a] <= c[a] /\ c[Router] \in Nat
  BY <1>1, <1>2
<1>6. Pay(c, a, refundTo, c[a]) \in [Holders -> Nat] /\ Pay(c, a, refundTo, c[a])[Router] >= c[Router]
  BY <1>2, <1>5, PayFromAdapter
<1>7. Pay(c, a, refundTo, c[a])[Router] \in Nat
  BY <1>1, <1>6
<1> QED
  BY <1>1, <1>2, <1>4, <1>5, <1>6, <1>7

(* Wherever a refund goes, it goes to a holder.                            *)
LEMMA RefundFacts ==
  ASSUME NEW k \in AdapterKeys, adapters[k].adapter \in Adapters, NEW user \in Users
  PROVE  RefundTargets(k, user) \subseteq Holders
  BY PartyFacts DEF RefundTargets

(* The two executions: what they leave on the router.                      *)
LEMMA RouteLocalEffect ==
  ASSUME TypeOK, NEW user \in Users, NEW k \in AdapterKeys, NEW amount \in Amounts,
         NEW paidIn \in AdapterSpends(HeldBy(k), amount - FeeOf(amount)),
         NEW refundTo \in RefundTargets(k, user),
         RouteLocal(user, k, amount, paidIn, refundTo)
  PROVE  balance' \in [Holders -> Nat] /\ balance'[Router] >= balance[Router]
<1> DEFINE a == adapters[k].adapter
           fee == FeeOf(amount)
           pulled == Pay(balance, user, Router, amount)
           feePaid == Pay(pulled, Router, treasury, fee)
           sent == Pay(feePaid, Router, a, amount - fee)
<1>1. /\ a \in Adapters /\ balance \in [Holders -> Nat] /\ treasury \in Treasuries
      /\ amount \in Nat /\ amount <= balance[user]
  BY AmountAssumption DEF TypeOK, RouteLocal, Executable
<1>2. fee \in Nat /\ fee <= amount /\ amount - fee \in Nat
  BY <1>1, FeeBounds DEF FeeOf, TypeOK
<1>3. balance' = AfterAdapter(sent, a, paidIn, refundTo)
  BY DEF RouteLocal
<1>4. HeldBy(k) = balance[a]
  BY <1>1, PartiesAssumption DEF HeldBy
<1>p. user \in Holders /\ a \in Holders /\ treasury \in Holders /\ Router \in Holders
      /\ user # Router /\ a # Router /\ a # user /\ a # treasury
  BY <1>1, PartyFacts
<1>r. refundTo \in Holders
  BY <1>1, RefundFacts
<1>a. a \in Adapters
  BY <1>1
<1> HIDE DEF a, fee
<1>5. /\ pulled \in [Holders -> Nat] /\ pulled[Router] = balance[Router] + amount
      /\ pulled[a] = balance[a]
  BY <1>1, <1>p, PayEffect
<1> HIDE DEF pulled
<1>6. /\ feePaid \in [Holders -> Nat] /\ feePaid[Router] >= balance[Router] + amount - fee
      /\ feePaid[a] = balance[a]
  <2>1. fee <= pulled[Router] /\ balance[Router] \in Nat
    BY <1>1, <1>2, <1>5, <1>p
  <2>2. /\ feePaid \in [Holders -> Nat] /\ feePaid[Router] >= pulled[Router] - fee
        /\ feePaid[a] = pulled[a]
    BY <2>1, <1>2, <1>5, <1>p, PayOut
  <2> HIDE DEF feePaid
  <2>3. feePaid[Router] \in Nat
    BY <1>p, <2>2
  <2> QED
    BY <1>1, <1>2, <1>5, <2>1, <2>2, <2>3
<1> HIDE DEF feePaid
<1>7. /\ sent \in [Holders -> Nat] /\ sent[Router] >= balance[Router]
      /\ sent[a] = balance[a] + (amount - fee)
  <2>0. feePaid[Router] \in Nat
    BY <1>p, <1>6
  <2>1. amount - fee <= feePaid[Router] /\ balance[Router] \in Nat
    BY <2>0, <1>1, <1>2, <1>6, <1>p
  <2>2. /\ sent \in [Holders -> Nat] /\ sent[Router] = feePaid[Router] - (amount - fee)
        /\ sent[a] = feePaid[a] + (amount - fee)
    BY <2>1, <1>2, <1>6, <1>p, PayEffect
  <2> HIDE DEF sent
  <2> QED
    BY <1>6, <2>0, <2>1, <2>2, <1>1, <1>2
<1> HIDE DEF sent
<1>8. paidIn \in Nat /\ paidIn <= sent[a]
  <2>1. balance[a] \in Nat
    BY <1>1, <1>p
  <2>2. \/ paidIn = 0 \/ paidIn = amount - fee \/ paidIn = balance[a] + (amount - fee)
        \/ paidIn \in Nat /\ paidIn <= balance[a] + (amount - fee)
    BY <1>4, AmountAssumption DEF AdapterSpends, fee
  <2> QED
    BY <2>1, <2>2, <1>2, <1>7
<1>9. /\ AfterAdapter(sent, a, paidIn, refundTo) \in [Holders -> Nat]
      /\ AfterAdapter(sent, a, paidIn, refundTo)[Router] >= sent[Router]
  BY <1>a, <1>7, <1>8, <1>r, AdapterEffect
<1>10. balance'[Router] \in Nat /\ sent[Router] \in Nat /\ balance[Router] \in Nat /\ amount \in Nat
  BY <1>1, <1>3, <1>7, <1>9, <1>p
<1> QED
  BY <1>3, <1>7, <1>9, <1>10

(* The same of executeWithRouterBalance: the router pays what was asked.   *)
LEMMA ExecuteEffect ==
  ASSUME TypeOK, NEW user \in Users, NEW k \in AdapterKeys, NEW amount \in Amounts,
         NEW paidIn \in AdapterSpends(HeldBy(k), amount - FeeOf(amount)),
         NEW refundTo \in RefundTargets(k, user),
         ExecuteWithRouterBalance(user, k, amount, paidIn, refundTo)
  PROVE  balance' \in [Holders -> Nat] /\ balance'[Router] >= balance[Router] - amount
<1> DEFINE a == adapters[k].adapter
           fee == FeeOf(amount)
           feePaid == Pay(balance, Router, treasury, fee)
           sent == Pay(feePaid, Router, a, amount - fee)
<1>1. /\ a \in Adapters /\ balance \in [Holders -> Nat] /\ treasury \in Treasuries
      /\ amount \in Nat /\ amount <= balance[Router]
  BY AmountAssumption DEF TypeOK, ExecuteWithRouterBalance, Executable
<1>2. fee \in Nat /\ fee <= amount /\ amount - fee \in Nat
  BY <1>1, FeeBounds DEF FeeOf, TypeOK
<1>3. balance' = AfterAdapter(sent, a, paidIn, refundTo)
  BY DEF ExecuteWithRouterBalance
<1>4. HeldBy(k) = balance[a]
  BY <1>1, PartiesAssumption DEF HeldBy
<1>p. a \in Holders /\ treasury \in Holders /\ Router \in Holders
      /\ a # Router /\ a # treasury
  BY <1>1, PartyFacts
<1>r. refundTo \in Holders
  BY <1>1, RefundFacts
<1>a. a \in Adapters
  BY <1>1
<1> HIDE DEF a, fee
<1>6. /\ feePaid \in [Holders -> Nat] /\ feePaid[Router] >= balance[Router] - fee
      /\ feePaid[a] = balance[a]
  <2>1. fee <= balance[Router] /\ balance[Router] \in Nat
    BY <1>1, <1>2, <1>p
  <2> QED
    BY <2>1, <1>1, <1>2, <1>p, PayOut
<1> HIDE DEF feePaid
<1>7. /\ sent \in [Holders -> Nat] /\ sent[Router] >= balance[Router] - amount
      /\ sent[a] = balance[a] + (amount - fee)
  <2>0. feePaid[Router] \in Nat
    BY <1>p, <1>6
  <2>1. amount - fee <= feePaid[Router] /\ balance[Router] \in Nat
    BY <2>0, <1>1, <1>2, <1>6, <1>p
  <2>2. /\ sent \in [Holders -> Nat] /\ sent[Router] = feePaid[Router] - (amount - fee)
        /\ sent[a] = feePaid[a] + (amount - fee)
    BY <2>1, <1>2, <1>6, <1>p, PayEffect
  <2> HIDE DEF sent
  <2> QED
    BY <1>6, <2>0, <2>1, <2>2, <1>1, <1>2
<1> HIDE DEF sent
<1>8. paidIn \in Nat /\ paidIn <= sent[a]
  <2>1. balance[a] \in Nat
    BY <1>1, <1>p
  <2>2. \/ paidIn = 0 \/ paidIn = amount - fee \/ paidIn = balance[a] + (amount - fee)
        \/ paidIn \in Nat /\ paidIn <= balance[a] + (amount - fee)
    BY <1>4, AmountAssumption DEF AdapterSpends, fee
  <2> QED
    BY <2>1, <2>2, <1>2, <1>7
<1>9. /\ AfterAdapter(sent, a, paidIn, refundTo) \in [Holders -> Nat]
      /\ AfterAdapter(sent, a, paidIn, refundTo)[Router] >= sent[Router]
  BY <1>a, <1>7, <1>8, <1>r, AdapterEffect
<1>10. balance'[Router] \in Nat /\ sent[Router] \in Nat /\ balance[Router] \in Nat /\ amount \in Nat
  BY <1>1, <1>3, <1>7, <1>9, <1>p
<1> QED
  BY <1>3, <1>7, <1>9, <1>10
-----------------------------------------------------------------------------
(* The inductive invariant: types, the clock, custody and fees.            *)
RouterInv ==
  /\ TypeOK
  /\ block.timestamp <= block.number
  /\ CustodyCovered
  /\ FeeWithinCap

(* The record of an execution.                                             *)
LEMMA RecordFacts ==
  ASSUME TypeOK, NEW user \in Users, NEW amount \in Amounts
  PROVE  LET r == ExecutedRecord(user, amount) IN
         /\ r \in Records
         /\ r.feeAmount * BpsBase <= MaxFeeBps * (r.amountIn + r.feeAmount)
<1>1. amount \in Nat /\ feeBps \in 0..MaxFeeBps
  BY AmountAssumption DEF TypeOK
<1>2. /\ FeeOf(amount) \in Nat /\ amount - FeeOf(amount) \in Nat
      /\ FeeOf(amount) * BpsBase <= MaxFeeBps * amount
  BY <1>1, FeeBounds DEF FeeOf
<1>3. (amount - FeeOf(amount)) + FeeOf(amount) = amount
  BY <1>1, <1>2
<1> QED
  BY <1>2, <1>3 DEF ExecutedRecord, Records

(* A step that writes at most one new record, within the cap.              *)
WritesRecord ==
  \/ UNCHANGED intents
  \/ \E id \in IntentIds, r \in Records :
       /\ intents[id] = NoIntent
       /\ intents' = [intents EXCEPT ![id] = r]
       /\ r.feeAmount * BpsBase <= MaxFeeBps * (r.amountIn + r.feeAmount)

(* An action writes an intent that was not on record, or none.             *)
LEMMA RecordWrites ==
  ASSUME TypeOK, WritesRecord
  PROVE  /\ intents' \in [IntentIds -> Records \union {NoIntent}]
         /\ FeeWithinCap => FeeWithinCap'
         /\ \A id \in IntentIds : intents[id] # NoIntent => intents'[id] = intents[id]
<1>1. intents \in [IntentIds -> Records \union {NoIntent}]
  BY DEF TypeOK
<1>2. CASE UNCHANGED intents
  BY <1>1, <1>2 DEF FeeWithinCap
<1>3. ASSUME NEW id \in IntentIds, NEW r \in Records, intents[id] = NoIntent,
             intents' = [intents EXCEPT ![id] = r],
             r.feeAmount * BpsBase <= MaxFeeBps * (r.amountIn + r.feeAmount)
      PROVE  /\ intents' \in [IntentIds -> Records \union {NoIntent}]
             /\ FeeWithinCap => FeeWithinCap'
             /\ \A j \in IntentIds : intents[j] # NoIntent => intents'[j] = intents[j]
  <2>1. \A j \in IntentIds : intents'[j] = IF j = id THEN r ELSE intents[j]
    BY <1>1, <1>3
  <2> QED
    BY <1>1, <1>3, <2>1 DEF FeeWithinCap
<1> QED
  BY <1>2, <1>3 DEF WritesRecord

(* The ids the router hashes itself are ids.                               *)
LEMMA LocalIdFacts ==
  ASSUME TypeOK, NEW user \in Users, NEW k \in AdapterKeys, NEW amount \in Amounts
  PROVE  /\ [party |-> user, key |-> k, amount |-> amount,
             stamp |-> <<"number", block.number>>] \in IntentIds
         /\ [party |-> user, key |-> k, amount |-> amount,
             stamp |-> <<"timestamp", block.timestamp>>] \in IntentIds
  BY DEF TypeOK, IntentIds, LocalIds

(* Every action keeps the invariant.                                       *)
LEMMA RouterStep ==
  ASSUME RouterInv, [Next]_vars
  PROVE  RouterInv' /\ WritesRecord
<1> DEFINE Goal == RouterInv' /\ WritesRecord
<1>a. TypeOK /\ CustodyCovered /\ FeeWithinCap /\ block.timestamp <= block.number
  BY DEF RouterInv
<1>b. /\ balance \in [Holders -> Nat] /\ balance[Router] \in Nat
      /\ minted \in Nat /\ spent \in Nat /\ rescued \in Nat
  BY <1>a, PartyFacts DEF TypeOK
(* Administration touches neither records nor balances.                    *)
<1>c. ASSUME UNCHANGED <<intents, balance, block, historyVars>>,
             paused' \in BOOLEAN, treasury' \in Treasuries, feeBps' \in 0..MaxFeeBps,
             adapters' \in [AdapterKeys -> [adapter : Adapters \union {NoAdapter}, enabled : BOOLEAN]]
      PROVE  Goal
  BY <1>a, <1>c DEF RouterInv, TypeOK, CustodyCovered, FeeWithinCap, WritesRecord, historyVars
(* Everything else leaves the configuration alone.                         *)
<1>d. ASSUME UNCHANGED configVars, WritesRecord, balance' \in [Holders -> Nat],
             block' \in [number : 0..MaxBlock, timestamp : 0..MaxBlock],
             block'.timestamp <= block'.number,
             minted' \in Nat, spent' \in Nat, rescued' \in Nat, CustodyCovered'
      PROVE  Goal
  <2>1. intents' \in [IntentIds -> Records \union {NoIntent}] /\ FeeWithinCap'
    BY <1>a, <1>d, RecordWrites
  <2>2. TypeOK'
    BY <1>a, <1>d, <2>1 DEF TypeOK, configVars
  <2> QED
    BY <1>d, <2>1, <2>2 DEF RouterInv
<1>e. block \in [number : 0..MaxBlock, timestamp : 0..MaxBlock]
  BY <1>a DEF TypeOK
<1>0. CASE UNCHANGED vars
  <2>1. /\ paused \in BOOLEAN /\ treasury \in Treasuries /\ feeBps \in 0..MaxFeeBps
        /\ adapters \in [AdapterKeys -> [adapter : Adapters \union {NoAdapter}, enabled : BOOLEAN]]
    BY <1>a DEF TypeOK
  <2> QED
    BY <1>0, <1>c, <2>1 DEF vars, configVars, historyVars
<1>1. ASSUME NEW k \in AdapterKeys, NEW a \in Adapters, NEW on \in BOOLEAN, RegisterAdapter(k, a, on)
      PROVE  Goal
  <2>1. adapters' \in [AdapterKeys -> [adapter : Adapters \union {NoAdapter}, enabled : BOOLEAN]]
    BY <1>1, <1>a DEF RegisterAdapter, TypeOK
  <2> QED
    BY <1>1, <1>a, <1>c, <2>1 DEF RegisterAdapter, TypeOK, historyVars
<1>2. ASSUME NEW k \in AdapterKeys, NEW on \in BOOLEAN, SetAdapterStatus(k, on) PROVE Goal
  <2>1. adapters' \in [AdapterKeys -> [adapter : Adapters \union {NoAdapter}, enabled : BOOLEAN]]
    BY <1>2, <1>a DEF SetAdapterStatus, TypeOK
  <2> QED
    BY <1>2, <1>a, <1>c, <2>1 DEF SetAdapterStatus, TypeOK, historyVars
<1>3. ASSUME NEW t \in Treasuries, SetTreasury(t) PROVE Goal
  BY <1>3, <1>a, <1>c DEF SetTreasury, TypeOK, historyVars
<1>4. ASSUME NEW fee \in FeeInputs, SetFeeBps(fee) PROVE Goal
  <2>1. fee \in 0..MaxFeeBps
    BY <1>4, FeeAssumption DEF SetFeeBps, MaxFeeBps
  <2> QED
    BY <1>4, <1>a, <1>c, <2>1 DEF SetFeeBps, TypeOK, historyVars
<1>5. ASSUME NEW value \in BOOLEAN, SetPaused(value) PROVE Goal
  BY <1>5, <1>a, <1>c DEF SetPaused, TypeOK, historyVars
<1>6. ASSUME NEW user \in Users, NEW k \in AdapterKeys, NEW amount \in Amounts,
             NEW paidIn \in AdapterSpends(HeldBy(k), amount - FeeOf(amount)),
             NEW refundTo \in RefundTargets(k, user),
             RouteLocal(user, k, amount, paidIn, refundTo)
      PROVE  Goal
  <2>1. balance' \in [Holders -> Nat] /\ balance'[Router] >= balance[Router]
    BY <1>6, <1>a, RouteLocalEffect
  <2>2. WritesRecord
    BY <1>6, <1>a, RecordFacts, LocalIdFacts DEF RouteLocal, WritesRecord
  <2>3. UNCHANGED <<configVars, block, historyVars>>
    BY <1>6 DEF RouteLocal
  <2>r. balance'[Router] \in Nat
    BY <2>1, PartyFacts
  <2>c. balance[Router] + spent + rescued >= minted
    BY <1>a DEF CustodyCovered
  <2>i. balance'[Router] + spent + rescued >= minted
    BY <1>b, <2>1, <2>r, <2>c
  <2>4. CustodyCovered'
    BY <2>3, <2>i DEF CustodyCovered, historyVars
  <2> QED
    BY <1>a, <1>b, <1>d, <1>e, <2>1, <2>2, <2>3, <2>4 DEF historyVars
<1>7. ASSUME NEW user \in Users, NEW k \in AdapterKeys, NEW amount \in Amounts,
             NEW paidIn \in AdapterSpends(HeldBy(k), amount - FeeOf(amount)),
             NEW refundTo \in RefundTargets(k, user),
             ExecuteWithRouterBalance(user, k, amount, paidIn, refundTo)
      PROVE  Goal
  <2>1. balance' \in [Holders -> Nat] /\ balance'[Router] >= balance[Router] - amount
    BY <1>7, <1>a, ExecuteEffect
  <2>2. WritesRecord
    BY <1>7, <1>a, RecordFacts, LocalIdFacts DEF ExecuteWithRouterBalance, WritesRecord
  <2>3. UNCHANGED <<configVars, block, minted, rescued>> /\ spent' = spent + amount
    BY <1>7 DEF ExecuteWithRouterBalance
  <2>4. amount \in Nat
    BY AmountAssumption
  <2>r. balance'[Router] \in Nat
    BY <2>1, PartyFacts
  <2>c. balance[Router] + spent + rescued >= minted
    BY <1>a DEF CustodyCovered
  <2>i. balance'[Router] + (spent + amount) + rescued >= minted /\ spent + amount \in Nat
    BY <1>b, <2>1, <2>4, <2>r, <2>c
  <2>5. CustodyCovered' /\ spent' \in Nat
    BY <2>3, <2>i DEF CustodyCovered
  <2> QED
    BY <1>a, <1>b, <1>d, <1>e, <2>1, <2>2, <2>3, <2>5
<1>8. ASSUME NEW id \in OperatorIds, NEW user \in Users, NEW amount \in Amounts,
             RecordRemoteIntent(id, user, amount)
      PROVE  Goal
  <2>1. UNCHANGED <<configVars, balance, block, historyVars>>
    BY <1>8 DEF RecordRemoteIntent
  <2>2. WritesRecord
    <3> DEFINE r == [status |-> "RemoteRecorded", initiator |-> user, amountIn |-> amount, feeAmount |-> 0]
    <3>1. id \in IntentIds /\ amount \in Nat
      BY IdsAssumption, AmountAssumption
    <3>2. r \in Records /\ r.feeAmount * BpsBase <= MaxFeeBps * (r.amountIn + r.feeAmount)
      BY <3>1 DEF Records, BpsBase, MaxFeeBps
    <3>3. intents[id] = NoIntent /\ intents' = [intents EXCEPT ![id] = r]
      BY <1>8 DEF RecordRemoteIntent
    <3> HIDE DEF r
    <3> QED
      BY <3>1, <3>2, <3>3 DEF WritesRecord
  <2>3. CustodyCovered'
    BY <1>a, <2>1 DEF CustodyCovered, historyVars
  <2> QED
    BY <1>a, <1>b, <1>d, <1>e, <2>1, <2>2, <2>3 DEF historyVars
<1>9. ASSUME NEW to \in Users, NEW amount \in Amounts, RescueToken(to, amount) PROVE Goal
  <2>1. amount \in Nat /\ amount <= balance[Router] /\ to \in Holders /\ to # Router
    BY <1>9, AmountAssumption, PartyFacts DEF RescueToken
  <2>2. balance' \in [Holders -> Nat] /\ balance'[Router] = balance[Router] - amount
    BY <1>9, <1>b, <2>1, PartyFacts, PayEffect DEF RescueToken
  <2>3. UNCHANGED <<configVars, intents, block, minted, spent>> /\ rescued' = rescued + amount
    BY <1>9 DEF RescueToken
  <2>4. CustodyCovered' /\ rescued' \in Nat
    BY <1>a, <1>b, <2>1, <2>2, <2>3 DEF CustodyCovered
  <2>5. WritesRecord
    BY <2>3 DEF WritesRecord
  <2> QED
    BY <1>a, <1>b, <1>d, <1>e, <2>2, <2>3, <2>4, <2>5
<1>10. ASSUME NEW a \in Adapters, NEW to \in Users \union {Router},
              NEW amount \in Amounts \union {balance[a]}, Sweep(a, to, amount)
       PROVE  Goal
  <2>1. a \in Holders /\ to \in Holders /\ balance[a] \in Nat
    BY <1>b, PartyFacts
  <2>2. amount \in Nat /\ amount <= balance[a]
    BY <1>10, <2>1, AmountAssumption DEF Sweep
  <2>3. balance' \in [Holders -> Nat] /\ balance'[Router] >= balance[Router]
    <3>1. balance' = Pay(balance, a, to, amount)
      BY <1>10 DEF Sweep
    <3> QED
      BY <1>b, <2>1, <2>2, <3>1, PayFromAdapter
  <2>4. UNCHANGED <<configVars, intents, block, historyVars>>
    BY <1>10 DEF Sweep
  <2>r. balance'[Router] \in Nat
    BY <2>3, PartyFacts
  <2>c. balance[Router] + spent + rescued >= minted
    BY <1>a DEF CustodyCovered
  <2>i. balance'[Router] + spent + rescued >= minted
    BY <1>b, <2>3, <2>r, <2>c
  <2>5. CustodyCovered'
    BY <2>4, <2>i DEF CustodyCovered, historyVars
  <2>6. WritesRecord
    BY <2>4 DEF WritesRecord
  <2> QED
    BY <1>a, <1>b, <1>d, <1>e, <2>3, <2>4, <2>5, <2>6 DEF historyVars
<1>11. ASSUME NEW amount \in Amounts, BridgeMint(amount) PROVE Goal
  <2>1. amount \in Nat
    BY AmountAssumption
  <2>2. balance' \in [Holders -> Nat] /\ balance'[Router] = balance[Router] + amount
    BY <1>11, <1>b, <2>1, PartyFacts DEF BridgeMint
  <2>3. UNCHANGED <<configVars, intents, block, spent, rescued>> /\ minted' = minted + amount
    BY <1>11 DEF BridgeMint
  <2>4. CustodyCovered' /\ minted' \in Nat
    <3>1. balance[Router] + spent + rescued >= minted
      BY <1>a DEF CustodyCovered
    <3>2. (balance[Router] + amount) + spent + rescued >= minted + amount /\ minted + amount \in Nat
      BY <1>b, <2>1, <3>1
    <3> QED
      BY <2>2, <2>3, <3>2 DEF CustodyCovered
  <2>5. WritesRecord
    BY <2>3 DEF WritesRecord
  <2> QED
    BY <1>a, <1>b, <1>d, <1>e, <2>2, <2>3, <2>4, <2>5
<1>12. ASSUME NEW dt \in {0, 1}, NextBlock(dt) PROVE Goal
  <2>0. MaxBlock \in Nat /\ block.number \in 0..MaxBlock /\ block.timestamp \in 0..MaxBlock
    BY AmountAssumption, <1>e
  <2>1. /\ block' \in [number : 0..MaxBlock, timestamp : 0..MaxBlock]
        /\ block'.timestamp <= block'.number
    <3>1. /\ block.number < MaxBlock
          /\ block' = [number |-> block.number + 1, timestamp |-> block.timestamp + dt]
      BY <1>12 DEF NextBlock
    <3>2. block.timestamp <= block.number
      BY <1>a
    <3>3. block.number + 1 \in 0..MaxBlock /\ block.timestamp + dt \in 0..MaxBlock
      BY <2>0, <3>1, <3>2
    <3>4. block.timestamp + dt <= block.number + 1
      BY <2>0, <3>2
    <3> QED
      BY <3>1, <3>3, <3>4
  <2>2. UNCHANGED <<configVars, intents, balance, historyVars>>
    BY <1>12 DEF NextBlock
  <2>3. CustodyCovered' /\ WritesRecord
    BY <1>a, <2>2 DEF CustodyCovered, WritesRecord, historyVars
  <2> QED
    BY <1>b, <1>d, <2>1, <2>2, <2>3 DEF historyVars
<1> QED
  BY <1>0, <1>1, <1>2, <1>3, <1>4, <1>5, <1>6, <1>7, <1>8, <1>9, <1>10, <1>11, <1>12 DEF Next
-----------------------------------------------------------------------------
(* The router's invariant: types, custody and the fee cap.                 *)
THEOREM RouterSafe == Spec => []RouterInv
<1>1. Init => RouterInv
  <2> SUFFICES ASSUME Init PROVE RouterInv
    OBVIOUS
  <2>1. adapters \in [AdapterKeys -> [adapter : Adapters \union {NoAdapter}, enabled : BOOLEAN]]
    BY DEF Init
  <2>2. block \in [number : 0..MaxBlock, timestamp : 0..MaxBlock] /\ block.timestamp <= block.number
    BY AmountAssumption DEF Init
  <2>3. balance \in [Holders -> Nat] /\ balance[Router] = 0
    BY AmountAssumption, PartyFacts DEF Init
  <2>4. intents \in [IntentIds -> Records \union {NoIntent}] /\ FeeWithinCap
    BY DEF Init, FeeWithinCap
  <2>5. paused \in BOOLEAN /\ treasury \in Treasuries /\ feeBps \in 0..MaxFeeBps
    BY FeeAssumption DEF Init
  <2>6. minted = 0 /\ spent = 0 /\ rescued = 0
    BY DEF Init
  <2>7. CustodyCovered
    BY <2>3, <2>6 DEF CustodyCovered
  <2> QED
    BY <2>1, <2>2, <2>3, <2>4, <2>5, <2>6, <2>7 DEF RouterInv, TypeOK
<1>2. RouterInv /\ [Next]_vars => RouterInv'
  BY RouterStep
<1> QED
  BY <1>1, <1>2, PTL DEF Spec

(* Type correctness: no balance goes below zero, the router's included.    *)
THEOREM TypeCorrect == Spec => []TypeOK
<1>1. RouterInv => TypeOK
  BY DEF RouterInv
<1> QED
  BY <1>1, RouterSafe, PTL

(* What bridges minted is still on the router, was executed or rescued.    *)
THEOREM CustodyIsCovered == Spec => []CustodyCovered
<1>1. RouterInv => CustodyCovered
  BY DEF RouterInv
<1> QED
  BY <1>1, RouterSafe, PTL

(* No intent paid more than 1% of its amount.                              *)
THEOREM FeeIsCapped == Spec => []FeeWithinCap
<1>1. RouterInv => FeeWithinCap
  BY DEF RouterInv
<1> QED
  BY <1>1, RouterSafe, PTL

(* What is on record under an intent id stays on record.                   *)
THEOREM RecordsStay == Spec => RecordsAreFinal
<1>1. RouterInv /\ [Next]_vars
        => [\A id \in IntentIds : intents[id] # NoIntent => intents'[id] = intents[id]]_intents
  BY RouterStep, RecordWrites DEF RouterInv
<1> QED
  BY <1>1, RouterSafe, PTL DEF Spec, RecordsAreFinal
-----------------------------------------------------------------------------
(* Sums over a finite set.  MapThenSumSet takes the elements in the order  *)
(* CHOOSE gives; a fact about every partial sum is shown by induction on   *)
(* the subsets of S, which the strict subset order makes well founded.     *)
AnyOf(T) == CHOOSE x \in T : TRUE

AddOne(b, g, T) == IF T = {} THEN 0 ELSE b[AnyOf(T)] + g[T \ {AnyOf(T)}]

(* g[T] is the sum of b over T, for every T \subseteq S. *)
IsSum(g, b, S) == g = [T \in SUBSET S |-> AddOne(b, g, T)]

SumOf(b, S) == MapThenSumSet(LAMBDA h : b[h], S)

(* The sum of the library, written with a table of sums.                   *)
LEMMA Unfolded ==
  ASSUME NEW b, NEW S
  PROVE  SumOf(b, S) = (CHOOSE g : IsSum(g, b, S))[S]
BY Zenon DEF SumOf, MapThenSumSet, MapThenFoldSet, IsSum, AddOne, AnyOf

(* Induction on the subsets of a finite set, adding the element that       *)
(* CHOOSE gives.                                                           *)
LEMMA Climb ==
  ASSUME NEW S, IsFiniteSet(S), NEW Good, Good \subseteq SUBSET S, {} \in Good,
         \A T \in SUBSET S : T # {} /\ T \ {AnyOf(T)} \in Good => T \in Good
  PROVE  Good = SUBSET S
<1> SUFFICES ASSUME Good # SUBSET S PROVE FALSE
  OBVIOUS
<1> DEFINE Bad == (SUBSET S) \ Good
<1>1. Bad # {} /\ Bad \subseteq SUBSET S
  OBVIOUS
<1> DEFINE R == StrictSubsetOrdering(S)
           F == FiniteSubsetsOf(S)
<1>2. Bad \subseteq F
  BY <1>1, FS_FiniteSubsetsOfFinite, Zenon
<1>3. IsWellFoundedOn(R, F)
  BY FS_StrictSubsetOrderingWellFounded, Zenon
<1> HIDE DEF Bad, R, F
<1>4. PICK T \in Bad : \A U \in Bad : ~ (<<U, T>> \in R)
  BY <1>1, <1>2, <1>3, WFMin, SMTT(30)
<1>5. T # {} /\ AnyOf(T) \in T /\ T \in SUBSET S
  <2>1. T # {} /\ T \in SUBSET S
    BY <1>4 DEF Bad
  <2> QED
    BY <2>1 DEF AnyOf
<1> DEFINE U == T \ {AnyOf(T)}
<1>6. U \in Bad
  BY <1>4, <1>5 DEF Bad
<1>7. <<U, T>> \in (SUBSET S) \X (SUBSET S) /\ U \subseteq T /\ U # T
  BY <1>5
<1> HIDE DEF U
<1>8. <<U, T>> \in R
  BY <1>7 DEF StrictSubsetOrdering, R
<1> QED
  BY <1>4, <1>6, <1>8

(* The same for the natural numbers.                                       *)
LEMMA Upwards ==
  ASSUME NEW Good, Good \subseteq Nat, 0 \in Good, \A n \in Good : n + 1 \in Good
  PROVE  Good = Nat
<1> SUFFICES ASSUME Good # Nat PROVE FALSE
  OBVIOUS
<1> DEFINE Bad == Nat \ Good
           R   == OpToRel(<, Nat)
           N   == Nat
<1>1. Bad # {} /\ Bad \subseteq N
  OBVIOUS
<1>2. IsWellFoundedOn(R, N)
  BY NatLessThanWellFounded
<1>3. \A x, y \in Nat : x < y => <<x, y>> \in R
  BY DEF OpToRel
<1> HIDE DEF Bad, R, N
<1>4. PICK n \in Bad : \A m \in Bad : ~ (<<m, n>> \in R)
  BY <1>1, <1>2, WFMin, SMTT(30)
<1>5. n \in Nat /\ n # 0 /\ n \notin Good
  BY <1>4 DEF Bad
<1>6. n - 1 \in Nat /\ n - 1 < n /\ (n - 1) + 1 = n
  BY <1>5
<1>7. n - 1 \in Bad
  BY <1>5, <1>6 DEF Bad
<1> QED
  BY <1>3, <1>4, <1>5, <1>6, <1>7

(* The table of the sums exists: it is built up by cardinality.            *)
LEMMA SumExists ==
  ASSUME NEW S, IsFiniteSet(S), NEW b
  PROVE  \E g : IsSum(g, b, S)
<1> DEFINE Upto(g, n) == \A T \in SUBSET S : Cardinality(T) < n => g[T] = AddOne(b, g, T)
           Good == {n \in Nat : \E g : Upto(g, n)}
<1>1. ASSUME NEW T \in SUBSET S
      PROVE  /\ IsFiniteSet(T) /\ Cardinality(T) \in Nat /\ Cardinality(T) <= Cardinality(S)
             /\ T # {} => AnyOf(T) \in T /\ T \ {AnyOf(T)} \in SUBSET S
                          /\ Cardinality(T \ {AnyOf(T)}) = Cardinality(T) - 1
  <2>1. IsFiniteSet(T) /\ Cardinality(T) <= Cardinality(S)
    BY FS_Subset
  <2>2. Cardinality(T) \in Nat
    BY <2>1, FS_CardinalityType
  <2>3. ASSUME T # {} PROVE AnyOf(T) \in T
    BY <2>3 DEF AnyOf
  <2>4. ASSUME T # {} PROVE Cardinality(T \ {AnyOf(T)}) = Cardinality(T) - 1
    BY <2>1, <2>3, <2>4, FS_RemoveElement
  <2> QED
    BY <2>1, <2>2, <2>3, <2>4
<1>2. 0 \in Good
  <2>1. ASSUME NEW T \in SUBSET S PROVE ~ (Cardinality(T) < 0)
    <3>1. Cardinality(T) \in Nat
      BY <1>1, Zenon
    <3> QED
      BY <3>1, SMT
  <2>2. Upto(0, 0)
    BY <2>1, Zenon
  <2> QED
    BY <2>2, Zenon
<1>3. ASSUME NEW n \in Good PROVE n + 1 \in Good
  <2>1. PICK g : Upto(g, n)
    BY <1>3
  <2> DEFINE h == [T \in SUBSET S |-> IF Cardinality(T) < n THEN g[T] ELSE AddOne(b, g, T)]
  <2>2. ASSUME NEW T \in SUBSET S, Cardinality(T) < n + 1 PROVE h[T] = AddOne(b, h, T)
    <3>1. h[T] = AddOne(b, g, T)
      BY <2>1
    <3>2. CASE T = {}
      BY <3>1, <3>2 DEF AddOne
    <3>3. CASE T # {}
      <4> DEFINE U == T \ {AnyOf(T)}
      <4>1. U \in SUBSET S /\ Cardinality(U) < n
        BY <1>1, <2>2, <3>3
      <4>2. h[U] = g[U]
        BY <4>1
      <4> HIDE DEF h
      <4> QED
        BY <3>1, <3>3, <4>2 DEF AddOne
    <3> QED
      BY <3>2, <3>3
  <2> HIDE DEF h
  <2>3. Upto(h, n + 1)
    BY <2>2, Zenon
  <2>4. n + 1 \in Nat
    BY <1>3
  <2> HIDE DEF Upto
  <2> QED
    BY <2>3, <2>4
<1>4. Good = Nat
  <2> HIDE DEF Good
  <2>1. Good \subseteq Nat
    BY DEF Good
  <2> QED
    BY <1>2, <1>3, <2>1, Upwards
<1>10. Cardinality(S) \in Nat
  BY FS_CardinalityType, Zenon
<1>5. Cardinality(S) + 1 \in Nat
  BY <1>10, SMT
<1>6. PICK g : Upto(g, Cardinality(S) + 1)
  BY <1>4, <1>5
<1> DEFINE f == [T \in SUBSET S |-> g[T]]
<1>7. ASSUME NEW T \in SUBSET S PROVE f[T] = AddOne(b, f, T)
  <2>1. Cardinality(T) < Cardinality(S) + 1
    <3>1. Cardinality(T) \in Nat /\ Cardinality(T) <= Cardinality(S)
      BY <1>1, Zenon
    <3> QED
      BY <1>10, <3>1, SMT
  <2>3. g[T] = AddOne(b, g, T)
    BY <1>6, <2>1, Zenon
  <2>5. f[T] = AddOne(b, g, T)
    BY <2>3
  <2>6. CASE T = {}
    BY <2>5, <2>6 DEF AddOne
  <2>7. CASE T # {}
    <3>1. f[T \ {AnyOf(T)}] = g[T \ {AnyOf(T)}]
      BY <1>1, <2>7
    <3> HIDE DEF f
    <3> QED
      BY <2>5, <2>7, <3>1 DEF AddOne
  <2> QED
    BY <2>6, <2>7
<1>8. f = [T \in SUBSET S |-> AddOne(b, f, T)]
  BY <1>7
<1> QED
  BY <1>8 DEF IsSum

(* The sum of the library is the last entry of a table of sums.            *)
LEMMA SumFound ==
  ASSUME NEW S, IsFiniteSet(S), NEW b
  PROVE  \E g : IsSum(g, b, S) /\ SumOf(b, S) = g[S]
<1> DEFINE g == CHOOSE g : IsSum(g, b, S)
<1>1. IsSum(g, b, S)
  BY SumExists
<1>2. SumOf(b, S) = g[S]
  BY Unfolded, Zenon
<1> QED
  BY <1>1, <1>2

(* What a table of sums says of the empty set and of one element more.     *)
LEMMA SumStep ==
  ASSUME NEW S, NEW b, NEW g, IsSum(g, b, S)
  PROVE  /\ g[{}] = 0
         /\ \A T \in SUBSET S : T # {} => AnyOf(T) \in T /\ g[T] = b[AnyOf(T)] + g[T \ {AnyOf(T)}]
<1>1. ASSUME NEW T \in SUBSET S PROVE g[T] = AddOne(b, g, T)
  BY DEF IsSum
<1>2. g[{}] = AddOne(b, g, {})
  BY <1>1
<1>3. ASSUME NEW T \in SUBSET S, T # {} PROVE AnyOf(T) \in T
  BY <1>3 DEF AnyOf
<1>4. g[{}] = 0
  BY <1>2 DEF AddOne
<1>5. ASSUME NEW T \in SUBSET S, T # {} PROVE g[T] = b[AnyOf(T)] + g[T \ {AnyOf(T)}]
  BY <1>1, <1>5 DEF AddOne
<1> QED
  BY <1>3, <1>4, <1>5

(* Sums of integers are integers.                                          *)
LEMMA SumType ==
  ASSUME NEW S, IsFiniteSet(S), NEW b \in [S -> Int], NEW g, IsSum(g, b, S)
  PROVE  \A T \in SUBSET S : g[T] \in Int
<1> DEFINE Good == {T \in SUBSET S : g[T] \in Int}
<1>1. {} \in Good
  BY SumStep
<1>2. ASSUME NEW T \in SUBSET S, T # {}, T \ {AnyOf(T)} \in Good
      PROVE  T \in Good
  <2>1. AnyOf(T) \in S /\ g[T] = b[AnyOf(T)] + g[T \ {AnyOf(T)}]
    BY <1>2, SumStep
  <2> QED
    BY <1>2, <2>1
<1> HIDE DEF Good
<1>3. Good = SUBSET S
  <2>1. Good \subseteq SUBSET S
    BY DEF Good
  <2> QED
    BY <1>1, <1>2, <2>1, Climb
<1> QED
  BY <1>3 DEF Good

(* When one entry moves the sum moves as much.                             *)
LEMMA SumMoves ==
  ASSUME NEW S, IsFiniteSet(S), NEW b \in [S -> Int], NEW c \in [S -> Int],
         NEW x \in S, \A y \in S \ {x} : c[y] = b[y]
  PROVE  /\ SumOf(b, S) \in Int
         /\ SumOf(c, S) = SumOf(b, S) + (c[x] - b[x])
<1>1. PICK g : IsSum(g, b, S) /\ SumOf(b, S) = g[S]
  BY SumFound, Zenon
<1>2. PICK k : IsSum(k, c, S) /\ SumOf(c, S) = k[S]
  BY SumFound, Zenon
<1>3. \A T \in SUBSET S : g[T] \in Int /\ k[T] \in Int
  BY <1>1, <1>2, SumType
<1> DEFINE d    == c[x] - b[x]
           By(T) == IF x \in T THEN d ELSE 0
           Good == {T \in SUBSET S : k[T] = g[T] + By(T)}
<1>4. d \in Int
  OBVIOUS
<1>5. {} \in Good
  BY <1>1, <1>2, SumStep
<1>6. ASSUME NEW T \in SUBSET S, T # {}, T \ {AnyOf(T)} \in Good
      PROVE  T \in Good
  <2> DEFINE a == AnyOf(T)
             U == T \ {a}
  <2>1. a \in T /\ g[T] = b[a] + g[U] /\ k[T] = c[a] + k[U]
    BY <1>1, <1>2, <1>6, SumStep
  <2>2. U \in SUBSET S /\ k[U] = g[U] + By(U) /\ g[U] \in Int /\ b[a] \in Int /\ c[a] \in Int /\ a \in S
    BY <1>3, <1>6, <2>1
  <2>3. CASE a = x
    <3>1. By(U) = 0 /\ By(T) = d /\ c[a] = b[a] + d
      BY <2>1, <2>2, <2>3
    <3> HIDE DEF By, a, U, d
    <3>2. k[T] = g[T] + By(T)
      BY <1>4, <2>1, <2>2, <3>1
    <3> QED
      BY <3>2
  <2>4. CASE a # x
    <3>1. By(U) = By(T) /\ By(T) \in Int /\ c[a] = b[a]
      BY <1>4, <2>1, <2>2, <2>4
    <3> HIDE DEF By, a, U, d
    <3>2. k[T] = g[T] + By(T)
      BY <2>1, <2>2, <3>1
    <3> QED
      BY <3>2
  <2> QED
    BY <2>3, <2>4
<1> HIDE DEF Good
<1>7. Good = SUBSET S
  <2>1. Good \subseteq SUBSET S
    BY DEF Good
  <2> QED
    BY <1>5, <1>6, <2>1, Climb
<1>8. k[S] = g[S] + By(S) /\ By(S) = d
  BY <1>7 DEF Good
<1> QED
  BY <1>1, <1>2, <1>3, <1>8

(* The sum of a function that is 0 everywhere.                             *)
LEMMA SumOfNothing ==
  ASSUME NEW S, IsFiniteSet(S), NEW b \in [S -> Int], \A x \in S : b[x] = 0
  PROVE  SumOf(b, S) = 0
<1>1. PICK g : IsSum(g, b, S) /\ SumOf(b, S) = g[S]
  BY SumFound, Zenon
<1> DEFINE Good == {T \in SUBSET S : g[T] = 0}
<1>2. {} \in Good
  BY <1>1, SumStep
<1>3. ASSUME NEW T \in SUBSET S, T # {}, T \ {AnyOf(T)} \in Good
      PROVE  T \in Good
  <2>1. AnyOf(T) \in S /\ g[T] = b[AnyOf(T)] + g[T \ {AnyOf(T)}]
    BY <1>1, <1>3, SumStep
  <2> QED
    BY <1>3, <2>1
<1> HIDE DEF Good
<1>4. Good = SUBSET S
  <2>1. Good \subseteq SUBSET S
    BY DEF Good
  <2> QED
    BY <1>2, <1>3, <2>1, Climb
<1> QED
  BY <1>1, <1>4 DEF Good
-----------------------------------------------------------------------------
(* What is on record as spent is a number for every id.                    *)
LEMMA BookedNumbers ==
  ASSUME TypeOK
  PROVE  Booked \in [LocalIds -> Int]
<1>1. ASSUME NEW id \in LocalIds PROVE Booked[id] \in Int
  <2>1. intents[id] \in Records \union {NoIntent}
    BY DEF TypeOK, IntentIds
  <2> QED
    BY <2>1 DEF Booked, Records
<1> QED
  BY <1>1 DEF Booked

(* An execution's record accounts for the whole amount.                    *)
LEMMA RecordOfAll ==
  ASSUME TypeOK, NEW user \in Users, NEW amount \in Amounts
  PROVE  LET r == ExecutedRecord(user, amount) IN
         r.status = "Executed" /\ r.amountIn + r.feeAmount = amount
<1>1. amount \in Nat /\ feeBps \in 0..MaxFeeBps
  BY AmountAssumption DEF TypeOK
<1>2. FeeOf(amount) \in Nat /\ amount - FeeOf(amount) \in Nat
  BY <1>1, FeeBounds DEF FeeOf
<1>3. (amount - FeeOf(amount)) + FeeOf(amount) = amount
  BY <1>1, <1>2
<1> QED
  BY <1>3 DEF ExecutedRecord

(* A record that is not of a pooled execution, under an id not on record,  *)
(* leaves what is booked as it is.                                         *)
LEMMA NothingBooked ==
  ASSUME TypeOK, NEW id \in IntentIds, NEW r, intents[id] = NoIntent,
         intents' = [intents EXCEPT ![id] = r],
         id \in LocalIds => id.stamp[1] # "timestamp" \/ r.status # "Executed"
  PROVE  Booked' = Booked
<1>1. \A j \in IntentIds : intents'[j] = IF j = id THEN r ELSE intents[j]
  BY DEF TypeOK
<1>2. ASSUME NEW j \in LocalIds PROVE Booked'[j] = Booked[j]
  <2>1. j \in IntentIds
    BY DEF IntentIds
  <2>2. CASE j = id
    BY <1>1, <2>1, <2>2 DEF Booked
  <2>3. CASE j # id
    BY <1>1, <2>1, <2>3 DEF Booked
  <2> QED
    BY <2>2, <2>3
<1>3. Booked = [j \in LocalIds |-> Booked[j]] /\ Booked' = [j \in LocalIds |-> Booked'[j]]
  BY DEF Booked
<1> QED
  BY <1>2, <1>3

(* An execution out of the pooled balance books what it spends.            *)
LEMMA ExecutionIsBooked ==
  ASSUME TypeOK, TypeOK', NEW user \in Users, NEW k \in AdapterKeys, NEW amount \in Amounts,
         NEW paidIn, NEW refundTo,
         ExecuteWithRouterBalance(user, k, amount, paidIn, refundTo)
  PROVE  /\ SumOf(Booked', LocalIds) = SumOf(Booked, LocalIds) + amount
         /\ spent' = spent + amount
<1> DEFINE id == [party |-> user, key |-> k, amount |-> amount,
                  stamp |-> <<"timestamp", block.timestamp>>]
           r  == ExecutedRecord(user, amount)
<1>1. id \in LocalIds /\ id \in IntentIds /\ id.stamp[1] = "timestamp"
  BY DEF TypeOK, IntentIds, LocalIds
<1>2. intents[id] = NoIntent /\ intents' = [intents EXCEPT ![id] = r] /\ spent' = spent + amount
  BY DEF ExecuteWithRouterBalance
<1>3. r.status = "Executed" /\ r.amountIn + r.feeAmount = amount /\ r \in Records
  BY RecordOfAll, RecordFacts
<1> HIDE DEF id, r
<1>4. \A j \in IntentIds : intents'[j] = IF j = id THEN r ELSE intents[j]
  BY <1>2 DEF TypeOK
<1>5. ASSUME NEW j \in LocalIds \ {id} PROVE Booked'[j] = Booked[j]
  BY <1>4, <1>5 DEF Booked, IntentIds
<1>6. Booked[id] = 0
  BY <1>1, <1>2 DEF Booked
<1>7. r # NoIntent => Booked'[id] = amount
  BY <1>1, <1>3, <1>4 DEF Booked
<1>8. r # NoIntent
  BY <1>3, NoIntentAssumption
<1>9. Booked \in [LocalIds -> Int] /\ Booked' \in [LocalIds -> Int]
  <2>1. ASSUME NEW j \in LocalIds PROVE Booked'[j] \in Int
    <3>1. intents'[j] \in Records \union {NoIntent}
      BY DEF TypeOK, IntentIds
    <3> QED
      BY <3>1 DEF Booked, Records
  <2>2. Booked' = [j \in LocalIds |-> Booked'[j]]
    BY DEF Booked
  <2> QED
    BY <2>1, <2>2, BookedNumbers
<1>10. /\ SumOf(Booked, LocalIds) \in Int
       /\ SumOf(Booked', LocalIds) = SumOf(Booked, LocalIds) + (Booked'[id] - Booked[id])
  <2>1. PICK b : b = Booked
    OBVIOUS
  <2>2. PICK c : c = Booked'
    OBVIOUS
  <2>3. IsFiniteSet(LocalIds)
    BY IdsAssumption
  <2>4. \A y \in LocalIds \ {id} : c[y] = b[y]
    BY <1>5, <2>1, <2>2
  <2>5. b \in [LocalIds -> Int] /\ c \in [LocalIds -> Int] /\ id \in LocalIds
    BY <1>1, <1>9, <2>1, <2>2
  <2>6. SumOf(b, LocalIds) \in Int /\ SumOf(c, LocalIds) = SumOf(b, LocalIds) + (c[id] - b[id])
    BY <2>3, <2>4, <2>5, SumMoves, Zenon
  <2> QED
    BY <2>1, <2>2, <2>6
<1>11. amount \in Nat
  BY AmountAssumption
<1> QED
  BY <1>2, <1>6, <1>7, <1>8, <1>10, <1>11

(* Every step books what it spends.                                        *)
LEMMA SpendingStep ==
  ASSUME RouterInv, RouterInv', [Next]_vars, SumOf(Booked, LocalIds) = spent
  PROVE  SumOf(Booked', LocalIds) = spent'
<1>1. TypeOK /\ TypeOK'
  BY DEF RouterInv
<1>2. ASSUME Booked' = Booked, spent' = spent PROVE SumOf(Booked', LocalIds) = spent'
  BY <1>2
<1>3. ASSUME UNCHANGED <<intents, spent>> PROVE SumOf(Booked', LocalIds) = spent'
  <2>1. Booked' = Booked
    BY <1>3 DEF Booked
  <2> QED
    BY <1>2, <1>3, <2>1
<1>4. ASSUME NEW user \in Users, NEW k \in AdapterKeys, NEW amount \in Amounts,
             NEW paidIn, NEW refundTo, RouteLocal(user, k, amount, paidIn, refundTo)
      PROVE  SumOf(Booked', LocalIds) = spent'
  <2> DEFINE id == [party |-> user, key |-> k, amount |-> amount,
                    stamp |-> <<"number", block.number>>]
  <2>1. id \in IntentIds /\ id.stamp[1] # "timestamp"
    BY <1>1, LocalIdFacts
  <2>2. /\ intents[id] = NoIntent /\ spent' = spent
        /\ intents' = [intents EXCEPT ![id] = ExecutedRecord(user, amount)]
    BY <1>4 DEF RouteLocal, historyVars
  <2> HIDE DEF id
  <2>3. Booked' = Booked
    BY <1>1, <2>1, <2>2, NothingBooked
  <2> QED
    BY <1>2, <2>2, <2>3
<1>5. ASSUME NEW id \in OperatorIds, NEW user \in Users, NEW amount \in Amounts,
             RecordRemoteIntent(id, user, amount)
      PROVE  SumOf(Booked', LocalIds) = spent'
  <2> DEFINE r == [status |-> "RemoteRecorded", initiator |-> user,
                   amountIn |-> amount, feeAmount |-> 0]
  <2>1. /\ intents[id] = NoIntent /\ spent' = spent
        /\ intents' = [intents EXCEPT ![id] = r]
    BY <1>5 DEF RecordRemoteIntent, historyVars
  <2>2. id \in IntentIds /\ r.status # "Executed"
    BY IdsAssumption
  <2> HIDE DEF r
  <2>3. Booked' = Booked
    BY <1>1, <2>1, <2>2, NothingBooked
  <2> QED
    BY <1>2, <2>1, <2>3
<1>6. ASSUME NEW user \in Users, NEW k \in AdapterKeys, NEW amount \in Amounts,
             NEW paidIn, NEW refundTo, ExecuteWithRouterBalance(user, k, amount, paidIn, refundTo)
      PROVE  SumOf(Booked', LocalIds) = spent'
  BY <1>1, <1>6, ExecutionIsBooked
<1>7. CASE \/ UNCHANGED vars
           \/ \E k \in AdapterKeys, a \in Adapters, on \in BOOLEAN : RegisterAdapter(k, a, on)
           \/ \E k \in AdapterKeys, on \in BOOLEAN : SetAdapterStatus(k, on)
           \/ \E t \in Treasuries : SetTreasury(t)
           \/ \E fee \in FeeInputs : SetFeeBps(fee)
           \/ \E value \in BOOLEAN : SetPaused(value)
           \/ \E to \in Users, amount \in Amounts : RescueToken(to, amount)
           \/ \E a \in Adapters, to \in Users \union {Router} :
                \E amount \in Amounts \union {balance[a]} : Sweep(a, to, amount)
           \/ \E amount \in Amounts : BridgeMint(amount)
           \/ \E dt \in {0, 1} : NextBlock(dt)
  <2>1. UNCHANGED <<intents, spent>>
    BY <1>7 DEF vars, historyVars, RegisterAdapter, SetAdapterStatus, SetTreasury, SetFeeBps, SetPaused,
                RescueToken, Sweep, BridgeMint, NextBlock
  <2> QED
    BY <1>3, <2>1
<1> QED
  BY <1>4, <1>5, <1>6, <1>7, Zenon DEF Next

(* Every unit an operator spends of the pooled USDC stands in one record,  *)
(* whatever ids meet, fees change and operators record.                    *)
THEOREM SpendingOnRecord == Spec => []SpendingIsOnRecord
<1> DEFINE OnRecord == SumOf(Booked, LocalIds) = spent
<1>1. Init => OnRecord
  <2> SUFFICES ASSUME Init PROVE OnRecord
    OBVIOUS
  <2>1. \A id \in LocalIds : intents[id] = NoIntent
    BY DEF Init, IntentIds
  <2>2. Booked \in [LocalIds -> Int] /\ \A id \in LocalIds : Booked[id] = 0
    BY <2>1 DEF Booked
  <2>3. SumOf(Booked, LocalIds) = 0
    BY <2>2, IdsAssumption, SumOfNothing, Zenon
  <2> QED
    BY <2>3 DEF Init
<1>2. RouterInv /\ RouterInv' /\ OnRecord /\ [Next]_vars => OnRecord'
  BY SpendingStep
<1>3. OnRecord => SpendingIsOnRecord
  BY DEF SpendingIsOnRecord, SumOf
<1> HIDE DEF OnRecord
<1> QED
  BY <1>1, <1>2, <1>3, RouterSafe, PTL DEF Spec
-----------------------------------------------------------------------------
(***************************************************************************)
(* RoutePlanning, for any chains, protocols, prices, pools and requests.   *)
(***************************************************************************)
Legs == {"circle", "prices", "source", "router", "pools", "output", "execution", "adapter", "eligible"}
Amount == [raw : Nat, dec : Int]
QuoteRecords ==
  [leg : Legs, tries : 0..RpcMaxAttempts - 1, fee : Nat, liveFee : BOOLEAN, in : Nat, at : Nat,
   tier : Tiers \union {0}, out : Amount, low : Amount, cost : Nat, simulated : BOOLEAN]
PoolRates == Rates \union {NoPool}

(* What is so of a quote by the leg it has got to: what arrives at the      *)
(* protocol is something, the router's legs are of a destination with a     *)
(* router, and there a quote is complete when the call was simulated.       *)
GoodQuote(q) ==
  /\ q \in QuoteRecords
  /\ q.leg # "circle" => q.in > 0
  /\ q.leg \in {"router", "pools", "output", "execution"} => OnRouter(input)
  /\ q.leg = "adapter" => ~OnRouter(input)
  /\ q.leg = "eligible" /\ OnRouter(input) => q.simulated

PlanTypes ==
  /\ env \in Settings /\ input \in Requests /\ moves \in 0..MaxMoves
  /\ DOMAIN quotes \subseteq Routes /\ quotes = [r \in DOMAIN quotes |-> quotes[r]]
  /\ DOMAIN quotes # {} => Supported(input)
  /\ plan.route \in Routes \union {"MOCK", "none"} /\ plan.approval \in BOOLEAN
  /\ status \in {"created", "failed", "unanswered", "answered", "quoted", "needs_approval", "planned"}
  /\ pools \in [Tiers -> PoolRates] /\ price \in {0} \union MarketPrices

PlanInv == PlanTypes /\ \A r \in DOMAIN quotes : quotes[r] = Dropped \/ GoodQuote(quotes[r])

(* Once the request is decided nothing of its quotes is outstanding, and   *)
(* the decision is as good as it was when it was made.                     *)
Settled == \A r \in DOMAIN quotes : quotes[r].leg \in {"eligible", "ineligible"}
Decided ==
  IF status = "created" THEN plan = NoPlan
  ELSE Settled /\ RunsAreAuthorised /\ RouteIsTheOneWanted

(***************************************************************************)
(* Amounts.                                                                *)
(***************************************************************************)
LEMMA LessBounds ==
  ASSUME NEW n \in Nat, NEW bps \in 0..Whole
  PROVE  /\ Less(n, bps) \in Nat /\ Less(n, bps) <= n
         /\ n > 0 /\ bps < Whole => Less(n, bps) > 0
<1> DEFINE p == n * bps
           d == p \div 10000
           m == n * (10000 - bps)
<1>1. p \in Nat /\ m \in Nat /\ p + m = 10000 * n
  BY SMT DEF Whole
<1>2. n > 0 /\ bps < 10000 => m > 0
  BY SMT DEF Whole
<1> HIDE DEF p, m
<1>3. d \in Nat /\ 10000 * d <= p
  BY <1>1, SMT
<1> HIDE DEF d
<1>4. d <= n /\ (m > 0 => d < n)
  BY <1>1, <1>3, SMT
<1> QED
  BY <1>2, <1>3, <1>4, SMT DEF Less, Whole, d, p

(* What is paid is a number, or nothing.                                   *)
LEMMA PaidNumber ==
  ASSUME NEW n \in Nat, NEW rate \in Nat
  PROVE  Paid(n, rate) \in Nat
<1>1. n * rate \in Nat
  BY SMT
<1> DEFINE p == n * rate
<1> HIDE DEF p
<1>2. p \in Nat => p \div 100 \in Nat
  BY SMT
<1> QED
  BY <1>1, <1>2 DEF Paid, p

(* The powers of ten between USDC and the decimals of a token.             *)
LEMMA Decimals ==
  ASSUME NEW d \in Six..Six + 6
  PROVE  10^(d - Six) \in Nat /\ 10^(d - Six) >= 1 /\ (d = Six => 10^(d - Six) = 1)
<1>1. ASSUME NEW n, n \in 0..6 PROVE 10^n \in Nat /\ 10^n >= 1 /\ (n = 0 => 10^n = 1)
  <2>0. CASE n = 0
    BY <2>0, SMT
  <2>1. CASE n = 1
    BY <2>1, SMT
  <2>2. CASE n = 2
    BY <2>2, SMT
  <2>3. CASE n = 3
    BY <2>3, SMT
  <2>4. CASE n = 4
    BY <2>4, SMT
  <2>5. CASE n = 5
    BY <2>5, SMT
  <2>6. CASE n = 6
    BY <2>6, SMT
  <2>7. n \in {0, 1, 2, 3, 4, 5, 6}
    BY <1>1, SMT
  <2> QED
    BY <2>0, <2>1, <2>2, <2>3, <2>4, <2>5, <2>6, <2>7
<1>2. d - Six \in 0..6 /\ (d = Six => d - Six = 0)
  BY SMT DEF Six
<1> QED
  BY <1>1, <1>2, Zenon

(***************************************************************************)
(* The best of a few, by a number and, where that is the same, by another  *)
(* that tells them apart.                                                  *)
(***************************************************************************)
Beats(f, g, x, y) == f[y] < f[x] \/ (f[y] = f[x] /\ g[x] < g[y])
BestIn(T, f, g)   == \E x \in T : \A y \in T \ {x} : Beats(f, g, x, y)

(* The best of a set and one element more.                                 *)
LEMMA BestWithOneMore ==
  ASSUME NEW S, NEW f \in [S -> Int], NEW g \in [S -> Int],
         \A x, y \in S : g[x] = g[y] => x = y,
         NEW T \in SUBSET S, NEW a, T = {} \/ BestIn(T, f, g)
  PROVE  (T \union {a}) \intersect S = {} \/ BestIn((T \union {a}) \intersect S, f, g)
<1> DEFINE U == (T \union {a}) \intersect S
<1>1. CASE a \notin S \/ a \in T
  <2>1. U = T
    BY <1>1
  <2> QED
    BY <2>1
<1>2. CASE T = {} /\ a \in S
  BY <1>2 DEF BestIn
<1>3. CASE T # {} /\ a \in S /\ a \notin T
  <2>1. PICK x \in T : \A y \in T \ {x} : Beats(f, g, x, y)
    BY <1>3 DEF BestIn
  <2>2. U = T \union {a}
    BY <1>3
  <2>3. f[x] \in Int /\ g[x] \in Int /\ f[a] \in Int /\ g[a] \in Int /\ g[a] # g[x]
    BY <1>3
  <2>4. CASE Beats(f, g, x, a)
    BY <2>1, <2>2, <2>4 DEF BestIn
  <2>5. CASE ~Beats(f, g, x, a)
    <3>1. Beats(f, g, a, x)
      BY <2>3, <2>5 DEF Beats
    <3>2. ASSUME NEW y \in T \ {x} PROVE Beats(f, g, a, y)
      <4>1. Beats(f, g, x, y) /\ f[y] \in Int /\ g[y] \in Int
        BY <2>1
      <4> QED
        BY <2>3, <3>1, <4>1 DEF Beats
    <3>3. \A y \in U \ {a} : Beats(f, g, a, y)
      BY <2>2, <3>1, <3>2
    <3> QED
      BY <2>2, <3>3 DEF BestIn
  <2> QED
    BY <2>4, <2>5
<1> QED
  BY <1>1, <1>2, <1>3

(* Of at most four routes with different places one beats the others.      *)
LEMMA BestOfFour ==
  ASSUME NEW S, S # {}, NEW a, NEW b, NEW c, NEW d, S \subseteq {a, b, c, d},
         NEW f \in [S -> Int], NEW g \in [S -> Int], \A x, y \in S : g[x] = g[y] => x = y
  PROVE  \E x \in S : \A y \in S \ {x} : Beats(f, g, x, y)
<1> DEFINE Best4(T) == T = {} \/ BestIn(T, f, g)
           A == ({} \union {a}) \intersect S
           B == (A \union {b}) \intersect S
           C == (B \union {c}) \intersect S
           D == (C \union {d}) \intersect S
<1>1. Best4(A)
  BY BestWithOneMore
<1>2. Best4(B)
  BY <1>1, BestWithOneMore
<1>3. Best4(C)
  BY <1>2, BestWithOneMore
<1>4. Best4(D)
  BY <1>3, BestWithOneMore
<1>5. D = S
  OBVIOUS
<1> QED
  BY <1>4, <1>5 DEF BestIn

(* A tier that is found has a pool.                                        *)
LEMMA TierFound ==
  ASSUME pools \in [Tiers -> PoolRates], NEW first, NEW n \in Nat, NEW t \in BestTiers(first, n)
  PROVE  t \in Tiers /\ pools[t] \in Nat
<1>1. PICK seen \in (SUBSET {u \in Tiers : pools[u] # NoPool}) \ {{}} :
        t = CHOOSE x \in seen : \A u \in seen \ {x} :
              \/ Paid(n, pools[u]) < Paid(n, pools[x])
              \/ Paid(n, pools[u]) = Paid(n, pools[x]) /\ (x = first \/ (u # first /\ x < u))
  BY DEF BestTiers
<1> DEFINE f == [x \in seen |-> Paid(n, pools[x])]
           g == [x \in seen |-> IF x = first THEN -1 ELSE x]
<1>2. Rates \subseteq Nat /\ seen \subseteq FeeAmounts /\ seen # {} /\ seen \subseteq Tiers
  BY ConstantsAssumption
<1>7. \A x \in seen : pools[x] \in Nat /\ x \in Nat /\ Paid(n, pools[x]) \in Nat
  <2> TAKE x \in seen
  <2>1. x \in Tiers /\ pools[x] # NoPool
    BY <1>1, Zenon
  <2>2. pools[x] \in Rates
    BY <2>1, Zenon DEF PoolRates
  <2>3. x \in FeeAmounts
    BY <1>2, Zenon
  <2>4. x \in Nat
    BY <2>3, SMT DEF FeeAmounts
  <2>5. pools[x] \in Nat
    BY <1>2, <2>2, Zenon
  <2>6. Paid(n, pools[x]) \in Nat
    BY <2>5, PaidNumber, Zenon
  <2> QED
    BY <2>4, <2>5, <2>6, Zenon
<1>8. f \in [seen -> Int]
  BY <1>7
<1>9. g \in [seen -> Int]
  BY <1>7
<1>10. ASSUME NEW x \in seen, NEW y \in seen, g[x] = g[y] PROVE x = y
  BY <1>7, <1>10, SMT
<1> HIDE DEF f, g
<1> DEFINE a == 100  b == 500  c == 3000  d == 10000
<1>3. FeeAmounts = {a, b, c, d}
  BY SMT DEF FeeAmounts
<1> HIDE DEF a, b, c, d
<1>4. \E x \in seen : \A y \in seen \ {x} : Beats(f, g, x, y)
  <2>1. seen \subseteq {a, b, c, d}
    BY <1>2, <1>3, Zenon
  <2> QED
    BY <2>1, <1>2, <1>8, <1>9, <1>10, BestOfFour, Zenon
<1>5. \E x \in seen : \A u \in seen \ {x} :
        \/ Paid(n, pools[u]) < Paid(n, pools[x])
        \/ Paid(n, pools[u]) = Paid(n, pools[x]) /\ (x = first \/ (u # first /\ x < u))
  <2>1. PICK x \in seen : \A y \in seen \ {x} : Beats(f, g, x, y)
    BY <1>4
  <2>2. ASSUME NEW u \in seen \ {x}
        PROVE  \/ Paid(n, pools[u]) < Paid(n, pools[x])
               \/ Paid(n, pools[u]) = Paid(n, pools[x]) /\ (x = first \/ (u # first /\ x < u))
    <3>1. Beats(f, g, x, u) /\ x \in seen /\ u \in seen /\ u # x
      BY <2>1, Zenon
    <3>2. x \in Nat /\ u \in Nat
      BY <3>1, <1>7, Zenon
    <3>3. f[x] = Paid(n, pools[x]) /\ f[u] = Paid(n, pools[u])
      BY <3>1, Zenon DEF f
    <3>4. g[x] = (IF x = first THEN -1 ELSE x) /\ g[u] = (IF u = first THEN -1 ELSE u)
      BY <3>1, SMT DEF g
    <3>5. \/ Paid(n, pools[u]) < Paid(n, pools[x])
          \/ Paid(n, pools[u]) = Paid(n, pools[x]) /\ g[x] < g[u]
      BY <3>1, <3>3, Zenon DEF Beats
    <3>6. g[x] < g[u] => x = first \/ (u # first /\ x < u)
      BY <3>2, <3>4, SMT
    <3> QED
      BY <3>5, <3>6, Zenon
  <2> QED
    BY <2>2, Zenon
<1>6. t \in seen
  BY <1>1, <1>5
<1> QED
  BY <1>2, <1>6, <1>7

(***************************************************************************)
(* What a quote is worked out from.                                        *)
(***************************************************************************)
LEMMA Given ==
  ASSUME PlanTypes, DOMAIN quotes # {}
  PROVE  /\ Dest(input).dec \in Six..Six + 6 /\ (OnRouter(input) => Dest(input).dec = Six)
         /\ Dest(input).dec \in Int /\ OutDec(input) \in Int
         /\ input.amount \in Nat /\ SlippageBps(input) \in 0..Whole /\ Protocols[input.protocol].feeBps \in Nat
         /\ env.fastBps \in Nat /\ env.serviceBps \in Nat
<1>1. Supported(input) /\ env \in Settings /\ input \in Requests
  BY DEF PlanTypes
<1>2. input.destination \in DOMAIN env.chains /\ input.protocol \in DOMAIN env.protocols
  BY <1>1 DEF Supported, Chain, Protocols
<1>3. env.fastBps \in Nat /\ env.serviceBps \in Nat
  BY <1>1, SettingsAssumption, Zenon
<1>11. Dest(input).dec \in Six..Six + 6 /\ (Dest(input).vm = "evm" => Dest(input).dec = Six)
  BY <1>1, <1>2, SettingsAssumption, Zenon DEF Dest, Chain
<1>12. Protocols[input.protocol].feeBps \in Nat /\ Protocols[input.protocol].slipBps \in 0..Whole
  BY <1>1, <1>2, SettingsAssumption, Zenon DEF Protocols
<1>13. input.amount \in Nat /\ input.slippage \in -1..Whole /\ input.out \in Nat
  BY <1>1, RequestsAssumption, Zenon
<1>4. SlippageBps(input) \in 0..Whole
  <2>1. 0 \in 0..Whole
    BY SMT DEF Whole
  <2>2. ASSUME NEW n \in -1..Whole, n >= 0 PROVE n \in 0..Whole
    BY <2>2, SMT DEF Whole
  <2>3. input.slippage >= 0 => input.slippage \in 0..Whole
    BY <1>13, <2>2, Zenon
  <2> QED
    BY <1>12, <2>1, <2>3, Zenon DEF SlippageBps
<1>14. Dest(input).dec \in Int /\ Six \in Int /\ Six + 3 \in Int /\ input.out \in Int
  BY <1>11, <1>13, SMT DEF Six
<1>5. OutDec(input) \in Int
  <2>1. CASE Kind(input) = "marinade"
    BY <1>14, <2>1, Zenon DEF OutDec
  <2>2. CASE Kind(input) = "blend"
    BY <1>14, <2>2, Zenon DEF OutDec
  <2>3. CASE Kind(input) \notin {"marinade", "blend"}
    BY <1>14, <2>3, Zenon DEF OutDec
  <2> QED
    BY <2>1, <2>2, <2>3, Zenon
<1> QED
  BY <1>3, <1>11, <1>12, <1>13, <1>14, <1>4, <1>5, SMT DEF OnRouter

(* One quote gets on, and nothing else but the price does.                 *)
LEMMA QuoteGoesOn ==
  ASSUME PlanInv, NEW r \in DOMAIN quotes, NEW q, Becomes(r, q), Quoting,
         price' \in {0} \union MarketPrices, q = Dropped \/ GoodQuote(q)
  PROVE  PlanInv'
<1>1. /\ DOMAIN quotes' = DOMAIN quotes /\ quotes'[r] = q
      /\ \A s \in DOMAIN quotes \ {r} : quotes'[s] = quotes[s]
      /\ quotes' = [s \in DOMAIN quotes' |-> quotes'[s]]
  BY DEF Becomes, PlanInv, PlanTypes
<1>2. PlanTypes'
  BY <1>1 DEF PlanInv, PlanTypes, Quoting, Supported, Chain, Protocols
<1>3. \A p : GoodQuote(p)' <=> GoodQuote(p)
  BY DEF Quoting, GoodQuote, OnRouter, Dest, Chain, BridgeOnly, Kind, Protocols
<1> QED
  BY <1>1, <1>2, <1>3 DEF PlanInv

(* A quote that is on a leg is one in the making.                          *)
LEMMA OnALeg ==
  ASSUME PlanInv, NEW r, NEW leg \in Legs, At(r, leg)
  PROVE  /\ r \in DOMAIN quotes /\ DOMAIN quotes # {} /\ PlanTypes
         /\ GoodQuote(quotes[r]) /\ quotes[r] \in QuoteRecords /\ quotes[r].leg = leg
<1>1. r \in DOMAIN quotes /\ quotes[r].leg = leg
  BY DEF At
<1>2. quotes[r] # Dropped
  BY <1>1 DEF Dropped, Legs
<1> QED
  BY <1>1, <1>2 DEF PlanInv, GoodQuote

(* The constants are natural numbers; the router keeps less than all.      *)
LEMMA NumbersGiven ==
  /\ 0 \in 0..RpcMaxAttempts - 1 /\ GatewayFee \in Nat /\ FallbackGas \in Nat
  /\ LiveBps \subseteq Nat /\ MarketPrices \subseteq Nat /\ Rates \subseteq Nat
  /\ RouterBps \in 0..Whole /\ RouterBps < Whole
<1>1. RpcMaxAttempts \in Nat \ {0} /\ RouterBps \in 0..100
  BY ConstantsAssumption, Zenon
<1>2. 0 \in 0..RpcMaxAttempts - 1 /\ RouterBps \in 0..Whole /\ RouterBps < Whole
  BY <1>1, SMT DEF Whole
<1>3. LiveBps \union MarketPrices \union Rates \union {Weight, GatewayFee, FallbackGas} \subseteq Nat
  BY ConstantsAssumption, Zenon
<1> QED
  BY <1>2, <1>3, SMT

(* What gas costs.                                                         *)
LEMMA Costs ==
  ASSUME NEW q \in QuoteRecords, NEW n \in Nat
  PROVE  GasCosts(q, n) \subseteq Nat
<1>1. q.cost \in Nat /\ q.at \in Nat
  BY DEF QuoteRecords
<1>2. n * q.at \in Nat
  BY <1>1, SMT
<1> QED
  BY <1>1, <1>2, NumbersGiven, SMT DEF GasCosts

(***************************************************************************)
(* What each leg leaves of a quote.                                        *)
(***************************************************************************)
LEMMA CircleKeeps ==
  ASSUME PlanInv, NEW r, CircleLeg(r)
  PROVE  PlanInv'
<1> DEFINE q == quotes[r]
<1>1. At(r, "circle") /\ "circle" \in Legs
  BY DEF CircleLeg, Legs
<1>2. r \in DOMAIN quotes /\ DOMAIN quotes # {} /\ PlanTypes /\ GoodQuote(q) /\ q \in QuoteRecords
  BY <1>1, OnALeg
<1>3. /\ Dest(input).dec \in Six..Six + 6 /\ (OnRouter(input) => Dest(input).dec = Six)
      /\ input.amount \in Nat /\ env.fastBps \in Nat /\ env.serviceBps \in Nat
  BY <1>2, Given, Zenon
<1>4. PICK f \in IF r \in {"CCTP_V2", "BRIDGEKIT"} THEN CctpFees(r) ELSE {[bps |-> 0, live |-> TRUE]} :
        LET exact   == input.amount * f.bps
            fee     == IF r = "GATEWAY" THEN GatewayFee ELSE (exact + Whole \div 2) \div Whole
            bridged == IF r = "GATEWAY" THEN input.amount ELSE input.amount - fee
        IN IF exact \in 1..Whole - 1 \/ bridged <= 0 THEN Becomes(r, Dropped)
           ELSE Goes(r, "prices", [quotes[r] EXCEPT !.fee = fee, !.liveFee = f.live,
                                                    !.in = bridged * 10^(Dest(input).dec - Six)])
  BY Zenon DEF CircleLeg
<1>5. f.bps \in Nat /\ f.live \in BOOLEAN
  <2>1. ASSUME f \in CctpFees(r) PROVE f.bps \in Nat /\ f.live \in BOOLEAN
    <3>1. (IF r = "BRIDGEKIT" /\ ~input.fast THEN env.serviceBps ELSE 0) \in Nat
          /\ (IF input.fast THEN env.fastBps ELSE 0) \in Nat
      BY <1>3
    <3> DEFINE service == IF r = "BRIDGEKIT" /\ ~input.fast THEN env.serviceBps ELSE 0
               fast == IF input.fast THEN env.fastBps ELSE 0
    <3>2. f \in {[bps |-> b + service, live |-> TRUE] : b \in LiveBps}
                \union {[bps |-> fast + service, live |-> FALSE]}
      BY <2>1, Zenon DEF CctpFees
    <3> HIDE DEF service, fast
    <3>3. service \in Nat /\ fast \in Nat
      BY <3>1 DEF service, fast
    <3>4. CASE f = [bps |-> fast + service, live |-> FALSE]
      BY <3>3, <3>4
    <3>5. CASE \E b \in LiveBps : f = [bps |-> b + service, live |-> TRUE]
      <4>1. PICK b \in LiveBps : f = [bps |-> b + service, live |-> TRUE]
        BY <3>5
      <4>2. b \in Nat
        BY NumbersGiven, Zenon
      <4> QED
        BY <3>3, <4>1, <4>2
    <3> QED
      BY <3>2, <3>4, <3>5, Zenon
  <2>2. f = [bps |-> 0, live |-> TRUE] => f.bps \in Nat /\ f.live \in BOOLEAN
    OBVIOUS
  <2> QED
    BY <1>4, <2>1, <2>2, Zenon
<1> DEFINE exact   == input.amount * f.bps
           fee     == IF r = "GATEWAY" THEN GatewayFee ELSE (exact + Whole \div 2) \div Whole
           bridged == IF r = "GATEWAY" THEN input.amount ELSE input.amount - fee
           scale   == 10^(Dest(input).dec - Six)
           new     == [[q EXCEPT !.fee = fee, !.liveFee = f.live, !.in = bridged * scale]
                          EXCEPT !.leg = "prices", !.tries = 0]
<1>6. Becomes(r, Dropped) \/ (bridged > 0 /\ Becomes(r, new))
  <2>1. (exact \in 1..Whole - 1 \/ bridged <= 0) \/ ~(bridged <= 0)
    OBVIOUS
  <2>2. input.amount * f.bps \in Nat
    BY <1>3, <1>5, SMT
  <2>3. (exact + Whole \div 2) \div Whole \in Nat
    BY <2>2, SMT DEF Whole
  <2>4. bridged \in Int
    BY <1>3, <2>3, NumbersGiven, SMT
  <2>5. ~(bridged <= 0) => bridged > 0
    BY <2>4, SMT
  <2> QED
    BY <1>4, <2>5, Zenon DEF Goes
<1>7. input.amount * f.bps \in Nat
  BY <1>3, <1>5, SMT
<1>8. (exact + Whole \div 2) \div Whole \in Nat
  BY <1>7, SMT DEF Whole
<1>9. fee \in Nat /\ bridged \in Int
  BY <1>3, <1>8, NumbersGiven, SMT
<1>10. scale \in Nat /\ scale >= 1
  BY <1>3, Decimals, Zenon
<1> HIDE DEF fee, bridged, scale
<1>11. bridged > 0 => bridged * scale \in Nat /\ bridged * scale > 0
  BY <1>9, <1>10, SMT
<1>12. ASSUME bridged > 0 PROVE GoodQuote(new)
  <2>1. bridged * scale \in Nat /\ bridged * scale > 0
    BY <1>11, <1>12
  <2> DEFINE x == bridged * scale
  <2> HIDE DEF x
  <2>2. new \in QuoteRecords /\ new.leg = "prices" /\ new.in = x
    BY <1>2, <1>5, <1>9, <2>1, NumbersGiven DEF QuoteRecords, Legs, x
  <2> QED
    BY <2>1, <2>2, Zenon DEF GoodQuote, x
<1>13. Quoting /\ price' \in {0} \union MarketPrices
  BY <1>2 DEF CircleLeg, PlanTypes
<1> QED
  BY <1>2, <1>6, <1>12, <1>13, QuoteGoesOn, Zenon

(* The price of native gas arrives.                                        *)
LEMMA PriceKeeps ==
  ASSUME PlanInv, NEW r, PriceLeg(r)
  PROVE  PlanInv'
<1> DEFINE q   == quotes[r]
           new == [[q EXCEPT !.at = price'] EXCEPT !.leg = "source", !.tries = 0]
<1>1. At(r, "prices") /\ "prices" \in Legs
  BY DEF PriceLeg, Legs
<1>2. /\ r \in DOMAIN quotes /\ PlanTypes /\ GoodQuote(q) /\ q \in QuoteRecords /\ q.leg = "prices"
  BY <1>1, OnALeg
<1>3. Becomes(r, new) /\ Quoting
  BY DEF PriceLeg, Goes
<1>4. price' \in {0} \union MarketPrices
  BY <1>2 DEF PriceLeg, PlanTypes
<1>5. price' \in Nat
  BY <1>4, NumbersGiven
<1>6. new \in QuoteRecords /\ new.leg = "source" /\ new.in = q.in
  BY <1>2, <1>5, NumbersGiven DEF QuoteRecords, Legs
<1>7. GoodQuote(new)
  BY <1>2, <1>6, Zenon DEF GoodQuote
<1> QED
  BY <1>2, <1>3, <1>4, <1>7, QuoteGoesOn, Zenon

(* The gas of the source chain is estimated.                               *)
LEMMA SourceKeeps ==
  ASSUME PlanInv, NEW r, SourceLeg(r)
  PROVE  PlanInv'
<1> DEFINE q   == quotes[r]
<1>1. At(r, "source") /\ "source" \in Legs
  BY DEF SourceLeg, Legs
<1>2. /\ r \in DOMAIN quotes /\ DOMAIN quotes # {} /\ PlanTypes
      /\ GoodQuote(q) /\ q \in QuoteRecords /\ q.leg = "source"
  BY <1>1, OnALeg
<1>3. PICK cost \in GasCosts(q, IF r = "GATEWAY" THEN 2 ELSE 1) :
        Becomes(r, AfterSource([q EXCEPT !.tries = 0, !.cost = cost]))
  BY DEF SourceLeg
<1>4. cost \in Nat
  BY <1>2, <1>3, Costs
<1> DEFINE p == [q EXCEPT !.tries = 0, !.cost = cost]
<1>5. p \in QuoteRecords /\ p.in = q.in /\ p.in \in Nat
  BY <1>2, <1>4, NumbersGiven DEF QuoteRecords
<1>6. q.in > 0
  BY <1>2, Zenon DEF GoodQuote
<1> HIDE DEF p
<1>7. ASSUME OnRouter(input) PROVE GoodQuote(AfterSource(p))
  <2>1. AfterSource(p) = [p EXCEPT !.leg = "router"]
    BY <1>7 DEF AfterSource
  <2>2. AfterSource(p) \in QuoteRecords /\ AfterSource(p).leg = "router" /\ AfterSource(p).in = q.in
    BY <1>5, <2>1 DEF QuoteRecords, Legs
  <2> QED
    BY <1>6, <1>7, <2>2, Zenon DEF GoodQuote
<1>8. ASSUME ~OnRouter(input) /\ Dest(input).vm # "evm" PROVE GoodQuote(AfterSource(p))
  <2>1. AfterSource(p) = [p EXCEPT !.leg = "adapter"]
    BY <1>8 DEF AfterSource
  <2>2. AfterSource(p) \in QuoteRecords /\ AfterSource(p).leg = "adapter" /\ AfterSource(p).in = q.in
    BY <1>5, <2>1 DEF QuoteRecords, Legs
  <2> QED
    BY <1>6, <1>8, <2>2, Zenon DEF GoodQuote
<1>9. ASSUME ~OnRouter(input) /\ Dest(input).vm = "evm" PROVE GoodQuote(AfterSource(p))
  <2> DEFINE all == [raw |-> p.in, dec |-> Dest(input).dec]
  <2>1. AfterSource(p) = [p EXCEPT !.leg = "eligible", !.out = all, !.low = all]
    BY <1>9 DEF AfterSource
  <2>2. all \in Amount
    BY <1>2, <1>5, Given DEF Amount
  <2> HIDE DEF all
  <2>3. AfterSource(p) \in QuoteRecords /\ AfterSource(p).leg = "eligible" /\ AfterSource(p).in = q.in
    BY <1>5, <2>1, <2>2 DEF QuoteRecords, Legs
  <2> QED
    BY <1>6, <1>9, <2>3, Zenon DEF GoodQuote
<1>10. GoodQuote(AfterSource(p))
  BY <1>7, <1>8, <1>9
<1>11. Quoting /\ price' \in {0} \union MarketPrices
  BY <1>2 DEF SourceLeg, PlanTypes
<1> QED
  BY <1>2, <1>3, <1>10, <1>11, QuoteGoesOn, Zenon DEF p

(* The router's part is simulated.                                         *)
LEMMA RouterKeeps ==
  ASSUME PlanInv, NEW r, RouterLeg(r)
  PROVE  PlanInv'
<1> DEFINE q    == quotes[r]
           next == IF Swaps(input) THEN "pools" ELSE "output"
           new  == [[q EXCEPT !.in = Less(@, RouterBps)] EXCEPT !.leg = next, !.tries = 0]
<1>1. At(r, "router") /\ "router" \in Legs
  BY DEF RouterLeg, Legs
<1>2. /\ r \in DOMAIN quotes /\ DOMAIN quotes # {} /\ PlanTypes
      /\ GoodQuote(q) /\ q \in QuoteRecords /\ q.leg = "router"
  BY <1>1, OnALeg
<1>3. Becomes(r, new) /\ Quoting /\ price' \in {0} \union MarketPrices
  BY <1>2, Zenon DEF RouterLeg, Goes, PlanTypes
<1>4. q.in \in Nat
  BY <1>2 DEF QuoteRecords
<1>5. q.in > 0 /\ OnRouter(input)
  BY <1>2 DEF GoodQuote
<1> DEFINE left == Less(q.in, RouterBps)
<1>6. left \in Nat /\ left <= q.in /\ left > 0
  BY <1>4, <1>5, LessBounds, NumbersGiven, Zenon
<1> HIDE DEF left
<1>7. next \in {"pools", "output"}
  OBVIOUS
<1> HIDE DEF next
<1>8. new \in QuoteRecords /\ new.leg = next /\ new.in = left
  BY <1>2, <1>6, <1>7, NumbersGiven DEF QuoteRecords, Legs, left
<1>9. GoodQuote(new)
  BY <1>5, <1>6, <1>7, <1>8 DEF GoodQuote
<1> QED
  BY <1>2, <1>3, <1>9, QuoteGoesOn, Zenon

(* A pool is chosen.                                                       *)
LEMMA PoolKeeps ==
  ASSUME PlanInv, NEW r, PoolLeg(r)
  PROVE  PlanInv'
<1> DEFINE q == quotes[r]
<1>1. At(r, "pools") /\ "pools" \in Legs
  BY DEF PoolLeg, Legs
<1>2. /\ r \in DOMAIN quotes /\ PlanTypes /\ GoodQuote(q) /\ q \in QuoteRecords /\ q.leg = "pools"
  BY <1>1, OnALeg
<1>3. PICK t \in BestTiers(input.tier, q.in) : Becomes(r, [[q EXCEPT !.tier = t] EXCEPT !.leg = "output", !.tries = 0])
  BY Zenon DEF PoolLeg, Goes
<1> DEFINE new == [[q EXCEPT !.tier = t] EXCEPT !.leg = "output", !.tries = 0]
<1>4. t \in Tiers
  <2>1. q.in \in Nat /\ pools \in [Tiers -> PoolRates]
    BY <1>2 DEF QuoteRecords, PlanTypes
  <2> QED
    BY <1>3, <2>1, TierFound
<1>5. new \in QuoteRecords /\ new.leg = "output" /\ new.in = q.in
  BY <1>2, <1>4, NumbersGiven DEF QuoteRecords, Legs
<1>6. GoodQuote(new)
  BY <1>2, <1>5 DEF GoodQuote
<1>7. Quoting /\ price' \in {0} \union MarketPrices
  BY <1>2 DEF PoolLeg, PlanTypes
<1> QED
  BY <1>2, <1>3, <1>6, <1>7, QuoteGoesOn, Zenon

(* The output of the pool is simulated.                                    *)
LEMMA OutputKeeps ==
  ASSUME PlanInv, NEW r, OutputLeg(r)
  PROVE  PlanInv'
<1> DEFINE q == quotes[r]
<1>1. At(r, "output") /\ "output" \in Legs
  BY DEF OutputLeg, Legs
<1>2. /\ r \in DOMAIN quotes /\ DOMAIN quotes # {} /\ PlanTypes
      /\ GoodQuote(q) /\ q \in QuoteRecords /\ q.leg = "output"
  BY <1>1, OnALeg
<1>3. PICK out \in IF Swaps(input) \/ Kind(input) = "aave"
                     THEN {Paid(q.in, pools[t]) : t \in BestTiers(IF Swaps(input) THEN q.tier ELSE 3000, q.in)}
                     ELSE {q.in} :
        Goes(r, "execution", [q EXCEPT !.out.raw = out, !.low.raw = Less(out, SlippageBps(input))])
  BY DEF OutputLeg
<1>4. q.in \in Nat /\ q.in > 0 /\ OnRouter(input) /\ pools \in [Tiers -> PoolRates]
  BY <1>2 DEF GoodQuote, QuoteRecords, PlanTypes
<1>5. out \in Nat
  <2>1. CASE out = q.in
    BY <1>4, <2>1
  <2>2. CASE \E first : \E t \in BestTiers(first, q.in) : out = Paid(q.in, pools[t])
    BY <1>4, <2>2, TierFound, PaidNumber
  <2> QED
    BY <1>3, <2>1, <2>2
<1> DEFINE slip == SlippageBps(input)
           low  == Less(out, slip)
           new  == [[q EXCEPT !.out.raw = out, !.low.raw = low] EXCEPT !.leg = "execution", !.tries = 0]
<1>6. Becomes(r, new)
  BY <1>3 DEF Goes
<1>7. slip \in 0..Whole
  BY <1>2, Given
<1> HIDE DEF slip
<1>8. low \in Nat
  BY <1>5, <1>7, LessBounds, Zenon
<1> HIDE DEF low
<1>9. new \in QuoteRecords /\ new.leg = "execution" /\ new.in = q.in
  <2> DEFINE o == [q.out EXCEPT !.raw = out]
             l == [q.low EXCEPT !.raw = low]
  <2>1. o \in Amount /\ l \in Amount
    BY <1>2, <1>5, <1>8 DEF QuoteRecords, Amount
  <2>2. new = [[q EXCEPT !.out = o, !.low = l] EXCEPT !.leg = "execution", !.tries = 0]
    BY Zenon
  <2> HIDE DEF o, l, new
  <2> QED
    BY <1>2, <2>1, <2>2, NumbersGiven DEF QuoteRecords, Legs
<1>10. GoodQuote(new)
  BY <1>4, <1>9, Zenon DEF GoodQuote
<1>11. Quoting /\ price' \in {0} \union MarketPrices
  BY <1>2 DEF OutputLeg, PlanTypes
<1> QED
  BY <1>2, <1>6, <1>10, <1>11, QuoteGoesOn, Zenon

(* The execution with the output is simulated.                             *)
LEMMA ExecutionKeeps ==
  ASSUME PlanInv, NEW r, ExecutionLeg(r)
  PROVE  PlanInv'
<1> DEFINE q == quotes[r]
<1>1. At(r, "execution") /\ "execution" \in Legs
  BY DEF ExecutionLeg, Legs
<1>2. /\ r \in DOMAIN quotes /\ PlanTypes /\ GoodQuote(q) /\ q \in QuoteRecords /\ q.leg = "execution"
  BY <1>1, OnALeg
<1>3. PICK cost \in GasCosts(q, 1) :
        Becomes(r, [[q EXCEPT !.cost = cost, !.simulated = TRUE] EXCEPT !.leg = "eligible", !.tries = 0])
  BY Zenon DEF ExecutionLeg, Goes
<1> DEFINE new == [[q EXCEPT !.cost = cost, !.simulated = TRUE] EXCEPT !.leg = "eligible", !.tries = 0]
<1>4. cost \in Nat
  BY <1>2, <1>3, Costs
<1>5. new \in QuoteRecords /\ new.leg = "eligible" /\ new.in = q.in /\ new.simulated
  BY <1>2, <1>4, NumbersGiven DEF QuoteRecords, Legs
<1>6. GoodQuote(new)
  BY <1>2, <1>5, Zenon DEF GoodQuote
<1>7. Quoting /\ price' \in {0} \union MarketPrices
  BY <1>2 DEF ExecutionLeg, PlanTypes
<1> QED
  BY <1>2, <1>3, <1>6, <1>7, QuoteGoesOn, Zenon

(* The deposit into a protocol without a router is simulated.              *)
LEMMA AdapterKeeps ==
  ASSUME PlanInv, NEW r, AdapterLeg(r)
  PROVE  PlanInv'
<1> DEFINE q    == quotes[r]
           dec  == OutDec(input)
           slip == SlippageBps(input)
           here == Dest(input).dec
           New(out, low, cost, simulated) ==
             [[q EXCEPT !.out = out, !.low = low, !.cost = @ + cost, !.simulated = simulated]
                EXCEPT !.leg = "eligible", !.tries = 0]
<1>1. At(r, "adapter") /\ "adapter" \in Legs
  BY DEF AdapterLeg, Legs
<1>2. /\ r \in DOMAIN quotes /\ DOMAIN quotes # {} /\ PlanTypes
      /\ GoodQuote(q) /\ q \in QuoteRecords /\ q.leg = "adapter"
  BY <1>1, OnALeg
<1>3. dec \in Int /\ here \in Int /\ slip \in 0..Whole
  BY <1>2, Given, Zenon
<1>4. q.in \in Nat /\ q.in > 0 /\ q.at \in Nat /\ q.cost \in Nat /\ ~OnRouter(input)
  BY <1>2 DEF GoodQuote, QuoteRecords
<1>5. ASSUME NEW out \in Amount, NEW low \in Amount, NEW cost \in Nat, NEW on \in BOOLEAN
      PROVE  GoodQuote(New(out, low, cost, on))
  <2> DEFINE new == New(out, low, cost, on)
  <2>1. new \in QuoteRecords /\ new.leg = "eligible" /\ new.in = q.in
    <3> DEFINE sum == q.cost + cost
    <3>1. sum \in Nat
      BY <1>4, SMT
    <3> HIDE DEF sum
    <3>2. new = [[q EXCEPT !.out = out, !.low = low, !.cost = sum, !.simulated = on]
                   EXCEPT !.leg = "eligible", !.tries = 0]
      BY Zenon DEF sum
    <3> HIDE DEF New, new
    <3> QED
      BY <1>2, <3>1, <3>2, NumbersGiven DEF QuoteRecords, Legs
  <2> QED
    BY <1>4, <2>1, Zenon DEF GoodQuote
<1>6. ASSUME NEW a \in Nat, NEW d \in Int PROVE [raw |-> a, dec |-> d] \in Amount
  BY DEF Amount
<1>7. PICK out \in Amount, low \in Amount, cost \in Nat, on \in BOOLEAN : Becomes(r, New(out, low, cost, on))
  <2>1. CASE BridgeOnly(input)
    <3>1. Becomes(r, New([raw |-> q.in, dec |-> here], [raw |-> q.in, dec |-> here], 0, FALSE))
      BY <2>1 DEF AdapterLeg, Goes
    <3> QED
      BY <1>3, <1>4, <1>6, <3>1
  <2>2. CASE Becomes(r, New([raw |-> q.in, dec |-> here], [raw |-> Less(q.in, slip), dec |-> dec],
                            FallbackGas, FALSE))
    <3>1. Less(q.in, slip) \in Nat
      BY <1>3, <1>4, LessBounds
    <3> QED
      BY <1>3, <1>4, <1>6, <2>2, <3>1, NumbersGiven
  <2>3. CASE \E out \in {Paid(q.in, rate) : rate \in Rates} \union {q.in} :
               Becomes(r, New([raw |-> out, dec |-> dec], [raw |-> Less(out, slip), dec |-> dec], q.at, TRUE))
    <3>1. PICK out \in {Paid(q.in, rate) : rate \in Rates} \union {q.in} :
            Becomes(r, New([raw |-> out, dec |-> dec], [raw |-> Less(out, slip), dec |-> dec], q.at, TRUE))
      BY <2>3
    <3>2. out \in Nat
      BY <1>4, <3>1, NumbersGiven, PaidNumber
    <3>3. Less(out, slip) \in Nat
      BY <1>3, <3>2, LessBounds
    <3> QED
      BY <1>3, <1>4, <1>6, <3>1, <3>2, <3>3
  <2> QED
    BY <2>1, <2>2, <2>3, Zenon DEF AdapterLeg, Goes
<1>8. Quoting /\ price' \in {0} \union MarketPrices
  BY <1>2 DEF AdapterLeg, PlanTypes
<1> HIDE DEF New
<1> QED
  BY <1>2, <1>5, <1>7, <1>8, QuoteGoesOn, Zenon

(* A leg that fails drops the route; one that is rate limited is tried     *)
(* again, RPC_MAX_ATTEMPTS times in all.                                   *)
LEMMA FailureKeeps ==
  ASSUME PlanInv, NEW r, Throw(r) \/ RateLimited(r)
  PROVE  PlanInv'
<1> DEFINE q == quotes[r]
<1>1. PICK leg \in RpcLegs : At(r, leg)
  BY DEF Throw, RateLimited
<1>2. leg \in Legs
  BY DEF RpcLegs, Legs
<1>3. r \in DOMAIN quotes /\ PlanTypes /\ GoodQuote(q) /\ q \in QuoteRecords
  BY <1>1, <1>2, OnALeg
<1>4. Quoting /\ price' \in {0} \union MarketPrices
  BY <1>3 DEF Throw, RateLimited, PlanTypes
<1>5. CASE Throw(r)
  BY <1>3, <1>4, <1>5, QuoteGoesOn DEF Throw
<1>6. CASE RateLimited(r)
  <2> DEFINE new == [q EXCEPT !.tries = @ + 1]
  <2>1. Becomes(r, new) /\ q.tries + 1 < RpcMaxAttempts
    BY <1>6, Zenon DEF RateLimited
  <2>2. q.tries + 1 \in 0..RpcMaxAttempts - 1
    <3>1. q.tries \in 0..RpcMaxAttempts - 1
      BY <1>3 DEF QuoteRecords
    <3>2. RpcMaxAttempts \in Nat
      BY ConstantsAssumption, Zenon
    <3> QED
      BY <2>1, <3>1, <3>2, SMT
  <2>3. new \in QuoteRecords /\ new.leg = q.leg /\ new.in = q.in /\ new.simulated = q.simulated
    BY <1>3, <2>2 DEF QuoteRecords
  <2>4. GoodQuote(new)
    BY <1>3, <2>3, Zenon DEF GoodQuote
  <2> QED
    BY <1>3, <1>4, <2>1, <2>4, QuoteGoesOn, Zenon
<1> QED
  BY <1>5, <1>6

(* Every answer and every failure keeps the invariant.                     *)
LEMMA AnswerKeeps ==
  ASSUME PlanInv, NEW r, Answer(r)
  PROVE  PlanInv'
BY CircleKeeps, PriceKeeps, SourceKeeps, RouterKeeps, PoolKeeps, OutputKeeps,
   ExecutionKeeps, AdapterKeeps, FailureKeeps DEF Answer

(***************************************************************************)
(* The decision.                                                           *)
(***************************************************************************)
LEMMA EligibleIsGood ==
  ASSUME PlanInv, NEW r \in EligibleRoutes
  PROVE  /\ r \in Routes /\ r \in DOMAIN quotes /\ GoodQuote(quotes[r]) /\ quotes[r].leg = "eligible"
         /\ Supported(input) /\ DOMAIN quotes # {} /\ PlanTypes
<1>1. r \in DOMAIN quotes /\ quotes[r].leg = "eligible"
  BY DEF EligibleRoutes
<1>2. quotes[r] # Dropped
  BY <1>1 DEF Dropped
<1> QED
  BY <1>1, <1>2 DEF PlanInv, PlanTypes

(* What an offered route costs in all is a number.                         *)
LEMMA TotalNumber ==
  ASSUME PlanInv, NEW r \in EligibleRoutes
  PROVE  Total(input, quotes[r]) \in Int
<1> DEFINE q == quotes[r]
<1>1. q \in QuoteRecords /\ PlanTypes /\ DOMAIN quotes # {}
  BY EligibleIsGood DEF GoodQuote
<1>2. q.cost \in Nat /\ q.fee \in Nat
  BY <1>1 DEF QuoteRecords
<1>3. input.amount \in Nat /\ SlippageBps(input) \in 0..Whole /\ Protocols[input.protocol].feeBps \in Nat
  BY <1>1, Given, Zenon
<1>4. SlippageBps(input) \in Nat
  <2>1. \A n \in 0..Whole : n \in Nat
    BY SMT DEF Whole
  <2> QED
    BY <1>3, <2>1, Zenon
<1>5. \A a, b \in Nat : (a * b) \div Whole \in Int
  BY SMT DEF Whole
<1>6. ProtocolFee(input) \in Int /\ (input.amount * SlippageBps(input)) \div Whole \in Int
  BY <1>3, <1>4, <1>5, Zenon DEF ProtocolFee
<1> DEFINE slip == (input.amount * SlippageBps(input)) \div Whole
<1>7. Total(input, q) = q.cost + q.fee + ProtocolFee(input) + slip
  BY Zenon DEF Total
<1> HIDE DEF slip
<1> QED
  BY <1>2, <1>6, <1>7, SMT DEF slip

(* A number between two others is a number.                                *)
LEMMA Clamped ==
  ASSUME NEW n \in Int, NEW lo \in Int, NEW hi \in Int
  PROVE  Clamp(n, lo, hi) \in Int
BY DEF Clamp

(* What an offered route scores is a number.                               *)
LEMMA ScoreNumber ==
  ASSUME PlanInv, NEW r \in EligibleRoutes
  PROVE  Score(input, r) \in Int
<1> DEFINE q     == quotes[r]
           total == Total(input, q)
           least == IF input.amount < Usdc THEN Usdc ELSE input.amount
           share == 100 - (total * 1000) \div least
           cost  == Clamp(share, 0, 100)
           small == IF r = "GATEWAY" /\ input.amount <= 100 * Usdc THEN 400 ELSE 0
           asked == IF input.preferred = r THEN 800 ELSE 0
           doubt == IF LowConfidence(input, q) THEN 800 ELSE 0
           sum   == Weight * cost + env.merit[r] + small + asked - doubt
<1>1. PlanTypes /\ DOMAIN quotes # {} /\ r \in Routes /\ total \in Int
  BY EligibleIsGood, TotalNumber
<1>2. input.amount \in Nat
  BY <1>1, Given, Zenon
<1>3. least \in Int /\ least > 0
  <2>1. Usdc \in Nat /\ Usdc > 0
    BY SMT DEF Usdc, Six
  <2> QED
    BY <1>2, <2>1, SMT
<1> HIDE DEF total, least
<1>4. share \in Int
  BY <1>1, <1>3, SMT
<1> HIDE DEF share
<1>5. cost \in Int
  BY <1>4, Clamped, SMT
<1>6. Weight \in Nat
  BY ConstantsAssumption, Zenon
<1>7. env.merit[r] \in Nat
  BY <1>1, SettingsAssumption, Zenon DEF PlanTypes
<1>8. small \in Int /\ asked \in Int /\ doubt \in Int
  BY SMT
<1>9. Score(input, r) = Clamp(sum, 0, 10000)
  BY DEF Score, cost, share, least, total
<1> HIDE DEF cost, small, asked, doubt
<1>10. sum \in Int
  BY <1>5, <1>6, <1>7, <1>8, SMT
<1> HIDE DEF sum
<1> QED
  BY <1>9, <1>10, Clamped, SMT

(* No two routes have the same place in the list.                          *)
LEMMA Places == \A x, y \in Routes : Place[x] \in Int /\ (Place[x] = Place[y] => x = y)
<1>1. Place["GATEWAY"] = 1 /\ Place["CCTP_V2"] = 2 /\ Place["BRIDGEKIT"] = 3 /\ Place["LOCAL"] = 4
  BY DEF Place, Routes
<1> QED
  BY <1>1 DEF Routes

(* The route chosen is one that is offered, and none scores above it.      *)
LEMMA BestIsBest ==
  ASSUME PlanInv, EligibleRoutes # {}
  PROVE  /\ Best(input) \in EligibleRoutes
         /\ \A r \in EligibleRoutes : Score(input, r) <= Score(input, Best(input))
<1> DEFINE S == EligibleRoutes
           f == [r \in S |-> Score(input, r)]
           g == [r \in S |-> Place[r]]
<1>1. S \subseteq {"GATEWAY", "CCTP_V2", "BRIDGEKIT", "LOCAL"}
  BY EligibleIsGood DEF Routes
<1>2. f \in [S -> Int] /\ g \in [S -> Int]
  BY ScoreNumber, Places, EligibleIsGood
<1>3. \A x, y \in S : g[x] = g[y] => x = y
  BY Places, EligibleIsGood
<1> HIDE DEF f, g
<1>4. PICK x \in S : \A y \in S \ {x} : Beats(f, g, x, y)
  BY <1>1, <1>2, <1>3, BestOfFour, Zenon
<1>5. \A y \in S \ {x} : Score(input, y) < Score(input, x)
                           \/ (Score(input, y) = Score(input, x) /\ Place[x] < Place[y])
  BY <1>4 DEF Beats, f, g
<1>6. /\ Best(input) \in S
      /\ \A y \in S \ {Best(input)} :
           Score(input, y) < Score(input, Best(input))
             \/ (Score(input, y) = Score(input, Best(input)) /\ Place[Best(input)] < Place[y])
  BY <1>5, Zenon DEF Best
<1> QED
  BY <1>6, ScoreNumber

(* What is selected is a route that went through, the one required or, if  *)
(* none is, one no other scores above.                                     *)
LEMMA SelectedIsWanted ==
  ASSUME PlanInv, Selected(input) # "MOCK"
  PROVE  /\ Selected(input) \in EligibleRoutes
         /\ Required(input) # "none" => Selected(input) = Required(input)
         /\ Required(input) = "none" =>
              \A r \in EligibleRoutes : Score(input, r) <= Score(input, Selected(input))
BY BestIsBest, Zenon DEF Selected

(* Nothing that decides moves once the quotes are in.                      *)
LEMMA Unmoved ==
  ASSUME UNCHANGED <<env, input, quotes>>
  PROVE  /\ EligibleRoutes' = EligibleRoutes /\ Required(input)' = Required(input)
         /\ Allowed(input)' <=> Allowed(input)
         /\ Builds(input)' <=> Builds(input)
         /\ PolicyWantsApproval(input)' <=> PolicyWantsApproval(input)
         /\ \A r : Total(input, quotes[r])' = Total(input, quotes[r])
         /\ \A r : Score(input, r)' = Score(input, r)
         /\ OnRouter(input)' <=> OnRouter(input)
         /\ Settled' <=> Settled
<1>1. EligibleRoutes' = EligibleRoutes /\ Required(input)' = Required(input)
  BY DEF EligibleRoutes, Required
<1>2. Allowed(input)' <=> Allowed(input)
  BY DEF Allowed, Supported, Chain, Protocols, Dest
<1>3. Builds(input)' <=> Builds(input)
  BY DEF Builds
<1>4. PolicyWantsApproval(input)' <=> PolicyWantsApproval(input)
  BY DEF PolicyWantsApproval
<1>5. \A r : Total(input, quotes[r])' = Total(input, quotes[r])
  BY DEF Total, ProtocolFee, SlippageBps, Protocols
<1>6. \A r : LowConfidence(input, quotes[r])' <=> LowConfidence(input, quotes[r])
  <2> TAKE r
  <2>1. OverGuard(input, quotes[r])' = OverGuard(input, quotes[r])
    BY <1>5 DEF OverGuard
  <2>2. Protocols' = Protocols /\ SlippageBps(input)' = SlippageBps(input)
    BY DEF SlippageBps, Protocols
  <2>3. Total(input, quotes[r])' = Total(input, quotes[r]) /\ input' = input /\ quotes' = quotes
    BY <1>5
  <2> QED
    BY <2>1, <2>2, <2>3, SMT DEF LowConfidence
<1>7. \A r : Score(input, r)' = Score(input, r)
  BY <1>5, <1>6 DEF Score
<1>8. Settled' <=> Settled
  BY DEF Settled
<1>9. OnRouter(input)' <=> OnRouter(input)
  BY DEF OnRouter, Dest, Chain, BridgeOnly, Kind, Protocols
<1> QED
  BY <1>1, <1>2, <1>3, <1>4, <1>5, <1>7, <1>8, <1>9

(* The quotes stand, whatever becomes of the rest.                         *)
LEMMA QuotesStand ==
  ASSUME PlanInv, UNCHANGED <<env, input, quotes>>,
         plan'.route \in Routes \union {"MOCK", "none"}, plan'.approval \in BOOLEAN,
         status' \in {"created", "failed", "unanswered", "answered", "quoted", "needs_approval", "planned"},
         pools' \in [Tiers -> PoolRates], price' \in {0} \union MarketPrices, moves' \in 0..MaxMoves
  PROVE  PlanInv'
<1>1. PlanTypes'
  BY DEF PlanInv, PlanTypes, Supported, Chain, Protocols
<1>2. \A p : GoodQuote(p)' <=> GoodQuote(p)
  BY DEF GoodQuote, OnRouter, Dest, Chain, BridgeOnly, Kind, Protocols
<1> QED
  BY <1>1, <1>2 DEF PlanInv

(* A decision that stands, when nothing it depends on moves.               *)
LEMMA DecisionStands ==
  ASSUME UNCHANGED <<env, input, quotes, plan, status>>, Decided
  PROVE  Decided'
<1>1. RunsAreAuthorised' <=> RunsAreAuthorised
  BY Unmoved DEF RunsAreAuthorised
<1>2. RouteIsTheOneWanted' <=> RouteIsTheOneWanted
  BY Unmoved DEF RouteIsTheOneWanted
<1> QED
  BY <1>1, <1>2, Unmoved DEF Decided, NoPlan

(* The plan that is made keeps what is said of plans.                      *)
LEMMA DecideDecides ==
  ASSUME PlanInv, Decided, Decide
  PROVE  PlanInv' /\ Decided'
<1> DEFINE p == MakePlan(input)
           s == Selected(input)
<1>1. /\ status = "created" /\ UNCHANGED <<env, input, quotes, pools, price, moves>>
      /\ \A r \in DOMAIN quotes : quotes[r].leg \in {"eligible", "ineligible"}
  BY DEF Decide
<1>2. plan = NoPlan /\ Settled'
  BY <1>1 DEF Decided, Settled
<1>3. CASE ~Supported(input) \/ (input.op = "intent" /\ ~Builds(input))
  <2>1. status' \in {"failed", "unanswered"} /\ plan' = NoPlan
    BY <1>2, <1>3 DEF Decide
  <2>2. plan'.route = "none" /\ plan'.approval = FALSE
    BY <2>1 DEF NoPlan
  <2>3. PlanInv'
    BY <1>1, <2>1, <2>2, QuotesStand DEF PlanInv, PlanTypes
  <2>4. RunsAreAuthorised' /\ RouteIsTheOneWanted'
    BY <2>1, <2>2 DEF RunsAreAuthorised, RouteIsTheOneWanted, Routes
  <2> QED
    BY <1>2, <2>1, <2>3, <2>4 DEF Decided
<1>4. CASE Supported(input) /\ ~(input.op = "intent" /\ ~Builds(input))
  <2>1. /\ status' = IF input.op = "quote" THEN "answered"
                     ELSE IF input.quoteOnly THEN "quoted"
                     ELSE IF Blocked(input, p) \/ (p.approval /\ ~input.approved) THEN "needs_approval"
                     ELSE "planned"
        /\ plan' = [p EXCEPT !.approval = @ /\ (input.op = "quote" \/ ~input.approved \/ Blocked(input, p))]
    BY <1>4, Zenon DEF Decide
  <2>2. /\ p.route = IF Allowed(input) THEN s ELSE "MOCK"
        /\ p.approval = (PolicyWantsApproval(input) \/ ~Allowed(input) \/ s = "MOCK" \/ OverGuard(input, quotes[s]))
    BY DEF MakePlan
  <2>3. p = [route |-> p.route, approval |-> p.approval]
    BY DEF MakePlan
  <2> HIDE DEF p
  <2>4. plan'.route = p.route /\ plan'.approval \in BOOLEAN
    BY <2>1, <2>3
  <2>5. s = "MOCK" \/ s \in EligibleRoutes
    BY SelectedIsWanted
  <2>6. s = "MOCK" \/ s \in Routes
    BY <2>5, EligibleIsGood
  <2>7. p.route \in Routes \union {"MOCK"}
    BY <2>2, <2>6
  <2>8. status' \in {"answered", "quoted", "needs_approval", "planned"}
    BY <2>1, Zenon
  <2>9. PlanInv'
    BY <1>1, <2>4, <2>7, <2>8, QuotesStand DEF PlanInv, PlanTypes
  <2>10. ASSUME status' = "planned"
         PROVE  /\ input.op = "intent" /\ ~input.quoteOnly /\ Allowed(input) /\ Builds(input)
                /\ p.route \in EligibleRoutes
                /\ OnRouter(input) => quotes[p.route].simulated
                /\ input.approved \/ (~PolicyWantsApproval(input) /\ Total(input, quotes[p.route]) <= input.maxFee)
    <3>1. input.op # "quote" /\ ~input.quoteOnly /\ ~Blocked(input, p) /\ ~(p.approval /\ ~input.approved)
      BY <2>1, <2>10, Zenon
    <3>2. input.op \in {"intent", "quote"} /\ input.maxFee \in Int
      BY RequestsAssumption, Zenon DEF PlanInv, PlanTypes
    <3>3. Allowed(input) /\ p.route # "MOCK"
      BY <3>1 DEF Blocked
    <3>4. p.route = s /\ s \in EligibleRoutes
      BY <2>2, <2>5, <3>3
    <3>5. ASSUME ~input.approved
          PROVE  ~PolicyWantsApproval(input) /\ Total(input, quotes[p.route]) <= input.maxFee
      <4>1. ~p.approval
        BY <3>1, <3>5
      <4>2. ~PolicyWantsApproval(input) /\ ~OverGuard(input, quotes[s])
        BY <2>2, <4>1, Zenon
      <4>3. Total(input, quotes[s]) \in Int
        BY <3>4, TotalNumber
      <4> QED
        BY <3>2, <3>4, <4>2, <4>3 DEF OverGuard
    <3>6. OnRouter(input) => quotes[p.route].simulated
      BY <3>4, EligibleIsGood, Zenon DEF GoodQuote
    <3> QED
      BY <1>4, <3>1, <3>2, <3>3, <3>4, <3>5, <3>6
  <2>11. ASSUME p.route \in Routes
         PROVE  IF Required(input) # "none" THEN p.route = Required(input)
                ELSE \A r \in EligibleRoutes : Score(input, r) <= Score(input, p.route)
    <3>1. p.route = s /\ s # "MOCK"
      BY <2>2, <2>11 DEF Routes
    <3> QED
      BY <3>1, SelectedIsWanted, Zenon
  <2> HIDE DEF s
  <2>12. RunsAreAuthorised'
    <3>1. plan'.route = p.route /\ quotes' = quotes /\ input' = input
      BY <1>1, <2>4
    <3> QED
      BY <1>1, <2>10, <3>1, Unmoved DEF RunsAreAuthorised
  <2>13. RouteIsTheOneWanted'
    BY <1>1, <2>4, <2>11, Unmoved DEF RouteIsTheOneWanted
  <2> QED
    BY <1>2, <2>8, <2>9, <2>12, <2>13 DEF Decided
<1> QED
  BY <1>3, <1>4

(***************************************************************************)
(* The invariant.                                                          *)
(***************************************************************************)
LEMMA PlanningStarts == PlanningInit => PlanInv /\ Decided
<1> SUFFICES ASSUME PlanningInit PROVE PlanInv /\ Decided
  OBVIOUS
<1>1. /\ env \in Settings /\ input \in Requests /\ plan = NoPlan /\ status = "created" /\ moves = 0
      /\ pools \in [Tiers -> {NoPool} \union (IF UsesPools(input) THEN Rates ELSE {})] /\ price \in {0} \union MarketPrices
  BY DEF PlanningInit
<1>2. pools \in [Tiers -> PoolRates] /\ 0 \in 0..MaxMoves
  <2>1. MaxMoves \in Nat
    BY ConstantsAssumption, Zenon
  <2>2. {NoPool} \union (IF UsesPools(input) THEN Rates ELSE {}) \subseteq PoolRates
    BY DEF PoolRates
  <2> QED
    BY <1>1, <2>1, <2>2
<1>3. Quoted(input) \subseteq Routes
  BY DEF Quoted, Candidates, Routes
<1>4. NewQuote \in QuoteRecords /\ NewQuote.leg = "circle"
  BY NumbersGiven DEF NewQuote, QuoteRecords, Legs, Amount, Six
<1>5. GoodQuote(NewQuote)
  BY <1>4 DEF GoodQuote
<1>6. /\ DOMAIN quotes \subseteq Routes /\ quotes = [r \in DOMAIN quotes |-> quotes[r]]
      /\ DOMAIN quotes # {} => Supported(input)
      /\ \A r \in DOMAIN quotes : quotes[r] = Dropped \/ GoodQuote(quotes[r])
  <2>1. CASE Supported(input)
    <3>1. quotes = [r \in Quoted(input) |-> IF Eligible(input, r) THEN NewQuote ELSE Dropped]
      BY <2>1 DEF PlanningInit
    <3>2. DOMAIN quotes = Quoted(input)
      BY <3>1
    <3>3. \A r \in DOMAIN quotes : quotes[r] = Dropped \/ quotes[r] = NewQuote
      BY <3>1
    <3>4. quotes = [r \in DOMAIN quotes |-> quotes[r]]
      BY <3>1
    <3> QED
      BY <1>3, <1>5, <2>1, <3>2, <3>3, <3>4
  <2>2. CASE ~Supported(input)
    <3>1. quotes = <<>>
      BY <2>2 DEF PlanningInit
    <3>2. DOMAIN quotes = {} /\ quotes = [r \in DOMAIN quotes |-> quotes[r]]
      BY <3>1
    <3> QED
      BY <3>2
  <2> QED
    BY <2>1, <2>2
<1>7. plan.route = "none" /\ plan.approval = FALSE
  BY <1>1 DEF NoPlan
<1> QED
  BY <1>1, <1>2, <1>6, <1>7 DEF PlanInv, PlanTypes, Decided

(* Every step keeps the invariant.                                         *)
LEMMA PlanningGoesOn == PlanInv /\ Decided /\ [PlanningNext]_planningVars => PlanInv' /\ Decided'
<1> SUFFICES ASSUME PlanInv, Decided, [PlanningNext]_planningVars PROVE PlanInv' /\ Decided'
  OBVIOUS
<1>1. ASSUME NEW r \in Routes, Answer(r) PROVE PlanInv' /\ Decided'
  <2>1. PlanInv'
    BY <1>1, AnswerKeeps
  <2>2. UNCHANGED <<status, plan>>
    BY <1>1 DEF Answer, Throw, RateLimited, CircleLeg, PriceLeg, SourceLeg, RouterLeg, PoolLeg, OutputLeg,
                ExecutionLeg, AdapterLeg, Quoting
  <2>3. PICK leg \in RpcLegs \union {"circle", "prices", "adapter"} : At(r, leg)
    <3>1. CASE Throw(r) \/ RateLimited(r)
      BY <3>1 DEF Throw, RateLimited
    <3>2. CASE CircleLeg(r)
      BY <3>2, Zenon DEF CircleLeg
    <3>3. CASE PriceLeg(r)
      BY <3>3 DEF PriceLeg
    <3>4. CASE SourceLeg(r)
      BY <3>4 DEF SourceLeg, RpcLegs
    <3>5. CASE RouterLeg(r)
      BY <3>5 DEF RouterLeg, RpcLegs
    <3>6. CASE PoolLeg(r)
      BY <3>6 DEF PoolLeg, RpcLegs
    <3>7. CASE OutputLeg(r)
      BY <3>7 DEF OutputLeg, RpcLegs
    <3>8. CASE ExecutionLeg(r)
      BY <3>8 DEF ExecutionLeg, RpcLegs
    <3>9. CASE AdapterLeg(r)
      BY <3>9, Zenon DEF AdapterLeg
    <3> QED
      BY <1>1, <3>1, <3>2, <3>3, <3>4, <3>5, <3>6, <3>7, <3>8, <3>9 DEF Answer
  <2>4. ~Settled
    BY <2>3 DEF At, Settled, RpcLegs
  <2>5. status = "created" /\ plan = NoPlan
    BY <2>4 DEF Decided
  <2> QED
    BY <2>1, <2>2, <2>5 DEF Decided, NoPlan
<1>2. CASE Decide
  BY <1>2, DecideDecides
<1>3. ASSUME UNCHANGED <<env, input, quotes, plan, status>>, moves' \in 0..MaxMoves,
             pools' \in [Tiers -> PoolRates], price' \in {0} \union MarketPrices
      PROVE  PlanInv' /\ Decided'
  <2>1. Decided'
    BY <1>3, DecisionStands
  <2>2. PlanInv'
    BY <1>3, QuotesStand DEF PlanInv, PlanTypes
  <2> QED
    BY <2>1, <2>2
<1>4. CASE PoolMoves \/ PriceAges
  <2>1. moves < MaxMoves /\ moves' = moves + 1 /\ moves \in 0..MaxMoves /\ MaxMoves \in Nat
    BY <1>4, ConstantsAssumption, Zenon DEF PoolMoves, PriceAges, PlanInv, PlanTypes
  <2>2. moves' \in 0..MaxMoves
    BY <2>1
  <2>3. pools' \in [Tiers -> PoolRates]
    BY <1>4 DEF PoolMoves, PriceAges, PlanInv, PlanTypes, PoolRates
  <2>4. price' \in {0} \union MarketPrices
    BY <1>4 DEF PoolMoves, PriceAges, PlanInv, PlanTypes
  <2> QED
    BY <1>3, <1>4, <2>2, <2>3, <2>4 DEF PoolMoves, PriceAges
<1>5. CASE UNCHANGED planningVars
  BY <1>3, <1>5 DEF planningVars, PlanInv, PlanTypes
<1> QED
  BY <1>1, <1>2, <1>4, <1>5 DEF PlanningNext, Process

(* The invariant holds.                                                    *)
LEMMA PlanningHolds == PlanningSpec => [](PlanInv /\ Decided)
BY PlanningStarts, PlanningGoesOn, PTL DEF PlanningSpec

(* A quote has the shape its leg leaves it, a retry is within its bound    *)
(* and amounts are natural numbers, whatever was asked and answered.       *)
THEOREM PlanningTypeCorrect == PlanningSpec => []PlanningTypeOK
<1>1. PlanInv => PlanningTypeOK
  <2> SUFFICES ASSUME PlanInv PROVE PlanningTypeOK
    OBVIOUS
  <2>1. ASSUME NEW r \in DOMAIN quotes, quotes[r] # Dropped
        PROVE  /\ DOMAIN quotes[r] = DOMAIN NewQuote
               /\ quotes[r].tries \in 0..RpcMaxAttempts - 1
               /\ {quotes[r].in, quotes[r].fee, quotes[r].cost, quotes[r].out.raw, quotes[r].low.raw} \subseteq Nat
               /\ quotes[r].leg = "eligible" => quotes[r].in > 0
    <3> DEFINE q == quotes[r]
    <3>1. q \in QuoteRecords /\ (q.leg # "circle" => q.in > 0)
      BY <2>1 DEF PlanInv, GoodQuote
    <3> HIDE DEF q
    <3>2. DOMAIN q = DOMAIN NewQuote
      BY <3>1 DEF QuoteRecords, NewQuote
    <3>3. /\ q.tries \in 0..RpcMaxAttempts - 1 /\ q.in \in Nat /\ q.fee \in Nat /\ q.cost \in Nat
          /\ q.out.raw \in Nat /\ q.low.raw \in Nat
      BY <3>1 DEF QuoteRecords, Amount
    <3> QED
      BY <3>1, <3>2, <3>3 DEF q
  <2> QED
    BY <2>1 DEF PlanInv, PlanTypes, PlanningTypeOK, PoolRates
<1> QED
  BY <1>1, PlanningHolds, PTL

(* No pipeline starts unless the policy allows it, its route has a quote,  *)
(* at a router only with the call simulated, and the user agreed where the *)
(* policy or the fee guard wants it.                                       *)
THEOREM RunsAuthorised == PlanningSpec => []RunsAreAuthorised
<1>1. Decided => RunsAreAuthorised
  BY DEF Decided, RunsAreAuthorised
<1> QED
  BY <1>1, PlanningHolds, PTL

(* The plan's route is the one required, or one that no quoted route       *)
(* scores above, in whatever order the quotes came in.                     *)
THEOREM RouteWanted == PlanningSpec => []RouteIsTheOneWanted
<1>1. Decided => RouteIsTheOneWanted
  BY DEF Decided, RouteIsTheOneWanted, NoPlan, Routes
<1> QED
  BY <1>1, PlanningHolds, PTL
=============================================================================
