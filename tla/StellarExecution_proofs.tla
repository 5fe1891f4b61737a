----------------------- MODULE StellarExecution_proofs ----------------------
(***************************************************************************)
(* Proofs about StellarExecution, for every set of calls, accounts,        *)
(* settings, deployments and amounts.                                      *)
(***************************************************************************)
EXTENDS StellarExecution, FiniteSetTheorems, TLAPS

CallRecords ==
  [at : Steps, req : AllRequests \union {NoRequest}, seq : Nat, answer : Answers]

(* What the proof needs of the types; the sequence number is any natural.  *)
Types ==
  /\ config = [a \in Contracts |-> config[a]]
  /\ receipts \in [Contracts -> [Calls -> {"none", "own", "theirs"}]]
  /\ seq \in Nat
  /\ out \in [Calls -> Outs \union {0}]
  /\ call \in [Calls -> CallRecords]
  /\ \A c \in Calls :
       /\ call[c].at = "answered" <=> call[c].answer # "none"
       /\ call[c].at # "idle" => call[c].req \in AllRequests

(* A transaction that was taken has used its number up, and a call that    *)
(* was taken and did not fail has left a receipt.                          *)
SentOK ==
  \A t \in DOMAIN sent :
    /\ t.seq \in Nat
    /\ sent[t] \in {"success", "failed"} => t.seq <= seq
    /\ ~IsRelay(t) =>
         /\ t.by \in Calls
         /\ sent[t] = "success" => receipts[call[t.by].req.service][t.by] # "none"

(* Where a call is, by what it has sent.                                   *)
CallTxs(c) == {t \in DOMAIN sent : ~IsRelay(t) /\ t.by = c}
Unsent(c) ==
  \/ call[c].at \in {"idle", "simulating", "reading", "sending"}
  \/ call[c].answer \in {"simulated", "planned", "not_configured", "threw"}
Past(c) ==
  \/ call[c].at \in {"relayReading", "relaySending", "relayWaiting"}
  \/ call[c].answer = "succeeded"

CallOK(c) ==
  /\ Unsent(c) => out[c] = 0 /\ CallTxs(c) = {}
  /\ call[c].at = "waiting" => CallTxs(c) \subseteq {CallTx(c)}
  /\ Past(c) => /\ receipts[call[c].req.service][c] # "none"
                /\ \A t \in CallTxs(c) : sent[t] = "success"
  /\ call[c].answer = "succeeded" /\ Relayed(c) => Fate(RelayTx(c)) = "success"

IInv == Types /\ SentOK /\ \A c \in Calls : CallOK(c)

(* The two kinds of transaction are told apart.                            *)
LEMMA Kinds ==
  ASSUME NEW c
  PROVE  /\ ~IsRelay(CallTx(c)) /\ CallTx(c).by = c /\ CallTx(c).seq = call[c].seq
         /\ IsRelay(RelayTx(c)) /\ RelayTx(c).seq = call[c].seq
BY DEF IsRelay, CallTx, RelayTx

LEMMA SentAsIs ==
  ASSUME NEW t, NEW fate, sent' = SentAs(t, fate)
  PROVE  /\ DOMAIN sent' = DOMAIN sent \union {t}
         /\ sent'[t] = fate
         /\ \A u \in DOMAIN sent : u # t => sent'[u] = sent[u]
BY DEF SentAs

LEMMA InitInv == Init => IInv
<1> SUFFICES ASSUME Init PROVE IInv
  OBVIOUS
<1>1. Idle \in CallRecords
  BY DEF Idle, CallRecords, Steps, Answers
<1>2. Types
  <2>1. config = [a \in Contracts |-> config[a]]
    BY DeployedAssumption DEF Init
  <2>2. \A c \in Calls : call[c].at = "idle" /\ call[c].answer = "none"
    BY DEF Init, Idle
  <2> QED
    BY <1>1, <2>1, <2>2 DEF Init, Types
<1>3. SentOK /\ \A c \in Calls : CallOK(c)
  <2>1. DOMAIN sent = {}
    BY DEF Init
  <2>2. \A c \in Calls : call[c].at = "idle" /\ call[c].answer = "none" /\ out[c] = 0
    BY DEF Init, Idle
  <2> QED
    BY <2>1, <2>2 DEF SentOK, CallOK, CallTxs, Unsent, Past
<1> QED
  BY <1>2, <1>3 DEF IInv

(* A step of one call that touches nothing else.                           *)
LEMMA LocalStep ==
  ASSUME IInv, NEW c \in Calls, NEW k \in CallRecords,
         call' = [call EXCEPT ![c] = k], UNCHANGED World,
         k.at = "answered" <=> k.answer # "none", k.at # "idle" => k.req \in AllRequests,
         k.req = call[c].req \/ CallTxs(c) = {},
         CallOK(c)'
  PROVE  IInv'
<1> USE DEF World, ledger
<1>1. call'[c] = k /\ \A d \in Calls \ {c} : call'[d] = call[d]
  BY DEF IInv, Types
<1>2. Types'
  BY <1>1 DEF IInv, Types
<1>3. SentOK'
  <2> SUFFICES ASSUME NEW t \in DOMAIN sent, ~IsRelay(t), sent[t] = "success"
               PROVE  receipts[call'[t.by].req.service][t.by] # "none"
    BY DEF IInv, SentOK
  <2>1. CASE t.by = c
    BY <1>1, <2>1 DEF IInv, SentOK, CallTxs
  <2>2. CASE t.by # c
    BY <1>1, <2>2 DEF IInv, SentOK
  <2> QED
    BY <2>1, <2>2
<1>4. \A d \in Calls \ {c} : CallOK(d)'
  BY <1>1 DEF IInv, CallOK, Unsent, Past, CallTxs, CallTx, RelayTx, Relayed, Fate
<1> QED
  BY <1>2, <1>3, <1>4 DEF IInv

LEMMA AnswerStep ==
  ASSUME IInv, NEW c \in Calls, NEW a \in Answers \ {"none"}, Answer(c, a), call[c].at # "idle",
         a \in {"simulated", "planned", "not_configured", "threw"} => Unsent(c),
         a = "succeeded" => /\ receipts[call[c].req.service][c] # "none"
                            /\ \A t \in CallTxs(c) : sent[t] = "success"
                            /\ Relayed(c) => Fate(RelayTx(c)) = "success"
  PROVE  IInv'
<1> DEFINE k == [call[c] EXCEPT !.at = "answered", !.answer = a]
<1>1. call[c] \in CallRecords /\ call[c].req \in AllRequests
  BY DEF IInv, Types
<1>2. /\ k \in CallRecords /\ k.at = "answered" /\ k.answer = a /\ k.req = call[c].req /\ k.seq = call[c].seq
  BY <1>1 DEF CallRecords, Steps
<1>3. call' = [call EXCEPT ![c] = k] /\ UNCHANGED World
  BY DEF Answer
<1> HIDE DEF k
<1>4. call'[c] = k
  BY <1>3 DEF IInv, Types
<1>5. CallOK(c)'
  BY <1>2, <1>3, <1>4 DEF IInv, CallOK, Unsent, Past, CallTxs, CallTx, RelayTx, Relayed, Fate, World, ledger
<1> QED
  BY <1>1, <1>2, <1>3, <1>5, LocalStep

(* Moving on, perhaps with a sequence number, before anything was sent or  *)
(* after the call's transaction went through.                              *)
LEMMA MoveStep ==
  ASSUME IInv, NEW c \in Calls, NEW step \in Steps, NEW n \in Nat,
         call' = [call EXCEPT ![c].at = step, ![c].seq = n], UNCHANGED World,
         call[c].at \notin {"idle", "answered"},
         \/ Unsent(c) /\ step = "sending"
         \/ /\ receipts[call[c].req.service][c] # "none"
            /\ \A t \in CallTxs(c) : sent[t] = "success"
            /\ step \in {"relayReading", "relaySending"}
  PROVE  IInv'
<1> DEFINE k == [call[c] EXCEPT !.at = step, !.seq = n]
<1>1. call[c] \in CallRecords /\ call[c].req \in AllRequests /\ call[c].answer = "none"
  BY DEF IInv, Types
<1>2. /\ k \in CallRecords /\ k.at = step /\ k.answer = "none" /\ k.req = call[c].req
  BY <1>1 DEF CallRecords
<1>3. call' = [call EXCEPT ![c] = k]
  OBVIOUS
<1> HIDE DEF k
<1>4. call'[c] = k
  BY <1>3 DEF IInv, Types
<1>5. CallOK(c)'
  BY <1>1, <1>2, <1>3, <1>4 DEF IInv, CallOK, Unsent, Past, CallTxs, World, ledger
<1> QED
  BY <1>1, <1>2, <1>3, <1>5, LocalStep

LEMMA EnterStep ==
  ASSUME IInv, NEW c \in Calls, NEW r \in AllRequests,
         NEW step \in Steps, NEW a \in Answers, Enter(c, r, step, a),
         \/ step \in {"simulating", "reading"} /\ a = "none"
         \/ step = "answered" /\ a \in {"planned", "not_configured", "threw"}
  PROVE  IInv'
<1> DEFINE k == [Idle EXCEPT !.at = step, !.req = r, !.answer = a]
<1>1. /\ k \in CallRecords /\ k.at = step /\ k.answer = a /\ k.req = r
  BY DEF Idle, CallRecords
<1>2. call' = [call EXCEPT ![c] = k] /\ UNCHANGED World
  BY DEF Enter
<1> HIDE DEF k
<1>3. call'[c] = k
  BY <1>2 DEF IInv, Types
<1>4. out[c] = 0 /\ CallTxs(c) = {}
  BY DEF IInv, CallOK, Unsent, Enter
<1>5. CallOK(c)'
  BY <1>1, <1>2, <1>3, <1>4 DEF CallOK, Unsent, Past, CallTxs, World, ledger
<1> QED
  BY <1>1, <1>2, <1>4, <1>5, LocalStep

LEMMA BeginStep ==
  ASSUME IInv, NEW c \in Calls, NEW r \in Requests,
         AquariusBegin(c, r) \/ BlendBegin(c, r) \/ Malformed(c, r)
  PROVE  IInv'
<1>1. r \in AllRequests
  BY RequestsAssumption
<1>2. PICK step \in {"simulating", "reading", "answered"}, a \in {"none", "planned", "not_configured", "threw"} :
        /\ Enter(c, r, step, a)
        /\ step = "answered" <=> a # "none"
  BY DEF AquariusBegin, BlendBegin, Malformed
<1>3. step \in Steps /\ a \in Answers
  BY DEF Steps, Answers
<1> QED
  BY <1>1, <1>2, <1>3, EnterStep

LEMMA SimulateStep ==
  ASSUME IInv, NEW c \in Calls, Simulate(c)
  PROVE  IInv'
<1>1. call[c].at = "simulating" /\ Unsent(c)
  BY DEF Simulate, Unsent
<1>2. CASE Answer(c, "simulated")
  BY <1>1, <1>2, AnswerStep DEF Answers
<1>3. CASE Answer(c, "threw")
  BY <1>1, <1>3, AnswerStep DEF Answers
<1> QED
  BY <1>2, <1>3 DEF Simulate

LEMMA ThrowStep ==
  ASSUME IInv, NEW c \in Calls, Throw(c)
  PROVE  IInv'
BY AnswerStep DEF Throw, Answers

LEMMA ReadStep ==
  ASSUME IInv, NEW c \in Calls, ReadAccount(c) \/ ReadForRelay(c)
  PROVE  IInv'
<1>1. seq + 1 \in Nat
  BY DEF IInv, Types
<1>2. CASE ReadAccount(c)
  <2>1. /\ call[c].at = "reading" /\ Unsent(c) /\ UNCHANGED World
        /\ call' = [call EXCEPT ![c].at = "sending", ![c].seq = seq + 1]
    BY <1>2 DEF ReadAccount, ReadsAt, Unsent
  <2>2. "sending" \in Steps
    BY DEF Steps
  <2> QED
    BY <1>1, <2>1, <2>2, MoveStep
<1>3. CASE ReadForRelay(c)
  <2>1. /\ call[c].at = "relayReading" /\ Past(c) /\ UNCHANGED World
        /\ call' = [call EXCEPT ![c].at = "relaySending", ![c].seq = seq + 1]
    BY <1>3 DEF ReadForRelay, ReadsAt, Past
  <2>2. /\ receipts[call[c].req.service][c] # "none"
        /\ \A t \in CallTxs(c) : sent[t] = "success"
    BY <2>1 DEF IInv, CallOK
  <2>3. "relaySending" \in Steps
    BY DEF Steps
  <2> QED
    BY <1>1, <2>1, <2>2, <2>3, MoveStep
<1> QED
  BY <1>2, <1>3

(* The call's transaction went through: it is the only one it sent.        *)
LEMMA FinalStep ==
  ASSUME IInv, NEW c \in Calls, Final(c)
  PROVE  IInv'
<1>1. call[c].at = "waiting" /\ Fate(CallTx(c)) = "success"
  BY DEF Final
<1>2. CallTx(c) \in DOMAIN sent /\ sent[CallTx(c)] = "success"
  BY <1>1 DEF Fate
<1>3. receipts[call[c].req.service][c] # "none"
  BY <1>2, Kinds DEF IInv, SentOK
<1>4. \A t \in CallTxs(c) : sent[t] = "success"
  BY <1>1, <1>2 DEF IInv, CallOK
<1>5. CASE To(c, "relayReading")
  <2>1. call[c].seq \in Nat /\ call[c] \in CallRecords
    BY DEF IInv, Types, CallRecords
  <2>2. call' = [call EXCEPT ![c].at = "relayReading", ![c].seq = call[c].seq]
    <3>1. [call[c] EXCEPT !.at = "relayReading"] =
            [call[c] EXCEPT !.at = "relayReading", !.seq = call[c].seq]
      BY <2>1 DEF CallRecords
    <3> QED
      BY <1>5, <3>1 DEF To
  <2>3. "relayReading" \in Steps /\ UNCHANGED World
    BY <1>5 DEF Steps, To
  <2> QED
    BY <1>1, <1>3, <1>4, <2>1, <2>2, <2>3, MoveStep
<1>6. CASE ~Relayed(c) /\ Answer(c, "succeeded")
  BY <1>1, <1>3, <1>4, <1>6, AnswerStep DEF Answers
<1> QED
  BY <1>5, <1>6 DEF Final

LEMMA RelayFinalStep ==
  ASSUME IInv, NEW c \in Calls, RelayFinal(c)
  PROVE  IInv'
<1>1. Past(c) /\ call[c].at # "idle" /\ Answer(c, "succeeded") /\ Fate(RelayTx(c)) = "success"
  BY DEF RelayFinal, Past
<1>2. /\ receipts[call[c].req.service][c] # "none"
      /\ \A t \in CallTxs(c) : sent[t] = "success"
  BY <1>1 DEF IInv, CallOK
<1> QED
  BY <1>1, <1>2, AnswerStep DEF Answers

(* Sending: a transaction that went through is not sent again, because its *)
(* sequence number is used up.                                             *)
LEMMA SendsStep ==
  ASSUME IInv, NEW c \in Calls, NEW t, NEW next \in {"waiting", "relayWaiting"}, Sends(c, t, next),
         t.seq \in Nat, call[c].at \notin {"idle", "answered"},
         \/ next = "waiting" /\ ~IsRelay(t) /\ t = CallTx(c) /\ t.by = c /\ Unsent(c)
         \/ next = "relayWaiting" /\ IsRelay(t) /\ Past(c)
  PROVE  IInv'
<1> DEFINE k == [call[c] EXCEPT !.at = next]
<1>1. call[c] \in CallRecords /\ call[c].req \in AllRequests /\ call[c].answer = "none"
  BY DEF IInv, Types
<1>2. /\ k \in CallRecords /\ k.at = next /\ k.answer = "none" /\ k.req = call[c].req /\ k.seq = call[c].seq
  BY <1>1 DEF CallRecords, Steps
<1>3. /\ call' = [call EXCEPT ![c] = k] /\ sent' = SentAs(t, "pending")
      /\ UNCHANGED <<env, config, receipts, seq, out, held, outside>>
  BY DEF Sends
<1> HIDE DEF k
<1>4. /\ call' \in [Calls -> CallRecords] /\ call'[c] = k
      /\ \A d \in Calls \ {c} : call'[d] = call[d]
  BY <1>2, <1>3 DEF IInv, Types
<1>5. /\ DOMAIN sent' = DOMAIN sent \union {t} /\ sent'[t] = "pending"
      /\ \A u \in DOMAIN sent : u # t => sent'[u] = sent[u]
  BY <1>3, SentAsIs
<1>6. ~(t \in DOMAIN sent /\ sent[t] = "success")
  <2> SUFFICES ASSUME t \in DOMAIN sent, sent[t] = "success" PROVE FALSE
    OBVIOUS
  <2>1. t.seq <= seq /\ seq \in Nat
    BY DEF IInv, SentOK, Types
  <2>2. t.seq = seq + 1
    BY DEF Sends, Fate
  <2> QED
    BY <2>1, <2>2
<1>7. Types'
  BY <1>1, <1>2, <1>3, <1>4 DEF IInv, Types
<1>8. SentOK'
  <2> SUFFICES ASSUME NEW u \in DOMAIN sent'
               PROVE  /\ u.seq \in Nat
                      /\ sent'[u] \in {"success", "failed"} => u.seq <= seq
                      /\ ~IsRelay(u) =>
                           /\ u.by \in Calls
                           /\ sent'[u] = "success" => receipts[call'[u.by].req.service][u.by] # "none"
    BY <1>3 DEF SentOK, IsRelay
  <2>1. CASE u = t
    BY <1>5, <2>1
  <2>2. CASE u # t
    <3>1. u \in DOMAIN sent /\ sent'[u] = sent[u]
      BY <1>5, <2>2
    <3>2. ~IsRelay(u) => call'[u.by].req = call[u.by].req
      BY <1>2, <1>4, <3>1 DEF IInv, SentOK
    <3> QED
      BY <3>1, <3>2 DEF IInv, SentOK
  <2> QED
    BY <2>1, <2>2
<1>9. ASSUME NEW d \in Calls PROVE CallOK(d)'
  <2>1. CASE d = c /\ next = "waiting"
    <3>1. CallTxs(c) = {} /\ t = CallTx(c)
      BY <2>1 DEF IInv, CallOK
    <3>2. CallTxs(c)' \subseteq {t}
      BY <1>5, <3>1 DEF CallTxs, IsRelay
    <3>3. CallTx(c)' = t
      BY <1>2, <1>4, <3>1 DEF CallTx
    <3>4. ~Unsent(c)' /\ ~Past(c)' /\ call'[c].answer = "none"
      BY <1>2, <1>4, <2>1 DEF Unsent, Past
    <3> QED
      BY <2>1, <3>2, <3>3, <3>4 DEF CallOK
  <2>2. CASE d # c \/ next = "relayWaiting"
    <3>1. CallTxs(d)' = CallTxs(d)
      BY <1>5, <2>2 DEF CallTxs, IsRelay
    <3>2. \A u \in CallTxs(d) : sent[u] = "success" => sent'[u] = "success"
      BY <1>5, <1>6 DEF CallTxs
    <3>3. Fate(RelayTx(d)) = "success" => Fate(RelayTx(d))' = "success" \/ d = c
      <4> SUFFICES ASSUME Fate(RelayTx(d)) = "success", d # c PROVE Fate(RelayTx(d))' = "success"
        OBVIOUS
      <4>1. RelayTx(d)' = RelayTx(d)
        BY <1>3, <1>4 DEF RelayTx
      <4>2. RelayTx(d) \in DOMAIN sent /\ sent[RelayTx(d)] = "success"
        BY DEF Fate
      <4>3. sent'[RelayTx(d)] = "success" /\ RelayTx(d) \in DOMAIN sent'
        BY <1>5, <1>6, <4>2
      <4> QED
        BY <4>1, <4>3 DEF Fate
    <3>4. CASE d # c
      <4>1. /\ call'[d] = call[d] /\ CallTx(d)' = CallTx(d) /\ Relayed(d)' = Relayed(d)
            /\ Unsent(d)' = Unsent(d) /\ Past(d)' = Past(d) /\ CallOK(d)
        BY <1>3, <1>4, <3>4 DEF IInv, CallTx, Relayed, Unsent, Past
      <4> QED
        BY <1>3, <3>1, <3>2, <3>3, <3>4, <4>1 DEF CallOK
    <3>5. CASE d = c /\ next = "relayWaiting"
      <4>1. Past(c) /\ CallOK(c)
        BY <3>5 DEF IInv
      <4>2. ~Unsent(c)' /\ call'[c].at # "waiting" /\ call'[c].answer = "none" /\ call'[c].req = call[c].req
        BY <1>2, <1>4, <3>5 DEF Unsent
      <4> QED
        BY <1>3, <3>1, <3>2, <3>5, <4>1, <4>2 DEF CallOK
    <3> QED
      BY <2>2, <3>4, <3>5
  <2> QED
    BY <2>1, <2>2
<1> QED
  BY <1>7, <1>8, <1>9 DEF IInv

LEMMA SendStep ==
  ASSUME IInv, NEW c \in Calls, Send(c) \/ SendRelay(c)
  PROVE  IInv'
<1>1. call[c].seq \in Nat
  BY DEF IInv, Types, CallRecords
<1>2. CASE Send(c)
  <2>1. call[c].at = "sending" /\ Unsent(c) /\ Sends(c, CallTx(c), "waiting")
    BY <1>2 DEF Send, Unsent
  <2> QED
    BY <1>1, <2>1, Kinds, SendsStep
<1>3. CASE SendRelay(c)
  <2>1. call[c].at = "relaySending" /\ Past(c) /\ Sends(c, RelayTx(c), "relayWaiting")
    BY <1>3 DEF SendRelay, Past
  <2> QED
    BY <1>1, <2>1, Kinds, SendsStep
<1> QED
  BY <1>2, <1>3

(* What happens behind the calls: a pending transaction is settled, and    *)
(* pays only the call that sent it.                                        *)
LEMMA SettleStep ==
  ASSUME IInv, NEW t, NEW fate \in {"success", "failed", "lapsed"}, Fate(t) = "pending",
         sent' = SentAs(t, fate), call' = call, config' = config,
         seq' \in Nat, seq' >= seq, fate # "lapsed" => t.seq <= seq',
         receipts' \in [Contracts -> [Calls -> {"none", "own", "theirs"}]],
         \A c \in Calls, a \in Contracts : receipts[a][c] # "none" => receipts'[a][c] # "none",
         fate = "success" /\ ~IsRelay(t) => receipts'[call[t.by].req.service][t.by] # "none",
         out' \in [Calls -> Outs \union {0}],
         \A c \in Calls : out'[c] = out[c] \/ t \in CallTxs(c)
  PROVE  IInv'
<1>1. t \in DOMAIN sent /\ sent[t] = "pending"
  BY DEF Fate
<1>2. /\ DOMAIN sent' = DOMAIN sent /\ sent'[t] = fate
      /\ \A u \in DOMAIN sent : u # t => sent'[u] = sent[u]
  <2>1. /\ DOMAIN sent' = DOMAIN sent \union {t} /\ sent'[t] = fate
        /\ \A u \in DOMAIN sent : u # t => sent'[u] = sent[u]
    BY SentAsIs
  <2> QED
    BY <1>1, <2>1
<1>3. Types'
  BY DEF IInv, Types
<1>4. \A c \in Calls : CallTxs(c)' = CallTxs(c)
  BY <1>2 DEF CallTxs, IsRelay
<1>5. \A c \in Calls : call[c].req.service \in Contracts \/ call[c].at = "idle"
  BY DEF IInv, Types, AllRequests
<1>6. SentOK'
  <2> SUFFICES ASSUME NEW u \in DOMAIN sent
               PROVE  /\ u.seq \in Nat
                      /\ sent'[u] \in {"success", "failed"} => u.seq <= seq'
                      /\ ~IsRelay(u) =>
                           /\ u.by \in Calls
                           /\ sent'[u] = "success" => receipts'[call[u.by].req.service][u.by] # "none"
    BY <1>2 DEF SentOK, IsRelay
  <2>1. CASE u = t
    BY <1>1, <1>2, <2>1 DEF IInv, SentOK
  <2>2. CASE u # t
    <3>1. u.seq \in Nat /\ sent'[u] = sent[u] /\ seq \in Nat
      BY <1>2, <2>2 DEF IInv, SentOK, Types
    <3>2. ASSUME ~IsRelay(u), sent[u] = "success"
          PROVE  receipts'[call[u.by].req.service][u.by] # "none"
      <4>1. u.by \in Calls /\ u \in CallTxs(u.by)
        BY <3>2 DEF IInv, SentOK, CallTxs
      <4>2. call[u.by].at # "idle"
        BY <4>1 DEF IInv, CallOK, Unsent
      <4> QED
        BY <1>5, <3>2, <4>1, <4>2 DEF IInv, SentOK
    <3> QED
      BY <3>1, <3>2 DEF IInv, SentOK
  <2> QED
    BY <2>1, <2>2
<1>7. ASSUME NEW c \in Calls PROVE CallOK(c)'
  <2>1. /\ CallOK(c) /\ Unsent(c)' = Unsent(c) /\ Past(c)' = Past(c) /\ CallTx(c)' = CallTx(c)
    BY DEF IInv, Unsent, Past, CallTx
  <2>2. Unsent(c) => out'[c] = 0 /\ CallTxs(c)' = {}
    BY <1>4, <2>1 DEF CallOK
  <2>3. ASSUME Past(c)
        PROVE  /\ receipts'[call[c].req.service][c] # "none"
               /\ \A u \in CallTxs(c) : sent'[u] = "success"
               /\ out'[c] = out[c]
    <3>1. /\ receipts[call[c].req.service][c] # "none"
          /\ \A u \in CallTxs(c) : sent[u] = "success"
      BY <2>1, <2>3 DEF CallOK
    <3>2. call[c].at # "idle"
      BY <2>3 DEF IInv, Types, Past
    <3>3. t \notin CallTxs(c)
      BY <1>1, <3>1
    <3> QED
      BY <1>2, <1>5, <3>1, <3>2, <3>3 DEF CallTxs
  <2>4. ASSUME call[c].answer = "succeeded", Relayed(c)' PROVE Fate(RelayTx(c))' = "success"
    <3>1. out'[c] = out[c]
      BY <2>3, <2>4 DEF Past
    <3>2. Relayed(c) /\ RelayTx(c)' = RelayTx(c)
      BY <2>4, <3>1 DEF Relayed, RelayTx
    <3>3. RelayTx(c) \in DOMAIN sent /\ sent[RelayTx(c)] = "success"
      BY <2>1, <2>4, <3>2 DEF CallOK, Fate
    <3> QED
      BY <1>1, <1>2, <3>2, <3>3 DEF Fate
  <2> QED
    BY <1>4, <2>1, <2>2, <2>3, <2>4 DEF CallOK
<1> QED
  BY <1>3, <1>6, <1>7 DEF IInv

LEMMA LedgerStep ==
  ASSUME IInv, NEW t \in DOMAIN sent, Lapse(t) \/ Fail(t) \/ (IsRelay(t) /\ TransferRelay(t))
  PROVE  IInv'
<1>1. /\ seq \in Nat /\ t.seq \in Nat /\ out \in [Calls -> Outs \union {0}]
      /\ receipts \in [Contracts -> [Calls -> {"none", "own", "theirs"}]]
  BY DEF IInv, Types, SentOK
<1>2. CASE Lapse(t)
  <2>1. Fate(t) = "pending" /\ sent' = SentAs(t, "lapsed") /\ UNCHANGED <<config, receipts, seq, out, call>>
    BY <1>2 DEF Lapse
  <2> QED
    BY <1>1, <2>1, SettleStep
<1>3. CASE Fail(t)
  <2>1. /\ Fate(t) = "pending" /\ sent' = SentAs(t, "failed") /\ t.seq = seq + 1 /\ seq' = t.seq
        /\ UNCHANGED <<config, receipts, out, call>>
    BY <1>3 DEF Fail, Take
  <2> QED
    BY <1>1, <2>1, SettleStep
<1>4. CASE IsRelay(t) /\ TransferRelay(t)
  <2>1. /\ Fate(t) = "pending" /\ sent' = SentAs(t, "success") /\ t.seq = seq + 1 /\ seq' = t.seq
        /\ UNCHANGED <<config, receipts, out, call>>
    BY <1>4 DEF TransferRelay, Take
  <2> QED
    BY <1>1, <1>4, <2>1, SettleStep
<1> QED
  BY <1>2, <1>3, <1>4

LEMMA ExecuteStep ==
  ASSUME IInv, NEW c \in Calls, NEW paid \in Outs, Execute(c, paid)
  PROVE  IInv'
<1> DEFINE t == CallTx(c)
           s == call[c].req.service
<1>1. /\ Fate(t) = "pending" /\ sent' = SentAs(t, "success") /\ t.seq = seq + 1 /\ seq' = t.seq
      /\ receipts' = [receipts EXCEPT ![s][c] = "own"] /\ out' = [out EXCEPT ![c] = paid]
      /\ UNCHANGED <<config, call>>
  BY DEF Execute, Take
<1>2. t \in CallTxs(c)
  BY <1>1, Kinds DEF Fate, CallTxs
<1>3. s \in Contracts
  <2>1. call[c].at # "idle"
    BY <1>2 DEF IInv, CallOK, Unsent
  <2> QED
    BY <2>1 DEF IInv, Types, AllRequests
<1>4. /\ seq \in Nat /\ out \in [Calls -> Outs \union {0}]
      /\ receipts \in [Contracts -> [Calls -> {"none", "own", "theirs"}]]
  BY DEF IInv, Types
<1>5. /\ out' \in [Calls -> Outs \union {0}]
      /\ \A d \in Calls : out'[d] = out[d] \/ t \in CallTxs(d)
  BY <1>1, <1>2, <1>4
<1>6. /\ receipts' \in [Contracts -> [Calls -> {"none", "own", "theirs"}]]
      /\ receipts'[s][c] = "own"
      /\ \A d \in Calls, a \in Contracts : receipts[a][d] # "none" => receipts'[a][d] # "none"
  BY <1>1, <1>3, <1>4
<1>7. t.by = c
  BY Kinds
<1> HIDE DEF t, s
<1>8. receipts'[call[t.by].req.service][t.by] # "none"
  BY <1>6, <1>7 DEF s
<1> QED
  BY <1>1, <1>4, <1>5, <1>6, <1>8, SettleStep

(* Whatever the others do leaves the calls and their transactions alone.   *)
LEMMA OthersStep ==
  ASSUME IInv, UNCHANGED <<sent, out, call>>, seq' \in Nat, seq' >= seq,
         config' = [a \in Contracts |-> config'[a]],
         receipts' \in [Contracts -> [Calls -> {"none", "own", "theirs"}]],
         \A c \in Calls, a \in Contracts : receipts[a][c] # "none" => receipts'[a][c] # "none"
  PROVE  IInv'
<1>1. Types'
  BY DEF IInv, Types
<1>2. \A c \in Calls : call[c].req.service \in Contracts \/ call[c].at = "idle"
  BY DEF IInv, Types, AllRequests
<1>3. SentOK'
  <2> SUFFICES ASSUME NEW u \in DOMAIN sent
               PROVE  /\ u.seq \in Nat
                      /\ sent[u] \in {"success", "failed"} => u.seq <= seq'
                      /\ ~IsRelay(u) =>
                           /\ u.by \in Calls
                           /\ sent[u] = "success" => receipts'[call[u.by].req.service][u.by] # "none"
    BY DEF SentOK, IsRelay
  <2>1. u.seq \in Nat /\ seq \in Nat
    BY DEF IInv, SentOK, Types
  <2>2. ASSUME ~IsRelay(u), sent[u] = "success"
        PROVE  receipts'[call[u.by].req.service][u.by] # "none"
    <3>1. u.by \in Calls /\ u \in CallTxs(u.by)
      BY <2>2 DEF IInv, SentOK, CallTxs
    <3>2. call[u.by].at # "idle"
      BY <3>1 DEF IInv, CallOK, Unsent
    <3> QED
      BY <1>2, <2>2, <3>1, <3>2 DEF IInv, SentOK
  <2> QED
    BY <2>1, <2>2 DEF IInv, SentOK
<1>4. ASSUME NEW c \in Calls PROVE CallOK(c)'
  <2>1. /\ CallOK(c) /\ Unsent(c)' = Unsent(c) /\ Past(c)' = Past(c) /\ CallTx(c)' = CallTx(c)
        /\ CallTxs(c)' = CallTxs(c) /\ Relayed(c)' = Relayed(c) /\ Fate(RelayTx(c))' = Fate(RelayTx(c))
    BY DEF IInv, Unsent, Past, CallTx, CallTxs, IsRelay, Relayed, RelayTx, Fate
  <2>2. Past(c) => call[c].at # "idle"
    BY DEF IInv, Types, Past
  <2> QED
    BY <1>2, <2>1, <2>2 DEF CallOK
<1> QED
  BY <1>1, <1>3, <1>4 DEF IInv

(* The configurations are set, or are not touched at all.                  *)
LEMMA AdminShape ==
  ASSUME AquariusAdapter \/ BlendAdapter
  PROVE  /\ UNCHANGED <<env, receipts, ledger, call>>
         /\ \E a \in Contracts :
              /\ \E k : config' = [config EXCEPT ![a] = k]
              /\ config[a] = NoConfig \/ Ready(a)
<1>1. \A a \in Contracts : \A f, v : SetConfig(a, f, v) =>
        /\ UNCHANGED <<env, receipts, ledger, call>>
        /\ \E k : config' = [config EXCEPT ![a] = k]
        /\ Ready(a)
  BY DEF SetConfig
<1>2. \A a \in Contracts : \A s, e, targets, b : Initialize(a, s, e, targets, b) =>
        /\ UNCHANGED <<env, receipts, ledger, call>>
        /\ \E k : config' = [config EXCEPT ![a] = k]
        /\ config[a] = NoConfig
  BY DEF Initialize
<1>3. PICK a \in Contracts :
        \/ \E f, v : SetConfig(a, f, v)
        \/ \E s, e, targets, b : Initialize(a, s, e, targets, b)
  <2>1. CASE AquariusAdapter
    <3>1. "aquarius" \in Contracts
      BY DEF Contracts
    <3>2. \/ \E f, v : SetConfig("aquarius", f, v)
          \/ \E s, e, targets, b : Initialize("aquarius", s, e, targets, b)
      BY <2>1 DEF AquariusAdapter, Administrate, SetExecutor, SetPermissionless, SetPaused, SetRouter, SetPool
    <3> QED
      BY <3>1, <3>2
  <2>2. CASE BlendAdapter
    <3>1. "blend" \in Contracts
      BY DEF Contracts
    <3>2. \/ \E f, v : SetConfig("blend", f, v)
          \/ \E s, e, targets, b : Initialize("blend", s, e, targets, b)
      BY <2>2 DEF BlendAdapter, Administrate, SetExecutor, SetPermissionless, SetPaused, SetTargets
    <3> QED
      BY <3>1, <3>2
  <2> QED
    BY <2>1, <2>2
<1> QED
  BY <1>1, <1>2, <1>3

LEMMA AdminStep ==
  ASSUME IInv, AquariusAdapter \/ BlendAdapter
  PROVE  IInv'
<1>1. PICK a \in Contracts : \E k : config' = [config EXCEPT ![a] = k]
  BY AdminShape
<1>2. config' = [b \in Contracts |-> config'[b]]
  BY <1>1 DEF IInv, Types
<1>3. UNCHANGED <<receipts, seq, sent, out, call>>
  BY AdminShape DEF ledger
<1>4. seq \in Nat /\ receipts \in [Contracts -> [Calls -> {"none", "own", "theirs"}]]
  BY DEF IInv, Types
<1> QED
  BY <1>2, <1>3, <1>4, OthersStep

LEMMA DirectStep ==
  ASSUME IInv, NEW r \in Requests, NEW s \in Accounts, NEW c \in Calls, ExecuteDirectly(r, s, c)
  PROVE  IInv'
<1>1. r.service \in Contracts
  BY RequestsAssumption DEF AllRequests
<1>2. /\ receipts' = [receipts EXCEPT ![r.service][c] = "theirs"]
      /\ UNCHANGED <<config, seq, sent, out, call>>
  BY DEF ExecuteDirectly, ledger
<1>3. /\ seq \in Nat /\ config = [a \in Contracts |-> config[a]]
      /\ receipts \in [Contracts -> [Calls -> {"none", "own", "theirs"}]]
  BY DEF IInv, Types
<1>4. /\ receipts' \in [Contracts -> [Calls -> {"none", "own", "theirs"}]]
      /\ \A d \in Calls, a \in Contracts : receipts[a][d] # "none" => receipts'[a][d] # "none"
  BY <1>1, <1>2, <1>3
<1> QED
  BY <1>2, <1>3, <1>4, OthersStep

LEMMA UseAccountStep ==
  ASSUME IInv, UseAccount \/ UNCHANGED vars
  PROVE  IInv'
<1>1. /\ seq \in Nat /\ config = [a \in Contracts |-> config[a]]
      /\ receipts \in [Contracts -> [Calls -> {"none", "own", "theirs"}]]
  BY DEF IInv, Types
<1>2. UNCHANGED <<config, receipts, sent, out, call>> /\ seq' \in {seq, seq + 1}
  BY DEF UseAccount, vars
<1> QED
  BY <1>1, <1>2, OthersStep

LEMMA NextInv == IInv /\ [Next]_vars => IInv'
<1> SUFFICES ASSUME IInv, [Next]_vars PROVE IInv'
  OBVIOUS
<1>1. CASE AquariusAdapter \/ BlendAdapter
  BY <1>1, AdminStep
<1>2. CASE UseAccount \/ UNCHANGED vars
  BY <1>2, UseAccountStep
<1>3. CASE \E r \in Requests, s \in Accounts, c \in Calls : ExecuteDirectly(r, s, c)
  BY <1>3, DirectStep
<1>4. CASE \E t \in DOMAIN sent : Lapse(t) \/ Fail(t) \/ (IsRelay(t) /\ TransferRelay(t))
  BY <1>4, LedgerStep
<1>5. CASE \E c \in Calls, r \in Requests : AquariusBegin(c, r) \/ BlendBegin(c, r) \/ Malformed(c, r)
  BY <1>5, BeginStep
<1>6. CASE \E c \in Calls, paid \in Outs : Execute(c, paid)
  BY <1>6, ExecuteStep
<1>7. CASE \E c \in Calls : Simulate(c) \/ Submit(c)
  BY <1>7, SimulateStep, ReadStep, SendStep, FinalStep, RelayFinalStep, ThrowStep DEF Submit
<1> QED
  BY <1>1, <1>2, <1>3, <1>4, <1>5, <1>6, <1>7 DEF Next

LEMMA Invariant == Spec => []IInv
BY InitInv, NextInv, PTL DEF Spec

(* What a service answered of a call is so, and stays so: a swap that      *)
(* succeeded for a recipient was relayed in just its amount, and whatever  *)
(* was not submitted moved nothing.                                        *)
THEOREM SuccessIsRelayed == Spec => []SucceededIsRelayed
<1>1. IInv => SucceededIsRelayed
  <2> SUFFICES ASSUME IInv, NEW c \in Calls
               PROVE  /\ call[c].answer = "succeeded" =>
                           /\ receipts[call[c].req.service][c] # "none"
                           /\ Relayed(c) => Fate(RelayTx(c)) = "success"
                      /\ call[c].answer \in {"simulated", "planned", "not_configured", "threw"} =>
                           out[c] = 0 /\ \A t \in DOMAIN sent : ~IsRelay(t) => t.by # c
    BY DEF SucceededIsRelayed
  <2> QED
    BY DEF IInv, CallOK, Unsent, Past, CallTxs
<1> QED
  BY <1>1, Invariant, PTL

(* One step leaves a contract that is paused as it is.                     *)
LEMMA PausedStep ==
  ASSUME IInv, [Next]_vars, NEW a \in Contracts, config[a].paused
  PROVE  config'[a] = config[a] /\ receipts'[a] = receipts[a]
<1>1. ~Ready(a) /\ config[a] # NoConfig
  BY DEF Ready, NoConfig
<1>2. config = [b \in Contracts |-> config[b]] /\ receipts = [b \in Contracts |-> receipts[b]]
  BY DEF IInv, Types
<1>3. CASE AquariusAdapter \/ BlendAdapter
  <2>1. PICK b \in Contracts :
          /\ \E k : config' = [config EXCEPT ![b] = k]
          /\ config[b] = NoConfig \/ Ready(b)
    BY <1>3, AdminShape
  <2>2. receipts' = receipts /\ b # a
    BY <1>1, <1>3, <2>1, AdminShape
  <2> QED
    BY <1>2, <2>1, <2>2
<1>4. CASE \E r \in Requests, s \in Accounts, c \in Calls : ExecuteDirectly(r, s, c)
  <2>1. PICK r \in Requests, s \in Accounts, c \in Calls : ExecuteDirectly(r, s, c)
    BY <1>4
  <2>2. r.service # a /\ config' = config /\ receipts' = [receipts EXCEPT ![r.service][c] = "theirs"]
    BY <1>1, <2>1 DEF ExecuteDirectly, CanRun
  <2> QED
    BY <1>2, <2>2
<1>5. CASE \E c \in Calls, paid \in Outs : Execute(c, paid)
  <2>1. PICK c \in Calls, paid \in Outs : Execute(c, paid)
    BY <1>5
  <2>2. /\ call[c].req.service # a /\ config' = config
        /\ receipts' = [receipts EXCEPT ![call[c].req.service][c] = "own"]
    BY <1>1, <2>1 DEF Execute, CanRun
  <2> QED
    BY <1>2, <2>2
<1>6. CASE UNCHANGED <<config, receipts>>
  BY <1>6
<1>7. \/ UseAccount \/ UNCHANGED vars
      \/ \E t \in DOMAIN sent : Lapse(t) \/ Fail(t) \/ TransferRelay(t)
      \/ \E c \in Calls, r \in Requests : AquariusBegin(c, r) \/ BlendBegin(c, r) \/ Malformed(c, r)
      \/ \E c \in Calls : Simulate(c) \/ Submit(c)
      => UNCHANGED <<config, receipts>>
  BY DEF UseAccount, vars, Lapse, Fail, TransferRelay, AquariusBegin, BlendBegin, Malformed, Enter, Simulate, Submit,
         ReadAccount, ReadForRelay, ReadsAt, Send, SendRelay, Sends, Final, RelayFinal, Throw, To, Answer, World
<1> QED
  BY <1>3, <1>4, <1>5, <1>6, <1>7 DEF Next

(* A contract that was paused stays as it is for good: require_admin       *)
(* refuses the administrator who would resume it.                          *)
THEOREM PausedForGood == Spec => PauseIsFinal
<1>1. IInv /\ [Next]_vars =>
        [\A a \in Contracts :
           config[a].paused => config'[a] = config[a] /\ receipts'[a] = receipts[a]]_vars
  BY PausedStep
<1> QED
  BY <1>1, Invariant, PTL DEF Spec, PauseIsFinal
-----------------------------------------------------------------------------
(***************************************************************************)
(* What the sequence number and the operator's balance are bounded by.     *)
(* Every transaction was sent by a call, at most one of them as a call and *)
(* one as a relay; a relay's sender is over with it, so that neither its   *)
(* output nor its sequence number changes any more.                        *)
(***************************************************************************)
Over(c)      == call[c].at \in {"relayWaiting", "answered"} /\ \A u \in CallTxs(c) : sent[u] = "success"
Sender(c, t) == Over(c) /\ t = RelayTx(c) /\ out[c] \in Outs /\ call[c].seq > 0

Owned(t) ==
  /\ IsRelay(t) => \E c \in Calls : Sender(c, t)
  /\ ~IsRelay(t) => t \in [by : Calls, seq : Nat \ {0}] /\ CallTxs(t.by) = {t}
SentByCalls == \A t \in DOMAIN sent : Owned(t)
Fated       == \A t \in DOMAIN sent : sent[t] \in {"pending", "success", "failed", "lapsed"}

OnItsWay(c) ==
  /\ call[c].at \in {"relayReading", "relaySending", "relayWaiting"} => call[c].req.swap /\ out[c] \in Outs
  /\ call[c].at \in {"sending", "relaySending"} => call[c].seq > 0

Taken == {t \in DOMAIN sent : sent[t] \in {"success", "failed"}}
Counted ==
  /\ IsFiniteSet(DOMAIN sent) /\ Cardinality(DOMAIN sent) <= 2 * Cardinality(Calls)
  /\ outside \in 0..MaxOutside
  /\ seq <= Cardinality(Taken) + outside
  /\ \A t \in DOMAIN sent : t.seq <= MaxSeq
  /\ \A c \in Calls : call[c].seq <= MaxSeq + 1

Flow == IInv /\ SentByCalls /\ Fated /\ \A c \in Calls : OnItsWay(c)

(***************************************************************************)
(* What a step does to the ledger and to the calls.                        *)
(***************************************************************************)
Apart == UNCHANGED <<sent, out, held, call>>
      /\ \/ seq' = seq /\ outside' = outside
         \/ seq' \in {seq, seq + 1} /\ outside < MaxOutside /\ outside' = outside + 1

OnlyMoves(c) == \A d \in Calls \ {c} : call'[d] = call[d]
Enters(c) ==
  /\ call[c].at = "idle" /\ call'[c].at \in {"simulating", "reading", "answered"}
  /\ call'[c].seq = 0
Leaves(c) ==
  /\ call[c].at \notin {"idle", "answered"} /\ call'[c].at = "answered"
  /\ call'[c].req = call[c].req /\ call'[c].seq = call[c].seq
Goes(c) ==
  /\ call'[c].req = call[c].req
  /\ \/ call[c].at = "reading" /\ call'[c].at = "sending" /\ call'[c].seq = seq + 1
     \/ call[c].at = "relayReading" /\ call'[c].at = "relaySending" /\ call'[c].seq = seq + 1
     \/ /\ call[c].at = "waiting" /\ call'[c].at = "relayReading" /\ call'[c].seq = call[c].seq
        /\ Relayed(c)
Moves(c) ==
  /\ UNCHANGED <<seq, sent, out, held, outside>> /\ OnlyMoves(c)
  /\ Enters(c) \/ Leaves(c) \/ Goes(c)

SendsOut(c, t) ==
  /\ Fate(t) = "pending" \/ t.seq = seq + 1
  /\ sent' = SentAs(t, "pending")
  /\ UNCHANGED <<seq, out, held, outside>> /\ OnlyMoves(c)
  /\ call'[c].req = call[c].req /\ call'[c].seq = call[c].seq
  /\ \/ call[c].at = "sending" /\ call'[c].at = "waiting" /\ t = CallTx(c)
     \/ call[c].at = "relaySending" /\ call'[c].at = "relayWaiting" /\ t = RelayTx(c) /\ call[c].req.to = "valid"

Settles(t, fate) ==
  /\ t \in DOMAIN sent /\ sent[t] = "pending" /\ sent' = SentAs(t, fate)
  /\ UNCHANGED <<outside, call>>
  /\ IF fate = "lapsed" THEN seq' = seq ELSE t.seq = seq + 1 /\ seq' = seq + 1
  /\ \/ fate # "success" /\ UNCHANGED <<out, held>>
     \/ fate = "success" /\ IsRelay(t) /\ out' = out /\ held' = [held EXCEPT ![t.token].left = @ - t.amount]
     \/ \E c \in Calls, paid \in Outs :
          /\ fate = "success" /\ t = CallTx(c) /\ out' = [out EXCEPT ![c] = paid]
          /\ held' = Booked(call[c].req, paid)

LEMMA BeginMoves ==
  ASSUME IInv, NEW c \in Calls, NEW r \in Requests,
         AquariusBegin(c, r) \/ BlendBegin(c, r) \/ Malformed(c, r)
  PROVE  Moves(c)
<1>1. PICK step \in {"simulating", "reading", "answered"} : \E a : Enter(c, r, step, a)
  BY DEF AquariusBegin, BlendBegin, Malformed
<1>2. call \in [Calls -> CallRecords]
  BY DEF IInv, Types
<1>3. /\ \E a : call' = [call EXCEPT ![c] = [Idle EXCEPT !.at = step, !.req = r, !.answer = a]]
      /\ call[c].at = "idle" /\ UNCHANGED <<seq, sent, out, held, outside>>
  BY <1>1 DEF Enter, World, ledger
<1>4. OnlyMoves(c) /\ call'[c].at = step /\ call'[c].seq = 0
  BY <1>2, <1>3 DEF OnlyMoves, Idle
<1> QED
  BY <1>3, <1>4 DEF Moves, Enters

LEMMA CallMoves ==
  ASSUME IInv, NEW c \in Calls, Simulate(c) \/ Submit(c)
  PROVE  Moves(c) \/ SendsOut(c, CallTx(c)) \/ SendsOut(c, RelayTx(c))
<1>1. call \in [Calls -> CallRecords] /\ call[c] \in CallRecords
  BY DEF IInv, Types
<1>2. ASSUME NEW a, Answer(c, a), call[c].at \notin {"idle", "answered"} PROVE Moves(c)
  BY <1>1, <1>2 DEF Answer, World, ledger, Moves, OnlyMoves, Leaves, CallRecords
<1>3. ASSUME NEW t, NEW next, Sends(c, t, next)
      PROVE  /\ Fate(t) = "pending" \/ t.seq = seq + 1
             /\ sent' = SentAs(t, "pending")
             /\ UNCHANGED <<seq, out, held, outside>> /\ OnlyMoves(c)
             /\ call'[c].req = call[c].req /\ call'[c].seq = call[c].seq /\ call'[c].at = next
  BY <1>1, <1>3 DEF Sends, OnlyMoves, CallRecords
<1>4. CASE Simulate(c)
  BY <1>2, <1>4 DEF Simulate
<1>5. CASE Throw(c)
  BY <1>2, <1>5 DEF Throw
<1>6. CASE ReadAccount(c) \/ ReadForRelay(c)
  BY <1>1, <1>6 DEF ReadAccount, ReadForRelay, ReadsAt, World, ledger, Moves, OnlyMoves, Goes, CallRecords
<1>7. CASE Final(c)
  <2>1. CASE Relayed(c) /\ To(c, "relayReading")
    BY <1>1, <1>7, <2>1 DEF Final, To, World, ledger, Moves, OnlyMoves, Goes, CallRecords
  <2>2. CASE Answer(c, "succeeded")
    BY <1>2, <1>7, <2>2 DEF Final
  <2> QED
    BY <1>7, <2>1, <2>2 DEF Final
<1>8. CASE RelayFinal(c)
  BY <1>2, <1>8 DEF RelayFinal
<1>9. CASE Send(c)
  BY <1>3, <1>9 DEF Send, SendsOut
<1>10. CASE SendRelay(c)
  BY <1>3, <1>10 DEF SendRelay, SendsOut
<1> QED
  BY <1>4, <1>5, <1>6, <1>7, <1>8, <1>9, <1>10 DEF Submit

LEMMA Shapes ==
  ASSUME IInv, [Next]_vars
  PROVE  \/ Apart
         \/ \E c \in Calls : Moves(c) \/ \E t : SendsOut(c, t)
         \/ \E t, fate : Settles(t, fate) /\ fate \in {"success", "failed", "lapsed"}
<1>1. CASE AquariusAdapter \/ BlendAdapter
  <2>1. UNCHANGED <<sent, out, held, call, seq>>
    BY <1>1, AdminShape DEF ledger
  <2>2. Outside
    <3>1. \A a, f, v : SetConfig(a, f, v) => Outside
      BY DEF SetConfig
    <3>2. \A a, s, e, targets, b : Initialize(a, s, e, targets, b) => Outside
      BY DEF Initialize
    <3> QED
      BY <1>1, <3>1, <3>2 DEF AquariusAdapter, BlendAdapter, Administrate, SetExecutor, SetPermissionless,
                              SetPaused, SetRouter, SetPool, SetTargets
  <2> QED
    BY <2>1, <2>2 DEF Apart, Outside
<1>2. CASE UseAccount \/ UNCHANGED vars
  BY <1>2 DEF UseAccount, vars, Apart, Outside
<1>3. CASE \E r \in Requests, s \in Accounts, c \in Calls : ExecuteDirectly(r, s, c)
  BY <1>3 DEF ExecuteDirectly, Apart, Outside, ledger
<1>4. CASE \E t \in DOMAIN sent : Lapse(t) \/ Fail(t) \/ (IsRelay(t) /\ TransferRelay(t))
  <2>1. PICK t \in DOMAIN sent : Lapse(t) \/ Fail(t) \/ (IsRelay(t) /\ TransferRelay(t))
    BY <1>4
  <2>2. CASE Lapse(t)
    BY <2>1, <2>2 DEF Lapse, Settles, Fate
  <2>3. CASE Fail(t)
    BY <2>1, <2>3 DEF Fail, Take, Settles, Fate
  <2>4. CASE IsRelay(t) /\ TransferRelay(t)
    BY <2>1, <2>4 DEF TransferRelay, Take, Settles, Fate
  <2> QED
    BY <2>1, <2>2, <2>3, <2>4
<1>5. CASE \E c \in Calls, r \in Requests : AquariusBegin(c, r) \/ BlendBegin(c, r) \/ Malformed(c, r)
  BY <1>5, BeginMoves
<1>6. CASE \E c \in Calls, paid \in Outs : Execute(c, paid)
  <2>1. PICK c \in Calls, paid \in Outs : Execute(c, paid)
    BY <1>6
  <2>2. Settles(CallTx(c), "success")
    BY <2>1 DEF Execute, Take, Settles, Fate
  <2> QED
    BY <2>2
<1>7. CASE \E c \in Calls : Simulate(c) \/ Submit(c)
  BY <1>7, CallMoves
<1> QED
  BY <1>1, <1>2, <1>3, <1>4, <1>5, <1>6, <1>7 DEF Next

(* A transaction that went through is not sent again.                      *)
LEMMA SentAnew ==
  ASSUME IInv, NEW c, NEW t, SendsOut(c, t)
  PROVE  /\ DOMAIN sent' = DOMAIN sent \union {t} /\ sent'[t] = "pending"
         /\ \A u \in DOMAIN sent : u # t => sent'[u] = sent[u]
         /\ t \in DOMAIN sent => sent[t] \notin {"success", "failed"}
<1>1. /\ DOMAIN sent' = DOMAIN sent \union {t} /\ sent'[t] = "pending"
      /\ \A u \in DOMAIN sent : u # t => sent'[u] = sent[u]
  BY SentAsIs DEF SendsOut
<1>2. ASSUME t \in DOMAIN sent, sent[t] \in {"success", "failed"} PROVE FALSE
  <2>1. t.seq <= seq /\ seq \in Nat
    BY <1>2 DEF IInv, SentOK, Types
  <2>2. t.seq = seq + 1
    BY <1>2 DEF SendsOut, Fate
  <2> QED
    BY <2>1, <2>2
<1> QED
  BY <1>1, <1>2

LEMMA SentSettled ==
  ASSUME NEW t, NEW fate, Settles(t, fate)
  PROVE  /\ DOMAIN sent' = DOMAIN sent /\ sent'[t] = fate /\ t \in DOMAIN sent /\ sent[t] = "pending"
         /\ \A u \in DOMAIN sent : u # t => sent'[u] = sent[u]
<1>1. DOMAIN sent' = DOMAIN sent \union {t} /\ sent'[t] = fate /\ t \in DOMAIN sent /\ sent[t] = "pending"
      /\ \A u \in DOMAIN sent : u # t => sent'[u] = sent[u]
  BY SentAsIs DEF Settles
<1> QED
  BY <1>1

LEMMA NotTheirs ==
  ASSUME IInv, NEW c, NEW t, SendsOut(c, t), NEW d, IsRelay(t) \/ t.by # d
  PROVE  CallTxs(d)' = CallTxs(d)
<1>1. DOMAIN sent' = DOMAIN sent \union {t}
  BY SentAnew
<1> QED
  BY <1>1 DEF CallTxs, IsRelay

(* The sender of a relay remains it.                                       *)
LEMMA SenderKept ==
  ASSUME NEW c \in Calls, NEW t, Sender(c, t),
         call'[c].at \in {"relayWaiting", "answered"}, call'[c].seq = call[c].seq, call'[c].req = call[c].req,
         out'[c] = out[c], CallTxs(c)' = CallTxs(c), \A u \in CallTxs(c) : sent[u] = "success" => sent'[u] = "success"
  PROVE  Sender(c, t)'
BY DEF Sender, Over, RelayTx

LEMMA SenderStays ==
  ASSUME IInv, [Next]_vars, NEW c \in Calls, NEW t, Sender(c, t)
  PROVE  Sender(c, t)'
<1>1. call[c].at \in {"relayWaiting", "answered"} /\ \A u \in CallTxs(c) : sent[u] = "success"
  BY DEF Sender, Over
<1>2. CASE Apart
  BY <1>1, <1>2, SenderKept DEF Apart, CallTxs, IsRelay
<1>3. ASSUME NEW d \in Calls, Moves(d) PROVE Sender(c, t)'
  <2>1. /\ call'[c].at \in {"relayWaiting", "answered"}
        /\ call'[c].seq = call[c].seq /\ call'[c].req = call[c].req
    BY <1>1, <1>3 DEF Moves, OnlyMoves, Enters, Leaves, Goes
  <2> QED
    BY <1>1, <1>3, <2>1, SenderKept DEF Moves, CallTxs, IsRelay
<1>4. ASSUME NEW d \in Calls, NEW u, SendsOut(d, u) PROVE Sender(c, t)'
  <2>1. d # c /\ call'[c] = call[c] /\ out' = out
    BY <1>1, <1>4 DEF SendsOut, OnlyMoves
  <2>2. IsRelay(u) \/ u.by = d
    BY <1>4, Kinds DEF SendsOut
  <2>3. CallTxs(c)' = CallTxs(c)
    BY <1>4, <2>1, <2>2, NotTheirs
  <2>4. \A v \in CallTxs(c) : sent[v] = "success" => sent'[v] = "success"
    BY <1>4, SentAnew DEF CallTxs
  <2> QED
    BY <1>1, <2>1, <2>3, <2>4, SenderKept
<1>5. ASSUME NEW u, NEW fate, Settles(u, fate) PROVE Sender(c, t)'
  <2>1. call' = call /\ CallTxs(c)' = CallTxs(c)
    BY <1>5, SentSettled DEF Settles, CallTxs, IsRelay
  <2>2. \A v \in CallTxs(c) : sent[v] = "success" => sent'[v] = "success"
    BY <1>5, SentSettled DEF CallTxs
  <2>3. out'[c] = out[c]
    <3>1. CASE UNCHANGED out
      BY <3>1
    <3>2. ASSUME NEW d \in Calls, NEW paid, u = CallTx(d), out' = [out EXCEPT ![d] = paid]
          PROVE  out'[c] = out[c]
      <4>1. u \in CallTxs(d)
        BY <1>5, <3>2, SentSettled, Kinds DEF CallTxs
      <4>2. d # c
        BY <1>1, <1>5, <4>1, SentSettled
      <4> QED
        BY <3>2, <4>2 DEF IInv, Types
    <3> QED
      BY <1>5, <3>1, <3>2 DEF Settles
  <2> QED
    BY <1>1, <2>1, <2>2, <2>3, SenderKept
<1> QED
  BY <1>2, <1>3, <1>4, <1>5, Shapes

LEMMA OwnersStay ==
  ASSUME Flow, [Next]_vars, NEW t \in DOMAIN sent, CallTxs(t.by)' = CallTxs(t.by) \/ IsRelay(t)
  PROVE  Owned(t)'
<1>1. Owned(t) /\ IInv
  BY DEF Flow, SentByCalls
<1>2. CASE IsRelay(t)
  <2>1. PICK c \in Calls : Sender(c, t)
    BY <1>1, <1>2 DEF Owned
  <2>2. Sender(c, t)'
    BY <1>1, <2>1, SenderStays
  <2> QED
    BY <1>2, <2>2 DEF Owned, IsRelay
<1>3. CASE ~IsRelay(t)
  BY <1>1, <1>3 DEF Owned, IsRelay
<1> QED
  BY <1>2, <1>3

LEMMA OwnedStep ==
  ASSUME Flow, [Next]_vars
  PROVE  SentByCalls'
<1>0. IInv
  BY DEF Flow
<1>1. ASSUME DOMAIN sent' = DOMAIN sent PROVE SentByCalls'
  <2>1. \A c : CallTxs(c)' = CallTxs(c)
    BY <1>1 DEF CallTxs, IsRelay
  <2> QED
    BY <1>1, <2>1, OwnersStay DEF SentByCalls
<1>2. ASSUME NEW c \in Calls, NEW t, SendsOut(c, t), IsRelay(t) PROVE SentByCalls'
  <2>1. \A d : CallTxs(d)' = CallTxs(d)
    BY <1>0, <1>2, SentAnew DEF CallTxs, IsRelay
  <2>2. t = RelayTx(c) /\ call[c].at = "relaySending" /\ call'[c].at = "relayWaiting"
        /\ call'[c].seq = call[c].seq /\ call'[c].req = call[c].req /\ out' = out
    BY <1>2, Kinds DEF SendsOut
  <2>3. out[c] \in Outs /\ call[c].seq > 0
    BY <2>2 DEF Flow, OnItsWay
  <2>4. \A u \in CallTxs(c) : sent[u] = "success"
    BY <1>0, <2>2 DEF IInv, CallOK, Past
  <2>5. \A u \in CallTxs(c) : sent'[u] = "success"
    BY <1>0, <1>2, <2>4, SentAnew DEF CallTxs
  <2>6. Sender(c, t)'
    BY <2>1, <2>2, <2>3, <2>5 DEF Sender, Over, RelayTx
  <2>7. Owned(t)'
    BY <1>2, <2>6 DEF Owned, IsRelay
  <2>8. ASSUME NEW u \in DOMAIN sent' PROVE Owned(u)'
    <3>1. CASE u = t
      BY <2>7, <3>1
    <3>2. CASE u # t
      <4>1. u \in DOMAIN sent
        BY <1>0, <1>2, <3>2, SentAnew
      <4> QED
        BY <2>1, <4>1, OwnersStay
    <3> QED
      BY <3>1, <3>2
  <2> QED
    BY <2>8 DEF SentByCalls
<1>3. ASSUME NEW c \in Calls, NEW t, SendsOut(c, t), ~IsRelay(t) PROVE SentByCalls'
  <2>1. t = CallTx(c) /\ call[c].at = "sending"
    BY <1>3, Kinds DEF SendsOut
  <2>2. CallTxs(c) = {}
    BY <1>0, <2>1 DEF IInv, CallOK, Unsent
  <2>3. call[c].seq \in Nat \ {0}
    BY <1>0, <2>1 DEF IInv, Types, CallRecords, Flow, OnItsWay
  <2>4. t \in [by : Calls, seq : Nat \ {0}] /\ t.by = c
    BY <2>1, <2>3 DEF CallTx
  <2>5. CallTxs(c)' = {t}
    BY <1>0, <1>3, <2>2, <2>4, SentAnew DEF CallTxs, IsRelay
  <2>6. Owned(t)'
    BY <1>3, <2>4, <2>5 DEF Owned, IsRelay
  <2>7. ASSUME NEW u \in DOMAIN sent' PROVE Owned(u)'
    <3>1. CASE u = t
      BY <2>6, <3>1
    <3>2. CASE u # t
      <4>1. u \in DOMAIN sent
        BY <1>0, <1>3, <3>2, SentAnew
      <4>2. IsRelay(u) \/ u.by # c
        BY <2>2, <4>1 DEF CallTxs
      <4>3. IsRelay(u) \/ CallTxs(u.by)' = CallTxs(u.by)
        BY <1>0, <1>3, <2>4, <4>2, NotTheirs
      <4> QED
        BY <4>1, <4>3, OwnersStay
    <3> QED
      BY <3>1, <3>2
  <2> QED
    BY <2>7 DEF SentByCalls
<1>4. Apart \/ (\E c \in Calls : Moves(c)) \/ (\E t, fate : Settles(t, fate)) => DOMAIN sent' = DOMAIN sent
  BY SentSettled DEF Apart, Moves
<1> QED
  BY <1>0, <1>1, <1>2, <1>3, <1>4, Shapes

LEMMA OnItsWayStep ==
  ASSUME Flow, [Next]_vars, NEW c \in Calls
  PROVE  OnItsWay(c)'
<1>0. IInv /\ OnItsWay(c) /\ seq \in Nat /\ out[c] \in Outs \union {0} /\ call[c].seq \in Nat
  BY DEF Flow, IInv, Types, CallRecords
<1>1. CASE Apart
  BY <1>0, <1>1 DEF Apart, OnItsWay
<1>2. ASSUME NEW d \in Calls, Moves(d) PROVE OnItsWay(c)'
  <2>1. out' = out
    BY <1>2 DEF Moves
  <2>2. CASE call'[c] = call[c]
    BY <1>0, <2>1, <2>2 DEF OnItsWay
  <2>3. CASE d = c
    BY <1>0, <1>2, <2>1, <2>3 DEF Moves, Enters, Leaves, Goes, OnItsWay, Relayed
  <2> QED
    BY <1>2, <2>2, <2>3 DEF Moves, OnlyMoves
<1>3. ASSUME NEW d \in Calls, NEW t, SendsOut(d, t) PROVE OnItsWay(c)'
  <2>1. CASE d = c
    BY <1>0, <1>3, <2>1 DEF SendsOut, OnItsWay
  <2>2. CASE d # c
    BY <1>0, <1>3, <2>2 DEF SendsOut, OnlyMoves, OnItsWay
  <2> QED
    BY <2>1, <2>2
<1>4. ASSUME NEW t, NEW fate, Settles(t, fate) PROVE OnItsWay(c)'
  <2>1. call' = call /\ (out' = out \/ \E d \in Calls, paid \in Outs : out' = [out EXCEPT ![d] = paid])
    BY <1>4 DEF Settles
  <2>2. out[c] \in Outs => out'[c] \in Outs
    BY <1>0, <2>1 DEF IInv, Types
  <2> QED
    BY <1>0, <2>1, <2>2 DEF OnItsWay
<1> QED
  BY <1>0, <1>1, <1>2, <1>3, <1>4, Shapes

LEMMA FatedStep ==
  ASSUME Flow, [Next]_vars
  PROVE  Fated'
<1>1. IInv /\ Fated
  BY DEF Flow
<1>2. Apart \/ (\E c \in Calls : Moves(c)) => sent' = sent
  BY DEF Apart, Moves
<1>3. ASSUME NEW c \in Calls, NEW t, SendsOut(c, t) PROVE Fated'
  BY <1>1, <1>3, SentAnew DEF Fated
<1>4. ASSUME NEW t, NEW fate \in {"success", "failed", "lapsed"}, Settles(t, fate) PROVE Fated'
  BY <1>1, <1>4, SentSettled DEF Fated
<1> QED
  BY <1>1, <1>2, <1>3, <1>4, Shapes DEF Fated

LEMMA FlowInv == Spec => []Flow
<1>1. Init => IInv /\ SentByCalls /\ Fated /\ \A c \in Calls : OnItsWay(c)
  BY InitInv DEF Init, Idle, SentByCalls, Fated, OnItsWay
<1>2. Init => Flow
  BY <1>1 DEF Flow
<1>3. Flow /\ [Next]_vars => Flow'
  <2> SUFFICES ASSUME Flow, [Next]_vars PROVE Flow'
    OBVIOUS
  <2>1. IInv' /\ SentByCalls' /\ Fated' /\ \A c \in Calls : OnItsWay(c)'
    BY NextInv, OwnedStep, FatedStep, OnItsWayStep DEF Flow
  <2> QED
    BY <2>1 DEF Flow
<1> QED
  BY <1>2, <1>3, PTL DEF Spec

(* Two transactions a call: those that were sent number at most that many. *)
LEMMA TwoEach ==
  ASSUME NEW A, NEW B, NEW f \in Injection(A, Calls), NEW g \in Injection(B, Calls)
  PROVE  IsFiniteSet(A \union B) /\ Cardinality(A \union B) <= 2 * Cardinality(Calls)
<1>1. /\ IsFiniteSet(A) /\ Cardinality(A) <= Cardinality(Calls)
      /\ IsFiniteSet(B) /\ Cardinality(B) <= Cardinality(Calls)
  BY CallsAssumption, FS_Injection
<1>2. IsFiniteSet(A \intersect B)
  BY <1>1, FS_Subset
<1>3. /\ Cardinality(A) \in Nat /\ Cardinality(B) \in Nat /\ Cardinality(A \intersect B) \in Nat
      /\ Cardinality(Calls) \in Nat
  BY <1>1, <1>2, CallsAssumption, FS_CardinalityType
<1> QED
  BY <1>1, <1>3, FS_Union

LEMMA FewSent ==
  ASSUME SentByCalls'
  PROVE  IsFiniteSet(DOMAIN sent') /\ Cardinality(DOMAIN sent') <= 2 * Cardinality(Calls)
<1> DEFINE A == {t \in DOMAIN sent' : ~IsRelay(t)}
           B == {t \in DOMAIN sent' : IsRelay(t)}
           f == [t \in A |-> t.by]
           g == [t \in B |-> CHOOSE c \in Calls :
                         t = [amount |-> out'[c], token |-> call'[c].req.token, seq |-> call'[c].seq]]
<1>1. f \in Injection(A, Calls)
  <2>1. ASSUME NEW t \in A PROVE t.by \in Calls /\ CallTxs(t.by)' = {t}
    BY DEF SentByCalls, Owned, IsRelay
  <2> QED
    BY <2>1 DEF Injection, IsInjective
<1>2. g \in Injection(B, Calls)
  <2>1. ASSUME NEW t \in B PROVE /\ g[t] \in Calls
                               /\ t = [amount |-> out'[g[t]], token |-> call'[g[t]].req.token, seq |-> call'[g[t]].seq]
    <3>1. \E c \in Calls : t = [amount |-> out'[c], token |-> call'[c].req.token, seq |-> call'[c].seq]
      BY DEF SentByCalls, Owned, IsRelay, Sender, RelayTx
    <3> QED
      BY <3>1
  <2>3. g \in [B -> Calls]
    BY <2>1
  <2> HIDE DEF g
  <2>4. ASSUME NEW t \in B, NEW u \in B, g[t] = g[u] PROVE t = u
    BY <2>1, <2>4
  <2> QED
    BY <2>3, <2>4 DEF Injection, IsInjective
<1>3. DOMAIN sent' = A \union B
  OBVIOUS
<1> HIDE DEF A, B, f, g
<1> QED
  BY <1>1, <1>2, <1>3, TwoEach

LEMMA CountedBound ==
  ASSUME IInv, Counted
  PROVE  /\ seq \in Nat /\ Cardinality(Taken) \in Nat /\ Cardinality(DOMAIN sent) \in Nat
         /\ Cardinality(Taken) <= Cardinality(DOMAIN sent) /\ Cardinality(Calls) \in Nat
         /\ IsFiniteSet(Taken) /\ outside \in Nat /\ MaxOutside \in Nat /\ seq <= MaxSeq /\ MaxSeq \in Nat
<1>1. IsFiniteSet(Taken) /\ Cardinality(Taken) <= Cardinality(DOMAIN sent)
  BY FS_Subset DEF Counted, Taken
<1>2. Cardinality(Taken) \in Nat /\ Cardinality(DOMAIN sent) \in Nat /\ Cardinality(Calls) \in Nat
  BY <1>1, CallsAssumption, FS_CardinalityType DEF Counted
<1>3. seq \in Nat /\ outside \in 0..MaxOutside /\ MaxOutside \in Nat
  BY AmountsAssumption DEF IInv, Types, Counted
<1> QED
  BY <1>1, <1>2, <1>3 DEF Counted, MaxSeq

LEMMA CountedStep ==
  ASSUME Flow, Counted, SentByCalls', [Next]_vars
  PROVE  Counted'
<1>0. /\ IInv /\ seq \in Nat /\ Cardinality(Taken) \in Nat /\ Cardinality(DOMAIN sent) \in Nat
      /\ Cardinality(Taken) <= Cardinality(DOMAIN sent) /\ Cardinality(Calls) \in Nat
      /\ IsFiniteSet(Taken) /\ outside \in Nat /\ MaxOutside \in Nat /\ seq <= MaxSeq /\ MaxSeq \in Nat
  BY CountedBound DEF Flow
<1>1. IsFiniteSet(DOMAIN sent') /\ Cardinality(DOMAIN sent') <= 2 * Cardinality(Calls)
  BY FewSent
<1>2. CASE Apart
  <2>1. Taken' = Taken
    BY <1>2 DEF Apart, Taken
  <2>2. outside' \in 0..MaxOutside /\ seq' <= Cardinality(Taken) + outside'
    BY <1>0, <1>2 DEF Apart, Counted
  <2> QED
    BY <1>1, <1>2, <2>1, <2>2 DEF Apart, Counted, MaxSeq
<1>3. ASSUME NEW c \in Calls, Moves(c) PROVE Counted'
  <2>1. Taken' = Taken /\ UNCHANGED <<seq, sent, outside>>
    BY <1>3 DEF Moves, Taken
  <2>2. ASSUME NEW d \in Calls PROVE call'[d].seq <= MaxSeq + 1
    <3>1. call[d].seq <= MaxSeq + 1
      BY DEF Counted
    <3> QED
      BY <1>0, <1>3, <3>1 DEF Moves, OnlyMoves, Enters, Leaves, Goes
  <2> QED
    BY <1>1, <2>1, <2>2 DEF Counted, MaxSeq
<1>4. ASSUME NEW c \in Calls, NEW t, SendsOut(c, t) PROVE Counted'
  <2>1. /\ DOMAIN sent' = DOMAIN sent \union {t} /\ sent'[t] = "pending"
        /\ \A u \in DOMAIN sent : u # t => sent'[u] = sent[u]
        /\ t \in DOMAIN sent => sent[t] \notin {"success", "failed"}
    BY <1>0, <1>4, SentAnew
  <2>2. Taken' = Taken
    BY <2>1 DEF Taken
  <2>3. t.seq <= MaxSeq
    <3>1. CASE t \in DOMAIN sent
      BY <3>1 DEF Counted
    <3>2. CASE t \notin DOMAIN sent
      <4>1. t.seq = seq + 1
        BY <1>4, <3>2 DEF SendsOut, Fate
      <4>2. Cardinality(DOMAIN sent') = Cardinality(DOMAIN sent) + 1
        BY <2>1, <3>2, FS_AddElement DEF Counted
      <4>3. seq <= Cardinality(Taken) + outside /\ outside <= MaxOutside
        BY <1>0 DEF Counted
      <4> QED
        BY <1>0, <1>1, <4>1, <4>2, <4>3 DEF MaxSeq
    <3> QED
      BY <3>1, <3>2
  <2>4. \A u \in DOMAIN sent' : u.seq <= MaxSeq
    BY <2>1, <2>3 DEF Counted
  <2>5. \A d \in Calls : call'[d].seq <= MaxSeq + 1
    BY <1>4 DEF SendsOut, OnlyMoves, Counted
  <2> QED
    BY <1>1, <1>4, <2>2, <2>4, <2>5 DEF SendsOut, Counted, MaxSeq
<1>5. ASSUME NEW t, NEW fate \in {"success", "failed", "lapsed"}, Settles(t, fate) PROVE Counted'
  <2>1. /\ DOMAIN sent' = DOMAIN sent /\ sent'[t] = fate /\ t \in DOMAIN sent /\ sent[t] = "pending"
        /\ \A u \in DOMAIN sent : u # t => sent'[u] = sent[u]
    BY <1>5, SentSettled
  <2>2. seq' <= Cardinality(Taken') + outside
    <3>1. CASE fate = "lapsed"
      <4>1. Taken' = Taken /\ seq' = seq
        BY <1>5, <2>1, <3>1 DEF Taken, Settles
      <4> QED
        BY <4>1 DEF Counted
    <3>2. CASE fate # "lapsed"
      <4>1. Taken' = Taken \union {t} /\ t \notin Taken /\ seq' = seq + 1
        BY <1>5, <2>1, <3>2 DEF Taken, Settles
      <4>2. Cardinality(Taken') = Cardinality(Taken) + 1
        BY <1>0, <4>1, FS_AddElement
      <4> QED
        BY <1>0, <4>1, <4>2 DEF Counted
    <3> QED
      BY <3>1, <3>2
  <2> QED
    BY <1>1, <1>5, <2>1, <2>2 DEF Settles, Counted, MaxSeq
<1> QED
  BY <1>0, <1>2, <1>3, <1>4, <1>5, Shapes

LEMMA CountedInv == Spec => []Counted
<1>1. Init => Counted
  <2> SUFFICES ASSUME Init PROVE Counted
    OBVIOUS
  <2>1. DOMAIN sent = {} /\ seq = 0 /\ outside = 0 /\ \A c \in Calls : call[c].seq = 0
    BY DEF Init, Idle
  <2>2. Taken = {}
    BY <2>1 DEF Taken
  <2>3. Cardinality(Calls) \in Nat /\ MaxOutside \in Nat
    BY CallsAssumption, AmountsAssumption, FS_CardinalityType
  <2> QED
    BY <2>1, <2>2, <2>3, FS_EmptySet DEF Counted, MaxSeq
<1>2. Flow /\ Flow' /\ Counted /\ [Next]_vars => Counted'
  BY CountedStep DEF Flow
<1> QED
  BY <1>1, <1>2, FlowInv, PTL DEF Spec

(***************************************************************************)
(* What the process and the contracts are set to.                          *)
(***************************************************************************)
Set == env \in Settings /\ config \in [Contracts -> Configs \union {NoConfig}]

LEMMA SetStep ==
  ASSUME Set, [Next]_vars
  PROVE  Set'
<1>1. \A a \in Contracts : config[a] # NoConfig => config[a] \in Configs
  BY DEF Set
<1>2. ASSUME NEW a \in Contracts, NEW k \in Configs, config' = [config EXCEPT ![a] = k], env' = env PROVE Set'
  BY <1>2 DEF Set
<1>3. ASSUME NEW a \in Contracts, NEW b \in BOOLEAN, SetConfig(a, "permissionless", b) \/ SetConfig(a, "paused", b)
      PROVE  Set'
  <2>1. config[a] \in Configs
    BY <1>1, <1>3 DEF SetConfig, Ready
  <2>2. /\ [config[a] EXCEPT !.permissionless = b] \in Configs
        /\ [config[a] EXCEPT !.paused = b] \in Configs
    BY <2>1 DEF Configs
  <2>3. CASE SetConfig(a, "permissionless", b)
    BY <1>2, <2>2, <2>3 DEF SetConfig
  <2>4. CASE SetConfig(a, "paused", b)
    BY <1>2, <2>2, <2>4 DEF SetConfig
  <2> QED
    BY <1>3, <2>3, <2>4
<1>4. ASSUME NEW a \in Contracts, NEW s \in Accounts, SetConfig(a, "executor", s) PROVE Set'
  <2>1. config[a] \in Configs
    BY <1>1, <1>4 DEF SetConfig, Ready
  <2>2. [config[a] EXCEPT !.executor = s] \in Configs
    BY <2>1 DEF Configs
  <2> QED
    BY <1>2, <1>4, <2>2 DEF SetConfig
<1>5. ASSUME NEW a \in Contracts, NEW v, SetConfig(a, "targets", v), config[a] \in Configs => v \subseteq Targets
      PROVE  Set'
  <2>1. config[a] \in Configs
    BY <1>1, <1>5 DEF SetConfig, Ready
  <2>2. [config[a] EXCEPT !.targets = v] \in Configs
    BY <1>5, <2>1 DEF Configs
  <2> QED
    BY <1>2, <1>5, <2>2 DEF SetConfig
<1>6. ASSUME NEW a \in Contracts, Administrate(a) PROVE Set'
  <2>1. ASSUME NEW s \in Accounts, NEW e \in Accounts, NEW b \in BOOLEAN, Initialize(a, s, e, FirstTargets(a), b)
        PROVE  Set'
    <3>1. [admin |-> s, executor |-> e, targets |-> FirstTargets(a), permissionless |-> b, paused |-> FALSE] \in Configs
      BY DEF Configs, FirstTargets, Targets
    <3> QED
      BY <1>2, <2>1, <3>1 DEF Initialize
  <2> QED
    BY <1>3, <1>4, <1>6, <2>1 DEF Administrate, SetExecutor, SetPermissionless, SetPaused
<1>7. "aquarius" \in Contracts /\ "blend" \in Contracts /\ "pool" \in Targets /\ "router" \in Targets
  BY DEF Contracts, Targets
<1>8. ASSUME NEW x \in SUBSET Targets, config["aquarius"] \in Configs
      PROVE  \A y : (config["aquarius"].targets \ y) \union x \subseteq Targets
  BY <1>8 DEF Configs
<1>9. CASE AquariusAdapter \/ BlendAdapter
  <2>1. ASSUME NEW x \in SUBSET Targets, SetRouter(x) PROVE Set'
    BY <1>5, <1>7, <1>8, <2>1 DEF SetRouter
  <2>2. ASSUME NEW x \in SUBSET Targets, SetPool(x) PROVE Set'
    BY <1>5, <1>7, <1>8, <2>2 DEF SetPool
  <2>3. ASSUME NEW x \in SUBSET {"pool"}, SetTargets(x) PROVE Set'
    <3>1. x \subseteq Targets
      BY <1>7
    <3> QED
      BY <1>5, <1>7, <2>3, <3>1 DEF SetTargets
  <2>4. {} \subseteq Targets /\ {"router"} \subseteq Targets /\ {"pool"} \subseteq Targets
    BY <1>7
  <2> QED
    BY <1>6, <1>7, <1>9, <2>1, <2>2, <2>3, <2>4 DEF AquariusAdapter, BlendAdapter
<1>10. CASE ~(AquariusAdapter \/ BlendAdapter)
  <2>1. UNCHANGED <<env, config>>
    <3>1. CASE \E c \in Calls, r \in Requests : AquariusBegin(c, r) \/ BlendBegin(c, r) \/ Malformed(c, r)
      BY <3>1 DEF AquariusBegin, BlendBegin, Malformed, Enter, World
    <3>2. CASE \E c \in Calls, paid \in Outs : Execute(c, paid)
      BY <3>2 DEF Execute
    <3>3. CASE \E c \in Calls : Simulate(c) \/ Submit(c)
      BY <3>3 DEF Simulate, Submit, ReadAccount, ReadForRelay, ReadsAt, Send, SendRelay, Sends,
           Final, RelayFinal, Throw, To, Answer, World
    <3>4. CASE \E t \in DOMAIN sent : Lapse(t) \/ Fail(t) \/ (IsRelay(t) /\ TransferRelay(t))
      BY <3>4 DEF Lapse, Fail, TransferRelay
    <3>5. CASE UseAccount \/ (\E r \in Requests, s \in Accounts, c \in Calls : ExecuteDirectly(r, s, c)) \/ UNCHANGED vars
      BY <3>5 DEF UseAccount, ExecuteDirectly, vars
    <3> QED
      BY <1>10, <3>1, <3>2, <3>3, <3>4, <3>5 DEF Next
  <2> QED
    BY <2>1 DEF Set
<1> QED
  BY <1>9, <1>10

(***************************************************************************)
(* What the operator holds of a token, with what was relayed unbacked, by  *)
(* the call it is owed to.  "owed" is what is left of each call's output;  *)
(* the running totals, in an order of the calls, add it up.  A call that   *)
(* has not sent a relay of the token yet is owed its whole output, and so  *)
(* is one sender of every relay of it that is pending.                     *)
(***************************************************************************)
Last  == Cardinality(Calls)
Order == CHOOSE o \in Bijection(1..Last, Calls) : TRUE
AddsUp(owed, total) ==
  /\ owed \in [Calls -> Nat] /\ total \in [0..Last -> Nat] /\ total[0] = 0
  /\ \A i \in 1..Last : total[i] = total[i - 1] + owed[Order[i]]
  /\ \A i, j \in 0..Last : i <= j => total[i] <= total[j]

Relays(r, k)    == r.swap /\ r.to = "valid" /\ r.token = k
Unrelayed(c, k) == call[c].at \notin {"idle", "relayWaiting", "answered"} /\ Relays(call[c].req, k)
Pending(t, k)   == t \in DOMAIN sent /\ IsRelay(t) /\ t.token = k /\ sent[t] = "pending"
Owes(owed, k) ==
  /\ \A c \in Calls : Unrelayed(c, k) => owed[c] >= out[c]
  /\ \A t : Pending(t, k) => \E c \in Calls : Sender(c, t) /\ owed[c] >= t.amount
Balance(k) == held[k].left + held[k].unbacked
Covered(k) == \E owed, total : AddsUp(owed, total) /\ Balance(k) = total[Last] /\ Owes(owed, k)
Booking    == held \in [Tokens -> [left : Int, unbacked : Nat]]

LEMMA Ordered ==
  /\ Last \in Nat /\ Order \in [1..Last -> Calls]
  /\ \A c \in Calls : \E k \in 1..Last : Order[k] = c
  /\ \A i, j \in 1..Last : Order[i] = Order[j] => i = j
<1>1. Last \in Nat /\ \E o : o \in Bijection(1..Last, Calls)
  BY CallsAssumption, FS_CardinalityType DEF Last, ExistsBijection
<1>2. Order \in Bijection(1..Last, Calls)
  BY <1>1 DEF Order
<1> QED
  BY <1>1, <1>2 DEF Bijection, Injection, Surjection, IsInjective

(* One entry changes, and the totals from its place on change with it.     *)
LEMMA Rebalance ==
  ASSUME NEW owed, NEW total, AddsUp(owed, total), NEW c \in Calls, NEW d \in Int, owed[c] + d >= 0
  PROVE  \E sum : AddsUp([owed EXCEPT ![c] = owed[c] + d], sum) /\ sum[Last] = total[Last] + d
<1> DEFINE owed2 == [owed EXCEPT ![c] = owed[c] + d]
<1>1. PICK k \in 1..Last : Order[k] = c
  BY Ordered
<1> DEFINE sum == [i \in 0..Last |-> IF i < k THEN total[i] ELSE total[i] + d]
<1>2. /\ Last \in Nat /\ k \in Nat /\ k # 0 /\ k <= Last /\ k - 1 \in 0..Last
      /\ \A i \in 0..Last : total[i] \in Nat
      /\ owed[c] \in Nat
  BY Ordered DEF AddsUp
<1>3. owed2 \in [Calls -> Nat] /\ owed2[c] = owed[c] + d /\ \A e \in Calls \ {c} : owed2[e] = owed[e]
  BY <1>2 DEF AddsUp
<1>4. total[k] = total[k - 1] + owed[c]
  BY <1>1 DEF AddsUp
<1>5. ASSUME NEW i \in 0..Last, k <= i PROVE total[i] >= total[k - 1] + owed[c]
  <2>1. total[k] <= total[i]
    BY <1>2, <1>5 DEF AddsUp
  <2> QED
    BY <1>2, <1>4, <2>1
<1>6. sum \in [0..Last -> Nat]
  <2>1. ASSUME NEW i \in 0..Last PROVE (IF i < k THEN total[i] ELSE total[i] + d) \in Nat
    BY <1>2, <1>5
  <2> QED
    BY <2>1
<1>7. \A i \in 0..Last : sum[i] = IF i < k THEN total[i] ELSE total[i] + d
  OBVIOUS
<1>8. sum[0] = 0 /\ sum[Last] = total[Last] + d
  BY <1>2, <1>7 DEF AddsUp
<1> HIDE DEF sum, owed2
<1>9. ASSUME NEW i \in 1..Last PROVE sum[i] = sum[i - 1] + owed2[Order[i]]
  <2>1. total[i] = total[i - 1] + owed[Order[i]]
    BY DEF AddsUp
  <2>2. i - 1 \in 0..Last /\ i \in 0..Last /\ Order[i] \in Calls /\ (Order[i] = c <=> i = k)
    BY <1>1, <1>2, Ordered
  <2>3. total[i - 1] \in Nat /\ total[i] \in Nat /\ owed[Order[i]] \in Nat
    BY <1>2, <2>2 DEF AddsUp
  <2> QED
    BY <1>2, <1>3, <1>7, <2>1, <2>2, <2>3
<1>10. ASSUME NEW i \in 0..Last, NEW j \in 0..Last, i <= j PROVE sum[i] <= sum[j]
  <2>1. total[i] <= total[j]
    BY <1>10 DEF AddsUp
  <2>2. CASE i < k /\ k <= j
    <3>1. total[i] <= total[k - 1]
      BY <1>2, <2>2 DEF AddsUp
    <3> QED
      BY <1>2, <1>5, <1>7, <2>2, <3>1
  <2>3. CASE ~(i < k /\ k <= j)
    BY <1>2, <1>7, <1>10, <2>1, <2>3
  <2> QED
    BY <2>2, <2>3
<1>11. AddsUp(owed2, sum)
  BY <1>3, <1>6, <1>8, <1>9, <1>10 DEF AddsUp
<1> QED
  BY <1>8, <1>11 DEF owed2

LEMMA Sums ==
  ASSUME NEW owed, NEW total, AddsUp(owed, total)
  PROVE  owed \in [Calls -> Nat] /\ total[Last] \in Nat /\ \A c \in Calls : owed[c] \in Nat
<1>1. Last \in 0..Last
  BY Ordered
<1> QED
  BY <1>1 DEF AddsUp

(* A step that leaves what is held alone.                                  *)
LEMMA SameBooks ==
  ASSUME NEW k, Covered(k), Balance(k)' = Balance(k),
         \A owed : owed \in [Calls -> Nat] /\ Owes(owed, k) => Owes(owed, k)'
  PROVE  Covered(k)'
BY DEF Covered, AddsUp

(* What the sender of a relay pays, and in which token.                    *)
LEMMA SenderPays ==
  ASSUME IInv, NEW c \in Calls, NEW t, Sender(c, t)
  PROVE  t.amount = out[c] /\ t.amount \in Nat /\ t.token = call[c].req.token /\ t.token \in Tokens
<1>1. t = RelayTx(c) /\ out[c] \in Outs /\ call[c].at # "idle"
  BY DEF Sender, Over
<1>2. call[c].req.token \in Tokens
  BY <1>1 DEF IInv, Types, AllRequests
<1> QED
  BY <1>1, <1>2, AmountsAssumption DEF RelayTx

(* What a relay and a call that went through change of the books.          *)
LEMMA RelayBooks ==
  ASSUME Booking, NEW t, t.token \in Tokens, t.amount \in Int,
         held' = [held EXCEPT ![t.token].left = @ - t.amount]
  PROVE  /\ Booking'
         /\ \A k \in Tokens : /\ Balance(k) \in Int
                              /\ k # t.token => Balance(k)' = Balance(k)
                              /\ k = t.token => Balance(k)' = Balance(k) - t.amount
<1>1. /\ DOMAIN held = Tokens
      /\ \A k \in Tokens : held[k] \in [left : Int, unbacked : Nat]
  BY DEF Booking
<1>2. held' = [held EXCEPT ![t.token] = [held[t.token] EXCEPT !.left = held[t.token].left - t.amount]]
  OBVIOUS
<1>3. [held[t.token] EXCEPT !.left = held[t.token].left - t.amount] \in [left : Int, unbacked : Nat]
  BY <1>1
<1>4. Booking'
  BY <1>2, <1>3 DEF Booking
<1>5. ASSUME NEW k \in Tokens
      PROVE  /\ held[k].left \in Int /\ held[k].unbacked \in Nat
             /\ held'[k].unbacked = held[k].unbacked
             /\ k # t.token => held'[k].left = held[k].left
             /\ k = t.token => held'[k].left = held[k].left - t.amount
  BY <1>1, <1>2
<1> QED
  BY <1>4, <1>5 DEF Balance

LEMMA ExecuteBooks ==
  ASSUME Booking, NEW r, NEW paid \in Nat, held' = Booked(r, paid)
  PROVE  /\ Booking'
         /\ \A k \in Tokens : /\ Balance(k) \in Int
                              /\ \/ Balance(k)' = Balance(k) /\ ~Relays(r, k)
                                 \/ Balance(k)' = Balance(k) + paid
<1>1. ASSUME NEW k \in Tokens
      PROVE  /\ held[k].left \in Int /\ held[k].unbacked \in Nat
             /\ held'[k].left = held[k].left + (IF Left(r, k) THEN paid ELSE 0)
             /\ held'[k].unbacked = held[k].unbacked + (IF Unbacked(r, k) THEN paid ELSE 0)
  BY DEF Booking, Booked
<1>2. Booking'
  <2>1. \A k \in Tokens : held[k].left \in Int /\ held[k].unbacked \in Nat
    BY <1>1
  <2>2. \A k \in Tokens : /\ held[k].left + (IF Left(r, k) THEN paid ELSE 0) \in Int
                          /\ held[k].unbacked + (IF Unbacked(r, k) THEN paid ELSE 0) \in Nat
    BY <2>1
  <2> QED
    BY <2>2 DEF Booking, Booked
<1>3. ASSUME NEW k \in Tokens
      PROVE  /\ Balance(k) \in Int
             /\ \/ Balance(k)' = Balance(k) /\ ~Relays(r, k)
                \/ Balance(k)' = Balance(k) + paid
  <2>1. /\ Balance(k) = held[k].left + held[k].unbacked
        /\ Balance(k)' = held'[k].left + held'[k].unbacked
    BY DEF Balance
  <2>2. ~(Left(r, k) /\ Unbacked(r, k)) /\ (Relays(r, k) => Left(r, k) \/ Unbacked(r, k))
    BY DEF Unbacked, Relays
  <2> QED
    BY <1>1, <2>1, <2>2
<1> QED
  BY <1>2, <1>3

(* The books stay books.                                                   *)
LEMMA BookingStep ==
  ASSUME Flow, Booking, [Next]_vars
  PROVE  Booking'
<1>0. IInv
  BY DEF Flow
<1>1. Apart \/ (\E c \in Calls : Moves(c) \/ \E t : SendsOut(c, t)) => held' = held
  BY DEF Apart, Moves, SendsOut
<1>2. ASSUME NEW t, NEW fate, Settles(t, fate) PROVE Booking'
  <2>1. CASE UNCHANGED held
    BY <2>1 DEF Booking
  <2>2. CASE IsRelay(t) /\ held' = [held EXCEPT ![t.token].left = @ - t.amount]
    <3>1. PICK c \in Calls : Sender(c, t)
      BY <1>2, <2>2 DEF Flow, SentByCalls, Owned, Settles
    <3>2. t.token \in Tokens /\ t.amount \in Int
      BY <1>0, <3>1, SenderPays
    <3> QED
      BY <2>2, <3>2, RelayBooks
  <2>3. ASSUME NEW c \in Calls, NEW paid \in Outs, held' = Booked(call[c].req, paid) PROVE Booking'
    BY <2>3, AmountsAssumption, ExecuteBooks
  <2> QED
    BY <1>2, <2>1, <2>2, <2>3 DEF Settles
<1> QED
  BY <1>0, <1>1, <1>2, Shapes DEF Booking

LEMMA CoveredStep ==
  ASSUME Flow, Booking, NEW k \in Tokens, Covered(k), [Next]_vars
  PROVE  Covered(k)'
<1>0. IInv
  BY DEF Flow
<1>1. ASSUME NEW t, NEW c \in Calls, Sender(c, t) PROVE Sender(c, t)'
  BY <1>0, <1>1, SenderStays
<1>2. CASE Apart
  <2>1. ASSUME NEW owed, Owes(owed, k) PROVE Owes(owed, k)'
    <3>1. \A c \in Calls : Unrelayed(c, k)' => owed[c] >= out'[c]
      BY <1>2, <2>1 DEF Apart, Owes, Unrelayed, Relays
    <3>2. \A t : Pending(t, k)' => Pending(t, k)
      BY <1>2 DEF Apart, Pending, IsRelay
    <3> QED
      BY <1>1, <2>1, <3>1, <3>2 DEF Owes
  <2> QED
    BY <1>2, <2>1, SameBooks DEF Apart, Balance
<1>3. ASSUME NEW c \in Calls, Moves(c) PROVE Covered(k)'
  <2>1. ASSUME NEW owed \in [Calls -> Nat], Owes(owed, k) PROVE Owes(owed, k)'
    <3>1. ASSUME NEW d \in Calls, Unrelayed(d, k)' PROVE owed[d] >= out'[d]
      <4>1. CASE Unrelayed(d, k)
        BY <1>3, <2>1, <4>1 DEF Moves, Owes
      <4>2. CASE ~Unrelayed(d, k)
        <5>1. call[d].at = "idle"
          BY <1>3, <3>1, <4>2 DEF Moves, OnlyMoves, Enters, Leaves, Goes, Unrelayed, Relays
        <5>2. out[d] = 0
          BY <1>0, <5>1 DEF IInv, CallOK, Unsent
        <5> QED
          BY <1>3, <5>2 DEF Moves
      <4> QED
        BY <4>1, <4>2
    <3>2. \A t : Pending(t, k)' => Pending(t, k)
      BY <1>3 DEF Moves, Pending, IsRelay
    <3> QED
      BY <1>1, <2>1, <3>1, <3>2 DEF Owes
  <2> QED
    BY <1>3, <2>1, SameBooks DEF Moves, Balance
<1>4. ASSUME NEW c \in Calls, NEW t, SendsOut(c, t) PROVE Covered(k)'
  <2>1. ASSUME NEW owed \in [Calls -> Nat], Owes(owed, k) PROVE Owes(owed, k)'
    <3>1. ASSUME NEW d \in Calls, Unrelayed(d, k)' PROVE owed[d] >= out'[d]
      <4>1. Unrelayed(d, k)
        BY <1>4, <3>1 DEF SendsOut, OnlyMoves, Unrelayed, Relays
      <4> QED
        BY <1>4, <2>1, <4>1 DEF SendsOut, Owes
    <3>2. ASSUME NEW u, Pending(u, k)' PROVE \E d \in Calls : Sender(d, u)' /\ owed[d] >= u.amount
      <4>1. CASE Pending(u, k)
        BY <1>1, <2>1, <4>1 DEF Owes
      <4>2. CASE ~Pending(u, k)
        <5>1. u = t /\ IsRelay(t)
          BY <1>0, <1>4, <3>2, <4>2, SentAnew DEF Pending, IsRelay
        <5>2. /\ t = RelayTx(c) /\ call[c].at = "relaySending" /\ call'[c].at = "relayWaiting"
              /\ call'[c].seq = call[c].seq /\ call'[c].req = call[c].req /\ call[c].req.to = "valid" /\ out' = out
          BY <1>4, <5>1, Kinds DEF SendsOut
        <5>0. call[c].req.token = k /\ t.amount = out[c]
          BY <3>2, <5>1, <5>2 DEF Pending, RelayTx
        <5>3. out[c] \in Outs /\ call[c].seq > 0 /\ call[c].req.swap
          BY <5>2 DEF Flow, OnItsWay
        <5>4. \A v \in CallTxs(c) : sent[v] = "success"
          BY <1>0, <5>2 DEF IInv, CallOK, Past
        <5>5. CallTxs(c)' = CallTxs(c)
          BY <1>0, <1>4, <5>1, NotTheirs
        <5>6. \A v \in CallTxs(c) : sent'[v] = "success"
          BY <1>0, <1>4, <5>4, SentAnew DEF CallTxs
        <5>7. Sender(c, t)'
          BY <5>2, <5>3, <5>5, <5>6 DEF Sender, Over, RelayTx
        <5>8. owed[c] >= t.amount
          BY <2>1, <5>0, <5>2, <5>3 DEF Owes, Unrelayed, Relays
        <5> QED
          BY <5>1, <5>7, <5>8
      <4> QED
        BY <4>1, <4>2
    <3> QED
      BY <3>1, <3>2 DEF Owes
  <2> QED
    BY <1>4, <2>1, SameBooks DEF SendsOut, Balance
<1>5. ASSUME NEW t, NEW fate \in {"success", "failed", "lapsed"}, Settles(t, fate) PROVE Covered(k)'
  <2>0. /\ DOMAIN sent' = DOMAIN sent /\ sent'[t] = fate /\ t \in DOMAIN sent /\ sent[t] = "pending"
        /\ \A u \in DOMAIN sent : u # t => sent'[u] = sent[u]
    BY <1>5, SentSettled
  <2>1. \A u : Pending(u, k)' => Pending(u, k) /\ u # t
    BY <2>0 DEF Pending, IsRelay
  <2>2. \A c \in Calls : Unrelayed(c, k)' <=> Unrelayed(c, k)
    BY <1>5 DEF Settles, Unrelayed, Relays
  <2>3. CASE UNCHANGED <<out, held>>
    <3>1. ASSUME NEW owed, Owes(owed, k) PROVE Owes(owed, k)'
      BY <1>1, <2>1, <2>2, <2>3, <3>1 DEF Owes
    <3> QED
      BY <2>3, <3>1, SameBooks DEF Balance
  <2>4. ASSUME IsRelay(t), out' = out, held' = [held EXCEPT ![t.token].left = @ - t.amount], t.token # k
        PROVE  Covered(k)'
    <3>1. PICK c \in Calls : Sender(c, t)
      BY <2>0, <2>4 DEF Flow, SentByCalls, Owned
    <3>2. Balance(k)' = Balance(k)
      <4>1. t.token \in Tokens /\ t.amount \in Int
        BY <1>0, <3>1, SenderPays
      <4> QED
        BY <2>4, <4>1, RelayBooks
    <3>3. ASSUME NEW owed, Owes(owed, k) PROVE Owes(owed, k)'
      BY <1>1, <2>1, <2>2, <2>4, <3>3 DEF Owes
    <3> QED
      BY <3>2, <3>3, SameBooks
  <2>5. ASSUME IsRelay(t), out' = out, held' = [held EXCEPT ![t.token].left = @ - t.amount], t.token = k
        PROVE  Covered(k)'
    <3>1. PICK owed, total : AddsUp(owed, total) /\ Balance(k) = total[Last] /\ Owes(owed, k)
      BY DEF Covered
    <3>2. PICK c \in Calls : Sender(c, t) /\ owed[c] >= t.amount
      BY <2>0, <2>5, <3>1 DEF Owes, Pending
    <3>3. t.amount \in Nat /\ owed \in [Calls -> Nat] /\ owed[c] \in Nat /\ total[Last] \in Nat
      BY <1>0, <3>1, <3>2, SenderPays, Sums
    <3> DEFINE left == [owed EXCEPT ![c] = owed[c] + (-t.amount)]
    <3>4. PICK sum : AddsUp(left, sum) /\ sum[Last] = total[Last] + (-t.amount)
      <4>1. -t.amount \in Int /\ owed[c] + (-t.amount) >= 0
        BY <3>2, <3>3
      <4>2. \E sum : /\ AddsUp([owed EXCEPT ![c] = owed[c] + (-t.amount)], sum)
                     /\ sum[Last] = total[Last] + (-t.amount)
        BY <3>1, <4>1, Rebalance
      <4> QED
        BY <4>2
    <3>5. left \in [Calls -> Int] /\ \A d \in Calls \ {c} : left[d] = owed[d]
      BY <3>3
    <3> HIDE DEF left
    <3>6. ASSUME NEW d \in Calls, Unrelayed(d, k) PROVE left[d] >= out[d]
      <4>1. d # c
        BY <3>2, <3>6 DEF Unrelayed, Relays, Sender, Over
      <4> QED
        BY <3>1, <3>5, <3>6, <4>1 DEF Owes
    <3>7. ASSUME NEW u, Pending(u, k), u # t PROVE \E d \in Calls : Sender(d, u)' /\ left[d] >= u.amount
      <4>1. PICK d \in Calls : Sender(d, u) /\ owed[d] >= u.amount
        BY <3>1, <3>7 DEF Owes
      <4>2. d # c
        BY <3>2, <3>7, <4>1 DEF Sender
      <4> QED
        BY <1>1, <3>5, <4>1, <4>2
    <3>8. Owes(left, k)'
      BY <2>1, <2>2, <2>5, <3>6, <3>7 DEF Owes
    <3>9. Balance(k)' = sum[Last]
      <4>1. Balance(k)' = Balance(k) - t.amount
        <5>1. t.token \in Tokens /\ t.amount \in Int
          BY <2>5, <3>3
        <5> QED
          BY <2>5, <5>1, RelayBooks
      <4> QED
        BY <3>1, <3>3, <3>4, <4>1
    <3> QED
      BY <3>4, <3>8, <3>9 DEF Covered
  <2>6. ASSUME NEW c \in Calls, NEW paid \in Outs, t = CallTx(c), out' = [out EXCEPT ![c] = paid],
               held' = Booked(call[c].req, paid)
        PROVE  Covered(k)'
    <3>0. paid \in Nat /\ out'[c] = paid /\ \A d \in Calls \ {c} : out'[d] = out[d]
      BY <1>0, <2>6, AmountsAssumption DEF IInv, Types
    <3>1. CASE Balance(k)' = Balance(k) /\ ~Relays(call[c].req, k)
      <4>1. ~Unrelayed(c, k)
        BY <3>1 DEF Unrelayed
      <4>2. ASSUME NEW owed, Owes(owed, k) PROVE Owes(owed, k)'
        BY <1>1, <2>1, <2>2, <3>0, <4>1, <4>2 DEF Owes
      <4> QED
        BY <3>1, <4>2, SameBooks
    <3>2. CASE Balance(k)' = Balance(k) + paid
      <4>1. PICK owed, total : AddsUp(owed, total) /\ Balance(k) = total[Last] /\ Owes(owed, k)
        BY DEF Covered
      <4>2. owed \in [Calls -> Nat] /\ owed[c] \in Nat /\ total[Last] \in Nat
        BY <4>1, Sums
      <4> DEFINE more == [owed EXCEPT ![c] = owed[c] + paid]
      <4>3. PICK sum : AddsUp(more, sum) /\ sum[Last] = total[Last] + paid
        <5>1. paid \in Int /\ owed[c] + paid >= 0
          BY <3>0, <4>2
        <5>2. \E sum : AddsUp([owed EXCEPT ![c] = owed[c] + paid], sum) /\ sum[Last] = total[Last] + paid
          BY <4>1, <5>1, Rebalance
        <5> QED
          BY <5>2
      <4>4. more[c] >= paid /\ \A d \in Calls : more[d] \in Nat /\ more[d] >= owed[d]
        BY <3>0, <4>2
      <4>5. \A d \in Calls \ {c} : more[d] = owed[d]
        BY <4>2
      <4> HIDE DEF more
      <4>6. \A d \in Calls : Unrelayed(d, k) => more[d] >= out'[d]
        BY <3>0, <4>1, <4>4, <4>5 DEF Owes
      <4>7. ASSUME NEW u, Pending(u, k) PROVE \E d \in Calls : Sender(d, u)' /\ more[d] >= u.amount
        <5>1. PICK d \in Calls : Sender(d, u) /\ owed[d] >= u.amount
          BY <4>1, <4>7 DEF Owes
        <5>2. u.amount = out[d] /\ u.amount \in Nat
          BY <1>0, <5>1, SenderPays
        <5>3. u.amount \in Nat /\ owed[d] \in Nat /\ more[d] \in Nat /\ more[d] >= owed[d]
          BY <4>2, <4>4, <5>2
        <5>4. more[d] >= u.amount
          BY <5>1, <5>3
        <5> QED
          BY <1>1, <5>1, <5>4
      <4>8. Owes(more, k)'
        BY <2>1, <2>2, <4>6, <4>7 DEF Owes
      <4>9. Balance(k)' = sum[Last]
        BY <3>2, <4>1, <4>3
      <4> QED
        BY <4>3, <4>8, <4>9 DEF Covered
    <3> QED
      BY <2>6, <3>0, <3>1, <3>2, ExecuteBooks
  <2> QED
    BY <1>5, <2>3, <2>4, <2>5, <2>6 DEF Settles
<1> QED
  BY <1>0, <1>2, <1>3, <1>4, <1>5, Shapes

LEMMA CoveredInv == Spec => [](Booking /\ \A k \in Tokens : Covered(k))
<1>1. Init => Booking /\ \A k \in Tokens : Covered(k)
  <2> SUFFICES ASSUME Init, NEW k \in Tokens PROVE Booking /\ Covered(k)
    BY DEF Tokens
  <2> DEFINE owed == [c \in Calls |-> 0]
             total == [i \in 0..Last |-> 0]
  <2>1. Last \in Nat /\ Order \in [1..Last -> Calls]
    BY Ordered
  <2>2. owed \in [Calls -> Nat] /\ total \in [0..Last -> Nat] /\ total[0] = 0 /\ total[Last] = 0
    BY <2>1
  <2>3. \A i \in 1..Last : total[i] = total[i - 1] + owed[Order[i]]
    BY <2>1
  <2>4. AddsUp(owed, total)
    BY <2>1, <2>2, <2>3 DEF AddsUp
  <2>5. DOMAIN sent = {} /\ \A c \in Calls : call[c].at = "idle"
    BY DEF Init, Idle
  <2>6. Booking /\ Balance(k) = 0
    BY DEF Init, Booking, Balance
  <2>7. Owes(owed, k)
    BY <2>5 DEF Owes, Unrelayed, Pending
  <2> HIDE DEF owed, total
  <2> QED
    BY <2>2, <2>4, <2>6, <2>7 DEF Covered
<1>2. Flow /\ (Booking /\ \A k \in Tokens : Covered(k)) /\ [Next]_vars => (Booking /\ \A k \in Tokens : Covered(k))'
  <2> SUFFICES ASSUME Flow, Booking, \A k \in Tokens : Covered(k), [Next]_vars
               PROVE  Booking' /\ \A k \in Tokens : Covered(k)'
    OBVIOUS
  <2> QED
    BY BookingStep, CoveredStep
<1> QED
  BY <1>1, <1>2, FlowInv, PTL DEF Spec

LEMMA BalanceIsNat == ASSUME NEW k, Covered(k) PROVE Balance(k) \in Nat
BY Sums DEF Covered

(* The operator never sends on more of a token than the calls have left    *)
(* it, but for what requests have it relay unbacked, in whatever order     *)
(* transactions and relays land, lapse or fail, and though two calls may   *)
(* share a relay.                                                          *)
THEOREM RelaysCovered == Spec => []RelaysAreCovered
<1>1. (\A k \in Tokens : Covered(k)) => RelaysAreCovered
  <2> SUFFICES ASSUME NEW k \in Tokens, Covered(k) PROVE held[k].left + held[k].unbacked >= 0
    BY DEF RelaysAreCovered
  <2>1. Balance(k) \in Nat
    BY BalanceIsNat
  <2> QED
    BY <2>1 DEF Balance
<1> QED
  BY <1>1, CoveredInv, PTL

(* No state is out of its type: the account's sequence number never runs   *)
(* past two transactions a call and what the others send.                  *)
THEOREM StellarTypeCorrect == Spec => []TypeOK
<1>1. Init => Set
  BY DeployedAssumption DEF Init, Set
<1>2. Set /\ [Next]_vars => Set'
  BY SetStep
<1>3. Flow /\ Counted /\ Booking /\ Set => TypeOK
  <2> SUFFICES ASSUME Flow, Counted, Booking, Set PROVE TypeOK
    OBVIOUS
  <2>0. IInv /\ Types /\ SentOK
    BY DEF Flow, IInv
  <2>1. seq \in 0..MaxSeq /\ MaxSeq \in Nat
    BY <2>0, CountedBound
  <2>2. ASSUME NEW t \in DOMAIN sent
        PROVE  t \in [by : Calls, seq : 1..MaxSeq] \union [amount : Outs, token : Tokens, seq : 1..MaxSeq]
    <3>1. t.seq <= MaxSeq /\ Owned(t)
      BY DEF Counted, Flow, SentByCalls
    <3>2. CASE IsRelay(t)
      <4>1. PICK c \in Calls : Sender(c, t)
        BY <3>1, <3>2 DEF Owned
      <4>2. call[c].seq \in Nat /\ t.token = call[c].req.token /\ t.token \in Tokens
        BY <2>0, <4>1, SenderPays DEF Types, CallRecords
      <4> QED
        BY <2>1, <3>1, <4>1, <4>2 DEF Sender, RelayTx
    <3>3. CASE ~IsRelay(t)
      BY <2>1, <3>1, <3>3 DEF Owned
    <3> QED
      BY <3>2, <3>3
  <2>3. \A t \in DOMAIN sent : sent[t] \in {"pending", "success", "failed", "lapsed"}
    BY DEF Flow, Fated
  <2>4. call \in [Calls -> [at : Steps, req : AllRequests \union {NoRequest}, seq : 0..MaxSeq + 1, answer : Answers]]
    BY <2>0, <2>1 DEF Types, CallRecords, Counted
  <2>5. held \in [Tokens -> [left : Int, unbacked : Nat]]
    BY DEF Booking
  <2> QED
    BY <2>0, <2>1, <2>2, <2>3, <2>4, <2>5 DEF TypeOK, Types, Set, Counted
<1> QED
  BY <1>1, <1>2, <1>3, FlowInv, CountedInv, CoveredInv, PTL DEF Spec
=============================================================================
