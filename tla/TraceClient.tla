---------------------------- MODULE TraceClient ----------------------------
(***************************************************************************)
(* The client of the trace registry, apps/api/src/services/trace/          *)
(* intentTraceRegistry.ts, as the orchestrator's pipelines call it, on top *)
(* of the contract, whose calls it makes are its transactions.             *)
(*                                                                         *)
(* A pipeline makes one trace call after each of its stages and awaits it. *)
(* A call finds a recorder key, sends its transactions one by one, waits   *)
(* for each without reading whether it reverted, and then stores what it   *)
(* did in the intent's receipt.  Keys are used by all pipelines of the     *)
(* process and by others; the registry's admin and its other recorders are *)
(* free.  How long a name or a hash is, and what a step says but for its   *)
(* stage, are left out.                                                    *)
(***************************************************************************)
EXTENDS IntentTraceRegistry

CONSTANTS
  Candidates,    (* the configured keys' accounts, in the order they are tried *)
  MaxSteps,      (* the most transactions each stage of a pipeline has to report *)
  External,      (* the stages whose transaction hashes are not 32 bytes long  *)
  MaxOthers      (* bound on what the admin and the other recorders do          *)

StageNames == {"source", "bridge", "protocol", "receipt"}

ASSUME KeysAssumption   == Candidates \in Seq(Accounts)
ASSUME StagesAssumption == Payloads = StageNames \union {"foreign"}
ASSUME LimitsAssumption == External \subseteq StageNames /\ MaxSteps \in [StageNames -> Nat] /\ MaxOthers \in Nat

VARIABLES
  at,            (* the trace call each pipeline makes next, or is in         *)
  call,          (* that call: where it is suspended and what it did so far   *)
  trace,         (* receipt.traceRegistry.writes of each intent               *)
  result,        (* the receipt's status as far as the registry hears of it   *)
  cached,        (* the recorder the process remembers                        *)
  queue,         (* the transactions each key has under way, in nonce order   *)
  others,        (* how often the admin and the other recorders acted         *)
  upset,         (* history: whose records or pending writes they touched     *)
  signers        (* history: the keys each intent's transactions went through *)

history    == <<others, upset, signers>>
clientVars == <<at, call, trace, result, cached, queue, history>>
allVars    == <<vars, clientVars>>

NoKey  == "nobody"
Keys   == {Candidates[k] : k \in DOMAIN Candidates}
Final  == {"completed", "failed", "caught"}
Calls  == {"register"} \union StageNames \union Final
Kinds  == {"register", "step", "status", "skipped", "error"}
Writes == [kind : Kinds, stage : Calls]
Ops    == {"register", "recordStep", "recordExternalStep", "updateIntentStatus"}
Txs    == [intent : IntentIds, op : Ops, stage : Calls]
Phases == {"ready", "probe", "check", "write", "wait", "store"}

Begun == [phase : Phases, key : Nat, by : Keys \union {NoKey}, todo : Nat,
          writes : Seq(Writes)]
NoCall == [phase |-> "ready", key |-> 0, by |-> NoKey, todo |-> 0, writes |-> <<>>]

ClientInit ==
  /\ Init
  /\ at = [i \in IntentIds |-> "new"]
  /\ call = [i \in IntentIds |-> NoCall]
  /\ trace = [i \in IntentIds |-> <<>>]
  /\ result = [i \in IntentIds |-> "running"]
  /\ cached = NoKey
  /\ queue = [a \in Keys |-> <<>>]
  /\ others = 0
  /\ upset = [i \in IntentIds |-> FALSE]
  /\ signers = [i \in IntentIds |-> {}]

Pending(i, a) == \E k \in 1..Len(queue[a]) : queue[a][k].intent = i
AnyPending(i) == \E a \in Keys : Pending(i, a)
-----------------------------------------------------------------------------
(* Faulty variant: the source transactions are reported after the bridge.  *)
AfterCallSkipping ==
  [register |-> {"bridge"}, bridge |-> {"source", "failed"}, source |-> {"protocol"},
   protocol |-> {"receipt", "failed"}, receipt |-> {"completed"},
   completed |-> {"narrate"}, failed |-> {"done"}, caught |-> {"done"}]

(* Where a pipeline may go from a trace call that returned.                *)
AfterCall ==
  [register |-> {"source"}, source |-> {"bridge"}, bridge |-> {"protocol", "failed"},
   protocol |-> {"receipt", "failed"}, receipt |-> {"completed"},
   completed |-> {"narrate"}, failed |-> {"done"}, caught |-> {"done"}]

(* Where it goes when something rejects: the verification of the source     *)
(* transactions has a catch of its own, the rest is the pipeline's.        *)
AfterReject(s) == IF s = "source" THEN "failed" ELSE "caught"

(* Faulty variant: an intent is completed on chain before it succeeded. *)
ResultAtLate(s, r) ==
  CASE s = "narrate" -> "succeeded" [] s \in {"failed", "caught"} -> "failed" [] OTHER -> r

(* Faulty variant: the registry's word for success is stored in the receipt. *)
ResultAtMixed(s, r) ==
  CASE s = "completed" -> "completed" [] s \in {"failed", "caught"} -> "failed" [] OTHER -> r

(* The status stored in the receipt before the call to stage s.            *)
ResultAt(s, r) ==
  CASE s = "completed" -> "succeeded" [] s \in {"failed", "caught"} -> "failed" [] OTHER -> r

MoveTo(i, s) ==
  /\ at' = [at EXCEPT ![i] = s]
  /\ result' = [result EXCEPT ![i] = ResultAt(s, @)]

Start(i) ==
  /\ at[i] = "new"
  /\ MoveTo(i, "register")
  /\ UNCHANGED <<vars, call, trace, cached, queue, history>>

(* What the pipeline does before a call fails: the failure is stored and    *)
(* becomes the next thing to report.                                       *)
Fail(i) ==
  /\ at[i] \in {"register", "narrate"} \union StageNames
  /\ call[i].phase = "ready"
  /\ MoveTo(i, AfterReject(at[i]))
  /\ UNCHANGED <<vars, call, trace, cached, queue, history>>

Narrate(i) ==
  /\ at[i] = "narrate"
  /\ MoveTo(i, "done")
  /\ UNCHANGED <<vars, call, trace, cached, queue, history>>

(* How many steps a call has: those of the stage whose transaction is known. *)
SourceSteps   == 0..MaxSteps["source"]     (* approval and deposit, or a transfer      *)
BridgeSteps   == 0..MaxSteps["bridge"]     (* approval, burn, set-up, mints, transfers *)
ProtocolSteps == 0..MaxSteps["protocol"]   (* the calls and their relay                *)
ReceiptSteps  == {1}                       (* the mint, or that there is none          *)
StepsOf(s) ==
  CASE s = "source" -> SourceSteps [] s = "bridge" -> BridgeSteps
    [] s = "protocol" -> ProtocolSteps [] s = "receipt" -> ReceiptSteps [] OTHER -> {1}

(* A stage without steps returns before it looks for a recorder.           *)
SkipEmpty(i) ==
  /\ at[i] \in Calls /\ 0 \in StepsOf(at[i])
  /\ call[i].phase = "ready"
  /\ \E s \in AfterCall[at[i]] : MoveTo(i, s)
  /\ UNCHANGED <<vars, call, trace, cached, queue, history>>

FirstPhase(s) == IF s = "register" THEN "check" ELSE "write"

(* context, when a recorder is remembered.                                 *)
BeginCached(i) ==
  /\ at[i] \in Calls
  /\ call[i].phase = "ready"
  /\ cached # NoKey
  /\ \E n \in StepsOf(at[i]) \ {0} :
       call' = [call EXCEPT ![i] = [NoCall EXCEPT !.phase = FirstPhase(at[i]),
                                                  !.by = cached, !.todo = n]]
  /\ UNCHANGED <<vars, at, trace, result, cached, queue, history>>

BeginProbing(i) ==
  /\ at[i] \in Calls
  /\ call[i].phase = "ready"
  /\ cached = NoKey
  /\ \E n \in StepsOf(at[i]) \ {0} :
       call' = [call EXCEPT ![i] = [NoCall EXCEPT !.phase = "probe", !.key = 1, !.todo = n]]
  /\ UNCHANGED <<vars, at, trace, result, cached, queue, history>>

(* recorders(account) says yes: the key is remembered for good.            *)
KeyAccepted(i) ==
  /\ call[i].phase = "probe"
  /\ call[i].key \in DOMAIN Candidates
  /\ Candidates[call[i].key] \in recorders
  /\ cached' = Candidates[call[i].key]
  /\ call' = [call EXCEPT ![i].phase = FirstPhase(at[i]), ![i].by = Candidates[call[i].key]]
  /\ UNCHANGED <<vars, at, trace, result, queue, history>>

(* It says no, or the read failed.                                         *)
KeyPassed(i) ==
  /\ call[i].phase = "probe"
  /\ call[i].key \in DOMAIN Candidates
  /\ call' = [call EXCEPT ![i].key = @ + 1]
  /\ UNCHANGED <<vars, at, trace, result, cached, queue, history>>

NoRecorder(i) ==
  /\ call[i].phase = "probe"
  /\ call[i].key \notin DOMAIN Candidates
  /\ call' = [call EXCEPT ![i].phase = "store", ![i].todo = 0,
                          ![i].writes = <<[kind |-> "skipped", stage |-> at[i]]>>]
  /\ UNCHANGED <<vars, at, trace, result, cached, queue, history>>
-----------------------------------------------------------------------------
(* The transaction of a call's next step.                                  *)
TxOf(i) ==
  [intent |-> i, stage |-> at[i],
   op |-> CASE at[i] = "register" -> "register"
            [] at[i] \in Final -> "updateIntentStatus"
            [] OTHER -> IF at[i] \in External THEN "recordExternalStep" ELSE "recordStep"]

(* What the registry requires of it.                                       *)
Accepts(a, tx) ==
  /\ OnlyRecorder(a)
  /\ WhenNotPaused
  /\ IF tx.op = "register" THEN intents[tx.intent].status = "unknown"
                           ELSE intents[tx.intent].status # "unknown"
  /\ tx.op \in {"recordStep", "recordExternalStep"} => intents[tx.intent].stepCount < MaxStepCount

(* What the registry does with it.                                         *)
Apply(a, tx) ==
  \/ tx.op = "register"           /\ RegisterIntent(a, tx.intent)
  \/ tx.op = "recordStep"         /\ RecordStep(a, tx.intent, tx.stage)
  \/ tx.op = "recordExternalStep" /\ RecordExternalStep(a, tx.intent, tx.stage)
  \/ tx.op = "updateIntentStatus" /\ UpdateIntentStatus(a, tx.intent,
                                  IF tx.stage = "completed" THEN "completed" ELSE "failed")

(* A call's step is over and left the write w; the next one begins.        *)
Done(i, kind) ==
  call' = [call EXCEPT ![i].writes = Append(@, [kind |-> kind, stage |-> at[i]]),
                       ![i].todo = @ - 1,
                       ![i].phase = IF call[i].todo = 1 THEN "store" ELSE "write"]

CheckRegistered(i) ==
  /\ call[i].phase = "check"
  /\ IF intents[i].status = "unknown"
     THEN call' = [call EXCEPT ![i].phase = "write"]
     ELSE Done(i, "register")
  /\ UNCHANGED <<vars, at, trace, result, cached, queue, history>>

(* writeContract estimates gas first, and so refuses what would revert now. *)
Send(i) ==
  /\ call[i].phase = "write"
  /\ Accepts(call[i].by, TxOf(i))
  /\ queue' = [queue EXCEPT ![call[i].by] = Append(@, TxOf(i))]
  /\ call' = [call EXCEPT ![i].phase = "wait"]
  /\ signers' = [signers EXCEPT ![i] = @ \union {call[i].by}]
  /\ UNCHANGED <<vars, at, trace, result, cached, others, upset>>

(* Faulty variant: the write is reported once it was sent. *)
ConfirmAtOnce(i) ==
  /\ call[i].phase = "wait"
  /\ Done(i, CASE at[i] = "register" -> "register"
               [] at[i] \in Final -> "status"
               [] OTHER -> "step")
  /\ UNCHANGED <<vars, at, trace, result, cached, queue, history>>

(* It is mined, whatever became of it: the receipt's status is not read.   *)
Confirm(i) ==
  /\ call[i].phase = "wait"
  /\ ~Pending(i, call[i].by)
  /\ Done(i, CASE at[i] = "register" -> "register"
               [] at[i] \in Final -> "status"
               [] OTHER -> "step")
  /\ UNCHANGED <<vars, at, trace, result, cached, queue, history>>

(* Faulty variant: the wait for a transaction has no end of its own. *)
ThrowUnlessWaiting(i) ==
  /\ call[i].phase \in {"check", "write"}
  /\ Done(i, "error")
  /\ UNCHANGED <<vars, at, trace, result, cached, queue, history>>

(* A read, a submission or a wait fails; a transaction sent stays sent.    *)
(* One step of several failing does not stop the others.                   *)
Throw(i) ==
  /\ call[i].phase \in {"check", "write", "wait"}
  /\ Done(i, "error")
  /\ UNCHANGED <<vars, at, trace, result, cached, queue, history>>

(* appendTraceWrites: the writes of a call that returned are merged into   *)
(* the receipt one at a time.                                              *)
StoreWrite(i) ==
  /\ call[i].phase = "store"
  /\ trace' = [trace EXCEPT ![i] = Append(@, Head(call[i].writes))]
  /\ IF Len(call[i].writes) > 1
     THEN call' = [call EXCEPT ![i].writes = Tail(@)] /\ UNCHANGED <<at, result>>
     ELSE call' = [call EXCEPT ![i] = NoCall] /\ \E s \in AfterCall[at[i]] : MoveTo(i, s)
  /\ UNCHANGED <<vars, cached, queue, history>>

(* The store refuses one of them; the others are dropped for an error.     *)
StoreFails(i) ==
  /\ call[i].phase = "store"
  /\ trace' = [trace EXCEPT ![i] = Append(@, [kind |-> "error", stage |-> at[i]])]
  /\ call' = [call EXCEPT ![i] = NoCall]
  /\ \E s \in AfterCall[at[i]] : MoveTo(i, s)
  /\ UNCHANGED <<vars, cached, queue, history>>

(* It refuses the error, too, which ends in a catch, or, in the pipeline's *)
(* catch, ends the process.                                                *)
StoreRejects(i) ==
  /\ call[i].phase = "store"
  /\ at[i] # "caught"
  /\ call' = [call EXCEPT ![i] = NoCall]
  /\ MoveTo(i, AfterReject(at[i]))
  /\ UNCHANGED <<vars, trace, cached, queue, history>>

(* The process ends: pipelines are forgotten, transactions are not.        *)
Exit ==
  /\ \E i \in IntentIds : at[i] \in Calls \union {"narrate"}
  /\ at' = [i \in IntentIds |-> IF at[i] \in {"new", "done"} THEN at[i] ELSE "dead"]
  /\ call' = [i \in IntentIds |-> NoCall]
  /\ cached' = NoKey
  /\ UNCHANGED <<vars, trace, result, queue, history>>
-----------------------------------------------------------------------------
(* The oldest transaction of a key is mined.                               *)
Mine(a) ==
  /\ queue[a] # <<>>
  /\ queue' = [queue EXCEPT ![a] = Tail(@)]
  /\ IF Accepts(a, Head(queue[a])) THEN Apply(a, Head(queue[a])) ELSE UNCHANGED vars
  /\ UNCHANGED <<at, call, trace, result, cached, history>>

Others == others < MaxOthers /\ others' = others + 1

(* The admin acts, perhaps while transactions are under way.               *)
OtherAdmin(caller) ==
  /\ Others
  /\ AdminNext(caller)
  /\ upset' = [i \in IntentIds |-> upset[i] \/ AnyPending(i)]
  /\ UNCHANGED <<at, call, trace, result, cached, queue, signers>>

(* Another recorder writes about an intent.                                *)
OtherRecorder(caller, i) ==
  /\ Others
  /\ \/ RegisterIntent(caller, i)
     \/ RecordStep(caller, i, "foreign")
     \/ RecordExternalStep(caller, i, "foreign")
     \/ \E s \in Statuses \ {"unknown"} : UpdateIntentStatus(caller, i, s)
  /\ upset' = [upset EXCEPT ![i] = TRUE]
  /\ UNCHANGED <<at, call, trace, result, cached, queue, signers>>

Proceed(i) ==
  \/ Start(i) \/ Narrate(i) \/ SkipEmpty(i) \/ BeginCached(i) \/ BeginProbing(i)
  \/ KeyAccepted(i) \/ KeyPassed(i) \/ NoRecorder(i)
  \/ CheckRegistered(i) \/ Send(i)
  \/ Confirm(i) \/ Throw(i) \/ StoreWrite(i)

ClientNext ==
  \/ \E i \in IntentIds : Proceed(i) \/ Fail(i) \/ StoreFails(i) \/ StoreRejects(i)
  \/ Exit
  \/ \E a \in Keys : Mine(a)
  \/ \E caller \in Accounts \ Keys :
       OtherAdmin(caller) \/ \E i \in IntentIds : OtherRecorder(caller, i)
  \/ NextBlock /\ UNCHANGED clientVars

(* The event loop runs what is settled; every read, submission and wait of  *)
(* the client ends by itself, at the latest with an error.                 *)
ClientSpec == ClientInit /\ [][ClientNext]_allVars /\ \A i \in IntentIds : WF_allVars(Proceed(i))
-----------------------------------------------------------------------------
(* Type invariant. *)
ClientTypeOK ==
  /\ at \in [IntentIds -> Calls \union {"new", "narrate", "done", "dead"}]
  /\ call \in [IntentIds -> Begun]
  /\ trace \in [IntentIds -> Seq(Writes)]
  /\ result \in [IntentIds -> {"running", "succeeded", "failed"}]
  /\ cached \in Keys \union {NoKey}
  /\ queue \in [Keys -> Seq(Txs)]
  /\ others \in 0..MaxOthers
  /\ upset \in [IntentIds -> BOOLEAN]
  /\ signers \in [IntentIds -> SUBSET Keys]

(* What the client says it did for an intent, stored or about to be.       *)
Said(i)  == trace[i] \o call[i].writes
Clean(i) == ~upset[i] /\ \A k \in 1..Len(Said(i)) : Said(i)[k].kind \notin {"skipped", "error"}

(* A receipt that admits no error says no more than the registry: if nobody *)
(* else touched the intent's records or, while it had a transaction under   *)
(* way, the registry's administration, the intent is registered, and each   *)
(* step after the first entry is in the registry under that number, with    *)
(* that stage, although the client never reads whether its transactions     *)
(* reverted.                                                                *)
ReportedIsStored ==
  \A i \in IntentIds : Clean(i) =>
    \A k \in 1..Len(Said(i)) :
      /\ intents[i].status # "unknown"
      /\ k > 1 /\ Said(i)[k].kind = "step" =>
           /\ k - 2 < intents[i].stepCount
           /\ traceSteps[i][k - 2].payload = Said(i)[k].stage

(* All transactions of an intent so far went through one key.  Two          *)
(* pipelines that look for a recorder at once may settle on two, one after  *)
(* the other, and transactions of two keys are mined in any order.          *)
OneKey(i) == \A a, b \in signers[i] : a = b

(* The registry's verdict on an intent is the receipt's: none while the    *)
(* pipeline has no result unless another recorder gave it, and once the    *)
(* pipeline is through, by one key and with a receipt that admits no       *)
(* error, that result, even if an earlier write was given up and mined late.*)
VerdictTellsResult ==
  \A i \in IntentIds : ~upset[i] =>
    /\ intents[i].status \in {"completed", "failed"} => result[i] # "running"
    /\ at[i] = "done" /\ Clean(i) /\ OneKey(i) =>
         intents[i].status = (IF result[i] = "succeeded" THEN "completed" ELSE "failed")

Rank(p) == CASE p = "source" -> 1 [] p = "bridge" -> 2 [] p = "protocol" -> 3
             [] p = "receipt" -> 4 [] OTHER -> 0

(* Whatever failed, gave up or was cut off, the registry shows the stages  *)
(* of an intent in the order they happened, as long as one key wrote them.  *)
StagesInOrder ==
  \A i \in IntentIds : OneKey(i) => \A j, k \in 0..(intents[i].stepCount - 1) :
    (j < k /\ "foreign" \notin {traceSteps[i][j].payload, traceSteps[i][k].payload}) =>
      Rank(traceSteps[i][j].payload) <= Rank(traceSteps[i][k].payload)

(* Tracing never holds up a pipeline: every trace call comes to its end,    *)
(* also when nothing is mined any more, or the process exits.              *)
TracingEnds == \A i \in IntentIds : [](call[i].phase # "ready" => <>(call[i].phase = "ready"))
=============================================================================
