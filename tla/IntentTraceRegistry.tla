------------------------ MODULE IntentTraceRegistry ------------------------
(***************************************************************************)
(* The contract contracts/src/IntentTraceRegistry.sol: an operator-fed     *)
(* registry of intents and of the steps of each intent, read by the Dune   *)
(* dashboards through its events and by the API through its storage.       *)
(*                                                                         *)
(* One action per external function.  A call that reverts changes nothing, *)
(* so a revert is an action that is not enabled.  A step's payload (stage, *)
(* chain, transaction hash, protocol, amount) is one member of Payloads.   *)
(***************************************************************************)
EXTENDS Naturals, Sequences

CONSTANTS
  Accounts,      (* the non-zero addresses that call the contract            *)
  Deployer,      (* the account given to the constructor                     *)
  IntentIds,     (* the intent ids in use                                    *)
  Payloads,      (* what a step may say                                      *)
  MaxStepCount,  (* the largest value of the uint16 stepCount                *)
  MaxTime,       (* bound on the block timestamps                            *)
  Unwritten      (* the content of a storage slot never written              *)

ASSUME DeployerAssumption == Deployer \in Accounts
ASSUME BoundsAssumption   == MaxStepCount \in Nat /\ MaxTime \in Nat

VARIABLES
  admin,         (* the admin's address                                      *)
  paused,        (* the pause switch                                         *)
  recorders,     (* the addresses whose recorders[] entry is true            *)
  intents,       (* intents[id]: its status, counter and timestamps          *)
  traceSteps,    (* traceSteps[id][index]: the stored step                   *)
  stepEvents,    (* the TraceStepRecorded events of each intent, in order    *)
  externalEvents,(* the ExternalTransactionRecorded events of each intent    *)
  now            (* block.timestamp                                          *)

authVars   == <<admin, paused, recorders>>
recordVars == <<intents, traceSteps, stepEvents, externalEvents>>
vars       == <<authVars, recordVars, now>>

Statuses  == {"unknown", "registered", "completed", "failed"}
Steps     == [payload : Payloads, recordedAt : 0..MaxTime]
StepSlots == 0..MaxStepCount

IntentRecords   == [status : Statuses, stepCount : 0..MaxStepCount,
                    createdAt : 0..MaxTime, updatedAt : 0..MaxTime]
StepRecorded    == [index : StepSlots, step : Steps]
ExternalRecorded == [index : StepSlots, payload : Payloads]

NoIntent == [status |-> "unknown", stepCount |-> 0, createdAt |-> 0, updatedAt |-> 0]

Init ==
  /\ admin = Deployer
  /\ paused = FALSE
  /\ recorders = {Deployer}
  /\ intents = [i \in IntentIds |-> NoIntent]
  /\ traceSteps = [i \in IntentIds |-> [k \in StepSlots |-> Unwritten]]
  /\ stepEvents = [i \in IntentIds |-> <<>>]
  /\ externalEvents = [i \in IntentIds |-> {}]
  /\ now = 0

OnlyAdmin(caller)    == caller = admin
OnlyRecorder(caller) == caller \in recorders
WhenNotPaused        == ~paused

SetRecorder(caller, account, enabled) ==
  /\ OnlyAdmin(caller)
  /\ recorders' = IF enabled THEN recorders \union {account} ELSE recorders \ {account}
  /\ UNCHANGED <<admin, paused, recordVars, now>>

TransferAdmin(caller, newAdmin) ==
  /\ OnlyAdmin(caller)
  /\ admin' = newAdmin
  /\ UNCHANGED <<paused, recorders, recordVars, now>>

SetPaused(caller, value) ==
  /\ OnlyAdmin(caller)
  /\ paused' = value
  /\ UNCHANGED <<admin, recorders, recordVars, now>>

(* Faulty variant: the IntentAlreadyRegistered check is missing. *)
RegisterTwice(caller, i) ==
  /\ OnlyRecorder(caller)
  /\ WhenNotPaused
  /\ intents' = [intents EXCEPT ![i] = [status |-> "registered", stepCount |-> 0,
                                        createdAt |-> now, updatedAt |-> now]]
  /\ UNCHANGED <<authVars, traceSteps, stepEvents, externalEvents, now>>

RegisterIntent(caller, i) ==
  /\ OnlyRecorder(caller)
  /\ WhenNotPaused
  /\ intents[i].status = "unknown"
  /\ intents' = [intents EXCEPT ![i] = [status |-> "registered", stepCount |-> 0,
                                        createdAt |-> now, updatedAt |-> now]]
  /\ UNCHANGED <<authVars, traceSteps, stepEvents, externalEvents, now>>

(* Faulty variant: the counter is advanced before the slot is chosen. *)
StoreStepLate(i, p) ==
  LET step == [payload |-> p, recordedAt |-> now]
      slot == intents[i].stepCount + 1
  IN
  /\ intents[i].status # "unknown"
  /\ slot <= MaxStepCount
  /\ traceSteps' = [traceSteps EXCEPT ![i][slot] = step]
  /\ intents' = [intents EXCEPT ![i].stepCount = slot, ![i].updatedAt = now]
  /\ stepEvents' = [stepEvents EXCEPT ![i] = Append(@, [index |-> slot, step |-> step])]

(* The body of recordStep, which recordExternalStep calls too.  The uint16 *)
(* addition is checked: at MaxStepCount it reverts.                        *)
StoreStep(i, p) ==
  LET step == [payload |-> p, recordedAt |-> now]
      slot == intents[i].stepCount
  IN
  /\ intents[i].status # "unknown"
  /\ slot + 1 <= MaxStepCount
  /\ traceSteps' = [traceSteps EXCEPT ![i][slot] = step]
  /\ intents' = [intents EXCEPT ![i].stepCount = slot + 1, ![i].updatedAt = now]
  /\ stepEvents' = [stepEvents EXCEPT ![i] = Append(@, [index |-> slot, step |-> step])]

RecordStep(caller, i, p) ==
  /\ OnlyRecorder(caller)
  /\ WhenNotPaused
  /\ StoreStep(i, p)
  /\ UNCHANGED <<authVars, externalEvents, now>>

(* The step is stored under the digest of the external hash; the event     *)
(* carries the hash itself and the index that joins it to the step.        *)
RecordExternalStep(caller, i, p) ==
  /\ OnlyRecorder(caller)
  /\ WhenNotPaused
  /\ StoreStep(i, p)
  /\ externalEvents' = [externalEvents EXCEPT
       ![i] = @ \union {[index |-> intents[i].stepCount, payload |-> p]}]
  /\ UNCHANGED <<authVars, now>>

UpdateIntentStatus(caller, i, s) ==
  /\ OnlyRecorder(caller)
  /\ WhenNotPaused
  /\ intents[i].status # "unknown"
  /\ intents' = [intents EXCEPT ![i].status = s, ![i].updatedAt = now]
  /\ UNCHANGED <<authVars, traceSteps, stepEvents, externalEvents, now>>

(* A block with a later timestamp. *)
NextBlock ==
  /\ now < MaxTime
  /\ now' = now + 1
  /\ UNCHANGED <<authVars, recordVars>>

AdminNext(caller) ==
  \/ \E a \in Accounts, on \in BOOLEAN : SetRecorder(caller, a, on)
  \/ \E a \in Accounts : TransferAdmin(caller, a)
  \/ \E on \in BOOLEAN : SetPaused(caller, on)

RecorderNext(caller) ==
  \E i \in IntentIds :
    \/ RegisterIntent(caller, i)
    \/ \E p \in Payloads : RecordStep(caller, i, p)
    \/ \E p \in Payloads : RecordExternalStep(caller, i, p)
    \/ \E s \in Statuses \ {"unknown"} : UpdateIntentStatus(caller, i, s)

Next ==
  \/ \E caller \in Accounts : AdminNext(caller) \/ RecorderNext(caller)
  \/ NextBlock

Spec == Init /\ [][Next]_vars
-----------------------------------------------------------------------------
(* Type invariant. *)
TypeOK ==
  /\ admin \in Accounts
  /\ paused \in BOOLEAN
  /\ recorders \subseteq Accounts
  /\ intents \in [IntentIds -> IntentRecords]
  /\ traceSteps \in [IntentIds -> [StepSlots -> Steps \union {Unwritten}]]
  /\ stepEvents \in [IntentIds -> Seq(StepRecorded)]
  /\ externalEvents \in [IntentIds -> SUBSET ExternalRecorded]
  /\ now \in 0..MaxTime

(* The two readers of the registry agree: the API, which reads the steps    *)
(* out of storage, and the dashboards, which read the TraceStepRecorded     *)
(* events, see the same steps under the same indices.                       *)
StorageMatchesEvents ==
  \A i \in IntentIds :
    /\ Len(stepEvents[i]) = intents[i].stepCount
    /\ \A k \in 1..Len(stepEvents[i]) :
         /\ stepEvents[i][k].index = k - 1
         /\ stepEvents[i][k].step = traceSteps[i][k - 1]

(* No step is on record for an intent that nobody registered: an orphan     *)
(* step would vanish from the log when registerIntent resets the counter.   *)
UnregisteredIsEmpty ==
  \A i \in IntentIds : intents[i].status = "unknown" => intents[i] = NoIntent

(* Every ExternalTransactionRecorded event joins, through its stepIndex, a  *)
(* stored step that is about the same transaction.                          *)
ExternalEventsJoin ==
  \A i \in IntentIds : \A e \in externalEvents[i] :
    /\ e.index < intents[i].stepCount
    /\ traceSteps[i][e.index].payload = e.payload

(* The steps of an intent were recorded in the order of their indices,      *)
(* none before the intent was registered and none after its updatedAt.      *)
TimesOrdered ==
  \A i \in IntentIds :
    LET it == intents[i] IN
    /\ it.createdAt <= it.updatedAt
    /\ it.updatedAt <= now
    /\ \A k \in 0..(it.stepCount - 1) :
         /\ it.createdAt <= traceSteps[i][k].recordedAt
         /\ traceSteps[i][k].recordedAt <= it.updatedAt
         /\ \A j \in 0..k : traceSteps[i][j].recordedAt <= traceSteps[i][k].recordedAt

(* The inductive invariant: the four above hold together. *)
RegistryInv ==
  /\ StorageMatchesEvents
  /\ UnregisteredIsEmpty
  /\ ExternalEventsJoin
  /\ TimesOrdered

(* The log an abstract reader sees, and the refinement of TraceLog by it:   *)
(* counter and mapping together are one append-only log per intent.         *)
StoredLog == [i \in IntentIds |->
               [k \in 1..intents[i].stepCount |-> traceSteps[i][k - 1]]]
Verdict   == [i \in IntentIds |-> intents[i].status]

Trace == INSTANCE TraceLog WITH Entries <- Steps, log <- StoredLog, verdict <- Verdict

(* Storage alone implements the append-only log of TraceLog.                *)
ImplementsTraceLog == Trace!LogSpec
=============================================================================
