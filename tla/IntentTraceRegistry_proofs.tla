--------------------- MODULE IntentTraceRegistry_proofs ---------------------
(***************************************************************************)
(* For every set of accounts, intents and payloads and every width of the  *)
(* step counter: the registry's types, the agreement of its storage with   *)
(* its events, the order of its timestamps, and the refinement of the      *)
(* append-only log of TraceLog.  Then, for every set of keys and intents    *)
(* and however many steps a stage reports, the registry's client: it uses   *)
(* the registry as specified, shows the stages in their order, reports what *)
(* is stored, and leaves the verdict of the receipt.                       *)
(***************************************************************************)
EXTENDS TraceClient, SequenceTheorems, TLAPS

LEMMA TypeInit == Init => TypeOK
<1> USE DeployerAssumption, BoundsAssumption
<1> SUFFICES ASSUME Init PROVE TypeOK
  OBVIOUS
<1>1. NoIntent \in IntentRecords
  BY DEF NoIntent, Statuses, IntentRecords
<1>2. intents \in [IntentIds -> IntentRecords]
  BY <1>1 DEF Init
<1>3. stepEvents \in [IntentIds -> Seq(StepRecorded)]
  BY DEF Init
<1>4. traceSteps \in [IntentIds -> [StepSlots -> Steps \union {Unwritten}]]
  BY DEF Init
<1>5. externalEvents \in [IntentIds -> SUBSET ExternalRecorded]
  BY DEF Init
<1>6. admin = Deployer /\ paused = FALSE /\ recorders = {Deployer} /\ now = 0
  BY DEF Init
<1>7. now \in 0..MaxTime
  BY <1>6
<1>8. QED
  BY <1>2, <1>3, <1>4, <1>5, <1>6, <1>7 DEF TypeOK

LEMMA TypeStep == TypeOK /\ [Next]_vars => TypeOK'
<1> USE DeployerAssumption, BoundsAssumption
<1> SUFFICES ASSUME TypeOK, [Next]_vars PROVE TypeOK'
  OBVIOUS
<1> USE DEF TypeOK, authVars, recordVars
<1>1. ASSUME NEW caller \in Accounts, AdminNext(caller) PROVE TypeOK'
  <2>1. UNCHANGED <<intents, traceSteps, stepEvents, externalEvents, now>>
    BY <1>1 DEF AdminNext, SetRecorder, TransferAdmin, SetPaused
  <2>2. admin' \in Accounts /\ paused' \in BOOLEAN /\ recorders' \subseteq Accounts
    BY <1>1 DEF AdminNext, SetRecorder, TransferAdmin, SetPaused
  <2>3. QED
    BY <2>1, <2>2
<1>2. ASSUME NEW caller \in Accounts, NEW i \in IntentIds, RegisterIntent(caller, i)
      PROVE TypeOK'
  <2>1. [status |-> "registered", stepCount |-> 0, createdAt |-> now, updatedAt |-> now]
          \in IntentRecords
    BY DEF IntentRecords, Statuses
  <2>2. QED
    BY <1>2, <2>1 DEF RegisterIntent
<1>3. ASSUME NEW i \in IntentIds, NEW p \in Payloads, StoreStep(i, p)
      PROVE /\ intents' \in [IntentIds -> IntentRecords]
            /\ traceSteps' \in [IntentIds -> [StepSlots -> Steps \union {Unwritten}]]
            /\ stepEvents' \in [IntentIds -> Seq(StepRecorded)]
  <2> DEFINE step == [payload |-> p, recordedAt |-> now]
             slot == intents[i].stepCount
             event == [index |-> slot, step |-> step]
  <2>1. step \in Steps
    BY DEF Steps
  <2>2. intents[i] \in IntentRecords
    OBVIOUS
  <2>3. slot \in StepSlots /\ slot + 1 \in 0..MaxStepCount
    BY <1>3, <2>2 DEF StoreStep, StepSlots, IntentRecords
  <2>4. event \in StepRecorded
    BY <2>1, <2>3 DEF StepRecorded
  <2>5. intents' = [intents EXCEPT ![i] =
                     [intents[i] EXCEPT !.stepCount = slot + 1, !.updatedAt = now]]
    BY <1>3, <2>2 DEF StoreStep, IntentRecords
  <2>6. [intents[i] EXCEPT !.stepCount = slot + 1, !.updatedAt = now] \in IntentRecords
    BY <2>2, <2>3 DEF IntentRecords
  <2>7. intents' \in [IntentIds -> IntentRecords]
    BY <2>5, <2>6
  <2>8. traceSteps' = [traceSteps EXCEPT ![i] = [traceSteps[i] EXCEPT ![slot] = step]]
    BY <1>3 DEF StoreStep
  <2>9. traceSteps' \in [IntentIds -> [StepSlots -> Steps \union {Unwritten}]]
    BY <2>1, <2>3, <2>8
  <2>10. stepEvents' = [stepEvents EXCEPT ![i] = Append(stepEvents[i], event)]
    BY <1>3 DEF StoreStep
  <2>11. Append(stepEvents[i], event) \in Seq(StepRecorded)
    BY <2>4
  <2>12. QED
    BY <2>7, <2>9, <2>10, <2>11
<1>4. ASSUME NEW caller \in Accounts, NEW i \in IntentIds, NEW p \in Payloads,
             RecordStep(caller, i, p)
      PROVE TypeOK'
  BY <1>3, <1>4 DEF RecordStep
<1>5. ASSUME NEW caller \in Accounts, NEW i \in IntentIds, NEW p \in Payloads,
             RecordExternalStep(caller, i, p)
      PROVE TypeOK'
  <2>1. [index |-> intents[i].stepCount, payload |-> p] \in ExternalRecorded
    BY DEF StepSlots, ExternalRecorded, IntentRecords
  <2>2. externalEvents' \in [IntentIds -> SUBSET ExternalRecorded]
    BY <1>5, <2>1 DEF RecordExternalStep
  <2>3. QED
    BY <1>3, <1>5, <2>2 DEF RecordExternalStep
<1>6. ASSUME NEW caller \in Accounts, NEW i \in IntentIds, NEW s \in Statuses \ {"unknown"},
             UpdateIntentStatus(caller, i, s)
      PROVE TypeOK'
  <2>1. [intents[i] EXCEPT !.status = s, !.updatedAt = now] \in IntentRecords
    BY DEF IntentRecords
  <2>2. intents' = [intents EXCEPT ![i] = [intents[i] EXCEPT !.status = s, !.updatedAt = now]]
    BY <1>6 DEF UpdateIntentStatus, IntentRecords
  <2>3. QED
    BY <1>6, <2>1, <2>2 DEF UpdateIntentStatus
<1>7. CASE NextBlock
  BY <1>7, BoundsAssumption DEF NextBlock
<1>8. CASE UNCHANGED vars
  BY <1>8 DEF vars
<1>9. QED
  BY <1>1, <1>2, <1>4, <1>5, <1>6, <1>7, <1>8 DEF Next, RecorderNext

(* Type correctness: in particular the step counter never leaves the range *)
(* of its uint16, because recordStep reverts at the top of it.             *)
THEOREM TypeCorrect == Spec => []TypeOK
BY TypeInit, TypeStep, PTL DEF Spec

(* Every step of the registry is one of five effects on the records.       *)
LEMMA StepEffects ==
  ASSUME TypeOK, [Next]_vars
  PROVE  \/ UNCHANGED recordVars /\ now' >= now /\ now' \in Nat
         \/ \E i \in IntentIds :
              /\ intents[i].status = "unknown"
              /\ intents' = [intents EXCEPT ![i] = [status |-> "registered", stepCount |-> 0,
                                                    createdAt |-> now, updatedAt |-> now]]
              /\ UNCHANGED <<traceSteps, stepEvents, externalEvents, now>>
         \/ \E i \in IntentIds, p \in Payloads :
              /\ StoreStep(i, p)
              /\ UNCHANGED now
              /\ \/ UNCHANGED externalEvents
                 \/ externalEvents' = [externalEvents EXCEPT ![i] = @ \union
                                        {[index |-> intents[i].stepCount, payload |-> p]}]
         \/ \E i \in IntentIds, s \in Statuses \ {"unknown"} :
              /\ intents[i].status # "unknown"
              /\ intents' = [intents EXCEPT ![i].status = s, ![i].updatedAt = now]
              /\ UNCHANGED <<traceSteps, stepEvents, externalEvents, now>>
<1> USE DEF TypeOK, recordVars
<1>1. ASSUME NEW caller \in Accounts, AdminNext(caller) PROVE UNCHANGED recordVars /\ now' >= now /\ now' \in Nat
  BY <1>1 DEF AdminNext, SetRecorder, TransferAdmin, SetPaused
<1>2. ASSUME NextBlock PROVE UNCHANGED recordVars /\ now' >= now /\ now' \in Nat
  BY <1>2, BoundsAssumption DEF NextBlock
<1>3. ASSUME UNCHANGED vars PROVE UNCHANGED recordVars /\ now' >= now /\ now' \in Nat
  BY <1>3, BoundsAssumption DEF vars
<1>4. QED
  BY <1>1, <1>2, <1>3 DEF Next, RecorderNext, RegisterIntent, RecordStep, RecordExternalStep,
     UpdateIntentStatus

(* The effect of a step on the stored and the emitted records.             *)
LEMMA StoreStepEffect ==
  ASSUME TypeOK, NEW i \in IntentIds, NEW p \in Payloads, StoreStep(i, p)
  PROVE  /\ intents[i].status # "unknown"
         /\ intents[i].stepCount \in StepSlots
         /\ intents' = [intents EXCEPT ![i] = [intents[i] EXCEPT
                         !.stepCount = intents[i].stepCount + 1, !.updatedAt = now]]
         /\ traceSteps' = [traceSteps EXCEPT ![i] = [traceSteps[i] EXCEPT
                           ![intents[i].stepCount] = [payload |-> p, recordedAt |-> now]]]
         /\ stepEvents' = [stepEvents EXCEPT ![i] = Append(stepEvents[i],
                           [index |-> intents[i].stepCount,
                            step |-> [payload |-> p, recordedAt |-> now]])]
<1>1. intents[i] \in IntentRecords /\ MaxStepCount \in Nat
  BY BoundsAssumption DEF TypeOK
<1>2. QED
  BY <1>1 DEF TypeOK, StoreStep, StepSlots, IntentRecords

(* What RegistryInv says of one intent.                                    *)
IntentInv(j) ==
  /\ Len(stepEvents[j]) = intents[j].stepCount
  /\ \A k \in 1..Len(stepEvents[j]) :
       /\ stepEvents[j][k].index = k - 1
       /\ stepEvents[j][k].step = traceSteps[j][k - 1]
  /\ intents[j].status = "unknown" => intents[j] = NoIntent
  /\ \A e \in externalEvents[j] :
       /\ e.index < intents[j].stepCount
       /\ traceSteps[j][e.index].payload = e.payload
  /\ intents[j].createdAt <= intents[j].updatedAt
  /\ intents[j].updatedAt <= now
  /\ \A k \in 0..(intents[j].stepCount - 1) :
       /\ intents[j].createdAt <= traceSteps[j][k].recordedAt
       /\ traceSteps[j][k].recordedAt <= intents[j].updatedAt
       /\ \A l \in 0..k : traceSteps[j][l].recordedAt <= traceSteps[j][k].recordedAt

LEMMA InvByIntent == RegistryInv <=> \A j \in IntentIds : IntentInv(j)
BY DEF RegistryInv, IntentInv, StorageMatchesEvents, UnregisteredIsEmpty, ExternalEventsJoin,
       TimesOrdered

(* Recording a step at the end of an intent's log keeps the invariant of   *)
(* that intent: the new slot is the only one written, it is written with   *)
(* what the event says, and now is the latest of all times.                *)
LEMMA StoreStepKeepsInv ==
  ASSUME TypeOK, NEW j \in IntentIds, IntentInv(j), NEW p \in Payloads, StoreStep(j, p),
         UNCHANGED now,
         \/ UNCHANGED externalEvents
         \/ externalEvents' = [externalEvents EXCEPT ![j] = @ \union
                                  {[index |-> intents[j].stepCount, payload |-> p]}]
  PROVE  IntentInv(j)'
<1> DEFINE n == intents[j].stepCount
           step == [payload |-> p, recordedAt |-> now]
<1>0. /\ intents[j].status # "unknown"
      /\ n \in StepSlots
      /\ intents' = [intents EXCEPT ![j] = [intents[j] EXCEPT !.stepCount = n + 1, !.updatedAt = now]]
      /\ traceSteps' = [traceSteps EXCEPT ![j] = [traceSteps[j] EXCEPT ![n] = step]]
      /\ stepEvents' = [stepEvents EXCEPT ![j] = Append(stepEvents[j], [index |-> n, step |-> step])]
  BY StoreStepEffect
<1>1. /\ intents[j] \in IntentRecords
      /\ traceSteps[j] \in [StepSlots -> Steps \union {Unwritten}]
      /\ stepEvents[j] \in Seq(StepRecorded)
      /\ externalEvents[j] \subseteq ExternalRecorded
      /\ now \in Nat /\ n \in Nat /\ n \in StepSlots
      /\ intents[j].createdAt \in Nat /\ intents[j].updatedAt \in Nat
  BY <1>0, BoundsAssumption DEF TypeOK, IntentRecords, StepSlots
<1>2. /\ intents'[j].stepCount = n + 1 /\ intents'[j].updatedAt = now
      /\ intents'[j].createdAt = intents[j].createdAt
      /\ intents'[j].status = intents[j].status /\ intents[j].status # "unknown"
  BY <1>0, <1>1 DEF TypeOK, IntentRecords
<1>3. /\ traceSteps'[j][n] = step
      /\ \A k \in 0..(n - 1) : traceSteps'[j][k] = traceSteps[j][k]
  BY <1>0, <1>1 DEF TypeOK, StepSlots
<1>4. stepEvents'[j] = Append(stepEvents[j], [index |-> n, step |-> step])
  BY <1>0 DEF TypeOK
<1>5. externalEvents'[j] \subseteq externalEvents[j] \union {[index |-> n, payload |-> p]}
  BY DEF TypeOK
<1>6. /\ Len(stepEvents'[j]) = n + 1
      /\ \A k \in 1..Len(stepEvents'[j]) :
           /\ stepEvents'[j][k].index = k - 1
           /\ stepEvents'[j][k].step = traceSteps'[j][k - 1]
  <2>1. Len(stepEvents[j]) = n /\ Len(stepEvents'[j]) = n + 1
    BY <1>1, <1>4 DEF IntentInv
  <2>2. ASSUME NEW k \in 1..n
        PROVE  stepEvents'[j][k].index = k - 1 /\ stepEvents'[j][k].step = traceSteps'[j][k - 1]
    BY <2>1, <1>1, <1>3, <1>4 DEF IntentInv
  <2>3. stepEvents'[j][n + 1].index = n /\ stepEvents'[j][n + 1].step = traceSteps'[j][n]
    BY <2>1, <1>1, <1>3, <1>4
  <2>4. QED
    BY <2>1, <2>2, <2>3, <1>1
<1>7. \A e \in externalEvents'[j] :
        e.index < n + 1 /\ traceSteps'[j][e.index].payload = e.payload
  <2> SUFFICES ASSUME NEW e \in externalEvents'[j]
               PROVE  e.index < n + 1 /\ traceSteps'[j][e.index].payload = e.payload
    OBVIOUS
  <2>1. CASE e \in externalEvents[j]
    BY <2>1, <1>1, <1>3 DEF IntentInv, ExternalRecorded, StepSlots
  <2>2. CASE e = [index |-> n, payload |-> p]
    BY <2>2, <1>1, <1>3
  <2>3. QED
    BY <2>1, <2>2, <1>5
<1>8. \A k \in 0..n :
        /\ intents[j].createdAt <= traceSteps'[j][k].recordedAt
        /\ traceSteps'[j][k].recordedAt <= now
        /\ \A l \in 0..k : traceSteps'[j][l].recordedAt <= traceSteps'[j][k].recordedAt
  <2>1. \A k \in 0..(n - 1) :
          /\ traceSteps'[j][k].recordedAt = traceSteps[j][k].recordedAt
          /\ traceSteps[j][k].recordedAt <= intents[j].updatedAt
          /\ intents[j].createdAt <= traceSteps[j][k].recordedAt
          /\ \A l \in 0..k : traceSteps[j][l].recordedAt <= traceSteps[j][k].recordedAt
    BY <1>1, <1>3 DEF IntentInv
  <2>2. \A k \in 0..(n - 1) : traceSteps[j][k] \in Steps
    <3> SUFFICES ASSUME NEW k \in 0..(n - 1) PROVE traceSteps[j][k] \in Steps
      OBVIOUS
    <3>1. k + 1 \in 1..Len(stepEvents[j]) /\ (k + 1) - 1 = k
      BY <1>1 DEF IntentInv
    <3>2. stepEvents[j][k + 1] \in StepRecorded
      BY <1>1, <3>1
    <3>3. stepEvents[j][k + 1].step = traceSteps[j][k]
      BY <3>1 DEF IntentInv
    <3>4. QED
      BY <3>2, <3>3 DEF StepRecorded
  <2>3. \A k \in 0..(n - 1) : traceSteps'[j][k].recordedAt \in Nat
    BY <2>1, <2>2 DEF Steps
  <2>4. traceSteps'[j][n].recordedAt = now
    BY <1>3
  <2>5. intents[j].updatedAt <= now /\ intents[j].createdAt <= intents[j].updatedAt
    BY DEF IntentInv
  <2>6. ASSUME NEW k \in 0..(n - 1)
        PROVE  /\ intents[j].createdAt <= traceSteps'[j][k].recordedAt
               /\ traceSteps'[j][k].recordedAt <= now
               /\ \A l \in 0..k : traceSteps'[j][l].recordedAt <= traceSteps'[j][k].recordedAt
    <3>1. \A l \in 0..k : l \in 0..(n - 1)
      BY <1>1
    <3>2. QED
      BY <2>1, <2>3, <2>5, <1>1, <3>1
  <2>7. QED
    BY <2>4, <2>5, <2>6, <1>1
<1>9. QED
  BY <1>1, <1>2, <1>6, <1>7, <1>8 DEF IntentInv

LEMMA InvInductive == TypeOK /\ RegistryInv /\ [Next]_vars => RegistryInv'
<1> SUFFICES ASSUME TypeOK, \A i \in IntentIds : IntentInv(i), [Next]_vars, NEW j \in IntentIds
             PROVE  IntentInv(j)'
  BY InvByIntent DEF IntentInv, RegistryInv, StorageMatchesEvents, UnregisteredIsEmpty,
     ExternalEventsJoin, TimesOrdered
<1>1. IntentInv(j) /\ intents[j] \in IntentRecords /\ now \in Nat
  BY DEF TypeOK
<1>2. ASSUME UNCHANGED <<intents[j], traceSteps[j], stepEvents[j], externalEvents[j]>>, now' >= now,
             now' \in Nat
      PROVE  IntentInv(j)'
  BY <1>1, <1>2 DEF IntentInv, IntentRecords
<1>3. CASE UNCHANGED recordVars /\ now' >= now /\ now' \in Nat
  <2>1. UNCHANGED <<intents[j], traceSteps[j], stepEvents[j], externalEvents[j]>>
    BY <1>3 DEF recordVars
  <2>2. QED
    BY <1>2, <1>3, <2>1
<1>4. ASSUME NEW i \in IntentIds, intents[i].status = "unknown",
             intents' = [intents EXCEPT ![i] = [status |-> "registered", stepCount |-> 0,
                                                createdAt |-> now, updatedAt |-> now]],
             UNCHANGED <<traceSteps, stepEvents, externalEvents, now>>
      PROVE  IntentInv(j)'
  <2>1. CASE i # j
    BY <1>1, <1>2, <1>4, <2>1 DEF TypeOK
  <2>2. CASE i = j
    <3>1. intents[j].stepCount = 0 /\ Len(stepEvents[j]) = 0 /\ externalEvents[j] = {}
      BY <1>1, <1>4, <2>2 DEF IntentInv, NoIntent, TypeOK, ExternalRecorded, StepSlots
    <3>2. intents'[j] = [status |-> "registered", stepCount |-> 0, createdAt |-> now, updatedAt |-> now]
      BY <1>4, <2>2 DEF TypeOK
    <3>3. QED
      BY <1>1, <1>4, <3>1, <3>2 DEF IntentInv
  <2>3. QED
    BY <2>1, <2>2
<1>5. ASSUME NEW i \in IntentIds, NEW p \in Payloads, StoreStep(i, p), UNCHANGED now,
             \/ UNCHANGED externalEvents
             \/ externalEvents' = [externalEvents EXCEPT ![i] = @ \union
                                     {[index |-> intents[i].stepCount, payload |-> p]}]
      PROVE  IntentInv(j)'
  <2>1. CASE i # j
    <3>1. /\ intents' = [intents EXCEPT ![i] = [intents[i] EXCEPT
                         !.stepCount = intents[i].stepCount + 1, !.updatedAt = now]]
          /\ traceSteps' = [traceSteps EXCEPT ![i] = [traceSteps[i] EXCEPT
                           ![intents[i].stepCount] = [payload |-> p, recordedAt |-> now]]]
          /\ stepEvents' = [stepEvents EXCEPT ![i] = Append(stepEvents[i],
                           [index |-> intents[i].stepCount,
                            step |-> [payload |-> p, recordedAt |-> now]])]
      BY <1>5, StoreStepEffect
    <3>2. UNCHANGED <<intents[j], traceSteps[j], stepEvents[j], externalEvents[j]>>
      BY <1>5, <2>1, <3>1 DEF TypeOK
    <3>3. QED
      BY <1>1, <1>2, <1>5, <3>2
  <2>2. CASE i = j
    BY <1>1, <1>5, <2>2, StoreStepKeepsInv
  <2>3. QED
    BY <2>1, <2>2
<1>6. ASSUME NEW i \in IntentIds, NEW s \in Statuses \ {"unknown"}, intents[i].status # "unknown",
             intents' = [intents EXCEPT ![i].status = s, ![i].updatedAt = now],
             UNCHANGED <<traceSteps, stepEvents, externalEvents, now>>
      PROVE  IntentInv(j)'
  <2>1. CASE i # j
    BY <1>1, <1>2, <1>6, <2>1 DEF TypeOK
  <2>2. CASE i = j
    <3>1. intents'[j] = [intents[j] EXCEPT !.status = s, !.updatedAt = now]
      BY <1>1, <1>6, <2>2 DEF TypeOK, IntentRecords
    <3>2. /\ intents'[j].stepCount = intents[j].stepCount /\ intents'[j].updatedAt = now
          /\ intents'[j].createdAt = intents[j].createdAt /\ intents'[j].status # "unknown"
      BY <1>1, <3>1 DEF IntentRecords
    <3>3. \A k \in 0..(intents[j].stepCount - 1) : traceSteps[j][k].recordedAt <= now
      <4>1. ASSUME NEW k \in 0..(intents[j].stepCount - 1)
            PROVE traceSteps[j][k].recordedAt <= now
        <5>1. k + 1 \in 1..Len(stepEvents[j]) /\ (k + 1) - 1 = k
          BY <1>1 DEF IntentInv, IntentRecords
        <5>2. stepEvents[j][k + 1] \in StepRecorded
          BY <5>1 DEF TypeOK
        <5>3. traceSteps[j][k].recordedAt \in Nat
          BY <5>1, <5>2, <1>1 DEF IntentInv, StepRecorded, Steps
        <5>4. QED
          BY <5>3, <1>1 DEF IntentInv, IntentRecords
      <4>2. QED
        BY <4>1
    <3>4. QED
      <4>1. /\ intents[j].createdAt \in Nat /\ intents[j].updatedAt \in Nat
            /\ intents[j].createdAt <= now
        BY <1>1 DEF IntentInv, IntentRecords
      <4>2. /\ stepEvents'[j] = stepEvents[j] /\ traceSteps'[j] = traceSteps[j]
            /\ externalEvents'[j] = externalEvents[j] /\ now' = now
        BY <1>6
      <4>3. \A k \in 0..(intents[j].stepCount - 1) :
              /\ intents[j].createdAt <= traceSteps[j][k].recordedAt
              /\ \A l \in 0..k : traceSteps[j][l].recordedAt <= traceSteps[j][k].recordedAt
        BY <1>1 DEF IntentInv
      <4>4. /\ Len(stepEvents[j]) = intents[j].stepCount
            /\ \A k \in 1..Len(stepEvents[j]) :
                 /\ stepEvents[j][k].index = k - 1
                 /\ stepEvents[j][k].step = traceSteps[j][k - 1]
            /\ \A e \in externalEvents[j] :
                 /\ e.index < intents[j].stepCount
                 /\ traceSteps[j][e.index].payload = e.payload
        BY <1>1 DEF IntentInv
      <4>5. \A k \in 0..(intents'[j].stepCount - 1) :
              /\ intents'[j].createdAt <= traceSteps'[j][k].recordedAt
              /\ traceSteps'[j][k].recordedAt <= intents'[j].updatedAt
              /\ \A l \in 0..k : traceSteps'[j][l].recordedAt <= traceSteps'[j][k].recordedAt
        BY <3>2, <3>3, <4>2, <4>3
      <4>6. /\ Len(stepEvents'[j]) = intents'[j].stepCount
            /\ \A k \in 1..Len(stepEvents'[j]) :
                 /\ stepEvents'[j][k].index = k - 1
                 /\ stepEvents'[j][k].step = traceSteps'[j][k - 1]
            /\ \A e \in externalEvents'[j] :
                 /\ e.index < intents'[j].stepCount
                 /\ traceSteps'[j][e.index].payload = e.payload
        BY <3>2, <4>2, <4>4
      <4>7. /\ intents'[j].createdAt <= intents'[j].updatedAt
            /\ intents'[j].updatedAt <= now'
        BY <1>1, <3>2, <4>1, <4>2
      <4>8. QED
        BY <3>2, <4>5, <4>6, <4>7 DEF IntentInv
  <2>3. QED
    BY <2>1, <2>2
<1>7. QED
  BY StepEffects, <1>3, <1>4, <1>5, <1>6

LEMMA InvInit == Init => RegistryInv
<1> SUFFICES ASSUME Init, NEW j \in IntentIds PROVE IntentInv(j)
  BY InvByIntent
<1>1. intents[j] = NoIntent /\ stepEvents[j] = <<>> /\ externalEvents[j] = {} /\ now = 0
  BY DEF Init
<1>2. QED
  BY <1>1 DEF IntentInv, NoIntent

(* The four invariants of the registry, for every instance of it.          *)
THEOREM RegistrySafe == Spec => []RegistryInv
BY InvInit, InvInductive, TypeCorrect, PTL DEF Spec

(* The API and the dashboards never disagree about the steps of an intent. *)
THEOREM StorageAgreesWithEvents == Spec => []StorageMatchesEvents
<1>1. RegistryInv => StorageMatchesEvents
  BY DEF RegistryInv
<1>2. QED
  BY <1>1, RegistrySafe, PTL

(* Timestamps never run backwards along an intent's log.                   *)
THEOREM TimesAreOrdered == Spec => []TimesOrdered
<1>1. RegistryInv => TimesOrdered
  BY DEF RegistryInv
<1>2. QED
  BY <1>1, RegistrySafe, PTL

(* The stored log of one intent as a sequence.                             *)
LEMMA StoredLogIsSeq ==
  ASSUME TypeOK, RegistryInv, NEW i \in IntentIds
  PROVE  /\ StoredLog[i] \in Seq(Steps)
         /\ Len(StoredLog[i]) = intents[i].stepCount
         /\ intents[i].stepCount \in Nat
         /\ \A k \in 1..intents[i].stepCount : StoredLog[i][k] = traceSteps[i][k - 1]
<1> DEFINE n == intents[i].stepCount
<1>1. n \in Nat
  BY BoundsAssumption DEF TypeOK, IntentRecords
<1>2. StoredLog[i] = [k \in 1..n |-> traceSteps[i][k - 1]]
  BY DEF StoredLog
<1>3. ASSUME NEW k \in 1..n PROVE traceSteps[i][k - 1] \in Steps
  <2>1. Len(stepEvents[i]) = n /\ stepEvents[i][k].step = traceSteps[i][k - 1]
    BY DEF RegistryInv, StorageMatchesEvents
  <2>2. stepEvents[i][k] \in StepRecorded
    BY <2>1 DEF TypeOK
  <2>3. QED
    BY <2>1, <2>2 DEF StepRecorded
<1> HIDE DEF n
<1>4. StoredLog[i] \in Seq(Steps) /\ Len(StoredLog[i]) = n
  BY <1>1, <1>2, <1>3
<1>5. QED
  BY <1>1, <1>2, <1>4 DEF n

(* A step that leaves the steps of every intent alone leaves the log alone. *)
LEMMA LogUnchanged ==
  ASSUME \A i \in IntentIds : intents'[i].stepCount = intents[i].stepCount, UNCHANGED traceSteps
  PROVE  UNCHANGED StoredLog
BY DEF StoredLog

(* Storage implements the append-only log: registering opens a log once,   *)
(* recording appends to it, nothing removes or rewrites an entry.          *)
THEOREM RegistryImplementsTraceLog == Spec => ImplementsTraceLog
<1>1. Init => Trace!LogInit
  BY DEF Init, Trace!LogInit, StoredLog, Verdict, NoIntent
<1>2. TypeOK /\ TypeOK' /\ RegistryInv /\ RegistryInv' /\ [Next]_vars => [Trace!LogNext]_Trace!logVars
  <2> SUFFICES ASSUME TypeOK, TypeOK', RegistryInv, RegistryInv', [Next]_vars
               PROVE  Trace!LogNext \/ UNCHANGED <<StoredLog, Verdict>>
    BY DEF Trace!logVars
  <2>1. CASE UNCHANGED recordVars
    BY <2>1 DEF recordVars, StoredLog, Verdict
  <2>2. ASSUME NEW i \in IntentIds, intents[i].status = "unknown",
               intents' = [intents EXCEPT ![i] = [status |-> "registered", stepCount |-> 0,
                                                  createdAt |-> now, updatedAt |-> now]],
               UNCHANGED <<traceSteps, stepEvents, externalEvents, now>>
        PROVE  Trace!Open(i)
    <3>1. intents[i].stepCount = 0
      BY <2>2 DEF RegistryInv, UnregisteredIsEmpty, NoIntent
    <3>2. UNCHANGED StoredLog
      BY <2>2, <3>1, LogUnchanged DEF TypeOK
    <3>3. Verdict' = [Verdict EXCEPT ![i] = "registered"] /\ Verdict[i] = "unknown"
      BY <2>2 DEF Verdict, TypeOK
    <3>4. QED
      BY <3>2, <3>3 DEF Trace!Open
  <2>3. ASSUME NEW i \in IntentIds, NEW p \in Payloads, StoreStep(i, p)
        PROVE  Trace!Extend(i, [payload |-> p, recordedAt |-> now])
    <3> DEFINE n == intents[i].stepCount
               step == [payload |-> p, recordedAt |-> now]
    <3>1. /\ intents[i].status # "unknown"
          /\ n \in StepSlots
          /\ intents' = [intents EXCEPT ![i] = [intents[i] EXCEPT !.stepCount = n + 1, !.updatedAt = now]]
          /\ traceSteps' = [traceSteps EXCEPT ![i] = [traceSteps[i] EXCEPT ![n] = step]]
      BY <2>3, StoreStepEffect
    <3>2. /\ intents'[i].stepCount = n + 1 /\ intents'[i].status = intents[i].status
          /\ \A j \in IntentIds \ {i} : intents'[j] = intents[j] /\ traceSteps'[j] = traceSteps[j]
      BY <3>1 DEF TypeOK, IntentRecords
    <3>3. /\ traceSteps'[i][n] = step
          /\ \A k \in 0..(n - 1) : traceSteps'[i][k] = traceSteps[i][k]
      BY <3>1, BoundsAssumption DEF TypeOK, StepSlots
    <3>4. Verdict' = Verdict /\ Verdict[i] # "unknown"
      BY <3>1, <3>2 DEF Verdict
    <3>5. StoredLog'[i] = Append(StoredLog[i], step)
      <4>1. /\ StoredLog[i] \in Seq(Steps) /\ Len(StoredLog[i]) = n /\ n \in Nat
            /\ \A k \in 1..n : StoredLog[i][k] = traceSteps[i][k - 1]
        BY StoredLogIsSeq
      <4>2. StoredLog'[i] = [k \in 1..(n + 1) |-> traceSteps'[i][k - 1]]
        BY <3>2 DEF StoredLog
      <4>3. \A k \in 1..(n + 1) : traceSteps'[i][k - 1] = Append(StoredLog[i], step)[k]
        <5>1. ASSUME NEW k \in 1..n PROVE traceSteps'[i][k - 1] = Append(StoredLog[i], step)[k]
          <6>1. k - 1 \in 0..(n - 1)
            BY <4>1
          <6>2. Append(StoredLog[i], step)[k] = StoredLog[i][k]
            BY <4>1
          <6>3. QED
            BY <3>3, <4>1, <6>1, <6>2
        <5>2. traceSteps'[i][(n + 1) - 1] = Append(StoredLog[i], step)[n + 1]
          BY <3>3, <4>1
        <5>3. QED
          BY <4>1, <5>1, <5>2
      <4>4. Append(StoredLog[i], step) = [k \in 1..(n + 1) |-> Append(StoredLog[i], step)[k]]
        BY <4>1
      <4>5. QED
        BY <4>2, <4>3, <4>4
    <3>6. StoredLog' = [StoredLog EXCEPT ![i] = Append(@, step)]
      <4>1. \A j \in IntentIds \ {i} : StoredLog'[j] = StoredLog[j]
        BY <3>2 DEF StoredLog
      <4>2. QED
        BY <3>5, <4>1 DEF StoredLog
    <3>7. QED
      BY <3>4, <3>6 DEF Trace!Extend
  <2>4. ASSUME NEW i \in IntentIds, NEW s \in Statuses \ {"unknown"}, intents[i].status # "unknown",
               intents' = [intents EXCEPT ![i].status = s, ![i].updatedAt = now],
               UNCHANGED <<traceSteps, stepEvents, externalEvents, now>>
        PROVE  Trace!Judge(i, s)
    <3>1. \A j \in IntentIds : intents'[j].stepCount = intents[j].stepCount
      BY <2>4 DEF TypeOK, IntentRecords
    <3>2. Verdict' = [Verdict EXCEPT ![i] = s] /\ Verdict[i] # "unknown"
      BY <2>4 DEF Verdict, TypeOK, IntentRecords
    <3>3. QED
      BY <2>4, <3>1, <3>2, LogUnchanged DEF Trace!Judge
  <2>5. ASSUME NEW p \in Payloads PROVE [payload |-> p, recordedAt |-> now] \in Steps
    BY DEF Steps, TypeOK
  <2>6. QED
    BY StepEffects, <2>1, <2>2, <2>3, <2>4, <2>5 DEF Trace!LogNext, Trace!Verdicts, Statuses
<1>3. QED
  BY <1>1, <1>2, TypeCorrect, RegistrySafe, PTL DEF Spec, ImplementsTraceLog, Trace!LogSpec
-----------------------------------------------------------------------------
(***************************************************************************)
(* The client.  Its keys are accounts of the registry, so each of its      *)
(* steps is a step of the registry or leaves the registry alone.           *)
(***************************************************************************)
TxFor(i, s) ==
  [intent |-> i, stage |-> s,
   op |-> CASE s = "register" -> "register"
            [] s \in Final -> "updateIntentStatus"
            [] OTHER -> IF s \in External THEN "recordExternalStep" ELSE "recordStep"]
Sendable == {TxFor(j, s) : j \in IntentIds, s \in Calls}

(* What the suspended call of a pipeline looks like.                       *)
CallShape(i) ==
  LET c == call[i] IN
  /\ c.phase = "ready" => c = NoCall
  /\ c.phase # "ready" => at[i] \in Calls
  /\ c.phase \in {"probe", "check", "write", "wait"} =>
       /\ c.todo > 0
       /\ at[i] \notin StageNames => c.todo = 1 /\ c.writes = <<>>
  /\ c.phase = "probe" => c.key > 0 /\ c.writes = <<>>
  /\ c.phase = "check" => at[i] = "register"
  /\ c.phase \in {"check", "write", "wait"} => c.by \in Keys
  /\ c.phase = "store" => Len(c.writes) > 0
  /\ c.phase = "store" /\ at[i] \notin StageNames => Len(c.writes) = 1

ClientShape ==
  /\ ClientTypeOK
  /\ queue \in [Keys -> Seq(Sendable)]
  /\ \A i \in IntentIds : CallShape(i)

(* A step of one pipeline that only it and the remembered key notice.      *)
Quiet(i) ==
  \/ Start(i) \/ Narrate(i) \/ SkipEmpty(i) \/ BeginCached(i) \/ BeginProbing(i)
  \/ KeyAccepted(i) \/ KeyPassed(i) \/ NoRecorder(i) \/ CheckRegistered(i)
  \/ Confirm(i) \/ Throw(i) \/ StoreWrite(i) \/ Fail(i) \/ StoreFails(i) \/ StoreRejects(i)

LEMMA KeysAreAccounts ==
  /\ Keys \subseteq Accounts
  /\ \A k \in DOMAIN Candidates : Candidates[k] \in Keys
  /\ DOMAIN Candidates \subseteq Nat
BY KeysAssumption DEF Keys

LEMMA StageSets ==
  /\ StageNames \subseteq Calls /\ StageNames \subseteq Payloads /\ "foreign" \in Payloads
  /\ Final \subseteq Calls
  /\ \A s \in StageNames : s # "register" /\ s \notin Final
BY StagesAssumption DEF StageNames, Final, Calls

LEMMA SendableIsTyped ==
  /\ Sendable \subseteq Txs
  /\ \A tx \in Sendable : tx = TxFor(tx.intent, tx.stage)
  /\ \A j \in IntentIds, s \in Calls : TxFor(j, s) \in Sendable
<1>1. ASSUME NEW j \in IntentIds, NEW s \in Calls PROVE TxFor(j, s) \in Txs
  BY DEF TxFor, Txs, Ops
<1>2. QED
  BY <1>1 DEF Sendable, TxFor

LEMMA TxOfIsTxFor == \A i \in IntentIds : TxOf(i) = TxFor(i, at[i])
BY DEF TxOf, TxFor

LEMMA StepCounts == \A s \in Calls : \A n \in StepsOf(s) \ {0} :
  n \in Nat /\ n > 0 /\ (s \notin StageNames => n = 1)
<1>1. \A s \in StageNames : MaxSteps[s] \in Nat
  BY LimitsAssumption
<1>2. {"source", "bridge", "protocol"} \subseteq StageNames
  BY DEF StageNames
<1>3. QED
  BY <1>1, <1>2 DEF StepsOf, SourceSteps, BridgeSteps, ProtocolSteps, ReceiptSteps, StageNames, Calls

LEMMA NoCallIsTyped == NoCall \in Begun /\ NoCall.phase = "ready" /\ NoCall.writes = <<>>
<1>1. <<>> \in Seq(Writes)
  OBVIOUS
<1>2. QED
  BY <1>1 DEF NoCall, Begun, Phases

(* What a step's ending does to its call.                                  *)
LEMMA DoneEffect ==
  ASSUME ClientShape, NEW i \in IntentIds, NEW kind \in Kinds, Done(i, kind),
         call[i].phase \in {"check", "write", "wait"}
  PROVE  /\ call' = [call EXCEPT ![i] = call'[i]]
         /\ call'[i] \in Begun
         /\ call'[i].writes = Append(call[i].writes, [kind |-> kind, stage |-> at[i]])
         /\ call'[i].by = call[i].by
         /\ call'[i].todo = call[i].todo - 1
         /\ call'[i].phase = IF call[i].todo = 1 THEN "store" ELSE "write"
         /\ at[i] \in Calls
<1> DEFINE c == call[i]
           w == [kind |-> kind, stage |-> at[i]]
           d == [c EXCEPT !.writes = Append(c.writes, w), !.todo = c.todo - 1,
                          !.phase = IF c.todo = 1 THEN "store" ELSE "write"]
<1>1. c \in Begun /\ at[i] \in Calls /\ c.todo > 0 /\ call \in [IntentIds -> Begun]
  BY DEF ClientShape, ClientTypeOK, CallShape
<1>2. call' = [call EXCEPT ![i] = d]
  BY <1>1 DEF Done, Begun
<1>3. call'[i] = d
  BY <1>1, <1>2
<1>4. w \in Writes
  BY <1>1 DEF Writes
<1>5. Append(c.writes, w) \in Seq(Writes)
  BY <1>1, <1>4 DEF Begun
<1>6. c.todo - 1 \in Nat
  BY <1>1 DEF Begun
<1>7. d \in Begun
  BY <1>1, <1>5, <1>6 DEF Begun, Phases
<1>8. QED
  BY <1>1, <1>2, <1>3, <1>7 DEF Begun

AtValues == Calls \union {"new", "narrate", "done", "dead"}
Results  == {"running", "succeeded", "failed"}

(* A step of one pipeline touches nothing of the others'.                  *)
OwnStep(i) ==
  /\ at' = [at EXCEPT ![i] = at'[i]]
  /\ call' = [call EXCEPT ![i] = call'[i]]
  /\ trace' = [trace EXCEPT ![i] = trace'[i]]
  /\ result' = [result EXCEPT ![i] = result'[i]]

LEMMA OwnStepKeepsShape ==
  ASSUME ClientShape, NEW i \in IntentIds, OwnStep(i), UNCHANGED <<queue, history>>,
         at'[i] \in AtValues, call'[i] \in Begun, trace'[i] \in Seq(Writes), result'[i] \in Results,
         cached' \in Keys \union {NoKey}, CallShape(i)'
  PROVE  ClientShape'
<1>1. ClientTypeOK'
  BY DEF ClientShape, ClientTypeOK, OwnStep, history, AtValues, Results
<1>2. ASSUME NEW j \in IntentIds, j # i PROVE CallShape(j)'
  <2>1. at'[j] = at[j] /\ call'[j] = call[j]
    BY <1>2 DEF OwnStep, ClientShape, ClientTypeOK
  <2>2. CallShape(j)
    BY DEF ClientShape
  <2>3. QED
    BY <2>1, <2>2 DEF CallShape
<1>3. queue' \in [Keys -> Seq(Sendable)]
  BY DEF ClientShape
<1>4. QED
  BY <1>1, <1>2, <1>3 DEF ClientShape

(* What a move to another call does.                                       *)
LEMMA MoveEffect ==
  ASSUME ClientShape, NEW i \in IntentIds, NEW s \in AtValues, MoveTo(i, s)
  PROVE  /\ at' = [at EXCEPT ![i] = at'[i]] /\ at'[i] = s
         /\ result' = [result EXCEPT ![i] = result'[i]]
         /\ result'[i] = ResultAt(s, result[i]) /\ result'[i] \in Results
<1>1. at \in [IntentIds -> AtValues] /\ result \in [IntentIds -> Results]
  BY DEF ClientShape, ClientTypeOK, AtValues, Results
<1>2. ResultAt(s, result[i]) \in Results
  BY <1>1 DEF ResultAt, Results
<1>3. QED
  BY <1>1, <1>2 DEF MoveTo

LEMMA NextCalls ==
  /\ \A s \in Calls : \A t \in AfterCall[s] : t \in AtValues
  /\ \A s \in AtValues : AfterReject(s) \in {"failed", "caught"}
  /\ {"failed", "caught"} \subseteq AtValues
BY DEF AfterCall, Calls, Final, StageNames, AtValues, AfterReject

LEMMA ShapeFacts ==
  ASSUME ClientShape, NEW i \in IntentIds
  PROVE  /\ at \in [IntentIds -> AtValues] /\ at[i] \in AtValues
         /\ call \in [IntentIds -> Begun] /\ call[i] \in Begun /\ CallShape(i)
         /\ trace \in [IntentIds -> Seq(Writes)] /\ trace[i] \in Seq(Writes)
         /\ result \in [IntentIds -> Results] /\ result[i] \in Results
         /\ cached \in Keys \union {NoKey}
BY DEF ClientShape, ClientTypeOK, AtValues, Results

(* The steps between two calls.                                            *)
LEMMA MovesKeepShape ==
  ASSUME ClientShape, NEW i \in IntentIds, Start(i) \/ Narrate(i) \/ SkipEmpty(i) \/ Fail(i)
  PROVE  ClientShape' /\ OwnStep(i) /\ UNCHANGED <<vars, queue, history, call, trace>>
<1>1. PICK s \in AtValues : MoveTo(i, s)
  <2>1. CASE Start(i)
    BY <2>1 DEF Start, AtValues, Calls
  <2>2. CASE Narrate(i)
    BY <2>2 DEF Narrate, AtValues
  <2>3. CASE SkipEmpty(i)
    BY <2>3, NextCalls DEF SkipEmpty
  <2>4. CASE Fail(i)
    BY <2>4, NextCalls, ShapeFacts DEF Fail
  <2>5. QED
    BY <2>1, <2>2, <2>3, <2>4
<1>2. UNCHANGED <<vars, queue, history, call, trace, cached>>
  BY DEF Start, Narrate, SkipEmpty, Fail
<1>3. call[i].phase = "ready"
  BY ShapeFacts DEF Start, Narrate, SkipEmpty, Fail, CallShape, Calls, StageNames, Final
<1>4. OwnStep(i) /\ at'[i] \in AtValues /\ result'[i] \in Results
  BY <1>1, <1>2, MoveEffect, ShapeFacts DEF OwnStep
<1>5. CallShape(i)'
  BY <1>2, <1>3, ShapeFacts, NoCallIsTyped DEF CallShape
<1>6. QED
  BY <1>2, <1>4, <1>5, OwnStepKeepsShape, ShapeFacts

(* The steps from the beginning of a call to its first transaction.        *)
LEMMA SearchKeepsShape ==
  ASSUME ClientShape, NEW i \in IntentIds,
         BeginCached(i) \/ BeginProbing(i) \/ KeyAccepted(i) \/ KeyPassed(i) \/ NoRecorder(i)
  PROVE  /\ ClientShape' /\ OwnStep(i) /\ UNCHANGED <<vars, queue, history, at, trace, result>>
         /\ call[i].phase \in {"ready", "probe"} /\ call[i].writes = <<>>
         /\ \/ call'[i].phase \in {"probe", "check", "write"} /\ call'[i].writes = <<>>
            \/ /\ call'[i].phase = "store"
               /\ call'[i].writes = <<[kind |-> "skipped", stage |-> at[i]]>>
<1> DEFINE c == call[i]
<1>1. UNCHANGED <<vars, queue, history, at, trace, result>>
  BY DEF BeginCached, BeginProbing, KeyAccepted, KeyPassed, NoRecorder
<1>2. at[i] \in Calls
  BY ShapeFacts DEF BeginCached, BeginProbing, KeyAccepted, KeyPassed, NoRecorder, CallShape
<1>3. FirstPhase(at[i]) \in {"check", "write"} /\ (FirstPhase(at[i]) = "check" => at[i] = "register")
  BY DEF FirstPhase
<1>4. c \in Begun /\ call \in [IntentIds -> Begun] /\ CallShape(i)
  BY ShapeFacts
<1>5. NoCall \in Begun /\ NoCall = [phase |-> "ready", key |-> 0, by |-> NoKey, todo |-> 0, writes |-> <<>>]
  BY NoCallIsTyped DEF NoCall
<1>6. ASSUME NEW d \in Begun, call' = [call EXCEPT ![i] = d],
             \/ /\ d.phase \in {"probe", "check", "write"} /\ d.todo > 0
                /\ at[i] \notin StageNames => d.todo = 1
                /\ d.writes = <<>>
                /\ d.phase = "probe" => d.key > 0
                /\ d.phase = "check" => at[i] = "register"
                /\ d.phase \in {"check", "write"} => d.by \in Keys
             \/ d.phase = "store" /\ d.writes = <<[kind |-> "skipped", stage |-> at[i]]>>,
             cached' \in Keys \union {NoKey},
             c.phase \in {"ready", "probe"}
      PROVE  /\ ClientShape' /\ OwnStep(i)
             /\ c.phase \in {"ready", "probe"} /\ c.writes = <<>>
             /\ \/ call'[i].phase \in {"probe", "check", "write"} /\ call'[i].writes = <<>>
                \/ /\ call'[i].phase = "store"
                   /\ call'[i].writes = <<[kind |-> "skipped", stage |-> at[i]]>>
  <2>1. call'[i] = d
    BY <1>4, <1>6
  <2>2. OwnStep(i)
    BY <1>1, <1>6, <2>1, ShapeFacts DEF OwnStep
  <2>3. CallShape(i)'
    <3>1. at'[i] = at[i]
      BY <1>1
    <3>2. CASE d.phase \in {"probe", "check", "write"}
      BY <1>2, <1>6, <2>1, <3>1, <3>2 DEF CallShape
    <3>3. CASE d.phase = "store"
      <4>1. Len(d.writes) = 1
        BY <1>6, <3>3
      <4>2. QED
        BY <1>2, <2>1, <3>1, <3>3, <4>1 DEF CallShape
    <3>4. QED
      BY <1>6, <3>2, <3>3
  <2>4. ClientShape'
    BY <1>1, <1>6, <2>1, <2>2, <2>3, OwnStepKeepsShape, ShapeFacts
  <2>5. c.writes = <<>>
    BY <1>4, <1>5, <1>6 DEF CallShape
  <2>6. QED
    BY <1>6, <2>1, <2>2, <2>4, <2>5
<1>7. CASE BeginCached(i)
  <2>1. PICK n \in StepsOf(at[i]) \ {0} :
          call' = [call EXCEPT ![i] = [NoCall EXCEPT !.phase = FirstPhase(at[i]),
                                                    !.by = cached, !.todo = n]]
    BY <1>7 DEF BeginCached
  <2> DEFINE d == [NoCall EXCEPT !.phase = FirstPhase(at[i]), !.by = cached, !.todo = n]
  <2>2. call' = [call EXCEPT ![i] = d]
    BY <2>1
  <2>3. n \in Nat /\ n > 0 /\ (at[i] \notin StageNames => n = 1)
    BY <1>2, StepCounts
  <2>4. cached \in Keys /\ c.phase = "ready" /\ cached' = cached
    BY <1>7, ShapeFacts DEF BeginCached
  <2>5. d \in Begun
    BY <1>3, <1>5, <2>3, <2>4 DEF Begun, Phases
  <2>6. d.phase = FirstPhase(at[i]) /\ d.todo = n /\ d.by = cached /\ d.writes = <<>>
    BY <1>5 DEF Begun
  <2> HIDE DEF d
  <2>7. QED
    BY <1>1, <1>3, <1>6, <2>2, <2>3, <2>4, <2>5, <2>6
<1>8. CASE BeginProbing(i)
  <2>1. PICK n \in StepsOf(at[i]) \ {0} :
          call' = [call EXCEPT ![i] = [NoCall EXCEPT !.phase = "probe", !.key = 1, !.todo = n]]
    BY <1>8 DEF BeginProbing
  <2> DEFINE d == [NoCall EXCEPT !.phase = "probe", !.key = 1, !.todo = n]
  <2>2. call' = [call EXCEPT ![i] = d]
    BY <2>1
  <2>3. n \in Nat /\ n > 0 /\ (at[i] \notin StageNames => n = 1)
    BY <1>2, StepCounts
  <2>4. c.phase = "ready" /\ cached' \in Keys \union {NoKey}
    BY <1>8, ShapeFacts DEF BeginProbing
  <2>5. d \in Begun
    BY <1>5, <2>3 DEF Begun, Phases
  <2>6. d.phase = "probe" /\ d.todo = n /\ d.key > 0 /\ d.writes = <<>>
    BY <1>5 DEF Begun
  <2> HIDE DEF d
  <2>7. QED
    BY <1>1, <1>6, <2>2, <2>3, <2>4, <2>5, <2>6
<1>9. CASE KeyAccepted(i)
  <2> DEFINE k == Candidates[c.key]
             d == [c EXCEPT !.phase = FirstPhase(at[i]), !.by = k]
  <2>1. k \in Keys /\ cached' = k /\ c.phase = "probe"
    BY <1>9, KeysAreAccounts DEF KeyAccepted
  <2>2. call' = [call EXCEPT ![i] = d]
    BY <1>4, <1>9 DEF KeyAccepted, Begun
  <2>3. d \in Begun
    BY <1>3, <1>4, <2>1 DEF Begun, Phases
  <2>4. d.todo = c.todo /\ d.writes = c.writes /\ d.by = k /\ d.phase = FirstPhase(at[i])
    BY <1>4 DEF Begun
  <2>5. QED
    BY <1>1, <1>3, <1>4, <1>6, <2>1, <2>2, <2>3, <2>4 DEF CallShape
<1>10. CASE KeyPassed(i)
  <2> DEFINE d == [c EXCEPT !.key = c.key + 1]
  <2>1. call' = [call EXCEPT ![i] = d] /\ c.phase = "probe" /\ cached' \in Keys \union {NoKey}
    BY <1>4, <1>10, ShapeFacts DEF KeyPassed, Begun
  <2>2. c.key + 1 \in Nat /\ c.key + 1 > 0
    BY <1>4 DEF Begun
  <2>3. d \in Begun /\ d.todo = c.todo /\ d.writes = c.writes /\ d.phase = c.phase /\ d.key > 0
    BY <1>4, <2>2 DEF Begun
  <2>4. QED
    BY <1>1, <1>4, <1>6, <2>1, <2>2, <2>3 DEF CallShape
<1>11. CASE NoRecorder(i)
  <2> DEFINE w == [kind |-> "skipped", stage |-> at[i]]
             d == [c EXCEPT !.phase = "store", !.todo = 0, !.writes = <<w>>]
  <2>1. call' = [call EXCEPT ![i] = d] /\ c.phase = "probe" /\ cached' \in Keys \union {NoKey}
    BY <1>4, <1>11, ShapeFacts DEF NoRecorder, Begun
  <2>2. w \in Writes
    BY <1>2 DEF Writes, Kinds
  <2>3. <<w>> \in Seq(Writes)
    BY <2>2
  <2>4. d \in Begun
    BY <1>4, <2>3 DEF Begun, Phases
  <2>5. d.phase = "store" /\ d.writes = <<w>>
    BY <1>4 DEF Begun
  <2>6. QED
    BY <1>1, <1>6, <2>1, <2>4, <2>5
<1>12. QED
  BY <1>1, <1>7, <1>8, <1>9, <1>10, <1>11

(* The steps from a call's first transaction to its last.                  *)
LEMMA WritingKeepsShape ==
  ASSUME ClientShape, NEW i \in IntentIds, CheckRegistered(i) \/ Confirm(i) \/ Throw(i)
  PROVE  /\ ClientShape' /\ OwnStep(i) /\ UNCHANGED <<vars, queue, history, at, trace, result, cached>>
         /\ at[i] \in Calls /\ call[i].phase \in {"check", "write", "wait"}
         /\ \/ /\ CheckRegistered(i) /\ intents[i].status = "unknown"
               /\ call'[i].phase = "write" /\ call'[i].writes = call[i].writes
            \/ /\ call'[i].phase \in {"write", "store"}
               /\ at[i] \notin StageNames => call'[i].phase = "store"
               /\ \E kind \in Kinds :
                    /\ call'[i].writes = Append(call[i].writes, [kind |-> kind, stage |-> at[i]])
                    /\ \/ CheckRegistered(i) /\ intents[i].status # "unknown" /\ kind = "register"
                       \/ Throw(i) /\ kind = "error"
                       \/ /\ Confirm(i) /\ ~Pending(i, call[i].by) /\ call[i].phase = "wait"
                          /\ kind = (CASE at[i] = "register" -> "register"
                                       [] at[i] \in Final -> "status" [] OTHER -> "step")
<1> DEFINE c == call[i]
<1>1. UNCHANGED <<vars, queue, history, at, trace, result, cached>>
  BY DEF CheckRegistered, Confirm, Throw
<1>2. c.phase \in {"check", "write", "wait"}
  BY DEF CheckRegistered, Confirm, Throw
<1>3. c \in Begun /\ call \in [IntentIds -> Begun] /\ CallShape(i) /\ at[i] \in Calls
  BY <1>2, ShapeFacts DEF CallShape
<1>4. ASSUME NEW kind \in Kinds, Done(i, kind)
      PROVE  /\ ClientShape' /\ OwnStep(i)
             /\ call'[i].phase \in {"write", "store"}
             /\ at[i] \notin StageNames => call'[i].phase = "store"
             /\ call'[i].writes = Append(c.writes, [kind |-> kind, stage |-> at[i]])
  <2> DEFINE d == call'[i]
             w == [kind |-> kind, stage |-> at[i]]
  <2>1. /\ call' = [call EXCEPT ![i] = d] /\ d \in Begun
        /\ d.writes = Append(c.writes, w) /\ d.by = c.by /\ d.todo = c.todo - 1
        /\ d.phase = IF c.todo = 1 THEN "store" ELSE "write"
    BY <1>2, <1>4, DoneEffect
  <2>2. w \in Writes /\ c.writes \in Seq(Writes) /\ c.todo \in Nat
    BY <1>3 DEF Writes, Begun
  <2>3. Len(d.writes) = Len(c.writes) + 1 /\ Len(c.writes) \in Nat
    BY <2>1, <2>2
  <2>4. c.todo > 0 /\ c.by \in Keys /\ (at[i] \notin StageNames => c.todo = 1 /\ c.writes = <<>>)
    BY <1>2, <1>3 DEF CallShape
  <2>5. d.phase = "write" => d.todo > 0 /\ at[i] \in StageNames
    BY <2>1, <2>2, <2>4
  <2>6. at[i] \notin StageNames => Len(d.writes) = 1
    BY <2>3, <2>4
  <2>7. at'[i] = at[i]
    BY <1>1
  <2> HIDE DEF d, w
  <2>8. CallShape(i)'
    <3>1. d.phase \in {"write", "store"} /\ d = call'[i]
      BY <2>1 DEF d
    <3>2. CASE d.phase = "write"
      BY <1>3, <2>1, <2>4, <2>5, <2>7, <3>1, <3>2 DEF CallShape
    <3>3. CASE d.phase = "store"
      <4>1. Len(d.writes) > 0
        BY <2>3
      <4>2. QED
        BY <1>3, <2>6, <2>7, <3>1, <3>3, <4>1 DEF CallShape
    <3>4. QED
      BY <3>1, <3>2, <3>3
  <2>9. OwnStep(i)
    BY <1>1, <2>1, ShapeFacts DEF OwnStep, d
  <2>10. ClientShape'
    BY <1>1, <2>1, <2>8, <2>9, OwnStepKeepsShape, ShapeFacts DEF d
  <2>11. QED
    BY <2>1, <2>4, <2>9, <2>10 DEF d, w
<1>5. CASE CheckRegistered(i)
  <2>1. CASE intents[i].status = "unknown"
    <3> DEFINE d == [c EXCEPT !.phase = "write"]
    <3>1. call' = [call EXCEPT ![i] = d]
      BY <1>3, <1>5, <2>1 DEF CheckRegistered, Begun
    <3>2. d \in Begun /\ d.phase = "write" /\ d.writes = c.writes /\ d.todo = c.todo /\ d.by = c.by
      BY <1>3 DEF Begun, Phases
    <3>3. call'[i] = d /\ at'[i] = at[i]
      BY <1>1, <1>3, <3>1
    <3> HIDE DEF d
    <3>4. CallShape(i)'
      BY <1>2, <1>3, <3>2, <3>3 DEF CallShape
    <3>5. OwnStep(i)
      BY <1>1, <3>1, <3>3, ShapeFacts DEF OwnStep
    <3>6. ClientShape'
      BY <1>1, <3>2, <3>3, <3>4, <3>5, OwnStepKeepsShape, ShapeFacts
    <3>7. QED
      BY <1>1, <1>2, <1>3, <1>5, <2>1, <3>2, <3>3, <3>5, <3>6
  <2>2. CASE intents[i].status # "unknown"
    <3>1. Done(i, "register") /\ "register" \in Kinds
      BY <1>5, <2>2 DEF CheckRegistered, Kinds
    <3>2. QED
      BY <1>1, <1>2, <1>3, <1>4, <1>5, <2>2, <3>1
  <2>3. QED
    BY <2>1, <2>2
<1>6. CASE Confirm(i)
  <2> DEFINE kind == CASE at[i] = "register" -> "register" [] at[i] \in Final -> "status" [] OTHER -> "step"
  <2>1. Done(i, kind) /\ kind \in Kinds /\ ~Pending(i, c.by) /\ c.phase = "wait"
    BY <1>6 DEF Confirm, Kinds
  <2> HIDE DEF kind
  <2>2. QED
    BY <1>1, <1>2, <1>3, <1>4, <1>6, <2>1 DEF kind
<1>7. CASE Throw(i)
  <2>1. Done(i, "error") /\ "error" \in Kinds
    BY <1>7 DEF Throw, Kinds
  <2>2. QED
    BY <1>1, <1>2, <1>3, <1>4, <1>7, <2>1
<1>8. QED
  BY <1>5, <1>6, <1>7

(* The merging of a call's writes into the receipt.                        *)
LEMMA StoringKeepsShape ==
  ASSUME ClientShape, NEW i \in IntentIds, StoreWrite(i) \/ StoreFails(i) \/ StoreRejects(i)
  PROVE  /\ ClientShape' /\ OwnStep(i) /\ UNCHANGED <<vars, queue, history, cached>>
         /\ call[i].phase = "store" /\ at[i] \in Calls
         /\ \/ /\ UNCHANGED <<at, result>> /\ StoreWrite(i) /\ call'[i].phase = "store"
               /\ trace'[i] = Append(trace[i], Head(call[i].writes))
               /\ Len(call[i].writes) > 1 /\ call'[i].writes = Tail(call[i].writes)
            \/ /\ call'[i] = NoCall
               /\ \/ /\ StoreWrite(i) /\ trace'[i] = Append(trace[i], Head(call[i].writes))
                     /\ Len(call[i].writes) = 1 /\ at'[i] \in AfterCall[at[i]]
                  \/ /\ StoreFails(i) /\ at'[i] \in AfterCall[at[i]]
                     /\ trace'[i] = Append(trace[i], [kind |-> "error", stage |-> at[i]])
                  \/ /\ StoreRejects(i) /\ at'[i] \in {"failed", "caught"} /\ trace'[i] = trace[i]
               /\ result'[i] = ResultAt(at'[i], result[i])
<1> DEFINE c == call[i]
<1>1. UNCHANGED <<vars, queue, history, cached>> /\ c.phase = "store"
  BY DEF StoreWrite, StoreFails, StoreRejects
<1>2. /\ c \in Begun /\ call \in [IntentIds -> Begun] /\ CallShape(i) /\ at[i] \in Calls
      /\ trace \in [IntentIds -> Seq(Writes)] /\ trace[i] \in Seq(Writes)
  BY <1>1, ShapeFacts DEF CallShape
<1>3. c.writes \in Seq(Writes) /\ Len(c.writes) \in Nat /\ Len(c.writes) > 0 /\ Head(c.writes) \in Writes
      /\ (at[i] \notin StageNames => Len(c.writes) = 1)
  <2>1. c.writes \in Seq(Writes) /\ Len(c.writes) > 0 /\ (at[i] \notin StageNames => Len(c.writes) = 1)
    BY <1>1, <1>2 DEF Begun, CallShape
  <2>2. QED
    BY <2>1
<1>4. ASSUME NEW s \in AtValues, MoveTo(i, s), call' = [call EXCEPT ![i] = NoCall],
             NEW t \in Seq(Writes), trace' = [trace EXCEPT ![i] = t]
      PROVE  /\ ClientShape' /\ OwnStep(i) /\ call'[i] = NoCall /\ trace'[i] = t
             /\ at'[i] = s /\ result'[i] = ResultAt(s, result[i])
  <2>1. call'[i] = NoCall /\ trace'[i] = t
    BY <1>2, <1>4
  <2>2. OwnStep(i) /\ at'[i] = s /\ result'[i] = ResultAt(s, result[i]) /\ result'[i] \in Results
    BY <1>4, <2>1, MoveEffect DEF OwnStep
  <2>3. CallShape(i)'
    BY <2>1, NoCallIsTyped DEF CallShape
  <2>4. ClientShape'
    BY <1>1, <2>1, <2>2, <2>3, OwnStepKeepsShape, ShapeFacts, NoCallIsTyped
  <2>5. QED
    BY <2>1, <2>2, <2>4
<1>5. CASE StoreWrite(i)
  <2> DEFINE t == Append(trace[i], Head(c.writes))
  <2>1. t \in Seq(Writes)
    BY <1>2, <1>3
  <2>2. trace' = [trace EXCEPT ![i] = t]
    BY <1>5 DEF StoreWrite
  <2>3. CASE Len(c.writes) > 1
    <3> DEFINE d == [c EXCEPT !.writes = Tail(c.writes)]
    <3>1. call' = [call EXCEPT ![i] = d] /\ UNCHANGED <<at, result>>
      BY <1>2, <1>5, <2>3 DEF StoreWrite, Begun
    <3>2. Tail(c.writes) \in Seq(Writes) /\ Len(Tail(c.writes)) > 0
      BY <1>3, <2>3
    <3>3. d \in Begun /\ d.phase = "store" /\ d.writes = Tail(c.writes)
      BY <1>1, <1>2, <3>2 DEF Begun
    <3>4. call'[i] = d /\ at'[i] = at[i] /\ trace'[i] = t
      BY <1>2, <2>2, <3>1
    <3> HIDE DEF d
    <3>5. at[i] \in StageNames
      <4> DEFINE n == Len(c.writes)
      <4>1. n \in Nat /\ n > 1 /\ (at[i] \notin StageNames => n = 1)
        BY <1>3, <2>3
      <4> HIDE DEF n
      <4>2. QED
        BY <4>1
    <3>6. CallShape(i)'
      BY <1>2, <3>2, <3>3, <3>4, <3>5 DEF CallShape
    <3>7. OwnStep(i)
      BY <2>2, <3>1, <3>4, ShapeFacts DEF OwnStep
    <3>8. ClientShape'
      BY <1>1, <2>1, <3>1, <3>3, <3>4, <3>6, <3>7, OwnStepKeepsShape, ShapeFacts
    <3>9. QED
      BY <1>1, <1>2, <1>5, <2>3, <3>1, <3>3, <3>4, <3>7, <3>8
  <2>4. CASE ~(Len(c.writes) > 1)
    <3>1. PICK s \in AfterCall[at[i]] : MoveTo(i, s) /\ call' = [call EXCEPT ![i] = NoCall]
      BY <1>5, <2>4 DEF StoreWrite
    <3>2. s \in AtValues
      BY <1>2, NextCalls
    <3>3. Len(c.writes) = 1
      <4> DEFINE n == Len(c.writes)
      <4>1. n \in Nat /\ n > 0 /\ ~(n > 1)
        BY <1>3, <2>4
      <4> HIDE DEF n
      <4>2. n = 1
        BY <4>1
      <4>3. QED
        BY <4>2 DEF n
    <3>4. QED
      BY <1>1, <1>2, <1>4, <1>5, <2>1, <2>2, <3>1, <3>2, <3>3
  <2>5. QED
    BY <2>3, <2>4
<1>6. CASE StoreFails(i)
  <2> DEFINE w == [kind |-> "error", stage |-> at[i]]
             t == Append(trace[i], w)
  <2>1. w \in Writes
    BY <1>2 DEF Writes, Kinds
  <2>2. t \in Seq(Writes)
    BY <1>2, <2>1
  <2>3. PICK s \in AfterCall[at[i]] :
          MoveTo(i, s) /\ call' = [call EXCEPT ![i] = NoCall] /\ trace' = [trace EXCEPT ![i] = t]
    BY <1>6 DEF StoreFails
  <2>4. s \in AtValues
    BY <1>2, NextCalls
  <2>5. QED
    BY <1>1, <1>2, <1>4, <1>6, <2>2, <2>3, <2>4
<1>7. CASE StoreRejects(i)
  <2>1. /\ MoveTo(i, AfterReject(at[i])) /\ call' = [call EXCEPT ![i] = NoCall]
        /\ trace' = [trace EXCEPT ![i] = trace[i]]
    BY <1>2, <1>7 DEF StoreRejects
  <2>2. AfterReject(at[i]) \in {"failed", "caught"} /\ AfterReject(at[i]) \in AtValues
    BY NextCalls, ShapeFacts
  <2>3. QED
    BY <1>1, <1>2, <1>4, <1>7, <2>1, <2>2
<1>8. QED
  BY <1>5, <1>6, <1>7

LEMMA QuietKeepsShape ==
  ASSUME ClientShape, NEW i \in IntentIds, Quiet(i)
  PROVE  ClientShape' /\ OwnStep(i) /\ UNCHANGED <<vars, queue, history>>
BY MovesKeepShape, SearchKeepsShape, WritingKeepsShape, StoringKeepsShape DEF Quiet

(* A transaction is sent.                                                  *)
LEMMA SendEffect ==
  ASSUME ClientShape, NEW i \in IntentIds, Send(i)
  PROVE  LET a == call[i].by IN
         /\ ClientShape' /\ UNCHANGED <<vars, at, trace, result, cached, others, upset>>
         /\ a \in Keys /\ Accepts(a, TxOf(i)) /\ at[i] \in Calls
         /\ call[i].phase = "write" /\ call'[i].phase = "wait"
         /\ call'[i].by = a /\ call'[i].writes = call[i].writes
         /\ \A j \in IntentIds : j # i => call'[j] = call[j] /\ signers'[j] = signers[j]
         /\ signers'[i] = signers[i] \union {a}
         /\ Len(queue'[a]) = Len(queue[a]) + 1 /\ Len(queue[a]) \in Nat
         /\ queue'[a][Len(queue[a]) + 1] = TxFor(i, at[i])
         /\ \A k \in 1..Len(queue[a]) : queue'[a][k] = queue[a][k]
         /\ \A b \in Keys : b # a => queue'[b] = queue[b]
<1> DEFINE c == call[i]
           a == c.by
           d == [c EXCEPT !.phase = "wait"]
<1>1. /\ c \in Begun /\ call \in [IntentIds -> Begun] /\ CallShape(i) /\ c.phase = "write"
      /\ queue \in [Keys -> Seq(Sendable)] /\ signers \in [IntentIds -> SUBSET Keys]
  BY ShapeFacts DEF ClientShape, ClientTypeOK, Send
<1>2. a \in Keys /\ at[i] \in Calls
  BY <1>1 DEF CallShape
<1>3. TxOf(i) = TxFor(i, at[i]) /\ TxOf(i) \in Sendable
  BY <1>2, SendableIsTyped, TxOfIsTxFor
<1>4. /\ queue' = [queue EXCEPT ![a] = Append(queue[a], TxOf(i))]
      /\ signers' = [signers EXCEPT ![i] = signers[i] \union {a}]
      /\ UNCHANGED <<vars, at, trace, result, cached, others, upset>>
      /\ Accepts(a, TxOf(i))
  BY DEF Send
<1>5. call' = [call EXCEPT ![i] = d]
  BY <1>1 DEF Send, Begun
<1>6. d \in Begun /\ d.phase = "wait" /\ d.by = a /\ d.writes = c.writes /\ d.todo = c.todo
  BY <1>1 DEF Begun, Phases
<1>7. call'[i] = d /\ \A j \in IntentIds : j # i => call'[j] = call[j]
  BY <1>1, <1>5
<1> HIDE DEF d
<1>8. Append(queue[a], TxOf(i)) \in Seq(Sendable)
  BY <1>1, <1>2, <1>3
<1>9. queue' \in [Keys -> Seq(Sendable)] /\ queue' \in [Keys -> Seq(Txs)]
  <2>1. queue' \in [Keys -> Seq(Sendable)]
    BY <1>1, <1>2, <1>4, <1>8
  <2>2. \A b \in Keys : queue'[b] \in Seq(Txs)
    BY <2>1, SendableIsTyped, SeqMonotonic
  <2>3. QED
    BY <2>1, <2>2
<1>10. signers' \in [IntentIds -> SUBSET Keys] /\ signers'[i] = signers[i] \union {a}
  BY <1>1, <1>2, <1>4
<1>11. call' \in [IntentIds -> Begun]
  BY <1>1, <1>5, <1>6
<1>12. ClientTypeOK'
  BY <1>4, <1>9, <1>10, <1>11 DEF ClientShape, ClientTypeOK
<1>13. CallShape(i)'
  BY <1>1, <1>2, <1>4, <1>6, <1>7 DEF CallShape
<1>14. ASSUME NEW j \in IntentIds, j # i PROVE CallShape(j)'
  BY <1>4, <1>7, <1>14, ShapeFacts DEF CallShape
<1>15. ClientShape'
  BY <1>9, <1>12, <1>13, <1>14 DEF ClientShape
<1>16. /\ queue'[a] = Append(queue[a], TxOf(i)) /\ queue[a] \in Seq(Sendable)
       /\ \A b \in Keys : b # a => queue'[b] = queue[b]
  BY <1>1, <1>2, <1>4
<1>17. /\ Len(queue'[a]) = Len(queue[a]) + 1 /\ Len(queue[a]) \in Nat
       /\ queue'[a][Len(queue[a]) + 1] = TxFor(i, at[i])
       /\ \A k \in 1..Len(queue[a]) : queue'[a][k] = queue[a][k]
  BY <1>3, <1>16, AppendProperties, LenProperties
<1>18. \A j \in IntentIds : j # i => signers'[j] = signers[j]
  BY <1>1, <1>4
<1>19. QED
  BY <1>1, <1>2, <1>4, <1>6, <1>7, <1>10, <1>15, <1>16, <1>17, <1>18

LEMMA ExitEffect ==
  ASSUME ClientShape, Exit
  PROVE  /\ ClientShape' /\ UNCHANGED <<vars, trace, result, queue, history>>
         /\ \A i \in IntentIds :
              /\ call'[i] = NoCall
              /\ (at'[i] = at[i] /\ at[i] \in {"new", "done"}) \/ at'[i] = "dead"
<1>1. UNCHANGED <<vars, trace, result, queue, history>> /\ cached' = NoKey
  BY DEF Exit
<1>2. ASSUME NEW i \in IntentIds
      PROVE  /\ call'[i] = NoCall
             /\ at'[i] \in AtValues
             /\ (at'[i] = at[i] /\ at[i] \in {"new", "done"}) \/ at'[i] = "dead"
  BY DEF Exit, AtValues
<1>3. at' \in [IntentIds -> AtValues] /\ call' \in [IntentIds -> Begun]
  BY <1>2, NoCallIsTyped DEF Exit
<1>4. ClientTypeOK'
  BY <1>1, <1>3 DEF ClientShape, ClientTypeOK, history, AtValues
<1>5. ASSUME NEW i \in IntentIds PROVE CallShape(i)'
  BY <1>2, NoCallIsTyped DEF CallShape
<1>6. QED
  BY <1>1, <1>2, <1>4, <1>5 DEF ClientShape

(* What others do, and what is mined, leaves the pipelines where they are.  *)
LEMMA OutsideKeepsShape ==
  ASSUME ClientShape, UNCHANGED <<at, call, trace, result, cached>>,
         queue' \in [Keys -> Seq(Sendable)], others' \in 0..MaxOthers,
         upset' \in [IntentIds -> BOOLEAN], signers' = signers
  PROVE  ClientShape'
<1>1. queue' \in [Keys -> Seq(Txs)]
  <2>1. \A b \in Keys : queue'[b] \in Seq(Txs)
    BY SendableIsTyped, SeqMonotonic
  <2>2. QED
    BY <2>1
<1>2. ClientTypeOK'
  BY <1>1 DEF ClientShape, ClientTypeOK
<1>3. \A i \in IntentIds : CallShape(i)'
  BY DEF ClientShape, CallShape
<1>4. QED
  BY <1>2, <1>3 DEF ClientShape
-----------------------------------------------------------------------------
(* What a transaction of the registry does to one intent's records.        *)
Left(j) == intents'[j] = intents[j] /\ traceSteps'[j] = traceSteps[j]
Opened(j) ==
  /\ intents[j].status = "unknown" /\ intents[j].stepCount = 0
  /\ intents'[j].status = "registered" /\ intents'[j].stepCount = 0
  /\ traceSteps'[j] = traceSteps[j]
Extended(j, p) ==
  /\ intents[j].status # "unknown" /\ intents'[j].status = intents[j].status
  /\ intents[j].stepCount < MaxStepCount
  /\ intents'[j].stepCount = intents[j].stepCount + 1
  /\ traceSteps'[j][intents[j].stepCount].payload = p
  /\ \A k \in 0..(intents[j].stepCount - 1) : traceSteps'[j][k] = traceSteps[j][k]
Judged(j, s) ==
  /\ intents[j].status # "unknown" /\ intents'[j].status = s
  /\ intents'[j].stepCount = intents[j].stepCount
  /\ traceSteps'[j] = traceSteps[j]
OnlyWrites(j) ==
  /\ UNCHANGED <<recorders, paused>>
  /\ \A i \in IntentIds : i # j => Left(i)

LEMMA RecordTypes ==
  ASSUME TypeOK, NEW i \in IntentIds
  PROVE  /\ intents[i] \in IntentRecords /\ intents[i].stepCount \in Nat /\ MaxStepCount \in Nat
         /\ intents[i].stepCount <= MaxStepCount /\ intents[i].status \in Statuses
         /\ intents \in [IntentIds -> IntentRecords]
         /\ traceSteps \in [IntentIds -> [StepSlots -> Steps \union {Unwritten}]]
BY BoundsAssumption DEF TypeOK, IntentRecords

LEMMA RegisterEffect ==
  ASSUME TypeOK, RegistryInv, NEW i \in IntentIds, NEW caller, RegisterIntent(caller, i)
  PROVE  Opened(i) /\ OnlyWrites(i)
<1>1. intents[i].stepCount = 0
  BY DEF RegisterIntent, RegistryInv, UnregisteredIsEmpty, NoIntent
<1>2. QED
  BY <1>1, RecordTypes DEF RegisterIntent, Opened, OnlyWrites, Left, authVars

LEMMA StepEffect ==
  ASSUME TypeOK, NEW i \in IntentIds, NEW caller, NEW p \in Payloads,
         RecordStep(caller, i, p) \/ RecordExternalStep(caller, i, p)
  PROVE  Extended(i, p) /\ OnlyWrites(i)
<1> DEFINE n == intents[i].stepCount
           step == [payload |-> p, recordedAt |-> now]
<1>1. StoreStep(i, p) /\ UNCHANGED <<recorders, paused>> /\ n + 1 <= MaxStepCount
  BY DEF RecordStep, RecordExternalStep, authVars, StoreStep
<1>2. /\ intents[i].status # "unknown" /\ n \in StepSlots
      /\ intents' = [intents EXCEPT ![i] = [intents[i] EXCEPT !.stepCount = n + 1, !.updatedAt = now]]
      /\ traceSteps' = [traceSteps EXCEPT ![i] = [traceSteps[i] EXCEPT ![n] = step]]
  BY <1>1, StoreStepEffect
<1>3. /\ intents'[i].stepCount = n + 1 /\ intents'[i].status = intents[i].status
      /\ \A j \in IntentIds : j # i => intents'[j] = intents[j]
  BY <1>2, RecordTypes DEF IntentRecords
<1>4. /\ traceSteps'[i] = [traceSteps[i] EXCEPT ![n] = step]
      /\ \A j \in IntentIds : j # i => traceSteps'[j] = traceSteps[j]
  BY <1>2, RecordTypes
<1>5. n \in Nat /\ MaxStepCount \in Nat /\ traceSteps[i] \in [StepSlots -> Steps \union {Unwritten}]
  BY RecordTypes
<1>6. traceSteps'[i][n].payload = p
  BY <1>2, <1>4, <1>5
<1>7. \A k \in 0..(n - 1) : traceSteps'[i][k] = traceSteps[i][k]
  BY <1>2, <1>4, <1>5 DEF StepSlots
<1>8. n < MaxStepCount
  BY <1>1, <1>5
<1>9. QED
  BY <1>1, <1>2, <1>3, <1>4, <1>6, <1>7, <1>8 DEF Extended, OnlyWrites, Left

LEMMA UpdateEffect ==
  ASSUME TypeOK, NEW i \in IntentIds, NEW caller, NEW s, UpdateIntentStatus(caller, i, s)
  PROVE  Judged(i, s) /\ OnlyWrites(i)
<1>1. intents' = [intents EXCEPT ![i] = [intents[i] EXCEPT !.status = s, !.updatedAt = now]]
  BY RecordTypes DEF UpdateIntentStatus, IntentRecords
<1>2. intents'[i].status = s /\ intents'[i].stepCount = intents[i].stepCount
      /\ \A j \in IntentIds : j # i => intents'[j] = intents[j]
  BY <1>1, RecordTypes DEF IntentRecords
<1>3. QED
  BY <1>2 DEF UpdateIntentStatus, Judged, OnlyWrites, Left, authVars

(* What a key's oldest transaction does to its intent.                     *)
Applied(tx) ==
  \/ tx.stage = "register" /\ Opened(tx.intent)
  \/ tx.stage \in StageNames /\ Extended(tx.intent, tx.stage)
  \/ tx.stage \in Final /\ Judged(tx.intent, IF tx.stage = "completed" THEN "completed" ELSE "failed")

LEMMA ApplyEffect ==
  ASSUME TypeOK, RegistryInv, NEW a \in Keys, NEW tx \in Sendable, Apply(a, tx)
  PROVE  Applied(tx) /\ OnlyWrites(tx.intent) /\ RecorderNext(a)
<1>1. tx \in Txs /\ tx = TxFor(tx.intent, tx.stage)
  BY SendableIsTyped
<1>2. tx.intent \in IntentIds /\ tx.stage \in Calls
  BY <1>1 DEF Txs
<1>3. tx.op = CASE tx.stage = "register" -> "register"
                [] tx.stage \in Final -> "updateIntentStatus"
                [] OTHER -> IF tx.stage \in External THEN "recordExternalStep" ELSE "recordStep"
  BY <1>1 DEF TxFor
<1>4. CASE tx.stage = "register"
  <2>1. tx.op = "register"
    BY <1>3, <1>4 DEF Final
  <2>2. RegisterIntent(a, tx.intent)
    BY <2>1 DEF Apply
  <2>3. Opened(tx.intent) /\ OnlyWrites(tx.intent)
    BY <1>2, <2>2, RegisterEffect
  <2>4. QED
    BY <1>2, <1>4, <2>2, <2>3 DEF Applied, RecorderNext
<1>5. CASE tx.stage \in Final
  <2> DEFINE s == IF tx.stage = "completed" THEN "completed" ELSE "failed"
  <2>1. UpdateIntentStatus(a, tx.intent, s) /\ s \in Statuses \ {"unknown"}
    BY <1>3, <1>5 DEF Apply, Final, Statuses
  <2> HIDE DEF s
  <2>2. Judged(tx.intent, s) /\ OnlyWrites(tx.intent)
    BY <1>2, <2>1, UpdateEffect
  <2>3. RecorderNext(a)
    BY <1>2, <2>1 DEF RecorderNext
  <2>4. QED
    BY <1>5, <2>2, <2>3 DEF Applied, s
<1>6. CASE tx.stage \in StageNames
  <2>1. RecordStep(a, tx.intent, tx.stage) \/ RecordExternalStep(a, tx.intent, tx.stage)
    BY <1>3, <1>6, StageSets DEF Apply
  <2>2. tx.stage \in Payloads
    BY <1>6, StageSets
  <2>3. Extended(tx.intent, tx.stage) /\ OnlyWrites(tx.intent)
    BY <1>2, <2>1, <2>2, StepEffect
  <2>4. RecorderNext(a)
    BY <1>2, <2>1, <2>2 DEF RecorderNext
  <2>5. QED
    BY <1>6, <2>3, <2>4 DEF Applied
<1>7. QED
  BY <1>2, <1>4, <1>5, <1>6 DEF Calls

LEMMA MineEffect ==
  ASSUME TypeOK, RegistryInv, ClientShape, NEW a \in Keys, Mine(a)
  PROVE  LET tx == queue[a][1] IN
         /\ ClientShape' /\ UNCHANGED <<at, call, trace, result, cached, history>>
         /\ tx \in Sendable /\ Len(queue[a]) \in Nat /\ Len(queue[a]) > 0
         /\ Len(queue'[a]) = Len(queue[a]) - 1
         /\ \A k \in 1..Len(queue'[a]) : queue'[a][k] = queue[a][k + 1]
         /\ \A b \in Keys : b # a => queue'[b] = queue[b]
         /\ UNCHANGED <<recorders, paused>>
         /\ \/ Accepts(a, tx) /\ Applied(tx) /\ OnlyWrites(tx.intent) /\ RecorderNext(a)
            \/ ~Accepts(a, tx) /\ UNCHANGED vars
<1> DEFINE tx == queue[a][1]
<1>1. queue \in [Keys -> Seq(Sendable)] /\ queue[a] \in Seq(Sendable) /\ queue[a] # <<>>
  BY DEF ClientShape, Mine
<1>2. /\ Len(queue[a]) \in Nat /\ Len(queue[a]) > 0 /\ Head(queue[a]) = tx /\ tx \in Sendable
  BY <1>1, EmptySeq, ElementOfSeq
<1>3. queue' = [queue EXCEPT ![a] = Tail(queue[a])] /\ UNCHANGED <<at, call, trace, result, cached, history>>
  BY DEF Mine, history
<1>4. /\ Tail(queue[a]) \in Seq(Sendable) /\ Len(Tail(queue[a])) = Len(queue[a]) - 1
      /\ \A k \in 1..Len(Tail(queue[a])) : Tail(queue[a])[k] = queue[a][k + 1]
  BY <1>1, HeadTailProperties
<1>5. /\ queue' \in [Keys -> Seq(Sendable)] /\ queue'[a] = Tail(queue[a])
      /\ \A b \in Keys : b # a => queue'[b] = queue[b]
  BY <1>1, <1>3, <1>4
<1>6. ClientShape'
  <2>1. others \in 0..MaxOthers /\ upset \in [IntentIds -> BOOLEAN]
    BY DEF ClientShape, ClientTypeOK
  <2>2. QED
    BY <1>3, <1>5, <2>1, OutsideKeepsShape DEF history
<1>7. \/ Accepts(a, tx) /\ Applied(tx) /\ OnlyWrites(tx.intent) /\ RecorderNext(a)
      \/ ~Accepts(a, tx) /\ UNCHANGED vars
  <2>1. CASE Accepts(a, tx)
    <3>1. Apply(a, tx)
      BY <1>2, <2>1 DEF Mine
    <3>2. QED
      BY <1>2, <2>1, <3>1, ApplyEffect
  <2>2. CASE ~Accepts(a, tx)
    BY <1>2, <2>2 DEF Mine
  <2>3. QED
    BY <2>1, <2>2
<1>8. UNCHANGED <<recorders, paused>>
  BY <1>7 DEF OnlyWrites, vars, authVars
<1>9. QED
  BY <1>2, <1>3, <1>4, <1>5, <1>6, <1>7, <1>8

LEMMA OtherRecorderEffect ==
  ASSUME TypeOK, RegistryInv, ClientShape, NEW caller \in Accounts \ Keys, NEW j \in IntentIds,
         OtherRecorder(caller, j)
  PROVE  /\ ClientShape' /\ UNCHANGED <<at, call, trace, result, cached, queue, signers>>
         /\ upset'[j] = TRUE /\ \A i \in IntentIds : i # j => upset'[i] = upset[i]
         /\ OnlyWrites(j) /\ RecorderNext(caller)
         /\ \/ Opened(j) \/ Extended(j, "foreign")
            \/ \E s \in Statuses \ {"unknown"} : Judged(j, s)
<1>1. /\ UNCHANGED <<at, call, trace, result, cached, queue, signers>>
      /\ upset' = [upset EXCEPT ![j] = TRUE] /\ others < MaxOthers /\ others' = others + 1
  BY DEF OtherRecorder, Others
<1>2. /\ upset \in [IntentIds -> BOOLEAN] /\ others \in 0..MaxOthers
      /\ queue \in [Keys -> Seq(Sendable)]
  BY DEF ClientShape, ClientTypeOK
<1>3. upset' \in [IntentIds -> BOOLEAN] /\ others' \in 0..MaxOthers
  BY <1>1, <1>2, LimitsAssumption
<1>4. ClientShape'
  BY <1>1, <1>2, <1>3, OutsideKeepsShape
<1>5. "foreign" \in Payloads /\ caller \in Accounts
  BY StageSets
<1>6. CASE RegisterIntent(caller, j)
  <2>1. RecorderNext(caller)
    BY <1>6 DEF RecorderNext
  <2>2. QED
    BY <1>1, <1>2, <1>4, <1>6, <2>1, RegisterEffect
<1>7. CASE RecordStep(caller, j, "foreign") \/ RecordExternalStep(caller, j, "foreign")
  <2>1. RecorderNext(caller)
    BY <1>5, <1>7 DEF RecorderNext
  <2>2. QED
    BY <1>1, <1>2, <1>4, <1>5, <1>7, <2>1, StepEffect
<1>8. ASSUME NEW s \in Statuses \ {"unknown"}, UpdateIntentStatus(caller, j, s)
      PROVE  OnlyWrites(j) /\ RecorderNext(caller) /\ Judged(j, s)
  <2>1. RecorderNext(caller)
    BY <1>8 DEF RecorderNext
  <2>2. QED
    BY <1>8, <2>1, UpdateEffect
<1>9. QED
  BY <1>1, <1>2, <1>4, <1>6, <1>7, <1>8 DEF OtherRecorder

LEMMA OtherAdminEffect ==
  ASSUME ClientShape, NEW caller \in Accounts \ Keys, OtherAdmin(caller)
  PROVE  /\ ClientShape' /\ UNCHANGED <<at, call, trace, result, cached, queue, signers>>
         /\ UNCHANGED <<intents, traceSteps>> /\ AdminNext(caller)
         /\ \A i \in IntentIds : upset'[i] = (upset[i] \/ AnyPending(i))
<1>1. /\ UNCHANGED <<at, call, trace, result, cached, queue, signers>>
      /\ upset' = [i \in IntentIds |-> upset[i] \/ AnyPending(i)]
      /\ others < MaxOthers /\ others' = others + 1 /\ AdminNext(caller)
  BY DEF OtherAdmin, Others
<1>2. others \in 0..MaxOthers /\ queue \in [Keys -> Seq(Sendable)] /\ upset \in [IntentIds -> BOOLEAN]
  BY DEF ClientShape, ClientTypeOK
<1>3. upset' \in [IntentIds -> BOOLEAN]
  BY <1>1, <1>2 DEF AnyPending, Pending
<1>4. others' \in 0..MaxOthers
  BY <1>1, <1>2, LimitsAssumption
<1>5. ClientShape'
  BY <1>1, <1>2, <1>3, <1>4, OutsideKeepsShape
<1>6. UNCHANGED <<intents, traceSteps>>
  BY <1>1 DEF AdminNext, SetRecorder, TransferAdmin, SetPaused, recordVars
<1>7. QED
  BY <1>1, <1>5, <1>6

(* The steps of the client, by whose records and transactions they touch.  *)
LEMMA ClientSteps ==
  ASSUME [ClientNext]_allVars
  PROVE  \/ \E i \in IntentIds : Quiet(i) \/ Send(i)
         \/ Exit
         \/ \E a \in Keys : Mine(a)
         \/ \E caller \in Accounts \ Keys : OtherAdmin(caller)
         \/ \E caller \in Accounts \ Keys : \E i \in IntentIds : OtherRecorder(caller, i)
         \/ NextBlock /\ UNCHANGED clientVars
         \/ UNCHANGED allVars
BY DEF ClientNext, Proceed, Quiet

LEMMA ClientInitShape == ClientInit => ClientShape
<1> SUFFICES ASSUME ClientInit PROVE ClientShape
  OBVIOUS
<1>1. ASSUME NEW i \in IntentIds PROVE at[i] = "new" /\ call[i] = NoCall
  BY DEF ClientInit
<1>2. /\ at \in [IntentIds -> AtValues] /\ call \in [IntentIds -> Begun]
      /\ trace \in [IntentIds -> Seq(Writes)] /\ result \in [IntentIds -> Results]
      /\ queue \in [Keys -> Seq(Txs)] /\ queue \in [Keys -> Seq(Sendable)]
  BY NoCallIsTyped DEF ClientInit, AtValues, Results
<1>3. cached = NoKey /\ others \in 0..MaxOthers /\ upset \in [IntentIds -> BOOLEAN]
      /\ signers \in [IntentIds -> SUBSET Keys]
  BY LimitsAssumption DEF ClientInit
<1>4. ClientTypeOK
  BY <1>2, <1>3 DEF ClientTypeOK, AtValues, Results
<1>5. QED
  BY <1>1, <1>2, <1>4, NoCallIsTyped DEF ClientShape, CallShape

LEMMA ShapeUnchanged == ClientShape /\ UNCHANGED clientVars => ClientShape'
BY OutsideKeepsShape DEF clientVars, history, ClientShape, ClientTypeOK

(* Each step of the client keeps its shape and is one of the registry's.   *)
LEMMA ClientStepIsRegistryStep ==
  TypeOK /\ RegistryInv /\ ClientShape /\ [ClientNext]_allVars => ClientShape' /\ [Next]_vars
<1> SUFFICES ASSUME TypeOK, RegistryInv, ClientShape, [ClientNext]_allVars
             PROVE  ClientShape' /\ [Next]_vars
  OBVIOUS
<1>1. ASSUME NEW i \in IntentIds, Quiet(i) PROVE ClientShape' /\ [Next]_vars
  BY <1>1, QuietKeepsShape
<1>2. ASSUME NEW i \in IntentIds, Send(i) PROVE ClientShape' /\ [Next]_vars
  BY <1>2, SendEffect
<1>3. CASE Exit
  BY <1>3, ExitEffect
<1>4. ASSUME NEW a \in Keys, Mine(a) PROVE ClientShape' /\ [Next]_vars
  <2>1. RecorderNext(a) \/ UNCHANGED vars
    BY <1>4, MineEffect
  <2>2. ClientShape'
    BY <1>4, MineEffect
  <2>3. QED
    BY <2>1, <2>2, KeysAreAccounts DEF Next
<1>5. ASSUME NEW caller \in Accounts \ Keys, OtherAdmin(caller) PROVE ClientShape' /\ [Next]_vars
  BY <1>5, OtherAdminEffect DEF Next
<1>6. ASSUME NEW caller \in Accounts \ Keys, NEW i \in IntentIds, OtherRecorder(caller, i)
      PROVE  ClientShape' /\ [Next]_vars
  BY <1>6, OtherRecorderEffect DEF Next
<1>7. CASE NextBlock /\ UNCHANGED clientVars
  BY <1>7, ShapeUnchanged DEF Next
<1>8. CASE UNCHANGED allVars
  BY <1>8, ShapeUnchanged DEF allVars
<1>9. QED
  BY ClientSteps, <1>1, <1>2, <1>3, <1>4, <1>5, <1>6, <1>7, <1>8

(* What is true of the registry and of the client's types at any time.     *)
Sound == TypeOK /\ RegistryInv /\ ClientShape

LEMMA SoundInit == ClientInit => Sound
<1>1. Init => TypeOK /\ RegistryInv
  BY TypeInit, InvInit
<1>2. QED
  BY <1>1, ClientInitShape DEF ClientInit, Sound

LEMMA SoundStep == Sound /\ [ClientNext]_allVars => Sound' /\ [Next]_vars
BY ClientStepIsRegistryStep, TypeStep, InvInductive DEF Sound

LEMMA ClientSound == ClientSpec => []Sound
BY SoundInit, SoundStep, PTL DEF ClientSpec

(* The client's types, for every set of keys, intents, accounts and for    *)
(* every number of steps a stage may report.                               *)
THEOREM ClientTypeCorrect == ClientSpec => []ClientTypeOK
<1>1. Sound => ClientTypeOK
  BY DEF Sound, ClientShape
<1>2. QED
  BY <1>1, ClientSound, PTL

(* Whatever the pipelines, the chain and the other recorders do, the        *)
(* registry behaves as its own specification allows, and so keeps its      *)
(* invariants and stays an append-only log under this client.              *)
THEOREM ClientUsesRegistry == ClientSpec => Spec
<1>1. ClientInit => Init
  BY DEF ClientInit
<1>2. QED
  BY <1>1, ClientSound, SoundStep, PTL DEF ClientSpec, Spec

(* Under this client the storage is an append-only log per intent.         *)
THEOREM ClientImplementsTraceLog == ClientSpec => ImplementsTraceLog
BY ClientUsesRegistry, RegistryImplementsTraceLog, PTL
-----------------------------------------------------------------------------
(* Where a pipeline may go, and with what result.                          *)
Goes(i) ==
  \/ at'[i] = at[i] /\ result'[i] = result[i]
  \/ at'[i] = "dead" /\ result'[i] = result[i]
  \/ /\ result'[i] = ResultAt(at'[i], result[i])
     /\ \/ at[i] = "new" /\ at'[i] = "register"
        \/ at[i] \in Calls /\ at'[i] \in AfterCall[at[i]]
        \/ at[i] \in Calls \union {"narrate"} /\ at'[i] \in {"failed", "caught"}
        \/ at[i] = "narrate" /\ at'[i] = "done"

(* What stays where it is while others act.                                *)
StaysPut(i) ==
  at'[i] = at[i] /\ call'[i] = call[i] /\ trace'[i] = trace[i] /\ result'[i] = result[i]

LEMMA OthersStay ==
  ASSUME ClientShape, NEW j \in IntentIds, OwnStep(j), NEW i \in IntentIds, i # j
  PROVE  StaysPut(i)
BY ShapeFacts DEF OwnStep, StaysPut

LEMMA QuietGoes ==
  ASSUME ClientShape, NEW i \in IntentIds, Quiet(i)
  PROVE  Goes(i)
<1>1. ASSUME NEW s \in AtValues, MoveTo(i, s),
             \/ at[i] = "new" /\ s = "register"
             \/ at[i] \in Calls /\ s \in AfterCall[at[i]]
             \/ at[i] \in Calls \union {"narrate"} /\ s \in {"failed", "caught"}
             \/ at[i] = "narrate" /\ s = "done"
      PROVE  Goes(i)
  BY <1>1, MoveEffect DEF Goes
<1>2. CASE Start(i)
  BY <1>1, <1>2 DEF Start, AtValues, Calls
<1>3. CASE Narrate(i)
  BY <1>1, <1>3 DEF Narrate, AtValues
<1>4. CASE SkipEmpty(i)
  BY <1>1, <1>4, NextCalls DEF SkipEmpty
<1>5. CASE Fail(i)
  <2>1. at[i] \in Calls \union {"narrate"}
    BY <1>5 DEF Fail, Calls
  <2>2. AfterReject(at[i]) \in {"failed", "caught"} /\ AfterReject(at[i]) \in AtValues
    BY NextCalls, ShapeFacts
  <2>3. QED
    BY <1>1, <1>5, <2>1, <2>2 DEF Fail
<1>6. CASE BeginCached(i) \/ BeginProbing(i) \/ KeyAccepted(i) \/ KeyPassed(i) \/ NoRecorder(i)
  BY <1>6, SearchKeepsShape DEF Goes
<1>7. CASE CheckRegistered(i) \/ Confirm(i) \/ Throw(i)
  BY <1>7, WritingKeepsShape DEF Goes
<1>8. CASE StoreWrite(i) \/ StoreFails(i) \/ StoreRejects(i)
  BY <1>8, StoringKeepsShape DEF Goes
<1>9. QED
  BY <1>2, <1>3, <1>4, <1>5, <1>6, <1>7, <1>8 DEF Quiet

(* No quiet step begins a wait.                                            *)
LEMMA QuietPhases ==
  ASSUME ClientShape, NEW i \in IntentIds, Quiet(i)
  PROVE  call'[i].phase # "wait"
<1>1. CASE Start(i) \/ Narrate(i) \/ SkipEmpty(i) \/ Fail(i)
  <2>1. call'[i] = call[i]
    BY <1>1, MovesKeepShape
  <2>2. call[i].phase # "wait"
    BY <1>1, ShapeFacts DEF Start, Narrate, SkipEmpty, Fail, CallShape, Calls, StageNames, Final
  <2>3. QED
    BY <2>1, <2>2
<1>2. CASE BeginCached(i) \/ BeginProbing(i) \/ KeyAccepted(i) \/ KeyPassed(i) \/ NoRecorder(i)
  BY <1>2, SearchKeepsShape
<1>3. CASE CheckRegistered(i) \/ Confirm(i) \/ Throw(i)
  BY <1>3, WritingKeepsShape
<1>4. CASE StoreWrite(i) \/ StoreFails(i) \/ StoreRejects(i)
  BY <1>4, StoringKeepsShape, NoCallIsTyped
<1>5. QED
  BY <1>1, <1>2, <1>3, <1>4 DEF Quiet

(* A step as one intent sees it: its own pipeline moves quietly, sends or   *)
(* is cut off, a transaction is mined, or others act.                      *)
Cutoff(i) ==
  /\ call'[i] = NoCall /\ trace'[i] = trace[i] /\ result'[i] = result[i]
  /\ (at'[i] = at[i] /\ at[i] \in {"new", "done"}) \/ at'[i] = "dead"

SentBy(j) ==
  LET a == call[j].by IN
  /\ a \in Keys
  /\ Len(queue'[a]) = Len(queue[a]) + 1 /\ Len(queue[a]) \in Nat
  /\ queue'[a][Len(queue[a]) + 1] = TxFor(j, at[j])
  /\ \A k \in 1..Len(queue[a]) : queue'[a][k] = queue[a][k]
  /\ \A b \in Keys : b # a => queue'[b] = queue[b]
MinedFrom(a) ==
  /\ Len(queue[a]) \in Nat /\ Len(queue[a]) > 0
  /\ Len(queue'[a]) = Len(queue[a]) - 1
  /\ \A k \in 1..Len(queue'[a]) : queue'[a][k] = queue[a][k + 1]
  /\ \A b \in Keys : b # a => queue'[b] = queue[b]

(* The steps as one intent sees them.                                      *)
IntentStep(i) ==
  \/ /\ Quiet(i) /\ OwnStep(i) /\ Goes(i) /\ call'[i].phase # "wait"
     /\ UNCHANGED <<vars, queue, history>>
  \/ /\ Send(i) /\ SentBy(i) /\ signers'[i] = signers[i] \union {call[i].by}
     /\ UNCHANGED <<vars, upset>> /\ at'[i] = at[i] /\ trace'[i] = trace[i] /\ result'[i] = result[i]
     /\ call[i].phase = "write" /\ call'[i].phase = "wait"
     /\ call'[i].by = call[i].by /\ call'[i].writes = call[i].writes
     /\ at[i] \in Calls /\ Accepts(call[i].by, TxFor(i, at[i]))
  \/ /\ StaysPut(i) /\ Left(i) /\ UNCHANGED <<recorders, paused>>
     /\ upset'[i] = upset[i] /\ signers'[i] = signers[i]
     /\ UNCHANGED queue \/ \E j \in IntentIds : j # i /\ SentBy(j)
  \/ /\ Cutoff(i) /\ UNCHANGED <<vars, queue, history>>
  \/ \E a \in Keys : LET tx == queue[a][1] IN
     /\ StaysPut(i) /\ UNCHANGED <<recorders, paused, upset, signers>>
     /\ MinedFrom(a) /\ tx \in Sendable
     /\ tx.intent # i => Left(i)
     /\ tx.intent = i => (Accepts(a, tx) /\ Applied(tx)) \/ (~Accepts(a, tx) /\ Left(i))
  \/ /\ StaysPut(i) /\ UNCHANGED queue /\ signers'[i] = signers[i] /\ upset'[i]
     /\ \/ Left(i) \/ Opened(i) \/ Extended(i, "foreign")
        \/ \E s \in Statuses \ {"unknown"} : Judged(i, s)
  \/ /\ StaysPut(i) /\ UNCHANGED queue /\ signers'[i] = signers[i]
     /\ upset'[i] = upset[i] /\ ~AnyPending(i) /\ Left(i)

LEMMA IntentSteps ==
  ASSUME Sound, [ClientNext]_allVars, NEW i \in IntentIds
  PROVE  IntentStep(i)
<1> USE DEF Sound
<1>1. ASSUME NEW j \in IntentIds, Quiet(j) PROVE IntentStep(i)
  <2>1. OwnStep(j) /\ UNCHANGED <<vars, queue, history>>
    BY <1>1, QuietKeepsShape
  <2>2. CASE j = i
    BY <1>1, <2>1, <2>2, QuietGoes, QuietPhases DEF IntentStep
  <2>3. CASE j # i
    <3>1. StaysPut(i)
      BY <2>1, <2>3, OthersStay
    <3>2. Left(i) /\ UNCHANGED <<recorders, paused, upset, queue>> /\ signers'[i] = signers[i]
      BY <2>1 DEF vars, authVars, recordVars, history, Left
    <3>3. QED
      BY <3>1, <3>2 DEF IntentStep
  <2>4. QED
    BY <2>2, <2>3
<1>2. ASSUME NEW j \in IntentIds, Send(j) PROVE IntentStep(i)
  <2>1. SentBy(j) /\ TxOf(j) = TxFor(j, at[j])
    BY <1>2, SendEffect, TxOfIsTxFor DEF SentBy
  <2>2. /\ UNCHANGED <<vars, at, trace, result, upset>>
        /\ \A l \in IntentIds : l # j => call'[l] = call[l] /\ signers'[l] = signers[l]
    BY <1>2, SendEffect
  <2>3. CASE j = i
    BY <1>2, <2>1, <2>2, <2>3, SendEffect DEF IntentStep
  <2>4. CASE j # i
    <3>1. StaysPut(i) /\ Left(i) /\ UNCHANGED <<recorders, paused, upset>> /\ signers'[i] = signers[i]
      BY <2>2, <2>4 DEF vars, authVars, recordVars, Left, StaysPut
    <3>2. QED
      BY <2>1, <2>4, <3>1 DEF IntentStep
  <2>5. QED
    BY <2>3, <2>4
<1>3. CASE Exit
  BY <1>3, ExitEffect DEF IntentStep, Cutoff
<1>4. ASSUME NEW a \in Keys, Mine(a) PROVE IntentStep(i)
  <2> DEFINE tx == queue[a][1]
  <2>1. /\ MinedFrom(a) /\ tx \in Sendable
        /\ UNCHANGED <<at, call, trace, result, cached, history, recorders, paused>>
        /\ \/ Accepts(a, tx) /\ Applied(tx) /\ OnlyWrites(tx.intent)
           \/ ~Accepts(a, tx) /\ UNCHANGED vars
    BY <1>4, MineEffect DEF MinedFrom
  <2>2. StaysPut(i) /\ UNCHANGED <<recorders, paused, upset, signers>>
    BY <2>1 DEF StaysPut, history
  <2>3. UNCHANGED vars => Left(i)
    BY DEF vars, recordVars, Left
  <2>4. OnlyWrites(tx.intent) /\ tx.intent # i => Left(i)
    BY DEF OnlyWrites
  <2>5. tx.intent # i => Left(i)
    BY <2>1, <2>3, <2>4
  <2>6. tx.intent = i => (Accepts(a, tx) /\ Applied(tx)) \/ (~Accepts(a, tx) /\ Left(i))
    BY <2>1, <2>3
  <2>7. QED
    BY <2>1, <2>2, <2>5, <2>6 DEF IntentStep
<1>5. ASSUME NEW caller \in Accounts \ Keys, OtherAdmin(caller) PROVE IntentStep(i)
  <2>1. StaysPut(i) /\ UNCHANGED queue /\ signers'[i] = signers[i] /\ Left(i)
    BY <1>5, OtherAdminEffect DEF StaysPut, Left
  <2>2. upset'[i] = (upset[i] \/ AnyPending(i)) /\ upset \in [IntentIds -> BOOLEAN]
    BY <1>5, OtherAdminEffect DEF ClientShape, ClientTypeOK
  <2>3. CASE AnyPending(i)
    BY <2>1, <2>2, <2>3 DEF IntentStep
  <2>4. CASE ~AnyPending(i)
    <3>1. upset'[i] = upset[i]
      BY <2>2, <2>4
    <3>2. QED
      BY <2>1, <2>4, <3>1 DEF IntentStep
  <2>5. QED
    BY <2>3, <2>4
<1>6. ASSUME NEW caller \in Accounts \ Keys, NEW j \in IntentIds, OtherRecorder(caller, j)
      PROVE  IntentStep(i)
  <2>1. StaysPut(i) /\ UNCHANGED queue /\ signers'[i] = signers[i]
    BY <1>6, OtherRecorderEffect DEF StaysPut
  <2>2. CASE i = j
    BY <1>6, <2>1, <2>2, OtherRecorderEffect DEF IntentStep
  <2>3. CASE i # j
    <3>1. Left(i) /\ UNCHANGED <<recorders, paused>> /\ upset'[i] = upset[i]
      BY <1>6, <2>3, OtherRecorderEffect DEF OnlyWrites
    <3>2. QED
      BY <2>1, <3>1 DEF IntentStep
  <2>4. QED
    BY <2>2, <2>3
<1>7. CASE NextBlock /\ UNCHANGED clientVars
  BY <1>7 DEF NextBlock, authVars, recordVars, clientVars, history, IntentStep, StaysPut, Left
<1>8. CASE UNCHANGED allVars
  BY <1>8 DEF allVars, vars, authVars, recordVars, clientVars, history, IntentStep, StaysPut, Left
<1>9. QED
  BY ClientSteps, <1>1, <1>2, <1>3, <1>4, <1>5, <1>6, <1>7, <1>8

(* The receipt's status is decided before it is told to the registry.       *)
ResultFits(i) ==
  /\ at[i] \in {"completed", "narrate"} => result[i] = "succeeded"
  /\ at[i] \in {"failed", "caught"} => result[i] = "failed"
  /\ at[i] = "done" => result[i] # "running"

LEMMA ResultFitsStep ==
  ASSUME Sound, NEW i \in IntentIds, ResultFits(i), IntentStep(i)
  PROVE  ResultFits(i)' /\ (result[i] # "running" => result'[i] # "running")
<1>1. Goes(i)
  BY DEF IntentStep, Goes, StaysPut, Cutoff
<1>2. QED
  BY <1>1 DEF Goes, ResultFits, ResultAt, AfterCall, Calls, StageNames, Final

(* What is under way for an intent nobody else touches will be accepted,    *)
(* as far as the recorders, the pause switch and the registration go.      *)
PendingSound(i) == ~upset[i] =>
  /\ \A a \in Keys : \A k \in 1..Len(queue[a]) : queue[a][k].intent = i =>
       /\ a \in recorders /\ ~paused
       /\ queue[a][k].stage # "register" => intents[i].status # "unknown"
       /\ queue[a][k].stage \in Final => result[i] # "running"
  /\ intents[i].status \in {"completed", "failed"} => result[i] # "running"
  /\ call[i].phase = "wait" /\ at[i] # "register" => intents[i].status # "unknown"

LEMMA QueueFacts ==
  ASSUME Sound, NEW a \in Keys
  PROVE  /\ Len(queue[a]) \in Nat
         /\ \A k \in 1..Len(queue[a]) :
              /\ queue[a][k] \in Sendable /\ queue[a][k].intent \in IntentIds
              /\ queue[a][k].stage \in Calls
              /\ queue[a][k] = TxFor(queue[a][k].intent, queue[a][k].stage)
<1>1. queue[a] \in Seq(Sendable)
  BY DEF Sound, ClientShape
<1>2. Len(queue[a]) \in Nat /\ \A k \in 1..Len(queue[a]) : queue[a][k] \in Sendable
  BY <1>1, ElementOfSeq
<1>3. \A tx \in Sendable : tx.intent \in IntentIds /\ tx.stage \in Calls /\ tx = TxFor(tx.intent, tx.stage)
  BY SendableIsTyped DEF Txs
<1>4. QED
  BY <1>2, <1>3

(* Where a pending transaction was before the step.                        *)
LEMMA MinedWasPending ==
  ASSUME Sound, NEW a \in Keys, MinedFrom(a), NEW b \in Keys, NEW k \in 1..Len(queue'[b])
  PROVE  LET l == IF b = a THEN k + 1 ELSE k IN
         l \in 1..Len(queue[b]) /\ queue'[b][k] = queue[b][l]
BY QueueFacts DEF MinedFrom

LEMMA SentWasPending ==
  ASSUME Sound, NEW j \in IntentIds, SentBy(j), NEW b \in Keys, NEW k \in 1..Len(queue'[b])
  PROVE  \/ k \in 1..Len(queue[b]) /\ queue'[b][k] = queue[b][k]
         \/ b = call[j].by /\ k = Len(queue[b]) + 1 /\ queue'[b][k] = TxFor(j, at[j])
<1>1. CASE b # call[j].by
  BY <1>1 DEF SentBy
<1>2. CASE b = call[j].by
  <2>1. /\ Len(queue'[b]) = Len(queue[b]) + 1 /\ Len(queue[b]) \in Nat
        /\ queue'[b][Len(queue[b]) + 1] = TxFor(j, at[j])
        /\ \A l \in 1..Len(queue[b]) : queue'[b][l] = queue[b][l]
    BY <1>2 DEF SentBy
  <2> DEFINE n == Len(queue[b])
  <2>2. n \in Nat /\ k \in 1..(n + 1)
    BY <2>1
  <2> HIDE DEF n
  <2>3. k \in 1..n \/ k = n + 1
    BY <2>2
  <2>4. QED
    BY <1>2, <2>1, <2>3 DEF n
<1>3. QED
  BY <1>1, <1>2

LEMMA PendingSoundStep ==
  ASSUME Sound, NEW i \in IntentIds, ResultFits(i), PendingSound(i), IntentStep(i)
  PROVE  PendingSound(i)'
<1> DEFINE Ok(a, tx) ==
             /\ a \in recorders /\ ~paused
             /\ tx.stage # "register" => intents[i].status # "unknown"
             /\ tx.stage \in Final => result[i] # "running"
           Verd == /\ intents[i].status \in {"completed", "failed"} => result[i] # "running"
                   /\ call[i].phase = "wait" /\ at[i] # "register" => intents[i].status # "unknown"
<1>1. result[i] # "running" => result'[i] # "running"
  BY ResultFitsStep
<1>2. CASE UNCHANGED queue /\ UNCHANGED <<recorders, paused>> /\ upset'[i] = upset[i] /\ Left(i)
           /\ (call'[i].phase = "wait" => call[i].phase = "wait" /\ at'[i] = at[i])
  BY <1>1, <1>2 DEF PendingSound, Left
<1>3. CASE /\ Quiet(i) /\ OwnStep(i) /\ Goes(i) /\ call'[i].phase # "wait"
           /\ UNCHANGED <<vars, queue, history>>
  BY <1>2, <1>3 DEF vars, authVars, recordVars, history, Left
<1>4. CASE /\ Send(i) /\ SentBy(i) /\ UNCHANGED <<vars, upset>> /\ at'[i] = at[i] /\ result'[i] = result[i]
           /\ at[i] \in Calls /\ Accepts(call[i].by, TxFor(i, at[i]))
  <2>1. UNCHANGED <<recorders, paused, upset>> /\ intents' = intents
    BY <1>4 DEF vars, authVars, recordVars
  <2>2. Accepts(call[i].by, TxFor(i, at[i])) =>
          /\ call[i].by \in recorders /\ ~paused
          /\ at[i] # "register" => intents[i].status # "unknown"
    <3>1. at[i] # "register" => TxFor(i, at[i]).op # "register"
      BY DEF TxFor
    <3>2. TxFor(i, at[i]).intent = i
      BY DEF TxFor
    <3>3. QED
      BY <3>1, <3>2 DEF Accepts, OnlyRecorder, WhenNotPaused
  <2>3. TxFor(i, at[i]).stage = at[i]
    BY DEF TxFor
  <2>4. Ok(call[i].by, TxFor(i, at[i]))
    BY <1>4, <2>2, <2>3 DEF ResultFits, Final
  <2>5. ASSUME ~upset[i], NEW b \in Keys, NEW k \in 1..Len(queue'[b]), queue'[b][k].intent = i
        PROVE  Ok(b, queue'[b][k])
    BY <1>4, <2>4, <2>5, SentWasPending DEF PendingSound
  <2>6. ~upset[i] => Verd'
    BY <1>4, <2>1, <2>2 DEF PendingSound
  <2>7. QED
    BY <1>4, <2>1, <2>5, <2>6 DEF PendingSound
<1>5. CASE /\ StaysPut(i) /\ Left(i) /\ UNCHANGED <<recorders, paused>> /\ upset'[i] = upset[i]
           /\ UNCHANGED queue \/ \E j \in IntentIds : j # i /\ SentBy(j)
  <2>1. CASE UNCHANGED queue
    BY <1>2, <1>5, <2>1 DEF StaysPut
  <2>2. ASSUME NEW j \in IntentIds, j # i, SentBy(j) PROVE PendingSound(i)'
    <3>1. TxFor(j, at[j]).intent # i
      BY <2>2 DEF TxFor
    <3>2. ASSUME ~upset[i], NEW b \in Keys, NEW k \in 1..Len(queue'[b]), queue'[b][k].intent = i
          PROVE  Ok(b, queue'[b][k])
      BY <2>2, <3>1, <3>2, SentWasPending DEF PendingSound
    <3>3. QED
      BY <1>5, <3>2 DEF PendingSound, StaysPut, Left
  <2>3. QED
    BY <1>5, <2>1, <2>2
<1>6. CASE Cutoff(i) /\ UNCHANGED <<vars, queue, history>>
  BY <1>2, <1>6, NoCallIsTyped DEF vars, authVars, recordVars, history, Left, Cutoff
<1>7. ASSUME NEW a \in Keys, StaysPut(i), UNCHANGED <<recorders, paused, upset, signers>>,
             MinedFrom(a), queue[a][1] \in Sendable,
             queue[a][1].intent # i => Left(i),
             queue[a][1].intent = i => (Accepts(a, queue[a][1]) /\ Applied(queue[a][1]))
                                        \/ (~Accepts(a, queue[a][1]) /\ Left(i))
      PROVE  PendingSound(i)'
  <2> DEFINE tx == queue[a][1]
  <2>1. SUFFICES ASSUME ~upset[i] PROVE PendingSound(i)'
    BY <1>7 DEF PendingSound
  <2>2. ASSUME NEW b \in Keys, NEW k \in 1..Len(queue'[b]), queue'[b][k].intent = i
        PROVE  Ok(b, queue'[b][k])
    BY <1>7, <2>1, <2>2, MinedWasPending DEF PendingSound
  <2>3. CASE Left(i)
    BY <1>7, <2>1, <2>2, <2>3 DEF PendingSound, Left, StaysPut
  <2>4. CASE tx.intent = i /\ Applied(tx)
    <3>1. 1 \in 1..Len(queue[a])
      BY <1>7 DEF MinedFrom
    <3>2. tx.stage \in Final => result[i] # "running"
      BY <2>1, <2>4, <3>1 DEF PendingSound
    <3>3. /\ intents'[i].status # "unknown"
          /\ intents'[i].status \in {"completed", "failed"} => result[i] # "running"
      BY <2>1, <2>4, <3>2 DEF Applied, Opened, Extended, Judged, PendingSound
    <3>4. QED
      BY <1>7, <2>1, <2>2, <3>3 DEF PendingSound, StaysPut
  <2>5. QED
    BY <1>7, <2>3, <2>4
<1>8. CASE /\ StaysPut(i) /\ UNCHANGED queue /\ upset'[i] = upset[i] /\ ~AnyPending(i) /\ Left(i)
  BY <1>8 DEF PendingSound, StaysPut, Left, AnyPending, Pending
<1>9. CASE upset'[i]
  BY <1>9 DEF PendingSound
<1>10. QED
  BY <1>3, <1>4, <1>5, <1>6, <1>7, <1>8, <1>9 DEF IntentStep
-----------------------------------------------------------------------------
(* How far along its stages a pipeline is.                                 *)
Place(s) == CASE s \in {"new", "register"} -> 0 [] s \in StageNames -> Rank(s) [] OTHER -> 5

LEMMA PlaceGrows ==
  /\ \A i \in IntentIds : Goes(i) => Place(at[i]) <= Place(at'[i])
  /\ \A s : Place(s) \in 0..5
  /\ \A s \in StageNames : Place(s) = Rank(s)
<1>1. \A s : Place(s) \in 0..5
  BY DEF Place, Rank, StageNames
<1>2. \A s \in StageNames : Place(s) = Rank(s)
  BY DEF Place, StageNames
<1>3. ASSUME NEW i \in IntentIds, Goes(i) PROVE Place(at[i]) <= Place(at'[i])
  <2>1. /\ Place("new") = 0 /\ Place("register") = 0 /\ Place("source") = 1 /\ Place("bridge") = 2
        /\ Place("protocol") = 3 /\ Place("receipt") = 4
        /\ \A s \in {"completed", "failed", "caught", "narrate", "done", "dead"} : Place(s) = 5
    BY DEF Place, Rank, StageNames
  <2>2. CASE at'[i] = at[i]
    BY <1>1, <2>2
  <2>3. CASE at'[i] \in {"failed", "caught", "dead", "done"}
    BY <1>1, <2>1, <2>3
  <2>4. CASE at[i] = "new" /\ at'[i] = "register"
    BY <2>1, <2>4
  <2>5. CASE at[i] \in Calls /\ at'[i] \in AfterCall[at[i]]
    BY <2>1, <2>5 DEF Calls, StageNames, Final, AfterCall
  <2>6. QED
    BY <1>3, <2>2, <2>3, <2>4, <2>5 DEF Goes
<1>4. QED
  BY <1>1, <1>2, <1>3

Foreign(i, j) == traceSteps[i][j].payload = "foreign"
RankAt(i, j)  == Rank(traceSteps[i][j].payload)

(* An intent's transactions are on its keys, none is of a stage yet to     *)
(* come, and on its only key they are in the order of the stages, after    *)
(* what is stored.                                                         *)
PendingPlaced(i) ==
  \A a \in Keys : \A k \in 1..Len(queue[a]) : queue[a][k].intent = i =>
    a \in signers[i] /\ Place(queue[a][k].stage) <= Place(at[i])
StoredPlaced(i) ==
  \A j \in 0..(intents[i].stepCount - 1) : ~Foreign(i, j) => RankAt(i, j) <= Place(at[i])
PendingInOrder(i) ==
  \A a \in Keys : \A k, l \in 1..Len(queue[a]) :
    (queue[a][k].intent = i /\ queue[a][l].intent = i /\ k <= l) =>
      Place(queue[a][k].stage) <= Place(queue[a][l].stage)
PendingAfterStored(i) ==
  \A a \in Keys : \A k \in 1..Len(queue[a]) :
    (queue[a][k].intent = i /\ queue[a][k].stage \in StageNames) =>
      \A j \in 0..(intents[i].stepCount - 1) :
        ~Foreign(i, j) => RankAt(i, j) <= Place(queue[a][k].stage)
StoredInOrder(i) ==
  \A j, k \in 0..(intents[i].stepCount - 1) :
    (j < k /\ ~Foreign(i, j) /\ ~Foreign(i, k)) => RankAt(i, j) <= RankAt(i, k)
Ordered(i) ==
  /\ PendingPlaced(i)
  /\ StoredPlaced(i)
  /\ OneKey(i) => PendingInOrder(i) /\ PendingAfterStored(i) /\ StoredInOrder(i)

LEMMA OrderedFrame ==
  ASSUME Sound, NEW i \in IntentIds, Ordered(i), Left(i), signers'[i] = signers[i],
         Place(at[i]) <= Place(at'[i]),
         \A b \in Keys : \A k \in 1..Len(queue'[b]) : queue'[b][k].intent = i =>
            k \in 1..Len(queue[b]) /\ queue'[b][k] = queue[b][k]
  PROVE  Ordered(i)'
<1>1. \A s : Place(s) \in 0..5
  BY PlaceGrows
<1>2. \A j : Rank(traceSteps[i][j].payload) \in 0..5
  BY DEF Rank
<1>3. intents'[i] = intents[i] /\ traceSteps'[i] = traceSteps[i] /\ OneKey(i)' = OneKey(i)
  BY DEF Left, OneKey
<1>4. PendingPlaced(i)'
  BY <1>1 DEF Ordered, PendingPlaced
<1>5. StoredPlaced(i)'
  BY <1>1, <1>2, <1>3 DEF Ordered, StoredPlaced, Foreign, RankAt
<1>6. OneKey(i) => PendingInOrder(i)'
  BY DEF Ordered, PendingInOrder
<1>7. OneKey(i) => PendingAfterStored(i)'
  BY <1>3 DEF Ordered, PendingAfterStored, Foreign, RankAt
<1>8. OneKey(i) => StoredInOrder(i)'
  BY <1>3 DEF Ordered, StoredInOrder, Foreign, RankAt
<1>9. QED
  BY <1>3, <1>4, <1>5, <1>6, <1>7, <1>8 DEF Ordered

(* A step appended to an intent's records, at or after the places of all    *)
(* that is stored and at or before those of all that is under way.          *)
LEMMA ExtendedKeepsStored ==
  ASSUME Sound, NEW i \in IntentIds, NEW p, Extended(i, p),
         p # "foreign" => \A j \in 0..(intents[i].stepCount - 1) :
                             ~Foreign(i, j) => RankAt(i, j) <= Rank(p),
         StoredInOrder(i)
  PROVE  StoredInOrder(i)'
<1> DEFINE n == intents[i].stepCount
<1>1. n \in Nat
  BY RecordTypes DEF Sound
<1>2. /\ intents'[i].stepCount = n + 1 /\ traceSteps'[i][n].payload = p
      /\ \A k \in 0..(n - 1) : traceSteps'[i][k] = traceSteps[i][k]
  BY DEF Extended
<1> SUFFICES ASSUME NEW j \in 0..n, NEW k \in 0..n, j < k, ~Foreign(i, j)', ~Foreign(i, k)'
             PROVE  RankAt(i, j)' <= RankAt(i, k)'
  BY <1>1, <1>2 DEF StoredInOrder
<1>3. j \in 0..(n - 1) /\ traceSteps'[i][j] = traceSteps[i][j] /\ ~Foreign(i, j)
  BY <1>1, <1>2 DEF Foreign
<1>4. CASE k = n
  BY <1>2, <1>3, <1>4 DEF Foreign, RankAt
<1>5. CASE k # n
  <2>1. k \in 0..(n - 1)
    BY <1>1, <1>5
  <2>2. traceSteps'[i][k] = traceSteps[i][k]
    BY <1>2, <2>1
  <2>3. QED
    BY <1>3, <2>1, <2>2 DEF StoredInOrder, Foreign, RankAt
<1>6. QED
  BY <1>4, <1>5

LEMMA ExtendedKeepsPlaces ==
  ASSUME Sound, NEW i \in IntentIds, NEW p, Extended(i, p), NEW q,
         \A j \in 0..(intents[i].stepCount - 1) : ~Foreign(i, j) => RankAt(i, j) <= q,
         p # "foreign" => Rank(p) <= q
  PROVE  \A j \in 0..(intents'[i].stepCount - 1) : ~Foreign(i, j)' => RankAt(i, j)' <= q
<1> DEFINE n == intents[i].stepCount
<1>1. n \in Nat
  BY RecordTypes DEF Sound
<1>2. /\ intents'[i].stepCount = n + 1 /\ traceSteps'[i][n].payload = p
      /\ \A k \in 0..(n - 1) : traceSteps'[i][k] = traceSteps[i][k]
  BY DEF Extended
<1> SUFFICES ASSUME NEW j \in 0..n, ~Foreign(i, j)' PROVE RankAt(i, j)' <= q
  BY <1>1, <1>2
<1>3. CASE j = n
  BY <1>2, <1>3 DEF Foreign, RankAt
<1>4. CASE j # n
  <2>1. j \in 0..(n - 1)
    BY <1>1, <1>4
  <2>2. QED
    BY <1>2, <2>1 DEF Foreign, RankAt
<1>5. QED
  BY <1>3, <1>4

(* Nothing is added to the queues: what is in one was there, in that order. *)
Shrinks ==
  \A b \in Keys : \E d \in {0, 1} : \A k \in 1..Len(queue'[b]) :
    k + d \in 1..Len(queue[b]) /\ queue'[b][k] = queue[b][k + d]

LEMMA QueueShrinks ==
  ASSUME Sound, UNCHANGED queue \/ \E a \in Keys : MinedFrom(a)
  PROVE  Shrinks
<1> SUFFICES ASSUME NEW b \in Keys
             PROVE  \E d \in {0, 1} : \A k \in 1..Len(queue'[b]) :
                      k + d \in 1..Len(queue[b]) /\ queue'[b][k] = queue[b][k + d]
  BY DEF Shrinks
<1>1. Len(queue[b]) \in Nat
  BY QueueFacts
<1>2. CASE queue'[b] = queue[b]
  <2>1. \A k \in 1..Len(queue'[b]) : k + 0 = k
    BY <1>1, <1>2
  <2>2. QED
    BY <1>2, <2>1
<1>3. CASE MinedFrom(b)
  <2>1. \A k \in 1..Len(queue'[b]) : k + 1 \in 1..Len(queue[b]) /\ queue'[b][k] = queue[b][k + 1]
    BY <1>1, <1>3 DEF MinedFrom
  <2>2. QED
    BY <2>1
<1>4. QED
  BY <1>2, <1>3 DEF MinedFrom

LEMMA ShrinkingKeepsPending ==
  ASSUME Sound, NEW i \in IntentIds, Shrinks, StaysPut(i), signers'[i] = signers[i]
  PROVE  /\ PendingPlaced(i) => PendingPlaced(i)'
         /\ PendingInOrder(i) => PendingInOrder(i)'
<1>1. ASSUME PendingPlaced(i) PROVE PendingPlaced(i)'
  <2> SUFFICES ASSUME NEW b \in Keys, NEW k \in 1..Len(queue'[b]), queue'[b][k].intent = i
               PROVE  b \in signers[i] /\ Place(queue'[b][k].stage) <= Place(at[i])
    BY DEF PendingPlaced, StaysPut
  <2>1. PICK d \in {0, 1} : k + d \in 1..Len(queue[b]) /\ queue'[b][k] = queue[b][k + d]
    BY DEF Shrinks
  <2>2. QED
    BY <1>1, <2>1 DEF PendingPlaced
<1>2. ASSUME PendingInOrder(i) PROVE PendingInOrder(i)'
  <2> SUFFICES ASSUME NEW b \in Keys, NEW k \in 1..Len(queue'[b]), NEW l \in 1..Len(queue'[b]),
                      queue'[b][k].intent = i, queue'[b][l].intent = i, k <= l
               PROVE  Place(queue'[b][k].stage) <= Place(queue'[b][l].stage)
    BY DEF PendingInOrder
  <2>1. PICK d \in {0, 1} : \A m \in 1..Len(queue'[b]) :
                              m + d \in 1..Len(queue[b]) /\ queue'[b][m] = queue[b][m + d]
    BY DEF Shrinks
  <2>2. k + d <= l + d
    BY QueueFacts
  <2>3. QED
    BY <1>2, <2>1, <2>2 DEF PendingInOrder
<1>3. QED
  BY <1>1, <1>2

(* What a step that shrinks the queues and touches the intent's records     *)
(* does to the order.                                                      *)
LEMMA OrderedByRecords ==
  ASSUME Sound, NEW i \in IntentIds, Ordered(i), Shrinks, StaysPut(i), signers'[i] = signers[i],
         \/ Left(i) \/ Opened(i) \/ \E s : Judged(i, s)
         \/ \E p : /\ Extended(i, p)
                   /\ p # "foreign" =>
                        /\ Rank(p) <= Place(at[i])
                        /\ OneKey(i) =>
                             /\ \A j \in 0..(intents[i].stepCount - 1) :
                                  ~Foreign(i, j) => RankAt(i, j) <= Rank(p)
                             /\ \A b \in Keys : \A k \in 1..Len(queue'[b]) :
                                  queue'[b][k].intent = i => Rank(p) <= Place(queue'[b][k].stage)
  PROVE  Ordered(i)'
<1>1. at'[i] = at[i] /\ OneKey(i)' = OneKey(i)
  BY DEF StaysPut, OneKey
<1>2. PendingPlaced(i)' /\ (OneKey(i) => PendingInOrder(i)')
  BY ShrinkingKeepsPending DEF Ordered
<1>3. \A b \in Keys : \A k \in 1..Len(queue'[b]) :
        \E l \in 1..Len(queue[b]) : queue'[b][k] = queue[b][l]
  BY DEF Shrinks
<1>4. CASE intents'[i].stepCount = intents[i].stepCount /\ traceSteps'[i] = traceSteps[i]
  <2>1. StoredPlaced(i)' /\ (OneKey(i) => StoredInOrder(i)')
    BY <1>1, <1>4 DEF Ordered, StoredPlaced, StoredInOrder, Foreign, RankAt
  <2>2. OneKey(i) => PendingAfterStored(i)'
    BY <1>3, <1>4 DEF Ordered, PendingAfterStored, Foreign, RankAt
  <2>3. QED
    BY <1>1, <1>2, <2>1, <2>2 DEF Ordered
<1>5. CASE intents'[i].stepCount = 0
  <2>1. \A j \in 0..(intents'[i].stepCount - 1) : FALSE
    BY <1>5
  <2>2. StoredPlaced(i)' /\ StoredInOrder(i)' /\ PendingAfterStored(i)'
    BY <2>1 DEF StoredPlaced, StoredInOrder, PendingAfterStored
  <2>3. QED
    BY <1>1, <1>2, <2>2 DEF Ordered
<1>6. ASSUME NEW p, Extended(i, p),
             p # "foreign" =>
               /\ Rank(p) <= Place(at[i])
               /\ OneKey(i) =>
                    /\ \A j \in 0..(intents[i].stepCount - 1) :
                         ~Foreign(i, j) => RankAt(i, j) <= Rank(p)
                    /\ \A b \in Keys : \A k \in 1..Len(queue'[b]) :
                         queue'[b][k].intent = i => Rank(p) <= Place(queue'[b][k].stage)
      PROVE  Ordered(i)'
  <2>1. StoredPlaced(i)'
    <3>1. \A j \in 0..(intents'[i].stepCount - 1) : ~Foreign(i, j)' => RankAt(i, j)' <= Place(at[i])
      BY <1>6, ExtendedKeepsPlaces DEF Ordered, StoredPlaced
    <3>2. QED
      BY <1>1, <3>1 DEF StoredPlaced
  <2>2. OneKey(i) => StoredInOrder(i)'
    BY <1>6, ExtendedKeepsStored DEF Ordered
  <2>3. ASSUME OneKey(i) PROVE PendingAfterStored(i)'
    <3> SUFFICES ASSUME NEW b \in Keys, NEW k \in 1..Len(queue'[b]), queue'[b][k].intent = i,
                        queue'[b][k].stage \in StageNames
                 PROVE  \A j \in 0..(intents'[i].stepCount - 1) :
                          ~Foreign(i, j)' => RankAt(i, j)' <= Place(queue'[b][k].stage)
      BY DEF PendingAfterStored
    <3>1. \A j \in 0..(intents[i].stepCount - 1) :
            ~Foreign(i, j) => RankAt(i, j) <= Place(queue'[b][k].stage)
      BY <1>3, <2>3 DEF Ordered, PendingAfterStored
    <3>2. p # "foreign" => Rank(p) <= Place(queue'[b][k].stage)
      BY <1>6, <2>3
    <3>3. QED
      BY <1>6, <3>1, <3>2, ExtendedKeepsPlaces
  <2>4. QED
    BY <1>1, <1>2, <2>1, <2>2, <2>3 DEF Ordered
<1>7. QED
  BY <1>4, <1>5, <1>6 DEF Left, Opened, Judged

LEMMA OrderedStep ==
  ASSUME Sound, NEW i \in IntentIds, Ordered(i), IntentStep(i)
  PROVE  Ordered(i)'
<1>1. Goes(i) \/ StaysPut(i) => Place(at[i]) <= Place(at'[i])
  BY PlaceGrows DEF StaysPut, Goes
<1>2. CASE /\ Quiet(i) /\ OwnStep(i) /\ Goes(i) /\ call'[i].phase # "wait"
           /\ UNCHANGED <<vars, queue, history>>
  BY <1>1, <1>2, OrderedFrame DEF vars, recordVars, history, Left
<1>3. CASE Cutoff(i) /\ UNCHANGED <<vars, queue, history>>
  <2>1. Place(at[i]) <= Place(at'[i])
    BY <1>1, <1>3 DEF Cutoff, Goes
  <2>2. QED
    BY <1>3, <2>1, OrderedFrame DEF vars, recordVars, history, Left
<1>4. CASE /\ Send(i) /\ SentBy(i) /\ signers'[i] = signers[i] \union {call[i].by}
           /\ UNCHANGED <<vars, upset>> /\ at'[i] = at[i]
  <2> DEFINE a == call[i].by
  <2>1. intents' = intents /\ traceSteps' = traceSteps /\ a \in Keys
    BY <1>4 DEF vars, recordVars, SentBy
  <2>2. \A b \in Keys : \A k \in 1..Len(queue'[b]) :
          \/ k \in 1..Len(queue[b]) /\ queue'[b][k] = queue[b][k]
          \/ b = a /\ k = Len(queue[b]) + 1 /\ queue'[b][k].stage = at[i]
    <3>1. TxFor(i, at[i]).stage = at[i]
      BY DEF TxFor
    <3>2. QED
      BY <1>4, <3>1, SentWasPending
  <2>3. PendingPlaced(i)'
    <3> SUFFICES ASSUME NEW b \in Keys, NEW k \in 1..Len(queue'[b]), queue'[b][k].intent = i
                 PROVE  b \in signers'[i] /\ Place(queue'[b][k].stage) <= Place(at[i])
      BY <1>4 DEF PendingPlaced
    <3>1. Place(at[i]) <= Place(at[i])
      BY PlaceGrows
    <3>2. QED
      BY <1>4, <2>2, <3>1 DEF Ordered, PendingPlaced
  <2>4. StoredPlaced(i)'
    BY <1>4, <2>1 DEF Ordered, StoredPlaced, Foreign, RankAt
  <2>5. ASSUME OneKey(i)'
        PROVE  PendingInOrder(i)' /\ PendingAfterStored(i)' /\ StoredInOrder(i)'
    <3>1. OneKey(i)
      BY <1>4, <2>5 DEF OneKey
    <3>2. PendingInOrder(i)'
      <4> SUFFICES ASSUME NEW b \in Keys, NEW k \in 1..Len(queue'[b]), NEW l \in 1..Len(queue'[b]),
                          queue'[b][k].intent = i, queue'[b][l].intent = i, k <= l
                   PROVE  Place(queue'[b][k].stage) <= Place(queue'[b][l].stage)
        BY DEF PendingInOrder
      <4>1. Place(queue'[b][k].stage) <= Place(at[i])
        BY <1>4, <2>3 DEF PendingPlaced
      <4>2. CASE queue'[b][l].stage = at[i]
        BY <4>1, <4>2
      <4>3. CASE l \in 1..Len(queue[b]) /\ queue'[b][l] = queue[b][l]
        <5>1. k \in 1..Len(queue[b]) /\ k # Len(queue[b]) + 1
          BY <4>3, QueueFacts
        <5>2. queue'[b][k] = queue[b][k]
          BY <2>2, <5>1
        <5>3. QED
          BY <3>1, <4>3, <5>1, <5>2 DEF Ordered, PendingInOrder
      <4>4. QED
        BY <2>2, <4>2, <4>3
    <3>3. PendingAfterStored(i)'
      <4> SUFFICES ASSUME NEW b \in Keys, NEW k \in 1..Len(queue'[b]), queue'[b][k].intent = i,
                          queue'[b][k].stage \in StageNames,
                          NEW j \in 0..(intents[i].stepCount - 1), ~Foreign(i, j)
                   PROVE  RankAt(i, j) <= Place(queue'[b][k].stage)
        BY <2>1 DEF PendingAfterStored, Foreign, RankAt
      <4>1. RankAt(i, j) <= Place(at[i])
        BY DEF Ordered, StoredPlaced
      <4>2. QED
        BY <2>2, <3>1, <4>1 DEF Ordered, PendingAfterStored
    <3>4. StoredInOrder(i)'
      BY <2>1, <3>1 DEF Ordered, StoredInOrder, Foreign, RankAt
    <3>5. QED
      BY <3>2, <3>3, <3>4
  <2>6. QED
    BY <2>3, <2>4, <2>5 DEF Ordered
<1>5. CASE /\ StaysPut(i) /\ Left(i) /\ UNCHANGED <<recorders, paused>>
           /\ upset'[i] = upset[i] /\ signers'[i] = signers[i]
           /\ UNCHANGED queue \/ \E j \in IntentIds : j # i /\ SentBy(j)
  <2>1. CASE UNCHANGED queue
    BY <1>1, <1>5, <2>1, OrderedFrame
  <2>2. ASSUME NEW j \in IntentIds, j # i, SentBy(j) PROVE Ordered(i)'
    <3>1. TxFor(j, at[j]).intent # i
      BY <2>2 DEF TxFor
    <3>2. \A b \in Keys : \A k \in 1..Len(queue'[b]) : queue'[b][k].intent = i =>
            k \in 1..Len(queue[b]) /\ queue'[b][k] = queue[b][k]
      BY <2>2, <3>1, SentWasPending
    <3>3. QED
      BY <1>1, <1>5, <3>2, OrderedFrame
  <2>3. QED
    BY <1>5, <2>1, <2>2
<1>6. ASSUME NEW a \in Keys, StaysPut(i), UNCHANGED <<recorders, paused, upset, signers>>,
             MinedFrom(a), queue[a][1] \in Sendable,
             queue[a][1].intent # i => Left(i),
             queue[a][1].intent = i => (Accepts(a, queue[a][1]) /\ Applied(queue[a][1]))
                                        \/ (~Accepts(a, queue[a][1]) /\ Left(i))
      PROVE  Ordered(i)'
  <2> DEFINE tx == queue[a][1]
  <2>1. Shrinks
    BY <1>6, QueueShrinks
  <2>2. CASE Left(i) \/ Opened(i) \/ \E s : Judged(i, s)
    BY <1>6, <2>1, <2>2, OrderedByRecords
  <2>3. CASE tx.intent = i /\ tx.stage \in StageNames /\ Extended(i, tx.stage)
    <3>1. 1 \in 1..Len(queue[a])
      BY <1>6 DEF MinedFrom
    <3>2. Place(tx.stage) = Rank(tx.stage) /\ Rank(tx.stage) <= Place(at[i]) /\ a \in signers[i]
      BY <2>3, <3>1, PlaceGrows DEF Ordered, PendingPlaced
    <3>3. ASSUME OneKey(i)
          PROVE  \A j \in 0..(intents[i].stepCount - 1) : ~Foreign(i, j) => RankAt(i, j) <= Rank(tx.stage)
      BY <2>3, <3>1, <3>2, <3>3 DEF Ordered, PendingAfterStored
    <3>4. ASSUME OneKey(i), NEW b \in Keys, NEW k \in 1..Len(queue'[b]), queue'[b][k].intent = i
          PROVE  Rank(tx.stage) <= Place(queue'[b][k].stage)
      <4>1. PICK l \in 1..Len(queue[b]) : queue'[b][k] = queue[b][l]
        BY <2>1 DEF Shrinks
      <4>2. b \in signers[i]
        BY <3>4, <4>1 DEF Ordered, PendingPlaced
      <4>3. b = a
        BY <3>2, <3>4, <4>2 DEF OneKey
      <4>4. 1 <= l
        BY QueueFacts
      <4>5. QED
        BY <2>3, <3>1, <3>2, <3>4, <4>1, <4>3, <4>4 DEF Ordered, PendingInOrder
    <3> HIDE DEF tx
    <3>5. QED
      BY <1>6, <2>1, <2>3, <3>2, <3>3, <3>4, OrderedByRecords
  <2>4. QED
    BY <1>6, <2>2, <2>3 DEF Applied
<1>7. CASE /\ StaysPut(i) /\ UNCHANGED queue /\ signers'[i] = signers[i]
           /\ \/ Left(i) \/ Opened(i) \/ Extended(i, "foreign")
              \/ \E s \in Statuses \ {"unknown"} : Judged(i, s)
  <2>1. Shrinks
    BY <1>7, QueueShrinks
  <2>2. QED
    BY <1>7, <2>1, OrderedByRecords
<1>8. QED
  BY <1>2, <1>3, <1>4, <1>5, <1>6, <1>7 DEF IntentStep

(* The argument of the order, per intent: what is stored, what is under way *)
(* and where the pipeline is are in the order of the stages.               *)
ClientOrdered == \A i \in IntentIds : Ordered(i)

LEMMA ClientOrderedAlways == ClientSpec => []ClientOrdered
<1>1. ClientInit => ClientOrdered
  <2> SUFFICES ASSUME ClientInit, NEW i \in IntentIds PROVE Ordered(i)
    BY DEF ClientOrdered
  <2>1. intents[i].stepCount = 0 /\ \A a \in Keys : queue[a] = <<>>
    BY DEF ClientInit, Init, NoIntent
  <2>2. \A j \in 0..(intents[i].stepCount - 1) : FALSE
    BY <2>1
  <2>3. \A a \in Keys : \A k \in 1..Len(queue[a]) : FALSE
    BY <2>1
  <2>4. QED
    BY <2>2, <2>3 DEF Ordered, PendingPlaced, StoredPlaced, PendingInOrder, PendingAfterStored, StoredInOrder
<1>2. Sound /\ ClientOrdered /\ [ClientNext]_allVars => ClientOrdered'
  BY IntentSteps, OrderedStep DEF ClientOrdered
<1>3. QED
  BY <1>1, <1>2, ClientSound, PTL DEF ClientSpec

(* For every number of keys, intents and steps: whatever failed, gave up or *)
(* was cut off, one key's registry shows the stages in their order.        *)
THEOREM RegistryShowsStagesInOrder == ClientSpec => []StagesInOrder
<1>1. ClientOrdered => StagesInOrder
  BY DEF ClientOrdered, Ordered, StoredInOrder, StagesInOrder, Foreign, RankAt
<1>2. QED
  BY <1>1, ClientOrderedAlways, PTL
-----------------------------------------------------------------------------
(* What the client says it did, as its calls and the store change it.       *)
LEMMA SequenceFacts ==
  ASSUME NEW S, NEW s \in Seq(S), NEW x \in S
  PROVE  /\ <<x>> \in Seq(S) /\ Append(s, x) \in Seq(S) /\ Len(s) \in Nat
         /\ Len(s) > 0 => s # <<>>
         /\ \A t \in Seq(S) : t \o (s \o <<x>>) = (t \o s) \o <<x>>
<1>1. <<x>> \in Seq(S)
  OBVIOUS
<1>2. \A t \in Seq(S) : t \o (s \o <<x>>) = (t \o s) \o <<x>>
  BY <1>1, ConcatAssociative
<1>3. QED
  BY <1>1, <1>2, AppendProperties, LenProperties, EmptySeq

LEMMA SaidIs ==
  ASSUME ClientShape, NEW i \in IntentIds
  PROVE  /\ trace[i] \in Seq(Writes) /\ call[i].writes \in Seq(Writes) /\ Said(i) \in Seq(Writes)
         /\ Len(trace[i]) \in Nat /\ Len(call[i].writes) \in Nat /\ Len(Said(i)) \in Nat
         /\ Len(Said(i)) = Len(trace[i]) + Len(call[i].writes)
         /\ \A k \in 1..Len(trace[i]) : Said(i)[k] = trace[i][k]
         /\ call[i].writes = <<>> => Said(i) = trace[i]
<1>1. trace[i] \in Seq(Writes) /\ call[i].writes \in Seq(Writes)
  BY ShapeFacts DEF Begun
<1>2. /\ Said(i) \in Seq(Writes) /\ Len(Said(i)) = Len(trace[i]) + Len(call[i].writes)
      /\ \A k \in 1..Len(trace[i]) + Len(call[i].writes) :
           Said(i)[k] = IF k <= Len(trace[i]) THEN trace[i][k] ELSE call[i].writes[k - Len(trace[i])]
  BY <1>1, ConcatProperties DEF Said
<1>3. Len(trace[i]) \in Nat /\ Len(call[i].writes) \in Nat /\ Len(Said(i)) \in Nat
  BY <1>1, <1>2, LenProperties
<1>4. \A k \in 1..Len(trace[i]) : Said(i)[k] = trace[i][k]
  <2> DEFINE m == Len(trace[i])
             n == Len(call[i].writes)
  <2>1. m \in Nat /\ n \in Nat
    BY <1>3
  <2> HIDE DEF m, n
  <2>2. \A k \in 1..m : k \in 1..m + n /\ k <= m
    BY <2>1
  <2>3. QED
    BY <1>2, <2>2 DEF m, n
<1>5. call[i].writes = <<>> => Said(i) = trace[i]
  BY <1>1, ConcatEmptySeq DEF Said
<1>6. QED
  BY <1>1, <1>2, <1>3, <1>4, <1>5

LEMMA SaidGrows ==
  ASSUME ClientShape, NEW i \in IntentIds, NEW w \in Writes,
         trace'[i] = trace[i], call'[i].writes = Append(call[i].writes, w)
  PROVE  /\ Len(Said(i)') = Len(Said(i)) + 1 /\ Said(i)'[Len(Said(i)) + 1] = w
         /\ \A k \in 1..Len(Said(i)) : Said(i)'[k] = Said(i)[k]
<1>1. /\ trace[i] \in Seq(Writes) /\ call[i].writes \in Seq(Writes)
      /\ Said(i) \in Seq(Writes)
  BY SaidIs
<1>2. Append(call[i].writes, w) = call[i].writes \o <<w>>
  BY <1>1, AppendIsConcat
<1>3. trace[i] \o (call[i].writes \o <<w>>) = (trace[i] \o call[i].writes) \o <<w>>
  <2> DEFINE t == trace[i]
             ws == call[i].writes
  <2>1. t \in Seq(Writes) /\ ws \in Seq(Writes)
    BY <1>1
  <2> HIDE DEF t, ws
  <2>2. t \o (ws \o <<w>>) = (t \o ws) \o <<w>>
    BY <2>1, SequenceFacts
  <2>3. QED
    BY <2>2 DEF t, ws
<1>4. Said(i)' = Said(i) \o <<w>>
  BY <1>2, <1>3 DEF Said
<1>5. Said(i)' = Append(Said(i), w)
  BY <1>1, <1>4, AppendIsConcat
<1>6. QED
  BY <1>1, <1>5, AppendProperties

LEMMA SaidMoves ==
  ASSUME ClientShape, NEW i \in IntentIds, Len(call[i].writes) > 0,
         trace'[i] = Append(trace[i], Head(call[i].writes)), call'[i].writes = Tail(call[i].writes)
  PROVE  Said(i)' = Said(i)
<1> DEFINE t == trace[i]
           ws == call[i].writes
<1>1. t \in Seq(Writes) /\ ws \in Seq(Writes) /\ ws # <<>>
  <2>1. t \in Seq(Writes) /\ ws \in Seq(Writes) /\ Len(ws) > 0
    BY SaidIs
  <2> HIDE DEF t, ws
  <2>2. QED
    BY <2>1, EmptySeq
<1>2. Head(ws) \in Writes /\ Tail(ws) \in Seq(Writes)
  BY <1>1, HeadTailProperties
<1>3. ws = <<Head(ws)>> \o Tail(ws)
  <2>1. /\ Len(ws) \in Nat /\ Len(ws) > 0 /\ Head(ws) = ws[1]
        /\ SubSeq(ws, 1, Len(ws)) = <<ws[1]>> \o SubSeq(ws, 1 + 1, Len(ws))
    BY <1>1, SubSeqRecursiveFirst
  <2>2. SubSeq(ws, 1, Len(ws)) = ws
    BY <1>1, SubSeqFull
  <2>3. Tail(ws) = SubSeq(ws, 2, Len(ws))
    BY <1>1, TailIsSubSeq
  <2>4. 1 + 1 = 2
    OBVIOUS
  <2>5. QED
    BY <2>1, <2>2, <2>3, <2>4
<1>4. Append(t, Head(ws)) = t \o <<Head(ws)>>
  BY <1>1, <1>2, AppendIsConcat
<1>5. <<Head(ws)>> \in Seq(Writes)
  BY <1>2
<1> HIDE DEF ws, t
<1>6. (t \o <<Head(ws)>>) \o Tail(ws) = t \o (<<Head(ws)>> \o Tail(ws))
  BY <1>1, <1>2, <1>5, ConcatAssociative
<1>7. Said(i)' = Append(t, Head(ws)) \o Tail(ws) /\ Said(i) = t \o ws
  BY DEF Said, t, ws
<1>8. QED
  BY <1>3, <1>4, <1>6, <1>7

LEMMA SingletonTail ==
  ASSUME NEW ws \in Seq(Writes), Len(ws) = 1
  PROVE  Tail(ws) = <<>> /\ Head(ws) = ws[1] /\ ws[1] \in Writes
<1>1. ws # <<>>
  BY EmptySeq
<1>2. Tail(ws) \in Seq(Writes) /\ Len(Tail(ws)) = 0
  BY <1>1, HeadTailProperties
<1>3. Tail(ws) = <<>>
  BY <1>2, EmptySeq
<1>4. Head(ws) = ws[1] /\ ws[1] \in Writes
  BY <1>1
<1>5. QED
  BY <1>3, <1>4

(* What a quiet step of a pipeline makes of it: nothing, one write more, or *)
(* what was not stored is dropped, perhaps for an error.                   *)
SaysNothingNew(i) == Said(i)' = Said(i)
SaysMore(i, w) ==
  /\ w \in Writes
  /\ Len(Said(i)') = Len(Said(i)) + 1 /\ Said(i)'[Len(Said(i)) + 1] = w
  /\ \A k \in 1..Len(Said(i)) : Said(i)'[k] = Said(i)[k]
TakesBack(i) ==
  /\ Len(trace[i]) \in Nat /\ Len(trace[i]) <= Len(Said(i))
  /\ \A k \in 1..Len(trace[i]) : Said(i)'[k] = Said(i)[k]
  /\ \/ Len(Said(i)') = Len(trace[i])
     \/ Len(Said(i)') = Len(trace[i]) + 1 /\ Said(i)'[Len(trace[i]) + 1].kind = "error"

LEMMA QuietSays ==
  ASSUME ClientShape, NEW i \in IntentIds, Quiet(i)
  PROVE  \/ /\ Start(i) \/ Narrate(i) \/ SkipEmpty(i) \/ Fail(i)
            /\ SaysNothingNew(i) /\ call'[i] = call[i] /\ call[i].phase = "ready"
         \/ /\ call[i].phase \in {"ready", "probe"} /\ UNCHANGED <<at, result>>
            /\ \/ SaysNothingNew(i) /\ call'[i].phase \in {"probe", "check", "write"}
               \/ SaysMore(i, [kind |-> "skipped", stage |-> at[i]]) /\ call'[i].phase = "store"
                  /\ call'[i].writes = <<[kind |-> "skipped", stage |-> at[i]]>>
         \/ /\ call[i].phase \in {"check", "write", "wait"} /\ UNCHANGED <<at, result>> /\ at[i] \in Calls
            /\ \/ SaysNothingNew(i) /\ call[i].phase = "check" /\ call'[i].phase = "write"
               \/ \E kind \in Kinds :
                  /\ SaysMore(i, [kind |-> kind, stage |-> at[i]])
                  /\ call'[i].phase \in {"write", "store"}
                  /\ at[i] \notin StageNames =>
                       /\ call'[i].phase = "store"
                       /\ call'[i].writes = <<[kind |-> kind, stage |-> at[i]]>>
                  /\ \/ /\ kind = "register" /\ at[i] = "register"
                        /\ call[i].phase = "check" /\ intents[i].status # "unknown"
                     \/ kind = "error"
                     \/ /\ call[i].phase = "wait" /\ ~Pending(i, call[i].by)
                        /\ kind = (CASE at[i] = "register" -> "register"
                                     [] at[i] \in Final -> "status" [] OTHER -> "step")
         \/ /\ call[i].phase = "store" /\ at[i] \in Calls
            /\ \/ SaysNothingNew(i) /\ UNCHANGED <<at, result>> /\ call'[i].phase = "store" /\ at[i] \in StageNames
               \/ /\ SaysNothingNew(i) /\ at'[i] \in AfterCall[at[i]] /\ call'[i] = NoCall
                  /\ result'[i] = ResultAt(at'[i], result[i])
                  /\ Len(call[i].writes) = 1 /\ Said(i)' = Append(trace[i], call[i].writes[1])
               \/ /\ TakesBack(i) /\ call'[i] = NoCall /\ at'[i] \in AfterCall[at[i]]
                  /\ Len(Said(i)') = Len(trace[i]) + 1 /\ Said(i)'[Len(trace[i]) + 1].kind = "error"
               \/ TakesBack(i) /\ call'[i] = NoCall /\ at'[i] \in {"failed", "caught"}
<1> DEFINE c == call[i]
<1>1. CASE Start(i) \/ Narrate(i) \/ SkipEmpty(i) \/ Fail(i)
  <2>1. call'[i] = call[i] /\ trace' = trace
    BY <1>1, MovesKeepShape
  <2>2. c.phase = "ready"
    BY <1>1, ShapeFacts DEF Start, Narrate, SkipEmpty, Fail, CallShape, Calls, StageNames, Final
  <2>3. QED
    BY <1>1, <2>1, <2>2 DEF SaysNothingNew, Said
<1>2. CASE BeginCached(i) \/ BeginProbing(i) \/ KeyAccepted(i) \/ KeyPassed(i) \/ NoRecorder(i)
  <2>1. UNCHANGED <<at, result, trace>> /\ c.phase \in {"ready", "probe"} /\ c.writes = <<>>
    BY <1>2, SearchKeepsShape
  <2>2. CASE call'[i].phase \in {"probe", "check", "write"} /\ call'[i].writes = <<>>
    BY <2>1, <2>2 DEF SaysNothingNew, Said
  <2>3. CASE call'[i].phase = "store" /\ call'[i].writes = <<[kind |-> "skipped", stage |-> at[i]]>>
    <3> DEFINE w == [kind |-> "skipped", stage |-> at[i]]
    <3>1. at[i] \in Calls
      BY <1>2, ShapeFacts DEF BeginCached, BeginProbing, KeyAccepted, KeyPassed, NoRecorder, CallShape
    <3>2. w \in Writes
      BY <3>1 DEF Writes, Kinds
    <3>3. call'[i].writes = Append(c.writes, w)
      BY <2>1, <2>3
    <3>4. SaysMore(i, w)
      BY <2>1, <3>2, <3>3, SaidGrows DEF SaysMore
    <3>5. QED
      BY <2>1, <2>3, <3>4
  <2>4. QED
    BY <1>2, <2>2, <2>3, SearchKeepsShape
<1>3. CASE CheckRegistered(i) \/ Confirm(i) \/ Throw(i)
  <2>1. UNCHANGED <<at, result, trace>> /\ at[i] \in Calls /\ c.phase \in {"check", "write", "wait"}
    BY <1>3, WritingKeepsShape
  <2>2. CASE CheckRegistered(i) /\ call'[i].phase = "write" /\ call'[i].writes = c.writes
    BY <2>1, <2>2 DEF SaysNothingNew, Said, CheckRegistered
  <2>3. ASSUME NEW kind \in Kinds, call'[i].phase \in {"write", "store"},
               at[i] \notin StageNames => call'[i].phase = "store",
               call'[i].writes = Append(c.writes, [kind |-> kind, stage |-> at[i]])
        PROVE  /\ SaysMore(i, [kind |-> kind, stage |-> at[i]])
               /\ at[i] \notin StageNames => call'[i].writes = <<[kind |-> kind, stage |-> at[i]]>>
    <3> DEFINE w == [kind |-> kind, stage |-> at[i]]
    <3>1. w \in Writes
      BY <2>1 DEF Writes
    <3>2. SaysMore(i, w)
      BY <2>1, <2>3, <3>1, SaidGrows DEF SaysMore
    <3>3. at[i] \notin StageNames => c.writes = <<>>
      BY <2>1, ShapeFacts DEF CallShape
    <3>4. Append(<<>>, w) = <<w>>
      OBVIOUS
    <3>5. QED
      BY <2>3, <3>2, <3>3, <3>4
  <2>4. CheckRegistered(i) => c.phase = "check" /\ at[i] = "register"
    BY ShapeFacts DEF CheckRegistered, CallShape
  <2>5. QED
    BY <1>3, <2>1, <2>2, <2>3, <2>4, WritingKeepsShape
<1>4. CASE StoreWrite(i) \/ StoreFails(i) \/ StoreRejects(i)
  <2>1. c.phase = "store" /\ at[i] \in Calls /\ NoCall.writes = <<>> /\ CallShape(i)
    BY <1>4, StoringKeepsShape, NoCallIsTyped, ShapeFacts
  <2>2. CASE /\ UNCHANGED <<at, result>> /\ call'[i].phase = "store"
             /\ trace'[i] = Append(trace[i], Head(c.writes))
             /\ Len(c.writes) > 1 /\ call'[i].writes = Tail(c.writes)
    <3> DEFINE n == Len(c.writes)
    <3>1. n \in Nat /\ n > 1 /\ (at[i] \notin StageNames => n = 1)
      BY <2>1, <2>2, SaidIs DEF CallShape
    <3> HIDE DEF n
    <3>2. at[i] \in StageNames /\ n > 0
      BY <3>1
    <3>3. SaysNothingNew(i)
      BY <2>2, <3>2, SaidMoves DEF SaysNothingNew, n
    <3>4. QED
      BY <2>1, <2>2, <3>2, <3>3
  <2>3. CASE /\ trace'[i] = Append(trace[i], Head(c.writes)) /\ call'[i] = NoCall
             /\ Len(c.writes) = 1 /\ at'[i] \in AfterCall[at[i]] /\ result'[i] = ResultAt(at'[i], result[i])
    <3>1. Tail(c.writes) = <<>> /\ Head(c.writes) = c.writes[1] /\ c.writes[1] \in Writes
      BY <2>3, SaidIs, SingletonTail
    <3> DEFINE n == Len(c.writes)
    <3>5. n = 1
      BY <2>3
    <3> HIDE DEF n
    <3>6. n > 0
      BY <3>5
    <3>2. SaysNothingNew(i)
      BY <2>1, <2>3, <3>1, <3>6, SaidMoves DEF SaysNothingNew, n
    <3>7. trace[i] \in Seq(Writes)
      BY SaidIs
    <3>3. Append(trace[i], c.writes[1]) \in Seq(Writes)
      BY <3>1, <3>7, SequenceFacts
    <3>4. Said(i)' = Append(trace[i], c.writes[1])
      BY <2>1, <2>3, <3>1, <3>3, ConcatEmptySeq DEF Said
    <3>8. QED
      BY <2>1, <2>3, <3>2, <3>4
  <2>4. Len(trace[i]) \in Nat /\ Len(trace[i]) <= Len(Said(i))
    <3> DEFINE m == Len(trace[i])
               n == Len(c.writes)
               l == Len(Said(i))
    <3>1. m \in Nat /\ n \in Nat /\ l = m + n
      BY SaidIs
    <3> HIDE DEF m, n, l
    <3>2. m \in Nat /\ m <= l
      BY <3>1
    <3>3. QED
      BY <3>2 DEF m, l
  <2>5. CASE /\ trace'[i] = Append(trace[i], [kind |-> "error", stage |-> at[i]]) /\ call'[i] = NoCall
             /\ at'[i] \in AfterCall[at[i]]
    <3> DEFINE w == [kind |-> "error", stage |-> at[i]]
    <3>1. w \in Writes /\ trace[i] \in Seq(Writes)
      BY <2>1, SaidIs DEF Writes, Kinds
    <3>2. Append(trace[i], w) \in Seq(Writes)
      BY <3>1
    <3>3. Said(i)' = Append(trace[i], w)
      BY <2>1, <2>5, <3>2, ConcatEmptySeq DEF Said
    <3>4. /\ Len(Said(i)') = Len(trace[i]) + 1 /\ Said(i)'[Len(trace[i]) + 1] = w
          /\ \A k \in 1..Len(trace[i]) : Said(i)'[k] = trace[i][k]
      BY <3>1, <3>3, AppendProperties
    <3>5. \A k \in 1..Len(trace[i]) : Said(i)'[k] = Said(i)[k]
      BY <3>4, SaidIs
    <3>6. QED
      BY <2>1, <2>4, <2>5, <3>4, <3>5 DEF TakesBack
  <2>6. CASE trace'[i] = trace[i] /\ call'[i] = NoCall /\ at'[i] \in {"failed", "caught"}
    <3>1. Said(i)' = trace[i]
      BY <2>1, <2>6, SaidIs, ConcatEmptySeq DEF Said
    <3>2. QED
      BY <2>1, <2>4, <2>6, <3>1, SaidIs DEF TakesBack
  <2>7. QED
    BY <1>4, <2>2, <2>3, <2>5, <2>6, StoringKeepsShape
<1>5. QED
  BY <1>1, <1>2, <1>3, <1>4 DEF Quiet
-----------------------------------------------------------------------------
(* Where an intent's transactions are: nowhere, or it is one, the one its   *)
(* pipeline waits for.                                                     *)
Idle(i) == \A b \in Keys : \A k \in 1..Len(queue[b]) : queue[b][k].intent # i
Single(i) ==
  /\ call[i].by \in Keys
  /\ \E k \in 1..Len(queue[call[i].by]) :
       /\ queue[call[i].by][k] = TxFor(i, at[i])
       /\ \A b \in Keys : \A l \in 1..Len(queue[b]) :
            queue[b][l].intent = i => b = call[i].by /\ l = k

LEMMA OthersKeepQueued ==
  ASSUME Sound, NEW i \in IntentIds, StaysPut(i),
         \/ UNCHANGED queue
         \/ \E j \in IntentIds : j # i /\ SentBy(j)
         \/ \E a \in Keys : MinedFrom(a) /\ queue[a][1].intent # i
  PROVE  (Idle(i) => Idle(i)') /\ (Single(i) => Single(i)')
<1> DEFINE by == call[i].by
<1>1. by' = by /\ TxFor(i, at[i])' = TxFor(i, at[i]) /\ TxFor(i, at[i]).intent = i
  BY DEF StaysPut, TxFor
<1>2. CASE UNCHANGED queue
  BY <1>1, <1>2 DEF Idle, Single
<1>3. ASSUME NEW j \in IntentIds, j # i, SentBy(j)
      PROVE  (Idle(i) => Idle(i)') /\ (Single(i) => Single(i)')
  <2>1. TxFor(j, at[j]).intent # i
    BY <1>3 DEF TxFor
  <2>2. \A b \in Keys : \A k \in 1..Len(queue'[b]) : queue'[b][k].intent = i =>
          k \in 1..Len(queue[b]) /\ queue'[b][k] = queue[b][k]
    BY <1>3, <2>1, SentWasPending
  <2>3. \A b \in Keys : \A k \in 1..Len(queue[b]) :
          k \in 1..Len(queue'[b]) /\ queue'[b][k] = queue[b][k]
    <3> SUFFICES ASSUME NEW b \in Keys, NEW k \in 1..Len(queue[b])
                 PROVE  k \in 1..Len(queue'[b]) /\ queue'[b][k] = queue[b][k]
      OBVIOUS
    <3> DEFINE m == Len(queue[b])
               n == Len(queue'[b])
    <3>1. (n = m \/ n = m + 1) /\ m \in Nat /\ queue'[b][k] = queue[b][k]
      BY <1>3, QueueFacts DEF SentBy
    <3> HIDE DEF m, n
    <3>2. k \in 1..m => k \in 1..n
      BY <3>1
    <3>3. QED
      BY <3>1, <3>2 DEF m, n
  <2>4. Idle(i) => Idle(i)'
    BY <2>2 DEF Idle
  <2>5. ASSUME Single(i) PROVE Single(i)'
    <3>1. PICK k \in 1..Len(queue[by]) :
            /\ queue[by][k] = TxFor(i, at[i])
            /\ \A b \in Keys : \A l \in 1..Len(queue[b]) : queue[b][l].intent = i => b = by /\ l = k
      BY <2>5 DEF Single
    <3>2. by \in Keys
      BY <2>5 DEF Single
    <3>3. k \in 1..Len(queue'[by]) /\ queue'[by][k] = TxFor(i, at[i])
      BY <2>3, <3>1, <3>2
    <3>4. \A b \in Keys : \A l \in 1..Len(queue'[b]) : queue'[b][l].intent = i => b = by /\ l = k
      BY <2>2, <3>1
    <3>5. QED
      BY <1>1, <3>2, <3>3, <3>4 DEF Single
  <2>6. QED
    BY <2>4, <2>5
<1>4. ASSUME NEW a \in Keys, MinedFrom(a), queue[a][1].intent # i
      PROVE  (Idle(i) => Idle(i)') /\ (Single(i) => Single(i)')
  <2>1. Idle(i) => Idle(i)'
    BY <1>4, MinedWasPending DEF Idle
  <2>2. ASSUME Single(i) PROVE Single(i)'
    <3>1. PICK k \in 1..Len(queue[by]) :
            /\ queue[by][k] = TxFor(i, at[i])
            /\ \A b \in Keys : \A l \in 1..Len(queue[b]) : queue[b][l].intent = i => b = by /\ l = k
      BY <2>2 DEF Single
    <3>2. by \in Keys /\ queue[by][k].intent = i
      BY <1>1, <2>2, <3>1 DEF Single
    <3> DEFINE d == IF by = a THEN 1 ELSE 0
    <3>3. k - d \in 1..Len(queue'[by]) /\ queue'[by][k - d] = queue[by][k]
      <4> DEFINE m == Len(queue[by])
                 n == Len(queue'[by])
      <4>1. m \in Nat /\ k \in 1..m
        BY <3>2, QueueFacts
      <4>2. CASE by = a
        <5>1. n = m - 1 /\ k # 1 /\ \A l \in 1..n : queue'[by][l] = queue[by][l + 1]
          BY <1>4, <3>2, <4>2 DEF MinedFrom
        <5> HIDE DEF m, n
        <5>2. k - 1 \in 1..n /\ (k - 1) + 1 = k
          BY <4>1, <5>1
        <5>3. QED
          BY <4>2, <5>1, <5>2 DEF n
      <4>3. CASE by # a
        BY <1>4, <3>2, <4>1, <4>3 DEF MinedFrom
      <4>4. QED
        BY <4>2, <4>3
    <3>4. ASSUME NEW b \in Keys, NEW l \in 1..Len(queue'[b]), queue'[b][l].intent = i
          PROVE  b = by /\ l = k - d
      <4> DEFINE o == IF b = a THEN l + 1 ELSE l
      <4>1. o \in 1..Len(queue[b]) /\ queue'[b][l] = queue[b][o]
        BY <1>4, MinedWasPending
      <4>2. b = by /\ o = k
        BY <3>1, <3>4, <4>1
      <4>3. l \in Int
        OBVIOUS
      <4>4. QED
        BY <4>2, <4>3
    <3> HIDE DEF d
    <3>5. QED
      BY <1>1, <3>1, <3>2, <3>3, <3>4 DEF Single
  <2>3. QED
    BY <2>1, <2>2
<1>5. QED
  BY <1>2, <1>3, <1>4

(* A pipeline that had nothing under way sends one transaction.            *)
LEMMA SendingMakesSingle ==
  ASSUME Sound, NEW i \in IntentIds, SentBy(i), Idle(i), at'[i] = at[i], call'[i].by = call[i].by
  PROVE  Single(i)'
<1> DEFINE by == call[i].by
           n == Len(queue[by])
<1>1. by \in Keys /\ n \in Nat /\ Len(queue'[by]) = n + 1 /\ queue'[by][n + 1] = TxFor(i, at[i])
  BY DEF SentBy
<1>2. n + 1 \in 1..Len(queue'[by])
  <2> HIDE DEF n
  <2>1. n + 1 \in 1..(n + 1)
    BY <1>1
  <2>2. QED
    BY <1>1, <2>1
<1>3. ASSUME NEW b \in Keys, NEW l \in 1..Len(queue'[b]), queue'[b][l].intent = i
      PROVE  b = by /\ l = n + 1
  BY <1>3, SentWasPending DEF Idle
<1>4. TxFor(i, at[i])' = TxFor(i, at[i])
  BY DEF TxFor
<1> HIDE DEF n
<1>5. QED
  BY <1>1, <1>2, <1>3, <1>4 DEF Single

(* The only transaction an intent had is mined.                            *)
LEMMA MiningMakesIdle ==
  ASSUME Sound, NEW i \in IntentIds, NEW a \in Keys, MinedFrom(a), Single(i), queue[a][1].intent = i
  PROVE  Idle(i)' /\ queue[a][1] = TxFor(i, at[i])
<1>1. PICK k \in 1..Len(queue[call[i].by]) :
        /\ queue[call[i].by][k] = TxFor(i, at[i])
        /\ \A b \in Keys : \A l \in 1..Len(queue[b]) :
             queue[b][l].intent = i => b = call[i].by /\ l = k
  BY DEF Single
<1>2. 1 \in 1..Len(queue[a])
  BY DEF MinedFrom
<1>3. a = call[i].by /\ k = 1
  BY <1>1, <1>2
<1>4. ASSUME NEW b \in Keys, NEW l \in 1..Len(queue'[b]), queue'[b][l].intent = i PROVE FALSE
  <2> DEFINE o == IF b = a THEN l + 1 ELSE l
  <2>1. o \in 1..Len(queue[b]) /\ queue'[b][l] = queue[b][o]
    BY MinedWasPending
  <2>2. b = a /\ o = 1
    BY <1>1, <1>3, <1>4, <2>1
  <2>3. l \in 1..Len(queue'[b]) => l > 0 /\ l \in Int
    OBVIOUS
  <2>4. QED
    BY <2>2, <2>3
<1>5. QED
  BY <1>1, <1>3, <1>4 DEF Idle

(* The claim of each write that nothing went wrong before: the intent is    *)
(* registered, and a step reported is the registry's of that number.       *)
SaidLen(i)    == Len(Said(i))
CleanTo(i, k) == \A l \in 1..k : Said(i)[l].kind \notin {"skipped", "error"}
Claim(i, k) ==
  /\ intents[i].status # "unknown"
  /\ k > 1 /\ Said(i)[k].kind = "step" =>
       /\ k - 2 < intents[i].stepCount
       /\ traceSteps[i][k - 2].payload = Said(i)[k].stage
PrefixTold(i) == ~upset[i] => \A k \in 1..SaidLen(i) : CleanTo(i, k) => Claim(i, k)

(* And while nothing went wrong at all: what is under way is exactly what   *)
(* the pipeline waits for, and the registry counts what it was told.       *)
BeforeRegistering(i) == Idle(i) /\ SaidLen(i) = 0 /\ intents[i].stepCount = 0
Registering(i) ==
  /\ intents[i].stepCount = 0
  /\ call[i].phase \notin {"wait", "store"} => Idle(i) /\ SaidLen(i) = 0
  /\ call[i].phase = "wait" =>
       /\ SaidLen(i) = 0
       /\ \/ Single(i) /\ intents[i].status = "unknown"
          \/ Idle(i) /\ intents[i].status # "unknown"
  /\ call[i].phase = "store" => Idle(i) /\ SaidLen(i) = 1
Reporting(i) ==
  /\ SaidLen(i) >= 1
  /\ call[i].phase # "wait" => Idle(i) /\ intents[i].stepCount = SaidLen(i) - 1
  /\ call[i].phase = "wait" =>
       \/ /\ Single(i) /\ intents[i].stepCount = SaidLen(i) - 1
          /\ intents[i].stepCount < MaxStepCount
       \/ /\ Idle(i) /\ intents[i].stepCount = SaidLen(i)
          /\ traceSteps[i][SaidLen(i) - 1].payload = at[i]
InPlace(i) ==
  /\ at[i] = "new" => BeforeRegistering(i)
  /\ at[i] = "register" => Registering(i)
  /\ at[i] \in StageNames => Reporting(i)
OnTrack(i) == ~upset[i] /\ CleanTo(i, SaidLen(i)) => InPlace(i)

LEMMA SaidLenIsNat ==
  ASSUME Sound, NEW i \in IntentIds
  PROVE  SaidLen(i) \in Nat /\ SaidLen(i)' = Len(Said(i)')
BY SaidIs DEF SaidLen, Sound

(* What no step does to an intent's records: forget it, or what is stored.  *)
Keeps(i) ==
  /\ intents[i].status # "unknown" => intents'[i].status # "unknown"
  /\ intents'[i].stepCount \in Nat /\ intents[i].stepCount <= intents'[i].stepCount
  /\ \A l \in 0..(intents[i].stepCount - 1) : traceSteps'[i][l] = traceSteps[i][l]

LEMMA RecordsAreKept ==
  ASSUME Sound, NEW i \in IntentIds,
         \/ Left(i) \/ Opened(i) \/ \E p : Extended(i, p)
         \/ \E s \in Statuses \ {"unknown"} : Judged(i, s)
  PROVE  Keeps(i)
<1>1. intents[i].stepCount \in Nat
  BY RecordTypes DEF Sound
<1>2. CASE Left(i) \/ Opened(i)
  BY <1>1, <1>2 DEF Keeps, Left, Opened
<1>3. CASE \E p : Extended(i, p)
  BY <1>1, <1>3 DEF Keeps, Extended
<1>4. CASE \E s \in Statuses \ {"unknown"} : Judged(i, s)
  BY <1>1, <1>4 DEF Keeps, Judged
<1>5. QED
  BY <1>2, <1>3, <1>4

(* Claims on what is still said stay true.                                 *)
LEMMA ClaimsAreKept ==
  ASSUME Sound, NEW i \in IntentIds, PrefixTold(i), Keeps(i), ~upset[i],
         NEW m \in Nat, m <= SaidLen(i), \A k \in 1..m : Said(i)'[k] = Said(i)[k],
         NEW k \in 1..m, CleanTo(i, k)'
  PROVE  Claim(i, k)'
<1>1. SaidLen(i) \in Nat /\ intents[i].stepCount \in Nat
  BY SaidLenIsNat, RecordTypes DEF Sound
<1>2. k \in 1..SaidLen(i) /\ \A l \in 1..k : l \in 1..m
  BY <1>1
<1>3. CleanTo(i, k)
  BY <1>2 DEF CleanTo
<1>4. Claim(i, k) /\ Said(i)'[k] = Said(i)[k]
  BY <1>2, <1>3 DEF PrefixTold
<1>5. intents'[i].status # "unknown"
  BY <1>4 DEF Claim, Keeps
<1>6. ASSUME k > 1, Said(i)[k].kind = "step"
      PROVE  /\ k - 2 < intents'[i].stepCount
             /\ traceSteps'[i][k - 2].payload = Said(i)[k].stage
  <2>1. k - 2 < intents[i].stepCount /\ traceSteps[i][k - 2].payload = Said(i)[k].stage
    BY <1>4, <1>6 DEF Claim
  <2>2. k - 2 \in 0..(intents[i].stepCount - 1)
    BY <1>1, <1>6, <2>1
  <2>3. traceSteps'[i][k - 2] = traceSteps[i][k - 2]
    BY <2>2 DEF Keeps
  <2>4. QED
    BY <1>1, <2>1, <2>3 DEF Keeps
<1>7. QED
  BY <1>4, <1>5, <1>6 DEF Claim

LEMMA PrefixExtends ==
  ASSUME Sound, NEW i \in IntentIds, PrefixTold(i), Keeps(i), upset'[i] = upset[i],
         NEW m \in Nat, m <= SaidLen(i), \A k \in 1..m : Said(i)'[k] = Said(i)[k],
         \/ SaidLen(i)' = m
         \/ SaidLen(i)' = m + 1 /\ (~upset[i] /\ CleanTo(i, m + 1)' => Claim(i, m + 1)')
  PROVE  PrefixTold(i)'
<1> SUFFICES ASSUME ~upset[i], NEW k \in 1..SaidLen(i)', CleanTo(i, k)' PROVE Claim(i, k)'
  BY DEF PrefixTold
<1>1. CASE k \in 1..m
  BY <1>1, ClaimsAreKept
<1>2. CASE SaidLen(i)' = m + 1 /\ k = m + 1
  BY <1>2 DEF CleanTo, Claim
<1>3. k \in 1..m \/ (SaidLen(i)' = m + 1 /\ k = m + 1)
  OBVIOUS
<1>4. QED
  BY <1>1, <1>2, <1>3

(* What is known when the transaction waited for is no longer under way.    *)
LEMMA ConfirmedIsStored ==
  ASSUME Sound, NEW i \in IntentIds, PendingSound(i), OnTrack(i), ~upset[i], CleanTo(i, SaidLen(i)),
         call[i].phase = "wait", ~Pending(i, call[i].by)
  PROVE  /\ at[i] \in Calls /\ intents[i].status # "unknown"
         /\ at[i] = "register" => Idle(i) /\ SaidLen(i) = 0 /\ intents[i].stepCount = 0
         /\ at[i] \in StageNames =>
              /\ Idle(i) /\ SaidLen(i) >= 1 /\ intents[i].stepCount = SaidLen(i)
              /\ traceSteps[i][SaidLen(i) - 1].payload = at[i]
<1>1. at[i] \in Calls
  BY ShapeFacts DEF CallShape, Sound
<1>2. ~Single(i)
  BY DEF Single, Pending, TxFor
<1>3. InPlace(i)
  BY DEF OnTrack
<1>4. QED
  BY <1>1, <1>2, <1>3, StageSets DEF InPlace, Registering, Reporting, PendingSound

LEMMA PrefixToldStep ==
  ASSUME Sound, NEW i \in IntentIds, PendingSound(i), OnTrack(i), PrefixTold(i), IntentStep(i)
  PROVE  PrefixTold(i)'
<1>0. PICK n \in Nat : n = SaidLen(i)
  BY SaidLenIsNat
<1>1. /\ n \in Nat /\ n = Len(Said(i)) /\ SaidLen(i)' = Len(Said(i)') /\ n <= SaidLen(i)
      /\ n = SaidLen(i) /\ Len(trace[i]) \in Nat
  BY <1>0, SaidLenIsNat, SaidIs DEF SaidLen, Sound
<1>2. CASE Said(i)' = Said(i) /\ Keeps(i) /\ upset'[i] = upset[i]
  <2>1. SaidLen(i)' = n /\ \A k \in 1..n : Said(i)'[k] = Said(i)[k]
    BY <1>1, <1>2
  <2>2. QED
    BY <1>1, <1>2, <2>1, PrefixExtends
<1>3. CASE upset'[i]
  BY <1>3 DEF PrefixTold
<1>4. StaysPut(i) => Said(i)' = Said(i)
  BY DEF StaysPut, Said
<1>5. CASE Quiet(i) /\ UNCHANGED <<vars, queue, history>>
  <2>1. Left(i) /\ Keeps(i) /\ upset'[i] = upset[i] /\ intents'[i] = intents[i] /\ traceSteps'[i] = traceSteps[i]
    BY <1>5, RecordsAreKept DEF vars, recordVars, history, Left
  <2>2. CASE SaysNothingNew(i)
    BY <1>2, <2>1, <2>2 DEF SaysNothingNew
  <2>3. CASE TakesBack(i)
    <3>0. PICK m \in Nat : m = Len(trace[i])
      BY <1>1
    <3>1. m \in Nat /\ m <= n /\ \A k \in 1..m : Said(i)'[k] = Said(i)[k]
      BY <1>1, <2>3, <3>0 DEF TakesBack
    <3>2. \/ SaidLen(i)' = m
          \/ SaidLen(i)' = m + 1 /\ Said(i)'[m + 1].kind = "error"
      BY <1>1, <2>3, <3>0 DEF TakesBack
    <3>3. m + 1 \in 1..(m + 1)
      BY <3>1
    <3>4. Said(i)'[m + 1].kind = "error" => ~CleanTo(i, m + 1)'
      BY <3>3 DEF CleanTo
    <3>5. QED
      BY <1>1, <2>1, <3>1, <3>2, <3>4, PrefixExtends
  <2>4. ASSUME NEW kind, SaysMore(i, [kind |-> kind, stage |-> at[i]]),
               \/ kind \in {"skipped", "error"}
               \/ kind = "register" /\ intents[i].status # "unknown"
               \/ /\ call[i].phase = "wait" /\ ~Pending(i, call[i].by)
                  /\ kind = (CASE at[i] = "register" -> "register"
                               [] at[i] \in Final -> "status" [] OTHER -> "step")
        PROVE  PrefixTold(i)'
    <3> DEFINE w == [kind |-> kind, stage |-> at[i]]
    <3>1. /\ SaidLen(i)' = n + 1 /\ Said(i)'[n + 1] = w
          /\ \A k \in 1..n : Said(i)'[k] = Said(i)[k]
      BY <1>1, <2>4 DEF SaysMore
    <3>2. n + 1 \in 1..(n + 1) /\ \A k \in 1..n : k \in 1..(n + 1)
      BY <1>1
    <3>3. CleanTo(i, n + 1)' => CleanTo(i, n) /\ kind \notin {"skipped", "error"}
      BY <3>1, <3>2 DEF CleanTo
    <3>4. ASSUME ~upset[i], CleanTo(i, n + 1)' PROVE Claim(i, n + 1)'
      <4>1. CASE kind = "register" /\ intents[i].status # "unknown"
        BY <2>1, <3>1, <4>1 DEF Claim
      <4>2. CASE /\ call[i].phase = "wait" /\ ~Pending(i, call[i].by)
                 /\ kind = (CASE at[i] = "register" -> "register"
                              [] at[i] \in Final -> "status" [] OTHER -> "step")
        <5>1. /\ at[i] \in Calls /\ intents[i].status # "unknown"
              /\ at[i] \in StageNames =>
                   intents[i].stepCount = n /\ traceSteps[i][n - 1].payload = at[i]
          BY <3>3, <3>4, <4>2, <1>1, ConfirmedIsStored
        <5>2. kind = "step" => at[i] \in StageNames
          BY <4>2, <5>1 DEF Calls
        <5>3. (n + 1) - 2 = n - 1 /\ n - 1 < n
          BY <1>1
        <5>4. QED
          BY <2>1, <3>1, <5>1, <5>2, <5>3 DEF Claim
      <4>3. QED
        BY <2>4, <3>3, <3>4, <4>1, <4>2
    <3>5. QED
      BY <1>1, <2>1, <3>1, <3>4, PrefixExtends
  <2>5. ClientShape
    BY DEF Sound
  <2>6. QED
    BY <1>5, <2>2, <2>3, <2>4, <2>5, QuietSays
<1>6. CASE Cutoff(i) /\ UNCHANGED <<vars, queue, history>>
  <2>1. Keeps(i) /\ upset'[i] = upset[i]
    BY <1>6, RecordsAreKept DEF vars, recordVars, history, Left
  <2>0. PICK m \in Nat : m = Len(trace[i])
    BY <1>1
  <2>2. trace[i] \in Seq(Writes) /\ Said(i)' = trace[i] /\ \A k \in 1..m : Said(i)[k] = trace[i][k]
    <3>1. trace[i] \in Seq(Writes) /\ \A k \in 1..m : Said(i)[k] = trace[i][k]
      BY <2>0, SaidIs DEF Sound
    <3>2. trace'[i] = trace[i] /\ call'[i].writes = <<>>
      BY <1>6, NoCallIsTyped DEF Cutoff
    <3>3. QED
      BY <3>1, <3>2, ConcatEmptySeq DEF Said
  <2>3. m \in Nat /\ m <= n /\ SaidLen(i)' = m
    <3>1. m \in Nat /\ SaidLen(i)' = m
      BY <1>1, <2>0, <2>2
    <3> DEFINE l == Len(call[i].writes)
    <3>2. l \in Nat /\ n = m + l
      BY <1>1, <2>0, SaidIs DEF Sound
    <3> HIDE DEF l
    <3>3. QED
      BY <3>1, <3>2
  <2>4. QED
    BY <1>1, <2>1, <2>2, <2>3, PrefixExtends
<1>7. CASE /\ Send(i) /\ UNCHANGED <<vars, upset>> /\ trace'[i] = trace[i]
           /\ call'[i].writes = call[i].writes
  <2>1. Said(i)' = Said(i) /\ upset'[i] = upset[i] /\ Left(i)
    BY <1>7 DEF Said, vars, recordVars, Left
  <2>2. QED
    BY <1>2, <2>1, RecordsAreKept
<1>8. CASE StaysPut(i) /\ Left(i) /\ upset'[i] = upset[i]
  BY <1>2, <1>4, <1>8, RecordsAreKept
<1>9. ASSUME NEW a \in Keys, StaysPut(i), UNCHANGED upset,
             queue[a][1].intent # i => Left(i),
             queue[a][1].intent = i => (Accepts(a, queue[a][1]) /\ Applied(queue[a][1]))
                                        \/ (~Accepts(a, queue[a][1]) /\ Left(i))
      PROVE  PrefixTold(i)'
  <2>1. \/ Left(i) \/ Opened(i) \/ \E p : Extended(i, p)
        \/ \E s \in Statuses \ {"unknown"} : Judged(i, s)
    <3>1. {"completed", "failed"} \subseteq Statuses \ {"unknown"}
      BY DEF Statuses
    <3>2. QED
      BY <1>9, <3>1 DEF Applied
  <2>2. QED
    BY <1>2, <1>4, <1>9, <2>1, RecordsAreKept
<1>10. QED
  BY <1>3, <1>5, <1>6, <1>7, <1>8, <1>9 DEF IntentStep

LEMMA TxForFields ==
  ASSUME NEW i \in IntentIds, NEW s \in Calls
  PROVE  /\ TxFor(i, s).intent = i /\ TxFor(i, s).stage = s
         /\ s = "register" <=> TxFor(i, s).op = "register"
         /\ s \in StageNames => TxFor(i, s).op \in {"recordStep", "recordExternalStep"}
<1>1. TxFor(i, s).intent = i /\ TxFor(i, s).stage = s
  BY DEF TxFor
<1>2. CASE s = "register"
  BY <1>1, <1>2, StageSets DEF TxFor, Final
<1>3. CASE s \in Final
  BY <1>1, <1>3, StageSets DEF TxFor, Final
<1>4. CASE s \in StageNames
  BY <1>1, <1>4, StageSets DEF TxFor
<1>5. QED
  BY <1>2, <1>3, <1>4 DEF Calls

(* Where a pipeline on track stands when a step of its own is over.        *)
LEMMA MovesInPlace ==
  ASSUME Sound, NEW i \in IntentIds, InPlace(i), Start(i) \/ Narrate(i) \/ SkipEmpty(i) \/ Fail(i),
         Goes(i), UNCHANGED <<vars, queue, history>>,
         SaidLen(i)' = SaidLen(i), call'[i] = call[i], call[i].phase = "ready"
  PROVE  InPlace(i)'
<1>1. Idle(i)' = Idle(i) /\ intents' = intents
  BY DEF Idle, vars, recordVars
<1>2. CASE Start(i)
  <2>1. at[i] = "new" /\ at'[i] = "register"
    BY <1>2, ShapeFacts DEF Start, MoveTo, Sound
  <2>2. QED
    BY <1>1, <2>1 DEF InPlace, BeforeRegistering, Registering, StageNames
<1>3. CASE Narrate(i)
  <2>1. at'[i] = "done"
    BY <1>3, ShapeFacts DEF Narrate, MoveTo, Sound
  <2>2. QED
    BY <2>1 DEF InPlace, StageNames
<1>4. CASE SkipEmpty(i)
  <2>1. at[i] \in Calls /\ at'[i] \in AfterCall[at[i]]
    BY <1>4, ShapeFacts DEF SkipEmpty, MoveTo, Sound
  <2>2. at[i] # "register"
    BY <1>4 DEF SkipEmpty, StepsOf
  <2>3. at'[i] \in StageNames => at[i] \in StageNames
    BY <2>1, <2>2 DEF AfterCall, Calls, StageNames, Final
  <2>4. at'[i] \notin {"new", "register"}
    BY <2>1 DEF AfterCall, Calls, StageNames, Final
  <2>5. QED
    BY <1>1, <2>3, <2>4 DEF InPlace, Reporting
<1>5. CASE Fail(i)
  <2>1. at'[i] \in {"failed", "caught"}
    BY <1>5, ShapeFacts, NextCalls DEF Fail, MoveTo, Sound
  <2>2. QED
    BY <2>1 DEF InPlace, StageNames
<1>6. QED
  BY <1>2, <1>3, <1>4, <1>5

LEMMA QuietInPlace ==
  ASSUME Sound, NEW i \in IntentIds, PendingSound(i), OnTrack(i), Quiet(i), Goes(i),
         UNCHANGED <<vars, queue, history>>, ~upset[i], CleanTo(i, SaidLen(i))'
  PROVE  InPlace(i)'
<1>0. PICK n \in Nat : n = SaidLen(i)
  BY SaidLenIsNat
<1>1. /\ n = Len(Said(i)) /\ SaidLen(i)' = Len(Said(i)') /\ n = SaidLen(i)
      /\ intents' = intents /\ traceSteps' = traceSteps /\ Idle(i)' = Idle(i)
      /\ ClientShape /\ call[i].phase \in Phases
  BY <1>0, SaidLenIsNat, ShapeFacts DEF SaidLen, Sound, Idle, vars, recordVars, Begun
<1>2. ASSUME SaidLen(i)' = n + 1, \A k \in 1..n : Said(i)'[k] = Said(i)[k]
      PROVE  CleanTo(i, SaidLen(i)) /\ InPlace(i) /\ Said(i)'[n + 1].kind \notin {"skipped", "error"}
  <2>1. n + 1 \in 1..(n + 1) /\ \A k \in 1..n : k \in 1..(n + 1)
    OBVIOUS
  <2>2. CleanTo(i, n) /\ Said(i)'[n + 1].kind \notin {"skipped", "error"}
    BY <1>2, <2>1 DEF CleanTo
  <2>3. QED
    BY <1>1, <2>2 DEF OnTrack
<1>9. ASSUME NEW kind, SaysMore(i, [kind |-> kind, stage |-> at[i]])
      PROVE  /\ SaidLen(i)' = n + 1 /\ CleanTo(i, SaidLen(i)) /\ InPlace(i)
             /\ kind \notin {"skipped", "error"}
  <2>1. /\ SaidLen(i)' = n + 1 /\ Said(i)'[n + 1] = [kind |-> kind, stage |-> at[i]]
        /\ \A k \in 1..n : Said(i)'[k] = Said(i)[k]
    BY <1>1, <1>9 DEF SaysMore
  <2>2. QED
    BY <1>2, <2>1
<1>3. ASSUME SaysNothingNew(i) PROVE SaidLen(i)' = n /\ CleanTo(i, SaidLen(i)) /\ InPlace(i)
  <2>1. SaidLen(i)' = n /\ Said(i)' = Said(i)
    BY <1>1, <1>3 DEF SaysNothingNew
  <2>2. CleanTo(i, SaidLen(i))
    BY <1>1, <2>1 DEF CleanTo
  <2>3. QED
    BY <2>1, <2>2 DEF OnTrack
<1>4. CASE /\ Start(i) \/ Narrate(i) \/ SkipEmpty(i) \/ Fail(i)
           /\ SaysNothingNew(i) /\ call'[i] = call[i] /\ call[i].phase = "ready"
  BY <1>1, <1>3, <1>4, MovesInPlace
<1>5. CASE /\ call[i].phase \in {"ready", "probe"} /\ UNCHANGED <<at, result>>
           /\ \/ SaysNothingNew(i) /\ call'[i].phase \in {"probe", "check", "write"}
              \/ SaysMore(i, [kind |-> "skipped", stage |-> at[i]])
  <2>1. CASE SaysNothingNew(i) /\ call'[i].phase \in {"probe", "check", "write"}
    BY <1>1, <1>3, <1>5, <2>1 DEF InPlace, BeforeRegistering, Registering, Reporting
  <2>2. CASE SaysMore(i, [kind |-> "skipped", stage |-> at[i]])
    BY <1>9, <2>2
  <2>3. QED
    BY <1>5, <2>1, <2>2
<1>6. CASE /\ call[i].phase \in {"check", "write", "wait"} /\ UNCHANGED <<at, result>> /\ at[i] \in Calls
           /\ \/ SaysNothingNew(i) /\ call[i].phase = "check" /\ call'[i].phase = "write"
              \/ \E kind \in Kinds :
                 /\ SaysMore(i, [kind |-> kind, stage |-> at[i]])
                 /\ call'[i].phase \in {"write", "store"}
                 /\ at[i] \notin StageNames => call'[i].phase = "store"
                 /\ \/ /\ kind = "register" /\ at[i] = "register"
                       /\ call[i].phase = "check" /\ intents[i].status # "unknown"
                    \/ kind = "error"
                    \/ call[i].phase = "wait" /\ ~Pending(i, call[i].by)
  <2>1. CASE SaysNothingNew(i) /\ call[i].phase = "check" /\ call'[i].phase = "write"
    BY <1>1, <1>3, <1>6, <2>1 DEF InPlace, BeforeRegistering, Registering, Reporting
  <2>2. ASSUME NEW kind \in Kinds, SaysMore(i, [kind |-> kind, stage |-> at[i]]),
               call'[i].phase \in {"write", "store"},
               at[i] \notin StageNames => call'[i].phase = "store",
               \/ /\ kind = "register" /\ at[i] = "register" /\ call[i].phase = "check"
               \/ kind = "error"
               \/ call[i].phase = "wait" /\ ~Pending(i, call[i].by)
        PROVE  InPlace(i)'
    <3>1. /\ SaidLen(i)' = n + 1 /\ CleanTo(i, SaidLen(i)) /\ InPlace(i) /\ kind # "error"
          /\ at'[i] = at[i] /\ at[i] \in Calls
      BY <1>6, <1>9, <2>2
    <3>2. at[i] # "new"
      BY <3>1 DEF Calls, StageNames, Final
    <3>3. CASE kind = "register" /\ at[i] = "register" /\ call[i].phase = "check"
      <4>1. Idle(i) /\ n = 0 /\ intents[i].stepCount = 0
        BY <1>1, <3>1, <3>3 DEF InPlace, Registering
      <4>2. call'[i].phase = "store" /\ at[i] \notin StageNames
        BY <2>2, <3>3, StageSets
      <4>3. QED
        BY <1>1, <3>1, <3>2, <3>3, <4>1, <4>2 DEF InPlace, Registering
    <3>4. CASE call[i].phase = "wait" /\ ~Pending(i, call[i].by)
      <4>1. /\ at[i] = "register" => Idle(i) /\ n = 0 /\ intents[i].stepCount = 0
            /\ at[i] \in StageNames => Idle(i) /\ n >= 1 /\ intents[i].stepCount = n
        BY <1>1, <3>1, <3>4, ConfirmedIsStored
      <4>2. n + 1 >= 1 /\ (n + 1) - 1 = n /\ 0 + 1 = 1
        OBVIOUS
      <4>3. at[i] = "register" => at[i] \notin StageNames
        BY StageSets
      <4>4. QED
        BY <1>1, <2>2, <3>1, <3>2, <4>1, <4>2, <4>3 DEF InPlace, Registering, Reporting
    <3>5. QED
      BY <2>2, <3>1, <3>3, <3>4
  <2>3. QED
    BY <1>6, <2>1, <2>2
<1>7. CASE /\ call[i].phase = "store" /\ at[i] \in Calls
           /\ \/ SaysNothingNew(i) /\ UNCHANGED <<at, result>> /\ call'[i].phase = "store" /\ at[i] \in StageNames
              \/ SaysNothingNew(i) /\ at'[i] \in AfterCall[at[i]] /\ call'[i] = NoCall
              \/ /\ TakesBack(i)
                 /\ Len(Said(i)') = Len(trace[i]) + 1 /\ Said(i)'[Len(trace[i]) + 1].kind = "error"
              \/ TakesBack(i) /\ at'[i] \in {"failed", "caught"}
  <2>1. CASE SaysNothingNew(i) /\ UNCHANGED <<at, result>> /\ call'[i].phase = "store" /\ at[i] \in StageNames
    BY <1>1, <1>3, <1>7, <2>1, StageSets DEF InPlace, Reporting, Calls, StageNames
  <2>2. CASE SaysNothingNew(i) /\ at'[i] \in AfterCall[at[i]] /\ call'[i] = NoCall
    <3>1. call'[i].phase = "ready" /\ InPlace(i) /\ SaidLen(i)' = n
      BY <1>3, <2>2, NoCallIsTyped
    <3>2. at'[i] \notin {"new", "register"}
      BY <1>7, <2>2 DEF AfterCall, Calls, StageNames, Final
    <3>3. at'[i] \in StageNames => at[i] = "register" \/ at[i] \in StageNames
      BY <1>7, <2>2 DEF AfterCall, Calls, StageNames, Final
    <3>4. CASE at[i] = "register"
      <4>1. Idle(i) /\ n = 1 /\ intents[i].stepCount = 0
        BY <1>1, <1>7, <3>1, <3>4 DEF InPlace, Registering
      <4>2. QED
        BY <1>1, <3>1, <3>2, <4>1 DEF InPlace, Reporting
    <3>5. CASE at[i] \in StageNames
      BY <1>1, <1>7, <3>1, <3>2, <3>5 DEF InPlace, Reporting
    <3>6. QED
      BY <3>2, <3>3, <3>4, <3>5 DEF InPlace
  <2>3. CASE TakesBack(i) /\ Len(Said(i)') = Len(trace[i]) + 1 /\ Said(i)'[Len(trace[i]) + 1].kind = "error"
    <3>1. PICK m \in Nat : m = Len(trace[i])
      BY <2>3 DEF TakesBack
    <3>2. m + 1 \in 1..(m + 1) /\ SaidLen(i)' = m + 1 /\ Said(i)'[m + 1].kind = "error"
      BY <1>1, <2>3, <3>1
    <3>3. QED
      BY <3>2 DEF CleanTo
  <2>4. CASE TakesBack(i) /\ at'[i] \in {"failed", "caught"}
    BY <2>4 DEF InPlace, StageNames
  <2>5. QED
    BY <1>7, <2>1, <2>2, <2>3, <2>4
<1>8. QED
  BY <1>1, <1>4, <1>5, <1>6, <1>7, QuietSays

(* The only transaction under way of a pipeline on track is accepted.      *)
LEMMA MinedInPlace ==
  ASSUME Sound, NEW i \in IntentIds, PendingSound(i), ~upset[i], InPlace(i), StaysPut(i),
         NEW a \in Keys, MinedFrom(a), queue[a][1].intent = i, SaidLen(i)' = SaidLen(i),
         (Accepts(a, queue[a][1]) /\ Applied(queue[a][1])) \/ (~Accepts(a, queue[a][1]) /\ Left(i))
  PROVE  InPlace(i)'
<1> DEFINE tx == queue[a][1]
<1>1. 1 \in 1..Len(queue[a])
  BY DEF MinedFrom
<1>2. ~Idle(i) /\ at'[i] = at[i] /\ call'[i] = call[i]
  BY <1>1 DEF Idle, StaysPut
<1>3. /\ a \in recorders /\ ~paused
      /\ tx.stage # "register" => intents[i].status # "unknown"
  BY <1>1 DEF PendingSound
<1>4. ASSUME Single(i)
      PROVE  /\ Idle(i)' /\ tx.stage = at[i] /\ at[i] \in Calls
             /\ at[i] = "register" => tx.op = "register"
             /\ at[i] \in StageNames => tx.op \in {"recordStep", "recordExternalStep"}
  <2>1. Idle(i)' /\ tx = TxFor(i, at[i])
    BY <1>4, MiningMakesIdle
  <2>2. tx.stage = at[i]
    <3> HIDE DEF tx
    <3>1. QED
      BY <2>1 DEF TxFor
  <2>3. at[i] \in Calls
    BY <1>1, <2>2, QueueFacts
  <2> HIDE DEF tx
  <2>4. QED
    BY <2>1, <2>2, <2>3, TxForFields
<1>5. CASE at[i] = "new"
  BY <1>2, <1>5 DEF InPlace, BeforeRegistering
<1>6. CASE at[i] = "register"
  <2>1. /\ call[i].phase = "wait" /\ SaidLen(i) = 0 /\ Single(i)
        /\ intents[i].status = "unknown" /\ intents[i].stepCount = 0
    BY <1>2, <1>6 DEF InPlace, Registering
  <2>2. Accepts(a, tx)
    BY <1>3, <1>4, <1>6, <2>1 DEF Accepts, OnlyRecorder, WhenNotPaused
  <2>3. Opened(i)
    BY <1>4, <1>6, <2>1, <2>2, StageSets DEF Applied, Final
  <2>4. QED
    BY <1>2, <1>4, <1>6, <2>1, <2>3, StageSets DEF InPlace, Registering, Opened
<1>7. CASE at[i] \in StageNames
  <2>1. /\ call[i].phase = "wait" /\ SaidLen(i) >= 1 /\ Single(i)
        /\ intents[i].stepCount = SaidLen(i) - 1 /\ intents[i].stepCount < MaxStepCount
    BY <1>2, <1>7 DEF InPlace, Reporting
  <2>2. tx.stage # "register" /\ tx.stage \notin Final /\ tx.stage = at[i]
    BY <1>4, <1>7, <2>1, StageSets
  <2>3. Accepts(a, tx)
    BY <1>3, <1>4, <1>7, <2>1, <2>2 DEF Accepts, OnlyRecorder, WhenNotPaused
  <2>4. Extended(i, at[i])
    BY <2>2, <2>3 DEF Applied
  <2>5. intents'[i].stepCount = SaidLen(i) /\ traceSteps'[i][SaidLen(i) - 1].payload = at[i]
    BY <2>1, <2>4, SaidLenIsNat DEF Extended
  <2>6. at[i] # "new" /\ at[i] # "register"
    BY <1>7 DEF StageNames
  <2>7. QED
    BY <1>2, <1>4, <1>7, <2>1, <2>5, <2>6 DEF InPlace, Reporting
<1>8. CASE at[i] \notin {"new", "register"} \union StageNames
  BY <1>2, <1>8 DEF InPlace
<1>9. QED
  BY <1>5, <1>6, <1>7, <1>8

LEMMA OnTrackStep ==
  ASSUME Sound, NEW i \in IntentIds, PendingSound(i), OnTrack(i), IntentStep(i)
  PROVE  OnTrack(i)'
<1> SUFFICES ASSUME ~upset'[i], CleanTo(i, SaidLen(i))' PROVE InPlace(i)'
  BY DEF OnTrack
<1>1. ASSUME Said(i)' = Said(i), ~upset[i]
      PROVE  SaidLen(i)' = SaidLen(i) /\ InPlace(i)
  BY <1>1 DEF OnTrack, CleanTo, SaidLen
<1>2. StaysPut(i) => Said(i)' = Said(i) /\ at'[i] = at[i] /\ call'[i] = call[i]
  BY DEF StaysPut, Said
<1>3. ASSUME ~upset[i], StaysPut(i), Left(i), Idle(i) => Idle(i)', Single(i) => Single(i)'
      PROVE  InPlace(i)'
  BY <1>1, <1>2, <1>3 DEF InPlace, BeforeRegistering, Registering, Reporting, Left
<1>4. CASE Quiet(i) /\ Goes(i) /\ UNCHANGED <<vars, queue, history>>
  <2>1. upset' = upset
    BY <1>4 DEF history
  <2>2. QED
    BY <1>4, <2>1, QuietInPlace
<1>5. CASE /\ Send(i) /\ SentBy(i) /\ UNCHANGED <<vars, upset>> /\ at'[i] = at[i] /\ trace'[i] = trace[i]
           /\ call[i].phase = "write" /\ call'[i].phase = "wait"
           /\ call'[i].by = call[i].by /\ call'[i].writes = call[i].writes
           /\ at[i] \in Calls /\ Accepts(call[i].by, TxFor(i, at[i]))
  <2>1. Said(i)' = Said(i) /\ intents' = intents /\ ~upset[i]
    BY <1>5 DEF Said, vars, recordVars
  <2>2. InPlace(i) /\ SaidLen(i)' = SaidLen(i)
    BY <1>1, <2>1
  <2>3. CASE at[i] = "register"
    <3>1. Idle(i) /\ SaidLen(i) = 0 /\ intents[i].stepCount = 0
      BY <1>5, <2>2, <2>3 DEF InPlace, Registering
    <3>2. intents[i].status = "unknown"
      BY <1>5, <2>3, TxForFields DEF Accepts
    <3>3. Single(i)'
      BY <1>5, <3>1, SendingMakesSingle
    <3>4. QED
      BY <1>5, <2>1, <2>2, <2>3, <3>1, <3>2, <3>3, StageSets DEF InPlace, Registering
  <2>4. CASE at[i] \in StageNames
    <3>1. Idle(i) /\ SaidLen(i) >= 1 /\ intents[i].stepCount = SaidLen(i) - 1
      BY <1>5, <2>2, <2>4 DEF InPlace, Reporting
    <3>2. intents[i].stepCount < MaxStepCount
      <4>1. at[i] # "register" /\ at[i] \notin Final
        BY <2>4, StageSets
      <4>2. TxFor(i, at[i]).op \in {"recordStep", "recordExternalStep"} /\ TxFor(i, at[i]).intent = i
        BY <4>1 DEF TxFor
      <4>3. QED
        BY <1>5, <4>2 DEF Accepts
    <3>3. Single(i)'
      BY <1>5, <3>1, SendingMakesSingle
    <3>4. at[i] # "new" /\ at[i] # "register"
      BY <2>4 DEF StageNames
    <3>5. QED
      BY <1>5, <2>1, <2>2, <2>4, <3>1, <3>2, <3>3, <3>4 DEF InPlace, Reporting
  <2>5. CASE at[i] \in Final
    BY <1>5, <2>5 DEF InPlace, Final, StageNames
  <2>6. QED
    BY <1>5, <2>3, <2>4, <2>5 DEF Calls
<1>6. CASE /\ StaysPut(i) /\ Left(i) /\ upset'[i] = upset[i]
           /\ UNCHANGED queue \/ \E j \in IntentIds : j # i /\ SentBy(j)
  BY <1>3, <1>6, OthersKeepQueued
<1>7. CASE Cutoff(i) /\ UNCHANGED <<vars, queue, history>>
  <2>1. CASE at'[i] = at[i] /\ at[i] \in {"new", "done"}
    <3>1. call[i].phase = "ready" /\ call[i] = NoCall
      <4>1. call[i].phase = "ready"
        BY <2>1, ShapeFacts DEF CallShape, Sound, Calls, StageNames, Final
      <4>2. QED
        BY <4>1, ShapeFacts DEF CallShape, Sound
    <3>2. Said(i)' = Said(i) /\ Idle(i)' = Idle(i) /\ intents' = intents /\ upset' = upset
      BY <1>7, <3>1 DEF Cutoff, Said, Idle, vars, recordVars, history
    <3>3. QED
      BY <1>1, <2>1, <3>2 DEF InPlace, BeforeRegistering, StageNames
  <2>2. CASE at'[i] = "dead"
    BY <2>2 DEF InPlace, StageNames
  <2>3. QED
    BY <1>7, <2>1, <2>2 DEF Cutoff
<1>8. ASSUME NEW a \in Keys, StaysPut(i), UNCHANGED upset, MinedFrom(a),
             queue[a][1].intent # i => Left(i),
             queue[a][1].intent = i => (Accepts(a, queue[a][1]) /\ Applied(queue[a][1]))
                                        \/ (~Accepts(a, queue[a][1]) /\ Left(i))
      PROVE  InPlace(i)'
  <2>1. CASE queue[a][1].intent # i
    BY <1>3, <1>8, <2>1, OthersKeepQueued
  <2>2. CASE queue[a][1].intent = i
    BY <1>1, <1>2, <1>8, <2>2, MinedInPlace
  <2>3. QED
    BY <2>1, <2>2
<1>9. CASE StaysPut(i) /\ UNCHANGED queue /\ upset'[i] = upset[i] /\ Left(i)
  BY <1>3, <1>9, OthersKeepQueued
<1>10. QED
  BY <1>4, <1>5, <1>6, <1>7, <1>8, <1>9 DEF IntentStep

(* The argument of the reports, per intent.                                *)
Honest(i) == ResultFits(i) /\ PendingSound(i) /\ OnTrack(i) /\ PrefixTold(i)
ClientHonest == \A i \in IntentIds : Honest(i)

LEMMA ClientStarts ==
  ASSUME ClientInit, NEW i \in IntentIds
  PROVE  /\ at[i] = "new" /\ call[i] = NoCall /\ Said(i) = <<>> /\ SaidLen(i) = 0
         /\ Idle(i) /\ intents[i] = NoIntent
<1>1. at[i] = "new" /\ call[i] = NoCall /\ trace[i] = <<>> /\ intents[i] = NoIntent
  BY DEF ClientInit, Init
<1>2. Said(i) = <<>>
  BY <1>1, NoCallIsTyped, ConcatEmptySeq DEF Said
<1>3. \A a \in Keys : queue[a] = <<>>
  BY DEF ClientInit
<1>4. QED
  BY <1>1, <1>2, <1>3 DEF SaidLen, Idle

LEMMA ClientHonestAlways == ClientSpec => []ClientHonest
<1>1. ClientInit => ClientHonest
  <2> SUFFICES ASSUME ClientInit, NEW i \in IntentIds PROVE Honest(i)
    BY DEF ClientHonest
  <2>1. /\ at[i] = "new" /\ call[i].phase = "ready" /\ SaidLen(i) = 0 /\ Idle(i)
        /\ intents[i].stepCount = 0 /\ intents[i].status = "unknown"
    BY ClientStarts, NoCallIsTyped DEF NoIntent
  <2>2. PendingSound(i)
    BY <2>1 DEF PendingSound, Idle
  <2>3. OnTrack(i)
    BY <2>1 DEF OnTrack, InPlace, BeforeRegistering, StageNames
  <2>4. PrefixTold(i)
    BY <2>1 DEF PrefixTold
  <2>5. ResultFits(i)
    BY <2>1 DEF ResultFits
  <2>6. QED
    BY <2>2, <2>3, <2>4, <2>5 DEF Honest
<1>2. Sound /\ ClientHonest /\ [ClientNext]_allVars => ClientHonest'
  BY IntentSteps, ResultFitsStep, PendingSoundStep, OnTrackStep, PrefixToldStep DEF ClientHonest, Honest
<1>3. QED
  BY <1>1, <1>2, ClientSound, PTL DEF ClientSpec

(* A receipt that admits no error, of an intent nobody else disturbed,     *)
(* reports no step the registry has not got under that number and of that  *)
(* stage, for every number of keys, intents and steps.                     *)
THEOREM ReportedStepsAreStored == ClientSpec => []ReportedIsStored
<1>1. Sound /\ ClientHonest => ReportedIsStored
  <2> SUFFICES ASSUME Sound, ClientHonest, NEW i \in IntentIds, Clean(i), NEW k \in 1..Len(Said(i))
               PROVE  Claim(i, k)
    BY DEF ReportedIsStored, Claim
  <2>1. SaidLen(i) \in Nat /\ k \in 1..SaidLen(i)
    BY SaidLenIsNat DEF SaidLen
  <2>2. ~upset[i] /\ \A l \in 1..SaidLen(i) : Said(i)[l].kind \notin {"skipped", "error"}
    BY DEF Clean, SaidLen
  <2>3. \A l \in 1..k : l \in 1..SaidLen(i)
    BY <2>1
  <2>4. CleanTo(i, k)
    BY <2>2, <2>3 DEF CleanTo
  <2>5. QED
    BY <2>1, <2>2, <2>4 DEF ClientHonest, Honest, PrefixTold
<1>2. QED
  BY <1>1, ClientSound, ClientHonestAlways, PTL
-----------------------------------------------------------------------------
(* The registry's verdict.  A pipeline that ends waits for a transaction    *)
(* with its result, the last it has under way, or was told its result.     *)
Last(i) ==
  /\ call[i].by \in Keys
  /\ \E k \in 1..Len(queue[call[i].by]) :
       /\ queue[call[i].by][k] = TxFor(i, at[i])
       /\ \A b \in Keys : \A l \in 1..Len(queue[b]) :
            queue[b][l].intent = i => b = call[i].by /\ l <= k
Told(i, r) == Idle(i) /\ intents[i].status = (IF r = "succeeded" THEN "completed" ELSE "failed")
Ending(i) ==
  /\ at[i] \in Final /\ call[i].phase = "wait" => Last(i) \/ Told(i, result[i])
  /\ at[i] \in Final /\ call[i].phase = "store" /\ CleanTo(i, SaidLen(i)) => Told(i, result[i])
  /\ at[i] \in {"narrate", "done"} /\ CleanTo(i, SaidLen(i)) => Told(i, result[i])
VerdictOnTrack(i) == ~upset[i] /\ OneKey(i) => Ending(i)

LEMMA OthersKeepLast ==
  ASSUME Sound, NEW i \in IntentIds, StaysPut(i), Last(i),
         \/ UNCHANGED queue
         \/ \E j \in IntentIds : j # i /\ SentBy(j)
  PROVE  Last(i)'
<1> DEFINE by == call[i].by
<1>1. by' = by /\ TxFor(i, at[i])' = TxFor(i, at[i]) /\ by \in Keys
  BY DEF StaysPut, TxFor, Last
<1>2. CASE UNCHANGED queue
  BY <1>1, <1>2 DEF Last
<1>3. ASSUME NEW j \in IntentIds, j # i, SentBy(j) PROVE Last(i)'
  <2>1. TxFor(j, at[j]).intent # i
    BY <1>3 DEF TxFor
  <2>2. PICK k \in 1..Len(queue[by]) :
          /\ queue[by][k] = TxFor(i, at[i])
          /\ \A b \in Keys : \A l \in 1..Len(queue[b]) : queue[b][l].intent = i => b = by /\ l <= k
    BY DEF Last
  <2>3. \A b \in Keys : \A l \in 1..Len(queue'[b]) : queue'[b][l].intent = i => b = by /\ l <= k
    BY <1>3, <2>1, <2>2, SentWasPending
  <2>4. k \in 1..Len(queue'[by]) /\ queue'[by][k] = queue[by][k]
    <3> DEFINE m == Len(queue[by])
               n == Len(queue'[by])
    <3>1. (n = m \/ n = m + 1) /\ m \in Nat /\ queue'[by][k] = queue[by][k]
      BY <1>1, <1>3, QueueFacts DEF SentBy
    <3> HIDE DEF m, n
    <3>2. k \in 1..m => k \in 1..n
      BY <3>1
    <3>3. QED
      BY <3>1, <3>2 DEF m, n
  <2>5. QED
    BY <1>1, <2>2, <2>3, <2>4 DEF Last
<1>4. QED
  BY <1>2, <1>3

LEMMA SendingMakesLast ==
  ASSUME Sound, NEW i \in IntentIds, SentBy(i), PendingPlaced(i)', at'[i] = at[i], call'[i].by = call[i].by,
         signers'[i] = signers[i] \union {call[i].by}, OneKey(i)'
  PROVE  Last(i)'
<1> DEFINE by == call[i].by
<1>0. PICK n \in Nat : n = Len(queue[by])
  BY DEF SentBy
<1>1. by \in Keys /\ Len(queue'[by]) = n + 1 /\ queue'[by][n + 1] = TxFor(i, at[i])
  BY <1>0 DEF SentBy
<1>2. n + 1 \in 1..(n + 1)
  OBVIOUS
<1>3. ASSUME NEW b \in Keys, NEW l \in 1..Len(queue'[b]), queue'[b][l].intent = i
      PROVE  b = by /\ l <= n + 1
  <2>1. b = by
    BY <1>3 DEF PendingPlaced, OneKey
  <2>2. QED
    BY <1>1, <2>1
<1>4. TxFor(i, at[i])' = TxFor(i, at[i])
  BY DEF TxFor
<1>5. QED
  BY <1>1, <1>2, <1>3, <1>4 DEF Last

LEMMA MiningKeepsLast ==
  ASSUME Sound, NEW i \in IntentIds, StaysPut(i), Last(i), NEW a \in Keys, MinedFrom(a)
  PROVE  \/ Last(i)'
         \/ Idle(i)' /\ queue[a][1] = TxFor(i, at[i]) /\ queue[a][1].intent = i
<1> DEFINE by == call[i].by
<1>1. /\ by' = by /\ TxFor(i, at[i])' = TxFor(i, at[i]) /\ by \in Keys
      /\ TxFor(i, at[i]).intent = i
  BY DEF StaysPut, TxFor, Last
<1>2. PICK k \in 1..Len(queue[by]) :
        /\ queue[by][k] = TxFor(i, at[i])
        /\ \A b \in Keys : \A l \in 1..Len(queue[b]) : queue[b][l].intent = i => b = by /\ l <= k
  BY DEF Last
<1>3. ASSUME NEW b \in Keys, NEW l \in 1..Len(queue'[b]), queue'[b][l].intent = i
      PROVE  b = by /\ (IF b = a THEN l + 1 ELSE l) <= k
  BY <1>2, <1>3, MinedWasPending
<1>4. CASE a = by /\ k = 1
  <2>1. ASSUME NEW b \in Keys, NEW l \in 1..Len(queue'[b]), queue'[b][l].intent = i PROVE FALSE
    <3>1. l + 1 <= 1 /\ l > 0 /\ l \in Int
      BY <1>3, <1>4, <2>1
    <3>2. QED
      BY <3>1
  <2>2. QED
    BY <1>1, <1>2, <1>4, <2>1 DEF Idle
<1>5. CASE a = by /\ k # 1
  <2>0. PICK m \in Nat : m = Len(queue[by])
    BY <1>1, QueueFacts
  <2>1. /\ Len(queue'[by]) = m - 1 /\ \A l \in 1..(m - 1) : queue'[by][l] = queue[by][l + 1]
        /\ k \in 1..m
    BY <1>5, <2>0 DEF MinedFrom
  <2>2. k - 1 \in 1..(m - 1) /\ (k - 1) + 1 = k
    BY <1>5, <2>1
  <2>3. queue'[by][k - 1] = TxFor(i, at[i]) /\ k - 1 \in 1..Len(queue'[by])
    BY <1>2, <2>1, <2>2
  <2>4. \A b \in Keys : \A l \in 1..Len(queue'[b]) : queue'[b][l].intent = i => b = by /\ l <= k - 1
    BY <1>3, <1>5
  <2>5. QED
    BY <1>1, <2>3, <2>4 DEF Last
<1>6. CASE a # by
  <2>1. queue'[by] = queue[by]
    BY <1>1, <1>6 DEF MinedFrom
  <2>2. \A b \in Keys : \A l \in 1..Len(queue'[b]) : queue'[b][l].intent = i => b = by /\ l <= k
    BY <1>3, <1>6
  <2>3. QED
    BY <1>1, <1>2, <2>1, <2>2 DEF Last
<1>7. QED
  BY <1>4, <1>5, <1>6

LEMMA QuietEnding ==
  ASSUME Sound, NEW i \in IntentIds, Quiet(i), UNCHANGED <<vars, queue, history>>, Ending(i)
  PROVE  Ending(i)'
<1>0. PICK n \in Nat : n = SaidLen(i)
  BY SaidLenIsNat
<1>1. /\ n = Len(Said(i)) /\ SaidLen(i)' = Len(Said(i)') /\ n = SaidLen(i)
      /\ ClientShape /\ \A r : Told(i, r)' = Told(i, r)
  BY <1>0, SaidLenIsNat DEF SaidLen, Sound, Idle, Told, vars, recordVars
<1>2. SaysNothingNew(i) => (CleanTo(i, SaidLen(i))' <=> CleanTo(i, SaidLen(i)))
  BY DEF SaysNothingNew, CleanTo, SaidLen
<1>3. ASSUME NEW m \in Nat, SaidLen(i)' = m + 1, Said(i)'[m + 1].kind \in {"skipped", "error"}
      PROVE  ~CleanTo(i, SaidLen(i))'
  <2>1. m + 1 \in 1..(m + 1)
    OBVIOUS
  <2>2. QED
    BY <1>3, <2>1 DEF CleanTo
<1>4. ASSUME NEW w \in Writes, SaysMore(i, w)
      PROVE  /\ w.kind \in {"skipped", "error"} => ~CleanTo(i, SaidLen(i))'
             /\ CleanTo(i, SaidLen(i))' => CleanTo(i, SaidLen(i))
  <2>1. /\ SaidLen(i)' = n + 1 /\ Said(i)'[n + 1] = w
        /\ \A k \in 1..n : Said(i)'[k] = Said(i)[k]
    BY <1>1, <1>4 DEF SaysMore
  <2>2. \A k \in 1..n : k \in 1..(n + 1)
    OBVIOUS
  <2>3. CleanTo(i, SaidLen(i))' => CleanTo(i, SaidLen(i))
    BY <1>1, <2>1, <2>2 DEF CleanTo
  <2>4. QED
    BY <1>3, <2>1, <2>3
<1>5. ASSUME call'[i].phase \notin {"wait", "store"}, at'[i] \notin {"narrate", "done"}
      PROVE  Ending(i)'
  BY <1>5 DEF Ending
<1>6. CASE /\ Start(i) \/ Narrate(i) \/ SkipEmpty(i) \/ Fail(i)
           /\ SaysNothingNew(i) /\ call'[i] = call[i] /\ call[i].phase = "ready"
  <2>1. CASE Start(i) \/ Fail(i)
    <3>1. at'[i] \in {"register", "failed", "caught"}
      BY <2>1, <1>1, ShapeFacts, NextCalls DEF Start, Fail, MoveTo
    <3>2. QED
      BY <1>5, <1>6, <3>1
  <2>2. CASE Narrate(i)
    <3>1. at[i] = "narrate" /\ at'[i] = "done" /\ result'[i] = result[i]
      BY <2>2, <1>1, ShapeFacts DEF Narrate, MoveTo, ResultAt
    <3>2. QED
      BY <1>1, <1>2, <1>6, <3>1 DEF Ending, Final
  <2>3. CASE SkipEmpty(i)
    <3>1. at[i] \in Calls /\ at'[i] \in AfterCall[at[i]] /\ at[i] \notin Final
      <4>1. at[i] \in Calls /\ at'[i] \in AfterCall[at[i]]
        BY <2>3, <1>1, ShapeFacts DEF SkipEmpty, MoveTo
      <4>2. at[i] \notin Final
        BY <2>3 DEF SkipEmpty, StepsOf, Final
      <4>3. QED
        BY <4>1, <4>2
    <3>2. at'[i] \notin {"narrate", "done"}
      BY <3>1 DEF Calls, AfterCall, StageNames, Final
    <3>3. QED
      BY <1>5, <1>6, <3>2
  <2>4. QED
    BY <1>6, <2>1, <2>2, <2>3
<1>7. CASE /\ call[i].phase \in {"ready", "probe"} /\ UNCHANGED <<at, result>>
           /\ \/ SaysNothingNew(i) /\ call'[i].phase \in {"probe", "check", "write"}
              \/ SaysMore(i, [kind |-> "skipped", stage |-> at[i]]) /\ call'[i].phase = "store"
  <2>1. CASE SaysNothingNew(i) /\ call'[i].phase \in {"probe", "check", "write"}
    BY <1>1, <1>2, <1>7, <2>1 DEF Ending
  <2>2. CASE SaysMore(i, [kind |-> "skipped", stage |-> at[i]]) /\ call'[i].phase = "store"
    <3>1. [kind |-> "skipped", stage |-> at[i]] \in Writes
      BY <2>2 DEF SaysMore
    <3>2. ~CleanTo(i, SaidLen(i))'
      BY <1>4, <2>2, <3>1
    <3>3. QED
      BY <2>2, <3>2 DEF Ending
  <2>3. QED
    BY <1>7, <2>1, <2>2
<1>8. CASE /\ call[i].phase \in {"check", "write", "wait"} /\ UNCHANGED <<at, result>> /\ at[i] \in Calls
           /\ \/ SaysNothingNew(i) /\ call[i].phase = "check" /\ call'[i].phase = "write"
              \/ \E kind \in Kinds :
                 /\ SaysMore(i, [kind |-> kind, stage |-> at[i]])
                 /\ call'[i].phase \in {"write", "store"}
                 /\ \/ at[i] = "register"
                    \/ kind = "error"
                    \/ call[i].phase = "wait" /\ ~Pending(i, call[i].by)
  <2>1. at'[i] \notin {"narrate", "done"}
    BY <1>8 DEF Calls, StageNames, Final
  <2>2. CASE call'[i].phase = "write"
    BY <1>5, <2>1, <2>2
  <2>3. ASSUME NEW kind \in Kinds, SaysMore(i, [kind |-> kind, stage |-> at[i]]), call'[i].phase = "store",
               \/ at[i] = "register"
               \/ kind = "error"
               \/ call[i].phase = "wait" /\ ~Pending(i, call[i].by)
        PROVE  Ending(i)'
    <3>1. [kind |-> kind, stage |-> at[i]] \in Writes
      BY <2>3 DEF SaysMore
    <3>2. kind = "error" => ~CleanTo(i, SaidLen(i))'
      BY <1>4, <2>3, <3>1
    <3>3. CASE kind = "error"
      BY <2>1, <2>3, <3>2, <3>3 DEF Ending
    <3>4. CASE at[i] = "register"
      BY <1>8, <2>1, <2>3, <3>4 DEF Ending, Final
    <3>5. CASE call[i].phase = "wait" /\ ~Pending(i, call[i].by)
      <4>1. ~Last(i)
        BY <3>5 DEF Last, Pending, TxFor
      <4>2. QED
        BY <1>1, <1>8, <2>1, <2>3, <3>5, <4>1 DEF Ending
    <3>6. QED
      BY <2>3, <3>3, <3>4, <3>5
  <2>4. QED
    BY <1>8, <2>2, <2>3
<1>9. CASE /\ call[i].phase = "store" /\ at[i] \in Calls
           /\ \/ SaysNothingNew(i) /\ UNCHANGED <<at, result>> /\ call'[i].phase = "store" /\ at[i] \in StageNames
              \/ /\ SaysNothingNew(i) /\ at'[i] \in AfterCall[at[i]] /\ call'[i] = NoCall
                 /\ result'[i] = ResultAt(at'[i], result[i])
              \/ /\ TakesBack(i) /\ call'[i] = NoCall
                 /\ Len(Said(i)') = Len(trace[i]) + 1 /\ Said(i)'[Len(trace[i]) + 1].kind = "error"
              \/ TakesBack(i) /\ call'[i] = NoCall /\ at'[i] \in {"failed", "caught"}
  <2>1. CASE SaysNothingNew(i) /\ UNCHANGED <<at, result>> /\ call'[i].phase = "store" /\ at[i] \in StageNames
    <3>1. at'[i] \notin Final /\ at'[i] \notin {"narrate", "done"}
      BY <2>1, StageSets DEF StageNames
    <3>2. QED
      BY <3>1 DEF Ending
  <2>2. CASE /\ SaysNothingNew(i) /\ at'[i] \in AfterCall[at[i]] /\ call'[i] = NoCall
             /\ result'[i] = ResultAt(at'[i], result[i])
    <3>1. CASE at'[i] \in {"narrate", "done"}
      <4>1. at[i] \in Final /\ result'[i] = result[i]
        BY <1>9, <2>2, <3>1 DEF Calls, StageNames, Final, AfterCall, ResultAt
      <4>2. QED
        BY <1>1, <1>2, <1>9, <2>2, <3>1, <4>1, NoCallIsTyped DEF Ending
    <3>2. CASE at'[i] \notin {"narrate", "done"}
      BY <1>5, <2>2, <3>2, NoCallIsTyped
    <3>3. QED
      BY <3>1, <3>2
  <2>3. CASE /\ TakesBack(i) /\ call'[i] = NoCall
             /\ Len(Said(i)') = Len(trace[i]) + 1 /\ Said(i)'[Len(trace[i]) + 1].kind = "error"
    <3>1. PICK m \in Nat : m = Len(trace[i])
      BY <2>3 DEF TakesBack
    <3>2. ~CleanTo(i, SaidLen(i))'
      BY <1>1, <1>3, <2>3, <3>1
    <3>3. QED
      BY <2>3, <3>2, NoCallIsTyped DEF Ending
  <2>4. CASE TakesBack(i) /\ call'[i] = NoCall /\ at'[i] \in {"failed", "caught"}
    BY <1>5, <2>4, NoCallIsTyped
  <2>5. QED
    BY <1>9, <2>1, <2>2, <2>3, <2>4
<1>10. QED
  BY <1>1, <1>6, <1>7, <1>8, <1>9, QuietSays

LEMMA EndingStep ==
  ASSUME Sound, NEW i \in IntentIds, ResultFits(i), PendingSound(i), PendingPlaced(i)', VerdictOnTrack(i),
         IntentStep(i)
  PROVE  VerdictOnTrack(i)'
<1> SUFFICES ASSUME ~upset'[i], OneKey(i)' PROVE Ending(i)'
  BY DEF VerdictOnTrack
<1>1. ASSUME ~upset[i], signers[i] \subseteq signers'[i] PROVE Ending(i)
  BY <1>1 DEF VerdictOnTrack, OneKey
<1>2. StaysPut(i) => /\ at'[i] = at[i] /\ call'[i] = call[i] /\ result'[i] = result[i]
                     /\ CleanTo(i, SaidLen(i))' = CleanTo(i, SaidLen(i))
  BY DEF StaysPut, CleanTo, SaidLen, Said
<1>3. ASSUME ~upset[i], signers'[i] = signers[i], StaysPut(i),
             Last(i) => Last(i)' \/ Told(i, result[i])', Told(i, result[i]) => Told(i, result[i])'
      PROVE  Ending(i)'
  BY <1>1, <1>2, <1>3 DEF Ending
<1>4. CASE Quiet(i) /\ UNCHANGED <<vars, queue, history>>
  <2>1. upset' = upset /\ signers' = signers
    BY <1>4 DEF history
  <2>2. QED
    BY <1>1, <1>4, <2>1, QuietEnding
<1>5. CASE /\ Send(i) /\ SentBy(i) /\ signers'[i] = signers[i] \union {call[i].by}
           /\ at'[i] = at[i] /\ call'[i].phase = "wait" /\ call'[i].by = call[i].by /\ at[i] \in Calls
  <2>1. Last(i)'
    BY <1>5, SendingMakesLast
  <2>2. at'[i] \notin {"narrate", "done"}
    BY <1>5 DEF Calls, StageNames, Final
  <2>3. QED
    BY <1>5, <2>1, <2>2 DEF Ending
<1>6. CASE /\ StaysPut(i) /\ Left(i) /\ upset'[i] = upset[i] /\ signers'[i] = signers[i]
           /\ UNCHANGED queue \/ \E j \in IntentIds : j # i /\ SentBy(j)
  <2>1. Last(i) => Last(i)'
    BY <1>6, OthersKeepLast
  <2>2. Idle(i) => Idle(i)'
    BY <1>6, OthersKeepQueued
  <2>3. Told(i, result[i]) => Told(i, result[i])'
    BY <1>2, <1>6, <2>2 DEF Told, Left
  <2>4. QED
    BY <1>3, <1>6, <2>1, <2>3
<1>7. CASE Cutoff(i) /\ UNCHANGED <<vars, queue, history>>
  <2>1. CASE at'[i] = at[i] /\ at[i] \in {"new", "done"}
    <3>1. call[i].phase = "ready" /\ call[i] = NoCall
      <4>1. call[i].phase = "ready"
        BY <2>1, ShapeFacts DEF CallShape, Sound, Calls, StageNames, Final
      <4>2. QED
        BY <4>1, ShapeFacts DEF CallShape, Sound
    <3>2. /\ Said(i)' = Said(i) /\ Idle(i)' = Idle(i) /\ intents' = intents /\ upset' = upset
          /\ signers' = signers /\ result'[i] = result[i] /\ call'[i] = call[i]
      BY <1>7, <3>1 DEF Cutoff, Said, Idle, vars, recordVars, history
    <3>3. CleanTo(i, SaidLen(i))' = CleanTo(i, SaidLen(i))
      BY <3>2 DEF CleanTo, SaidLen
    <3>4. QED
      BY <1>1, <2>1, <3>1, <3>2, <3>3, NoCallIsTyped DEF Ending, Told
  <2>2. CASE at'[i] = "dead"
    BY <2>2 DEF Ending, Final
  <2>3. QED
    BY <1>7, <2>1, <2>2 DEF Cutoff
<1>8. ASSUME NEW a \in Keys, StaysPut(i), UNCHANGED <<recorders, paused, upset, signers>>, MinedFrom(a),
             queue[a][1].intent # i => Left(i),
             queue[a][1].intent = i => (Accepts(a, queue[a][1]) /\ Applied(queue[a][1]))
                                        \/ (~Accepts(a, queue[a][1]) /\ Left(i))
      PROVE  Ending(i)'
  <2> DEFINE tx == queue[a][1]
  <2>0. 1 \in 1..Len(queue[a]) /\ ~upset[i]
    BY <1>8 DEF MinedFrom
  <2>1. Told(i, result[i]) => Told(i, result[i])'
    <3>1. Idle(i) => tx.intent # i
      BY <2>0 DEF Idle
    <3>2. tx.intent # i /\ Idle(i) => Idle(i)' /\ Left(i)
      BY <1>8, OthersKeepQueued
    <3>3. QED
      BY <1>2, <1>8, <3>1, <3>2 DEF Told, Left
  <2>2. CASE ~Last(i) \/ Last(i)'
    BY <1>3, <1>8, <2>0, <2>1, <2>2
  <2>3. CASE Last(i) /\ Idle(i)' /\ tx = TxFor(i, at[i]) /\ tx.intent = i /\ at[i] \in Final
    <3>1. tx.stage = at[i] /\ at[i] # "register" /\ at[i] \notin StageNames
      <4> HIDE DEF tx
      <4>1. QED
        BY <2>3, StageSets DEF TxFor, Final
    <3>2. tx.op = "updateIntentStatus"
      <4> HIDE DEF tx
      <4>1. QED
        BY <2>3, <3>1 DEF TxFor
    <3>3. Accepts(a, tx)
      BY <2>0, <2>3, <3>1, <3>2 DEF Accepts, OnlyRecorder, WhenNotPaused, PendingSound
    <3>4. Judged(i, IF at[i] = "completed" THEN "completed" ELSE "failed")
      BY <1>8, <2>3, <3>1, <3>3 DEF Applied
    <3>5. Told(i, result[i])'
      BY <1>2, <1>8, <2>3, <3>4 DEF Told, Judged, ResultFits, Final
    <3>6. QED
      BY <1>3, <1>8, <2>0, <2>1, <3>5
  <2>4. CASE at[i] \notin Final
    BY <1>1, <1>2, <1>8, <2>0, <2>1, <2>4 DEF Ending
  <2>5. QED
    BY <1>8, <2>2, <2>3, <2>4, MiningKeepsLast
<1>9. CASE StaysPut(i) /\ UNCHANGED queue /\ signers'[i] = signers[i] /\ upset'[i] = upset[i] /\ Left(i)
  BY <1>6, <1>9
<1>10. QED
  BY <1>4, <1>5, <1>6, <1>7, <1>8, <1>9 DEF IntentStep

ClientJudged == \A i \in IntentIds : VerdictOnTrack(i)

LEMMA ClientJudgedAlways == ClientSpec => []ClientJudged
<1>1. ClientInit => ClientJudged
  <2> SUFFICES ASSUME ClientInit, NEW i \in IntentIds PROVE VerdictOnTrack(i)
    BY DEF ClientJudged
  <2>1. at[i] = "new"
    BY ClientStarts
  <2>2. QED
    BY <2>1 DEF VerdictOnTrack, Ending, Final
<1>2. Sound /\ ClientHonest /\ ClientOrdered' /\ ClientJudged /\ [ClientNext]_allVars => ClientJudged'
  BY IntentSteps, EndingStep DEF ClientHonest, Honest, ClientOrdered, Ordered, ClientJudged
<1>3. QED
  BY <1>1, <1>2, ClientSound, ClientHonestAlways, ClientOrderedAlways, PTL DEF ClientSpec

(* For every number of keys, intents and steps: the registry's verdict is   *)
(* the receipt's, unless someone else gave it or two keys wrote.           *)
THEOREM RegistryVerdictIsTheResult == ClientSpec => []VerdictTellsResult
<1>1. Sound /\ ClientHonest /\ ClientJudged => VerdictTellsResult
  <2> SUFFICES ASSUME Sound, ClientHonest, ClientJudged, NEW i \in IntentIds, ~upset[i]
               PROVE  /\ intents[i].status \in {"completed", "failed"} => result[i] # "running"
                      /\ at[i] = "done" /\ Clean(i) /\ OneKey(i) =>
                           intents[i].status = (IF result[i] = "succeeded" THEN "completed" ELSE "failed")
    BY DEF VerdictTellsResult
  <2>1. intents[i].status \in {"completed", "failed"} => result[i] # "running"
    BY DEF ClientHonest, Honest, PendingSound
  <2>2. Clean(i) => CleanTo(i, SaidLen(i))
    BY DEF Clean, CleanTo, SaidLen
  <2>3. QED
    BY <2>1, <2>2 DEF ClientJudged, VerdictOnTrack, Ending, Told
<1>2. QED
  BY <1>1, ClientSound, ClientHonestAlways, ClientJudgedAlways, PTL
=============================================================================
