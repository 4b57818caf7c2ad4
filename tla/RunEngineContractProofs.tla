---------------------- MODULE RunEngineContractProofs ----------------------
(***************************************************************************)
(* The run engine implements RunContract, pairs every prompt's revision     *)
(* with its own observation, can always be recovered from, and is reported  *)
(* truly, for every value of the constants that the theorems name.          *)
(***************************************************************************)
EXTENDS RunEngineSafetyProofs, RunEngineRefinement, RunInspect

-----------------------------------------------------------------------------
(* What an operator's observation may still become.                        *)

(* The attempt of the intent gained no revision, and no record says it did. *)
Unresolved ==
  /\ intent.kind # "none" /\ state.rev = intent.base
  /\ \/ intent.attempt \notin DOMAIN attempts
     \/ attempts[intent.attempt].outcome = "recovery_required"

(* An attempt that is going to be put to the operator, or is being           *)
(* acknowledged, has gained no revision.                                     *)
Resolvable ==
  \A p \in Procs :
    /\ pc[p] = "record" /\ job[p].outcome # "succeeded" => state.rev = job[p].base
    /\ pc[p] = "mark" => intent.kind # "none" /\ state.rev = job[p].base
    /\ pc[p] = "r_record" /\ job[p].apply => recovery.some \/ state.rev = job[p].base
    /\ pc[p] \in {"r_observation", "r_state"} => recovery.some \/ Unresolved

(* What `recover` is about to do, as its first reads under the lock decide. *)
LEMMA Recovers ==
  ASSUME TypeInv, Mutex, NEW p \in Procs, BeginRecover(p)
  PROVE  /\ pc'[p] = IF NeedsRecord THEN "r_record" ELSE AfterRecord(AppliesObservation)
         /\ job'[p].base = intent.base /\ job'[p].apply = AppliesObservation
         /\ job'[p].attempt = intent.attempt
         /\ job'[p].intact = (intent.kind = "sound")
         /\ \A q \in Procs : q # p => pc'[q] = "idle"
         /\ lock' = p /\ UNCHANGED <<disk, project, faults>>
<1>. DEFINE where == IF NeedsRecord THEN "r_record" ELSE AfterRecord(AppliesObservation)
            locals == [NoJob EXCEPT !.attempt = intent.attempt, !.base = intent.base,
                          !.intact = (intent.kind = "sound"),
                          !.apply = AppliesObservation]
<1>1. Acquire(p, where, locals) /\ UNCHANGED <<disk, project, faults>>
  BY DEF BeginRecover
<1>2. /\ locals.base = intent.base /\ locals.attempt = intent.attempt
      /\ locals.apply = AppliesObservation /\ locals.intact = (intent.kind = "sound")
  BY DEF NoJob
<1>3. where # "idle"
  BY DEF AfterRecord
<1>. HIDE DEF where, locals
<1>4. /\ pc'[p] = where /\ job'[p] = locals /\ lock' = p
      /\ \A q \in Procs : q # p => pc'[q] = "idle"
  BY <1>1, <1>3, Starts DEF Acquire
<1>. QED
  BY <1>1, <1>2, <1>4 DEF where

(* An accepted recovery applies its observation to an unresolved attempt. *)
LEMMA AppliesTo ==
  ASSUME TypeInv, RecoverAccepts, RecoveryPending
  PROVE  AppliesObservation <=> recovery.some \/ Unresolved
<1>1. CASE recovery.some
  BY <1>1 DEF AppliesObservation
<1>2. CASE ~recovery.some
  <2>1. intent.kind \notin {"none", "garbled"}
    BY <1>2 DEF RecoverAccepts, IntentValid, RecoveryPending
  <2>2. intent.attempt \in DOMAIN attempts => attempts[intent.attempt].base = intent.base
    BY <2>1 DEF RecoverAccepts, IntentValid, RecordMatches
  <2>. QED
    BY <1>2, <2>1, <2>2 DEF AppliesObservation, Unresolved
<1>. QED
  BY <1>1, <1>2

LEMMA ResolvableBegin ==
  ASSUME RunInv, Resolvable, NEW p \in Procs, Begin(p)
  PROVE  Resolvable'
<1>0. TypeInv /\ Mutex
  BY DEF RunInv
<1>1. CASE BeginStep(p) \/ BeginProbe(p)
  <2>1. PICK where \in {"dispatch", "probing"} : \E locals : Acquire(p, where, locals)
    BY <1>1 DEF BeginStep, BeginProbe
  <2>2. \A q \in Procs : pc'[q] \in {"dispatch", "probing", "idle"}
    BY <1>0, <2>1, Starts
  <2>. QED
    BY <2>2 DEF Resolvable
<1>2. CASE BeginRecover(p)
  <2>1. AppliesObservation <=> recovery.some \/ Unresolved
    BY <1>0, <1>2, AppliesTo DEF BeginRecover
  <2>2. Unresolved => state.rev = intent.base
    BY DEF Unresolved
  <2>3. UNCHANGED <<state, attempts, intent, recovery>> /\ Unresolved' = Unresolved
    BY <1>0, <1>2, Recovers DEF disk, Unresolved
  <2>. QED
    BY <1>0, <1>2, <2>1, <2>2, <2>3, Recovers DEF Resolvable, AfterRecord
<1>. QED
  BY <1>1, <1>2 DEF Begin

LEMMA ResolvableStep ==
  ASSUME RunInv, Accounted, Resolvable, NEW p \in Procs, StepAction(p)
  PROVE  Resolvable'
<1>0. TypeInv /\ Mutex /\ StatusStands
  BY DEF RunInv
<1>1. CASE \/ Dispatch(p) \/ WorkerReturns(p)
           \/ ProviderFails(p) \/ RejectResponse(p) \/ AcceptResponse(p)
           \/ SaveArchive(p) \/ SaveObservation(p) \/ SaveFails(p)
  <2>1. UNCHANGED <<state, lock>> /\ pc[p] \in Working
    BY <1>0, <1>1, Judges DEF disk, SaveArchive, SaveObservation, SaveFails, Working
  <2>2. PICK where \in Working \cup {"record"}, locals \in Job :
          Goto(p, where, locals) /\ locals.base = job[p].base
    BY <1>0, <1>1, Judges, Saves
  <2>3. /\ pc'[p] = where /\ job'[p] = locals
        /\ \A q \in Procs : q # p => pc'[q] = "idle"
    BY <1>0, <2>1, <2>2, Moves DEF Working
  <2>. QED
    BY <1>0, <2>1, <2>2, <2>3 DEF Resolvable, StatusStands, Working
<1>2. CASE SaveState(p)
  <2>1. PICK locals \in Job :
          Goto(p, "record", locals) /\ locals.outcome = "succeeded"
    BY <1>0, <1>2, SavesState
  <2>2. /\ pc'[p] = "record" /\ job'[p] = locals
        /\ \A q \in Procs : q # p => pc'[q] = "idle"
    BY <1>0, <1>2, <2>1, Moves DEF SaveState
  <2>. QED
    BY <2>1, <2>2 DEF Resolvable
<1>3. CASE WriteRecord(p)
  <2>. DEFINE where == IF job[p].outcome = "recovery_required" THEN "mark" ELSE "clear"
  <2>1. /\ Goto(p, where, job[p]) /\ pc[p] = "record"
        /\ UNCHANGED <<state, intent, lock>>
    BY <1>3 DEF WriteRecord
  <2>2. where \in {"mark", "clear"} /\ (where = "mark" => job[p].outcome # "succeeded")
    OBVIOUS
  <2>. HIDE DEF where
  <2>3. /\ pc'[p] = where /\ job'[p] = job[p]
        /\ \A q \in Procs : q # p => pc'[q] = "idle"
    BY <1>0, <2>1, <2>2, Moves
  <2>4. intent.kind # "none"
    BY <2>1 DEF Accounted
  <2>. QED
    BY <2>1, <2>2, <2>3, <2>4 DEF Resolvable
<1>4. CASE MarkRecovery(p) \/ ClearIntent(p)
  <2>1. \A q \in Procs : pc'[q] \in {"clear", "idle"}
    BY <1>0, <1>4, Moves, Ends DEF MarkRecovery, ClearIntent
  <2>. QED
    BY <2>1 DEF Resolvable
<1>. QED
  BY <1>1, <1>2, <1>3, <1>4 DEF StepAction

LEMMA ResolvableElse ==
  ASSUME RunInv, Accounted, Resolvable, "delete" \notin WorkerEdits,
         \/ \E p \in Procs : RecoverAction(p) \/ ProbeReturns(p) \/ Abandon(p)
         \/ \E kind \in EditKinds : Edit(kind)
         \/ \E n \in live : OrphanExits(n)
  PROVE  Resolvable'
<1>0. TypeInv /\ Mutex /\ IntentOfJob
  BY DEF RunInv
<1>1. ASSUME NEW p \in Procs, WriteInterrupted(p)
      PROVE  Resolvable'
  <2>1. /\ Goto(p, AfterRecord(job[p].apply), job[p]) /\ pc[p] = "r_record"
        /\ UNCHANGED <<state, intent, recovery, lock>>
        /\ attempts' = [m \in DOMAIN attempts \cup {job[p].attempt} |->
                          IF m = job[p].attempt THEN InterruptedRecord(p) ELSE attempts[m]]
    BY <1>1 DEF WriteInterrupted, PutRecord
  <2>2. /\ pc'[p] = AfterRecord(job[p].apply)
        /\ \A q \in Procs : q # p => pc'[q] = "idle"
    BY <1>0, <2>1, Moves DEF AfterRecord
  <2>3. /\ intent.kind # "none" /\ intent.attempt = job[p].attempt
        /\ intent.base = job[p].base
    BY <1>0, <2>1 DEF Accounted, IntentOfJob
  <2>4. InterruptedRecord(p).outcome = "recovery_required"
    BY DEF InterruptedRecord
  <2>5. state.rev = job[p].base => Unresolved'
    BY <2>1, <2>3, <2>4 DEF Unresolved
  <2>. QED
    BY <2>1, <2>2, <2>5 DEF Resolvable, AfterRecord
<1>2. ASSUME NEW p \in Procs, AcceptObservation(p)
      PROVE  Resolvable'
  <2>1. /\ pc[p] = "r_observation" /\ UNCHANGED <<state, attempts, intent, recovery, lock>>
        /\ \E locals : Goto(p, "r_state", locals)
    BY <1>2 DEF AcceptObservation
  <2>2. pc'[p] = "r_state" /\ \A q \in Procs : q # p => pc'[q] = "idle"
    BY <1>0, <2>1, Moves
  <2>3. Unresolved' = Unresolved
    BY <2>1 DEF Unresolved
  <2>. QED
    BY <2>1, <2>2, <2>3 DEF Resolvable
<1>3. ASSUME NEW p \in Procs,
             \/ AcceptState(p) \/ AcceptFails(p) \/ ClearRecovery(p) \/ DropIntent(p)
             \/ ProbeReturns(p) \/ Abandon(p)
      PROVE  Resolvable'
  <2>1. \A q \in Procs : pc'[q] \in {"r_recovery", "r_intent", "idle"}
    BY <1>0, <1>3, Moves, Ends DEF AcceptState, AcceptFails, ClearRecovery, DropIntent,
       ProbeReturns, Abandon
  <2>. QED
    BY <2>1 DEF Resolvable
<1>4. ASSUME NEW kind \in EditKinds, Edit(kind)
      PROVE  Resolvable'
  BY <1>0, <1>4, KeptIntent DEF Resolvable, Unresolved
<1>5. ASSUME NEW n \in live, OrphanExits(n)
      PROVE  Resolvable'
  BY <1>5 DEF OrphanExits, disk, Resolvable, Unresolved
<1>. QED
  BY <1>1, <1>2, <1>3, <1>4, <1>5 DEF RecoverAction

LEMMA ResolvableHolds ==
  ASSUME "delete" \notin WorkerEdits
  PROVE  Spec => []Resolvable
<1>1. Init => Resolvable
  BY DEF Init, Resolvable
<1>2. RunInv /\ Accounted /\ Resolvable /\ [Next]_vars => Resolvable'
  <2>1. ASSUME Resolvable, UNCHANGED vars
        PROVE  Resolvable'
    BY <2>1 DEF vars, disk, project, Resolvable, Unresolved
  <2>. QED
    BY <2>1, ResolvableBegin, ResolvableStep, ResolvableElse DEF Next
<1>. QED
  BY <1>1, <1>2, RunInvHolds, AccountedHolds, PTL DEF Spec

-----------------------------------------------------------------------------
(* A revision and its observation.                                         *)

Matches == observation = For(state.rev)

(* While the two files disagree, an operator has to look at the run; a       *)
(* command that would leave it open knows that they agree.                   *)
Paired ==
  /\ ~Matches => recovery.some \/ Unresolved
  /\ \A p \in Procs :
       /\ pc[p] \in {"dispatch", "archive", "observation", "r_recovery", "r_intent"} =>
            Matches
       /\ pc[p] \in {"dispatch", "running", "state"} => job[p].seen = For(state.rev)
       /\ pc[p] = "judge" /\ job[p].control => Matches
       /\ pc[p] = "state" => observation = For(job[p].base + 1)
       /\ pc[p] = "record" /\ job[p].outcome # "recovery_required" => Matches
       /\ pc[p] = "clear" => Matches \/ recovery.some
       /\ pc[p] = "r_record" /\ ~job[p].apply => Matches
       /\ pc[p] = "r_state" => observation = For(state.rev + 1)

LEMMA PairedBegin ==
  ASSUME RunInv, Paired, NEW p \in Procs, Begin(p)
  PROVE  Paired'
<1>0. TypeInv /\ Mutex
  BY DEF RunInv
<1>1. CASE BeginStep(p)
  <2>. DEFINE locals == [NoJob EXCEPT !.attempt = NextAttempt, !.base = state.rev,
                            !.seen = observation, !.control = TRUE, !.intact = TRUE]
  <2>1. Acquire(p, "dispatch", locals) /\ UNCHANGED <<state, observation>>
    BY <1>1 DEF BeginStep
  <2>2. locals.seen = observation
    BY DEF NoJob
  <2>. HIDE DEF locals
  <2>3. /\ pc'[p] = "dispatch" /\ job'[p] = locals
        /\ \A q \in Procs : q # p => pc'[q] = "idle"
    BY <1>0, <2>1, Starts
  <2>4. Matches
    BY <1>1 DEF BeginStep, RecoveryPending, Paired, Unresolved
  <2>. QED
    BY <2>1, <2>2, <2>3, <2>4 DEF Paired, Matches
<1>2. CASE BeginRecover(p)
  <2>1. AppliesObservation <=> recovery.some \/ Unresolved
    BY <1>0, <1>2, AppliesTo DEF BeginRecover
  <2>2. /\ pc'[p] \in {"r_record", "r_observation", "r_recovery"}
        /\ pc'[p] = "r_recovery" => ~AppliesObservation
        /\ job'[p].apply = AppliesObservation
        /\ \A q \in Procs : q # p => pc'[q] = "idle"
    BY <1>0, <1>2, Recovers DEF AfterRecord
  <2>3. UNCHANGED <<state, observation, attempts, intent, recovery>>
    BY <1>2 DEF BeginRecover, disk
  <2>4. Matches' = Matches /\ Unresolved' = Unresolved
    BY <2>3 DEF Matches, Unresolved
  <2>. QED
    BY <2>1, <2>2, <2>3, <2>4 DEF Paired
<1>3. CASE BeginProbe(p)
  <2>1. \A q \in Procs : pc'[q] \in {"probing", "idle"}
    BY <1>0, <1>3, Starts DEF BeginProbe
  <2>2. UNCHANGED <<state, observation, attempts, intent, recovery>>
    BY <1>3 DEF BeginProbe, disk
  <2>. QED
    BY <2>1, <2>2 DEF Paired, Matches, Unresolved
<1>. QED
  BY <1>1, <1>2, <1>3 DEF Begin

(* A step that fails cleanly has found the two files in agreement. *)
LEMMA FailsPaired ==
  ASSUME TypeInv, Mutex, NEW p \in Procs, pc[p] # "idle", NEW locals \in Job,
         NEW outcome, NEW gitDown, NEW edited, locals.control => Matches',
         Fails(p, locals, outcome, gitDown, edited), lock' = lock,
         ~Matches' => (recovery.some \/ Unresolved)'
  PROVE  Paired'
<1>. DEFINE failed == [locals EXCEPT !.outcome =
                         IF Ambiguous(locals, gitDown, edited)
                         THEN "recovery_required" ELSE outcome]
<1>1. Goto(p, "record", failed)
  BY DEF Fails
<1>2. failed.outcome # "recovery_required" => Matches'
  BY DEF Ambiguous, Job
<1>. HIDE DEF failed
<1>3. /\ pc'[p] = "record" /\ job'[p] = failed
      /\ \A q \in Procs : q # p => pc'[q] = "idle"
  BY <1>1, Moves
<1>. QED
  BY <1>2, <1>3 DEF Paired

LEMMA PairedJudge ==
  ASSUME RunInv, Paired, NEW p \in Procs,
         \/ Dispatch(p) \/ WorkerReturns(p)
         \/ ProviderFails(p) \/ RejectResponse(p) \/ AcceptResponse(p)
  PROVE  Paired'
<1>0. TypeInv /\ Mutex /\ job[p] \in Job
  BY DEF RunInv, TypeInv, TypeOK
<1>1. /\ UNCHANGED <<state, observation, attempts, intent, recovery, lock>>
      /\ pc[p] # "idle"
  BY <1>0, Judges DEF disk, Working
<1>2. Matches' = Matches /\ Unresolved' = Unresolved
  BY <1>1 DEF Matches, Unresolved
<1>3. CASE Dispatch(p)
  <2>1. pc[p] = "dispatch" /\ Goto(p, "running", job[p])
    BY <1>3 DEF Dispatch
  <2>2. /\ pc'[p] = "running" /\ job'[p] = job[p]
        /\ \A q \in Procs : q # p => pc'[q] = "idle"
    BY <1>0, <1>1, <2>1, Moves
  <2>. QED
    BY <1>1, <1>2, <2>1, <2>2 DEF Paired
<1>4. CASE WorkerReturns(p)
  <2>1. PICK known \in UsageKnown : Goto(p, "judge", [Compared(p) EXCEPT !.known = known])
    BY <1>4 DEF WorkerReturns
  <2>. DEFINE locals == [Compared(p) EXCEPT !.known = known]
  <2>2. locals.control => observation = job[p].seen
    BY <1>0 DEF Compared, Job
  <2>. HIDE DEF locals
  <2>3. /\ pc'[p] = "judge" /\ job'[p] = locals
        /\ \A q \in Procs : q # p => pc'[q] = "idle"
    BY <1>0, <1>1, <2>1, Moves DEF locals
  <2>4. job[p].seen = For(state.rev)
    BY <1>4 DEF WorkerReturns, Paired
  <2>. QED
    BY <1>1, <1>2, <2>2, <2>3, <2>4 DEF Paired, Matches
<1>5. CASE ProviderFails(p)
  <2>. DEFINE locals == IF pc[p] = "dispatch" THEN Compared(p) ELSE job[p]
  <2>1. PICK gitDown \in BOOLEAN : Fails(p, locals, "provider_failed", gitDown, Changed)
    BY <1>5 DEF ProviderFails
  <2>2. locals \in Job
    BY <1>0, ComparedType
  <2>3. locals.control => Matches
    BY <1>5 DEF ProviderFails, Paired
  <2>. HIDE DEF locals
  <2>. QED
    BY <1>0, <1>1, <1>2, <2>1, <2>2, <2>3, FailsPaired DEF Paired
<1>6. CASE RejectResponse(p)
  <2>1. PICK gitDown \in BOOLEAN, left \in Contents :
          Fails(p, job[p], "invalid_transition", gitDown, Changed')
    BY <1>6 DEF RejectResponse
  <2>2. job[p].control => Matches
    BY <1>6 DEF RejectResponse, Paired
  <2>. QED
    BY <1>0, <1>1, <1>2, <2>1, <2>2, FailsPaired DEF Paired
<1>7. CASE AcceptResponse(p)
  <2>1. \E where \in {"archive", "observation"} : \E locals : Goto(p, where, locals)
    BY <1>7 DEF AcceptResponse
  <2>2. Matches
    BY <1>7 DEF AcceptResponse, Paired
  <2>3. /\ pc'[p] \in {"archive", "observation"}
        /\ \A q \in Procs : q # p => pc'[q] = "idle"
    BY <1>0, <1>1, <2>1, Moves
  <2>. QED
    BY <1>2, <2>2, <2>3 DEF Paired
<1>. QED
  BY <1>3, <1>4, <1>5, <1>6, <1>7

LEMMA PairedSave ==
  ASSUME RunInv, Accounted, Paired, NEW p \in Procs, faults' <= 1,
         SaveArchive(p) \/ SaveObservation(p) \/ SaveState(p) \/ SaveFails(p)
  PROVE  Paired'
<1>0. TypeInv /\ Mutex /\ job[p] \in Job /\ faults \in Nat /\ StatusStands
  BY DEF RunInv, TypeInv, TypeOK
<1>1. UNCHANGED <<attempts, intent, recovery, lock>> /\ pc[p] \in Working /\ pc[p] # "idle"
  BY DEF SaveArchive, SaveObservation, SaveState, SaveFails, Working
<1>2. Unresolved /\ state.rev = job[p].base
  BY <1>0, <1>1, OpenAttempt DEF Unresolved, StatusStands
<1>3. CASE SaveArchive(p)
  <2>1. /\ pc[p] = "archive" /\ Goto(p, "observation", job[p])
        /\ UNCHANGED <<state, observation>>
    BY <1>3 DEF SaveArchive
  <2>2. /\ pc'[p] = "observation"
        /\ \A q \in Procs : q # p => pc'[q] = "idle"
    BY <1>0, <1>1, <2>1, Moves
  <2>. QED
    BY <2>1, <2>2 DEF Paired, Matches
<1>4. CASE SaveObservation(p)
  <2>. DEFINE locals == [job[p] EXCEPT !.seen = observation]
  <2>1. /\ pc[p] = "observation" /\ Goto(p, "state", locals)
        /\ observation' = For(job[p].base + 1) /\ state' = state
    BY <1>4 DEF SaveObservation
  <2>2. locals.seen = observation /\ locals.base = job[p].base
    BY <1>0 DEF Job
  <2>. HIDE DEF locals
  <2>3. /\ pc'[p] = "state" /\ job'[p] = locals
        /\ \A q \in Procs : q # p => pc'[q] = "idle"
    BY <1>0, <1>1, <2>1, Moves
  <2>4. observation = For(state.rev)
    BY <2>1 DEF Paired, Matches
  <2>5. Unresolved'
    BY <1>1, <1>2, <2>1 DEF Unresolved
  <2>. QED
    BY <2>1, <2>2, <2>3, <2>4, <2>5 DEF Paired
<1>5. CASE SaveState(p)
  <2>1. PICK locals \in Job : Goto(p, "record", locals)
    BY <1>0, <1>5, SavesState
  <2>2. /\ pc[p] = "state" /\ observation' = observation
        /\ state'.rev = job[p].base + 1
    BY <1>5 DEF SaveState
  <2>3. Matches'
    BY <2>2 DEF Paired, Matches
  <2>4. /\ pc'[p] = "record"
        /\ \A q \in Procs : q # p => pc'[q] = "idle"
    BY <1>0, <1>1, <2>1, Moves
  <2>. QED
    BY <2>3, <2>4 DEF Paired
<1>6. CASE SaveFails(p)
  <2>1. state' = state /\ Fails(p, job[p], "invalid_transition", FALSE, job[p].edited)
    BY <1>6 DEF SaveFails
  <2>2. Matches'
    <3>1. CASE pc[p] = "state"
      <4>1. RollBack(p) /\ job[p].seen = For(state.rev)
        BY <1>6, <3>1 DEF SaveFails, Paired
      <4>2. observation' = job[p].seen
        BY <1>0, <4>1 DEF RollBack
      <4>. QED
        BY <2>1, <4>1, <4>2 DEF Matches
    <3>2. CASE pc[p] # "state"
      BY <1>6, <2>1, <3>2 DEF SaveFails, Paired, Matches
    <3>. QED
      BY <3>1, <3>2
  <2>. QED
    BY <1>0, <1>1, <2>1, <2>2, FailsPaired
<1>. QED
  BY <1>3, <1>4, <1>5, <1>6

(* The record of a pending attempt leaves it unresolved only if it says that *)
(* an operator has to look at it.                                            *)
LEMMA RecordedUnresolved ==
  ASSUME Unresolved, NEW n, intent.attempt = n, NEW record, PutRecord(n, record),
         record.outcome = "recovery_required", UNCHANGED <<state, intent>>
  PROVE  Unresolved'
BY DEF Unresolved, PutRecord

LEMMA PairedFinalize ==
  ASSUME RunInv, Accounted, Paired, NEW p \in Procs,
         WriteRecord(p) \/ MarkRecovery(p) \/ ClearIntent(p)
  PROVE  Paired'
<1>0. TypeInv /\ Mutex /\ IntentOfJob
  BY DEF RunInv
<1>1. CASE WriteRecord(p)
  <2>. DEFINE where == IF job[p].outcome = "recovery_required" THEN "mark" ELSE "clear"
  <2>1. /\ Goto(p, where, job[p]) /\ pc[p] = "record"
        /\ UNCHANGED <<state, observation, intent, recovery, lock>>
        /\ PutRecord(job[p].attempt, StepRecord(p))
    BY <1>1 DEF WriteRecord
  <2>2. where \in {"mark", "clear"} /\ (where = "clear" => Matches)
    BY <2>1 DEF Paired
  <2>3. where = "mark" => StepRecord(p).outcome = "recovery_required"
    BY DEF StepRecord
  <2>. HIDE DEF where
  <2>4. /\ pc'[p] = where
        /\ \A q \in Procs : q # p => pc'[q] = "idle"
    BY <1>0, <2>1, <2>2, Moves
  <2>5. intent.attempt = job[p].attempt
    BY <1>0, <2>1 DEF Accounted, IntentOfJob, StepPcs
  <2>6. Matches' = Matches
    BY <2>1 DEF Matches
  <2>7. Unresolved /\ where = "mark" => Unresolved'
    BY <2>1, <2>3, <2>5, RecordedUnresolved
  <2>. QED
    BY <2>1, <2>2, <2>4, <2>6, <2>7 DEF Paired
<1>2. CASE MarkRecovery(p)
  <2>1. /\ Goto(p, "clear", job[p]) /\ pc[p] = "mark" /\ lock' = lock /\ recovery'.some
    BY <1>2 DEF MarkRecovery
  <2>2. /\ pc'[p] = "clear"
        /\ \A q \in Procs : q # p => pc'[q] = "idle"
    BY <1>0, <2>1, Moves
  <2>. QED
    BY <2>1, <2>2 DEF Paired
<1>3. CASE ClearIntent(p)
  <2>1. pc[p] = "clear" /\ Return(p) /\ UNCHANGED <<state, observation, recovery>>
    BY <1>3 DEF ClearIntent
  <2>2. \A q \in Procs : pc'[q] = "idle"
    BY <1>0, <2>1, Ends
  <2>. QED
    BY <2>1, <2>2 DEF Paired, Matches
<1>. QED
  BY <1>1, <1>2, <1>3

LEMMA PairedRecover ==
  ASSUME RunInv, Accounted, Resolvable, Paired, NEW p \in Procs, RecoverAction(p)
  PROVE  Paired'
<1>0. TypeInv /\ Mutex /\ IntentOfJob
  BY DEF RunInv
<1>1. CASE WriteInterrupted(p)
  <2>1. /\ Goto(p, AfterRecord(job[p].apply), job[p]) /\ pc[p] = "r_record"
        /\ UNCHANGED <<state, observation, intent, recovery, lock>>
        /\ PutRecord(job[p].attempt, InterruptedRecord(p))
    BY <1>1 DEF WriteInterrupted
  <2>2. /\ pc'[p] = AfterRecord(job[p].apply)
        /\ \A q \in Procs : q # p => pc'[q] = "idle"
    BY <1>0, <2>1, Moves DEF AfterRecord
  <2>3. intent.attempt = job[p].attempt
    BY <1>0, <2>1 DEF Accounted, IntentOfJob
  <2>4. InterruptedRecord(p).outcome = "recovery_required"
    BY DEF InterruptedRecord
  <2>5. Matches' = Matches /\ (Unresolved => Unresolved')
    BY <2>1, <2>3, <2>4, RecordedUnresolved DEF Matches
  <2>. QED
    BY <2>1, <2>2, <2>5 DEF Paired, AfterRecord
<1>2. CASE AcceptObservation(p)
  <2>1. /\ pc[p] = "r_observation" /\ UNCHANGED <<state, attempts, intent, recovery, lock>>
        /\ observation' = For(state.rev + 1) /\ \E locals : Goto(p, "r_state", locals)
    BY <1>2 DEF AcceptObservation
  <2>2. pc'[p] = "r_state" /\ \A q \in Procs : q # p => pc'[q] = "idle"
    BY <1>0, <2>1, Moves
  <2>3. (recovery.some \/ Unresolved)'
    BY <2>1 DEF Resolvable, Unresolved
  <2>. QED
    BY <2>1, <2>2, <2>3 DEF Paired
<1>3. CASE AcceptState(p)
  <2>1. /\ pc[p] = "r_state" /\ observation' = observation /\ lock' = lock
        /\ state'.rev = state.rev + 1 /\ Goto(p, "r_recovery", job[p])
    BY <1>3 DEF AcceptState
  <2>2. pc'[p] = "r_recovery" /\ \A q \in Procs : q # p => pc'[q] = "idle"
    BY <1>0, <2>1, Moves
  <2>3. Matches'
    BY <2>1 DEF Paired, Matches
  <2>. QED
    BY <2>2, <2>3 DEF Paired
<1>4. CASE AcceptFails(p)
  <2>1. /\ pc[p] \in {"r_observation", "r_state"} /\ Return(p)
        /\ UNCHANGED <<state, attempts, intent, recovery>>
    BY <1>4 DEF AcceptFails
  <2>2. \A q \in Procs : pc'[q] = "idle"
    BY <1>0, <2>1, Ends
  <2>3. (recovery.some \/ Unresolved)'
    BY <2>1 DEF Resolvable, Unresolved
  <2>. QED
    BY <2>2, <2>3 DEF Paired
<1>5. CASE ClearRecovery(p) \/ DropIntent(p)
  <2>1. /\ pc[p] \in {"r_recovery", "r_intent"} /\ UNCHANGED <<state, observation>>
        /\ \A q \in Procs : pc'[q] \in {"r_intent", "idle"}
    BY <1>0, <1>5, Moves, Ends DEF ClearRecovery, DropIntent
  <2>2. Matches'
    BY <2>1 DEF Paired, Matches
  <2>. QED
    BY <2>1, <2>2 DEF Paired
<1>. QED
  BY <1>1, <1>2, <1>3, <1>4, <1>5 DEF RecoverAction

LEMMA PairedOutside ==
  ASSUME RunInv, Alone, Paired, "delete" \notin WorkerEdits,
         \/ \E p \in Procs : ProbeReturns(p) \/ Abandon(p)
         \/ \E kind \in EditKinds : Edit(kind)
         \/ \E n \in live : OrphanExits(n)
  PROVE  Paired'
<1>0. TypeInv /\ Mutex
  BY DEF RunInv
<1>1. ASSUME NEW p \in Procs, ProbeReturns(p) \/ Abandon(p)
      PROVE  Paired'
  <2>1. /\ pc[p] # "idle" /\ Return(p)
        /\ UNCHANGED <<state, observation, attempts, intent>>
        /\ recovery' = recovery \/ recovery'.some
    BY <1>1 DEF ProbeReturns, Abandon, disk
  <2>2. \A q \in Procs : pc'[q] = "idle"
    BY <1>0, <2>1, Ends
  <2>. QED
    BY <2>1, <2>2 DEF Paired, Matches, Unresolved
<1>2. ASSUME NEW kind \in EditKinds, Edit(kind)
      PROVE  Paired'
  <2>1. /\ live # {}
        /\ intent'.kind = "none" <=> intent.kind = "none"
        /\ intent'.attempt = intent.attempt /\ intent'.base = intent.base
        /\ UNCHANGED <<state, attempts, recovery, pc, job>>
    BY <1>0, <1>2, KeptIntent DEF Edit
  <2>2. Unresolved'
    BY <2>1 DEF Alone, Unresolved
  <2>3. \A q \in Procs : pc[q] \notin RecoverPcs \cup (StepPcs \ {"running"})
    BY <2>1 DEF Alone
  <2>. QED
    BY <2>1, <2>2, <2>3 DEF Paired, RecoverPcs, StepPcs
<1>3. ASSUME NEW n \in live, OrphanExits(n)
      PROVE  Paired'
  BY <1>3 DEF OrphanExits, disk, Paired, Matches, Unresolved
<1>. QED
  BY <1>1, <1>2, <1>3

(* The count of crashes and I/O errors never goes down. *)
LEMMA FaultsGrow ==
  ASSUME TypeInv, Next
  PROVE  faults \in Nat /\ faults' \in Nat /\ faults <= faults'
<1>1. faults \in Nat
  BY DEF TypeInv, TypeOK
<1>2. faults' \in {faults, faults + 1, faults + 2}
  <2>1. ASSUME NEW p \in Procs, Begin(p) \/ ProbeReturns(p) \/ Abandon(p)
        PROVE  faults' \in {faults, faults + 1}
    BY <2>1 DEF Begin, BeginStep, BeginRecover, BeginProbe, ProbeReturns, Abandon
  <2>2. ASSUME NEW p \in Procs, StepAction(p)
        PROVE  faults' \in {faults, faults + 1, faults + 2}
    BY <2>2 DEF StepAction, Dispatch, WorkerReturns, ProviderFails, RejectResponse,
       AcceptResponse, SaveArchive, SaveObservation, SaveState, SaveFails, RollBack,
       WriteRecord, MarkRecovery, ClearIntent
  <2>3. ASSUME NEW p \in Procs, RecoverAction(p)
        PROVE  faults' \in {faults, faults + 1, faults + 2}
    BY <2>3 DEF RecoverAction, WriteInterrupted, AcceptObservation, AcceptState,
       AcceptFails, RollBack, ClearRecovery, DropIntent
  <2>. QED
    BY <2>1, <2>2, <2>3 DEF Next, Edit, OrphanExits
<1>. QED
  BY <1>1, <1>2

LEMMA PairedHolds ==
  ASSUME "delete" \notin WorkerEdits, StopsOldWorker
  PROVE  Spec => [](faults <= 1 => Paired)
<1>1. Init => (faults <= 1 => Paired)
  BY DEF Init, Paired, Matches
<1>2. RunInv /\ Accounted /\ Alone /\ Resolvable /\ (faults <= 1 => Paired) /\ [Next]_vars
        => (faults <= 1 => Paired)'
  <2>1. ASSUME faults <= 1 => Paired, UNCHANGED vars
        PROVE  (faults <= 1 => Paired)'
    BY <2>1 DEF vars, disk, project, Paired, Matches, Unresolved
  <2>2. ASSUME RunInv, Accounted, Alone, Resolvable, faults <= 1 => Paired, Next,
               faults' <= 1
        PROVE  Paired'
    <3>1. Paired
      BY <2>2, FaultsGrow DEF RunInv
    <3>2. ASSUME NEW p \in Procs, StepAction(p) PROVE Paired'
      BY <2>2, <3>1, <3>2, PairedJudge, PairedSave, PairedFinalize DEF StepAction
    <3>. QED
      BY <2>2, <3>1, <3>2, PairedBegin, PairedRecover, PairedOutside DEF Next
  <2>. QED
    BY <2>1, <2>2
<1>. QED
  BY <1>1, <1>2, RunInvHolds, AccountedHolds, AloneHolds, ResolvableHolds, PTL DEF Spec

(* Whatever single crash or failed write a run meets, its next prompt shows  *)
(* the observation of the revision it shows, provided that the operator      *)
(* stops the worker of a dead step before recovering and no worker deletes   *)
(* its intent.                                                               *)
THEOREM PromptsArePaired ==
  ASSUME "delete" \notin WorkerEdits, StopsOldWorker
  PROVE  Spec => []ObservationMatchesState
<1>1. (faults <= 1 => Paired) => ObservationMatchesState
  BY DEF Paired, ObservationMatchesState, RecoveryPending, Matches, Unresolved
<1>. QED
  BY <1>1, PairedHolds, PTL

-----------------------------------------------------------------------------
(* What `recover` refuses.                                                 *)

NoProbe == \A p \in Procs : pc[p] # "probing"

LEMMA NoProbeHolds ==
  ASSUME ~Probing
  PROVE  Spec => []NoProbe
<1>1. Init => NoProbe
  BY DEF Init, NoProbe
<1>2. RunInv /\ NoProbe /\ [Next]_vars => NoProbe'
  <2>0. RunInv => TypeInv /\ Mutex
    BY DEF RunInv
  <2>1. ASSUME RunInv, NoProbe, NEW p \in Procs, Begin(p)
        PROVE  NoProbe'
    <3>1. PICK where \in Pcs \ {"idle", "probing"} : \E locals : Acquire(p, where, locals)
      BY <2>1 DEF Begin, BeginStep, BeginRecover, BeginProbe, AfterRecord, Pcs, StepPcs,
         RecoverPcs
    <3>. QED
      BY <2>0, <2>1, <3>1, Starts DEF NoProbe
  <2>2. ASSUME RunInv, NoProbe, NEW p \in Procs,
               StepAction(p) \/ RecoverAction(p) \/ ProbeReturns(p) \/ Abandon(p)
        PROVE  NoProbe'
    <3>1. CASE \/ Dispatch(p) \/ WorkerReturns(p)
               \/ ProviderFails(p) \/ RejectResponse(p) \/ AcceptResponse(p)
               \/ SaveArchive(p) \/ SaveObservation(p) \/ SaveState(p) \/ SaveFails(p)
      <4>1. lock' = lock /\ pc[p] # "idle"
        BY <2>0, <2>2, <3>1, Judges DEF SaveArchive, SaveObservation, SaveState, SaveFails,
           Working
      <4>2. \E where \in Working \cup {"record"} : \E locals : Goto(p, where, locals)
        BY <2>0, <2>2, <3>1, Judges, Saves, SavesState
      <4>. QED
        BY <2>0, <2>2, <4>1, <4>2, Moves DEF NoProbe, Working
    <3>2. CASE ~ (\/ Dispatch(p) \/ WorkerReturns(p)
                  \/ ProviderFails(p) \/ RejectResponse(p) \/ AcceptResponse(p)
                  \/ SaveArchive(p) \/ SaveObservation(p) \/ SaveState(p) \/ SaveFails(p))
      <4>1. \/ Return(p)
            \/ lock' = lock /\ \E where \in StepPcs \cup RecoverPcs : \E locals :
                 Goto(p, where, locals)
        BY <2>2, <3>2 DEF StepAction, WriteRecord, MarkRecovery, ClearIntent, RecoverAction,
           WriteInterrupted, AfterRecord, AcceptObservation, AcceptState, AcceptFails,
           ClearRecovery, DropIntent, ProbeReturns, Abandon, StepPcs, RecoverPcs
      <4>2. pc[p] # "idle"
        BY <2>2, <3>2 DEF StepAction, WriteRecord, MarkRecovery, ClearIntent, RecoverAction,
           WriteInterrupted, AcceptObservation, AcceptState, AcceptFails,
           ClearRecovery, DropIntent, ProbeReturns, Abandon
      <4>. QED
        BY <2>0, <2>2, <4>1, <4>2, Moves, Ends DEF NoProbe, StepPcs, RecoverPcs
    <3>. QED
      BY <3>1, <3>2
  <2>3. ASSUME NoProbe, pc' = pc
        PROVE  NoProbe'
    BY <2>3 DEF NoProbe
  <2>. QED
    BY <2>1, <2>2, <2>3 DEF Next, Edit, OrphanExits, vars
<1>. QED
  BY <1>1, <1>2, RunInvHolds, PTL DEF Spec

(* The three files that `recover` compares agree as far as they exist: a     *)
(* note is about the attempt of the intent, and a record says of it what the *)
(* intent says.                                                              *)
Recoverable ==
  /\ intent.kind \in {"none", "sound"}
  /\ recovery.some =>
       /\ recovery.attempt \in DOMAIN attempts
       /\ attempts[recovery.attempt].base = recovery.base
       /\ intent.kind # "none" => intent.attempt = recovery.attempt
  /\ intent.kind # "none" /\ intent.attempt \in DOMAIN attempts =>
       /\ attempts[intent.attempt].base = intent.base
       /\ attempts[intent.attempt].own = TRUE
  /\ \A p \in Procs :
       /\ pc[p] = "r_record" => job[p].intact = TRUE
       /\ pc[p] \in {"mark", "clear"} =>
            /\ job[p].attempt \in DOMAIN attempts
            /\ attempts[job[p].attempt].base = job[p].base

LEMMA RecoverableBegin ==
  ASSUME RunInv, Recoverable, ~Probing, NEW p \in Procs, Begin(p)
  PROVE  Recoverable'
<1>0. TypeInv /\ Mutex
  BY DEF RunInv
<1>1. CASE BeginStep(p)
  <2>1. /\ attempts' = attempts /\ ~recovery'.some
        /\ intent'.kind = "sound" /\ intent'.attempt = NextAttempt
        /\ \E locals : Acquire(p, "dispatch", locals)
    BY <1>1 DEF BeginStep, RecoveryPending
  <2>2. NextAttempt \notin DOMAIN attempts
    BY NextNumberFree DEF RunInv
  <2>3. \A q \in Procs : pc'[q] \in {"dispatch", "idle"}
    BY <1>0, <2>1, Starts
  <2>. QED
    BY <2>1, <2>2, <2>3 DEF Recoverable
<1>2. CASE BeginRecover(p)
  <2>1. /\ pc'[p] \in {"r_record", "r_observation", "r_recovery"}
        /\ job'[p].intact = (intent.kind = "sound")
        /\ pc'[p] = "r_record" => NeedsRecord
        /\ \A q \in Procs : q # p => pc'[q] = "idle"
    BY <1>0, <1>2, Recovers DEF AfterRecord
  <2>2. UNCHANGED <<attempts, intent, recovery>>
    BY <1>2 DEF BeginRecover, disk
  <2>. QED
    BY <2>1, <2>2 DEF Recoverable, NeedsRecord
<1>. QED
  BY <1>1, <1>2 DEF Begin, BeginProbe

(* A record that repeats what its writer holds agrees with intent and note. *)
LEMMA RecoverableRecord ==
  ASSUME RunInv, Recoverable, NEW p \in Procs, pc[p] \in {"record", "r_record"},
         NEW record, record.base = job[p].base, record.own = TRUE,
         PutRecord(job[p].attempt, record),
         UNCHANGED <<intent, recovery, lock>>,
         NEW where \in {"mark", "clear", "r_observation", "r_recovery"},
         Goto(p, where, job[p])
  PROVE  Recoverable'
<1>0. TypeInv /\ Mutex /\ IntentOfJob
  BY DEF RunInv
<1>1. /\ pc'[p] = where /\ job'[p] = job[p]
      /\ \A q \in Procs : q # p => pc'[q] = "idle"
  BY <1>0, Moves
<1>2. /\ job[p].attempt \notin DOMAIN attempts
      /\ DOMAIN attempts' = DOMAIN attempts \cup {job[p].attempt}
      /\ attempts'[job[p].attempt] = record
      /\ \A m \in DOMAIN attempts : attempts'[m] = attempts[m]
  BY DEF PutRecord
<1>3. intent.kind # "none" =>
        intent.attempt = job[p].attempt /\ intent.base = job[p].base
  BY <1>0 DEF IntentOfJob, StepPcs
<1>4. intent.kind # "none" /\ intent.attempt \in DOMAIN attempts' =>
        attempts'[intent.attempt].base = intent.base /\ attempts'[intent.attempt].own = TRUE
  BY <1>2, <1>3
<1>5. recovery.some =>
        /\ recovery.attempt \in DOMAIN attempts'
        /\ attempts'[recovery.attempt].base = recovery.base
  BY <1>2 DEF Recoverable
<1>. QED
  BY <1>1, <1>2, <1>4, <1>5 DEF Recoverable

LEMMA RecoverableStep ==
  ASSUME RunInv, Recoverable, NEW p \in Procs, StepAction(p)
  PROVE  Recoverable'
<1>0. TypeInv /\ Mutex /\ IntentOfJob
  BY DEF RunInv
<1>1. CASE \/ Dispatch(p) \/ WorkerReturns(p)
           \/ ProviderFails(p) \/ RejectResponse(p) \/ AcceptResponse(p)
           \/ SaveArchive(p) \/ SaveObservation(p) \/ SaveState(p) \/ SaveFails(p)
  <2>1. UNCHANGED <<attempts, intent, recovery, lock>> /\ pc[p] # "idle"
    BY <1>0, <1>1, Judges DEF disk, SaveArchive, SaveObservation, SaveState, SaveFails,
       Working
  <2>2. \E where \in Working \cup {"record"} : \E locals : Goto(p, where, locals)
    BY <1>0, <1>1, Judges, Saves, SavesState
  <2>3. /\ pc'[p] \in Working \cup {"record"}
        /\ \A q \in Procs : q # p => pc'[q] = "idle"
    BY <1>0, <2>1, <2>2, Moves DEF Working
  <2>. QED
    BY <2>1, <2>3 DEF Recoverable, Working
<1>2. CASE WriteRecord(p)
  <2>1. StepRecord(p).base = job[p].base /\ StepRecord(p).own = TRUE
    BY DEF StepRecord
  <2>2. PICK where \in {"mark", "clear"} : Goto(p, where, job[p])
    BY <1>2 DEF WriteRecord
  <2>. QED
    BY <1>2, <2>1, <2>2, RecoverableRecord DEF WriteRecord
<1>3. CASE MarkRecovery(p)
  <2>1. /\ Goto(p, "clear", job[p]) /\ pc[p] = "mark"
        /\ UNCHANGED <<attempts, intent, lock>>
        /\ recovery'.attempt = job[p].attempt /\ recovery'.base = job[p].base
    BY <1>3 DEF MarkRecovery
  <2>2. /\ pc'[p] = "clear" /\ job'[p] = job[p]
        /\ \A q \in Procs : q # p => pc'[q] = "idle"
    BY <1>0, <2>1, Moves
  <2>3. intent.kind # "none" => intent.attempt = job[p].attempt
    BY <1>0, <2>1 DEF IntentOfJob, StepPcs
  <2>. QED
    BY <2>1, <2>2, <2>3 DEF Recoverable
<1>4. CASE ClearIntent(p)
  <2>1. /\ pc[p] = "clear" /\ Return(p) /\ intent' \in {intent, NoIntent}
        /\ UNCHANGED <<attempts, recovery>>
    BY <1>4 DEF ClearIntent
  <2>2. \A q \in Procs : pc'[q] = "idle"
    BY <1>0, <2>1, Ends
  <2>. QED
    BY <2>1, <2>2 DEF Recoverable, NoIntent
<1>. QED
  BY <1>1, <1>2, <1>3, <1>4 DEF StepAction

LEMMA RecoverableElse ==
  ASSUME RunInv, NoProbe, Recoverable, "alter" \notin WorkerEdits, "garble" \notin WorkerEdits,
         \/ \E p \in Procs : RecoverAction(p) \/ ProbeReturns(p) \/ Abandon(p)
         \/ \E kind \in EditKinds : Edit(kind)
         \/ \E n \in live : OrphanExits(n)
  PROVE  Recoverable'
<1>0. TypeInv /\ Mutex
  BY DEF RunInv
<1>1. ASSUME NEW p \in Procs, WriteInterrupted(p)
      PROVE  Recoverable'
  <2>1. InterruptedRecord(p).base = job[p].base /\ InterruptedRecord(p).own = TRUE
    BY <1>1 DEF InterruptedRecord, WriteInterrupted, Recoverable
  <2>2. PICK where \in {"r_observation", "r_recovery"} : Goto(p, where, job[p])
    BY <1>1 DEF WriteInterrupted, AfterRecord
  <2>. QED
    BY <1>1, <2>1, <2>2, RecoverableRecord DEF WriteInterrupted
<1>2. ASSUME NEW p \in Procs,
             \/ AcceptObservation(p) \/ AcceptState(p) \/ AcceptFails(p)
             \/ ClearRecovery(p) \/ DropIntent(p) \/ Abandon(p)
      PROVE  Recoverable'
  <2>1. \A q \in Procs : pc'[q] \in {"r_state", "r_recovery", "r_intent", "idle"}
    BY <1>0, <1>2, Moves, Ends DEF AcceptObservation, AcceptState, AcceptFails,
       ClearRecovery, DropIntent, Abandon
  <2>2. /\ attempts' = attempts /\ intent' \in {intent, NoIntent}
        /\ recovery' \in {recovery, NoRecovery}
    BY <1>2 DEF AcceptObservation, AcceptState, AcceptFails, ClearRecovery, DropIntent,
       Abandon, disk
  <2>. QED
    BY <2>1, <2>2 DEF Recoverable, NoIntent, NoRecovery
<1>3. ASSUME NEW p \in Procs, ProbeReturns(p)
      PROVE  FALSE
  BY <1>3 DEF ProbeReturns, NoProbe
<1>4. ASSUME NEW kind \in EditKinds, Edit(kind)
      PROVE  Recoverable'
  <2>1. /\ intent' \in {intent, NoIntent}
        /\ UNCHANGED <<attempts, recovery, pc, job>>
    BY <1>4 DEF Edit, Damaged, EditKinds
  <2>. QED
    BY <2>1 DEF Recoverable, NoIntent
<1>5. ASSUME NEW n \in live, OrphanExits(n)
      PROVE  Recoverable'
  BY <1>5 DEF OrphanExits, disk, Recoverable
<1>. QED
  BY <1>1, <1>2, <1>3, <1>4, <1>5 DEF RecoverAction

(* No crash and no failed write, however many, leads to a run that refuses   *)
(* to step and refuses to recover, as long as no worker falsifies its        *)
(* intent (deleting it does no harm here) and nobody runs cache-probe, whose *)
(* note names no attempt.  The manifest, the workflow, the state and the     *)
(* instructions have to load: a worker that wrecks one of them leaves a run  *)
(* which no command opens again.                                             *)
THEOREM RecoveryIsAccepted ==
  ASSUME "alter" \notin WorkerEdits, "garble" \notin WorkerEdits, ~Probing
  PROVE  Spec => []NeverStuck
<1>1. Init => Recoverable
  BY DEF Init, Recoverable, NoIntent, NoRecovery
<1>2. RunInv /\ NoProbe /\ Recoverable /\ [Next]_vars => Recoverable'
  <2>1. ASSUME Recoverable, UNCHANGED vars
        PROVE  Recoverable'
    BY <2>1 DEF vars, disk, project, Recoverable
  <2>. QED
    BY <2>1, RecoverableBegin, RecoverableStep, RecoverableElse DEF Next
<1>3. Recoverable => NeverStuck
  BY DEF Recoverable, NeverStuck, RecoveryPending, RecoverAccepts, RecoveryValid,
         IntentValid, RecordMatches
<1>. QED
  BY <1>1, <1>2, <1>3, RunInvHolds, NoProbeHolds, PTL DEF Spec

-----------------------------------------------------------------------------
(* The contract.                                                           *)

(* What changes neither the run's state nor its records, nor what blocks it, *)
(* is a stutter of the contract.                                             *)
LEMMA ContractUnmoved ==
  ASSUME UNCHANGED <<state, attempts>>, recovery'.some = recovery.some,
         intent'.kind = "none" <=> intent.kind = "none",
         intent'.attempt = intent.attempt, intent'.base = intent.base
  PROVE  UNCHANGED C!contractVars
BY DEF C!contractVars, Unrecorded

LEMMA ContractBegin ==
  ASSUME RunInv, ~Probing, NEW p \in Procs, Begin(p)
  PROVE  [C!ContractNext]_C!contractVars
<1>1. CASE BeginStep(p)
  <2>1. /\ intent.kind = "none" /\ ~recovery.some /\ state.status = "running"
        /\ Cardinality(DOMAIN attempts) < MaxSteps
        /\ UNCHANGED <<state, attempts, recovery>>
        /\ intent' = [kind |-> "sound", attempt |-> NextAttempt, base |-> state.rev]
    BY <1>1 DEF BeginStep, RecoveryPending, AttemptsAdmit
  <2>2. NextAttempt \notin DOMAIN attempts
    BY NextNumberFree DEF RunInv
  <2>3. Cardinality(DOMAIN attempts) \in Nat
    BY FS_CardinalityType DEF RunInv, TypeInv, FiniteAttempts
  <2>4. ~Unrecorded /\ Unrecorded'
    BY <2>1, <2>2 DEF Unrecorded
  <2>5. C!Open
    BY <2>1, <2>3, <2>4 DEF C!Open
  <2>. QED
    BY <2>5 DEF C!ContractNext
<1>2. CASE BeginRecover(p)
  BY <1>2, ContractUnmoved DEF BeginRecover, disk
<1>. QED
  BY <1>1, <1>2 DEF Begin, BeginProbe

(* The record of the pending attempt. *)
LEMMA ContractRecord ==
  ASSUME RunInv, Accounted, NEW p \in Procs, pc[p] \in {"record", "r_record"},
         NEW record, PutRecord(job[p].attempt, record), UNCHANGED <<state, intent, recovery>>
  PROVE  C!Record
<1>1. intent.kind # "none" /\ intent.attempt = job[p].attempt
  BY DEF Accounted, RunInv, IntentOfJob, StepPcs
<1>2. job[p].attempt = NextAttempt
  BY DEF RunInv, Numbering
<1>3. /\ NextAttempt \notin DOMAIN attempts
      /\ DOMAIN attempts' = DOMAIN attempts \cup {NextAttempt}
      /\ Cardinality(DOMAIN attempts') = Cardinality(DOMAIN attempts) + 1
  BY <1>2, NumberedRecord DEF RunInv
<1>4. Cardinality(DOMAIN attempts) \in Nat
  BY FS_CardinalityType DEF RunInv, TypeInv, FiniteAttempts
<1>5. Unrecorded /\ ~Unrecorded'
  BY <1>1, <1>2, <1>3 DEF Unrecorded
<1>. QED
  BY <1>1, <1>3, <1>4, <1>5 DEF C!Record

(* Removing the intent of a recorded attempt. *)
LEMMA ContractClose ==
  ASSUME TypeInv, intent.kind # "none", intent.attempt \in DOMAIN attempts,
         intent' = NoIntent, UNCHANGED <<state, attempts, recovery>>
  PROVE  C!Close
<1>1. Cardinality(DOMAIN attempts) \in Nat
  BY FS_CardinalityType DEF TypeInv, FiniteAttempts
<1>2. ~Unrecorded /\ ~Unrecorded'
  BY DEF Unrecorded, NoIntent
<1>. QED
  BY <1>1, <1>2 DEF C!Close, NoIntent

LEMMA ContractStep ==
  ASSUME RunInv, Accounted, Resolvable, NEW p \in Procs, StepAction(p)
  PROVE  [C!ContractNext]_C!contractVars
<1>0. /\ TypeInv /\ Mutex /\ IntentOfJob /\ StatusStands
      /\ state.rev \in Nat /\ Cardinality(DOMAIN attempts) \in Nat
  BY FS_CardinalityType DEF RunInv, TypeInv, TypeOK, FiniteAttempts
<1>1. CASE \/ Dispatch(p) \/ WorkerReturns(p)
           \/ ProviderFails(p) \/ RejectResponse(p) \/ AcceptResponse(p)
           \/ SaveArchive(p) \/ SaveObservation(p) \/ SaveFails(p)
  <2>1. UNCHANGED <<state, attempts, intent, recovery>>
    BY <1>0, <1>1, Judges DEF disk, SaveArchive, SaveObservation, SaveFails
  <2>. QED
    BY <2>1, ContractUnmoved
<1>2. CASE SaveState(p)
  <2>1. /\ pc[p] = "state" /\ UNCHANGED <<attempts, intent, recovery>>
        /\ state' = [rev |-> job[p].base + 1, status |-> job[p].status]
    BY <1>2 DEF SaveState
  <2>2. /\ intent.kind # "none" /\ state.rev = intent.base
        /\ intent.attempt \notin DOMAIN attempts
    BY <2>1, OpenAttempt DEF Working
  <2>3. state.rev = job[p].base /\ state.status = "running" /\ ~recovery.some
    BY <1>0, <2>1 DEF StatusStands, Working
  <2>4. job[p].status \in {"running", "complete", "blocked"}
    BY <1>0 DEF TypeInv, TypeOK, Job, Statuses
  <2>5. Unrecorded /\ Unrecorded'
    BY <2>1, <2>2 DEF Unrecorded
  <2>6. C!Commit
    BY <1>0, <2>1, <2>2, <2>3, <2>4, <2>5 DEF C!Commit
  <2>. QED
    BY <2>6 DEF C!ContractNext
<1>3. CASE WriteRecord(p)
  BY <1>3, ContractRecord DEF WriteRecord, C!ContractNext
<1>4. CASE MarkRecovery(p)
  <2>1. pc[p] = "mark" /\ recovery'.some = TRUE /\ UNCHANGED <<state, attempts, intent>>
    BY <1>4 DEF MarkRecovery
  <2>2. /\ intent.kind # "none" /\ state.rev = job[p].base
        /\ job[p].attempt \in DOMAIN attempts
    BY <2>1 DEF Resolvable, Accounted
  <2>3. intent.attempt = job[p].attempt /\ intent.base = job[p].base
    BY <1>0, <2>1, <2>2 DEF IntentOfJob, StepPcs
  <2>4. ~Unrecorded /\ ~Unrecorded'
    BY <2>1, <2>2, <2>3 DEF Unrecorded
  <2>5. C!Note
    BY <1>0, <2>1, <2>2, <2>3, <2>4 DEF C!Note
  <2>. QED
    BY <2>5 DEF C!ContractNext
<1>5. CASE ClearIntent(p)
  <2>1. /\ pc[p] = "clear" /\ intent' \in {intent, NoIntent}
        /\ UNCHANGED <<state, attempts, recovery>>
    BY <1>5 DEF ClearIntent
  <2>2. intent.kind # "none" => intent.attempt \in DOMAIN attempts
    BY <1>0, <2>1 DEF Accounted, IntentOfJob, StepPcs
  <2>3. CASE intent' = intent
    BY <2>1, <2>3, ContractUnmoved
  <2>4. CASE intent' # intent
    <3>1. intent' = NoIntent /\ intent.kind # "none"
      BY <1>5, <2>1, <2>4 DEF ClearIntent, NoIntent
    <3>. QED
      BY <1>0, <2>1, <2>2, <3>1, ContractClose DEF C!ContractNext
  <2>. QED
    BY <2>3, <2>4
<1>. QED
  BY <1>1, <1>2, <1>3, <1>4, <1>5 DEF StepAction

LEMMA ContractRecover ==
  ASSUME RunInv, Accounted, History, Resolvable, NEW p \in Procs, RecoverAction(p)
  PROVE  [C!ContractNext]_C!contractVars
<1>0. /\ TypeInv /\ StatusStands
      /\ state.rev \in Nat /\ intent.base \in Nat /\ Cardinality(DOMAIN attempts) \in Nat
  BY FS_CardinalityType DEF RunInv, TypeInv, TypeOK, FiniteAttempts, Intent
<1>1. CASE WriteInterrupted(p)
  BY <1>1, ContractRecord DEF WriteInterrupted, C!ContractNext
<1>2. CASE AcceptObservation(p) \/ AcceptFails(p)
  BY <1>2, ContractUnmoved DEF AcceptObservation, AcceptFails
<1>3. CASE AcceptState(p)
  <2>1. /\ pc[p] = "r_state" /\ UNCHANGED <<attempts, intent, recovery>>
        /\ state' = [rev |-> state.rev + 1, status |-> "running"]
    BY <1>3 DEF AcceptState
  <2>2. /\ recovery.some \/ (intent.kind # "none" /\ state.rev = intent.base)
        /\ intent.kind # "none" => intent.attempt \in DOMAIN attempts
        /\ state.status = "running"
    BY <1>0, <2>1 DEF Resolvable, Unresolved, Accounted, StatusStands, RecoverPcs
  <2>3. intent.kind # "none" => state'.rev # intent.base
    BY <1>0, <2>1 DEF History
  <2>4. ~Unrecorded /\ ~Unrecorded'
    BY <2>1, <2>2 DEF Unrecorded
  <2>5. (intent.kind # "none" /\ state.rev # intent.base)' = (intent.kind # "none")
    BY <2>1, <2>3
  <2>6. C!Acknowledge
    BY <1>0, <2>1, <2>2, <2>4, <2>5 DEF C!Acknowledge
  <2>. QED
    BY <2>6 DEF C!ContractNext
<1>4. CASE ClearRecovery(p)
  <2>1. /\ pc[p] = "r_recovery" /\ recovery' = NoRecovery
        /\ UNCHANGED <<state, attempts, intent>>
    BY <1>4 DEF ClearRecovery
  <2>2. ~Unrecorded /\ ~Unrecorded'
    BY <2>1 DEF Unrecorded, Accounted, RecoverPcs
  <2>3. CASE recovery.some
    <3>1. C!Unnote
      BY <1>0, <2>1, <2>2, <2>3 DEF C!Unnote, NoRecovery
    <3>. QED
      BY <3>1 DEF C!ContractNext
  <2>4. CASE ~recovery.some
    <3>1. recovery'.some = recovery.some
      BY <1>0, <2>1, <2>4 DEF NoRecovery, TypeInv, TypeOK, Recovery
    <3>. QED
      BY <2>1, <3>1, ContractUnmoved
  <2>. QED
    BY <2>3, <2>4
<1>5. CASE DropIntent(p)
  <2>1. /\ pc[p] = "r_intent" /\ intent' = NoIntent
        /\ UNCHANGED <<state, attempts, recovery>>
    BY <1>5 DEF DropIntent
  <2>2. CASE intent.kind = "none"
    <3>1. UNCHANGED C!contractVars
      BY <2>1, <2>2 DEF C!contractVars, Unrecorded, NoIntent
    <3>. QED
      BY <3>1
  <2>3. CASE intent.kind # "none"
    <3>1. intent.attempt \in DOMAIN attempts
      BY <2>1, <2>3 DEF Accounted, RecoverPcs
    <3>. QED
      BY <1>0, <2>1, <2>3, <3>1, ContractClose DEF C!ContractNext
  <2>. QED
    BY <2>2, <2>3
<1>. QED
  BY <1>1, <1>2, <1>3, <1>4, <1>5 DEF RecoverAction

LEMMA ContractOutside ==
  ASSUME RunInv, NoProbe, "delete" \notin WorkerEdits,
         \/ \E p \in Procs : ProbeReturns(p) \/ Abandon(p)
         \/ \E kind \in EditKinds : Edit(kind)
         \/ \E n \in live : OrphanExits(n)
  PROVE  UNCHANGED C!contractVars
<1>1. ASSUME NEW p \in Procs, Abandon(p)
      PROVE  UNCHANGED C!contractVars
  BY <1>1, ContractUnmoved DEF Abandon, disk
<1>2. ASSUME NEW kind \in EditKinds, Edit(kind)
      PROVE  UNCHANGED C!contractVars
  BY <1>2, KeptIntent, ContractUnmoved DEF RunInv
<1>3. ASSUME NEW n \in live, OrphanExits(n)
      PROVE  UNCHANGED C!contractVars
  BY <1>3, ContractUnmoved DEF OrphanExits, disk
<1>. QED
  BY <1>1, <1>2, <1>3 DEF ProbeReturns, NoProbe

(* Every durable write of a step and of a recovery, with every crash and     *)
(* failed write in between, is one move of the contract or none: one attempt *)
(* open at a time, recorded once, credited with one revision at most.  A     *)
(* worker may falsify its intent; only its deletion and cache-probe, whose   *)
(* note belongs to no attempt, are outside of the contract.                  *)
THEOREM RunsKeepTheContract ==
  ASSUME "delete" \notin WorkerEdits, ~Probing
  PROVE  Spec => ImplementsContract
<1>1. Init => C!ContractInit
  <2>1. ASSUME Init
        PROVE  C!ContractInit
    <3>1. DOMAIN attempts = {} /\ Cardinality(DOMAIN attempts) = 0
      BY <2>1, FS_EmptySet DEF Init
    <3>2. ~Unrecorded
      BY <2>1 DEF Init, Unrecorded, NoIntent
    <3>. QED
      BY <2>1, <3>1, <3>2 DEF Init, NoIntent, NoRecovery, C!ContractInit
  <2>. QED
    BY <2>1
<1>2. RunInv /\ Accounted /\ History /\ Resolvable /\ NoProbe /\ [Next]_vars
        => [C!ContractNext]_C!contractVars
  <2>1. ASSUME UNCHANGED vars
        PROVE  UNCHANGED C!contractVars
    BY <2>1, ContractUnmoved DEF vars, disk
  <2>. QED
    BY <2>1, ContractBegin, ContractStep, ContractRecover, ContractOutside DEF Next
<1>. QED
  BY <1>1, <1>2, RunInvHolds, AccountedHolds, HistoryHolds, ResolvableHolds, NoProbeHolds,
     PTL DEF Spec, ImplementsContract, C!Contract

-----------------------------------------------------------------------------
(* What a report shows.                                                    *)

(* What a report that holds the lock has read is still so, but for the       *)
(* observation of a run whose pending attempt may have a worker alive.       *)
Undisturbed ==
  /\ InspectTypeOK
  /\ view.stage \in {"attempts", "intent"} => view.cmd = "report"
  /\ view.stage # "none" /\ view.cmd = "report" /\ ~view.busy => view.holds
  /\ view.holds =>
       /\ lock = NoProc
       /\ view.stage \in {"observation", "attempts", "intent"} => view.rev = state.rev
       /\ view.stage \in {"attempts", "intent"} =>
            /\ view.noted = recovery.some
            /\ intent.kind = "none" => view.seen = observation
       /\ view.stage = "intent" => view.records = DOMAIN attempts

(* While the lock is free only workers that outlived their step act. *)
LEMMA FreeLock ==
  ASSUME RunInv, Alone, "delete" \notin WorkerEdits, Next, lock = NoProc, lock' = NoProc
  PROVE  /\ UNCHANGED <<state, attempts, recovery>>
         /\ intent'.kind = "none" => intent.kind = "none" /\ observation' = observation
<1>0. TypeInv /\ \A p \in Procs : pc[p] = "idle"
  BY EngineAssumption DEF RunInv, Mutex
<1>1. ASSUME NEW p \in Procs,
             Begin(p) \/ StepAction(p) \/ RecoverAction(p) \/ ProbeReturns(p) \/ Abandon(p)
      PROVE  FALSE
  <2>1. CASE Begin(p)
    <3>1. lock' = p
      BY <2>1 DEF Begin, BeginStep, BeginRecover, BeginProbe, Acquire
    <3>. QED
      BY <3>1, EngineAssumption
  <2>2. CASE StepAction(p)
    BY <1>0, <2>2 DEF StepAction, Dispatch, WorkerReturns, ProviderFails, RejectResponse,
       AcceptResponse, SaveArchive, SaveObservation, SaveState, SaveFails, WriteRecord,
       MarkRecovery, ClearIntent
  <2>3. CASE RecoverAction(p) \/ ProbeReturns(p) \/ Abandon(p)
    BY <1>0, <2>3 DEF RecoverAction, WriteInterrupted, AcceptObservation, AcceptState,
       AcceptFails, ClearRecovery, DropIntent, ProbeReturns, Abandon
  <2>. QED
    BY <1>1, <2>1, <2>2, <2>3
<1>2. ASSUME NEW kind \in EditKinds, Edit(kind)
      PROVE  /\ UNCHANGED <<state, attempts, recovery>>
             /\ intent.kind # "none" /\ intent'.kind # "none"
  BY <1>0, <1>2, KeptIntent DEF Edit, Alone
<1>3. ASSUME NEW n \in live, OrphanExits(n)
      PROVE  UNCHANGED disk
  BY <1>3 DEF OrphanExits
<1>. QED
  BY <1>1, <1>2, <1>3 DEF Next, disk

LEMMA UndisturbedLook ==
  ASSUME RunInv, Undisturbed, Inspect, UNCHANGED vars
  PROVE  Undisturbed'
<1>0. /\ view \in View /\ NoView \in View
      /\ state.rev \in Nat /\ observation \in Nat /\ recovery.some \in BOOLEAN
      /\ DOMAIN attempts \in SUBSET Nat
  BY DEF RunInv, TypeInv, TypeOK, Recovery, Undisturbed, InspectTypeOK, View, NoView,
         Inspections, Foreign
<1>1. UNCHANGED <<state, observation, attempts, intent, recovery, lock>>
  BY DEF vars, disk
<1>2. ASSUME view' = NoView
      PROVE  Undisturbed'
  BY <1>0, <1>2 DEF Undisturbed, InspectTypeOK, NoView
<1>3. ASSUME NEW cmd \in Inspections, Look(cmd)
      PROVE  Undisturbed'
  <2>. DEFINE next == [NoView EXCEPT !.stage = "state", !.cmd = cmd,
                            !.holds = cmd # "prompt" /\ lock = NoProc,
                            !.busy = SaysBusy(cmd)]
  <2>1. view' = next
    BY <1>3 DEF Look
  <2>2. SaysBusy(cmd) \in BOOLEAN /\ (cmd # "prompt" /\ lock = NoProc) \in BOOLEAN
    BY DEF SaysBusy
  <2>3. next \in View
    BY <1>0, <2>2 DEF View
  <2>4. /\ next.stage = "state" /\ next.cmd = cmd
        /\ next.holds <=> cmd # "prompt" /\ lock = NoProc
        /\ next.busy <=> SaysBusy(cmd)
    BY <1>0 DEF View
  <2>5. next.busy <=> cmd = "report" /\ lock # NoProc
    BY <2>4 DEF SaysBusy
  <2>. HIDE DEF next
  <2>. QED
    BY <1>1, <2>1, <2>3, <2>4, <2>5 DEF Undisturbed, InspectTypeOK
<1>4. CASE ReadState /\ loads
  <2>. DEFINE next == [view EXCEPT !.stage = "observation", !.rev = state.rev]
  <2>1. /\ next \in View /\ next.stage = "observation" /\ next.rev = state.rev
        /\ next.cmd = view.cmd /\ next.holds = view.holds /\ next.busy = view.busy
    BY <1>0 DEF View
  <2>2. view' = next /\ view.stage = "state"
    BY <1>4 DEF ReadState
  <2>. HIDE DEF next
  <2>. QED
    BY <1>1, <2>1, <2>2 DEF Undisturbed, InspectTypeOK
<1>5. CASE ReadObservation /\ view.cmd = "report"
  <2>. DEFINE next == [view EXCEPT !.stage = "attempts", !.seen = observation,
                               !.noted = recovery.some]
  <2>1. /\ next \in View /\ next.stage = "attempts" /\ next.rev = view.rev
        /\ next.cmd = view.cmd /\ next.holds = view.holds /\ next.busy = view.busy
        /\ next.seen = observation /\ next.noted = recovery.some
    BY <1>0 DEF View
  <2>2. view' = next /\ view.stage = "observation"
    BY <1>5 DEF ReadObservation
  <2>. HIDE DEF next
  <2>. QED
    BY <1>1, <1>5, <2>1, <2>2 DEF Undisturbed, InspectTypeOK
<1>6. CASE ReadAttempts
  <2>. DEFINE next == [view EXCEPT !.stage = "intent", !.records = DOMAIN attempts]
  <2>1. /\ next \in View /\ next.stage = "intent" /\ next.rev = view.rev
        /\ next.cmd = view.cmd /\ next.holds = view.holds /\ next.busy = view.busy
        /\ next.seen = view.seen /\ next.noted = view.noted
        /\ next.records = DOMAIN attempts
    BY <1>0 DEF View
  <2>2. view' = next /\ view.stage = "attempts"
    BY <1>6 DEF ReadAttempts
  <2>. HIDE DEF next
  <2>. QED
    BY <1>1, <2>1, <2>2 DEF Undisturbed, InspectTypeOK
<1>. QED
  BY <1>2, <1>3, <1>4, <1>5, <1>6 DEF Inspect, ReadState, ReadObservation, ReadIntent

LEMMA InspectedRun == InspectSpec => Spec
<1>1. InspectInit => Init
  BY DEF InspectInit
<1>2. [InspectNext]_<<vars, view>> => [Next]_vars
  BY DEF InspectNext, EngineNext
<1>. QED
  BY <1>1, <1>2, PTL DEF InspectSpec, Spec

(* A report that does not call itself busy shows one moment of the run,      *)
(* although it reads four files one after the other and a worker that        *)
(* outlived its step may edit the project, and through it the run's files,   *)
(* in between.                                                               *)
THEOREM ReportsShowOneMoment ==
  ASSUME "delete" \notin WorkerEdits, StopsOldWorker
  PROVE  InspectSpec => ReportsAreWhole
<1>1. InspectInit => Undisturbed
  BY DEF InspectInit, Undisturbed, InspectTypeOK, NoView, View, Inspections, Foreign
<1>2. RunInv /\ Alone /\ Undisturbed /\ [InspectNext]_<<vars, view>> => Undisturbed'
  <2>1. ASSUME Undisturbed, UNCHANGED <<vars, view>>
        PROVE  Undisturbed'
    BY <2>1 DEF vars, disk, Undisturbed, InspectTypeOK
  <2>2. ASSUME RunInv, Alone, Undisturbed, EngineNext, UNCHANGED view
        PROVE  Undisturbed'
    <3>1. view.holds =>
            /\ lock' = NoProc /\ UNCHANGED <<state, attempts, recovery>>
            /\ intent'.kind = "none" => intent.kind = "none" /\ observation' = observation
      BY <2>2, FreeLock DEF EngineNext, Undisturbed
    <3>. QED
      BY <2>2, <3>1 DEF Undisturbed, InspectTypeOK
  <2>. QED
    BY <2>1, <2>2, UndisturbedLook DEF InspectNext
<1>3. RunInv /\ Accounted /\ LedgerIsHistory /\ ObservationMatchesState /\ Undisturbed
        /\ [InspectNext]_<<vars, view>>
        => [Reports /\ ~view.busy =>
              LET pending == intent.kind # "none" IN
              /\ started \subseteq
                   view.records \cup (IF pending THEN {intent.attempt} ELSE {})
              /\ \A n \in view.records : Credit(n) <= view.rev
              /\ ~pending /\ ~view.noted /\ faults <= 1 => view.seen = For(view.rev)
           ]_<<vars, view>>
  <2>1. SUFFICES ASSUME RunInv, Accounted, LedgerIsHistory, ObservationMatchesState,
                        Undisturbed, Reports, ~view.busy
                 PROVE  /\ started \subseteq view.records \cup
                             (IF intent.kind # "none" THEN {intent.attempt} ELSE {})
                        /\ \A n \in view.records : Credit(n) <= view.rev
                        /\ intent.kind = "none" /\ ~view.noted /\ faults <= 1 =>
                             view.seen = For(view.rev)
    OBVIOUS
  <2>2. /\ view.holds /\ lock = NoProc /\ view.rev = state.rev
        /\ view.noted = recovery.some /\ view.records = DOMAIN attempts
        /\ intent.kind = "none" => view.seen = observation
    BY <2>1 DEF Reports, Undisturbed
  <2>3. \A p \in Procs : pc[p] \notin StepPcs
    BY <2>1, <2>2, EngineAssumption DEF RunInv, Mutex, StepPcs
  <2>4. \A n \in started : n \in DOMAIN attempts \/ (intent.kind # "none" /\ intent.attempt = n)
    BY <2>1, <2>3 DEF Accounted, NoLostDispatch
  <2>5. started \subseteq view.records \cup
          (IF intent.kind # "none" THEN {intent.attempt} ELSE {})
    BY <2>2, <2>4
  <2>6. \A n \in view.records : Credit(n) <= view.rev
    BY <2>1, <2>2 DEF LedgerIsHistory
  <2>7. intent.kind = "none" /\ ~view.noted /\ faults <= 1 => view.seen = For(view.rev)
    BY <2>1, <2>2 DEF ObservationMatchesState, RecoveryPending
  <2>. QED
    BY <2>5, <2>6, <2>7
<1>. QED
  BY <1>1, <1>2, <1>3, InspectedRun, RunInvHolds, AccountedHolds, AloneHolds,
     LedgerStaysHistory, PromptsArePaired, PTL DEF InspectSpec, ReportsAreWhole
=============================================================================
