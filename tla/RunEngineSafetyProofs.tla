----------------------- MODULE RunEngineSafetyProofs -----------------------
(***************************************************************************)
(* What a dispatch may meet, for every value of the constants: no worker   *)
(* is started beside a live one, on top of edits nobody accepted, beyond   *)
(* an attempt budget or over the token cap.  The first two need the intent *)
(* to survive its worker and the operator to stop the old worker before    *)
(* recovering, or that nothing crashes; the budgets need no proviso.       *)
(***************************************************************************)
EXTENDS RunEngineProofs

(* The only live worker is that of the attempt whose intent stands, which has *)
(* neither a record nor a revision; whoever writes to the run has none.       *)
Alone ==
  /\ live # {} =>
       /\ intent.kind # "none" /\ live \subseteq {intent.attempt}
       /\ state.rev = intent.base /\ intent.attempt \notin DOMAIN attempts
  /\ \A p \in Procs :
       pc[p] \in RecoverPcs \cup (StepPcs \ {"running"}) => live = {}

(* Edits that no commit took in and no operator acknowledged keep the run    *)
(* blocked, and `recover` cannot unblock it without applying its observation. *)
EditsBlock ==
  /\ Unaccepted => RecoveryPending
  /\ Unaccepted /\ intent.kind # "none" =>
       /\ state.rev = intent.base
       /\ \/ intent.attempt \notin DOMAIN attempts
          \/ attempts[intent.attempt].outcome = "recovery_required"
  /\ \A p \in Procs :
       /\ pc[p] = "dispatch" => ~Unaccepted
       /\ pc[p] \in {"archive", "observation", "state"} /\ Unaccepted => job[p].edited
       /\ pc[p] = "record" /\ job[p].outcome # "recovery_required" => ~Unaccepted
       /\ pc[p] = "clear" /\ Unaccepted => recovery.some
       /\ pc[p] \in {"r_recovery", "r_intent"} => ~Unaccepted
       /\ pc[p] = "r_record" /\ ~job[p].apply => ~Unaccepted

(* While its worker's edits are not judged yet, a step compares them with    *)
(* what was accepted last.                                                   *)
ShownIsAccepted ==
  \A p \in Procs :
    pc[p] \in {"dispatch", "running", "judge"} => shown = GitShows[accepted]

-----------------------------------------------------------------------------
(* One worker at a time.                                                   *)

(* The step at work has its own intent, no record, and the run's revision. *)
LEMMA OpenAttempt ==
  ASSUME RunInv, Accounted, NEW p \in Procs, pc[p] \in Working
  PROVE  /\ intent.kind # "none" /\ intent.attempt = job[p].attempt
         /\ state.rev = intent.base /\ intent.attempt \notin DOMAIN attempts
<1>1. intent.kind # "none"
  BY DEF Accounted
<1>2. intent.attempt = job[p].attempt /\ intent.base = job[p].base
  BY <1>1 DEF RunInv, IntentOfJob, Working, StepPcs
<1>3. state.rev = job[p].base
  BY DEF RunInv, StatusStands
<1>4. job[p].attempt = NextAttempt
  BY DEF RunInv, Numbering
<1>5. NextAttempt \notin DOMAIN attempts
  BY NextNumberFree DEF RunInv
<1>. QED
  BY <1>1, <1>2, <1>3, <1>4, <1>5

LEMMA AloneBegin ==
  ASSUME RunInv, Alone, StopsOldWorker, NEW p \in Procs, Begin(p)
  PROVE  Alone'
<1>1. CASE BeginStep(p)
  <2>1. live' = {}
    BY <1>1 DEF BeginStep, RecoveryPending, Alone
  <2>. QED
    BY <2>1 DEF Alone
<1>2. CASE BeginRecover(p)
  <2>1. live' = {}
    BY <1>2 DEF BeginRecover, project
  <2>. QED
    BY <2>1 DEF Alone
<1>3. CASE BeginProbe(p)
  <2>1. /\ pc'[p] = "probing"
        /\ \A q \in Procs : q # p => pc'[q] = "idle"
    BY <1>3, Starts DEF BeginProbe, RunInv
  <2>2. UNCHANGED <<state, attempts, intent, live>>
    BY <1>3 DEF BeginProbe, disk, project
  <2>. QED
    BY <2>1, <2>2 DEF Alone, RecoverPcs, StepPcs
<1>. QED
  BY <1>1, <1>2, <1>3 DEF Begin

LEMMA AloneStep ==
  ASSUME RunInv, Accounted, Alone, NEW p \in Procs, StepAction(p)
  PROVE  Alone'
<1>1. CASE Dispatch(p)
  <2>1. pc[p] = "dispatch" /\ live = {}
    BY <1>1 DEF Dispatch, Alone, StepPcs
  <2>2. /\ pc'[p] = "running"
        /\ \A q \in Procs : q # p => pc'[q] = "idle"
    BY <1>1, <2>1, Moves DEF Dispatch, RunInv
  <2>3. UNCHANGED <<state, attempts, intent>> /\ live' = {job[p].attempt}
    BY <1>1, <2>1 DEF Dispatch, disk
  <2>. QED
    BY <2>1, <2>2, <2>3, OpenAttempt DEF Alone, Working, RecoverPcs, StepPcs
<1>2. CASE WorkerReturns(p)
  <2>1. pc[p] \in Working /\ live' = live \ {job[p].attempt}
    BY <1>2 DEF WorkerReturns, Working
  <2>2. live' = {}
    BY <2>1, OpenAttempt DEF Alone
  <2>. QED
    BY <2>2 DEF Alone
<1>3. CASE ~Dispatch(p) /\ ~WorkerReturns(p)
  <2>1. pc[p] \in StepPcs \ {"running"} /\ live' = live
    BY <1>3 DEF StepAction, ProviderFails, RejectResponse, AcceptResponse, Verify,
                SaveArchive, SaveObservation, SaveState, SaveFails, WriteRecord,
                MarkRecovery, ClearIntent, project, StepPcs
  <2>2. live' = {}
    BY <2>1 DEF Alone
  <2>. QED
    BY <2>2 DEF Alone
<1>. QED
  BY <1>1, <1>2, <1>3

LEMMA AloneRecover ==
  ASSUME Alone, NEW p \in Procs, RecoverAction(p)
  PROVE  Alone'
<1>1. pc[p] \in RecoverPcs /\ live' = live
  BY DEF RecoverAction, WriteInterrupted, AcceptObservation, AcceptState, AcceptFails,
         ClearRecovery, DropIntent, project, RecoverPcs
<1>2. live' = {}
  BY <1>1 DEF Alone
<1>. QED
  BY <1>2 DEF Alone

LEMMA AloneOutside ==
  ASSUME RunInv, Alone, "delete" \notin WorkerEdits,
         \/ \E p \in Procs : ProbeReturns(p) \/ Abandon(p)
         \/ \E kind \in EditKinds : Edit(kind)
         \/ \E n \in live : OrphanExits(n)
  PROVE  Alone'
<1>1. ASSUME NEW p \in Procs, ProbeReturns(p) \/ Abandon(p)
      PROVE  Alone'
  <2>1. /\ pc[p] # "idle" /\ Return(p)
        /\ UNCHANGED <<state, attempts, intent, live>>
    BY <1>1 DEF ProbeReturns, Abandon, disk, project
  <2>2. \A q \in Procs : pc'[q] = "idle"
    BY <2>1, Ends DEF RunInv
  <2>. QED
    BY <2>1, <2>2 DEF Alone, RecoverPcs, StepPcs
<1>2. ASSUME NEW kind \in EditKinds, Edit(kind)
      PROVE  Alone'
  <2>1. /\ intent'.kind = "none" <=> intent.kind = "none"
        /\ intent'.attempt = intent.attempt /\ intent'.base = intent.base
        /\ UNCHANGED <<state, attempts, live, pc>>
    BY <1>2, KeptIntent DEF RunInv
  <2>. QED
    BY <2>1 DEF Alone
<1>3. ASSUME NEW n \in live, OrphanExits(n)
      PROVE  Alone'
  <2>1. UNCHANGED <<state, attempts, intent, pc>> /\ live' \subseteq live
    BY <1>3 DEF OrphanExits, disk
  <2>. QED
    BY <2>1 DEF Alone
<1>. QED
  BY <1>1, <1>2, <1>3

LEMMA AloneHolds ==
  ASSUME "delete" \notin WorkerEdits, StopsOldWorker
  PROVE  Spec => []Alone
<1>1. Init => Alone
  BY DEF Init, Alone
<1>2. RunInv /\ Accounted /\ Alone /\ [Next]_vars => Alone'
  <2>1. ASSUME Alone, UNCHANGED vars
        PROVE  Alone'
    BY <2>1 DEF vars, disk, project, Alone
  <2>. QED
    BY <2>1, AloneBegin, AloneStep, AloneRecover, AloneOutside DEF Next
<1>. QED
  BY <1>1, <1>2, RunInvHolds, AccountedHolds, PTL DEF Spec

(* No worker is started while an earlier one may still edit the project, and *)
(* there is never more than one, provided that the operator stops the worker *)
(* of a dead step before recovering and no worker deletes its intent.        *)
THEOREM OneWorkerAtATime ==
  ASSUME "delete" \notin WorkerEdits, StopsOldWorker
  PROVE  Spec => []NoDispatchOverLiveWorker
<1>1. Alone => NoDispatchOverLiveWorker
  <2>1. ASSUME Alone, NEW m \in live, NEW n \in live
        PROVE  m = n
    BY <2>1 DEF Alone
  <2>. QED
    BY <2>1 DEF Alone, NoDispatchOverLiveWorker, StepPcs
<1>. QED
  BY <1>1, AloneHolds, PTL

-----------------------------------------------------------------------------
(* No dispatch on top of edits nobody accepted.                            *)

LEMMA ShownBegin ==
  ASSUME RunInv, lock = NoProc /\ Unaccepted => RecoveryPending,
         NEW p \in Procs, Begin(p)
  PROVE  ShownIsAccepted'
<1>0. TypeInv /\ Mutex
  BY DEF RunInv
<1>1. CASE BeginStep(p)
  BY <1>1 DEF BeginStep, Acquire, Unaccepted, ShownIsAccepted
<1>2. CASE BeginRecover(p) \/ BeginProbe(p)
  <2>1. PICK where \in {"r_record", "r_observation", "r_recovery", "probing"} :
          \E locals : Acquire(p, where, locals)
    BY <1>2 DEF BeginRecover, BeginProbe, AfterRecord
  <2>2. pc'[p] = where /\ \A q \in Procs : q # p => pc'[q] = "idle"
    BY <1>0, <2>1, Starts
  <2>. QED
    BY <2>2 DEF ShownIsAccepted
<1>. QED
  BY <1>1, <1>2 DEF Begin

LEMMA ShownStep ==
  ASSUME RunInv, ShownIsAccepted, NEW p \in Procs, StepAction(p)
  PROVE  ShownIsAccepted'
<1>0. TypeInv /\ Mutex
  BY DEF RunInv
<1>1. CASE Dispatch(p) \/ WorkerReturns(p)
  <2>1. /\ pc[p] \in {"dispatch", "running"} /\ UNCHANGED <<lock, shown, accepted>>
        /\ \E where \in {"running", "judge"} : \E locals : Goto(p, where, locals)
    BY <1>1 DEF Dispatch, WorkerReturns
  <2>2. \A q \in Procs : q # p => pc'[q] = "idle"
    BY <1>0, <2>1, Moves
  <2>. QED
    BY <2>1, <2>2 DEF ShownIsAccepted
<1>2. CASE \/ ProviderFails(p) \/ RejectResponse(p) \/ AcceptResponse(p)
           \/ SaveArchive(p) \/ SaveObservation(p) \/ SaveState(p) \/ SaveFails(p)
           \/ WriteRecord(p) \/ MarkRecovery(p)
  <2>. DEFINE after == {"archive", "observation", "state", "record", "mark", "clear"}
  <2>1. PICK where \in after : \E locals : Goto(p, where, locals)
    <3>1. CASE ProviderFails(p) \/ RejectResponse(p) \/ AcceptResponse(p)
      BY <3>1 DEF ProviderFails, RejectResponse, AcceptResponse, Fails
    <3>2. CASE SaveArchive(p) \/ SaveObservation(p) \/ SaveState(p) \/ SaveFails(p)
      BY <3>2 DEF SaveArchive, SaveObservation, SaveState, SaveFails, Fails
    <3>3. CASE WriteRecord(p) \/ MarkRecovery(p)
      BY <3>3 DEF WriteRecord, MarkRecovery
    <3>. QED
      BY <1>2, <3>1, <3>2, <3>3
  <2>2. pc[p] # "idle" /\ lock' = lock
    BY <1>2 DEF ProviderFails, RejectResponse, AcceptResponse, SaveArchive,
       SaveObservation, SaveState, SaveFails, WriteRecord, MarkRecovery
  <2>3. pc'[p] = where /\ \A q \in Procs : q # p => pc'[q] = "idle"
    BY <1>0, <2>1, <2>2, Moves
  <2>. QED
    BY <2>3 DEF ShownIsAccepted
<1>3. CASE ClearIntent(p)
  <2>1. \A q \in Procs : pc'[q] = "idle"
    BY <1>0, <1>3, Ends DEF ClearIntent
  <2>. QED
    BY <2>1 DEF ShownIsAccepted
<1>. QED
  BY <1>1, <1>2, <1>3 DEF StepAction

LEMMA ShownElse ==
  ASSUME RunInv, ShownIsAccepted,
         \/ \E p \in Procs : RecoverAction(p) \/ ProbeReturns(p) \/ Abandon(p)
         \/ \E kind \in EditKinds : Edit(kind)
         \/ \E n \in live : OrphanExits(n)
  PROVE  ShownIsAccepted'
<1>0. TypeInv /\ Mutex
  BY DEF RunInv
<1>1. ASSUME NEW p \in Procs,
             WriteInterrupted(p) \/ AcceptObservation(p) \/ AcceptState(p) \/ ClearRecovery(p)
      PROVE  ShownIsAccepted'
  <2>1. PICK where \in RecoverPcs : \E locals : Goto(p, where, locals)
    BY <1>1 DEF WriteInterrupted, AcceptObservation, AcceptState, ClearRecovery,
                AfterRecord, RecoverPcs
  <2>2. pc[p] # "idle" /\ lock' = lock
    BY <1>1 DEF WriteInterrupted, AcceptObservation, AcceptState, ClearRecovery
  <2>3. pc'[p] = where /\ \A q \in Procs : q # p => pc'[q] = "idle"
    BY <1>0, <2>1, <2>2, Moves DEF RecoverPcs
  <2>. QED
    BY <2>3 DEF ShownIsAccepted, RecoverPcs
<1>2. ASSUME NEW p \in Procs,
             AcceptFails(p) \/ DropIntent(p) \/ ProbeReturns(p) \/ Abandon(p)
      PROVE  ShownIsAccepted'
  <2>1. pc[p] # "idle" /\ Return(p)
    BY <1>2 DEF AcceptFails, DropIntent, ProbeReturns, Abandon
  <2>2. \A q \in Procs : pc'[q] = "idle"
    BY <1>0, <2>1, Ends
  <2>. QED
    BY <2>2 DEF ShownIsAccepted
<1>3. ASSUME \/ \E kind \in EditKinds : Edit(kind)
             \/ \E n \in live : OrphanExits(n)
      PROVE  ShownIsAccepted'
  BY <1>3 DEF Edit, OrphanExits, ShownIsAccepted
<1>. QED
  BY <1>1, <1>2, <1>3 DEF RecoverAction

LEMMA ShownKept ==
  ASSUME RunInv, lock = NoProc /\ Unaccepted => RecoveryPending, ShownIsAccepted,
         [Next]_vars
  PROVE  ShownIsAccepted'
<1>1. CASE UNCHANGED vars
  BY <1>1 DEF vars, project, ShownIsAccepted
<1>. QED
  BY <1>1, ShownBegin, ShownStep, ShownElse DEF Next

(* Then whoever compares sees what is not accepted. *)
LEMMA Seen ==
  ASSUME ShownIsAccepted, NEW p \in Procs, pc[p] \in {"dispatch", "running", "judge"},
         UNCHANGED <<shown, accepted>>
  PROVE  (Unaccepted <=> Changed) /\ (Unaccepted' <=> Changed')
BY DEF ShownIsAccepted, Unaccepted, Changed

LEMMA EditsClean ==
  ASSUME ~Unaccepted'
  PROVE  EditsBlock'
BY DEF EditsBlock

LEMMA EditsBegin ==
  ASSUME RunInv, EditsBlock, NEW p \in Procs, Begin(p)
  PROVE  EditsBlock'
<1>0. TypeInv /\ Mutex
  BY DEF RunInv
<1>1. CASE BeginStep(p)
  <2>1. ~Unaccepted'
    BY <1>1 DEF BeginStep, EditsBlock, Unaccepted
  <2>. QED
    BY <2>1, EditsClean
<1>2. CASE BeginRecover(p) /\ Unaccepted
  <2>. DEFINE where == IF NeedsRecord THEN "r_record" ELSE AfterRecord(AppliesObservation)
              locals == [NoJob EXCEPT !.attempt = intent.attempt, !.base = intent.base,
                            !.intact = (intent.kind = "sound"),
                            !.apply = AppliesObservation]
  <2>1. AppliesObservation
    <3>1. CASE recovery.some
      BY <3>1 DEF AppliesObservation
    <3>2. CASE ~recovery.some
      <4>1. intent.kind \notin {"none", "garbled"}
        BY <1>2, <3>2 DEF BeginRecover, RecoverAccepts, IntentValid, RecoveryPending
      <4>2. intent.attempt \in DOMAIN attempts => RecordMatches(intent.attempt)
        BY <1>2, <4>1 DEF BeginRecover, RecoverAccepts, IntentValid
      <4>3. /\ state.rev = intent.base
            /\ \/ intent.attempt \notin DOMAIN attempts
               \/ attempts[intent.attempt].outcome = "recovery_required"
        BY <1>2, <4>1 DEF EditsBlock
      <4>. QED
        BY <4>2, <4>3 DEF AppliesObservation, RecordMatches
    <3>. QED
      BY <3>1, <3>2
  <2>2. where \in {"r_record", "r_observation"} /\ locals.apply
    BY <2>1 DEF AfterRecord, NoJob
  <2>3. Acquire(p, where, locals)
    BY <1>2 DEF BeginRecover
  <2>. HIDE DEF where, locals
  <2>4. /\ pc'[p] = where /\ job'[p] = locals
        /\ \A q \in Procs : q # p => pc'[q] = "idle"
    BY <1>0, <2>2, <2>3, Starts
  <2>5. UNCHANGED <<state, attempts, intent, recovery, Unaccepted>>
    BY <1>2 DEF BeginRecover, disk, project, Unaccepted
  <2>. QED
    BY <2>2, <2>4, <2>5 DEF EditsBlock, RecoveryPending
<1>3. CASE BeginRecover(p) /\ ~Unaccepted
  <2>1. ~Unaccepted'
    BY <1>3 DEF BeginRecover, project, Unaccepted
  <2>. QED
    BY <2>1, EditsClean
<1>4. CASE BeginProbe(p)
  <2>1. /\ pc'[p] = "probing"
        /\ \A q \in Procs : q # p => pc'[q] = "idle"
    BY <1>0, <1>4, Starts DEF BeginProbe
  <2>2. UNCHANGED <<state, attempts, intent, recovery, Unaccepted>>
    BY <1>4 DEF BeginProbe, disk, project, Unaccepted
  <2>. QED
    BY <2>1, <2>2 DEF EditsBlock, RecoveryPending
<1>. QED
  BY <1>1, <1>2, <1>3, <1>4 DEF Begin

(* A failing step blocks the run if any edit is not accepted. *)
LEMMA FailsBlock ==
  ASSUME TypeInv, Mutex, NEW p \in Procs, pc[p] # "idle", NEW locals \in Job,
         NEW outcome, NEW gitDown, NEW edited, Unaccepted' => edited,
         Fails(p, locals, outcome, gitDown, edited), lock' = lock
  PROVE  /\ pc'[p] = "record"
         /\ Unaccepted' => job'[p].outcome = "recovery_required"
         /\ \A q \in Procs : q # p => pc'[q] = "idle"
<1>. DEFINE failed == [locals EXCEPT !.outcome =
                         IF Ambiguous(locals, gitDown, edited)
                         THEN "recovery_required" ELSE outcome]
<1>1. Goto(p, "record", failed)
  BY DEF Fails
<1>2. Unaccepted' => failed.outcome = "recovery_required"
  BY DEF Ambiguous, Job
<1>. HIDE DEF failed
<1>. QED
  BY <1>1, <1>2, Moves

LEMMA EditsJudge ==
  ASSUME RunInv, Accounted, EditsBlock, ShownIsAccepted, NEW p \in Procs,
         \/ Dispatch(p) \/ WorkerReturns(p)
         \/ ProviderFails(p) \/ RejectResponse(p) \/ AcceptResponse(p)
  PROVE  EditsBlock'
<1>0. TypeInv /\ Mutex /\ job[p] \in Job
  BY DEF RunInv, TypeInv, TypeOK
<1>1. /\ UNCHANGED <<state, attempts, intent, recovery, lock>>
      /\ pc[p] \in Working /\ pc[p] # "idle"
  BY <1>0, Judges DEF disk, Working
<1>2. /\ intent.kind # "none"
      /\ state.rev = intent.base /\ intent.attempt \notin DOMAIN attempts
  BY <1>1, OpenAttempt
<1>3. SUFFICES ASSUME Unaccepted'
               PROVE  \A q \in Procs :
                        /\ pc'[q] # "dispatch"
                        /\ pc'[q] \in {"archive", "observation", "state"} => job'[q].edited
                        /\ pc'[q] = "record" => job'[q].outcome = "recovery_required"
                        /\ pc'[q] \notin {"clear", "r_recovery", "r_intent", "r_record"}
  BY <1>1, <1>2, EditsClean DEF EditsBlock, RecoveryPending
<1>4. CASE Dispatch(p) \/ WorkerReturns(p)
  <2>1. PICK where \in {"running", "judge"} : \E locals : Goto(p, where, locals)
    BY <1>4 DEF Dispatch, WorkerReturns
  <2>2. /\ pc'[p] = where
        /\ \A q \in Procs : q # p => pc'[q] = "idle"
    BY <1>0, <1>1, <2>1, Moves
  <2>. QED
    BY <2>2
<1>5. CASE ProviderFails(p)
  <2>. DEFINE locals == IF pc[p] = "dispatch" THEN Compared(p) ELSE job[p]
  <2>1. PICK gitDown \in BOOLEAN : Fails(p, locals, "provider_failed", gitDown, Changed)
    BY <1>5 DEF ProviderFails
  <2>2. locals \in Job
    BY <1>0, ComparedType
  <2>3. Unaccepted' => Changed
    BY <1>5, Seen DEF ProviderFails, project, Unaccepted
  <2>. HIDE DEF locals
  <2>. QED
    BY <1>0, <1>1, <1>3, <2>1, <2>2, <2>3, FailsBlock
<1>6. CASE RejectResponse(p)
  <2>1. PICK gitDown \in BOOLEAN, left \in Contents :
          Verify(left) /\ Fails(p, job[p], "invalid_transition", gitDown, Changed')
    BY <1>6 DEF RejectResponse
  <2>2. Unaccepted' => Changed'
    BY <1>6, <2>1, Seen DEF RejectResponse, Verify
  <2>. QED
    BY <1>0, <1>1, <1>3, <2>1, <2>2, FailsBlock
<1>7. CASE AcceptResponse(p)
  <2>1. PICK gitDown \in BOOLEAN, left \in Contents, next \in Statuses,
             where \in {"archive", "observation"} :
          Verify(left) /\ Goto(p, where, [job[p] EXCEPT !.status = next,
                                   !.edited = gitDown \/ Changed'])
    BY <1>7 DEF AcceptResponse
  <2>. DEFINE locals == [job[p] EXCEPT !.status = next,
                           !.edited = gitDown \/ Changed']
  <2>2. locals.edited
    <3>1. Unaccepted' => Changed'
      BY <1>7, <2>1, Seen DEF AcceptResponse, Verify
    <3>. QED
      BY <1>0, <1>3, <3>1 DEF Job
  <2>. HIDE DEF locals
  <2>3. /\ pc'[p] = where /\ job'[p] = locals
        /\ \A q \in Procs : q # p => pc'[q] = "idle"
    BY <1>0, <1>1, <2>1, Moves DEF locals
  <2>. QED
    BY <2>2, <2>3
<1>. QED
  BY <1>4, <1>5, <1>6, <1>7

LEMMA EditsSave ==
  ASSUME RunInv, EditsBlock, NEW p \in Procs,
         SaveArchive(p) \/ SaveObservation(p) \/ SaveState(p) \/ SaveFails(p)
  PROVE  EditsBlock'
<1>0. TypeInv /\ Mutex /\ job[p] \in Job
  BY DEF RunInv, TypeInv, TypeOK
<1>1. CASE SaveState(p)
  <2>1. ~Unaccepted'
    BY <1>1 DEF SaveState, Unaccepted
  <2>. QED
    BY <2>1, EditsClean
<1>2. CASE SaveArchive(p) \/ SaveObservation(p)
  <2>1. PICK where \in {"observation", "state"}, locals \in Job :
          Goto(p, where, locals) /\ locals.edited = job[p].edited
    <3>1. job[p].edited = [job[p] EXCEPT !.seen = observation].edited
      BY <1>0 DEF Job
    <3>2. [job[p] EXCEPT !.seen = observation] \in Job
      BY <1>0 DEF Job, TypeInv, TypeOK
    <3>. QED
      BY <1>0, <1>2, <3>1, <3>2 DEF SaveArchive, SaveObservation
  <2>2. /\ UNCHANGED <<state, attempts, intent, recovery, lock, Unaccepted>>
        /\ pc[p] \in {"archive", "observation"}
    BY <1>2 DEF SaveArchive, SaveObservation, project, Unaccepted
  <2>3. /\ pc'[p] = where /\ job'[p] = locals
        /\ \A q \in Procs : q # p => pc'[q] = "idle"
    BY <1>0, <2>1, <2>2, Moves
  <2>. QED
    BY <2>1, <2>2, <2>3 DEF EditsBlock, RecoveryPending
<1>3. CASE SaveFails(p)
  <2>1. /\ UNCHANGED <<state, attempts, intent, recovery, lock, Unaccepted>>
        /\ pc[p] \in {"archive", "observation", "state"}
        /\ Fails(p, job[p], "invalid_transition", FALSE, job[p].edited)
    BY <1>3 DEF SaveFails, project, Unaccepted
  <2>2. Unaccepted' => job[p].edited
    BY <2>1 DEF EditsBlock
  <2>3. /\ pc'[p] = "record"
        /\ Unaccepted' => job'[p].outcome = "recovery_required"
        /\ \A q \in Procs : q # p => pc'[q] = "idle"
    BY <1>0, <2>1, <2>2, FailsBlock
  <2>. QED
    BY <2>1, <2>3 DEF EditsBlock, RecoveryPending
<1>. QED
  BY <1>1, <1>2, <1>3

LEMMA EditsFinalize ==
  ASSUME RunInv, EditsBlock, NEW p \in Procs,
         WriteRecord(p) \/ MarkRecovery(p) \/ ClearIntent(p)
  PROVE  EditsBlock'
<1>0. TypeInv /\ Mutex /\ IntentOfJob
  BY DEF RunInv
<1>1. CASE WriteRecord(p) /\ Unaccepted
  <2>. DEFINE where == IF job[p].outcome = "recovery_required" THEN "mark" ELSE "clear"
  <2>1. /\ Goto(p, where, job[p]) /\ pc[p] = "record"
        /\ UNCHANGED <<state, intent, recovery, lock, Unaccepted>>
    BY <1>1 DEF WriteRecord, project, Unaccepted
  <2>2. where = "mark" /\ job[p].outcome = "recovery_required"
    BY <1>1, <2>1 DEF EditsBlock
  <2>3. /\ attempts' = [m \in DOMAIN attempts \cup {job[p].attempt} |->
                          IF m = job[p].attempt THEN StepRecord(p) ELSE attempts[m]]
        /\ StepRecord(p).outcome = "recovery_required"
    BY <1>1, <2>2 DEF WriteRecord, PutRecord, StepRecord
  <2>. HIDE DEF where
  <2>4. /\ pc'[p] = "mark"
        /\ \A q \in Procs : q # p => pc'[q] = "idle"
    BY <1>0, <2>1, <2>2, Moves
  <2>5. intent.kind # "none" => intent.attempt = job[p].attempt
    BY <1>0, <2>1 DEF IntentOfJob, StepPcs
  <2>. QED
    BY <2>1, <2>3, <2>4, <2>5 DEF EditsBlock, RecoveryPending
<1>2. CASE WriteRecord(p) /\ ~Unaccepted
  <2>1. ~Unaccepted'
    BY <1>2 DEF WriteRecord, project, Unaccepted
  <2>. QED
    BY <2>1, EditsClean
<1>3. CASE MarkRecovery(p)
  <2>1. /\ Goto(p, "clear", job[p]) /\ pc[p] = "mark"
        /\ UNCHANGED <<state, attempts, intent, lock, Unaccepted>> /\ recovery'.some
    BY <1>3 DEF MarkRecovery, project, Unaccepted
  <2>2. /\ pc'[p] = "clear"
        /\ \A q \in Procs : q # p => pc'[q] = "idle"
    BY <1>0, <2>1, Moves
  <2>. QED
    BY <2>1, <2>2 DEF EditsBlock, RecoveryPending
<1>4. CASE ClearIntent(p)
  <2>1. /\ pc[p] = "clear" /\ Return(p) /\ intent' \in {intent, NoIntent}
        /\ UNCHANGED <<state, attempts, recovery, Unaccepted>>
    BY <1>4 DEF ClearIntent, project, Unaccepted
  <2>2. \A q \in Procs : pc'[q] = "idle"
    BY <1>0, <2>1, Ends
  <2>. QED
    BY <2>1, <2>2 DEF EditsBlock, RecoveryPending, NoIntent
<1>. QED
  BY <1>1, <1>2, <1>3, <1>4

LEMMA EditsRecover ==
  ASSUME RunInv, EditsBlock, NEW p \in Procs, RecoverAction(p)
  PROVE  EditsBlock'
<1>0. TypeInv /\ Mutex /\ IntentOfJob
  BY DEF RunInv
<1>1. CASE WriteInterrupted(p) /\ Unaccepted
  <2>1. /\ Goto(p, AfterRecord(job[p].apply), job[p]) /\ pc[p] = "r_record"
        /\ UNCHANGED <<state, intent, recovery, lock, Unaccepted>>
    BY <1>1 DEF WriteInterrupted, project, Unaccepted
  <2>2. AfterRecord(job[p].apply) = "r_observation"
    BY <1>1, <2>1 DEF EditsBlock, AfterRecord
  <2>3. /\ attempts' = [m \in DOMAIN attempts \cup {job[p].attempt} |->
                          IF m = job[p].attempt THEN InterruptedRecord(p) ELSE attempts[m]]
        /\ InterruptedRecord(p).outcome = "recovery_required"
    BY <1>1 DEF WriteInterrupted, PutRecord, InterruptedRecord
  <2>4. /\ pc'[p] = "r_observation"
        /\ \A q \in Procs : q # p => pc'[q] = "idle"
    BY <1>0, <2>1, <2>2, Moves
  <2>5. intent.kind # "none" => intent.attempt = job[p].attempt
    BY <1>0, <2>1 DEF IntentOfJob
  <2>. QED
    BY <2>1, <2>3, <2>4, <2>5 DEF EditsBlock, RecoveryPending
<1>2. CASE ~Unaccepted
  <2>1. ~Unaccepted'
    BY <1>2 DEF RecoverAction, WriteInterrupted, AcceptObservation, AcceptState,
                AcceptFails, ClearRecovery, DropIntent, project, Unaccepted
  <2>. QED
    BY <2>1, EditsClean
<1>3. CASE AcceptState(p)
  <2>1. ~Unaccepted'
    BY <1>3 DEF AcceptState, Unaccepted
  <2>. QED
    BY <2>1, EditsClean
<1>4. CASE AcceptObservation(p)
  <2>1. PICK locals : Goto(p, "r_state", locals)
    BY <1>4 DEF AcceptObservation
  <2>2. /\ pc[p] = "r_observation"
        /\ UNCHANGED <<state, attempts, intent, recovery, lock, Unaccepted>>
    BY <1>4 DEF AcceptObservation, project, Unaccepted
  <2>3. /\ pc'[p] = "r_state"
        /\ \A q \in Procs : q # p => pc'[q] = "idle"
    BY <1>0, <2>1, <2>2, Moves
  <2>. QED
    BY <2>2, <2>3 DEF EditsBlock, RecoveryPending
<1>5. CASE AcceptFails(p)
  <2>1. /\ pc[p] # "idle" /\ Return(p)
        /\ UNCHANGED <<state, attempts, intent, recovery, Unaccepted>>
    BY <1>5 DEF AcceptFails, project, Unaccepted
  <2>2. \A q \in Procs : pc'[q] = "idle"
    BY <1>0, <2>1, Ends
  <2>. QED
    BY <2>1, <2>2 DEF EditsBlock, RecoveryPending
<1>6. CASE ClearRecovery(p) \/ DropIntent(p)
  BY <1>2, <1>6 DEF ClearRecovery, DropIntent, EditsBlock
<1>. QED
  BY <1>1, <1>2, <1>3, <1>4, <1>5, <1>6 DEF RecoverAction

LEMMA EditsOutside ==
  ASSUME RunInv, Alone, EditsBlock, "delete" \notin WorkerEdits,
         \/ \E p \in Procs : ProbeReturns(p) \/ Abandon(p)
         \/ \E kind \in EditKinds : Edit(kind)
         \/ \E n \in live : OrphanExits(n)
  PROVE  EditsBlock'
<1>0. TypeInv /\ Mutex
  BY DEF RunInv
<1>1. ASSUME NEW p \in Procs, ProbeReturns(p) \/ Abandon(p)
      PROVE  EditsBlock'
  <2>1. /\ pc[p] # "idle" /\ Return(p)
        /\ UNCHANGED <<state, attempts, intent, Unaccepted>>
        /\ recovery' = recovery \/ recovery'.some
    BY <1>1 DEF ProbeReturns, Abandon, disk, project, Unaccepted
  <2>2. \A q \in Procs : pc'[q] = "idle"
    BY <1>0, <2>1, Ends
  <2>. QED
    BY <2>1, <2>2 DEF EditsBlock, RecoveryPending
<1>2. ASSUME NEW kind \in EditKinds, Edit(kind)
      PROVE  EditsBlock'
  <2>1. /\ intent'.kind = "none" <=> intent.kind = "none"
        /\ intent'.attempt = intent.attempt /\ intent'.base = intent.base
        /\ UNCHANGED <<state, attempts, recovery, pc>>
    BY <1>0, <1>2, KeptIntent
  <2>2. live # {}
    BY <1>2 DEF Edit
  <2>3. /\ intent.kind # "none"
        /\ state.rev = intent.base /\ intent.attempt \notin DOMAIN attempts
    BY <2>2 DEF Alone
  <2>4. \A q \in Procs : pc[q] \notin RecoverPcs \cup (StepPcs \ {"running"})
    BY <2>2 DEF Alone
  <2>. QED
    BY <2>1, <2>3, <2>4 DEF EditsBlock, RecoveryPending, RecoverPcs, StepPcs
<1>3. ASSUME NEW n \in live, OrphanExits(n)
      PROVE  EditsBlock'
  BY <1>3 DEF OrphanExits, disk, EditsBlock, RecoveryPending, Unaccepted
<1>. QED
  BY <1>1, <1>2, <1>3

(* No worker is started while a status of the project, Unaccepted differs from that of   *)
(* what was last committed or acknowledged, for any mix of failed steps,     *)
(* crashes, I/O errors, damaged files and unavailable git, under the same    *)
(* two provisos and whatever the status leaves out.                          *)
THEOREM NoWorkerOverUnacceptedEdits ==
  ASSUME "delete" \notin WorkerEdits, StopsOldWorker
  PROVE  Spec => []NoDispatchOverUnacceptedEdits
<1>1. Init => EditsBlock /\ ShownIsAccepted
  BY DEF Init, EditsBlock, Unaccepted, ShownIsAccepted
<1>2. RunInv /\ Accounted /\ Alone /\ EditsBlock /\ ShownIsAccepted /\ [Next]_vars
        => EditsBlock' /\ ShownIsAccepted'
  <2>1. ASSUME EditsBlock, UNCHANGED vars
        PROVE  EditsBlock'
    BY <2>1 DEF vars, disk, project, EditsBlock, RecoveryPending, Unaccepted
  <2>2. ASSUME RunInv, Accounted, EditsBlock, ShownIsAccepted, NEW p \in Procs, StepAction(p)
        PROVE  EditsBlock'
    BY <2>2, EditsJudge, EditsSave, EditsFinalize DEF StepAction
  <2>. QED
    <3>1. lock = NoProc /\ Unaccepted /\ EditsBlock => RecoveryPending
      BY DEF EditsBlock
    <3>. QED
      BY <2>1, <2>2, <3>1, EditsBegin, EditsRecover, EditsOutside, ShownKept DEF Next
<1>3. EditsBlock => NoDispatchOverUnacceptedEdits
  BY DEF EditsBlock, NoDispatchOverUnacceptedEdits
<1>. QED
  BY <1>1, <1>2, <1>3, RunInvHolds, AccountedHolds, AloneHolds, PTL DEF Spec

(* And it is started on exactly what was committed or acknowledged where git *)
(* tells all contents apart: no edit of a file that was modified already,    *)
(* and none of a file it ignores.                                            *)
THEOREM EditsSeenWhereGitTells ==
  ASSUME "delete" \notin WorkerEdits, StopsOldWorker,
         \A c, d \in Contents : GitShows[c] = GitShows[d] => c = d
  PROVE  Spec => []EditsAreSeen
<1>1. TypeOK /\ NoDispatchOverUnacceptedEdits => EditsAreSeen
  BY DEF TypeOK, NoDispatchOverUnacceptedEdits, Unaccepted, EditsAreSeen
<1>. QED
  BY <1>1, TypeCorrect, NoWorkerOverUnacceptedEdits, PTL

-----------------------------------------------------------------------------
(* The budgets.                                                            *)

(* One more attempt at a revision fits both budgets. *)
Fits(rev) ==
  /\ Cardinality(DOMAIN attempts) < MaxSteps
  /\ Cardinality(AttemptsAt(rev)) < MaxPerRevision

(* The records fit the budgets, and so does the one attempt that is not     *)
(* recorded yet: its intent stands, or a command still carries it.          *)
Budgets ==
  /\ Cardinality(DOMAIN attempts) <= MaxSteps
  /\ \A n \in DOMAIN attempts : Cardinality(AttemptsAt(attempts[n].base)) <= MaxPerRevision
  /\ intent.kind # "none" /\ intent.attempt \notin DOMAIN attempts => Fits(intent.base)
  /\ \A p \in Procs : pc[p] \in Unfinished => Fits(job[p].base)

(* Which attempt a command carries is decided when it begins. *)
LEMMA Carried ==
  ASSUME RunInv, [Next]_vars,
         \A p \in Procs : ~BeginStep(p) /\ ~BeginRecover(p)
                            /\ ~WriteRecord(p) /\ ~WriteInterrupted(p)
  PROVE  /\ attempts' = attempts
         /\ \/ intent'.kind = "none"
            \/ /\ intent.kind # "none"
               /\ intent'.attempt = intent.attempt /\ intent'.base = intent.base
         /\ \A q \in Procs : pc'[q] \in Unfinished =>
              pc[q] \in Unfinished /\ job'[q].base = job[q].base
<1>0. TypeInv /\ Mutex
  BY DEF RunInv
<1>1. ASSUME NEW p \in Procs, BeginProbe(p) PROVE \A q \in Procs : pc'[q] \notin Unfinished
  BY <1>0, <1>1, Starts DEF BeginProbe, Unfinished, Working
<1>2. ASSUME NEW p \in Procs,
             \/ Dispatch(p) \/ WorkerReturns(p)
             \/ ProviderFails(p) \/ RejectResponse(p) \/ AcceptResponse(p)
             \/ SaveArchive(p) \/ SaveObservation(p) \/ SaveState(p) \/ SaveFails(p)
      PROVE  /\ UNCHANGED <<attempts, intent>>
             /\ \A q \in Procs : pc'[q] \in Unfinished =>
                  pc[q] \in Unfinished /\ job'[q].base = job[q].base
  <2>1. UNCHANGED <<attempts, intent, lock>> /\ pc[p] \in Working
    BY <1>0, <1>2, Judges DEF disk, SaveArchive, SaveObservation, SaveState, SaveFails, Working
  <2>2. PICK where \in Working \cup {"record"}, locals \in Job :
          Goto(p, where, locals) /\ locals.base = job[p].base
    BY <1>0, <1>2, Judges, Saves, SavesState
  <2>3. /\ pc'[p] = where /\ job'[p] = locals
        /\ \A q \in Procs : q # p => pc'[q] = "idle"
    BY <1>0, <2>1, <2>2, Moves DEF Working
  <2>. QED
    BY <2>1, <2>2, <2>3 DEF Unfinished, Working
<1>3. ASSUME NEW p \in Procs,
             MarkRecovery(p) \/ AcceptObservation(p) \/ AcceptState(p) \/ ClearRecovery(p)
      PROVE  /\ UNCHANGED <<attempts, intent>>
             /\ \A q \in Procs : pc'[q] \notin Unfinished
  <2>1. PICK where \in {"clear", "r_state", "r_recovery", "r_intent"} :
          \E locals : Goto(p, where, locals)
    BY <1>3 DEF MarkRecovery, AcceptObservation, AcceptState, ClearRecovery
  <2>2. UNCHANGED <<attempts, intent, lock>> /\ pc[p] # "idle"
    BY <1>3 DEF MarkRecovery, AcceptObservation, AcceptState, ClearRecovery
  <2>. QED
    BY <1>0, <2>1, <2>2, Moves DEF Unfinished, Working
<1>4. ASSUME NEW p \in Procs,
             \/ ClearIntent(p) \/ AcceptFails(p) \/ DropIntent(p)
             \/ ProbeReturns(p) \/ Abandon(p)
      PROVE  /\ attempts' = attempts /\ intent' \in {intent, NoIntent}
             /\ \A q \in Procs : pc'[q] \notin Unfinished
  <2>1. /\ pc[p] # "idle" /\ Return(p) /\ attempts' = attempts
        /\ intent' \in {intent, NoIntent}
    BY <1>4 DEF ClearIntent, AcceptFails, DropIntent, ProbeReturns, Abandon, disk
  <2>. QED
    BY <1>0, <2>1, Ends DEF Unfinished, Working
<1>5. ASSUME \/ \E kind \in EditKinds : Edit(kind)
             \/ \E n \in live : OrphanExits(n)
      PROVE  /\ attempts' = attempts
             /\ \/ intent'.kind = "none"
                \/ /\ intent.kind # "none"
                   /\ intent'.attempt = intent.attempt /\ intent'.base = intent.base
             /\ UNCHANGED <<pc, job>>
  BY <1>0, <1>5, EditedIntent DEF OrphanExits, disk, NoIntent
<1>6. CASE UNCHANGED vars
  BY <1>6 DEF vars, disk
<1>7. ASSUME NEW p \in Procs, BeginProbe(p) PROVE UNCHANGED <<attempts, intent>>
  BY <1>7 DEF BeginProbe, disk
<1>. QED
  BY <1>1, <1>2, <1>3, <1>4, <1>5, <1>6, <1>7
     DEF Next, Begin, StepAction, RecoverAction, NoIntent

LEMMA FittingNumbers ==
  ASSUME TypeInv
  PROVE  /\ Cardinality(DOMAIN attempts) \in Nat
         /\ \A r : Cardinality(AttemptsAt(r)) \in Nat /\ IsFiniteSet(AttemptsAt(r))
<1>1. \A r : AttemptsAt(r) \subseteq DOMAIN attempts
  BY DEF AttemptsAt
<1>. QED
  BY <1>1, FS_Subset, FS_CardinalityType DEF TypeInv, FiniteAttempts

(* A record that fits uses up its place in both budgets. *)
LEMMA BudgetsRecord ==
  ASSUME TypeInv, Numbering, Budgets, NEW record, PutRecord(NextAttempt, record),
         Fits(record.base)
  PROVE  /\ Cardinality(DOMAIN attempts') <= MaxSteps
         /\ \A n \in DOMAIN attempts' :
              Cardinality(AttemptsAt(attempts[n].base)') <= MaxPerRevision
<1>. DEFINE new == NextAttempt
<1>1. /\ new \notin DOMAIN attempts
      /\ DOMAIN attempts' = DOMAIN attempts \cup {new}
      /\ Cardinality(DOMAIN attempts') = Cardinality(DOMAIN attempts) + 1
      /\ attempts'[new] = record
      /\ \A m \in DOMAIN attempts : attempts'[m] = attempts[m]
  BY NumberedRecord
<1>. HIDE DEF new
<1>2. Cardinality(DOMAIN attempts') <= MaxSteps
  BY <1>1, FittingNumbers, EngineAssumption DEF Fits
<1>3. ASSUME NEW r
      PROVE  AttemptsAt(r)' = AttemptsAt(r) \cup (IF r = record.base THEN {new} ELSE {})
  BY <1>1 DEF AttemptsAt
<1>4. Cardinality(AttemptsAt(record.base)') <= MaxPerRevision
  <2>1. new \notin AttemptsAt(record.base)
    BY <1>1 DEF AttemptsAt
  <2>2. Cardinality(AttemptsAt(record.base) \cup {new}) = Cardinality(AttemptsAt(record.base)) + 1
    BY <2>1, FittingNumbers, FS_AddElement
  <2>. QED
    BY <1>3, <2>2, FittingNumbers, EngineAssumption DEF Fits
<1>5. ASSUME NEW n \in DOMAIN attempts'
      PROVE  Cardinality(AttemptsAt(attempts[n].base)') <= MaxPerRevision
  <2>1. CASE attempts'[n].base = record.base
    BY <1>4, <2>1
  <2>2. CASE attempts'[n].base # record.base
    <3>1. n \in DOMAIN attempts /\ attempts'[n] = attempts[n]
      BY <1>1, <2>2
    <3>2. AttemptsAt(attempts[n].base)' = AttemptsAt(attempts[n].base)
      BY <1>3, <2>2, <3>1
    <3>. QED
      BY <3>1, <3>2 DEF Budgets
  <2>. QED
    BY <2>1, <2>2
<1>. QED
  BY <1>2, <1>5

(* What writes no record and carries no other attempt keeps the budgets. *)
LEMMA BudgetsStand ==
  ASSUME Budgets, attempts' = attempts,
         intent'.kind # "none" /\ intent'.attempt \notin DOMAIN attempts => Fits(intent'.base),
         \A q \in Procs : pc'[q] \in Unfinished => Fits(job'[q].base)
  PROVE  Budgets'
BY DEF Budgets, Fits, AttemptsAt

LEMMA BudgetsBegin ==
  ASSUME RunInv, Budgets, NEW p \in Procs, BeginStep(p) \/ BeginRecover(p)
  PROVE  Budgets'
<1>0. TypeInv /\ Mutex
  BY DEF RunInv
<1>1. CASE BeginStep(p)
  <2>. DEFINE locals == [NoJob EXCEPT !.attempt = NextAttempt, !.base = state.rev,
                            !.seen = observation, !.control = TRUE, !.intact = TRUE]
  <2>1. /\ job'[p] = locals
        /\ \A q \in Procs : q # p => pc'[q] = "idle"
    BY <1>0, <1>1, Starts DEF BeginStep
  <2>2. job'[p].base = state.rev /\ intent'.base = state.rev /\ attempts' = attempts
    BY <1>1, <2>1 DEF BeginStep, NoJob
  <2>3. Fits(state.rev)
    BY <1>1 DEF BeginStep, AttemptsAdmit, Fits
  <2>. HIDE DEF locals
  <2>. QED
    BY <2>1, <2>2, <2>3, BudgetsStand DEF Unfinished, Working
<1>2. CASE BeginRecover(p)
  <2>. DEFINE where == IF NeedsRecord THEN "r_record" ELSE AfterRecord(AppliesObservation)
              locals == [NoJob EXCEPT !.attempt = intent.attempt, !.base = intent.base,
                            !.intact = (intent.kind = "sound"),
                            !.apply = AppliesObservation]
  <2>1. where \in {"r_record", "r_observation", "r_recovery"} /\ locals.base = intent.base
    BY DEF AfterRecord, NoJob
  <2>2. Acquire(p, where, locals)
    BY <1>2 DEF BeginRecover
  <2>3. where = "r_record" => intent.kind # "none" /\ intent.attempt \notin DOMAIN attempts
    BY DEF AfterRecord, NeedsRecord
  <2>4. UNCHANGED <<attempts, intent>>
    BY <1>2 DEF BeginRecover, disk
  <2>. HIDE DEF where, locals
  <2>5. /\ pc'[p] = where /\ job'[p] = locals
        /\ \A q \in Procs : q # p => pc'[q] = "idle"
    BY <1>0, <2>1, <2>2, Starts
  <2>. QED
    BY <2>1, <2>3, <2>4, <2>5, BudgetsStand DEF Budgets, Unfinished, Working
<1>. QED
  BY <1>1, <1>2

LEMMA BudgetsWrite ==
  ASSUME RunInv, Budgets, NEW p \in Procs, WriteRecord(p) \/ WriteInterrupted(p)
  PROVE  Budgets'
<1>0. TypeInv /\ Mutex /\ Numbering /\ IntentOfJob
  BY DEF RunInv
<1>1. PICK record : PutRecord(job[p].attempt, record) /\ record.base = job[p].base
  BY DEF WriteRecord, WriteInterrupted, StepRecord, InterruptedRecord
<1>2. PICK where \in {"mark", "clear", "r_observation", "r_recovery"} : Goto(p, where, job[p])
  BY DEF WriteRecord, WriteInterrupted, AfterRecord
<1>3. pc[p] \in {"record", "r_record"} /\ UNCHANGED <<intent, lock>>
  BY DEF WriteRecord, WriteInterrupted
<1>4. \A q \in Procs : pc'[q] \notin Unfinished
  BY <1>0, <1>2, <1>3, Moves DEF Unfinished, Working
<1>5. job[p].attempt = NextAttempt /\ Fits(job[p].base)
  BY <1>0, <1>3 DEF Numbering, Budgets, Unfinished
<1>6. /\ Cardinality(DOMAIN attempts') <= MaxSteps
      /\ \A n \in DOMAIN attempts' :
           Cardinality(AttemptsAt(attempts[n].base)') <= MaxPerRevision
  BY <1>0, <1>1, <1>5, BudgetsRecord
<1>7. intent'.kind # "none" => intent'.attempt \in DOMAIN attempts'
  BY <1>0, <1>1, <1>3 DEF PutRecord, IntentOfJob, StepPcs
<1>. QED
  BY <1>4, <1>6, <1>7 DEF Budgets

LEMMA BudgetsKept ==
  ASSUME RunInv, Budgets, [Next]_vars
  PROVE  Budgets'
<1>1. CASE \E p \in Procs : BeginStep(p) \/ BeginRecover(p)
  BY <1>1, BudgetsBegin
<1>2. CASE \E p \in Procs : WriteRecord(p) \/ WriteInterrupted(p)
  BY <1>2, BudgetsWrite
<1>3. CASE \A p \in Procs : ~BeginStep(p) /\ ~BeginRecover(p)
                              /\ ~WriteRecord(p) /\ ~WriteInterrupted(p)
  <2>1. /\ attempts' = attempts
        /\ \/ intent'.kind = "none"
           \/ /\ intent.kind # "none"
              /\ intent'.attempt = intent.attempt /\ intent'.base = intent.base
        /\ \A q \in Procs : pc'[q] \in Unfinished =>
             pc[q] \in Unfinished /\ job'[q].base = job[q].base
    BY <1>3, Carried
  <2>. QED
    BY <2>1, BudgetsStand DEF Budgets
<1>. QED
  BY <1>1, <1>2, <1>3

(* However often it is interrupted and recovered, a run starts no more       *)
(* workers than max_steps, and no more on top of one revision than           *)
(* max_attempts_per_revision: an attempt that nobody recorded yet counts.    *)
THEOREM BudgetsAreKept == Spec => []BudgetsHold
<1>1. Init => Budgets
  <2>. SUFFICES ASSUME Init PROVE Budgets
    OBVIOUS
  <2>1. DOMAIN attempts = {} /\ Cardinality(DOMAIN attempts) = 0
    BY FS_EmptySet DEF Init
  <2>. QED
    BY <2>1, EngineAssumption DEF Init, Budgets, NoIntent, Unfinished, Working
<1>2. RunInv /\ Budgets => BudgetsHold
  <2>. SUFFICES ASSUME RunInv, Budgets PROVE BudgetsHold
    OBVIOUS
  <2>0. TypeInv /\ MaxSteps \in Nat /\ MaxPerRevision \in Nat
    BY EngineAssumption DEF RunInv
  <2>. DEFINE opened == DOMAIN attempts \cup
                          (IF intent.kind = "none" THEN {} ELSE {intent.attempt})
              base(n) == IF n \in DOMAIN attempts THEN attempts[n].base ELSE intent.base
  <2>1. CASE intent.kind = "none" \/ intent.attempt \in DOMAIN attempts
    <3>1. opened = DOMAIN attempts
      BY <2>1
    <3>2. \A n \in opened : {m \in opened : base(m) = base(n)} = AttemptsAt(attempts[n].base)
      BY <3>1 DEF AttemptsAt
    <3>. QED
      BY <3>1, <3>2 DEF Budgets, BudgetsHold
  <2>2. CASE intent.kind # "none" /\ intent.attempt \notin DOMAIN attempts
    <3>. DEFINE new == intent.attempt
    <3>1. opened = DOMAIN attempts \cup {new} /\ new \notin DOMAIN attempts
      BY <2>2
    <3>2. Fits(intent.base)
      BY <2>2 DEF Budgets
    <3>3. Cardinality(opened) <= MaxSteps
      <4>1. Cardinality(DOMAIN attempts \cup {new}) = Cardinality(DOMAIN attempts) + 1
        BY <2>0, <2>2, FS_AddElement DEF TypeInv, FiniteAttempts
      <4>2. Cardinality(opened) = Cardinality(DOMAIN attempts) + 1
        BY <3>1, <4>1
      <4>. HIDE DEF opened
      <4>. QED
        BY <2>0, <3>2, <4>2, FittingNumbers DEF Fits
    <3>4. ASSUME NEW n \in opened, base(n) # intent.base
          PROVE  Cardinality({m \in opened : base(m) = base(n)}) <= MaxPerRevision
      <4>1. n \in DOMAIN attempts
        BY <3>1, <3>4
      <4>2. {m \in opened : base(m) = base(n)} = AttemptsAt(attempts[n].base)
        BY <3>1, <3>4, <4>1 DEF AttemptsAt
      <4>. QED
        BY <4>1, <4>2 DEF Budgets
    <3>5. ASSUME NEW n \in opened, base(n) = intent.base
          PROVE  Cardinality({m \in opened : base(m) = base(n)}) <= MaxPerRevision
      <4>1. {m \in opened : base(m) = base(n)} = AttemptsAt(intent.base) \cup {new}
        BY <3>1, <3>5 DEF AttemptsAt
      <4>2. new \notin AttemptsAt(intent.base)
        BY <3>1 DEF AttemptsAt
      <4>3. Cardinality(AttemptsAt(intent.base) \cup {new})
              = Cardinality(AttemptsAt(intent.base)) + 1
        BY <2>0, <4>2, FittingNumbers, FS_AddElement
      <4>. QED
        BY <2>0, <3>2, <4>1, <4>3, FittingNumbers DEF Fits
    <3>. QED
      BY <3>3, <3>4, <3>5 DEF BudgetsHold
  <2>. QED
    BY <2>1, <2>2
<1>. QED
  BY <1>1, <1>2, BudgetsKept, RunInvHolds, PTL DEF Spec

-----------------------------------------------------------------------------
(* The token cap.                                                          *)

(* The cap admits what is about to be dispatched; what was started has the   *)
(* number of a record, or the next one.                                      *)
Cap ==
  /\ CapHolds
  /\ \A m \in started : m \in Nat /\ m <= NextAttempt
  /\ \A p \in Procs : pc[p] = "dispatch" => CapAdmits

(* Only `step` leads to a dispatch, and only a dispatch starts a worker. *)
LEMMA Dispatched ==
  ASSUME TypeInv, [Next]_vars, \A p \in Procs : ~BeginStep(p)
  PROVE  /\ \A q \in Procs : pc'[q] = "dispatch" => pc[q] = "dispatch"
         /\ started' = started \/ \E p \in Procs : Dispatch(p)
<1>1. ASSUME NEW p \in Procs, NEW q \in Procs, NEW where, where # "dispatch", NEW locals,
             Goto(p, where, locals), pc'[q] = "dispatch"
      PROVE  pc[q] = "dispatch"
  BY <1>1 DEF Goto, TypeInv, TypeOK
<1>2. ASSUME NEW p \in Procs, Begin(p) \/ ProbeReturns(p) \/ Abandon(p)
      PROVE  /\ \E where \in Pcs \ {"dispatch"} : \E locals : Goto(p, where, locals)
             /\ started' = started
  BY <1>2 DEF Begin, BeginRecover, BeginProbe, ProbeReturns, Abandon, Acquire, Return,
              AfterRecord, project, Pcs, RecoverPcs
<1>3. ASSUME NEW p \in Procs, RecoverAction(p)
      PROVE  /\ \E where \in Pcs \ {"dispatch"} : \E locals : Goto(p, where, locals)
             /\ started' = started
  BY <1>3 DEF RecoverAction, WriteInterrupted, AcceptObservation, AcceptState, AcceptFails,
              ClearRecovery, DropIntent, Return, AfterRecord, project, Pcs, RecoverPcs
<1>4. ASSUME NEW p \in Procs, StepAction(p)
      PROVE  /\ \E where \in Pcs \ {"dispatch"} : \E locals : Goto(p, where, locals)
             /\ started' = started \/ Dispatch(p)
  <2>1. CASE \/ Dispatch(p) \/ WorkerReturns(p) \/ ProviderFails(p)
             \/ RejectResponse(p) \/ AcceptResponse(p)
    BY <2>1 DEF Dispatch, WorkerReturns, ProviderFails, RejectResponse, AcceptResponse,
                Fails, Verify, project, Pcs, StepPcs
  <2>2. CASE \/ SaveArchive(p) \/ SaveObservation(p) \/ SaveState(p) \/ SaveFails(p)
             \/ WriteRecord(p) \/ MarkRecovery(p) \/ ClearIntent(p)
    BY <2>2 DEF SaveArchive, SaveObservation, SaveState, SaveFails, WriteRecord,
                MarkRecovery, ClearIntent, Fails, Return, project, Pcs, StepPcs
  <2>. QED
    BY <1>4, <2>1, <2>2 DEF StepAction
<1>5. ASSUME \/ \E kind \in EditKinds : Edit(kind)
             \/ \E n \in live : OrphanExits(n)
             \/ UNCHANGED vars
      PROVE  UNCHANGED <<pc, started>>
  BY <1>5 DEF Edit, OrphanExits, vars, project
<1>. QED
  BY <1>1, <1>2, <1>3, <1>4, <1>5 DEF Next

LEMMA CapKept ==
  ASSUME RunInv, Cap, [Next]_vars
  PROVE  Cap'
<1>0. TypeInv /\ Mutex /\ Numbering /\ TokenCap \in Nat
  BY EngineAssumption DEF RunInv
<1>1. Cardinality(DOMAIN attempts) \in Nat /\ NextAttempt \in Nat
  BY <1>0, FS_CardinalityType, NextAttemptType DEF TypeInv, FiniteAttempts
<1>2. CASE \E p \in Procs : BeginStep(p)
  <2>1. PICK p \in Procs : BeginStep(p)
    BY <1>2
  <2>2. \A q \in Procs : q # p => pc'[q] = "idle"
    BY <1>0, <2>1, Starts DEF BeginStep
  <2>3. CapAdmits /\ UNCHANGED <<attempts, started>>
    BY <2>1 DEF BeginStep
  <2>4. CapAdmits' /\ NextAttempt' = NextAttempt
    BY <2>3 DEF CapAdmits, NextAttempt
  <2>. QED
    BY <2>2, <2>3, <2>4 DEF Cap, CapHolds
<1>3. CASE \E p \in Procs : Dispatch(p)
  <2>1. PICK p \in Procs : Dispatch(p)
    BY <1>3
  <2>2. /\ pc[p] = "dispatch" /\ attempts' = attempts
        /\ started' = started \cup {job[p].attempt}
        /\ Goto(p, "running", job[p]) /\ lock' = lock
    BY <2>1 DEF Dispatch, disk
  <2>3. \A q \in Procs : pc'[q] # "dispatch"
    BY <1>0, <2>2, Moves
  <2>4. job[p].attempt = NextAttempt /\ NextAttempt' = NextAttempt /\ CapAdmits
    BY <1>0, <2>2 DEF Numbering, Working, NextAttempt, Cap
  <2>5. TokenCap # 0 =>
          /\ NextAttempt <= TokenCap \/ NextAttempt = 1
          /\ \A n \in DOMAIN attempts : attempts[n].known
    <3>1. CASE DOMAIN attempts = {}
      BY <3>1, FS_EmptySet DEF NextAttempt
    <3>2. CASE DOMAIN attempts # {}
      BY <1>0, <1>1, <2>4, <3>2 DEF CapAdmits, NextAttempt
    <3>. QED
      BY <3>1, <3>2
  <2>6. CapHolds'
    BY <2>2, <2>4, <2>5 DEF Cap, CapHolds
  <2>. QED
    BY <1>1, <2>2, <2>3, <2>4, <2>6 DEF Cap
<1>4. CASE \E p \in Procs : WriteRecord(p) \/ WriteInterrupted(p)
  <2>1. PICK p \in Procs : WriteRecord(p) \/ WriteInterrupted(p)
    BY <1>4
  <2>2. PICK record : PutRecord(job[p].attempt, record)
    BY <2>1 DEF WriteRecord, WriteInterrupted
  <2>3. PICK where \in {"mark", "clear", "r_observation", "r_recovery"} : Goto(p, where, job[p])
    BY <2>1 DEF WriteRecord, WriteInterrupted, AfterRecord
  <2>4. pc[p] \in {"record", "r_record"} /\ UNCHANGED <<lock, started>>
    BY <2>1 DEF WriteRecord, WriteInterrupted, project
  <2>5. \A q \in Procs : pc'[q] # "dispatch"
    BY <1>0, <2>3, <2>4, Moves
  <2>6. job[p].attempt = NextAttempt
    BY <1>0, <2>4 DEF Numbering
  <2>7. /\ DOMAIN attempts' = DOMAIN attempts \cup {NextAttempt}
        /\ Cardinality(DOMAIN attempts') = Cardinality(DOMAIN attempts) + 1
        /\ \A m \in DOMAIN attempts : attempts'[m] = attempts[m]
    BY <1>0, <2>2, <2>6, NumberedRecord
  <2>8. NextAttempt' = NextAttempt + 1
    BY <1>1, <2>7 DEF NextAttempt
  <2>9. \A m \in started : ~(NextAttempt < m)
    BY <1>1 DEF Cap
  <2>10. CapHolds'
    BY <2>4, <2>7, <2>9 DEF Cap, CapHolds
  <2>. QED
    BY <1>1, <2>4, <2>5, <2>8, <2>10 DEF Cap
<1>5. CASE \A p \in Procs : ~BeginStep(p) /\ ~Dispatch(p)
                              /\ ~WriteRecord(p) /\ ~WriteInterrupted(p)
  <2>1. /\ started' = started
        /\ \A q \in Procs : pc'[q] = "dispatch" => pc[q] = "dispatch"
    BY <1>0, <1>5, Dispatched
  <2>2. attempts' = attempts
    <3>1. CASE \E p \in Procs : BeginRecover(p)
      BY <3>1 DEF BeginRecover, disk
    <3>2. CASE \A p \in Procs : ~BeginRecover(p)
      BY <1>5, <3>2, Carried
    <3>. QED
      BY <3>1, <3>2
  <2>3. CapAdmits' = CapAdmits /\ NextAttempt' = NextAttempt
    BY <2>2 DEF CapAdmits, NextAttempt
  <2>. QED
    BY <2>1, <2>2, <2>3 DEF Cap, CapHolds
<1>. QED
  BY <1>2, <1>3, <1>4, <1>5

(* Under a token cap no worker is started after an attempt whose usage is    *)
(* unknown, nor once the recorded usage reached the cap, whatever was        *)
(* interrupted, recovered or damaged in between.                            *)
THEOREM CapIsKept == Spec => []CapHolds
<1>1. Init => Cap
  BY DEF Init, Cap, CapHolds
<1>2. Cap => CapHolds
  BY DEF Cap
<1>. QED
  BY <1>1, <1>2, CapKept, RunInvHolds, PTL DEF Spec

-----------------------------------------------------------------------------
(* Damage without a crash.  A worker that deletes its own intent is found    *)
(* out, as long as the step that started it lives to compare.               *)

(* Every worker was recorded or is that of the step at work. *)
Attended ==
  /\ \A n \in started :
       \/ n \in DOMAIN attempts
       \/ \E p \in Procs : pc[p] \in Working \cup {"record"} /\ job[p].attempt = n
  /\ live # {} => \E p \in Procs : pc[p] = "running" /\ live = {job[p].attempt}

(* Edits that nobody accepted are on their way into recovery.json, or there. *)
EditsNoted ==
  /\ lock = NoProc /\ Unaccepted => recovery.some
  /\ \A p \in Procs :
       /\ pc[p] \in {"dispatch", "probing", "r_recovery", "r_intent"} => ~Unaccepted
       /\ pc[p] \in {"r_record", "r_observation", "r_state"} /\ Unaccepted => recovery.some
       /\ pc[p] \in {"archive", "observation", "state"} /\ Unaccepted => job[p].edited
       /\ pc[p] = "record" /\ job[p].outcome # "recovery_required" => ~Unaccepted
       /\ pc[p] = "clear" /\ Unaccepted => recovery.some
       /\ pc[p] = "r_record" /\ ~job[p].apply => ~Unaccepted

LEMMA AttendedBegin ==
  ASSUME RunInv, Attended, NEW p \in Procs, Begin(p)
  PROVE  Attended'
<1>1. PICK where \in Pcs \ {"idle"} : \E locals : Acquire(p, where, locals)
  BY DEF Begin, BeginStep, BeginRecover, BeginProbe, AfterRecord, Pcs, StepPcs, RecoverPcs
<1>2. \A q \in Procs : pc[q] = "idle"
  BY <1>1, Starts DEF RunInv
<1>3. UNCHANGED <<attempts, started, live>>
  BY DEF Begin, BeginStep, BeginRecover, BeginProbe, disk, project
<1>. QED
  BY <1>2, <1>3 DEF Attended, Working

LEMMA AttendedWork ==
  ASSUME RunInv, Attended, NEW p \in Procs, StepAction(p)
  PROVE  Attended'
<1>0. TypeInv /\ Mutex
  BY DEF RunInv
<1>1. CASE \/ Dispatch(p) \/ WorkerReturns(p)
           \/ ProviderFails(p) \/ RejectResponse(p) \/ AcceptResponse(p)
           \/ SaveArchive(p) \/ SaveObservation(p) \/ SaveState(p) \/ SaveFails(p)
  <2>1. UNCHANGED <<attempts, lock>> /\ pc[p] \in Working
    BY <1>0, <1>1, Judges DEF disk, SaveArchive, SaveObservation, SaveState, SaveFails, Working
  <2>2. PICK where \in Working \cup {"record"}, locals \in Job :
          Goto(p, where, locals) /\ locals.attempt = job[p].attempt
    BY <1>0, <1>1, Judges, Saves, SavesState
  <2>3. /\ pc'[p] = where /\ job'[p] = locals
        /\ \A q \in Procs : q # p => pc[q] = "idle" /\ pc'[q] = "idle"
    BY <1>0, <2>1, <2>2, Moves DEF Working
  <2>4. CASE Dispatch(p)
    <3>1. /\ live' = live \cup {job[p].attempt} /\ started' = started \cup {job[p].attempt}
          /\ pc'[p] = "running" /\ pc[p] = "dispatch"
      BY <1>0, <2>1, <2>4, Moves DEF Dispatch
    <3>2. live = {}
      BY <2>3, <3>1 DEF Attended
    <3>. QED
      BY <2>1, <2>2, <2>3, <3>1, <3>2 DEF Attended, Working
  <2>5. CASE ~Dispatch(p)
    <3>1. live' = {} /\ started' = started
      <4>1. CASE WorkerReturns(p)
        BY <2>3, <4>1 DEF Attended, WorkerReturns
      <4>2. CASE ~WorkerReturns(p)
        <5>1. pc[p] # "running" /\ UNCHANGED <<live, started>>
          BY <1>1, <2>5, <4>2 DEF ProviderFails, RejectResponse, AcceptResponse, Verify,
             SaveArchive, SaveObservation, SaveState, SaveFails, project
        <5>. QED
          BY <2>3, <5>1 DEF Attended
      <4>. QED
        BY <4>1, <4>2
    <3>. QED
      BY <2>1, <2>2, <2>3, <3>1 DEF Attended, Working
  <2>. QED
    BY <2>4, <2>5
<1>2. CASE WriteRecord(p)
  <2>1. /\ pc[p] = "record" /\ UNCHANGED <<started, live>>
        /\ DOMAIN attempts' = DOMAIN attempts \cup {job[p].attempt}
    BY <1>2 DEF WriteRecord, PutRecord, project
  <2>2. \A q \in Procs : q # p => pc[q] = "idle"
    BY <1>0, <2>1, EngineAssumption DEF Mutex
  <2>. QED
    BY <2>1, <2>2 DEF Attended, Working
<1>3. CASE MarkRecovery(p) \/ ClearIntent(p)
  <2>1. pc[p] \in {"mark", "clear"} /\ UNCHANGED <<attempts, started, live>>
    BY <1>3 DEF MarkRecovery, ClearIntent, project
  <2>2. \A q \in Procs : q # p => pc[q] = "idle"
    BY <1>0, <2>1, EngineAssumption DEF Mutex
  <2>. QED
    BY <2>1, <2>2 DEF Attended, Working
<1>. QED
  BY <1>1, <1>2, <1>3 DEF StepAction

LEMMA AttendedElse ==
  ASSUME RunInv, Attended, MaxFaults = 0,
         \/ \E p \in Procs : RecoverAction(p) \/ ProbeReturns(p) \/ Abandon(p)
         \/ \E kind \in EditKinds : Edit(kind)
         \/ \E n \in live : OrphanExits(n)
  PROVE  Attended'
<1>0. TypeInv /\ Mutex /\ faults \in Nat
  BY DEF RunInv, TypeInv, TypeOK
<1>1. ASSUME NEW p \in Procs, RecoverAction(p) \/ ProbeReturns(p)
      PROVE  Attended'
  <2>1. /\ pc[p] \in RecoverPcs \cup {"probing"} /\ UNCHANGED <<started, live>>
        /\ DOMAIN attempts \subseteq DOMAIN attempts'
    BY <1>1 DEF RecoverAction, WriteInterrupted, PutRecord, AcceptObservation, AcceptState,
         AcceptFails, ClearRecovery, DropIntent, ProbeReturns, project, RecoverPcs
  <2>2. \A q \in Procs : q # p => pc[q] = "idle"
    BY <1>0, <2>1, EngineAssumption DEF Mutex, RecoverPcs
  <2>. QED
    BY <2>1, <2>2 DEF Attended, Working, RecoverPcs
<1>2. ASSUME NEW p \in Procs, Abandon(p) PROVE FALSE
  BY <1>0, <1>2 DEF Abandon
<1>3. ASSUME NEW kind \in EditKinds, Edit(kind) PROVE Attended'
  BY <1>3 DEF Edit, Attended
<1>4. ASSUME NEW n \in live, OrphanExits(n) PROVE FALSE
  BY <1>4 DEF OrphanExits, Attended
<1>. QED
  BY <1>1, <1>2, <1>3, <1>4

LEMMA NotedClean ==
  ASSUME ~Unaccepted'
  PROVE  EditsNoted'
BY DEF EditsNoted

LEMMA NotedBegin ==
  ASSUME RunInv, EditsNoted, NEW p \in Procs, Begin(p)
  PROVE  EditsNoted'
<1>0. TypeInv /\ Mutex
  BY DEF RunInv
<1>1. CASE BeginStep(p) \/ BeginProbe(p) \/ ~Unaccepted
  <2>1. ~Unaccepted
    BY <1>1 DEF BeginStep, BeginProbe, Acquire, RecoveryPending, EditsNoted
  <2>2. ~Unaccepted'
    BY <2>1 DEF Begin, BeginStep, BeginRecover, BeginProbe, project, Unaccepted
  <2>. QED
    BY <2>2, NotedClean
<1>2. CASE BeginRecover(p) /\ Unaccepted
  <2>. DEFINE where == IF NeedsRecord THEN "r_record" ELSE AfterRecord(AppliesObservation)
              locals == [NoJob EXCEPT !.attempt = intent.attempt, !.base = intent.base,
                            !.intact = (intent.kind = "sound"),
                            !.apply = AppliesObservation]
  <2>1. Acquire(p, where, locals) /\ UNCHANGED <<recovery, Unaccepted>>
    BY <1>2 DEF BeginRecover, disk, project, Unaccepted
  <2>2. AppliesObservation
    BY <1>2, <2>1 DEF Acquire, EditsNoted, AppliesObservation
  <2>3. where \in {"r_record", "r_observation"} /\ locals.apply
    BY <2>2 DEF AfterRecord, NoJob
  <2>. HIDE DEF where, locals
  <2>4. /\ pc'[p] = where /\ job'[p] = locals /\ lock' = p
        /\ \A q \in Procs : q # p => pc'[q] = "idle"
    BY <1>0, <2>1, <2>3, Starts DEF Acquire
  <2>. QED
    BY <1>2, <2>1, <2>3, <2>4, EngineAssumption DEF Acquire, EditsNoted
<1>. QED
  BY <1>1, <1>2 DEF Begin

LEMMA NotedJudge ==
  ASSUME RunInv, EditsNoted, ShownIsAccepted, NEW p \in Procs,
         \/ Dispatch(p) \/ WorkerReturns(p)
         \/ ProviderFails(p) \/ RejectResponse(p) \/ AcceptResponse(p)
  PROVE  EditsNoted'
<1>0. TypeInv /\ Mutex /\ job[p] \in Job
  BY DEF RunInv, TypeInv, TypeOK
<1>1. lock' = lock /\ pc[p] \in Working /\ pc[p] # "idle" /\ lock' = p /\ p # NoProc
  BY <1>0, Judges, EngineAssumption DEF Working, Mutex
<1>2. SUFFICES ASSUME Unaccepted'
               PROVE  \A q \in Procs :
                        /\ pc'[q] \notin {"dispatch", "probing", "r_recovery", "r_intent",
                                          "clear", "r_record", "r_observation", "r_state"}
                        /\ pc'[q] \in {"archive", "observation", "state"} => job'[q].edited
                        /\ pc'[q] = "record" => job'[q].outcome = "recovery_required"
  BY <1>1, NotedClean DEF EditsNoted
<1>3. CASE Dispatch(p)
  <2>1. pc[p] = "dispatch" /\ Unaccepted' = Unaccepted
    BY <1>3 DEF Dispatch, Unaccepted
  <2>. QED
    BY <1>2, <2>1 DEF EditsNoted
<1>4. CASE WorkerReturns(p)
  <2>1. \E locals : Goto(p, "judge", locals)
    BY <1>4 DEF WorkerReturns
  <2>2. /\ pc'[p] = "judge"
        /\ \A q \in Procs : q # p => pc'[q] = "idle"
    BY <1>0, <1>1, <2>1, Moves
  <2>. QED
    BY <2>2
<1>5. CASE ProviderFails(p)
  <2>. DEFINE locals == IF pc[p] = "dispatch" THEN Compared(p) ELSE job[p]
  <2>1. PICK gitDown \in BOOLEAN : Fails(p, locals, "provider_failed", gitDown, Changed)
    BY <1>5 DEF ProviderFails
  <2>2. locals \in Job
    BY <1>0, ComparedType
  <2>3. Unaccepted' => Changed
    BY <1>5, Seen DEF ProviderFails, project, Unaccepted
  <2>. HIDE DEF locals
  <2>. QED
    BY <1>0, <1>1, <1>2, <2>1, <2>2, <2>3, FailsBlock
<1>6. CASE RejectResponse(p)
  <2>1. PICK gitDown \in BOOLEAN, left \in Contents :
          Verify(left) /\ Fails(p, job[p], "invalid_transition", gitDown, Changed')
    BY <1>6 DEF RejectResponse
  <2>2. Unaccepted' => Changed'
    BY <1>6, <2>1, Seen DEF RejectResponse, Verify
  <2>. QED
    BY <1>0, <1>1, <1>2, <2>1, <2>2, FailsBlock
<1>7. CASE AcceptResponse(p)
  <2>1. PICK gitDown \in BOOLEAN, left \in Contents, next \in Statuses,
             where \in {"archive", "observation"} :
          Verify(left) /\ Goto(p, where, [job[p] EXCEPT !.status = next,
                                   !.edited = gitDown \/ Changed'])
    BY <1>7 DEF AcceptResponse
  <2>. DEFINE locals == [job[p] EXCEPT !.status = next,
                           !.edited = gitDown \/ Changed']
  <2>2. locals.edited
    <3>1. Unaccepted' => Changed'
      BY <1>7, <2>1, Seen DEF AcceptResponse, Verify
    <3>. QED
      BY <1>0, <1>2, <3>1 DEF Job
  <2>. HIDE DEF locals
  <2>3. /\ pc'[p] = where /\ job'[p] = locals
        /\ \A q \in Procs : q # p => pc'[q] = "idle"
    BY <1>0, <1>1, <2>1, Moves DEF locals
  <2>. QED
    BY <2>2, <2>3
<1>. QED
  BY <1>3, <1>4, <1>5, <1>6, <1>7

LEMMA NotedSave ==
  ASSUME RunInv, EditsNoted, NEW p \in Procs,
         \/ SaveArchive(p) \/ SaveObservation(p) \/ SaveState(p) \/ SaveFails(p)
         \/ WriteRecord(p) \/ MarkRecovery(p) \/ ClearIntent(p)
  PROVE  EditsNoted'
<1>0. /\ TypeInv /\ Mutex /\ job[p] \in Job
      /\ pc[p] # "idle" => lock = p /\ p # NoProc
  BY EngineAssumption DEF RunInv, TypeInv, TypeOK, Mutex
<1>1. CASE SaveState(p) \/ ~Unaccepted
  <2>1. ~Unaccepted'
    BY <1>1 DEF SaveArchive, SaveObservation, SaveState, SaveFails, WriteRecord,
                MarkRecovery, ClearIntent, project, Unaccepted
  <2>. QED
    BY <2>1, NotedClean
<1>2. CASE SaveArchive(p) \/ SaveObservation(p)
  <2>1. PICK where \in {"observation", "state"}, locals \in Job :
          Goto(p, where, locals) /\ locals.edited = job[p].edited
    <3>1. /\ job[p].edited = [job[p] EXCEPT !.seen = observation].edited
          /\ [job[p] EXCEPT !.seen = observation] \in Job
      BY <1>0 DEF Job, TypeInv, TypeOK
    <3>. QED
      BY <1>0, <1>2, <3>1 DEF SaveArchive, SaveObservation
  <2>2. UNCHANGED <<lock, Unaccepted>> /\ pc[p] \in {"archive", "observation"}
    BY <1>2 DEF SaveArchive, SaveObservation, project, Unaccepted
  <2>3. /\ pc'[p] = where /\ job'[p] = locals
        /\ \A q \in Procs : q # p => pc'[q] = "idle"
    BY <1>0, <2>1, <2>2, Moves
  <2>. QED
    BY <1>0, <2>1, <2>2, <2>3 DEF EditsNoted
<1>3. CASE SaveFails(p)
  <2>1. /\ UNCHANGED <<lock, Unaccepted>> /\ pc[p] \in {"archive", "observation", "state"}
        /\ Fails(p, job[p], "invalid_transition", FALSE, job[p].edited)
    BY <1>3 DEF SaveFails, project, Unaccepted
  <2>2. Unaccepted' => job[p].edited
    BY <2>1 DEF EditsNoted
  <2>3. /\ pc'[p] = "record"
        /\ Unaccepted' => job'[p].outcome = "recovery_required"
        /\ \A q \in Procs : q # p => pc'[q] = "idle"
    BY <1>0, <2>1, <2>2, FailsBlock
  <2>. QED
    BY <1>0, <2>1, <2>3 DEF EditsNoted
<1>4. CASE WriteRecord(p) /\ Unaccepted
  <2>. DEFINE where == IF job[p].outcome = "recovery_required" THEN "mark" ELSE "clear"
  <2>1. /\ Goto(p, where, job[p]) /\ pc[p] = "record" /\ lock' = lock
    BY <1>4 DEF WriteRecord
  <2>2. where = "mark"
    BY <1>4, <2>1 DEF EditsNoted
  <2>. HIDE DEF where
  <2>3. /\ pc'[p] = "mark"
        /\ \A q \in Procs : q # p => pc'[q] = "idle"
    BY <1>0, <2>1, <2>2, Moves
  <2>. QED
    BY <1>0, <2>1, <2>3 DEF EditsNoted
<1>5. CASE MarkRecovery(p)
  <2>1. /\ Goto(p, "clear", job[p]) /\ pc[p] = "mark" /\ lock' = lock /\ recovery'.some
    BY <1>5 DEF MarkRecovery
  <2>2. /\ pc'[p] = "clear"
        /\ \A q \in Procs : q # p => pc'[q] = "idle"
    BY <1>0, <2>1, Moves
  <2>. QED
    BY <2>1, <2>2 DEF EditsNoted
<1>6. CASE ClearIntent(p)
  <2>1. pc[p] = "clear" /\ Return(p) /\ UNCHANGED <<recovery, Unaccepted>>
    BY <1>6 DEF ClearIntent, project, Unaccepted
  <2>2. \A q \in Procs : pc'[q] = "idle"
    BY <1>0, <2>1, Ends
  <2>. QED
    BY <2>1, <2>2 DEF EditsNoted
<1>. QED
  BY <1>1, <1>2, <1>3, <1>4, <1>5, <1>6

LEMMA NotedElse ==
  ASSUME RunInv, Attended, EditsNoted, MaxFaults = 0,
         \/ \E p \in Procs : RecoverAction(p) \/ ProbeReturns(p) \/ Abandon(p)
         \/ \E kind \in EditKinds : Edit(kind)
         \/ \E n \in live : OrphanExits(n)
  PROVE  EditsNoted'
<1>0. TypeInv /\ Mutex /\ faults \in Nat
  BY DEF RunInv, TypeInv, TypeOK
<1>1. ASSUME NEW p \in Procs, RecoverAction(p) \/ ProbeReturns(p)
      PROVE  EditsNoted'
  <2>1. CASE \/ AcceptState(p) \/ ClearRecovery(p) \/ DropIntent(p) \/ ProbeReturns(p)
             \/ ~Unaccepted
    <3>1. ~Unaccepted'
      BY <1>1, <2>1 DEF RecoverAction, WriteInterrupted, AcceptObservation, AcceptState,
           AcceptFails, ClearRecovery, DropIntent, ProbeReturns, project, Unaccepted, EditsNoted
    <3>. QED
      BY <3>1, NotedClean
  <2>2. CASE AcceptFails(p) /\ Unaccepted
    <3>1. /\ pc[p] \in {"r_observation", "r_state"} /\ Return(p)
          /\ UNCHANGED <<recovery, Unaccepted>>
      BY <2>2 DEF AcceptFails, project, Unaccepted
    <3>2. \A q \in Procs : pc'[q] = "idle"
      BY <1>0, <3>1, Ends
    <3>. QED
      BY <2>2, <3>1, <3>2 DEF EditsNoted
  <2>3. CASE (WriteInterrupted(p) \/ AcceptObservation(p)) /\ Unaccepted
    <3>1. /\ pc[p] \in {"r_record", "r_observation"} /\ UNCHANGED <<lock, recovery>>
          /\ \E where \in {"r_observation", "r_state"} : \E locals : Goto(p, where, locals)
      BY <2>3 DEF WriteInterrupted, AcceptObservation, AfterRecord, EditsNoted
    <3>2. /\ pc'[p] \in {"r_observation", "r_state"} /\ lock' = p /\ p # NoProc
          /\ \A q \in Procs : q # p => pc'[q] = "idle"
      BY <1>0, <3>1, Moves, EngineAssumption DEF Mutex
    <3>. QED
      BY <2>3, <3>1, <3>2 DEF EditsNoted
  <2>. QED
    BY <1>1, <2>1, <2>2, <2>3 DEF RecoverAction
<1>2. ASSUME NEW p \in Procs, Abandon(p) PROVE FALSE
  BY <1>0, <1>2 DEF Abandon
<1>3. ASSUME NEW kind \in EditKinds, Edit(kind)
      PROVE  EditsNoted'
  <2>1. PICK p \in Procs : pc[p] = "running"
    BY <1>3 DEF Edit, Attended
  <2>2. lock = p /\ p # NoProc /\ \A q \in Procs : q # p => pc[q] = "idle"
    BY <1>0, <2>1, EngineAssumption DEF Mutex
  <2>3. UNCHANGED <<lock, pc, job>>
    BY <1>3 DEF Edit
  <2>. QED
    BY <2>1, <2>2, <2>3 DEF EditsNoted
<1>4. ASSUME NEW n \in live, OrphanExits(n) PROVE FALSE
  BY <1>4 DEF OrphanExits, Attended
<1>. QED
  BY <1>1, <1>2, <1>3, <1>4

(* Neither a damaged intent nor any crash hides a worker that was started,   *)
(* or lets another start over what it left.  The two do not add up: a worker *)
(* may damage its intent in any way as long as no process is killed and no   *)
(* write fails; with crashes and I/O errors no worker may delete it.         *)
THEOREM DamageIsSeen ==
  ASSUME ("delete" \notin WorkerEdits /\ StopsOldWorker) \/ MaxFaults = 0
  PROVE  Spec => []DamageHidesNothing
<1>1. CASE "delete" \notin WorkerEdits /\ StopsOldWorker
  <2>1. NoLostDispatch /\ NoDispatchOverUnacceptedEdits => DamageHidesNothing
    BY DEF DamageHidesNothing
  <2>. QED
    BY <1>1, <2>1, NoDispatchLost, NoWorkerOverUnacceptedEdits, PTL
<1>2. CASE MaxFaults = 0
  <2>1. Init => Attended /\ EditsNoted /\ ShownIsAccepted
    BY DEF Init, Attended, EditsNoted, Unaccepted, ShownIsAccepted
  <2>2. RunInv /\ Attended /\ EditsNoted /\ ShownIsAccepted /\ [Next]_vars
          => (Attended /\ EditsNoted /\ ShownIsAccepted)'
    <3>1. ASSUME Attended, EditsNoted, UNCHANGED vars
          PROVE  Attended' /\ EditsNoted'
      BY <3>1 DEF vars, disk, project, Attended, EditsNoted, Unaccepted
    <3>2. ASSUME RunInv, Attended, EditsNoted, ShownIsAccepted, Next
          PROVE  Attended' /\ EditsNoted'
      <4>1. ASSUME NEW p \in Procs, Begin(p) \/ StepAction(p)
            PROVE  Attended' /\ EditsNoted'
        BY <3>2, <4>1, AttendedBegin, AttendedWork, NotedBegin, NotedJudge, NotedSave
           DEF StepAction
      <4>. QED
        BY <1>2, <3>2, <4>1, AttendedElse, NotedElse DEF Next
    <3>3. lock = NoProc /\ Unaccepted /\ EditsNoted => RecoveryPending
      BY DEF EditsNoted, RecoveryPending
    <3>. QED
      BY <3>1, <3>2, <3>3, ShownKept
  <2>3. Attended /\ EditsNoted => DamageHidesNothing
    <3>1. Attended => NoLostDispatch
      BY DEF Attended, NoLostDispatch, Working, StepPcs
    <3>2. EditsNoted => NoDispatchOverUnacceptedEdits
      BY DEF EditsNoted, NoDispatchOverUnacceptedEdits
    <3>. QED
      BY <3>1, <3>2 DEF DamageHidesNothing
  <2>. QED
    BY <2>1, <2>2, <2>3, RunInvHolds, PTL DEF Spec
<1>. QED
  BY <1>1, <1>2
=============================================================================
