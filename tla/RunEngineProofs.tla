-------------------------- MODULE RunEngineProofs --------------------------
(***************************************************************************)
(* Theorems about RunEngine, for every value of its constants.             *)
(***************************************************************************)
EXTENDS RunEngine, TLAPS, FiniteSetTheorems

-----------------------------------------------------------------------------
(* Type correctness.  The only numbers that are computed are the attempt    *)
(* number, the successor of a finite cardinality, and revisions; so the     *)
(* finiteness of the attempt directory goes with the types.                 *)

FiniteAttempts == IsFiniteSet(DOMAIN attempts)

TypeInv == TypeOK /\ FiniteAttempts

(* Every action but the ones that write a record leaves the directory alone. *)
LEMMA PutRecordType ==
  ASSUME TypeInv, NEW n \in Nat, NEW record \in Attempt, PutRecord(n, record)
  PROVE  /\ DOMAIN attempts' = DOMAIN attempts \cup {n}
         /\ attempts' \in [DOMAIN attempts' -> Attempt]
         /\ DOMAIN attempts' \subseteq Nat
         /\ FiniteAttempts'
<1>1. DOMAIN attempts' = DOMAIN attempts \cup {n}
  BY DEF PutRecord
<1>2. attempts' \in [DOMAIN attempts \cup {n} -> Attempt]
  BY DEF PutRecord, TypeInv, TypeOK
<1>3. IsFiniteSet(DOMAIN attempts \cup {n})
  BY FS_AddElement DEF TypeInv, FiniteAttempts
<1>. QED
  BY <1>1, <1>2, <1>3 DEF TypeInv, TypeOK, FiniteAttempts

LEMMA GotoType ==
  ASSUME TypeInv, NEW p \in Procs, NEW where \in Pcs, NEW locals \in Job,
         Goto(p, where, locals)
  PROVE  pc' \in [Procs -> Pcs] /\ job' \in [Procs -> Job]
BY DEF Goto, TypeInv, TypeOK

LEMMA NoJobType == NoJob \in Job
BY DEF NoJob, Job, Foreign, Statuses, Outcomes

LEMMA ReturnType ==
  ASSUME TypeInv, NEW p \in Procs, Return(p)
  PROVE  /\ pc' \in [Procs -> Pcs] /\ job' \in [Procs -> Job]
         /\ lock' \in Procs \cup {NoProc}
BY GotoType, NoJobType DEF Return, Pcs

LEMMA AcquireType ==
  ASSUME TypeInv, NEW p \in Procs, NEW where \in Pcs, NEW locals \in Job,
         Acquire(p, where, locals)
  PROVE  /\ pc' \in [Procs -> Pcs] /\ job' \in [Procs -> Job]
         /\ lock' \in Procs \cup {NoProc}
BY GotoType DEF Acquire

LEMMA NextAttemptType ==
  ASSUME TypeInv
  PROVE  NextAttempt \in Nat /\ NextAttempt > 0
BY FS_CardinalityType DEF TypeInv, FiniteAttempts, NextAttempt

(* What `step`, `recover` and `cache-probe` write down when they start. *)
LEMMA BeginType ==
  ASSUME TypeInv, NEW p \in Procs, Begin(p)
  PROVE  TypeInv'
<1>1. CASE BeginStep(p)
  <2>. DEFINE locals == [NoJob EXCEPT !.attempt = NextAttempt, !.base = state.rev,
                            !.seen = observation, !.control = TRUE, !.intact = TRUE]
  <2>1. locals \in Job
    BY NoJobType, NextAttemptType DEF Job, TypeInv, TypeOK
  <2>2. Acquire(p, "dispatch", locals)
    BY <1>1 DEF BeginStep
  <2>3. /\ pc' \in [Procs -> Pcs] /\ job' \in [Procs -> Job]
        /\ lock' \in Procs \cup {NoProc}
    BY <2>1, <2>2, AcquireType DEF Pcs, StepPcs
  <2>4. intent' \in Intent
    BY <1>1, NextAttemptType DEF BeginStep, Intent, TypeInv, TypeOK
  <2>. QED
    BY <1>1, <2>3, <2>4 DEF BeginStep, TypeInv, TypeOK, FiniteAttempts
<1>2. CASE BeginRecover(p)
  <2>. DEFINE where == IF NeedsRecord THEN "r_record" ELSE AfterRecord(AppliesObservation)
              locals == [NoJob EXCEPT !.attempt = intent.attempt, !.base = intent.base,
                            !.intact = (intent.kind = "sound"),
                            !.apply = AppliesObservation]
  <2>1. AppliesObservation \in BOOLEAN
    BY DEF AppliesObservation, TypeInv, TypeOK, Recovery
  <2>2. locals \in Job
    BY <2>1, NoJobType DEF Job, TypeInv, TypeOK, Intent
  <2>3. where \in Pcs
    BY DEF AfterRecord, Pcs, RecoverPcs
  <2>4. Acquire(p, where, locals)
    BY <1>2 DEF BeginRecover
  <2>5. /\ pc' \in [Procs -> Pcs] /\ job' \in [Procs -> Job]
        /\ lock' \in Procs \cup {NoProc}
    BY <2>2, <2>3, <2>4, AcquireType
  <2>. QED
    BY <1>2, <2>5 DEF BeginRecover, TypeInv, TypeOK, FiniteAttempts, disk, project
<1>3. CASE BeginProbe(p)
  <2>. DEFINE locals == [NoJob EXCEPT !.base = state.rev, !.seen = observation]
  <2>1. locals \in Job
    BY NoJobType DEF Job, TypeInv, TypeOK
  <2>2. Acquire(p, "probing", locals)
    BY <1>3 DEF BeginProbe
  <2>3. /\ pc' \in [Procs -> Pcs] /\ job' \in [Procs -> Job]
        /\ lock' \in Procs \cup {NoProc}
    BY <2>1, <2>2, AcquireType DEF Pcs
  <2>. QED
    BY <1>3, <2>3 DEF BeginProbe, TypeInv, TypeOK, FiniteAttempts, disk, project
<1>. QED
  BY <1>1, <1>2, <1>3 DEF Begin

(* What the middle of a step, and the judging of its result, writes down. *)
LEMMA FailsType ==
  ASSUME TypeInv, NEW p \in Procs, NEW locals \in Job, NEW outcome \in Outcomes,
         NEW gitDown, NEW edited, Fails(p, locals, outcome, gitDown, edited)
  PROVE  pc' \in [Procs -> Pcs] /\ job' \in [Procs -> Job]
<1>. DEFINE failed == [locals EXCEPT !.outcome =
                         IF Ambiguous(locals, gitDown, edited)
                         THEN "recovery_required" ELSE outcome]
<1>1. failed \in Job
  BY DEF Job, Outcomes
<1>2. Goto(p, "record", failed)
  BY DEF Fails
<1>. QED
  BY <1>1, <1>2, GotoType DEF Pcs, StepPcs

LEMMA ComparedType ==
  ASSUME TypeInv, NEW p \in Procs
  PROVE  Compared(p) \in Job
BY DEF Compared, Job, TypeInv, TypeOK

LEMMA JudgeType ==
  ASSUME TypeInv, NEW p \in Procs,
         \/ Dispatch(p) \/ WorkerReturns(p)
         \/ ProviderFails(p) \/ RejectResponse(p) \/ AcceptResponse(p)
  PROVE  TypeInv'
<1>0. job[p] \in Job
  BY DEF TypeInv, TypeOK
<1>1. CASE Dispatch(p)
  <2>1. pc' \in [Procs -> Pcs] /\ job' \in [Procs -> Job]
    BY <1>0, <1>1, GotoType DEF Dispatch, Pcs, StepPcs
  <2>2. job[p].attempt \in Nat
    BY <1>0 DEF Job
  <2>. QED
    BY <1>1, <2>1, <2>2 DEF Dispatch, TypeInv, TypeOK, FiniteAttempts, disk
<1>2. CASE WorkerReturns(p)
  <2>1. PICK known \in UsageKnown :
          Goto(p, "judge", [Compared(p) EXCEPT !.known = known])
    BY <1>2 DEF WorkerReturns
  <2>2. [Compared(p) EXCEPT !.known = known] \in Job
    BY ComparedType, EngineAssumption DEF Job
  <2>3. pc' \in [Procs -> Pcs] /\ job' \in [Procs -> Job]
    BY <2>1, <2>2, GotoType DEF Pcs, StepPcs
  <2>. QED
    BY <1>2, <2>3 DEF WorkerReturns, TypeInv, TypeOK, FiniteAttempts, disk
<1>3. CASE ProviderFails(p)
  <2>. DEFINE locals == IF pc[p] = "dispatch" THEN Compared(p) ELSE job[p]
  <2>1. locals \in Job
    BY <1>0, ComparedType
  <2>2. PICK gitDown \in BOOLEAN : Fails(p, locals, "provider_failed", gitDown, Changed)
    BY <1>3 DEF ProviderFails
  <2>3. pc' \in [Procs -> Pcs] /\ job' \in [Procs -> Job]
    BY <2>1, <2>2, FailsType DEF Outcomes
  <2>. QED
    BY <1>3, <2>3 DEF ProviderFails, TypeInv, TypeOK, FiniteAttempts, disk, project
<1>4. CASE RejectResponse(p)
  <2>1. PICK gitDown \in BOOLEAN, left \in Contents :
          /\ Verify(left)
          /\ Fails(p, job[p], "invalid_transition", gitDown, Changed')
    BY <1>4 DEF RejectResponse
  <2>2. pc' \in [Procs -> Pcs] /\ job' \in [Procs -> Job]
    BY <1>0, <2>1, FailsType DEF Outcomes
  <2>. QED
    BY <1>4, <2>1, <2>2 DEF RejectResponse, Verify, TypeInv, TypeOK, FiniteAttempts, disk
<1>5. CASE AcceptResponse(p)
  <2>1. PICK gitDown \in BOOLEAN, left \in Contents, next \in Statuses,
             where \in {"archive", "observation"} :
          Verify(left) /\ Goto(p, where, [job[p] EXCEPT !.status = next,
                                   !.edited = gitDown \/ Changed'])
    BY <1>5 DEF AcceptResponse
  <2>2. [job[p] EXCEPT !.status = next, !.edited = gitDown \/ Changed'] \in Job
    BY <1>0 DEF Job, TypeInv, TypeOK
  <2>3. pc' \in [Procs -> Pcs] /\ job' \in [Procs -> Job]
    BY <2>1, <2>2, GotoType DEF Pcs, StepPcs
  <2>. QED
    BY <1>5, <2>1, <2>3 DEF AcceptResponse, Verify, TypeInv, TypeOK, FiniteAttempts, disk
<1>. QED
  BY <1>1, <1>2, <1>3, <1>4, <1>5

(* What saving the transition writes down. *)
LEMMA SaveType ==
  ASSUME TypeInv, NEW p \in Procs,
         SaveArchive(p) \/ SaveObservation(p) \/ SaveState(p) \/ SaveFails(p)
  PROVE  TypeInv'
<1>0. job[p] \in Job /\ job[p].base + 1 \in Nat
  BY DEF TypeInv, TypeOK, Job
<1>1. CASE SaveArchive(p)
  <2>1. pc' \in [Procs -> Pcs] /\ job' \in [Procs -> Job]
    BY <1>0, <1>1, GotoType DEF SaveArchive, Pcs, StepPcs
  <2>. QED
    BY <1>0, <1>1, <2>1 DEF SaveArchive, TypeInv, TypeOK, FiniteAttempts, project
<1>2. CASE SaveObservation(p)
  <2>1. [job[p] EXCEPT !.seen = observation] \in Job
    BY <1>0 DEF Job, TypeInv, TypeOK
  <2>2. pc' \in [Procs -> Pcs] /\ job' \in [Procs -> Job]
    BY <1>2, <2>1, GotoType DEF SaveObservation, Pcs, StepPcs
  <2>3. observation' \in Nat
    BY <1>0, <1>2 DEF SaveObservation, For
  <2>. QED
    BY <1>2, <2>2, <2>3 DEF SaveObservation, TypeInv, TypeOK, FiniteAttempts, project
<1>3. CASE SaveState(p)
  <2>1. [job[p] EXCEPT !.outcome = "succeeded"] \in Job
    BY <1>0 DEF Job, Outcomes
  <2>2. pc' \in [Procs -> Pcs] /\ job' \in [Procs -> Job]
    BY <1>3, <2>1, GotoType DEF SaveState, Pcs, StepPcs
  <2>3. state' \in [rev : Nat, status : Statuses]
    BY <1>0, <1>3 DEF SaveState, Job
  <2>. QED
    BY <1>3, <2>2, <2>3 DEF SaveState, TypeInv, TypeOK, FiniteAttempts
<1>4. CASE SaveFails(p)
  <2>1. pc' \in [Procs -> Pcs] /\ job' \in [Procs -> Job]
    BY <1>0, <1>4, FailsType DEF SaveFails, Outcomes
  <2>2. faults' \in Nat /\ observation' \in Nat
    BY <1>0, <1>4, EngineAssumption DEF SaveFails, RollBack, TypeInv, TypeOK, Job
  <2>. QED
    BY <1>4, <2>1, <2>2 DEF SaveFails, TypeInv, TypeOK, FiniteAttempts, project
<1>. QED
  BY <1>1, <1>2, <1>3, <1>4

(* What finalize_attempt writes down. *)
LEMMA FinalizeType ==
  ASSUME TypeInv, NEW p \in Procs,
         WriteRecord(p) \/ MarkRecovery(p) \/ ClearIntent(p)
  PROVE  TypeInv'
<1>0. job[p] \in Job /\ job[p].attempt \in Nat /\ job[p].base \in Nat
  BY DEF TypeInv, TypeOK, Job
<1>1. CASE WriteRecord(p)
  <2>1. pc' \in [Procs -> Pcs] /\ job' \in [Procs -> Job]
    BY <1>0, <1>1, GotoType DEF WriteRecord, Pcs, StepPcs
  <2>2. StepRecord(p) \in Attempt
    BY <1>0 DEF StepRecord, Attempt, Job, NotCommitted
  <2>3. PutRecord(job[p].attempt, StepRecord(p))
    BY <1>1 DEF WriteRecord
  <2>4. /\ attempts' \in [DOMAIN attempts' -> Attempt]
        /\ DOMAIN attempts' \subseteq Nat
        /\ FiniteAttempts'
    BY <1>0, <2>2, <2>3, PutRecordType
  <2>. QED
    BY <1>1, <2>1, <2>4 DEF WriteRecord, TypeInv, TypeOK, project
<1>2. CASE MarkRecovery(p)
  <2>1. pc' \in [Procs -> Pcs] /\ job' \in [Procs -> Job]
    BY <1>0, <1>2, GotoType DEF MarkRecovery, Pcs, StepPcs
  <2>2. recovery' \in Recovery
    BY <1>0, <1>2 DEF MarkRecovery, Recovery
  <2>. QED
    BY <1>2, <2>1, <2>2 DEF MarkRecovery, TypeInv, TypeOK, FiniteAttempts, project
<1>3. CASE ClearIntent(p)
  <2>1. /\ pc' \in [Procs -> Pcs] /\ job' \in [Procs -> Job]
        /\ lock' \in Procs \cup {NoProc}
    BY <1>3, ReturnType DEF ClearIntent
  <2>2. intent' \in Intent
    BY <1>3 DEF ClearIntent, Intent, NoIntent, TypeInv, TypeOK
  <2>. QED
    BY <1>3, <2>1, <2>2 DEF ClearIntent, TypeInv, TypeOK, FiniteAttempts, project
<1>. QED
  BY <1>1, <1>2, <1>3

(* What `recover` writes down. *)
LEMMA RecoverType ==
  ASSUME TypeInv, NEW p \in Procs, RecoverAction(p)
  PROVE  TypeInv'
<1>0. /\ job[p] \in Job /\ job[p].attempt \in Nat /\ job[p].base \in Nat
      /\ job[p].seen \in Nat /\ state.rev + 1 \in Nat
  BY DEF TypeInv, TypeOK, Job
<1>1. CASE WriteInterrupted(p)
  <2>1. AfterRecord(job[p].apply) \in Pcs
    BY DEF AfterRecord, Pcs, RecoverPcs
  <2>2. pc' \in [Procs -> Pcs] /\ job' \in [Procs -> Job]
    BY <1>0, <1>1, <2>1, GotoType DEF WriteInterrupted
  <2>3. InterruptedRecord(p) \in Attempt
    BY <1>0 DEF InterruptedRecord, Attempt, Job, NotCommitted, Outcomes
  <2>4. PutRecord(job[p].attempt, InterruptedRecord(p))
    BY <1>1 DEF WriteInterrupted
  <2>5. /\ attempts' \in [DOMAIN attempts' -> Attempt]
        /\ DOMAIN attempts' \subseteq Nat
        /\ FiniteAttempts'
    BY <1>0, <2>3, <2>4, PutRecordType
  <2>. QED
    BY <1>1, <2>2, <2>5 DEF WriteInterrupted, TypeInv, TypeOK, project
<1>2. CASE AcceptObservation(p)
  <2>1. [job[p] EXCEPT !.seen = observation] \in Job
    BY <1>0 DEF Job, TypeInv, TypeOK
  <2>2. pc' \in [Procs -> Pcs] /\ job' \in [Procs -> Job]
    BY <1>2, <2>1, GotoType DEF AcceptObservation, Pcs, RecoverPcs
  <2>3. observation' \in Nat
    BY <1>0, <1>2 DEF AcceptObservation, For
  <2>. QED
    BY <1>2, <2>2, <2>3 DEF AcceptObservation, TypeInv, TypeOK, FiniteAttempts, project
<1>3. CASE AcceptState(p)
  <2>1. pc' \in [Procs -> Pcs] /\ job' \in [Procs -> Job]
    BY <1>0, <1>3, GotoType DEF AcceptState, Pcs, RecoverPcs
  <2>2. state' \in [rev : Nat, status : Statuses]
    BY <1>0, <1>3 DEF AcceptState, Statuses
  <2>. QED
    BY <1>3, <2>1, <2>2 DEF AcceptState, TypeInv, TypeOK, FiniteAttempts
<1>4. CASE AcceptFails(p)
  <2>1. /\ pc' \in [Procs -> Pcs] /\ job' \in [Procs -> Job]
        /\ lock' \in Procs \cup {NoProc}
    BY <1>4, ReturnType DEF AcceptFails
  <2>2. faults' \in Nat /\ observation' \in Nat
    BY <1>0, <1>4, EngineAssumption DEF AcceptFails, RollBack, TypeInv, TypeOK
  <2>. QED
    BY <1>4, <2>1, <2>2 DEF AcceptFails, TypeInv, TypeOK, FiniteAttempts, project
<1>5. CASE ClearRecovery(p)
  <2>1. pc' \in [Procs -> Pcs] /\ job' \in [Procs -> Job]
    BY <1>0, <1>5, GotoType DEF ClearRecovery, Pcs, RecoverPcs
  <2>. QED
    BY <1>5, <2>1 DEF ClearRecovery, NoRecovery, Recovery, TypeInv, TypeOK,
                      FiniteAttempts, project
<1>6. CASE DropIntent(p)
  <2>1. /\ pc' \in [Procs -> Pcs] /\ job' \in [Procs -> Job]
        /\ lock' \in Procs \cup {NoProc}
    BY <1>6, ReturnType DEF DropIntent
  <2>. QED
    BY <1>6, <2>1 DEF DropIntent, NoIntent, Intent, TypeInv, TypeOK,
                      FiniteAttempts, project
<1>. QED
  BY <1>1, <1>2, <1>3, <1>4, <1>5, <1>6 DEF RecoverAction

(* What else happens to the run: the end of a probe, an interruption, and the *)
(* worker.                                                                    *)
LEMMA OutsideType ==
  ASSUME TypeInv,
         \/ \E p \in Procs : ProbeReturns(p) \/ Abandon(p)
         \/ \E kind \in EditKinds : Edit(kind)
         \/ \E n \in live : OrphanExits(n)
  PROVE  TypeInv'
<1>1. ASSUME NEW p \in Procs, ProbeReturns(p)
      PROVE  TypeInv'
  <2>1. /\ pc' \in [Procs -> Pcs] /\ job' \in [Procs -> Job]
        /\ lock' \in Procs \cup {NoProc}
    BY <1>1, ReturnType DEF ProbeReturns
  <2>2. recovery' \in Recovery
    BY <1>1 DEF ProbeReturns, Recovery, TypeInv, TypeOK, Job
  <2>. QED
    BY <1>1, <2>1, <2>2 DEF ProbeReturns, TypeInv, TypeOK, FiniteAttempts, project
<1>2. ASSUME NEW p \in Procs, Abandon(p)
      PROVE  TypeInv'
  <2>1. /\ pc' \in [Procs -> Pcs] /\ job' \in [Procs -> Job]
        /\ lock' \in Procs \cup {NoProc}
    BY <1>2, ReturnType DEF Abandon
  <2>. QED
    BY <1>2, <2>1 DEF Abandon, TypeInv, TypeOK, FiniteAttempts, disk, project
<1>3. ASSUME NEW kind \in EditKinds, Edit(kind)
      PROVE  TypeInv'
  <2>1. intent' \in Intent
    BY <1>3 DEF Edit, Damaged, Intent, NoIntent, TypeInv, TypeOK
  <2>2. observation' \in Nat /\ content' \in Contents /\ loads' \in BOOLEAN
    BY <1>3 DEF Edit, Damaged, Foreign, TypeInv, TypeOK
  <2>. QED
    BY <1>3, <2>1, <2>2 DEF Edit, Damaged, TypeInv, TypeOK, FiniteAttempts
<1>4. ASSUME NEW n \in live, OrphanExits(n)
      PROVE  TypeInv'
  BY <1>4 DEF OrphanExits, TypeInv, TypeOK, FiniteAttempts, disk
<1>. QED
  BY <1>1, <1>2, <1>3, <1>4

LEMMA NextType ==
  ASSUME TypeInv, Next
  PROVE  TypeInv'
<1>1. ASSUME NEW p \in Procs,
             Begin(p) \/ StepAction(p) \/ RecoverAction(p)
      PROVE  TypeInv'
  BY <1>1, BeginType, JudgeType, SaveType, FinalizeType, RecoverType DEF StepAction
<1>. QED
  BY <1>1, OutsideType DEF Next

LEMMA InitType == Init => TypeInv
<1>1. ASSUME Init
      PROVE  TypeInv
  <2>1. DOMAIN attempts = {}
    BY <1>1 DEF Init
  <2>2. IsFiniteSet(DOMAIN attempts)
    BY <2>1, FS_EmptySet
  <2>3. attempts \in [DOMAIN attempts -> Attempt]
    BY <1>1 DEF Init
  <2>4. pc \in [Procs -> Pcs] /\ job \in [Procs -> Job]
    BY <1>1, NoJobType DEF Init, Pcs
  <2>5. intent \in Intent /\ recovery \in Recovery
    BY <1>1 DEF Init, NoIntent, Intent, NoRecovery, Recovery
  <2>6. state \in [rev : Nat, status : Statuses] /\ observation \in Nat
    BY <1>1 DEF Init, Statuses, For
  <2>. QED
    BY <1>1, <2>1, <2>2, <2>3, <2>4, <2>5, <2>6
       DEF Init, TypeInv, TypeOK, FiniteAttempts
<1>. QED
  BY <1>1

(* Every file of a run, and what every command keeps of it, has its type in *)
(* every reachable state, whatever is interrupted or damaged.               *)
THEOREM TypeCorrect == Spec => []TypeOK
<1>1. TypeInv /\ [Next]_vars => TypeInv'
  <2>1. ASSUME TypeInv, UNCHANGED vars
        PROVE  TypeInv'
    BY <2>1 DEF vars, disk, project, TypeInv, TypeOK, FiniteAttempts
  <2>. QED
    BY <2>1, NextType
<1>2. TypeInv => TypeOK
  BY DEF TypeInv
<1>. QED
  BY <1>1, <1>2, InitType, PTL DEF Spec

-----------------------------------------------------------------------------
(* The inductive invariant, in parts.  The first four hold whatever a worker *)
(* edits and whoever recovers.                                              *)

Working == {"dispatch", "running", "judge", "archive", "observation", "state"}

(* A command in progress holds the lock, so it is alone. *)
Mutex == \A p \in Procs : pc[p] # "idle" <=> lock = p

(* Attempts are numbered from 1 without gaps; an intent that has no record   *)
(* and a step or recovery that has yet to write one hold the next number.    *)
Numbering ==
  /\ DOMAIN attempts = 1 .. Cardinality(DOMAIN attempts)
  /\ intent.kind # "none" =>
       /\ intent.attempt # 0
       /\ intent.attempt \in DOMAIN attempts \/ intent.attempt = NextAttempt
  /\ \A p \in Procs :
       pc[p] \in Working \cup {"record", "r_record"} => job[p].attempt = NextAttempt

(* An intent beside a command at work is that command's. *)
IntentOfJob ==
  \A p \in Procs :
    pc[p] \in StepPcs \cup {"r_record"} /\ intent.kind # "none" =>
      intent.attempt = job[p].attempt /\ intent.base = job[p].base

(* Whatever may still become the next revision of the run was started, or   *)
(* waits for its operator, while the run was running.                       *)
StatusStands ==
  /\ intent.kind # "none" /\ state.rev = intent.base => state.status = "running"
  /\ recovery.some /\ recovery.attempt # 0 => state.status = "running"
  /\ \A p \in Procs :
       /\ pc[p] \in Working =>
            state.rev = job[p].base /\ state.status = "running" /\ ~recovery.some
       /\ pc[p] = "record" /\ job[p].outcome = "recovery_required" =>
            state.status = "running"
       /\ pc[p] \in {"mark", "r_observation", "r_state"} => state.status = "running"
       /\ pc[p] = "r_record" /\ job[p].apply => state.status = "running"

(* No recorded attempt is credited with more than the run has reached, nor   *)
(* with more than the attempt that is not recorded yet started from.         *)
History ==
  /\ LedgerIsHistory
  /\ intent.kind # "none" =>
       /\ intent.base <= state.rev
       /\ \A m \in DOMAIN attempts : m # intent.attempt => Credit(m) <= intent.base
  /\ \A p \in Procs :
       /\ pc[p] \in Working \cup {"record", "r_record"} =>
            /\ job[p].base <= state.rev
            /\ \A m \in DOMAIN attempts : Credit(m) <= job[p].base
       /\ pc[p] = "record" /\ job[p].outcome = "succeeded" =>
            state.rev = job[p].base + 1

RunInv == TypeInv /\ Mutex /\ Numbering /\ IntentOfJob /\ StatusStands

(* The rest needs the intent to survive its worker: no worker deletes it.   *)

(* A step keeps its intent until the record exists, and nothing that still   *)
(* has to be recorded is removed.                                            *)
Accounted ==
  /\ NoLostDispatch
  /\ recovery.some /\ recovery.attempt # 0 /\ intent.kind # "none" =>
       recovery.attempt = intent.attempt
  /\ \A p \in Procs :
       /\ pc[p] \in Working \cup {"record"} => intent.kind # "none"
       /\ pc[p] \in {"mark", "clear"} => job[p].attempt \in DOMAIN attempts
       /\ pc[p] = "r_record" => intent.kind # "none"
       /\ pc[p] \in RecoverPcs \ {"r_record"} /\ intent.kind # "none" =>
            intent.attempt \in DOMAIN attempts

-----------------------------------------------------------------------------
(* How the processes move.                                                 *)

LEMMA Moves ==
  ASSUME TypeInv, Mutex, NEW p \in Procs, pc[p] # "idle",
         NEW where, where # "idle", NEW locals, Goto(p, where, locals), lock' = lock
  PROVE  /\ Mutex' /\ pc'[p] = where /\ job'[p] = locals
         /\ \A q \in Procs : q # p => pc[q] = "idle" /\ pc'[q] = "idle"
BY DEF Mutex, Goto, TypeInv, TypeOK

LEMMA Ends ==
  ASSUME TypeInv, Mutex, NEW p \in Procs, pc[p] # "idle", Return(p)
  PROVE  /\ Mutex' /\ lock' = NoProc
         /\ \A q \in Procs : pc'[q] = "idle"
         /\ \A q \in Procs : q # p => pc[q] = "idle"
BY EngineAssumption DEF Mutex, Return, Goto, TypeInv, TypeOK

LEMMA Starts ==
  ASSUME TypeInv, Mutex, NEW p \in Procs, NEW where, where # "idle", NEW locals,
         Acquire(p, where, locals)
  PROVE  /\ Mutex' /\ pc'[p] = where /\ job'[p] = locals
         /\ \A q \in Procs : pc[q] = "idle"
         /\ \A q \in Procs : q # p => pc'[q] = "idle"
BY EngineAssumption DEF Mutex, Acquire, Goto, TypeInv, TypeOK

(* A record goes under the next number. *)
LEMMA NumberedRecord ==
  ASSUME TypeInv, Numbering, NEW record, PutRecord(NextAttempt, record)
  PROVE  /\ NextAttempt \notin DOMAIN attempts
         /\ DOMAIN attempts' = DOMAIN attempts \cup {NextAttempt}
         /\ Cardinality(DOMAIN attempts') = Cardinality(DOMAIN attempts) + 1
         /\ DOMAIN attempts' = 1 .. Cardinality(DOMAIN attempts')
         /\ attempts'[NextAttempt] = record
         /\ \A m \in DOMAIN attempts : attempts'[m] = attempts[m]
<1>1. /\ NextAttempt \notin DOMAIN attempts
      /\ DOMAIN attempts' = DOMAIN attempts \cup {NextAttempt}
      /\ attempts'[NextAttempt] = record
      /\ \A m \in DOMAIN attempts : attempts'[m] = attempts[m]
  BY DEF PutRecord
<1>2. Cardinality(DOMAIN attempts') = Cardinality(DOMAIN attempts) + 1
  BY <1>1, FS_AddElement DEF TypeInv, FiniteAttempts
<1>3. DOMAIN attempts' = 1 .. Cardinality(DOMAIN attempts')
  <2>1. Cardinality(DOMAIN attempts) \in Nat
    BY FS_CardinalityType DEF TypeInv, FiniteAttempts
  <2>2. DOMAIN attempts = 1 .. Cardinality(DOMAIN attempts)
    BY DEF Numbering
  <2>. DEFINE n == Cardinality(DOMAIN attempts)
  <2>3. (1 .. n) \cup {n + 1} = 1 .. (n + 1)
    BY <2>1
  <2>. QED
    BY <1>1, <1>2, <2>2, <2>3 DEF NextAttempt
<1>. QED
  BY <1>1, <1>2, <1>3

LEMMA NextNumberFree ==
  ASSUME TypeInv, Numbering
  PROVE  NextAttempt \notin DOMAIN attempts
<1>1. Cardinality(DOMAIN attempts) \in Nat
  BY FS_CardinalityType DEF TypeInv, FiniteAttempts
<1>. QED
  BY <1>1 DEF Numbering, NextAttempt

-----------------------------------------------------------------------------
(* RunInv is inductive.                                                    *)

LEMMA RunInvInit == Init => RunInv
<1>1. ASSUME Init
      PROVE  RunInv
  <2>1. DOMAIN attempts = {} /\ Cardinality(DOMAIN attempts) = 0
    BY <1>1, FS_EmptySet DEF Init
  <2>2. Numbering
    BY <1>1, <2>1 DEF Init, Numbering, NoIntent, Working
  <2>3. Mutex
    BY <1>1, EngineAssumption DEF Init, Mutex
  <2>4. IntentOfJob /\ StatusStands
    BY <1>1 DEF Init, IntentOfJob, StatusStands, NoIntent, NoRecovery, Working, StepPcs
  <2>. QED
    BY <1>1, <2>2, <2>3, <2>4, InitType DEF RunInv
<1>. QED
  BY <1>1

(* What every part of RunInv but Mutex talks about. *)
LEMMA RunInvBegin ==
  ASSUME RunInv, NEW p \in Procs, Begin(p)
  PROVE  RunInv'
<1>. USE DEF RunInv
<1>0. TypeInv'
  BY BeginType
<1>1. CASE BeginStep(p)
  <2>. DEFINE locals == [NoJob EXCEPT !.attempt = NextAttempt, !.base = state.rev,
                            !.seen = observation, !.control = TRUE, !.intact = TRUE]
  <2>1. Acquire(p, "dispatch", locals)
    BY <1>1 DEF BeginStep
  <2>2. /\ Mutex' /\ pc'[p] = "dispatch" /\ job'[p] = locals
        /\ \A q \in Procs : q # p => pc'[q] = "idle"
    BY <2>1, Starts
  <2>3. job'[p].attempt = NextAttempt /\ job'[p].base = state.rev
    BY <2>2 DEF NoJob
  <2>. HIDE DEF locals
  <2>4. attempts' = attempts /\ NextAttempt' = NextAttempt
    BY <1>1 DEF BeginStep, NextAttempt
  <2>5. intent' = [kind |-> "sound", attempt |-> NextAttempt, base |-> state.rev]
    BY <1>1 DEF BeginStep
  <2>6. Numbering'
    BY <2>2, <2>3, <2>4, <2>5, NextAttemptType DEF Numbering, Working
  <2>7. IntentOfJob'
    BY <2>2, <2>3, <2>5 DEF IntentOfJob, StepPcs
  <2>8. StatusStands'
    BY <1>1, <2>2, <2>3, <2>5 DEF BeginStep, RecoveryPending, StatusStands, Working
  <2>. QED
    BY <1>0, <2>2, <2>6, <2>7, <2>8
<1>2. CASE BeginRecover(p)
  <2>. DEFINE where == IF NeedsRecord THEN "r_record" ELSE AfterRecord(AppliesObservation)
              locals == [NoJob EXCEPT !.attempt = intent.attempt, !.base = intent.base,
                            !.intact = (intent.kind = "sound"),
                            !.apply = AppliesObservation]
  <2>1. Acquire(p, where, locals)
    BY <1>2 DEF BeginRecover
  <2>2. where \in {"r_record", "r_observation", "r_recovery"}
    BY DEF AfterRecord
  <2>3. /\ Mutex' /\ pc'[p] = where /\ job'[p] = locals
        /\ \A q \in Procs : q # p => pc'[q] = "idle"
    <3>. HIDE DEF where, locals
    <3>. QED
      BY <2>1, <2>2, Starts
  <2>4. /\ job'[p].attempt = intent.attempt /\ job'[p].base = intent.base
        /\ job'[p].apply = AppliesObservation
    BY <2>3 DEF NoJob
  <2>5. UNCHANGED disk /\ NextAttempt' = NextAttempt
    BY <1>2 DEF BeginRecover, disk, NextAttempt
  <2>6. AppliesObservation => state.status = "running"
    <3>1. CASE recovery.some
      <4>1. recovery.attempt \in DOMAIN attempts
        BY <1>2, <3>1 DEF BeginRecover, RecoverAccepts, RecoveryValid
      <4>2. recovery.attempt # 0
        BY <4>1, FS_CardinalityType DEF Numbering, TypeInv, FiniteAttempts
      <4>. QED
        BY <3>1, <4>2 DEF StatusStands
    <3>2. CASE ~recovery.some
      <4>1. /\ intent.kind # "none"
            /\ intent.attempt \in DOMAIN attempts =>
                 attempts[intent.attempt].base = intent.base
        BY <1>2, <3>2 DEF BeginRecover, RecoverAccepts, IntentValid, RecordMatches
      <4>. QED
        BY <3>2, <4>1 DEF AppliesObservation, StatusStands
    <3>. QED
      BY <3>1, <3>2
  <2>7. Numbering'
    <3>1. pc'[p] = "r_record" => job'[p].attempt = NextAttempt
      BY <2>3, <2>4 DEF Numbering, NeedsRecord, AfterRecord
    <3>. HIDE DEF where, locals
    <3>. QED
      BY <2>2, <2>3, <2>5, <3>1 DEF Numbering, Working, disk
  <2>8. IntentOfJob'
    <3>. HIDE DEF where, locals
    <3>. QED
      BY <2>2, <2>3, <2>4, <2>5 DEF IntentOfJob, StepPcs, disk
  <2>9. StatusStands'
    <3>1. pc'[p] = "r_observation" => AppliesObservation
      BY <2>3 DEF AfterRecord
    <3>. HIDE DEF where, locals
    <3>. QED
      BY <2>2, <2>3, <2>4, <2>5, <2>6, <3>1 DEF StatusStands, Working, disk
  <2>. QED
    BY <1>0, <2>3, <2>7, <2>8, <2>9
<1>3. CASE BeginProbe(p)
  <2>1. /\ Mutex' /\ pc'[p] = "probing"
        /\ \A q \in Procs : q # p => pc'[q] = "idle"
    BY <1>3, Starts DEF BeginProbe
  <2>2. UNCHANGED disk /\ NextAttempt' = NextAttempt
    BY <1>3 DEF BeginProbe, disk, NextAttempt
  <2>. QED
    BY <1>0, <2>1, <2>2 DEF Numbering, IntentOfJob, StatusStands, StepPcs, Working, disk
<1>. QED
  BY <1>1, <1>2, <1>3 DEF Begin

(* Between the intent and the first durable write of the result nothing on  *)
(* disk changes, and the step keeps its number and revision.                *)
LEMMA Judges ==
  ASSUME TypeInv, NEW p \in Procs,
         \/ Dispatch(p) \/ WorkerReturns(p)
         \/ ProviderFails(p) \/ RejectResponse(p) \/ AcceptResponse(p)
  PROVE  /\ UNCHANGED disk /\ lock' = lock /\ pc[p] \in Working
         /\ \E where \in Working \cup {"record"}, locals \in Job :
              /\ Goto(p, where, locals)
              /\ locals.attempt = job[p].attempt /\ locals.base = job[p].base
              /\ where = "record" => locals.outcome # "succeeded"
<1>1. UNCHANGED disk /\ lock' = lock /\ pc[p] \in Working
  BY DEF Dispatch, WorkerReturns, ProviderFails, RejectResponse, AcceptResponse, Working
<1>2. /\ job[p] \in Job /\ Compared(p) \in Job
      /\ Compared(p).attempt = job[p].attempt /\ Compared(p).base = job[p].base
  BY ComparedType DEF Compared, Job, TypeInv, TypeOK
<1>3. ASSUME NEW locals \in Job, NEW outcome \in Outcomes \ {"succeeded"},
             NEW gitDown, NEW edited, Fails(p, locals, outcome, gitDown, edited),
             locals.attempt = job[p].attempt, locals.base = job[p].base
      PROVE  \E failed \in Job :
               /\ Goto(p, "record", failed)
               /\ failed.attempt = job[p].attempt /\ failed.base = job[p].base
               /\ failed.outcome # "succeeded"
  <2>. DEFINE failed == [locals EXCEPT !.outcome =
                           IF Ambiguous(locals, gitDown, edited)
                           THEN "recovery_required" ELSE outcome]
  <2>1. /\ failed \in Job /\ failed.outcome # "succeeded"
        /\ failed.attempt = locals.attempt /\ failed.base = locals.base
    BY DEF Job, Outcomes
  <2>2. Goto(p, "record", failed)
    BY <1>3 DEF Fails
  <2>. QED
    BY <1>3, <2>1, <2>2
<1>4. CASE Dispatch(p)
  BY <1>1, <1>2, <1>4 DEF Dispatch, Working
<1>5. CASE WorkerReturns(p)
  <2>1. PICK known \in UsageKnown :
          Goto(p, "judge", [Compared(p) EXCEPT !.known = known])
    BY <1>5 DEF WorkerReturns
  <2>. DEFINE locals == [Compared(p) EXCEPT !.known = known]
  <2>2. /\ locals \in Job
        /\ locals.attempt = job[p].attempt /\ locals.base = job[p].base
    BY <1>2, EngineAssumption DEF Job
  <2>3. Goto(p, "judge", locals) /\ "judge" \in Working \ {"record"}
    BY <2>1 DEF Working
  <2>. HIDE DEF locals
  <2>. QED
    BY <1>1, <2>2, <2>3
<1>6. CASE ProviderFails(p)
  <2>. DEFINE locals == IF pc[p] = "dispatch" THEN Compared(p) ELSE job[p]
  <2>1. PICK gitDown \in BOOLEAN : Fails(p, locals, "provider_failed", gitDown, Changed)
    BY <1>6 DEF ProviderFails
  <2>2. /\ locals \in Job
        /\ locals.attempt = job[p].attempt /\ locals.base = job[p].base
    BY <1>2
  <2>3. "provider_failed" \in Outcomes \ {"succeeded"}
    BY DEF Outcomes
  <2>. HIDE DEF locals
  <2>. QED
    BY <1>1, <1>3, <2>1, <2>2, <2>3
<1>7. CASE RejectResponse(p)
  <2>1. PICK gitDown \in BOOLEAN, left \in Contents :
          Fails(p, job[p], "invalid_transition", gitDown, Changed')
    BY <1>7 DEF RejectResponse
  <2>2. "invalid_transition" \in Outcomes \ {"succeeded"}
    BY DEF Outcomes
  <2>. QED
    BY <1>1, <1>2, <1>3, <2>1, <2>2
<1>8. CASE AcceptResponse(p)
  <2>1. PICK gitDown \in BOOLEAN, left \in Contents, next \in Statuses,
             where \in {"archive", "observation"} :
          Goto(p, where, [job[p] EXCEPT !.status = next,
                            !.edited = gitDown \/ Changed'])
    BY <1>8 DEF AcceptResponse
  <2>. DEFINE locals == [job[p] EXCEPT !.status = next,
                           !.edited = gitDown \/ Changed']
  <2>2. /\ locals \in Job
        /\ locals.attempt = job[p].attempt /\ locals.base = job[p].base
    BY <1>2 DEF Job, TypeInv, TypeOK
  <2>3. where \in Working /\ where # "record"
    BY DEF Working
  <2>. QED
    BY <1>1, <2>1, <2>2, <2>3
<1>. QED
  BY <1>4, <1>5, <1>6, <1>7, <1>8

LEMMA RunInvJudge ==
  ASSUME RunInv, NEW p \in Procs,
         \/ Dispatch(p) \/ WorkerReturns(p)
         \/ ProviderFails(p) \/ RejectResponse(p) \/ AcceptResponse(p)
  PROVE  RunInv'
<1>. USE DEF RunInv
<1>0. TypeInv'
  BY JudgeType
<1>1. UNCHANGED disk /\ lock' = lock /\ pc[p] \in Working /\ NextAttempt' = NextAttempt
  BY Judges DEF disk, NextAttempt
<1>2. PICK where \in Working \cup {"record"}, locals \in Job :
        /\ Goto(p, where, locals)
        /\ locals.attempt = job[p].attempt /\ locals.base = job[p].base
  BY Judges
<1>3. /\ Mutex' /\ pc'[p] = where /\ job'[p] = locals
      /\ \A q \in Procs : q # p => pc'[q] = "idle"
  BY <1>1, <1>2, Moves DEF Working
<1>4. Numbering'
  BY <1>1, <1>2, <1>3 DEF Numbering, Working, disk
<1>5. IntentOfJob'
  BY <1>1, <1>2, <1>3 DEF IntentOfJob, StepPcs, Working, disk
<1>6. StatusStands'
  BY <1>1, <1>2, <1>3 DEF StatusStands, Working, disk
<1>. QED
  BY <1>0, <1>3, <1>4, <1>5, <1>6

(* The writes of save_transition keep the step's number and revision. *)
LEMMA Saves ==
  ASSUME TypeInv, NEW p \in Procs,
         SaveArchive(p) \/ SaveObservation(p) \/ SaveFails(p)
  PROVE  \E where \in Working \cup {"record"}, locals \in Job :
           /\ Goto(p, where, locals)
           /\ locals.attempt = job[p].attempt /\ locals.base = job[p].base
           /\ where = "record" => locals.outcome # "succeeded"
<1>0. job[p] \in Job
  BY DEF TypeInv, TypeOK
<1>1. CASE SaveArchive(p)
  BY <1>0, <1>1 DEF SaveArchive, Working
<1>2. CASE SaveObservation(p)
  <2>. DEFINE locals == [job[p] EXCEPT !.seen = observation]
  <2>1. /\ locals \in Job
        /\ locals.attempt = job[p].attempt /\ locals.base = job[p].base
    BY <1>0 DEF Job, TypeInv, TypeOK
  <2>2. Goto(p, "state", locals) /\ "state" \in Working \ {"record"}
    BY <1>2 DEF SaveObservation, Working
  <2>. HIDE DEF locals
  <2>. QED
    BY <2>1, <2>2
<1>3. CASE SaveFails(p)
  <2>1. Fails(p, job[p], "invalid_transition", FALSE, job[p].edited)
    BY <1>3 DEF SaveFails
  <2>. DEFINE locals == [job[p] EXCEPT !.outcome =
                           IF Ambiguous(job[p], FALSE, job[p].edited)
                           THEN "recovery_required" ELSE "invalid_transition"]
  <2>2. /\ locals \in Job /\ locals.outcome # "succeeded"
        /\ locals.attempt = job[p].attempt /\ locals.base = job[p].base
    BY <1>0 DEF Job, Outcomes
  <2>3. Goto(p, "record", locals)
    BY <2>1 DEF Fails
  <2>. HIDE DEF locals
  <2>. QED
    BY <2>2, <2>3
<1>. QED
  BY <1>1, <1>2, <1>3

LEMMA SavesState ==
  ASSUME TypeInv, NEW p \in Procs, SaveState(p)
  PROVE  \E locals \in Job :
           /\ Goto(p, "record", locals)
           /\ locals.attempt = job[p].attempt /\ locals.base = job[p].base
           /\ locals.outcome = "succeeded"
<1>. DEFINE locals == [job[p] EXCEPT !.outcome = "succeeded"]
<1>1. /\ locals \in Job /\ locals.outcome = "succeeded"
      /\ locals.attempt = job[p].attempt /\ locals.base = job[p].base
  BY DEF Job, Outcomes, TypeInv, TypeOK
<1>2. Goto(p, "record", locals)
  BY DEF SaveState
<1>. HIDE DEF locals
<1>. QED
  BY <1>1, <1>2

LEMMA RunInvSave ==
  ASSUME RunInv, NEW p \in Procs,
         SaveArchive(p) \/ SaveObservation(p) \/ SaveState(p) \/ SaveFails(p)
  PROVE  RunInv'
<1>. USE DEF RunInv
<1>0. TypeInv' /\ job[p] \in Job
  BY SaveType DEF TypeInv, TypeOK
<1>1. /\ UNCHANGED <<attempts, intent, recovery, lock>> /\ NextAttempt' = NextAttempt
      /\ pc[p] \in Working
  BY DEF SaveArchive, SaveObservation, SaveState, SaveFails, NextAttempt, Working
<1>2. CASE SaveArchive(p) \/ SaveObservation(p) \/ SaveFails(p)
  <2>1. state' = state
    BY <1>2 DEF SaveArchive, SaveObservation, SaveFails
  <2>2. PICK where \in Working \cup {"record"}, locals \in Job :
          /\ Goto(p, where, locals)
          /\ locals.attempt = job[p].attempt /\ locals.base = job[p].base
    BY <1>2, Saves
  <2>3. /\ Mutex' /\ pc'[p] = where /\ job'[p] = locals
        /\ \A q \in Procs : q # p => pc'[q] = "idle"
    BY <1>1, <2>2, Moves DEF Working
  <2>4. Numbering'
    BY <1>1, <2>2, <2>3 DEF Numbering, Working
  <2>5. IntentOfJob'
    BY <1>1, <2>2, <2>3 DEF IntentOfJob, StepPcs, Working
  <2>6. StatusStands'
    BY <1>1, <2>1, <2>2, <2>3 DEF StatusStands, Working
  <2>. QED
    BY <1>0, <2>3, <2>4, <2>5, <2>6
<1>3. CASE SaveState(p)
  <2>1. PICK locals \in Job :
          /\ Goto(p, "record", locals)
          /\ locals.attempt = job[p].attempt /\ locals.base = job[p].base
          /\ locals.outcome = "succeeded"
    BY <1>3, SavesState
  <2>2. /\ Mutex' /\ pc'[p] = "record" /\ job'[p] = locals
        /\ \A q \in Procs : q # p => pc'[q] = "idle"
    BY <1>1, <2>1, Moves DEF Working
  <2>3. pc[p] = "state" /\ job[p].base \in Nat
    BY <1>0, <1>3 DEF SaveState, Job
  <2>4. /\ state'.rev = job[p].base + 1 /\ ~recovery.some
        /\ intent.kind # "none" => intent.base = job[p].base
    BY <1>3, <2>3 DEF SaveState, StatusStands, IntentOfJob, StepPcs, Working
  <2>5. Numbering'
    BY <1>1, <2>1, <2>2, <2>3 DEF Numbering, Working
  <2>6. IntentOfJob'
    BY <1>1, <2>1, <2>2, <2>3 DEF IntentOfJob, StepPcs
  <2>7. StatusStands'
    BY <1>1, <2>1, <2>2, <2>3, <2>4 DEF StatusStands, Working
  <2>. QED
    BY <1>0, <2>2, <2>5, <2>6, <2>7
<1>. QED
  BY <1>2, <1>3

LEMMA RunInvFinalize ==
  ASSUME RunInv, NEW p \in Procs,
         WriteRecord(p) \/ MarkRecovery(p) \/ ClearIntent(p)
  PROVE  RunInv'
<1>. USE DEF RunInv
<1>0. TypeInv'
  BY FinalizeType
<1>1. CASE WriteRecord(p)
  <2>. DEFINE where == IF job[p].outcome = "recovery_required" THEN "mark" ELSE "clear"
  <2>1. /\ Goto(p, where, job[p]) /\ pc[p] = "record"
        /\ UNCHANGED <<state, intent, recovery, lock>>
    BY <1>1 DEF WriteRecord
  <2>2. /\ Mutex' /\ pc'[p] = where /\ job'[p] = job[p]
        /\ \A q \in Procs : q # p => pc'[q] = "idle"
    BY <2>1, Moves
  <2>3. job[p].attempt = NextAttempt
    BY <2>1 DEF Numbering
  <2>4. PutRecord(NextAttempt, StepRecord(p))
    BY <1>1, <2>3 DEF WriteRecord
  <2>5. /\ DOMAIN attempts' = DOMAIN attempts \cup {NextAttempt}
        /\ DOMAIN attempts' = 1 .. Cardinality(DOMAIN attempts')
    BY <2>4, NumberedRecord
  <2>6. Numbering'
    BY <2>1, <2>2, <2>5 DEF Numbering, Working
  <2>7. IntentOfJob'
    BY <2>1, <2>2 DEF IntentOfJob, StepPcs
  <2>8. StatusStands'
    BY <2>1, <2>2 DEF StatusStands, Working
  <2>. QED
    BY <1>0, <2>2, <2>6, <2>7, <2>8
<1>2. CASE MarkRecovery(p)
  <2>1. /\ Goto(p, "clear", job[p]) /\ pc[p] = "mark"
        /\ UNCHANGED <<state, attempts, intent, lock>> /\ NextAttempt' = NextAttempt
    BY <1>2 DEF MarkRecovery, NextAttempt
  <2>2. /\ Mutex' /\ pc'[p] = "clear" /\ job'[p] = job[p]
        /\ \A q \in Procs : q # p => pc'[q] = "idle"
    BY <2>1, Moves
  <2>3. Numbering' /\ IntentOfJob'
    BY <2>1, <2>2 DEF Numbering, IntentOfJob, StepPcs, Working
  <2>4. StatusStands'
    BY <2>1, <2>2 DEF StatusStands, Working
  <2>. QED
    BY <1>0, <2>2, <2>3, <2>4
<1>3. CASE ClearIntent(p)
  <2>1. /\ pc[p] = "clear" /\ Return(p) /\ intent' \in {intent, NoIntent}
        /\ UNCHANGED <<state, attempts, recovery>> /\ NextAttempt' = NextAttempt
    BY <1>3 DEF ClearIntent, NextAttempt
  <2>2. Mutex' /\ \A q \in Procs : pc'[q] = "idle"
    BY <2>1, Ends
  <2>3. Numbering' /\ IntentOfJob' /\ StatusStands'
    BY <2>1, <2>2 DEF Numbering, IntentOfJob, StatusStands, StepPcs, Working, NoIntent
  <2>. QED
    BY <1>0, <2>2, <2>3
<1>. QED
  BY <1>1, <1>2, <1>3

LEMMA RunInvRecover ==
  ASSUME RunInv, NEW p \in Procs, RecoverAction(p)
  PROVE  RunInv'
<1>. USE DEF RunInv
<1>0. TypeInv' /\ job[p] \in Job
  BY RecoverType DEF TypeInv, TypeOK
<1>1. CASE WriteInterrupted(p)
  <2>. DEFINE where == AfterRecord(job[p].apply)
  <2>1. /\ Goto(p, where, job[p]) /\ pc[p] = "r_record"
        /\ UNCHANGED <<state, intent, recovery, lock>>
    BY <1>1 DEF WriteInterrupted
  <2>2. /\ where = IF job[p].apply THEN "r_observation" ELSE "r_recovery"
        /\ where # "idle"
    BY DEF AfterRecord
  <2>. HIDE DEF where
  <2>3. /\ Mutex' /\ pc'[p] = where /\ job'[p] = job[p]
        /\ \A q \in Procs : q # p => pc'[q] = "idle"
    BY <2>1, <2>2, Moves
  <2>4. job[p].attempt = NextAttempt
    BY <2>1 DEF Numbering
  <2>5. PutRecord(NextAttempt, InterruptedRecord(p))
    BY <1>1, <2>4 DEF WriteInterrupted
  <2>6. /\ DOMAIN attempts' = DOMAIN attempts \cup {NextAttempt}
        /\ DOMAIN attempts' = 1 .. Cardinality(DOMAIN attempts')
    BY <2>5, NumberedRecord
  <2>7. Numbering'
    BY <2>1, <2>2, <2>3, <2>6 DEF Numbering, Working
  <2>8. IntentOfJob'
    BY <2>1, <2>2, <2>3 DEF IntentOfJob, StepPcs
  <2>9. StatusStands'
    BY <2>1, <2>2, <2>3 DEF StatusStands, Working
  <2>. QED
    BY <1>0, <2>3, <2>7, <2>8, <2>9
<1>2. CASE AcceptObservation(p) \/ ClearRecovery(p)
  <2>1. PICK where \in {"r_state", "r_intent"}, locals \in Job :
          /\ Goto(p, where, locals)
          /\ pc[p] = "r_observation" \/ where # "r_state"
    <3>1. [job[p] EXCEPT !.seen = observation] \in Job
      BY <1>0 DEF Job, TypeInv, TypeOK
    <3>. QED
      BY <1>0, <1>2, <3>1 DEF AcceptObservation, ClearRecovery
  <2>2. /\ UNCHANGED <<state, attempts, intent, lock>> /\ NextAttempt' = NextAttempt
        /\ pc[p] # "idle" /\ recovery' \in {recovery, NoRecovery}
    BY <1>2 DEF AcceptObservation, ClearRecovery, NextAttempt
  <2>3. /\ Mutex' /\ pc'[p] = where
        /\ \A q \in Procs : q # p => pc'[q] = "idle"
    BY <2>1, <2>2, Moves
  <2>4. Numbering' /\ IntentOfJob'
    BY <2>1, <2>2, <2>3 DEF Numbering, IntentOfJob, StepPcs, Working
  <2>5. StatusStands'
    BY <2>1, <2>2, <2>3 DEF StatusStands, Working, NoRecovery
  <2>. QED
    BY <1>0, <2>3, <2>4, <2>5
<1>3. CASE AcceptState(p)
  <2>1. /\ Goto(p, "r_recovery", job[p]) /\ pc[p] = "r_state"
        /\ UNCHANGED <<attempts, intent, recovery, lock>> /\ NextAttempt' = NextAttempt
        /\ state'.status = "running"
    BY <1>3 DEF AcceptState, NextAttempt
  <2>2. /\ Mutex' /\ pc'[p] = "r_recovery"
        /\ \A q \in Procs : q # p => pc'[q] = "idle"
    BY <2>1, Moves
  <2>3. Numbering' /\ IntentOfJob' /\ StatusStands'
    BY <2>1, <2>2 DEF Numbering, IntentOfJob, StatusStands, StepPcs, Working
  <2>. QED
    BY <1>0, <2>2, <2>3
<1>4. CASE AcceptFails(p) \/ DropIntent(p)
  <2>1. /\ pc[p] # "idle" /\ Return(p) /\ intent' \in {intent, NoIntent}
        /\ UNCHANGED <<state, attempts, recovery>> /\ NextAttempt' = NextAttempt
    BY <1>4 DEF AcceptFails, DropIntent, NextAttempt
  <2>2. Mutex' /\ \A q \in Procs : pc'[q] = "idle"
    BY <2>1, Ends
  <2>3. Numbering' /\ IntentOfJob' /\ StatusStands'
    BY <2>1, <2>2 DEF Numbering, IntentOfJob, StatusStands, StepPcs, Working, NoIntent
  <2>. QED
    BY <1>0, <2>2, <2>3
<1>. QED
  BY <1>1, <1>2, <1>3, <1>4 DEF RecoverAction

(* What happens beside the commands: the damage a worker does to an intent   *)
(* leaves its number and revision, or removes it.                            *)
LEMMA EditedIntent ==
  ASSUME TypeInv, NEW kind \in EditKinds, Edit(kind)
  PROVE  /\ \/ intent' = NoIntent
            \/ /\ intent'.kind = "none" <=> intent.kind = "none"
               /\ intent'.attempt = intent.attempt /\ intent'.base = intent.base
         /\ intent.kind = "none" => intent' = intent
         /\ UNCHANGED <<state, attempts, recovery, lock, pc, job, live, started>>
BY DEF Edit, Damaged, Intent, NoIntent, TypeInv, TypeOK

LEMMA RunInvOutside ==
  ASSUME RunInv,
         \/ \E p \in Procs : ProbeReturns(p) \/ Abandon(p)
         \/ \E kind \in EditKinds : Edit(kind)
         \/ \E n \in live : OrphanExits(n)
  PROVE  RunInv'
<1>. USE DEF RunInv
<1>0. TypeInv'
  BY OutsideType
<1>1. ASSUME NEW p \in Procs, ProbeReturns(p) \/ Abandon(p)
      PROVE  RunInv'
  <2>1. /\ pc[p] # "idle" /\ Return(p)
        /\ UNCHANGED <<state, attempts, intent>> /\ NextAttempt' = NextAttempt
        /\ recovery' = recovery \/ recovery'.attempt = 0
    BY <1>1 DEF ProbeReturns, Abandon, disk, NextAttempt
  <2>2. Mutex' /\ \A q \in Procs : pc'[q] = "idle"
    BY <2>1, Ends
  <2>3. Numbering' /\ IntentOfJob' /\ StatusStands'
    BY <2>1, <2>2 DEF Numbering, IntentOfJob, StatusStands, StepPcs, Working
  <2>. QED
    BY <1>0, <2>2, <2>3
<1>2. ASSUME NEW kind \in EditKinds, Edit(kind)
      PROVE  RunInv'
  <2>1. /\ \/ intent'.kind = "none"
           \/ /\ intent.kind # "none"
              /\ intent'.attempt = intent.attempt /\ intent'.base = intent.base
        /\ UNCHANGED <<state, attempts, recovery, lock, pc, job>>
        /\ NextAttempt' = NextAttempt
    BY <1>2, EditedIntent DEF NextAttempt, NoIntent
  <2>. QED
    BY <1>0, <2>1 DEF Mutex, Numbering, IntentOfJob, StatusStands
<1>3. ASSUME NEW n \in live, OrphanExits(n)
      PROVE  RunInv'
  BY <1>0, <1>3 DEF OrphanExits, disk, Mutex, Numbering, IntentOfJob, StatusStands,
                    NextAttempt
<1>. QED
  BY <1>1, <1>2, <1>3

LEMMA RunInvNext ==
  ASSUME RunInv, Next
  PROVE  RunInv'
<1>1. ASSUME NEW p \in Procs,
             Begin(p) \/ StepAction(p) \/ RecoverAction(p)
      PROVE  RunInv'
  BY <1>1, RunInvBegin, RunInvJudge, RunInvSave, RunInvFinalize, RunInvRecover
     DEF StepAction
<1>. QED
  BY <1>1, RunInvOutside DEF Next

LEMMA RunInvStutter ==
  ASSUME RunInv, UNCHANGED vars
  PROVE  RunInv'
<1>. USE DEF RunInv, vars, disk, project
<1>1. TypeInv'
  BY DEF TypeInv, TypeOK, FiniteAttempts
<1>2. Mutex' /\ IntentOfJob' /\ StatusStands'
  BY DEF Mutex, IntentOfJob, StatusStands
<1>3. Numbering'
  BY DEF Numbering, NextAttempt
<1>. QED
  BY <1>1, <1>2, <1>3

LEMMA RunInvHolds == Spec => []RunInv
<1>1. RunInv /\ [Next]_vars => RunInv'
  BY RunInvNext, RunInvStutter
<1>. QED
  BY <1>1, RunInvInit, PTL DEF Spec

-----------------------------------------------------------------------------
(* Terminal means terminal.                                                *)

(* Only a commit and an acknowledgement write state.json, and each happens  *)
(* while the run is running.                                                *)
LEMMA TerminalStep ==
  ASSUME RunInv, [Next]_vars, state.status # "running"
  PROVE  state' = state
<1>1. ASSUME NEW p \in Procs, SaveState(p)
      PROVE  FALSE
  BY <1>1 DEF SaveState, RunInv, StatusStands, Working
<1>2. ASSUME NEW p \in Procs, AcceptState(p)
      PROVE  FALSE
  BY <1>2 DEF AcceptState, RunInv, StatusStands
<1>3. ASSUME NEW p \in Procs, Begin(p) \/ ProbeReturns(p) \/ Abandon(p)
      PROVE  state' = state
  BY <1>3 DEF Begin, BeginStep, BeginRecover, BeginProbe, ProbeReturns, Abandon, disk
<1>4. ASSUME NEW p \in Procs, StepAction(p)
      PROVE  state' = state
  BY <1>1, <1>4 DEF StepAction, Dispatch, WorkerReturns, ProviderFails, RejectResponse,
     AcceptResponse, SaveArchive, SaveObservation, SaveFails, WriteRecord, MarkRecovery,
     ClearIntent, disk
<1>5. ASSUME NEW p \in Procs, RecoverAction(p)
      PROVE  state' = state
  BY <1>2, <1>5 DEF RecoverAction, WriteInterrupted, AcceptObservation, AcceptFails,
     ClearRecovery, DropIntent
<1>6. ASSUME \/ \E kind \in EditKinds : Edit(kind)
             \/ \E n \in live : OrphanExits(n)
      PROVE  state' = state
  BY <1>6 DEF Edit, OrphanExits, disk
<1>. QED
  BY <1>3, <1>4, <1>5, <1>6 DEF Next, vars, disk

(* A complete or blocked run keeps its revision and status for good, also   *)
(* when its last attempt was interrupted and has to be recovered.           *)
THEOREM TerminalStaysFinal == Spec => TerminalIsFinal
<1>1. RunInv /\ [Next]_vars => [state.status # "running" => state' = state]_vars
  BY TerminalStep
<1>. QED
  BY <1>1, RunInvHolds, PTL DEF Spec, TerminalIsFinal

-----------------------------------------------------------------------------
(* The ledger is a history of the run.                                     *)

Unfinished == Working \cup {"record", "r_record"}

LEMMA CreditType ==
  ASSUME TypeInv
  PROVE  \A n \in DOMAIN attempts :
           n \in Nat /\ Credit(n) \in Nat /\ attempts[n].base \in Nat
BY DEF TypeInv, TypeOK, Attempt, Credit

(* What writes no record and closes no gap leaves the history as it is. *)
LEMMA HistoryKept ==
  ASSUME TypeInv, History, attempts' = attempts, state'.rev \in Nat,
         state.rev <= state'.rev,
         \/ intent'.kind = "none"
         \/ /\ intent.kind # "none"
            /\ intent'.attempt = intent.attempt /\ intent'.base = intent.base,
         \A p \in Procs : pc'[p] \in Unfinished =>
           pc[p] \in Unfinished /\ job'[p].base = job[p].base,
         \A p \in Procs : pc'[p] = "record" /\ job'[p].outcome = "succeeded" =>
           state'.rev = job[p].base + 1
  PROVE  History'
<1>0. /\ state.rev \in Nat /\ \A p \in Procs : job[p].base \in Nat
      /\ intent.base \in Nat
  BY DEF TypeInv, TypeOK, Job, Intent
<1>1. \A n \in DOMAIN attempts : Credit(n)' = Credit(n)
  BY DEF Credit
<1>2. \A n \in DOMAIN attempts : Credit(n) <= state'.rev
  BY <1>0, CreditType DEF History, LedgerIsHistory
<1>3. LedgerIsHistory'
  BY <1>1, <1>2 DEF History, LedgerIsHistory
<1>4. intent'.kind # "none" =>
        /\ intent'.base <= state'.rev
        /\ \A m \in DOMAIN attempts : m # intent'.attempt => Credit(m) <= intent'.base
  BY <1>0 DEF History
<1>5. ASSUME NEW p \in Procs
      PROVE  /\ pc'[p] \in Unfinished =>
                  /\ job'[p].base <= state'.rev
                  /\ \A m \in DOMAIN attempts : Credit(m) <= job'[p].base
             /\ pc'[p] = "record" /\ job'[p].outcome = "succeeded" =>
                  state'.rev = job'[p].base + 1
  BY <1>0 DEF History, Unfinished
<1>. QED
  BY <1>1, <1>3, <1>4, <1>5 DEF History, Unfinished

(* A record continues the history if it claims no more than the run reached  *)
(* and starts from no less than what is already credited.                    *)
LEMMA HistoryRecord ==
  ASSUME TypeInv, Numbering, LedgerIsHistory, state' = state,
         NEW n, n = NextAttempt, NEW record, PutRecord(n, record),
         (IF record.outcome = "succeeded" THEN record.committed ELSE record.base)
           <= state.rev,
         \A m \in DOMAIN attempts : Credit(m) <= record.base
  PROVE  /\ LedgerIsHistory'
         /\ DOMAIN attempts' = DOMAIN attempts \cup {n}
         /\ \A m \in DOMAIN attempts : Credit(m)' = Credit(m)
<1>1. /\ DOMAIN attempts' = DOMAIN attempts \cup {n}
      /\ DOMAIN attempts' = 1 .. Cardinality(DOMAIN attempts')
      /\ n \notin DOMAIN attempts
      /\ attempts'[n] = record
      /\ \A m \in DOMAIN attempts : attempts'[m] = attempts[m]
  BY NumberedRecord
<1>2. \A m \in DOMAIN attempts : Credit(m)' = Credit(m) /\ m < n
  <2>1. Cardinality(DOMAIN attempts) \in Nat
    BY FS_CardinalityType DEF TypeInv, FiniteAttempts
  <2>. QED
    BY <1>1, <2>1 DEF Credit, Numbering, NextAttempt
<1>3. Credit(n)' <= state.rev /\ attempts'[n].base = record.base
  BY <1>1 DEF Credit
<1>4. n \in Nat
  BY NextAttemptType
<1>5. \A m \in DOMAIN attempts' : Credit(m)' <= state'.rev
  BY <1>1, <1>2, <1>3 DEF LedgerIsHistory
<1>6. \A k, m \in DOMAIN attempts' : k < m => Credit(k)' <= attempts'[m].base
  <2>. TAKE k, m \in DOMAIN attempts'
  <2>1. CASE m = n /\ k # n
    BY <1>1, <1>2, <1>3, <2>1
  <2>2. CASE m # n /\ k # n
    BY <1>1, <1>2, <2>2 DEF LedgerIsHistory
  <2>3. CASE k = n
    BY <1>1, <1>2, <1>4, <2>3, CreditType
  <2>. QED
    BY <2>1, <2>2, <2>3
<1>. QED
  BY <1>1, <1>2, <1>5, <1>6 DEF LedgerIsHistory

LEMMA HistoryBegin ==
  ASSUME RunInv, History, NEW p \in Procs, Begin(p)
  PROVE  History'
<1>0. TypeInv /\ Mutex /\ Numbering /\ state.rev \in Nat
  BY DEF RunInv, TypeInv, TypeOK
<1>1. CASE BeginStep(p)
  <2>. DEFINE locals == [NoJob EXCEPT !.attempt = NextAttempt, !.base = state.rev,
                            !.seen = observation, !.control = TRUE, !.intact = TRUE]
  <2>1. /\ pc'[p] = "dispatch" /\ job'[p] = locals
        /\ \A q \in Procs : q # p => pc'[q] = "idle"
    BY <1>0, <1>1, Starts DEF BeginStep
  <2>2. job'[p].base = state.rev
    BY <2>1 DEF NoJob
  <2>3. /\ attempts' = attempts /\ state' = state
        /\ intent' = [kind |-> "sound", attempt |-> NextAttempt, base |-> state.rev]
    BY <1>1 DEF BeginStep
  <2>4. \A m \in DOMAIN attempts : Credit(m)' = Credit(m) /\ Credit(m) <= state.rev
    BY <2>3 DEF Credit, History, LedgerIsHistory
  <2>5. LedgerIsHistory'
    BY <2>3, <2>4 DEF History, LedgerIsHistory
  <2>. HIDE DEF locals
  <2>. QED
    BY <1>0, <2>1, <2>2, <2>3, <2>4, <2>5 DEF History, Working
<1>2. CASE BeginRecover(p)
  <2>. DEFINE where == IF NeedsRecord THEN "r_record" ELSE AfterRecord(AppliesObservation)
              locals == [NoJob EXCEPT !.attempt = intent.attempt, !.base = intent.base,
                            !.intact = (intent.kind = "sound"),
                            !.apply = AppliesObservation]
  <2>1. where \in {"r_record", "r_observation", "r_recovery"}
    BY DEF AfterRecord
  <2>2. Acquire(p, where, locals)
    BY <1>2 DEF BeginRecover
  <2>3. /\ pc'[p] = where /\ job'[p] = locals
        /\ \A q \in Procs : q # p => pc'[q] = "idle"
    <3>. HIDE DEF where, locals
    <3>. QED
      BY <1>0, <2>1, <2>2, Starts
  <2>4. job'[p].base = intent.base
    BY <2>3 DEF NoJob
  <2>5. where = "r_record" => intent.kind # "none" /\ intent.attempt \notin DOMAIN attempts
    BY DEF AfterRecord, NeedsRecord
  <2>6. UNCHANGED <<state, attempts, intent>>
    BY <1>2 DEF BeginRecover, disk
  <2>7. \A m \in DOMAIN attempts : Credit(m)' = Credit(m)
    BY <2>6 DEF Credit
  <2>8. LedgerIsHistory'
    BY <2>6, <2>7 DEF History, LedgerIsHistory
  <2>. HIDE DEF where, locals
  <2>. QED
    BY <2>1, <2>3, <2>4, <2>5, <2>6, <2>7, <2>8 DEF History, Working
<1>3. CASE BeginProbe(p)
  <2>1. /\ pc'[p] = "probing"
        /\ \A q \in Procs : q # p => pc'[q] = "idle"
    BY <1>0, <1>3, Starts DEF BeginProbe
  <2>2. UNCHANGED <<state, attempts, intent>>
    BY <1>3 DEF BeginProbe, disk
  <2>. QED
    BY <1>0, <2>1, <2>2, HistoryKept DEF Unfinished, Working
<1>. QED
  BY <1>1, <1>2, <1>3 DEF Begin

LEMMA HistoryStep ==
  ASSUME RunInv, History, NEW p \in Procs, StepAction(p)
  PROVE  History'
<1>0. /\ TypeInv /\ Mutex /\ Numbering /\ IntentOfJob /\ job[p] \in Job
      /\ state.rev \in Nat /\ job[p].base \in Nat
  BY DEF RunInv, TypeInv, TypeOK, Job
<1>1. CASE \/ Dispatch(p) \/ WorkerReturns(p)
           \/ ProviderFails(p) \/ RejectResponse(p) \/ AcceptResponse(p)
  <2>1. PICK where \in Working \cup {"record"}, locals \in Job :
          /\ Goto(p, where, locals)
          /\ locals.attempt = job[p].attempt /\ locals.base = job[p].base
          /\ where = "record" => locals.outcome # "succeeded"
    BY <1>0, <1>1, Judges
  <2>2. UNCHANGED <<state, attempts, intent, lock>> /\ pc[p] \in Working
    BY <1>0, <1>1, Judges DEF disk
  <2>3. /\ pc'[p] = where /\ job'[p] = locals
        /\ \A q \in Procs : q # p => pc'[q] = "idle"
    BY <1>0, <2>1, <2>2, Moves DEF Working
  <2>. QED
    BY <1>0, <2>1, <2>2, <2>3, HistoryKept DEF Unfinished, Working
<1>2. CASE SaveArchive(p) \/ SaveObservation(p) \/ SaveFails(p)
  <2>1. UNCHANGED <<state, attempts, intent, lock>> /\ pc[p] \in Working
    BY <1>2 DEF SaveArchive, SaveObservation, SaveFails, Working
  <2>2. PICK where \in Working \cup {"record"}, locals \in Job :
          /\ Goto(p, where, locals) /\ locals.base = job[p].base
          /\ where = "record" => locals.outcome # "succeeded"
    BY <1>0, <1>2, Saves
  <2>3. /\ pc'[p] = where /\ job'[p] = locals
        /\ \A q \in Procs : q # p => pc'[q] = "idle"
    BY <1>0, <2>1, <2>2, Moves DEF Working
  <2>. QED
    BY <1>0, <2>1, <2>2, <2>3, HistoryKept DEF Unfinished, Working
<1>3. CASE SaveState(p)
  <2>1. PICK locals \in Job :
          Goto(p, "record", locals) /\ locals.base = job[p].base
    BY <1>0, <1>3, SavesState
  <2>2. /\ UNCHANGED <<attempts, intent, lock>> /\ pc[p] = "state"
        /\ state'.rev = job[p].base + 1
    BY <1>3 DEF SaveState
  <2>3. /\ pc'[p] = "record" /\ job'[p] = locals
        /\ \A q \in Procs : q # p => pc'[q] = "idle"
    BY <1>0, <2>1, <2>2, Moves
  <2>4. state.rev = job[p].base
    BY <2>2 DEF RunInv, StatusStands, Working
  <2>5. state.rev <= state'.rev /\ state'.rev \in Nat
    BY <1>0, <2>2, <2>4
  <2>. QED
    BY <1>0, <2>1, <2>2, <2>3, <2>5, HistoryKept DEF Unfinished, Working
<1>4. CASE WriteRecord(p)
  <2>. DEFINE where == IF job[p].outcome = "recovery_required" THEN "mark" ELSE "clear"
  <2>1. /\ Goto(p, where, job[p]) /\ pc[p] = "record"
        /\ UNCHANGED <<state, intent, lock>>
    BY <1>4 DEF WriteRecord
  <2>2. \A q \in Procs : pc'[q] \notin Unfinished
    BY <1>0, <2>1, Moves DEF Unfinished, Working
  <2>3. job[p].attempt = NextAttempt
    BY <1>0, <2>1 DEF Numbering
  <2>4. PutRecord(NextAttempt, StepRecord(p))
    BY <1>4, <2>3 DEF WriteRecord
  <2>5. /\ StepRecord(p).base = job[p].base
        /\ \A m \in DOMAIN attempts : Credit(m) <= job[p].base
        /\ (IF StepRecord(p).outcome = "succeeded" THEN StepRecord(p).committed
                                                  ELSE StepRecord(p).base) <= state.rev
    BY <1>0, <2>1 DEF StepRecord, History
  <2>6. /\ LedgerIsHistory'
        /\ DOMAIN attempts' = DOMAIN attempts \cup {NextAttempt}
        /\ \A m \in DOMAIN attempts : Credit(m)' = Credit(m)
    BY <1>0, <2>1, <2>4, <2>5, HistoryRecord DEF History
  <2>7. intent'.kind # "none" =>
           /\ intent'.base <= state'.rev
           /\ \A m \in DOMAIN attempts' : m # intent'.attempt => Credit(m)' <= intent'.base
    BY <1>0, <2>1, <2>3, <2>5, <2>6 DEF History, IntentOfJob, StepPcs
  <2>. QED
    BY <2>2, <2>6, <2>7 DEF History, Unfinished, Working
<1>5. CASE MarkRecovery(p)
  <2>1. /\ Goto(p, "clear", job[p]) /\ pc[p] = "mark"
        /\ UNCHANGED <<state, attempts, intent, lock>>
    BY <1>5 DEF MarkRecovery
  <2>2. \A q \in Procs : pc'[q] \notin Unfinished
    BY <1>0, <2>1, Moves DEF Unfinished, Working
  <2>. QED
    BY <1>0, <2>1, <2>2, HistoryKept DEF Unfinished
<1>6. CASE ClearIntent(p)
  <2>1. /\ pc[p] = "clear" /\ Return(p) /\ intent' \in {intent, NoIntent}
        /\ UNCHANGED <<state, attempts>>
    BY <1>6 DEF ClearIntent
  <2>2. \A q \in Procs : pc'[q] \notin Unfinished
    BY <1>0, <2>1, Ends DEF Unfinished, Working
  <2>. QED
    BY <1>0, <2>1, <2>2, HistoryKept DEF Unfinished, NoIntent
<1>. QED
  BY <1>1, <1>2, <1>3, <1>4, <1>5, <1>6 DEF StepAction

LEMMA HistoryRecover ==
  ASSUME RunInv, History, NEW p \in Procs, RecoverAction(p)
  PROVE  History'
<1>0. /\ TypeInv /\ Mutex /\ Numbering /\ IntentOfJob /\ job[p] \in Job
      /\ state.rev \in Nat /\ job[p].base \in Nat
  BY DEF RunInv, TypeInv, TypeOK, Job
<1>1. CASE WriteInterrupted(p)
  <2>. DEFINE where == AfterRecord(job[p].apply)
  <2>1. /\ Goto(p, where, job[p]) /\ pc[p] = "r_record"
        /\ UNCHANGED <<state, intent, lock>>
    BY <1>1 DEF WriteInterrupted
  <2>2. where \in {"r_observation", "r_recovery"}
    BY DEF AfterRecord
  <2>. HIDE DEF where
  <2>3. \A q \in Procs : pc'[q] \notin Unfinished
    BY <1>0, <2>1, <2>2, Moves DEF Unfinished, Working
  <2>4. job[p].attempt = NextAttempt
    BY <1>0, <2>1 DEF Numbering
  <2>5. PutRecord(NextAttempt, InterruptedRecord(p))
    BY <1>1, <2>4 DEF WriteInterrupted
  <2>6. /\ InterruptedRecord(p).base = job[p].base
        /\ InterruptedRecord(p).outcome # "succeeded"
        /\ job[p].base <= state.rev
        /\ \A m \in DOMAIN attempts : Credit(m) <= job[p].base
    BY <1>0, <2>1 DEF InterruptedRecord, History
  <2>7. /\ LedgerIsHistory'
        /\ DOMAIN attempts' = DOMAIN attempts \cup {NextAttempt}
        /\ \A m \in DOMAIN attempts : Credit(m)' = Credit(m)
    BY <1>0, <2>1, <2>5, <2>6, HistoryRecord DEF History
  <2>8. intent'.kind # "none" =>
           /\ intent'.base <= state'.rev
           /\ \A m \in DOMAIN attempts' : m # intent'.attempt => Credit(m)' <= intent'.base
    BY <1>0, <2>1, <2>4, <2>6, <2>7 DEF History, IntentOfJob
  <2>. QED
    BY <2>3, <2>7, <2>8 DEF History, Unfinished
<1>2. CASE AcceptObservation(p) \/ AcceptState(p) \/ ClearRecovery(p)
  <2>1. \E where \in RecoverPcs \ {"r_record"} : \E locals : Goto(p, where, locals)
    BY <1>2 DEF AcceptObservation, AcceptState, ClearRecovery, RecoverPcs
  <2>2. /\ UNCHANGED <<attempts, intent, lock>> /\ pc[p] # "idle"
        /\ state'.rev \in {state.rev, state.rev + 1}
    BY <1>2 DEF AcceptObservation, AcceptState, ClearRecovery
  <2>3. \A q \in Procs : pc'[q] \notin Unfinished
    BY <1>0, <2>1, <2>2, Moves DEF Unfinished, Working, RecoverPcs
  <2>4. state'.rev \in Nat /\ state.rev <= state'.rev
    BY <1>0, <2>2
  <2>. QED
    BY <1>0, <2>2, <2>3, <2>4, HistoryKept DEF Unfinished
<1>3. CASE AcceptFails(p) \/ DropIntent(p)
  <2>1. /\ pc[p] # "idle" /\ Return(p) /\ intent' \in {intent, NoIntent}
        /\ UNCHANGED <<state, attempts>>
    BY <1>3 DEF AcceptFails, DropIntent
  <2>2. \A q \in Procs : pc'[q] \notin Unfinished
    BY <1>0, <2>1, Ends DEF Unfinished, Working
  <2>. QED
    BY <1>0, <2>1, <2>2, HistoryKept DEF Unfinished, NoIntent
<1>. QED
  BY <1>1, <1>2, <1>3 DEF RecoverAction

LEMMA HistoryOutside ==
  ASSUME RunInv, History,
         \/ \E p \in Procs : ProbeReturns(p) \/ Abandon(p)
         \/ \E kind \in EditKinds : Edit(kind)
         \/ \E n \in live : OrphanExits(n)
  PROVE  History'
<1>0. TypeInv /\ Mutex /\ state.rev \in Nat
  BY DEF RunInv, TypeInv, TypeOK
<1>1. ASSUME NEW p \in Procs, ProbeReturns(p) \/ Abandon(p)
      PROVE  History'
  <2>1. pc[p] # "idle" /\ Return(p) /\ UNCHANGED <<state, attempts, intent>>
    BY <1>1 DEF ProbeReturns, Abandon, disk
  <2>2. \A q \in Procs : pc'[q] \notin Unfinished
    BY <1>0, <2>1, Ends DEF Unfinished, Working
  <2>. QED
    BY <1>0, <2>1, <2>2, HistoryKept DEF Unfinished
<1>2. ASSUME NEW kind \in EditKinds, Edit(kind)
      PROVE  History'
  <2>1. /\ \/ intent'.kind = "none"
           \/ /\ intent.kind # "none"
              /\ intent'.attempt = intent.attempt /\ intent'.base = intent.base
        /\ UNCHANGED <<state, attempts, pc, job>>
    BY <1>0, <1>2, EditedIntent DEF NoIntent
  <2>. QED
    BY <1>0, <2>1, HistoryKept DEF History, Unfinished
<1>3. ASSUME NEW n \in live, OrphanExits(n)
      PROVE  History'
  <2>1. UNCHANGED <<state, attempts, intent, pc, job>>
    BY <1>3 DEF OrphanExits, disk
  <2>. QED
    BY <1>0, <2>1, HistoryKept DEF History, Unfinished
<1>. QED
  BY <1>1, <1>2, <1>3

LEMMA HistoryHolds == Spec => []History
<1>1. Init => History
  <2>1. ASSUME Init
        PROVE  History
    <3>1. DOMAIN attempts = {} /\ Cardinality(DOMAIN attempts) = 0
      BY <2>1, FS_EmptySet DEF Init
    <3>. QED
      BY <2>1, <3>1 DEF Init, History, LedgerIsHistory, NoIntent, Working
  <2>. QED
    BY <2>1
<1>2. RunInv /\ History /\ [Next]_vars => History'
  <2>1. ASSUME RunInv, History, UNCHANGED vars
        PROVE  History'
    <3>1. /\ TypeInv /\ state.rev \in Nat
          /\ UNCHANGED <<state, attempts, intent, pc, job>>
      BY <2>1 DEF vars, disk, project, RunInv, TypeInv, TypeOK
    <3>. QED
      BY <2>1, <3>1, HistoryKept DEF History, Unfinished
  <2>. QED
    BY <2>1, HistoryBegin, HistoryStep, HistoryRecover, HistoryOutside DEF Next
<1>. QED
  BY <1>1, <1>2, RunInvHolds, PTL DEF Spec

(* The attempts on disk, interrupted ones included, tell how the run got to  *)
(* its revision: no gap in the numbers, and each attempt starts no earlier   *)
(* than where the attempts before it had brought the run.                    *)
THEOREM LedgerStaysHistory == Spec => []LedgerIsHistory
<1>1. History => LedgerIsHistory
  BY DEF History
<1>. QED
  BY <1>1, HistoryHolds, PTL

-----------------------------------------------------------------------------
(* No dispatch is lost, as long as no worker deletes its intent.           *)

LEMMA KeptIntent ==
  ASSUME TypeInv, NEW kind \in EditKinds, Edit(kind), "delete" \notin WorkerEdits
  PROVE  /\ intent'.kind = "none" <=> intent.kind = "none"
         /\ intent'.attempt = intent.attempt /\ intent'.base = intent.base
         /\ UNCHANGED <<state, attempts, recovery, lock, pc, job, live, started>>
BY DEF Edit, Damaged, Intent, TypeInv, TypeOK

LEMMA AccountedBegin ==
  ASSUME RunInv, Accounted, NEW p \in Procs, Begin(p)
  PROVE  Accounted'
<1>0. TypeInv /\ Mutex
  BY DEF RunInv
<1>1. CASE BeginStep(p)
  <2>. DEFINE locals == [NoJob EXCEPT !.attempt = NextAttempt, !.base = state.rev,
                            !.seen = observation, !.control = TRUE, !.intact = TRUE]
  <2>1. Acquire(p, "dispatch", locals)
    BY <1>1 DEF BeginStep
  <2>. HIDE DEF locals
  <2>2. /\ pc'[p] = "dispatch"
        /\ \A q \in Procs : pc[q] = "idle"
        /\ \A q \in Procs : q # p => pc'[q] = "idle"
    BY <1>0, <2>1, Starts
  <2>3. /\ UNCHANGED <<attempts, recovery, started>>
        /\ intent'.kind = "sound" /\ intent.kind = "none" /\ ~recovery.some
    BY <1>1 DEF BeginStep, RecoveryPending
  <2>. QED
    BY <2>2, <2>3 DEF Accounted, NoLostDispatch, Working, StepPcs, RecoverPcs
<1>2. CASE BeginRecover(p)
  <2>. DEFINE where == IF NeedsRecord THEN "r_record" ELSE AfterRecord(AppliesObservation)
              locals == [NoJob EXCEPT !.attempt = intent.attempt, !.base = intent.base,
                            !.intact = (intent.kind = "sound"),
                            !.apply = AppliesObservation]
  <2>1. where \in {"r_record", "r_observation", "r_recovery"}
    BY DEF AfterRecord
  <2>2. Acquire(p, where, locals)
    BY <1>2 DEF BeginRecover
  <2>3. where = "r_record" => intent.kind # "none"
    BY DEF AfterRecord, NeedsRecord
  <2>4. where # "r_record" /\ intent.kind # "none" => intent.attempt \in DOMAIN attempts
    <3>1. CASE intent.kind = "garbled"
      <4>1. recovery.some /\ recovery.attempt \in DOMAIN attempts
        BY <1>2, <3>1 DEF BeginRecover, RecoverAccepts, IntentValid, RecoveryValid
      <4>2. recovery.attempt # 0
        BY <1>0, <4>1, FS_CardinalityType DEF RunInv, Numbering, TypeInv, FiniteAttempts
      <4>. QED
        BY <3>1, <4>1, <4>2 DEF Accounted
    <3>2. CASE intent.kind # "garbled"
      BY <1>0, <3>2 DEF NeedsRecord, TypeInv, TypeOK, Intent
    <3>. QED
      BY <3>1, <3>2
  <2>. HIDE DEF where, locals
  <2>5. /\ pc'[p] = where
        /\ \A q \in Procs : pc[q] = "idle"
        /\ \A q \in Procs : q # p => pc'[q] = "idle"
    BY <1>0, <2>1, <2>2, Starts
  <2>6. UNCHANGED <<attempts, intent, recovery, started>>
    BY <1>2 DEF BeginRecover, disk, project
  <2>. QED
    BY <2>1, <2>3, <2>4, <2>5, <2>6
       DEF Accounted, NoLostDispatch, Working, StepPcs, RecoverPcs
<1>3. CASE BeginProbe(p)
  <2>1. /\ pc'[p] = "probing"
        /\ \A q \in Procs : pc[q] = "idle"
        /\ \A q \in Procs : q # p => pc'[q] = "idle"
    BY <1>0, <1>3, Starts DEF BeginProbe
  <2>2. UNCHANGED <<attempts, intent, recovery, started>>
    BY <1>3 DEF BeginProbe, disk, project
  <2>. QED
    BY <2>1, <2>2 DEF Accounted, NoLostDispatch, Working, StepPcs, RecoverPcs
<1>. QED
  BY <1>1, <1>2, <1>3 DEF Begin

LEMMA AccountedStep ==
  ASSUME RunInv, Accounted, NEW p \in Procs, StepAction(p)
  PROVE  Accounted'
<1>0. /\ TypeInv /\ Mutex /\ Numbering /\ IntentOfJob /\ job[p] \in Job
  BY DEF RunInv, TypeInv, TypeOK
<1>1. CASE \/ Dispatch(p) \/ WorkerReturns(p)
           \/ ProviderFails(p) \/ RejectResponse(p) \/ AcceptResponse(p)
  <2>1. PICK where \in Working \cup {"record"}, locals \in Job :
          Goto(p, where, locals) /\ locals.attempt = job[p].attempt
    BY <1>0, <1>1, Judges
  <2>2. UNCHANGED <<attempts, intent, recovery, lock>> /\ pc[p] \in Working
    BY <1>0, <1>1, Judges DEF disk
  <2>3. /\ pc'[p] = where /\ job'[p] = locals
        /\ \A q \in Procs : q # p => pc[q] = "idle" /\ pc'[q] = "idle"
    BY <1>0, <2>1, <2>2, Moves DEF Working
  <2>4. started' \subseteq started \cup {job[p].attempt}
    BY <1>1 DEF Dispatch, WorkerReturns, ProviderFails, RejectResponse, AcceptResponse,
                Verify, project
  <2>5. NoLostDispatch'
    BY <2>1, <2>2, <2>3, <2>4 DEF Accounted, NoLostDispatch, Working, StepPcs
  <2>. QED
    BY <2>1, <2>2, <2>3, <2>5 DEF Accounted, Working, RecoverPcs
<1>2. CASE SaveArchive(p) \/ SaveObservation(p) \/ SaveState(p) \/ SaveFails(p)
  <2>1. /\ UNCHANGED <<attempts, intent, recovery, lock, started>>
        /\ pc[p] \in Working
    BY <1>2 DEF SaveArchive, SaveObservation, SaveState, SaveFails, project, Working
  <2>2. PICK where \in Working \cup {"record"}, locals \in Job :
          Goto(p, where, locals) /\ locals.attempt = job[p].attempt
    BY <1>0, <1>2, Saves, SavesState
  <2>3. /\ pc'[p] = where /\ job'[p] = locals
        /\ \A q \in Procs : q # p => pc[q] = "idle" /\ pc'[q] = "idle"
    BY <1>0, <2>1, <2>2, Moves DEF Working
  <2>4. NoLostDispatch'
    BY <2>1, <2>2, <2>3 DEF Accounted, NoLostDispatch, Working, StepPcs
  <2>. QED
    BY <2>1, <2>2, <2>3, <2>4 DEF Accounted, Working, RecoverPcs
<1>3. CASE WriteRecord(p)
  <2>. DEFINE where == IF job[p].outcome = "recovery_required" THEN "mark" ELSE "clear"
  <2>1. /\ Goto(p, where, job[p]) /\ pc[p] = "record"
        /\ UNCHANGED <<intent, recovery, lock, started>>
        /\ DOMAIN attempts' = DOMAIN attempts \cup {job[p].attempt}
    BY <1>3 DEF WriteRecord, PutRecord, project
  <2>2. /\ pc'[p] = where /\ job'[p] = job[p]
        /\ \A q \in Procs : q # p => pc[q] = "idle" /\ pc'[q] = "idle"
    BY <1>0, <2>1, Moves
  <2>3. NoLostDispatch'
    BY <2>1, <2>2 DEF Accounted, NoLostDispatch, StepPcs
  <2>. QED
    BY <2>1, <2>2, <2>3 DEF Accounted, Working, RecoverPcs
<1>4. CASE MarkRecovery(p)
  <2>1. /\ Goto(p, "clear", job[p]) /\ pc[p] = "mark"
        /\ UNCHANGED <<attempts, intent, lock, started>>
        /\ recovery'.attempt = job[p].attempt
    BY <1>4 DEF MarkRecovery, project
  <2>2. /\ pc'[p] = "clear" /\ job'[p] = job[p]
        /\ \A q \in Procs : q # p => pc[q] = "idle" /\ pc'[q] = "idle"
    BY <1>0, <2>1, Moves
  <2>3. NoLostDispatch'
    BY <2>1, <2>2 DEF Accounted, NoLostDispatch, StepPcs
  <2>. QED
    BY <1>0, <2>1, <2>2, <2>3 DEF Accounted, IntentOfJob, StepPcs, Working, RecoverPcs
<1>5. CASE ClearIntent(p)
  <2>1. /\ pc[p] = "clear" /\ Return(p) /\ intent' \in {intent, NoIntent}
        /\ UNCHANGED <<attempts, recovery, started>>
    BY <1>5 DEF ClearIntent, project
  <2>2. /\ \A q \in Procs : pc'[q] = "idle"
        /\ \A q \in Procs : q # p => pc[q] = "idle"
    BY <1>0, <2>1, Ends
  <2>3. NoLostDispatch'
    BY <1>0, <2>1, <2>2 DEF Accounted, NoLostDispatch, StepPcs, IntentOfJob
  <2>. QED
    BY <2>1, <2>2, <2>3 DEF Accounted, Working, RecoverPcs, NoIntent
<1>. QED
  BY <1>1, <1>2, <1>3, <1>4, <1>5 DEF StepAction

LEMMA AccountedRecover ==
  ASSUME RunInv, Accounted, NEW p \in Procs, RecoverAction(p)
  PROVE  Accounted'
<1>0. TypeInv /\ Mutex /\ IntentOfJob /\ job[p] \in Job
  BY DEF RunInv, TypeInv, TypeOK
<1>1. CASE WriteInterrupted(p)
  <2>. DEFINE where == AfterRecord(job[p].apply)
  <2>1. /\ Goto(p, where, job[p]) /\ pc[p] = "r_record"
        /\ UNCHANGED <<intent, recovery, lock, started>>
        /\ DOMAIN attempts' = DOMAIN attempts \cup {job[p].attempt}
    BY <1>1 DEF WriteInterrupted, PutRecord, project
  <2>2. where \in {"r_observation", "r_recovery"}
    BY DEF AfterRecord
  <2>. HIDE DEF where
  <2>3. /\ pc'[p] = where
        /\ \A q \in Procs : q # p => pc[q] = "idle" /\ pc'[q] = "idle"
    BY <1>0, <2>1, <2>2, Moves
  <2>4. NoLostDispatch'
    BY <2>1, <2>2, <2>3 DEF Accounted, NoLostDispatch, StepPcs
  <2>5. intent.attempt = job[p].attempt
    BY <1>0, <2>1 DEF Accounted, IntentOfJob
  <2>. QED
    BY <2>1, <2>2, <2>3, <2>4, <2>5 DEF Accounted, Working, RecoverPcs
<1>2. CASE AcceptObservation(p) \/ AcceptState(p) \/ ClearRecovery(p)
  <2>1. PICK where \in RecoverPcs \ {"r_record"} : \E locals : Goto(p, where, locals)
    BY <1>2 DEF AcceptObservation, AcceptState, ClearRecovery, RecoverPcs
  <2>2. /\ UNCHANGED <<attempts, intent, lock, started>>
        /\ pc[p] \in RecoverPcs \ {"r_record"} /\ recovery' \in {recovery, NoRecovery}
    BY <1>2 DEF AcceptObservation, AcceptState, ClearRecovery, project, RecoverPcs
  <2>3. /\ pc'[p] = where
        /\ \A q \in Procs : q # p => pc[q] = "idle" /\ pc'[q] = "idle"
    BY <1>0, <2>1, <2>2, Moves DEF RecoverPcs
  <2>4. NoLostDispatch'
    BY <2>2, <2>3 DEF Accounted, NoLostDispatch, StepPcs, RecoverPcs
  <2>. QED
    BY <2>2, <2>3, <2>4 DEF Accounted, Working, RecoverPcs, NoRecovery
<1>3. CASE AcceptFails(p) \/ DropIntent(p)
  <2>1. /\ pc[p] \in {"r_observation", "r_state", "r_intent"} /\ Return(p)
        /\ intent' \in {intent, NoIntent}
        /\ UNCHANGED <<attempts, recovery, started>>
    BY <1>3 DEF AcceptFails, DropIntent, project
  <2>2. /\ \A q \in Procs : pc'[q] = "idle"
        /\ \A q \in Procs : q # p => pc[q] = "idle"
    BY <1>0, <2>1, Ends
  <2>3. NoLostDispatch'
    BY <2>1, <2>2 DEF Accounted, NoLostDispatch, StepPcs, RecoverPcs
  <2>. QED
    BY <2>1, <2>2, <2>3 DEF Accounted, Working, RecoverPcs, NoIntent
<1>. QED
  BY <1>1, <1>2, <1>3 DEF RecoverAction

LEMMA AccountedOutside ==
  ASSUME RunInv, Accounted, "delete" \notin WorkerEdits,
         \/ \E p \in Procs : ProbeReturns(p) \/ Abandon(p)
         \/ \E kind \in EditKinds : Edit(kind)
         \/ \E n \in live : OrphanExits(n)
  PROVE  Accounted'
<1>0. TypeInv /\ Mutex /\ IntentOfJob
  BY DEF RunInv
<1>1. ASSUME NEW p \in Procs, ProbeReturns(p) \/ Abandon(p)
      PROVE  Accounted'
  <2>1. /\ pc[p] # "idle" /\ Return(p)
        /\ UNCHANGED <<attempts, intent, started>>
        /\ recovery' = recovery \/ recovery'.attempt = 0
    BY <1>1 DEF ProbeReturns, Abandon, disk, project
  <2>2. /\ \A q \in Procs : pc'[q] = "idle"
        /\ \A q \in Procs : q # p => pc[q] = "idle"
    BY <1>0, <2>1, Ends
  <2>3. NoLostDispatch'
    BY <1>0, <2>1, <2>2 DEF Accounted, NoLostDispatch, StepPcs, IntentOfJob, Working
  <2>. QED
    BY <2>1, <2>2, <2>3 DEF Accounted, Working, RecoverPcs
<1>2. ASSUME NEW kind \in EditKinds, Edit(kind)
      PROVE  Accounted'
  BY <1>0, <1>2, KeptIntent DEF Accounted, NoLostDispatch
<1>3. ASSUME NEW n \in live, OrphanExits(n)
      PROVE  Accounted'
  BY <1>3 DEF OrphanExits, disk, Accounted, NoLostDispatch
<1>. QED
  BY <1>1, <1>2, <1>3

LEMMA AccountedHolds ==
  ASSUME "delete" \notin WorkerEdits
  PROVE  Spec => []Accounted
<1>1. Init => Accounted
  BY DEF Init, Accounted, NoLostDispatch, NoRecovery, Working, RecoverPcs
<1>2. RunInv /\ Accounted /\ [Next]_vars => Accounted'
  <2>1. ASSUME Accounted, UNCHANGED vars
        PROVE  Accounted'
    BY <2>1 DEF vars, disk, project, Accounted, NoLostDispatch
  <2>. QED
    BY <2>1, AccountedBegin, AccountedStep, AccountedRecover, AccountedOutside DEF Next
<1>. QED
  BY <1>1, <1>2, RunInvHolds, PTL DEF Spec

(* No started worker is forgotten by any sequence of failed steps, crashes   *)
(* and recoveries: it is recorded, or its intent stands, or its step is at   *)
(* work.  A worker that deletes its own intent is excluded: if its step dies *)
(* too, nothing on disk tells of the attempt.                                *)
THEOREM NoDispatchLost ==
  ASSUME "delete" \notin WorkerEdits
  PROVE  Spec => []NoLostDispatch
<1>1. Accounted => NoLostDispatch
  BY DEF Accounted
<1>. QED
  BY <1>1, AccountedHolds, PTL
=============================================================================
