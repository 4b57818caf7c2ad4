----------------------------- MODULE RunEngine -----------------------------
(***************************************************************************)
(* One bounded run: the files of .codeunlimited/runs/<name>/, the commands *)
(* `run step`, `run recover` and `run cache-probe` that change them (each  *)
(* a process holding the run lock), and the worker a step starts.          *)
(*                                                                         *)
(* Every durable write (an atomic create or an atomic rename) is a step of *)
(* its own, so a process may stop between any two of them.  What a command *)
(* computes between two writes is part of the action of the next write.    *)
(***************************************************************************)
EXTENDS Naturals, FiniteSets

CONSTANTS
  Procs,          \* processes that may run a command
  NoProc,         \* the lock is free
  MaxSteps,       \* manifest.max_steps
  MaxPerRevision, \* manifest.max_attempts_per_revision
  TokenCap,       \* manifest.max_total_tokens in attempts; 0 is None
  UsageKnown,     \* whether a provider reports usage: a set of BOOLEANs
  WorkerEdits,    \* what a worker with project access may change
  Contents,       \* what the project may hold, as far as workers care
  GitShows,       \* what git_snapshot tells of each content
  Probing,        \* whether anyone runs `run cache-probe`
  StopsOldWorker, \* the operator stops a surviving worker before `run recover`
  MaxFaults       \* bound: crashes and I/O errors of one behaviour

EditKinds == {"workspace", "control", "wreck", "alter", "garble", "delete"}

ASSUME EngineAssumption ==
  /\ NoProc \notin Procs
  /\ MaxSteps \in Nat /\ MaxPerRevision \in Nat /\ TokenCap \in Nat
  /\ UsageKnown \subseteq BOOLEAN
  /\ WorkerEdits \subseteq EditKinds
  /\ Contents # {} /\ DOMAIN GitShows = Contents
  /\ Probing \in BOOLEAN /\ StopsOldWorker \in BOOLEAN
  /\ MaxFaults \in Nat

VARIABLES
  state,        \* state.json: revision and status
  observation,  \* observation.txt: the revision it was written for
  attempts,     \* attempts/NNNNNNNN.json: number -> record
  intent,       \* attempt-intent.json
  recovery,     \* recovery.json
  archived,     \* archive/NNNNNNNN.json: the revisions that have one
  lock,         \* holder of the run lock
  pc, job,      \* per process: next write of its command, and its locals
  live,         \* attempts whose worker process is alive
  content,      \* what the project holds
  shown,        \* before_git of the last step: what git showed then
  loads,        \* manifest, workflow, state and instructions pass load()
  started,      \* history: attempts whose worker was started
  accepted,     \* history: the content last committed or acknowledged
  faults        \* crashes and I/O errors so far

disk == <<state, observation, attempts, intent, recovery, archived>>
project == <<live, content, shown, loads, started, accepted>>
vars == <<disk, lock, pc, job, project, faults>>

Statuses == {"running", "complete", "blocked"}
Outcomes == {"succeeded", "provider_failed", "invalid_transition",
             "recovery_required"}

(* Bytes of observation.txt that no transition of the run wrote: revision r *)
(* is written as r + 1, so the zero is free.                                *)
Foreign == 0
For(r) == r + 1

NotCommitted == 0
(* `own`: the record repeats the intent the step wrote, not an altered one. *)
Attempt == [base : Nat, committed : Nat, outcome : Outcomes, known : BOOLEAN,
            own : BOOLEAN]

(* `kind` tells a worker's damage apart: an altered intent parses but is not *)
(* the bytes the step wrote; a garbled one does not parse.                   *)
Intent == [kind : {"none", "sound", "altered", "garbled"},
           attempt : Nat, base : Nat]
NoIntent == [kind |-> "none", attempt |-> 0, base |-> 0]

Recovery == [some : BOOLEAN, attempt : Nat, base : Nat]
NoRecovery == [some |-> FALSE, attempt |-> 0, base |-> 0]

Job == [attempt : Nat, base : Nat, seen : Nat, control : BOOLEAN,
        intact : BOOLEAN, edited : BOOLEAN, known : BOOLEAN,
        status : Statuses, outcome : Outcomes, apply : BOOLEAN]
NoJob == [attempt |-> 0, base |-> 0, seen |-> Foreign, control |-> FALSE,
          intact |-> FALSE, edited |-> FALSE, known |-> FALSE,
          status |-> "running", outcome |-> "recovery_required", apply |-> FALSE]

StepPcs == {"dispatch", "running", "judge", "archive", "observation", "state",
            "record", "mark", "clear"}
RecoverPcs == {"r_record", "r_observation", "r_state", "r_recovery", "r_intent"}
Pcs == StepPcs \cup RecoverPcs \cup {"idle", "probing"}

(* Type invariant: the files of a run and the locals of its commands. *)
TypeOK ==
  /\ state \in [rev : Nat, status : Statuses]
  /\ observation \in Nat
  /\ DOMAIN attempts \subseteq Nat
  /\ attempts \in [DOMAIN attempts -> Attempt]
  /\ intent \in Intent
  /\ recovery \in Recovery
  /\ archived \subseteq Nat
  /\ lock \in Procs \cup {NoProc}
  /\ pc \in [Procs -> Pcs]
  /\ job \in [Procs -> Job]
  /\ live \subseteq Nat /\ started \subseteq Nat
  /\ content \in Contents /\ accepted \in Contents
  /\ shown \in {GitShows[c] : c \in Contents}
  /\ loads \in BOOLEAN
  /\ faults \in Nat

(* init_run -> RunStore::create: revision 0, empty observation, no attempts, *)
(* in a project that may hold uncommitted work of its user.                 *)
Init ==
  /\ state = [rev |-> 0, status |-> "running"]
  /\ observation = For(0)
  /\ attempts = [n \in {} |-> 0]
  /\ intent = NoIntent /\ recovery = NoRecovery /\ archived = {}
  /\ lock = NoProc
  /\ pc = [p \in Procs |-> "idle"]
  /\ job = [p \in Procs |-> NoJob]
  /\ live = {} /\ started = {} /\ loads = TRUE
  /\ content \in Contents /\ accepted = content /\ shown = GitShows[content]
  /\ faults = 0

-----------------------------------------------------------------------------
(* What a command reads under the lock, and what it decides from it.       *)

NextAttempt == Cardinality(DOMAIN attempts) + 1

AttemptsAt(rev) == {n \in DOMAIN attempts : attempts[n].base = rev}

(* Mutant: the intent of an interrupted step does not block. *)
NotePending == recovery.some

(* read_attempt_intent or recovery.json blocks every dispatch. *)
RecoveryPending == recovery.some \/ intent.kind # "none"

(* Mutant: unknown usage counts as zero. *)
UnknownIsFree ==
  TokenCap = 0 \/ Cardinality({n \in DOMAIN attempts : attempts[n].known}) < TokenCap

(* cap_admission_error, each known attempt costing one unit of the cap. *)
CapAdmits ==
  \/ TokenCap = 0
  \/ DOMAIN attempts = {}
  \/ /\ \A n \in DOMAIN attempts : attempts[n].known
     /\ Cardinality(DOMAIN attempts) < TokenCap

(* Mutant: one attempt too many in each budget. *)
OneMoreAttempt ==
  /\ Cardinality(DOMAIN attempts) <= MaxSteps
  /\ Cardinality(AttemptsAt(state.rev)) <= MaxPerRevision

AttemptsAdmit ==
  /\ Cardinality(DOMAIN attempts) < MaxSteps
  /\ Cardinality(AttemptsAt(state.rev)) < MaxPerRevision

(* Mutant: only the run's own files are compared. *)
ControlOnly(locals, gitDown, edited) == ~locals.intact \/ ~locals.control

(* before_git against after_git.  The snapshot is HEAD and a digest of what *)
(* `git status` prints: which files are new or modified, not what they hold *)
(* and no ignored file, so several contents look the same.                  *)
Changed == GitShows[content] # shown

(* What a status of the project tells apart from what was last accepted. *)
Unaccepted == GitShows[content] # GitShows[accepted]

(* workspace_changed: git may be unable to answer, which counts as changed. *)
Ambiguous(locals, gitDown, edited) ==
  ~locals.intact \/ ~locals.control \/ gitDown \/ edited

(* record_matches_intent: every field both hold is equal. *)
RecordMatches(n) ==
  /\ n \in DOMAIN attempts
  /\ attempts[n].base = intent.base
  /\ attempts[n].own = (intent.kind = "sound")

(* What recover demands of recovery.json, and of the intent beside it. *)
RecoveryValid ==
  recovery.some =>
    /\ recovery.attempt \in DOMAIN attempts
    /\ attempts[recovery.attempt].base = recovery.base
    /\ intent.kind \in {"sound", "altered"} =>
         /\ intent.attempt = recovery.attempt
         /\ RecordMatches(recovery.attempt)

IntentValid ==
  CASE intent.kind = "none" -> recovery.some
    [] intent.kind = "garbled" -> recovery.some
    [] OTHER -> intent.attempt \in DOMAIN attempts => RecordMatches(intent.attempt)

RecoverAccepts == RecoveryValid /\ IntentValid

(* Mutant: an interrupted attempt is acknowledged even if it had committed. *)
AppliesAlways ==
  \/ recovery.some
  \/ intent.attempt \notin DOMAIN attempts
  \/ attempts[intent.attempt].outcome = "recovery_required"

(* Whether the operator's observation becomes a revision. *)
AppliesObservation ==
  \/ recovery.some
  \/ /\ intent.attempt \in DOMAIN attempts
     /\ attempts[intent.attempt].outcome = "recovery_required"
     /\ state.rev = attempts[intent.attempt].base
  \/ /\ intent.attempt \notin DOMAIN attempts
     /\ state.rev = intent.base

Goto(p, where, locals) ==
  /\ pc' = [pc EXCEPT ![p] = where]
  /\ job' = [job EXCEPT ![p] = locals]

(* The command returns: RunLock::drop releases the lock. *)
Return(p) ==
  /\ Goto(p, "idle", NoJob)
  /\ lock' = NoProc

Acquire(p, where, locals) ==
  /\ lock = NoProc
  /\ lock' = p
  /\ Goto(p, where, locals)

-----------------------------------------------------------------------------
(* `run step`: admission and the write-ahead intent.                       *)

BeginStep(p) ==
  /\ loads /\ ~RecoveryPending
  /\ state.status = "running"
  /\ CapAdmits
  /\ AttemptsAdmit
  /\ Acquire(p, "dispatch",
       [NoJob EXCEPT !.attempt = NextAttempt, !.base = state.rev,
                     !.seen = observation,
                     !.control = TRUE, !.intact = TRUE])
  /\ intent' = [kind |-> "sound", attempt |-> NextAttempt, base |-> state.rev]
  /\ shown' = GitShows[content]
  /\ UNCHANGED <<state, observation, attempts, recovery, archived,
                 live, content, loads, started, accepted, faults>>

(* provider.run spawns the worker. *)
Dispatch(p) ==
  /\ pc[p] = "dispatch"
  /\ Goto(p, "running", job[p])
  /\ live' = live \cup {job[p].attempt}
  /\ started' = started \cup {job[p].attempt}
  /\ UNCHANGED <<disk, lock, content, shown, loads, accepted, faults>>

(* A damaged intent keeps the number and revision it stood for. *)
Damaged(kind) ==
  IF intent.kind = "none" THEN intent
  ELSE CASE kind = "alter" -> [intent EXCEPT !.kind = "altered"]
         [] kind = "garble" -> [intent EXCEPT !.kind = "garbled"]
         [] kind = "delete" -> NoIntent
         [] OTHER -> intent

(* A live worker edits the project or, through it, the run's own files: a   *)
(* valid observation, or something load() refuses from then on ("wreck").   *)
Edit(kind) ==
  /\ live # {} /\ kind \in WorkerEdits
  /\ content' \in IF kind = "workspace" THEN Contents ELSE {content}
  /\ loads' = (loads /\ kind # "wreck")
  /\ observation' = IF kind = "control" THEN Foreign ELSE observation
  /\ intent' = Damaged(kind)
  /\ UNCHANGED <<state, attempts, recovery, archived, lock, pc, job,
                 live, shown, started, accepted, faults>>

(* The worker of a dead step stops by itself or is stopped by the operator. *)
OrphanExits(n) ==
  /\ n \in live
  /\ \A p \in Procs : pc[p] = "running" => job[p].attempt # n
  /\ live' = live \ {n}
  /\ UNCHANGED <<disk, lock, pc, job, content, shown, loads, started,
                 accepted, faults>>

(* When provider.run is back, control hash and intent are compared with    *)
(* what the step wrote down before the dispatch.                           *)
Compared(p) == [job[p] EXCEPT !.control = (loads /\ observation = job[p].seen),
                              !.intact = (intent.kind = "sound")]

(* The worker ends or is killed at its timeout. *)
WorkerReturns(p) ==
  /\ pc[p] = "running"
  /\ live' = live \ {job[p].attempt}
  /\ \E known \in UsageKnown : Goto(p, "judge", [Compared(p) EXCEPT !.known = known])
  /\ UNCHANGED <<disk, lock, content, shown, loads, started, accepted, faults>>

-----------------------------------------------------------------------------
(* `run step`: judging the result.                                         *)

(* The attempt will be recorded with this outcome, or as ambiguous. *)
Fails(p, locals, outcome, gitDown, edited) ==
  Goto(p, "record",
    [locals EXCEPT !.outcome = IF Ambiguous(locals, gitDown, edited)
                               THEN "recovery_required" ELSE outcome])

(* provider.run returns Err: no worker could be started, or it exited with *)
(* an error, ran into its timeout or answered something unreadable.        *)
ProviderFails(p) ==
  /\ pc[p] \in {"dispatch", "judge"}
  /\ \E gitDown \in BOOLEAN :
       Fails(p, IF pc[p] = "dispatch" THEN Compared(p) ELSE job[p],
             "provider_failed", gitDown, Changed)
  /\ UNCHANGED <<disk, lock, project, faults>>

(* What the verification command leaves in the project counts as edits. *)
Verify(left) ==
  /\ content' = left
  /\ UNCHANGED <<live, shown, loads, started, accepted>>

(* fail_transition: damaged control files, a response the run does not     *)
(* allow, failed required evidence, a budget.                              *)
RejectResponse(p) ==
  /\ pc[p] = "judge"
  /\ \E gitDown \in BOOLEAN, left \in Contents :
       /\ left # content => job[p].control /\ job[p].intact
       /\ Verify(left)
       /\ Fails(p, job[p], "invalid_transition", gitDown, Changed')
  /\ UNCHANGED <<disk, lock, faults>>

(* apply_delta accepts: the transition waits to be saved, with an archive   *)
(* batch when visible history was compacted.  git was asked just before, and *)
(* save_transition loads the run once more.                                  *)
AcceptResponse(p) ==
  /\ pc[p] = "judge"
  /\ loads /\ job[p].control /\ job[p].intact
  /\ \E gitDown \in BOOLEAN, left \in Contents, next \in Statuses,
        where \in {"archive", "observation"} :
       /\ Verify(left)
       /\ Goto(p, where, [job[p] EXCEPT !.status = next,
                            !.edited = gitDown \/ Changed'])
  /\ UNCHANGED <<disk, lock, faults>>

-----------------------------------------------------------------------------
(* `run step`: RunStore::save_transition, then finalize_attempt.           *)

SaveArchive(p) ==
  /\ pc[p] = "archive"
  /\ job[p].base + 1 \notin archived
  /\ archived' = archived \cup {job[p].base + 1}
  /\ Goto(p, "observation", job[p])
  /\ UNCHANGED <<state, observation, attempts, intent, recovery, lock,
                 project, faults>>

SaveObservation(p) ==
  /\ pc[p] = "observation"
  /\ observation' = For(job[p].base + 1)
  /\ Goto(p, "state", [job[p] EXCEPT !.seen = observation])
  /\ UNCHANGED <<state, attempts, intent, recovery, archived, lock,
                 project, faults>>

SaveState(p) ==
  /\ pc[p] = "state"
  /\ state' = [rev |-> job[p].base + 1, status |-> job[p].status]
  /\ accepted' = content
  /\ Goto(p, "record", [job[p] EXCEPT !.outcome = "succeeded"])
  /\ UNCHANGED <<observation, attempts, intent, recovery, archived, lock,
                 live, content, shown, loads, started, faults>>

(* Mutant: the observation of the lost transition stays. *)
NoRollBack(p) == faults < MaxFaults /\ faults' = faults + 1 /\ UNCHANGED observation

(* A failed state write puts the previous observation back; that write may *)
(* fail too, which save_transition ignores.                                *)
RollBack(p) ==
  \/ faults < MaxFaults /\ faults' = faults + 1 /\ observation' = job[p].seen
  \/ faults + 1 < MaxFaults /\ faults' = faults + 2 /\ UNCHANGED observation

(* state_commit_failed: the archive of this revision already exists, or a  *)
(* write fails.  It is judged by what git said before the save.            *)
SaveFails(p) ==
  /\ \/ /\ pc[p] = "archive" /\ job[p].base + 1 \in archived
        /\ UNCHANGED <<faults, observation>>
     \/ /\ pc[p] \in {"archive", "observation"} /\ faults < MaxFaults
        /\ faults' = faults + 1
        /\ UNCHANGED observation
     \/ pc[p] = "state" /\ RollBack(p)
  /\ Fails(p, job[p], "invalid_transition", FALSE, job[p].edited)
  /\ UNCHANGED <<state, attempts, intent, recovery, archived, lock, project>>

PutRecord(n, record) ==
  /\ n \notin DOMAIN attempts
  /\ attempts' = [m \in DOMAIN attempts \cup {n} |->
                    IF m = n THEN record ELSE attempts[m]]

(* Mutant: the record is made from the state after the commit. *)
LateRecord(p) ==
  [base |-> state.rev,
   committed |-> IF job[p].outcome = "succeeded" THEN state.rev + 1
                                                 ELSE NotCommitted,
   outcome |-> job[p].outcome, known |-> job[p].known, own |-> TRUE]

StepRecord(p) ==
  [base |-> job[p].base,
   committed |-> IF job[p].outcome = "succeeded" THEN job[p].base + 1
                                                 ELSE NotCommitted,
   outcome |-> job[p].outcome, known |-> job[p].known, own |-> TRUE]

(* Mutant: a step whose intent was damaged leaves its record to `recover`. *)
RecordIfIntact(p) ==
  /\ pc[p] = "record"
  /\ IF job[p].intact THEN PutRecord(job[p].attempt, StepRecord(p)) ELSE UNCHANGED attempts
  /\ Goto(p, IF job[p].outcome = "recovery_required" THEN "mark" ELSE "clear", job[p])
  /\ UNCHANGED <<state, observation, intent, recovery, archived, lock,
                 project, faults>>

WriteRecord(p) ==
  /\ pc[p] = "record"
  /\ PutRecord(job[p].attempt, StepRecord(p))
  /\ Goto(p, IF job[p].outcome = "recovery_required" THEN "mark" ELSE "clear", job[p])
  /\ UNCHANGED <<state, observation, intent, recovery, archived, lock,
                 project, faults>>

MarkRecovery(p) ==
  /\ pc[p] = "mark"
  /\ recovery' = [some |-> TRUE, attempt |-> job[p].attempt, base |-> job[p].base]
  /\ Goto(p, "clear", job[p])
  /\ UNCHANGED <<state, observation, attempts, intent, archived, lock,
                 project, faults>>

(* Only the intent this step wrote is removed. *)
ClearIntent(p) ==
  /\ pc[p] = "clear"
  /\ intent' = IF job[p].intact /\ intent.kind = "sound" THEN NoIntent ELSE intent
  /\ Return(p)
  /\ UNCHANGED <<state, observation, attempts, recovery, archived,
                 project, faults>>

-----------------------------------------------------------------------------
(* `run recover`.                                                          *)

(* Mutant: recovery only removes what blocks the run. *)
NeverNeedsRecord == FALSE

NeedsRecord == intent.kind \in {"sound", "altered"} /\ intent.attempt \notin DOMAIN attempts

AfterRecord(apply) == IF apply THEN "r_observation" ELSE "r_recovery"

BeginRecover(p) ==
  /\ loads /\ RecoveryPending
  /\ RecoverAccepts
  /\ StopsOldWorker => live = {}
  /\ Acquire(p, IF NeedsRecord THEN "r_record" ELSE AfterRecord(AppliesObservation),
       [NoJob EXCEPT !.attempt = intent.attempt, !.base = intent.base,
                     !.intact = (intent.kind = "sound"),
                     !.apply = AppliesObservation])
  /\ UNCHANGED <<disk, project, faults>>

(* Mutant: the record is based on the current revision. *)
RebasedRecord(p) ==
  [base |-> state.rev, committed |-> NotCommitted,
   outcome |-> "recovery_required", known |-> FALSE, own |-> job[p].intact]

(* The immutable record of an interrupted attempt; its usage is unknown. *)
InterruptedRecord(p) ==
  [base |-> job[p].base, committed |-> NotCommitted,
   outcome |-> "recovery_required", known |-> FALSE, own |-> job[p].intact]

WriteInterrupted(p) ==
  /\ pc[p] = "r_record"
  /\ PutRecord(job[p].attempt, InterruptedRecord(p))
  /\ Goto(p, AfterRecord(job[p].apply), job[p])
  /\ UNCHANGED <<state, observation, intent, recovery, archived, lock,
                 project, faults>>

(* save_transition loads the run a second time. *)
AcceptObservation(p) ==
  /\ pc[p] = "r_observation" /\ loads
  /\ observation' = For(state.rev + 1)
  /\ Goto(p, "r_state", [job[p] EXCEPT !.seen = observation])
  /\ UNCHANGED <<state, attempts, intent, recovery, archived, lock,
                 project, faults>>

AcceptState(p) ==
  /\ pc[p] = "r_state"
  /\ state' = [rev |-> state.rev + 1, status |-> "running"]
  /\ accepted' = content
  /\ Goto(p, "r_recovery", job[p])
  /\ UNCHANGED <<observation, attempts, intent, recovery, archived, lock,
                 live, content, shown, loads, started, faults>>

(* A surviving worker has wrecked the run by now, or the state write fails. *)
AcceptFails(p) ==
  /\ pc[p] \in {"r_observation", "r_state"}
  /\ IF pc[p] = "r_state" THEN RollBack(p)
                           ELSE ~loads /\ UNCHANGED <<observation, faults>>
  /\ Return(p)
  /\ UNCHANGED <<state, attempts, intent, recovery, archived, project>>

ClearRecovery(p) ==
  /\ pc[p] = "r_recovery"
  /\ recovery' = NoRecovery
  /\ Goto(p, "r_intent", job[p])
  /\ UNCHANGED <<state, observation, attempts, intent, archived, lock,
                 project, faults>>

DropIntent(p) ==
  /\ pc[p] = "r_intent"
  /\ intent' = NoIntent
  /\ Return(p)
  /\ UNCHANGED <<state, observation, attempts, recovery, archived,
                 project, faults>>

-----------------------------------------------------------------------------
(* `run cache-probe`: no attempt, no intent; the project is compared with   *)
(* its state before the two probe calls, whoever changed it meanwhile.      *)

BeginProbe(p) ==
  /\ Probing
  /\ loads /\ ~recovery.some
  /\ Acquire(p, "probing", [NoJob EXCEPT !.base = state.rev, !.seen = observation])
  /\ UNCHANGED <<disk, project, faults>>

ProbeReturns(p) ==
  /\ pc[p] = "probing"
  /\ \E changed \in BOOLEAN :
       recovery' = IF changed \/ ~loads \/ observation # job[p].seen
                   THEN [some |-> TRUE, attempt |-> 0, base |-> job[p].base]
                   ELSE recovery
  /\ Return(p)
  /\ UNCHANGED <<state, observation, attempts, intent, archived,
                 project, faults>>

-----------------------------------------------------------------------------
(* A process is killed, or an I/O error makes it return early: nothing more *)
(* is written, the operating system or Drop releases the lock, and a worker *)
(* that was running goes on without it.                                     *)
Abandon(p) ==
  /\ pc[p] # "idle"
  /\ faults < MaxFaults
  /\ faults' = faults + 1
  /\ Return(p)
  /\ UNCHANGED <<disk, project>>

StepAction(p) ==
  \/ Dispatch(p) \/ WorkerReturns(p)
  \/ ProviderFails(p) \/ RejectResponse(p) \/ AcceptResponse(p)
  \/ SaveArchive(p) \/ SaveObservation(p) \/ SaveState(p) \/ SaveFails(p)
  \/ WriteRecord(p) \/ MarkRecovery(p) \/ ClearIntent(p)

RecoverAction(p) ==
  \/ WriteInterrupted(p) \/ AcceptObservation(p) \/ AcceptState(p)
  \/ AcceptFails(p) \/ ClearRecovery(p) \/ DropIntent(p)

Begin(p) == BeginStep(p) \/ BeginRecover(p) \/ BeginProbe(p)

Next ==
  \/ \E p \in Procs :
       Begin(p) \/ StepAction(p) \/ RecoverAction(p) \/ ProbeReturns(p) \/ Abandon(p)
  \/ \E kind \in EditKinds : Edit(kind)
  \/ \E n \in live : OrphanExits(n)

Spec == Init /\ [][Next]_vars

(* A command in progress goes on: no file operation waits, the provider and *)
(* the verification command have a timeout.  An assumption: a call that what *)
(* the worker left behind holds beyond its timeout (ProviderCall, HeldUp)    *)
(* is not gone into here.                                                   *)
Progress(p) == StepAction(p) \/ RecoverAction(p) \/ ProbeReturns(p)

(* The operator of a blocked run stops the old worker and calls recover.    *)
Fairness ==
  /\ \A p \in Procs : WF_vars(Progress(p))
  /\ WF_vars(\E p \in Procs : BeginRecover(p))
  /\ WF_vars(\E n \in live : OrphanExits(n))

FairSpec == Spec /\ Fairness

-----------------------------------------------------------------------------
(* Properties.                                                             *)

(* No dispatched worker is forgotten: it is recorded, or its intent stands, *)
(* or its step is still at work.  (Write-ahead intent, record before the    *)
(* intent is cleared, and the record `recover` writes for an interruption.) *)
NoLostDispatch ==
  \A n \in started :
    \/ n \in DOMAIN attempts
    \/ intent.kind # "none" /\ intent.attempt = n
    \/ \E p \in Procs : pc[p] \in StepPcs /\ job[p].attempt = n

(* No worker is started while an earlier one may still edit the project.    *)
(* The intent of a dead step keeps the run closed until an operator, who    *)
(* stops the old worker first, recovers it.                                 *)
NoDispatchOverLiveWorker ==
  /\ \A p \in Procs : pc[p] = "dispatch" => live = {}
  /\ \A m, n \in live : m = n

(* No worker is started while a status of the project differs from that of  *)
(* what was last committed or acknowledged, through any mix of failed       *)
(* steps, crashes, I/O errors and unavailable git.  Edits the status does   *)
(* not show are another matter, see EditsAreSeen.                           *)
NoDispatchOverUnacceptedEdits ==
  \A p \in Procs : pc[p] = "dispatch" => ~Unaccepted

(* What the documents say: a failed attempt that left edits in the project  *)
(* stops the run for recovery (README.md, docs/RUNTIME.md), so a worker     *)
(* only starts on what was committed or acknowledged.  The code compares    *)
(* what `git status` prints, and a second edit of a modified file prints    *)
(* the same.                                                                *)
EditsAreSeen == \A p \in Procs : pc[p] = "dispatch" => content = accepted

(* The next prompt never pairs a revision with another revision's           *)
(* observation: when nothing blocks the run the two files agree, after any   *)
(* one crash or failed write.  (A second, in the write that puts the old     *)
(* observation back, is one too many.)                                      *)
ObservationMatchesState ==
  faults <= 1 /\ lock = NoProc /\ ~RecoveryPending => observation = For(state.rev)

Credit(n) == IF attempts[n].outcome = "succeeded"
             THEN attempts[n].committed ELSE attempts[n].base

(* The ledger reads as a history of the run: attempts are numbered without  *)
(* gaps, each starts at or after the revision the previous one reached, no  *)
(* two claim the same revision, and none claims one the run has not reached. *)
LedgerIsHistory ==
  /\ DOMAIN attempts = 1 .. Cardinality(DOMAIN attempts)
  /\ \A n \in DOMAIN attempts : Credit(n) <= state.rev
  /\ \A m, n \in DOMAIN attempts : m < n => Credit(m) <= attempts[n].base

(* Worker invocations stay within both budgets, interrupted ones included.  *)
BudgetsHold ==
  LET opened == DOMAIN attempts \cup
                  (IF intent.kind = "none" THEN {} ELSE {intent.attempt})
      base(n) == IF n \in DOMAIN attempts THEN attempts[n].base ELSE intent.base
  IN /\ Cardinality(opened) <= MaxSteps
     /\ \A n \in opened :
          Cardinality({m \in opened : base(m) = base(n)}) <= MaxPerRevision

(* Under a token cap a worker is never started after an attempt of unknown  *)
(* usage, nor once the recorded usage reached the cap.                      *)
CapHolds ==
  TokenCap # 0 => \A m \in started :
    /\ m <= TokenCap \/ m = 1
    /\ \A n \in DOMAIN attempts : n < m => attempts[n].known

(* Neither a damaged intent nor any crash hides a worker that was started,   *)
(* or lets another one start over what it left (engine.rs, step).           *)
DamageHidesNothing == NoLostDispatch /\ NoDispatchOverUnacceptedEdits

(* Whatever interrupted or ambiguous attempt the runtime left behind,       *)
(* `recover` takes it: no crash and no failed write leads to a store that   *)
(* refuses to step and refuses to recover, as long as no worker wrecked     *)
(* what load() reads before anything else.                                  *)
NeverStuck == lock = NoProc /\ RecoveryPending /\ loads => RecoverAccepts

(* Recovery is no resume: a complete or blocked run keeps its revision and  *)
(* status, also when its last attempt has to be recovered.                  *)
TerminalIsFinal == [][state.status # "running" => state' = state]_vars

(* Every revision was gained by an attempt made at the one before it: by    *)
(* its commit, or by an operator acknowledging it once.                     *)
RevisionsExplained ==
  lock = NoProc /\ ~RecoveryPending =>
    \A r \in 1 .. state.rev : \E n \in DOMAIN attempts : attempts[n].base = r - 1

(* A blocked run is eventually open again, however often the commands are   *)
(* interrupted, if the operator keeps recovering it, unless a worker        *)
(* wrecked the run's files: no command repairs those.                       *)
BlockedIsResolved == RecoveryPending ~> ~RecoveryPending \/ ~loads
=============================================================================
