------------------------------ MODULE Monitor ------------------------------
(***************************************************************************)
(* `monitor enable`, `monitor check` and `monitor disable`: the monitor's   *)
(* state.json, changed by processes that hold monitor.lock, and the daily   *)
(* job that enable installs and disable removes (module MonitorSchedule).   *)
(* Each command reads the state when it has the lock and writes back what   *)
(* it read, changed; it may stop between any two writes.                    *)
(***************************************************************************)
EXTENDS MonitorSchedule, FiniteSets

CONSTANTS
  Baselines,    \* what the logs may hold when the monitor is first enabled
  Days,         \* calendar days on which a check may run
  MaxSnapshots, \* 90 in the code
  MaxFaults,    \* bound: crashes, failed calls, acts of other programs
  MaxWishes     \* bound: changes of the user's mind, of the program's path
                \* and of what the logs hold

VARIABLES
  mon,    \* state.json
  want,   \* the command the user calls until it succeeds: enable, enable
          \* --no-schedule or disable
  unread, \* the logs hold what cannot be accounted for: a malformed line, an
          \* unreadable file, a record without a timestamp
  wishes, faults

vars == <<registered, exe, lock, pc, local, mon, want, unread, wishes, faults>>

NoBaseline == 0

ASSUME MonitorAssumption ==
  /\ Baselines \subseteq Nat \ {NoBaseline} /\ Days \subseteq Nat
  /\ MaxSnapshots \in Nat /\ MaxFaults \in Nat /\ MaxWishes \in Nat

Wishes == {"native", "external", "off"}

State == [baseline : Baselines \cup {NoBaseline}, enabled : BOOLEAN,
          snapshots : SUBSET Days]
NoState == [baseline |-> NoBaseline, enabled |-> FALSE, snapshots |-> {}]

Exists(state) == state.baseline # NoBaseline

Local == [seen : State, native : BOOLEAN, registered : BOOLEAN,
          exe : Exes \cup {Nothing}]
NoLocal == [seen |-> NoState, native |-> FALSE, registered |-> FALSE, exe |-> Nothing]

Pcs == {"idle", "baseline", "install", "claim", "place", "hash", "turn_on",
        "turn_off", "remove", "unregister", "withdraw", "collect"}

(* Type invariant: the state of the monitor and of its commands. *)
TypeOK ==
  /\ platform \in Platforms /\ exe \in Exes
  /\ manifest \in [exe : Exes \cup {Nothing, Foreign}, hashed : BOOLEAN]
  /\ file \in [AllResources -> Exes \cup {Nothing, Foreign}]
  /\ job \in {Nothing, Foreign, "ours"}
  /\ lock \in Procs \cup {NoProc}
  /\ pc \in [Procs -> Pcs] /\ local \in [Procs -> Local]
  /\ mon \in State
  /\ want \in Wishes /\ unread \in BOOLEAN /\ wishes \in Nat /\ faults \in Nat

(* A fresh state directory, or one copied from another user with its manifest. *)
Init ==
  /\ platform \in Platforms /\ exe \in Exes
  /\ manifest \in {NoManifest, [NoManifest EXCEPT !.exe = Foreign]}
  /\ file = [r \in AllResources |-> Nothing]
  /\ job = Nothing
  /\ lock = NoProc
  /\ pc = [p \in Procs |-> "idle"] /\ local = [p \in Procs |-> NoLocal]
  /\ mon = NoState
  /\ want = "off" /\ unread \in BOOLEAN /\ wishes = 0 /\ faults = 0

env == <<exe, want, unread, wishes, faults>>

Return(p) == Goto(p, "idle", NoLocal) /\ lock' = NoProc

(* try_lock_exclusive, then read. *)
Acquire(p, where, native) ==
  /\ pc[p] = "idle" /\ lock = NoProc
  /\ lock' = p
  /\ Goto(p, where, [NoLocal EXCEPT !.seen = mon, !.native = native])

(* Mutant: a scheduled check does not wait for the lock. *)
CheckWithoutLock(p) ==
  /\ pc[p] = "idle" /\ mon.enabled
  /\ Goto(p, "collect", [NoLocal EXCEPT !.seen = mon])
  /\ UNCHANGED <<registered, mon, lock, env>>

-----------------------------------------------------------------------------
(* enable                                                                  *)

AfterBaseline(native) == IF native THEN "install" ELSE "turn_on"

(* Mutant: an enable that was interrupted starts again from nothing. *)
NotEnabled == ~mon.enabled

NeedsBaseline == ~Exists(mon)

BeginEnable(p) ==
  /\ want # "off"
  /\ LET native == (want = "native") IN
     Acquire(p, IF NeedsBaseline THEN "baseline" ELSE AfterBaseline(native), native)
  /\ UNCHANGED <<registered, mon, env>>

(* The logs are read and the baseline is saved before the job is installed. *)
SaveBaseline(p) ==
  /\ pc[p] = "baseline" /\ ~unread
  /\ \E b \in Baselines : mon' = [NoState EXCEPT !.baseline = b]
  /\ Goto(p, AfterBaseline(local[p].native), [local[p] EXCEPT !.seen = mon'])
  /\ UNCHANGED <<registered, lock, env>>

(* Nothing is saved from logs that cannot be accounted for, until the user  *)
(* has repaired them.                                                       *)
BaselineRefused(p) == pc[p] = "baseline" /\ unread

TurnOn(p) ==
  /\ pc[p] = "turn_on"
  /\ mon' = [local[p].seen EXCEPT !.enabled = TRUE]
  /\ Return(p)
  /\ UNCHANGED <<registered, env>>

-----------------------------------------------------------------------------
(* disable                                                                 *)

BeginDisable(p) ==
  /\ want = "off"
  /\ Exists(mon)
  /\ Acquire(p, "turn_off", FALSE)
  /\ UNCHANGED <<registered, mon, env>>

(* Collecting stops first, whatever becomes of the job. *)
TurnOff(p) ==
  /\ pc[p] = "turn_off"
  /\ mon' = [local[p].seen EXCEPT !.enabled = FALSE]
  /\ Goto(p, "remove", local[p])
  /\ UNCHANGED <<registered, lock, env>>

(* The manifest is removed last. *)
Release(p) ==
  /\ Withdrawn(p)
  /\ manifest' = NoManifest
  /\ Return(p)
  /\ UNCHANGED <<platform, file, job, mon, env>>

-----------------------------------------------------------------------------
(* check                                                                   *)

BeginCheck(p) ==
  /\ mon.enabled
  /\ Acquire(p, "collect", FALSE)
  /\ UNCHANGED <<registered, mon, env>>

(* One snapshot per day, the latest MaxSnapshots of them. *)
Retained(days) ==
  {d \in days : Cardinality({e \in days : e > d}) < MaxSnapshots}

Collect(p) ==
  /\ pc[p] = "collect"
  /\ \E day \in Days :
       mon' = [local[p].seen EXCEPT !.snapshots = Retained(@ \cup {day})]
  /\ Goto(p, "idle", NoLocal)
  /\ lock' = IF lock = p THEN NoProc ELSE lock
  /\ UNCHANGED <<registered, env>>

-----------------------------------------------------------------------------

ScheduleStep(p) ==
  /\ InstallCheck(p) \/ Claim(p) \/ Place(p) \/ Register(p) \/ RecordHash(p)
       \/ RemoveCheck(p) \/ Unregister(p) \/ Withdraw(p)
  /\ UNCHANGED <<mon, env>>

(* A conflict ends the command; so do unreadable logs, and finding nothing  *)
(* to remove.                                                               *)
GiveUp(p) ==
  /\ BaselineRefused(p) \/ InstallRefused(p) \/ RemoveRefused(p) \/ NothingToRemove(p)
  /\ Return(p)
  /\ UNCHANGED <<registered, mon, env>>

Continue(p) ==
  \/ SaveBaseline(p) \/ TurnOn(p) \/ TurnOff(p) \/ Release(p) \/ Collect(p)
  \/ ScheduleStep(p) \/ GiveUp(p)

(* The process dies, or a call fails and the error is returned. *)
Abandon(p) ==
  /\ pc[p] # "idle" /\ faults < MaxFaults
  /\ faults' = faults + 1
  /\ Return(p)
  /\ UNCHANGED <<registered, exe, mon, want, unread, wishes>>

Others ==
  /\ \/ LoginLoads /\ UNCHANGED faults
     \/ /\ faults < MaxFaults /\ faults' = faults + 1
        /\ ForeignJob \/ \E r \in AllResources : ForeignFile(r)
  /\ UNCHANGED <<exe, lock, pc, local, mon, want, unread, wishes>>

(* The user changes his mind, or installs the program elsewhere; a log is   *)
(* damaged or repaired.                                                     *)
User ==
  /\ wishes < MaxWishes /\ wishes' = wishes + 1
  /\ \/ want' \in Wishes \ {want} /\ UNCHANGED <<exe, unread>>
     \/ exe' \in Exes \ {exe} /\ UNCHANGED <<want, unread>>
     \/ unread' = ~unread /\ UNCHANGED <<exe, want>>
  /\ UNCHANGED <<registered, lock, pc, local, mon, faults>>

Begin(p) == BeginEnable(p) \/ BeginDisable(p) \/ BeginCheck(p)

Next == (\E p \in Procs : Begin(p) \/ Continue(p) \/ Abandon(p)) \/ Others \/ User

Spec == Init /\ [][Next]_vars

(* A command in progress goes on.  The user repeats the command until it    *)
(* succeeds; a check holds the lock for a moment and runs once a day, so    *)
(* that a command tried often enough finds the lock free.                   *)
Fairness ==
  /\ \A p \in Procs : WF_vars(Continue(p))
  /\ SF_vars(\E p \in Procs : BeginEnable(p))
  /\ SF_vars(\E p \in Procs : BeginDisable(p))

FairSpec == Spec /\ Fairness

-----------------------------------------------------------------------------
(* Properties.                                                             *)

(* A baseline, once saved, is the baseline: no interrupted, repeated or     *)
(* concurrent enable counts later sessions among the ones before it.        *)
BaselineKept ==
  [][Exists(mon) => mon'.baseline = mon.baseline]_vars

(* After disable nothing is collected and nothing turns the collector on    *)
(* again but an enable, not even a check that had started before.           *)
DisableSticks ==
  [][~mon.enabled =>
       /\ mon'.snapshots = mon.snapshots
       /\ mon'.enabled => \E p \in Procs : pc[p] = "turn_on"]_vars

(* Somebody else's job, file or manifest is in the way, or an edit of ours. *)
Conflict == Foreign \in {manifest.exe, job} \cup {file[r] : r \in Ours}

(* However often the commands are interrupted, repeating the one the user   *)
(* wants brings the monitor there, unless a conflict needs his attention,   *)
(* the program was moved, which enable refuses, or there is no baseline yet *)
(* and the logs cannot be accounted for.                                    *)
NoBaselineToBeHad == ~Exists(mon) /\ unread

WishGranted ==
  /\ want = "off" ~>
       want # "off" \/ Conflict \/ (~mon.enabled /\ ~Owned /\ job = Nothing)
  /\ want = "external" ~> want # "external" \/ mon.enabled \/ NoBaselineToBeHad
  /\ want = "native" ~>
       \/ want # "native" \/ NoBaselineToBeHad
       \/ Conflict \/ (Owned /\ manifest.exe # exe)
       \/ mon.enabled /\ Owned /\ job = "ours"
=============================================================================
