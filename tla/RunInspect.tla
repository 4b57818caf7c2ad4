----------------------------- MODULE RunInspect -----------------------------
(***************************************************************************)
(* The commands that look at a run while others step and recover it: `run   *)
(* status` and `run ledger`, which go on without the run lock when another  *)
(* command has it, `run packet`, which does not, and `run prompt`, which    *)
(* never asks for it.  They read file by file and write nothing, but the    *)
(* one that holds the lock turns every other command away.                  *)
(***************************************************************************)
EXTENDS RunEngine

VARIABLE view  \* what the looking command has read so far

Inspections == {"report", "packet", "prompt"}

View == [stage : {"none", "state", "observation", "attempts", "intent"},
         cmd : Inspections, holds : BOOLEAN, busy : BOOLEAN, rev : Nat,
         seen : Nat, noted : BOOLEAN, records : SUBSET Nat]

NoView == [stage |-> "none", cmd |-> "report", holds |-> FALSE, busy |-> FALSE,
           rev |-> 0, seen |-> Foreign, noted |-> FALSE, records |-> {}]

(* Type invariant: what the looking command has read. *)
InspectTypeOK == view \in View

InspectInit == Init /\ view = NoView

(* Mutant: a report made beside a working command does not say so. *)
NeverBusy(cmd) == FALSE

SaysBusy(cmd) == cmd = "report" /\ lock # NoProc

(* try_lock: RunBusy is an answer for a report, and an error for a packet. *)
Look(cmd) ==
  /\ view.stage = "none"
  /\ cmd = "packet" => lock = NoProc
  /\ view' = [NoView EXCEPT !.stage = "state", !.cmd = cmd,
                            !.holds = cmd # "prompt" /\ lock = NoProc,
                            !.busy = SaysBusy(cmd)]

(* RunStore::load, which refuses wrecked files: there is no report then. *)
ReadState ==
  /\ view.stage = "state"
  /\ view' = IF loads THEN [view EXCEPT !.stage = "observation", !.rev = state.rev]
             ELSE NoView

ReadObservation ==
  /\ view.stage = "observation"
  /\ view' = IF view.cmd = "report"
             THEN [view EXCEPT !.stage = "attempts", !.seen = observation,
                               !.noted = recovery.some]
             ELSE NoView

ReadAttempts ==
  /\ view.stage = "attempts"
  /\ view' = [view EXCEPT !.stage = "intent", !.records = DOMAIN attempts]

(* The intent is read last; then the report is made and the lock released.  *)
(* An intent that does not parse is an error instead of a report.           *)
ReadIntent == view.stage = "intent" /\ view' = NoView

Inspect ==
  \/ \E cmd \in Inspections : Look(cmd)
  \/ ReadState \/ ReadObservation \/ ReadAttempts \/ ReadIntent

(* RunBusy: no command begins while an inspection holds the lock. *)
EngineNext == Next /\ (view.holds => lock' = NoProc)

InspectNext == (Inspect /\ UNCHANGED vars) \/ (EngineNext /\ UNCHANGED view)

InspectSpec == InspectInit /\ [][InspectNext]_<<vars, view>>

-----------------------------------------------------------------------------

Reports == view.stage = "intent" /\ view' = NoView /\ intent.kind # "garbled"

(* A report that does not call itself busy shows one moment of the run: each *)
(* worker ever started is in its records or is its pending attempt, no       *)
(* record claims a revision beyond the one shown, and unless it asks for     *)
(* recovery the prompt it measured is the next prompt (ledger.rs: only such  *)
(* a report may claim complete coverage).                                   *)
ReportsAreWhole ==
  [][Reports /\ ~view.busy =>
       LET pending == intent.kind # "none" IN
       /\ started \subseteq view.records \cup (IF pending THEN {intent.attempt} ELSE {})
       /\ \A n \in view.records : Credit(n) <= view.rev
       /\ ~pending /\ ~view.noted /\ faults <= 1 => view.seen = For(view.rev)
    ]_<<vars, view>>
=============================================================================
