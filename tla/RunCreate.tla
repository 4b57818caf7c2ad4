----------------------------- MODULE RunCreate -----------------------------
(***************************************************************************)
(* `run init` and `run start`: the directory of a run comes into being      *)
(* entry by entry (RunStore::create), while others try to create a run of   *)
(* the same name or to work on it, and with a crash or a failing call       *)
(* anywhere.  `run start` goes on with the run it created: one step after   *)
(* the other, and an exit code that tells how the run stands.  A step is    *)
(* one action here; what it does to the files is RunEngine.                 *)
(***************************************************************************)
EXTENDS Naturals, Sequences, FiniteSets

CONSTANTS
  Creators,  \* processes that run `run init` or `run start`
  NoCreator,
  MaxWorkers,\* --max-steps of a start
  MaxCreates \* bound: commands

ASSUME CreateAssumption == NoCreator \notin Creators /\ MaxWorkers \in Nat

VARIABLES
  made,     \* whether the run's directory exists
  entry,    \* its entries, each with the process that made it
  coding,   \* status in state.json, and whether the run waits for a recovery
  place,    \* per process: where its command is
  creating, \* per process: its kind, and what its steps told it
  told,     \* history: the processes that were told their run is created
  creates

creation == <<made, entry, coding, place, creating, told, creates>>

(* In the order in which they are made. *)
EntryOrder == <<"attempts", "archive", "workflow", "instructions", "manifest",
                "state", "observation", "lock">>
Entries == {EntryOrder[i] : i \in DOMAIN EntryOrder} \cup {"ignore"}
Directories == {"attempts", "archive"}

(* cleanup_partial_create, the run's own directory last. *)
CleanOrder == <<"lock", "observation", "state", "manifest", "instructions",
                "workflow", "archive", "attempts", "run">>

RunStatuses == {"running", "complete", "blocked"}
Exits == {"none", "ok", "refused", "failed", "terminal"}

Places == [phase : {"idle", "validate", "directory", "create", "clean",
                    "ignore", "loop", "step", "exit"}, pos : 0 .. 9]
At(phase, pos) == [phase |-> phase, pos |-> pos]

NotCreating == [start |-> FALSE, worked |-> 0, stop |-> FALSE, exit |-> "none"]

(* Type invariant: the entries of the run and its commands. *)
CreateTypeOK ==
  /\ made \in BOOLEAN
  /\ entry \in [Entries -> Creators \cup {NoCreator}]
  /\ coding \in [status : RunStatuses, ambiguous : BOOLEAN]
  /\ place \in [Creators -> Places]
  /\ creating \in [Creators -> [start : BOOLEAN, worked : 0 .. MaxWorkers,
                                stop : BOOLEAN, exit : Exits]]
  /\ told \subseteq Creators /\ creates \in Nat

CreateInit ==
  /\ made = FALSE /\ entry = [e \in Entries |-> NoCreator]
  /\ coding = [status |-> "running", ambiguous |-> FALSE]
  /\ place = [p \in Creators |-> At("idle", 0)]
  /\ creating = [p \in Creators |-> NotCreating]
  /\ told = {} /\ creates = 0

Place(p, phase, pos) == place' = [place EXCEPT ![p] = At(phase, pos)]

(* The command is over; what it exited with is kept for the properties.     *)
Exit(p, code) ==
  /\ Place(p, "idle", 0)
  /\ creating' = [creating EXCEPT ![p].exit = code]

Has(e) == entry[e] # NoCreator

-----------------------------------------------------------------------------
(* Creation.                                                               *)

(* A process that runs `run init`, or `run start`, for the first time. *)
Begins(p, start) ==
  /\ place[p].phase = "idle" /\ p \notin told /\ creates < MaxCreates
  /\ Place(p, "validate", 0)
  /\ creating' = [creating EXCEPT ![p] = [NotCreating EXCEPT !.start = start]]
  /\ creates' = creates + 1
  /\ UNCHANGED <<made, entry, coding, told>>

BeginInitRun(p) == Begins(p, FALSE)
BeginStart(p) == Begins(p, TRUE)

(* Provider, workflow, manifest and the first state are all checked before   *)
(* anything is made; a command that fails a check leaves no trace.           *)
Validate(p) ==
  /\ place[p].phase = "validate"
  /\ \/ Place(p, "directory", 0) /\ UNCHANGED creating
     \/ Exit(p, "refused")
  /\ UNCHANGED <<made, entry, coding, told, creates>>

(* Mutant: a directory that exists already is as good as a new one. *)
TakesAny(p) ==
  /\ place[p].phase = "directory"
  /\ made' = TRUE /\ Place(p, "create", 1)
  /\ UNCHANGED <<entry, coding, creating, told, creates>>

(* create_dir: the directory belongs to whoever makes it; RunExists.         *)
MakeDirectory(p) ==
  /\ place[p].phase = "directory"
  /\ IF made THEN Exit(p, "refused") /\ UNCHANGED made
     ELSE made' = TRUE /\ Place(p, "create", 1) /\ UNCHANGED creating
  /\ UNCHANGED <<entry, coding, told, creates>>

(* ensure_directory takes a directory that is there, atomic_create no file.  *)
MakeEntry(p) ==
  /\ place[p].phase = "create"
  /\ LET e == EntryOrder[place[p].pos] IN
     /\ Has(e) => e \in Directories
     /\ entry' = IF Has(e) THEN entry ELSE [entry EXCEPT ![e] = p]
     /\ coding' = IF e = "state" THEN [status |-> "running", ambiguous |-> FALSE] ELSE coding
  /\ IF place[p].pos < Len(EntryOrder)
     THEN Place(p, "create", place[p].pos + 1) /\ UNCHANGED <<told, creating>>
     ELSE /\ told' = told \cup {p}
          /\ IF creating[p].start THEN Place(p, "ignore", 0) /\ UNCHANGED creating
             ELSE Exit(p, "ok")
  /\ UNCHANGED <<made, creates>>

EntryFails(p) ==
  /\ place[p].phase = "create"
  /\ Place(p, "clean", 1)
  /\ UNCHANGED <<made, entry, coding, creating, told, creates>>

(* What cannot be removed stays: the directory of the run goes last, and     *)
(* only if it is empty by then.                                             *)
CleanUp(p) ==
  /\ place[p].phase = "clean"
  /\ LET e == CleanOrder[place[p].pos] IN
     IF e = "run"
     THEN /\ made' = \E x \in Entries : Has(x)
          /\ Exit(p, "failed")
          /\ UNCHANGED entry
     ELSE /\ entry' \in {[entry EXCEPT ![e] = NoCreator], entry}
          /\ Place(p, "clean", place[p].pos + 1)
          /\ UNCHANGED <<made, creating>>
  /\ UNCHANGED <<coding, told, creates>>

(* The process is killed. *)
DieCreating(p) ==
  /\ place[p].phase # "idle"
  /\ Exit(p, "failed")
  /\ UNCHANGED <<made, entry, coding, told, creates>>

(* By hand, of a directory nobody can use or is at work in. *)
Whole == \A i \in DOMAIN EntryOrder : Has(EntryOrder[i])

Discard ==
  /\ made /\ ~Whole /\ \A p \in Creators : place[p].phase \in {"idle", "validate", "directory"}
  /\ made' = FALSE /\ entry' = [e \in Entries |-> NoCreator]
  /\ UNCHANGED <<coding, place, creating, told, creates>>

-----------------------------------------------------------------------------
(* `run start` after its run is created.                                   *)

(* open, try_lock and load, as every command does that works on a run; the   *)
(* instructions may be missing, for the sake of older runs.                 *)
Loads == made /\ \A e \in Entries \ {"instructions", "ignore"} : Has(e)

IgnoreRun(p) ==
  /\ place[p].phase = "ignore" /\ ~Has("ignore")
  /\ entry' = [entry EXCEPT !["ignore"] = p]
  /\ Place(p, "loop", 0)
  /\ UNCHANGED <<made, coding, creating, told, creates>>

(* run_start_steps, and the look at the status that begins run_steps. *)
GoesOn(p) ==
  /\ creating[p].worked < MaxWorkers /\ ~creating[p].stop
  /\ coding.status = "running" /\ ~coding.ambiguous

LoopTurn(p) ==
  /\ place[p].phase = "loop"
  /\ Place(p, IF GoesOn(p) THEN "step" ELSE "exit", 0)
  /\ UNCHANGED <<made, entry, coding, creating, told, creates>>

(* One step under the run lock.  A failure of any kind ends the command, as  *)
(* does a run that is closed or ambiguous by now; so does, after a commit,   *)
(* a status that is terminal or a verification that failed.                 *)
Work(p) ==
  /\ place[p].phase = "step"
  /\ \/ /\ Loads /\ coding.status = "running" /\ ~coding.ambiguous
        /\ \E status \in RunStatuses, passed \in BOOLEAN :
             /\ status = "complete" => passed
             /\ coding' = [coding EXCEPT !.status = status]
             /\ creating' = [creating EXCEPT ![p].worked = @ + 1,
                               ![p].stop = status # "running" \/ ~passed]
        /\ Place(p, "loop", 0)
     \/ /\ coding' \in {coding, [coding EXCEPT !.ambiguous = coding.status = "running"]}
        /\ Exit(p, "failed")
  /\ UNCHANGED <<made, entry, told, creates>>

(* Somebody else's `run step` or `run recover`. *)
OthersWork ==
  /\ Loads /\ coding.status = "running"
  /\ \E status \in RunStatuses, ambiguous \in BOOLEAN :
       coding' = [status |-> status, ambiguous |-> ambiguous /\ status = "running"]
  /\ UNCHANGED <<made, entry, place, creating, told, creates>>

(* The exit code: ok for a complete run; a blocked one and a spent budget    *)
(* are terminal, and so is a cap that was reached.                           *)
ExitStart(p) ==
  /\ place[p].phase = "exit"
  /\ Exit(p, IF coding.status = "complete" THEN "ok" ELSE "terminal")
  /\ UNCHANGED <<made, entry, coding, told, creates>>

-----------------------------------------------------------------------------

CreateNext ==
  \/ \E p \in Creators :
       \/ BeginInitRun(p) \/ BeginStart(p) \/ Validate(p)
       \/ MakeDirectory(p) \/ MakeEntry(p) \/ EntryFails(p)
       \/ CleanUp(p) \/ DieCreating(p)
       \/ IgnoreRun(p) \/ LoopTurn(p) \/ Work(p) \/ ExitStart(p)
  \/ Discard \/ OthersWork

CreateSpec == CreateInit /\ [][CreateNext]_creation

-----------------------------------------------------------------------------

(* The directory of a run is the work of one process, finished or not.       *)
OneAuthor ==
  \A i, j \in DOMAIN EntryOrder :
    Has(EntryOrder[i]) /\ Has(EntryOrder[j]) => entry[EntryOrder[i]] = entry[EntryOrder[j]]

(* What was reported as created stays, whoever fails to create it again.     *)
CreatedStays ==
  \A p \in told : made /\ \A i \in DOMAIN EntryOrder : entry[EntryOrder[i]] = p

(* `run start` lets workers loose in nothing but the run it created, and not *)
(* before git is told to ignore it ("Duplicate `run start` preserves the     *)
(* existing run without a worker call", docs/VERSION-2.5.md).                *)
WorksOnItsOwn ==
  \A p \in Creators :
    creating[p].worked > 0 \/ place[p].phase = "step" => p \in told /\ entry["ignore"] = p

(* It exits with success only from a run that is complete. *)
SuccessIsEarned ==
  \A p \in Creators : creating[p].start /\ creating[p].exit = "ok" => coding.status = "complete"

(* Creating and starting a run, by several processes at once, with crashes   *)
(* and failing calls anywhere (RunStore::create, execute_start).            *)
RunsAreWhole == OneAuthor /\ CreatedStays /\ WorksOnItsOwn /\ SuccessIsEarned
=============================================================================
