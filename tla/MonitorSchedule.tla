-------------------------- MODULE MonitorSchedule --------------------------
(***************************************************************************)
(* The daily job of the usage monitor: an ownership manifest in the state  *)
(* directory, the unit files of the platform, and what the user's scheduler *)
(* (launchctl, systemctl, schtasks) holds under the job's name.            *)
(*                                                                         *)
(* Every file operation and every call of the scheduler is a step of its   *)
(* own; install and remove run inside the monitor's lock (module Monitor). *)
(***************************************************************************)
EXTENDS Naturals, Sequences

CONSTANTS
  Procs,     \* processes that may run a monitor command
  NoProc,    \* the lock is free
  Platforms, \* a subset of {"mac", "linux", "windows"}
  Exes,      \* absolute paths the program may be installed at
  Nothing,   \* no such file, job or manifest
  Foreign    \* something this program did not write, or wrote and was edited

ASSUME ScheduleAssumption ==
  /\ NoProc \notin Procs
  /\ Platforms \subseteq {"mac", "linux", "windows"}
  /\ Nothing # Foreign /\ {Nothing, Foreign} \cap (Exes \cup {"ours"}) = {}

VARIABLES
  platform,  \* Context.platform
  exe,       \* where the program is installed now
  manifest,  \* schedule-owner.json: the executable, and registered_hash is Some
  file,      \* the resources on disk; our text is named by its executable
  job,       \* what the scheduler holds under our name
  lock,      \* monitor.lock
  pc, local  \* per process: next operation of its command, and its locals

registered == <<platform, manifest, file, job>>

(* render: the resources of the job, in the order in which they are written. *)
Resources ==
  CASE platform = "mac" -> <<"plist">>
    [] platform = "linux" -> <<"service", "timer">>
    [] platform = "windows" -> <<"task">>

AllResources == {"plist", "service", "timer", "task"}
Ours == {Resources[i] : i \in DOMAIN Resources}

NoManifest == [exe |-> Nothing, hashed |-> FALSE]

Owned == manifest.exe # Nothing

(* read_owner: a manifest of another state directory, user or environment. *)
ManifestReadable == manifest.exe # Foreign

(* verify_files: nothing lies where the job's files go, except our own text. *)
FilesVerify(path) ==
  \A r \in Ours : file[r] = Nothing \/ (Owned /\ file[r] = path)

(* The task matches what was registered, by its hash or, before that was   *)
(* recorded, by its fields and the token in its description.               *)
TaskMatches == job = "ours"

(* probe: whether the job is registered ... *)
Registered ==
  IF platform = "linux" THEN \E r \in Ours : file[r] # Nothing
                        ELSE job # Nothing

(* ... and whether what is registered may be taken for ours. *)
ProbeAccepts ==
  IF platform = "linux" THEN job # Foreign /\ (Registered => Owned)
                        ELSE job = Nothing \/ (Owned /\ TaskMatches)

Goto(p, where, locals) ==
  /\ pc' = [pc EXCEPT ![p] = where]
  /\ local' = [local EXCEPT ![p] = locals]

-----------------------------------------------------------------------------
(* install_with                                                            *)

(* Mutant: an unowned job of the same name is taken over. *)
InstallsOverJob ==
  /\ ManifestReadable
  /\ Owned => manifest.exe = exe
  /\ FilesVerify(exe)

InstallAccepted ==
  /\ ManifestReadable
  /\ Owned => manifest.exe = exe
  /\ FilesVerify(exe)
  /\ ProbeAccepts

InstallCheck(p) ==
  /\ pc[p] = "install"
  /\ InstallAccepted
  /\ Goto(p, "claim", [local[p] EXCEPT !.exe = exe, !.registered = Registered])
  /\ UNCHANGED <<registered, lock>>

(* The manifest comes first, so that whatever follows can be removed again. *)
Claim(p) ==
  /\ pc[p] = "claim"
  /\ manifest' = IF Owned THEN manifest ELSE [exe |-> local[p].exe, hashed |-> FALSE]
  /\ Goto(p, "place", local[p])
  /\ UNCHANGED <<platform, file, job, lock>>

Missing(i) == i \in DOMAIN Resources /\ file[Resources[i]] = Nothing

(* atomic_create of the next file that is not there. *)
Place(p) ==
  /\ pc[p] = "place"
  /\ \E i \in DOMAIN Resources :
       /\ Missing(i) /\ \A k \in 1 .. i - 1 : ~Missing(k)
       /\ file' = [file EXCEPT ![Resources[i]] = local[p].exe]
  /\ UNCHANGED <<platform, manifest, job, lock, pc, local>>

(* What the scheduler holds after it read our file: only Windows stores the *)
(* text, the others the path.                                              *)
Loaded ==
  IF platform = "windows" /\ file["task"] \notin Exes THEN Foreign ELSE "ours"

(* A job of that name that appeared since the probe: bootstrap and /Create  *)
(* (which is called without /F) refuse.                                    *)
NameTaken(p) == platform # "linux" /\ ~local[p].registered /\ job # Nothing

Register(p) ==
  /\ pc[p] = "place"
  /\ \A i \in DOMAIN Resources : ~Missing(i)
  /\ ~NameTaken(p)
  /\ job' = IF platform # "linux" /\ local[p].registered THEN job ELSE Loaded
  /\ Goto(p, IF platform = "windows" /\ ~(manifest.hashed /\ local[p].registered)
             THEN "hash" ELSE "turn_on", local[p])
  /\ UNCHANGED <<platform, manifest, file, lock>>

(* Windows: what the scheduler exports must match what was registered. *)
RecordHash(p) ==
  /\ pc[p] = "hash"
  /\ TaskMatches
  /\ manifest' = [manifest EXCEPT !.hashed = TRUE]
  /\ Goto(p, "turn_on", local[p])
  /\ UNCHANGED <<platform, file, job, lock>>

InstallRefused(p) ==
  \/ pc[p] = "install" /\ ~InstallAccepted
  \/ pc[p] = "place" /\ (\A i \in DOMAIN Resources : ~Missing(i)) /\ NameTaken(p)
  \/ pc[p] = "hash" /\ ~TaskMatches

-----------------------------------------------------------------------------
(* remove_with                                                             *)

(* Mutant: the files are compared with the text of the running program. *)
RemovesOwnVersion == ManifestReadable /\ FilesVerify(exe) /\ ProbeAccepts

RemoveAccepted == ManifestReadable /\ FilesVerify(manifest.exe) /\ ProbeAccepts

RemoveCheck(p) ==
  /\ pc[p] = "remove"
  /\ Owned /\ RemoveAccepted
  /\ Goto(p, "unregister", [local[p] EXCEPT !.exe = manifest.exe,
                                            !.registered = Registered])
  /\ UNCHANGED <<registered, lock>>

(* bootout, disable --now or /Delete, when there is something to stop. *)
Unregister(p) ==
  /\ pc[p] = "unregister"
  /\ job' = IF local[p].registered THEN Nothing ELSE job
  /\ Goto(p, "withdraw", local[p])
  /\ UNCHANGED <<platform, manifest, file, lock>>

(* Only a file that still holds our text is removed. *)
Withdraw(p) ==
  /\ pc[p] = "withdraw"
  /\ \E i \in DOMAIN Resources :
       /\ file[Resources[i]] = local[p].exe
       /\ \A k \in 1 .. i - 1 : file[Resources[k]] # local[p].exe
       /\ file' = [file EXCEPT ![Resources[i]] = Nothing]
  /\ UNCHANGED <<platform, manifest, job, lock, pc, local>>

Withdrawn(p) == pc[p] = "withdraw" /\ \A r \in Ours : file[r] # local[p].exe

RemoveRefused(p) == pc[p] = "remove" /\ Owned /\ ~RemoveAccepted
NothingToRemove(p) == pc[p] = "remove" /\ ~Owned

-----------------------------------------------------------------------------
(* The scheduler and other programs.                                       *)

(* A login loads the agent that lies in LaunchAgents. *)
LoginLoads ==
  /\ platform = "mac" /\ lock = NoProc
  /\ job = Nothing /\ file["plist"] \in Exes
  /\ job' = "ours"
  /\ UNCHANGED <<platform, manifest, file>>

(* A job of the same name appears; systemd lets it through only between two *)
(* commands, because enable and disable there name no path.                *)
ForeignJob ==
  /\ job # Foreign
  /\ platform = "linux" \/ job # Nothing => lock = NoProc
  /\ job' = Foreign
  /\ UNCHANGED <<platform, manifest, file>>

(* A file appears in our place, or ours is edited. *)
ForeignFile(r) ==
  /\ r \in Ours /\ file[r] # Foreign
  /\ file' = [file EXCEPT ![r] = Foreign]
  /\ UNCHANGED <<platform, manifest, job>>
=============================================================================
