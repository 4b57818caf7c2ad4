---------------------------- MODULE SharedStores ----------------------------
(***************************************************************************)
(* The files all commands of a user share: projects.json, to which init,    *)
(* fix and report add their project (registry.rs), and a history file, to   *)
(* which report appends a snapshot (reportcmd.rs).  Each is changed by      *)
(* reading it, adding to it and replacing it under a lock of its own; a     *)
(* process may die between any two of these steps.                          *)
(***************************************************************************)
EXTENDS Naturals, Sequences, FiniteSets

CONSTANTS
  Commands, \* processes, each of which runs one command
  Paths,    \* projects
  NoCommand

ASSUME StoresAssumption == NoCommand \notin Commands

VARIABLES
  registry, \* projects.json, sorted and so a set
  history,  \* history.jsonl
  locked,   \* holder of projects.lock and of the history's lock
  step,     \* where each command is
  project,  \* the project of each command
  read,     \* what each command has read
  done      \* history: the commands that got so far without an error

stores == <<registry, history, locked, step, project, read, done>>

Files == {"registry", "history"}
Steps == {"peek", "wait", "register", "report", "append", "end"}

(* Type invariant: the two stores and the commands. *)
StoresTypeOK ==
  /\ registry \subseteq Paths
  /\ history \in Seq(Commands)
  /\ locked \in [Files -> Commands \cup {NoCommand}]
  /\ step \in [Commands -> Steps]
  /\ project \in [Commands -> Paths]
  /\ read \in [Commands -> [registry : SUBSET Paths, history : Seq(Commands)]]
  /\ done \in [Commands -> SUBSET Files]

StoresInit ==
  /\ registry = {} /\ history = << >>
  /\ locked = [f \in Files |-> NoCommand]
  /\ step = [p \in Commands |-> "peek"]
  /\ project \in [Commands -> Paths]
  /\ read = [p \in Commands |-> [registry |-> {}, history |-> << >>]]
  /\ done = [p \in Commands |-> {}]

To(p, where) == step' = [step EXCEPT ![p] = where]
Lock(p, f) == locked[f] = NoCommand /\ locked' = [locked EXCEPT ![f] = p]
Unlock(p) == locked' = [f \in Files |-> IF locked[f] = p THEN NoCommand ELSE locked[f]]
Did(p, f) == done' = [done EXCEPT ![p] = @ \cup {f}]

(* register looks at the list before it takes the lock. *)
Peek(p) ==
  /\ step[p] = "peek"
  /\ read' = [read EXCEPT ![p].registry = registry]
  /\ IF project[p] \in registry THEN To(p, "report") /\ Did(p, "registry")
     ELSE To(p, "wait") /\ UNCHANGED done
  /\ UNCHANGED <<registry, history, locked, project>>

(* Mutant: what was read before the lock is still good. *)
ReadBefore(p) == read[p].registry

ReadAgain(p) == registry

LockRegistry(p) ==
  /\ step[p] = "wait" /\ Lock(p, "registry")
  /\ read' = [read EXCEPT ![p].registry = ReadAgain(p)]
  /\ To(p, "register")
  /\ UNCHANGED <<registry, history, project, done>>

(* The list with the project replaces the file, unless it is there by now. *)
Register(p) ==
  /\ step[p] = "register"
  /\ registry' = read[p].registry \cup {project[p]}
  /\ Unlock(p) /\ Did(p, "registry") /\ To(p, "report")
  /\ UNCHANGED <<history, project, read>>

(* append_history; of init and fix nothing is left to do here. *)
LockHistory(p) ==
  /\ step[p] = "report"
  /\ \/ /\ Lock(p, "history")
        /\ read' = [read EXCEPT ![p].history = history]
        /\ To(p, "append")
     \/ To(p, "end") /\ UNCHANGED <<locked, read>>
  /\ UNCHANGED <<registry, history, project, done>>

AppendSnapshot(p) ==
  /\ step[p] = "append"
  /\ history' = Append(read[p].history, p)
  /\ Unlock(p) /\ Did(p, "history") /\ To(p, "end")
  /\ UNCHANGED <<registry, project, read>>

(* A crash or an error; the lock goes with the process. *)
Stop(p) ==
  /\ step[p] # "end"
  /\ To(p, "end") /\ Unlock(p)
  /\ UNCHANGED <<registry, history, project, read, done>>

StoresNext ==
  \E p \in Commands :
    \/ Peek(p) \/ LockRegistry(p) \/ Register(p)
    \/ LockHistory(p) \/ AppendSnapshot(p) \/ Stop(p)

StoresSpec == StoresInit /\ [][StoresNext]_stores

(* What a command was told is stored stays stored, whoever reads and writes  *)
(* at the same time (register, append_history).                             *)
NothingOverwritten ==
  \A p \in Commands :
    /\ "registry" \in done[p] => project[p] \in registry
    /\ "history" \in done[p] => \E i \in DOMAIN history : history[i] = p
=============================================================================
