---------------------------- MODULE Experiments ----------------------------
(***************************************************************************)
(* experiment.rs: named windows of time over the usage logs.  start opens   *)
(* one, finish closes it and counts, record counts a past one, compare      *)
(* looks at two that are complete.  The store is changed under a lock held  *)
(* from before the clock is read until the store is saved.  Requests are    *)
(* numbered; their tokens are left out.                                     *)
(***************************************************************************)
EXTENDS Naturals, FiniteSets

CONSTANTS
  Names,       \* names of experiments
  Requests,    \* requests the logs may come to hold
  Runners,     \* processes that run experiment commands
  NoRunner,
  MaxTime,     \* bound: the clock, in seconds
  MaxCommands  \* bound: commands

ASSUME LabAssumption == NoRunner \notin Runners /\ MaxTime \in Nat /\ Names # {}

VARIABLES
  records,  \* .codeunlimited.experiments.json
  holder,   \* holder of the experiments' lock
  task,     \* what each runner does
  clock,
  stamped,  \* the timestamps of the requests that were logged
  commands

lab == <<records, holder, task, clock, stamped, commands>>

Clock == 0 .. MaxTime
Undated == MaxTime + 1
NotLogged == MaxTime + 2

Record == [status : {"none", "active", "complete"}, from : Clock, to : Clock,
           counted : SUBSET Requests, complete : BOOLEAN]
NoRecord == [status |-> "none", from |-> 0, to |-> 0, counted |-> {},
             complete |-> FALSE]

Doing == [kind : {"idle", "finish", "record"}, name : Names, from : Clock, to : Clock,
         seen : [Names -> Record]]

Idle == [kind |-> "idle", name |-> CHOOSE n \in Names : TRUE, from |-> 0, to |-> 0,
         seen |-> [n \in Names |-> NoRecord]]

(* Type invariant: the store of experiments, its lock and the logs. *)
LabTypeOK ==
  /\ records \in [Names -> Record]
  /\ holder \in Runners \cup {NoRunner}
  /\ task \in [Runners -> Doing]
  /\ clock \in Clock /\ commands \in Nat
  /\ stamped \in [Requests -> Clock \cup {Undated, NotLogged}]

LabInit ==
  /\ records = [n \in Names |-> NoRecord]
  /\ holder = NoRunner
  /\ task = [p \in Runners |-> Idle]
  /\ clock = 0 /\ commands = 0
  /\ stamped = [r \in Requests |-> NotLogged]

(* The wall clock, which may also be set back. *)
Tick ==
  /\ clock' \in (Clock \ {clock}) \cap {clock + 1, clock - 1}
  /\ UNCHANGED <<records, holder, task, stamped, commands>>

(* A provider logs a request, with a timestamp of its own or with none. *)
LogRequest(r) ==
  /\ stamped[r] = NotLogged
  /\ \E ts \in Clock \cup {Undated} : stamped' = [stamped EXCEPT ![r] = ts]
  /\ UNCHANGED <<records, holder, task, clock, commands>>

-----------------------------------------------------------------------------

Begin(p) ==
  /\ task[p].kind = "idle" /\ holder = NoRunner /\ commands < MaxCommands
  /\ commands' = commands + 1

StartExperiment(p, n) ==
  /\ Begin(p) /\ records[n].status = "none"
  /\ records' = [records EXCEPT ![n].status = "active", ![n].from = clock]
  /\ UNCHANGED <<holder, task, clock, stamped>>

ValidWindow(from, to) == from < to

Unfinished(n) == records[n].status = "active"

BeginFinish(p, n) ==
  /\ Begin(p) /\ Unfinished(n) /\ ValidWindow(records[n].from, clock)
  /\ holder' = p
  /\ task' = [task EXCEPT ![p] = [kind |-> "finish", name |-> n, seen |-> records,
                                  from |-> records[n].from, to |-> clock]]
  /\ UNCHANGED <<records, clock, stamped>>

BeginRecord(p, n, from, to) ==
  /\ Begin(p) /\ ValidWindow(from, to)
  /\ records[n].status = "none"
  /\ holder' = p
  /\ task' = [task EXCEPT ![p] = [kind |-> "record", name |-> n, seen |-> records,
                                  from |-> from, to |-> to]]
  /\ UNCHANGED <<records, clock, stamped>>

(* Mutant: the second of the finish belongs to the window. *)
InClosedWindow(ts, from, to) == ts \in Clock /\ from <= ts /\ ts <= to

InWindow(ts, from, to) == ts \in Clock /\ from <= ts /\ ts < to

(* aggregate over what the logs hold when they are scanned. *)
Counted(from, to) == {r \in Requests : InWindow(stamped[r], from, to)}

SaveResult(p) ==
  /\ task[p].kind \in {"finish", "record"}
  /\ records' = [task[p].seen EXCEPT ![task[p].name] =
       [status |-> "complete", from |-> task[p].from, to |-> task[p].to,
        counted |-> Counted(task[p].from, task[p].to),
        complete |-> \A r \in Requests : stamped[r] # Undated]]
  /\ holder' = NoRunner /\ task' = [task EXCEPT ![p] = Idle]
  /\ UNCHANGED <<clock, stamped, commands>>

(* The scan fails, or the process dies. *)
AbandonResult(p) ==
  /\ task[p].kind # "idle"
  /\ holder' = NoRunner /\ task' = [task EXCEPT ![p] = Idle]
  /\ UNCHANGED <<records, clock, stamped, commands>>

LabNext ==
  \/ Tick
  \/ \E r \in Requests : LogRequest(r)
  \/ \E p \in Runners : SaveResult(p) \/ AbandonResult(p)
  \/ \E p \in Runners, n \in Names :
       \/ StartExperiment(p, n) \/ BeginFinish(p, n)
       \/ \E from, to \in Clock : BeginRecord(p, n, from, to)

LabSpec == LabInit /\ [][LabNext]_lab

-----------------------------------------------------------------------------

(* comparison_parts *)
Usable(r) == r.status = "complete" /\ r.complete /\ r.counted # {}

(* compare_records refuses windows that overlap. *)
Comparable(a, b) ==
  Usable(a) /\ Usable(b) /\ ~(a.from < b.to /\ b.from < a.to)

(* No request is counted for both sides of a comparison that is accepted,    *)
(* also one logged in the second in which one window ends and the other      *)
(* begins (aggregate, compare_records).                                     *)
NoRequestOnBothSides ==
  \A m, n \in Names :
    m # n /\ Comparable(records[m], records[n]) =>
      records[m].counted \cap records[n].counted = {}
=============================================================================
