---------------------------- MODULE StoreProofs ----------------------------
(***************************************************************************)
(* What the shared stores, the experiments, the baseline of a project, the   *)
(* scans of the logs and their index, the sums of a ledger and the creation  *)
(* of a run promise, for any number of commands, projects, requests, lines,  *)
(* attempts and plans.                                                      *)
(***************************************************************************)
EXTENDS SharedStores, TimeWindows, ScanIndex, TokenLedger, RunCreate, CycleCheck,
  SequenceTheorems, FiniteSetTheorems, WellFoundedInduction, TLAPS

(* Who is about to replace a file holds its lock, and has read what it still *)
(* holds.                                                                   *)
Fresh ==
  \A p \in Commands :
    /\ step[p] = "register" => locked["registry"] = p /\ read[p].registry = registry
    /\ step[p] = "append" => locked["history"] = p /\ read[p].history = history

StoresInv == StoresTypeOK /\ Fresh /\ NothingOverwritten

LEMMA StoresStart == StoresInit => StoresInv
BY DEF StoresInit, StoresInv, StoresTypeOK, Fresh, NothingOverwritten, Files, Steps

LEMMA HistoryRead ==
  ASSUME NEW R, NEW H, NEW r \in [registry : R, history : H], NEW h \in H
  PROVE  [r EXCEPT !.history = h] \in [registry : R, history : H]
OBVIOUS

LEMMA StoresTypeKept == StoresTypeOK /\ [StoresNext]_stores => StoresTypeOK'
<1>. SUFFICES ASSUME StoresTypeOK, [StoresNext]_stores PROVE StoresTypeOK'
  OBVIOUS
<1>. USE DEF StoresTypeOK, Files, Steps, To, Did
<1>1. ASSUME NEW p \in Commands, Peek(p) PROVE StoresTypeOK'
  <2>1. read' \in [Commands -> [registry : SUBSET Paths, history : Seq(Commands)]]
    BY <1>1 DEF Peek
  <2>2. step' \in [Commands -> Steps] /\ done' \in [Commands -> SUBSET Files]
    <3>1. CASE project[p] \in registry
      <4>1. step' = [step EXCEPT ![p] = "report"] /\ done' = [done EXCEPT ![p] = @ \cup {"registry"}]
        BY <1>1, <3>1 DEF Peek
      <4>2. done[p] \cup {"registry"} \in SUBSET Files
        BY DEF Files
      <4>. QED
        BY <4>1, <4>2
    <3>2. CASE project[p] \notin registry
      BY <1>1, <3>2 DEF Peek
    <3>. QED
      BY <3>1, <3>2
  <2>3. UNCHANGED <<registry, history, locked, project>>
    BY <1>1 DEF Peek
  <2>. QED
    BY <2>1, <2>2, <2>3
<1>2. ASSUME NEW p \in Commands, LockRegistry(p) PROVE StoresTypeOK'
  BY <1>2 DEF LockRegistry, Lock, ReadAgain
<1>3. ASSUME NEW p \in Commands, Register(p) PROVE StoresTypeOK'
  BY <1>3 DEF Register, Unlock
<1>4. ASSUME NEW p \in Commands, LockHistory(p) PROVE StoresTypeOK'
  <2>1. step' \in [Commands -> Steps] /\ UNCHANGED <<registry, history, project, done>>
    BY <1>4 DEF LockHistory
  <2>2. read' \in [Commands -> [registry : SUBSET Paths, history : Seq(Commands)]]
    <3>. DEFINE seen == [read[p] EXCEPT !.history = history]
    <3>1. seen \in [registry : SUBSET Paths, history : Seq(Commands)]
      <4>1. read[p] \in [registry : SUBSET Paths, history : Seq(Commands)] /\ history \in Seq(Commands)
        OBVIOUS
      <4>. QED
        BY <4>1, HistoryRead, Zenon
    <3>2. \/ read' = [read EXCEPT ![p] = seen]
          \/ UNCHANGED read
      BY <1>4 DEF LockHistory
    <3>. HIDE DEF seen
    <3>. QED
      BY <3>1, <3>2
  <2>3. locked' \in [Files -> Commands \cup {NoCommand}]
    BY <1>4 DEF LockHistory, Lock
  <2>. QED
    BY <2>1, <2>2, <2>3
<1>5. ASSUME NEW p \in Commands, AppendSnapshot(p) PROVE StoresTypeOK'
  BY <1>5 DEF AppendSnapshot, Unlock
<1>6. ASSUME NEW p \in Commands, Stop(p) PROVE StoresTypeOK'
  BY <1>6 DEF Stop, Unlock
<1>7. CASE UNCHANGED stores
  BY <1>7 DEF stores
<1>. QED
  BY <1>1, <1>2, <1>3, <1>4, <1>5, <1>6, <1>7 DEF StoresNext

LEMMA FreshKept == StoresInv /\ [StoresNext]_stores => Fresh'
<1>. SUFFICES ASSUME StoresInv, [StoresNext]_stores, NEW q \in Commands
              PROVE /\ (step[q] = "register" => locked["registry"] = q /\ read[q].registry = registry)'
                    /\ (step[q] = "append" => locked["history"] = q /\ read[q].history = history)'
  BY DEF Fresh
<1>. USE StoresAssumption DEF StoresInv, StoresTypeOK, Fresh, Files, Steps, To, Did
<1>2. ASSUME NEW p \in Commands, Peek(p) PROVE
        /\ (step[q] = "register" => locked["registry"] = q /\ read[q].registry = registry)'
        /\ (step[q] = "append" => locked["history"] = q /\ read[q].history = history)'
  BY <1>2 DEF Peek
<1>3. ASSUME NEW p \in Commands, LockRegistry(p) PROVE
        /\ (step[q] = "register" => locked["registry"] = q /\ read[q].registry = registry)'
        /\ (step[q] = "append" => locked["history"] = q /\ read[q].history = history)'
  BY <1>3 DEF LockRegistry, Lock, ReadAgain
<1>4. ASSUME NEW p \in Commands, Register(p) PROVE
        /\ (step[q] = "register" => locked["registry"] = q /\ read[q].registry = registry)'
        /\ (step[q] = "append" => locked["history"] = q /\ read[q].history = history)'
  BY <1>4 DEF Register, Unlock
<1>5. ASSUME NEW p \in Commands, LockHistory(p) PROVE
        /\ (step[q] = "register" => locked["registry"] = q /\ read[q].registry = registry)'
        /\ (step[q] = "append" => locked["history"] = q /\ read[q].history = history)'
  BY <1>5 DEF LockHistory, Lock
<1>6. ASSUME NEW p \in Commands, AppendSnapshot(p) PROVE
        /\ (step[q] = "register" => locked["registry"] = q /\ read[q].registry = registry)'
        /\ (step[q] = "append" => locked["history"] = q /\ read[q].history = history)'
  BY <1>6 DEF AppendSnapshot, Unlock
<1>7. ASSUME NEW p \in Commands, Stop(p) PROVE
        /\ (step[q] = "register" => locked["registry"] = q /\ read[q].registry = registry)'
        /\ (step[q] = "append" => locked["history"] = q /\ read[q].history = history)'
  BY <1>7 DEF Stop, Unlock
<1>8. CASE UNCHANGED stores
  BY <1>8 DEF stores
<1>. QED
  BY <1>2, <1>3, <1>4, <1>5, <1>6, <1>7, <1>8 DEF StoresNext

(* A step loses nothing: both files only grow. *)
LEMMA StoresGrow ==
  ASSUME StoresInv, [StoresNext]_stores
  PROVE  /\ registry \subseteq registry' /\ project' = project
         /\ \A i \in DOMAIN history : i \in DOMAIN history' /\ history'[i] = history[i]
<1>. USE DEF StoresInv, StoresTypeOK, Fresh
<1>1. ASSUME NEW p \in Commands, Peek(p) \/ LockRegistry(p) \/ LockHistory(p) \/ Stop(p)
      PROVE UNCHANGED <<registry, history, project>>
  BY <1>1 DEF Peek, LockRegistry, LockHistory, Stop
<1>2. ASSUME NEW p \in Commands, Register(p)
      PROVE registry' = registry \cup {project[p]} /\ UNCHANGED <<history, project>>
  BY <1>2 DEF Register
<1>3. ASSUME NEW p \in Commands, AppendSnapshot(p)
      PROVE history' = Append(history, p) /\ UNCHANGED <<registry, project>>
  BY <1>3 DEF AppendSnapshot
<1>4. ASSUME NEW p \in Commands, history' = Append(history, p)
      PROVE \A i \in DOMAIN history : i \in DOMAIN history' /\ history'[i] = history[i]
  BY <1>4
<1>5. CASE UNCHANGED stores
  BY <1>5 DEF stores
<1>. QED
  BY <1>1, <1>2, <1>3, <1>4, <1>5 DEF StoresNext

LEMMA NothingOverwrittenKept == StoresInv /\ [StoresNext]_stores => NothingOverwritten'
<1>. SUFFICES ASSUME StoresInv, [StoresNext]_stores, NEW q \in Commands
              PROVE /\ "registry" \in done'[q] => project'[q] \in registry'
                    /\ "history" \in done'[q] => \E i \in DOMAIN history' : history'[i] = q
  BY DEF NothingOverwritten
<1>. DEFINE Told(f) == f \in done'[q] => f \in done[q]
<1>1. registry \subseteq registry' /\ project' = project
      /\ \A i \in DOMAIN history : i \in DOMAIN history' /\ history'[i] = history[i]
  BY StoresGrow
<1>2. ASSUME Told("registry") PROVE "registry" \in done'[q] => project'[q] \in registry'
  BY <1>1, <1>2 DEF StoresInv, NothingOverwritten
<1>3. ASSUME Told("history")
      PROVE "history" \in done'[q] => \E i \in DOMAIN history' : history'[i] = q
  BY <1>1, <1>3 DEF StoresInv, NothingOverwritten
<1>4. ASSUME NEW p \in Commands, Peek(p)
      PROVE Told("history") /\ (Told("registry") \/ (q = p /\ project[p] \in registry))
  BY <1>4 DEF Peek, Did, StoresInv, StoresTypeOK
<1>5. ASSUME NEW p \in Commands, LockRegistry(p) \/ LockHistory(p) \/ Stop(p)
      PROVE Told("history") /\ Told("registry")
  BY <1>5 DEF LockRegistry, LockHistory, Stop
<1>6. ASSUME NEW p \in Commands, Register(p)
      PROVE Told("history") /\ (Told("registry") \/ (q = p /\ project[p] \in registry'))
  BY <1>6 DEF Register, Did, StoresInv, StoresTypeOK
<1>7. ASSUME NEW p \in Commands, AppendSnapshot(p)
      PROVE /\ Told("registry")
            /\ Told("history") \/ (q = p /\ \E i \in DOMAIN history' : history'[i] = p)
  <2>1. Told("registry") /\ (Told("history") \/ q = p)
    BY <1>7 DEF AppendSnapshot, Did, StoresInv, StoresTypeOK
  <2>2. read[p].history \in Seq(Commands) /\ history' = Append(read[p].history, p)
    BY <1>7 DEF AppendSnapshot, StoresInv, StoresTypeOK
  <2>3. Len(history') \in DOMAIN history' /\ history'[Len(history')] = p
    BY <2>2
  <2>. QED
    BY <2>1, <2>3
<1>8. CASE UNCHANGED stores
  BY <1>2, <1>3, <1>8 DEF stores
<1>. HIDE DEF Told
<1>. QED
  BY <1>1, <1>2, <1>3, <1>4, <1>5, <1>6, <1>7, <1>8 DEF StoresNext

(* What a command was told is stored stays stored (register,                *)
(* append_history).                                                         *)
THEOREM StoresLoseNothing == StoresSpec => []NothingOverwritten
<1>1. StoresInv /\ [StoresNext]_stores => StoresInv'
  BY StoresTypeKept, FreshKept, NothingOverwrittenKept DEF StoresInv
<1>2. StoresInv => NothingOverwritten
  BY DEF StoresInv
<1>. QED
  BY StoresStart, <1>1, <1>2, PTL DEF StoresSpec

-----------------------------------------------------------------------------
(* Experiments.                                                            *)

(* What a record counts lies in its window; a record that is not complete    *)
(* counts nothing.  This holds of the store and of every copy of it that a   *)
(* runner has in memory, whoever else changes the store.                    *)
Sound(r, times) ==
  /\ \A q \in r.counted : InWindow(times[q], r.from, r.to)
  /\ r.status # "complete" => r.counted = {}

AllSound ==
  /\ \A n \in Names : Sound(records[n], stamped)
  /\ \A p \in Runners, n \in Names : Sound(task[p].seen[n], stamped)

LabInv == LabTypeOK /\ AllSound

LEMMA IdleIsDoing == Idle \in Doing /\ NoRecord \in Record
<1>1. NoRecord \in Record
  BY LabAssumption DEF NoRecord, Record, Clock
<1>2. (CHOOSE n \in Names : TRUE) \in Names
  BY LabAssumption
<1>. DEFINE first == CHOOSE n \in Names : TRUE
            none == [n \in Names |-> NoRecord]
<1>3. first \in Names /\ none \in [Names -> Record] /\ 0 \in Clock
  BY <1>1, <1>2, LabAssumption DEF Clock
<1>4. Idle = [kind |-> "idle", name |-> first, from |-> 0, to |-> 0, seen |-> none]
  BY DEF Idle
<1>. HIDE DEF first, none
<1>. QED
  BY <1>1, <1>3, <1>4 DEF Doing

LEMMA Started ==
  ASSUME NEW r \in Record, NEW t \in Clock
  PROVE  /\ [r EXCEPT !.status = "active", !.from = t] \in Record
         /\ [r EXCEPT !.status = "active", !.from = t].counted = r.counted
BY DEF Record

LEMMA LabStart == LabInit => LabInv
<1>. SUFFICES ASSUME LabInit PROVE LabTypeOK /\ AllSound
  BY DEF LabInv
<1>1. LabTypeOK
  BY LabAssumption, IdleIsDoing DEF LabInit, LabTypeOK, Clock
<1>2. \A n \in Names : NoRecord = records[n] /\ \A p \in Runners : task[p].seen[n] = NoRecord
  BY DEF LabInit, Idle
<1>3. Sound(NoRecord, stamped)
  BY DEF Sound, NoRecord
<1>. QED
  BY <1>1, <1>2, <1>3 DEF AllSound

(* A command that works on one experiment: the record it changed is sound.   *)
LEMMA StartKeeps ==
  ASSUME LabInv, NEW p \in Runners, NEW n \in Names, StartExperiment(p, n)
  PROVE  LabInv'
<1>. DEFINE new == [records[n] EXCEPT !.status = "active", !.from = clock]
<1>1. records[n] \in Record /\ clock \in Clock /\ records \in [Names -> Record]
  BY DEF LabInv, LabTypeOK
<1>2. new \in Record /\ new.counted = records[n].counted
  BY <1>1, Started
<1>3. records' = [records EXCEPT ![n] = new] /\ UNCHANGED <<holder, task, clock, stamped>>
  <2>1. records' = [records EXCEPT ![n].status = "active", ![n].from = clock]
        /\ UNCHANGED <<holder, task, clock, stamped>>
    BY DEF StartExperiment
  <2>. QED
    BY <1>1, <2>1
<1>4. records[n].counted = {}
  BY DEF StartExperiment, LabInv, AllSound, Sound
<1>. HIDE DEF new
<1>5. Sound(new, stamped')
  BY <1>2, <1>4 DEF Sound
<1>6. LabTypeOK'
  <2>1. records' \in [Names -> Record]
    BY <1>1, <1>2, <1>3
  <2>2. commands' \in Nat
    BY DEF StartExperiment, Begin, LabInv, LabTypeOK
  <2>. QED
    BY <1>3, <2>1, <2>2 DEF LabInv, LabTypeOK
<1>7. \A m \in Names : records'[m] = IF m = n THEN new ELSE records[m]
  BY <1>1, <1>3
<1>8. \A m \in Names : Sound(records[m], stamped)'
  BY <1>3, <1>5, <1>7 DEF LabInv, AllSound, Sound
<1>9. \A q \in Runners, m \in Names : Sound(task[q].seen[m], stamped)'
  BY <1>3 DEF LabInv, AllSound, Sound
<1>. QED
  BY <1>6, <1>8, <1>9 DEF LabInv, AllSound

(* A runner takes a copy of the store, or drops it. *)
LEMMA CopyKeeps ==
  ASSUME LabInv, NEW p \in Runners, NEW d \in Doing, task' = [task EXCEPT ![p] = d],
         d.seen = records \/ d = Idle,
         holder' \in Runners \cup {NoRunner}, commands' \in Nat,
         UNCHANGED <<records, clock, stamped>>
  PROVE  LabInv'
<1>1. LabTypeOK'
  BY DEF LabInv, LabTypeOK
<1>2. \A q \in Runners : task'[q] = IF q = p THEN d ELSE task[q]
  BY DEF LabInv, LabTypeOK
<1>3. \A m \in Names : Sound(d.seen[m], stamped)
  <2>1. CASE d.seen = records
    BY <2>1 DEF LabInv, AllSound
  <2>2. CASE d = Idle
    BY <2>2 DEF Idle, NoRecord, Sound
  <2>. QED
    BY <2>1, <2>2
<1>4. \A r : Sound(r, stamped) => Sound(r, stamped')
  BY DEF Sound
<1>. QED
  BY <1>1, <1>2, <1>3, <1>4 DEF LabInv, AllSound

LEMMA SaveKeeps ==
  ASSUME LabInv, NEW p \in Runners, SaveResult(p)
  PROVE  LabInv'
<1>. DEFINE t == task[p]
            new == [status |-> "complete", from |-> t.from, to |-> t.to,
                    counted |-> Counted(t.from, t.to),
                    complete |-> \A r \in Requests : stamped[r] # Undated]
<1>1. t \in Doing /\ t.name \in Names /\ t.from \in Clock /\ t.to \in Clock
      /\ t.seen \in [Names -> Record]
  BY DEF LabInv, LabTypeOK, Doing
<1>2. (\A r \in Requests : stamped[r] # Undated) \in BOOLEAN
  OBVIOUS
<1>3. new \in Record
  BY <1>1, <1>2 DEF Record, Counted
<1>4. Sound(new, stamped')
  BY DEF Sound, Counted, SaveResult
<1>5. /\ records' = [t.seen EXCEPT ![t.name] = new]
      /\ task' = [task EXCEPT ![p] = Idle] /\ holder' = NoRunner
      /\ UNCHANGED <<clock, stamped, commands>>
  BY DEF SaveResult
<1>6. \A r : Sound(r, stamped) => Sound(r, stamped')
  BY <1>5 DEF Sound
<1>. HIDE DEF new
<1>7. \A m \in Names : records'[m] = IF m = t.name THEN new ELSE t.seen[m]
  BY <1>1, <1>5
<1>8. LabTypeOK'
  BY <1>1, <1>3, <1>5, IdleIsDoing DEF LabInv, LabTypeOK
<1>9. \A m \in Names : Sound(records[m], stamped)'
  BY <1>4, <1>6, <1>7 DEF LabInv, AllSound
<1>10. \A q \in Runners : task'[q] = IF q = p THEN Idle ELSE task[q]
  BY <1>5 DEF LabInv, LabTypeOK
<1>11. \A m \in Names : Sound(Idle.seen[m], stamped)
  BY DEF Idle, NoRecord, Sound
<1>12. \A q \in Runners, m \in Names : Sound(task[q].seen[m], stamped)'
  BY <1>6, <1>10, <1>11 DEF LabInv, AllSound
<1>. QED
  BY <1>8, <1>9, <1>12 DEF LabInv, AllSound

(* A request that is logged was counted nowhere: it had no time before.      *)
LEMMA LogKeeps ==
  ASSUME LabInv, NEW q \in Requests, LogRequest(q)
  PROVE  LabInv'
<1>1. /\ stamped \in [Requests -> Clock \cup {Undated, NotLogged}] /\ stamped[q] = NotLogged
      /\ UNCHANGED <<records, holder, task, clock, commands>>
  BY DEF LogRequest, LabInv, LabTypeOK
<1>2. stamped' \in [Requests -> Clock \cup {Undated, NotLogged}]
      /\ \A r \in Requests : r # q => stamped'[r] = stamped[r]
  BY <1>1 DEF LogRequest
<1>3. NotLogged \notin Clock
  BY LabAssumption DEF NotLogged, Clock
<1>4. \A r \in Record : Sound(r, stamped) => Sound(r, stamped')
  BY <1>1, <1>2, <1>3 DEF Sound, InWindow, Record
<1>5. /\ \A n \in Names : records[n] \in Record
      /\ \A p \in Runners, n \in Names : task[p].seen[n] \in Record
  BY DEF LabInv, LabTypeOK, Doing
<1>. QED
  BY <1>1, <1>2, <1>4, <1>5 DEF LabInv, LabTypeOK, AllSound

LEMMA LabKept == LabInv /\ [LabNext]_lab => LabInv'
<1>. SUFFICES ASSUME LabInv, [LabNext]_lab PROVE LabInv'
  OBVIOUS
<1>1. CASE Tick
  BY <1>1 DEF Tick, LabInv, LabTypeOK, AllSound, Sound
<1>2. ASSUME NEW q \in Requests, LogRequest(q) PROVE LabInv'
  BY <1>2, LogKeeps
<1>3. ASSUME NEW p \in Runners, SaveResult(p) PROVE LabInv'
  BY <1>3, SaveKeeps
<1>4. ASSUME NEW p \in Runners, AbandonResult(p) PROVE LabInv'
  <2>1. /\ task' = [task EXCEPT ![p] = Idle] /\ holder' = NoRunner
        /\ UNCHANGED <<records, clock, stamped, commands>>
    BY <1>4 DEF AbandonResult
  <2>2. Idle \in Doing /\ commands' \in Nat
    BY <2>1, IdleIsDoing DEF LabInv, LabTypeOK
  <2>. QED
    BY <2>1, <2>2, CopyKeeps
<1>5. ASSUME NEW p \in Runners, NEW n \in Names, StartExperiment(p, n) PROVE LabInv'
  BY <1>5, StartKeeps
<1>6. ASSUME NEW p \in Runners, NEW n \in Names, BeginFinish(p, n) PROVE LabInv'
  <2>. DEFINE d == [kind |-> "finish", name |-> n, seen |-> records,
                    from |-> records[n].from, to |-> clock]
  <2>1. d \in Doing /\ d.seen = records
    BY DEF LabInv, LabTypeOK, Doing, Record
  <2>2. /\ task' = [task EXCEPT ![p] = d] /\ holder' = p
        /\ UNCHANGED <<records, clock, stamped>>
    BY <1>6 DEF BeginFinish
  <2>3. commands' \in Nat
    BY <1>6 DEF BeginFinish, Begin, LabInv, LabTypeOK
  <2>. HIDE DEF d
  <2>. QED
    BY <2>1, <2>2, <2>3, CopyKeeps
<1>7. ASSUME NEW p \in Runners, NEW n \in Names, NEW from \in Clock, NEW to \in Clock,
             BeginRecord(p, n, from, to)
      PROVE LabInv'
  <2>. DEFINE d == [kind |-> "record", name |-> n, seen |-> records,
                    from |-> from, to |-> to]
  <2>1. d \in Doing /\ d.seen = records
    BY DEF LabInv, LabTypeOK, Doing
  <2>2. /\ task' = [task EXCEPT ![p] = d] /\ holder' = p
        /\ UNCHANGED <<records, clock, stamped>>
    BY <1>7 DEF BeginRecord
  <2>3. commands' \in Nat
    BY <1>7 DEF BeginRecord, Begin, LabInv, LabTypeOK
  <2>. HIDE DEF d
  <2>. QED
    BY <2>1, <2>2, <2>3, CopyKeeps
<1>8. CASE UNCHANGED lab
  BY <1>8 DEF lab, LabInv, LabTypeOK, AllSound, Sound
<1>. QED
  BY <1>1, <1>2, <1>3, <1>4, <1>5, <1>6, <1>7, <1>8 DEF LabNext

(* Windows that do not overlap have no second in common. *)
LEMMA SoundIsApart == LabInv => NoRequestOnBothSides
<1>. SUFFICES ASSUME LabInv, NEW m \in Names, NEW n \in Names,
                     Comparable(records[m], records[n]),
                     NEW q \in records[m].counted, q \in records[n].counted
              PROVE  FALSE
  BY DEF NoRequestOnBothSides
<1>1. InWindow(stamped[q], records[m].from, records[m].to)
      /\ InWindow(stamped[q], records[n].from, records[n].to)
  BY DEF LabInv, AllSound, Sound
<1>2. records[m] \in Record /\ records[n] \in Record
  BY DEF LabInv, LabTypeOK
<1>3. /\ records[m].from \in Nat /\ records[m].to \in Nat
      /\ records[n].from \in Nat /\ records[n].to \in Nat /\ stamped[q] \in Nat
  BY <1>1, <1>2, LabAssumption DEF Record, Clock, InWindow
<1>. QED
  BY <1>1, <1>3 DEF InWindow, Comparable

(* No request is counted for both sides of a comparison that is accepted.    *)
THEOREM WindowsNeverOverlap == LabSpec => []NoRequestOnBothSides
BY LabStart, LabKept, SoundIsApart, PTL DEF LabSpec

-----------------------------------------------------------------------------
(* The baseline of a project.                                              *)

(* Who counts has counted everything to be kept that was sent before it      *)
(* began, of the source it has scanned; nothing is counted before it is sent. *)
Counting(p) ==
  LET f == freezing[p]
      late(r) == Countable(r) /\ r \notin f.seen => sentAt[r].ts >= f.since
  IN  /\ f.since <= second
      /\ \A r \in f.seen : sentAt[r].by \in Sources
      /\ f.stage # "none" => \A r \in Sent : sentAt[r].by = "claude" => late(r)
      /\ f.stage \in {"look", "stamp"} => \A r \in Sent : sentAt[r].by = "codex" => late(r)
      /\ f.stage = "stamp" /\ baseline.some => f.since <= firstAt

(* The same of what was written. *)
Frozen ==
  baseline.some =>
    /\ baseline.created <= second /\ baseline.began <= baseline.created
    /\ baseline.began <= firstAt
    /\ \A r \in baseline.counted :
         sentAt[r].by \in Sources /\ sentAt[r].ts <= baseline.created
    /\ \A r \in Sent \ baseline.counted :
         sentAt[r].by \in Sources /\ Countable(r) => sentAt[r].ts >= baseline.began

SentByNow ==
  /\ sentAt \in [Sent -> SentRequest \cup {NotSent}]
  /\ \A r \in Sent : sentAt[r].ts <= second

BaselineInv ==
  /\ second \in Seconds /\ firstAt \in Seconds
  /\ freezing \in [Freezers -> Freezing] /\ baseline \in Baseline
  /\ SentByNow /\ Frozen /\ \A p \in Freezers : Counting(p)

LEMMA SecondsAreNumbers == 0 \in Seconds /\ \A t \in Seconds : t \in Nat
BY BaselineAssumption DEF Seconds

LEMMA BaselineStart == BaselineInit => BaselineInv
<1>. SUFFICES ASSUME BaselineInit PROVE BaselineInv
  OBVIOUS
<1>1. NotFreezing \in Freezing /\ NoBaseline \in Baseline
  BY SecondsAreNumbers DEF NotFreezing, Freezing, NoBaseline, Baseline
<1>2. \A r \in Sent : sentAt[r] = NotSent
  BY DEF BaselineInit
<1>3. SentByNow
  BY <1>2 DEF BaselineInit, SentByNow, NotSent
<1>4. \A p \in Freezers : Counting(p)
  BY DEF BaselineInit, Counting, NotFreezing
<1>5. Frozen
  BY DEF BaselineInit, Frozen, NoBaseline
<1>. QED
  BY <1>1, <1>3, <1>4, <1>5, SecondsAreNumbers DEF BaselineInit, BaselineInv

(* The clock goes on, a request is sent: neither is before anybody began.    *)
LEMMA TimeKeeps ==
  ASSUME BaselineInv, SecondPasses \/ \E r \in Sent : SendRequest(r)
  PROVE  BaselineInv'
<1>1. /\ UNCHANGED <<freezing, baseline, firstAt>>
      /\ second' \in Seconds /\ second' \in Nat /\ second \in Nat /\ second <= second'
  BY SecondsAreNumbers, BaselineAssumption DEF SecondPasses, SendRequest, BaselineInv, Seconds
<1>2. /\ sentAt' \in [Sent -> SentRequest \cup {NotSent}]
      /\ \A r \in Sent : \/ sentAt'[r] = sentAt[r]
                         \/ sentAt[r] = NotSent /\ sentAt'[r].ts = second /\ sentAt'[r].by \in Sources
  <2>1. CASE SecondPasses
    BY <2>1 DEF SecondPasses, BaselineInv, SentByNow
  <2>2. ASSUME NEW q \in Sent, SendRequest(q)
        PROVE  /\ sentAt' \in [Sent -> SentRequest \cup {NotSent}]
               /\ \A r \in Sent :
                    \/ sentAt'[r] = sentAt[r]
                    \/ /\ sentAt[r] = NotSent
                       /\ sentAt'[r].ts = second /\ sentAt'[r].by \in Sources
    <3>1. PICK source \in Sources, form \in Forms :
            sentAt' = [sentAt EXCEPT ![q] = [by |-> source, ts |-> second, form |-> form]]
      BY <2>2 DEF SendRequest
    <3>2. [by |-> source, ts |-> second, form |-> form] \in SentRequest
      BY DEF BaselineInv, SentRequest
    <3>. QED
      BY <2>2, <3>1, <3>2 DEF BaselineInv, SentByNow, SendRequest
  <2>. QED
    BY <2>1, <2>2
<1>3. \A r \in Sent : sentAt[r].ts \in Nat /\ sentAt[r].ts <= second
  BY SecondsAreNumbers DEF BaselineInv, SentByNow, NotSent, SentRequest
<1>4. SentByNow'
  BY <1>1, <1>2, <1>3 DEF SentByNow
<1>5. ASSUME NEW p \in Freezers PROVE Counting(p)'
  <2>1. freezing[p].since \in Nat /\ freezing[p].seen \subseteq Sent
    BY SecondsAreNumbers DEF BaselineInv, Freezing
  <2>2. Counting(p)
    BY DEF BaselineInv
  <2>3. \A r \in freezing[p].seen : sentAt'[r] = sentAt[r]
    BY <1>2, <2>1, <2>2 DEF Counting, NotSent, Sources
  <2>. QED
    BY <1>1, <1>2, <1>3, <2>1, <2>2, <2>3 DEF Counting, Countable
<1>6. Frozen'
  <2>. SUFFICES ASSUME baseline.some PROVE Frozen'
    BY <1>1 DEF Frozen
  <2>1. /\ baseline.created \in Nat /\ baseline.began \in Nat /\ firstAt \in Nat
        /\ baseline.counted \subseteq Sent
    BY SecondsAreNumbers DEF BaselineInv, Baseline
  <2>2. \A r \in baseline.counted : sentAt'[r] = sentAt[r]
    BY <1>2, <2>1 DEF BaselineInv, Frozen, NotSent, Sources
  <2>. QED
    BY <1>1, <1>2, <1>3, <2>1, <2>2 DEF BaselineInv, Frozen, Countable
<1>. QED
  BY <1>1, <1>4, <1>5, <1>6 DEF BaselineInv

(* What one init counts concerns the others only when it is written.        *)
LEMMA ScanKeeps ==
  ASSUME BaselineInv, NEW p \in Freezers, NEW f \in Freezing,
         freezing' = [freezing EXCEPT ![p] = f], Counting(p)',
         UNCHANGED <<second, sentAt, baseline, firstAt>>
  PROVE  BaselineInv'
<1>1. \A q \in Freezers : q # p => freezing'[q] = freezing[q]
  BY DEF BaselineInv
<1>2. \A q \in Freezers : Counting(q)'
  BY <1>1 DEF BaselineInv, Counting, Countable
<1>3. freezing' \in [Freezers -> Freezing]
  BY DEF BaselineInv
<1>. QED
  BY <1>2, <1>3 DEF BaselineInv, SentByNow, Frozen, Countable

LEMMA NextStage ==
  ASSUME NEW f \in Freezing, NEW S
  PROVE  /\ [f EXCEPT !.stage = "look", !.seen = @ \cup S] =
              [stage |-> "look", since |-> f.since, seen |-> f.seen \cup S]
         /\ [f EXCEPT !.stage = "stamp"] =
              [stage |-> "stamp", since |-> f.since, seen |-> f.seen]
<1>1. f = [stage |-> f.stage, since |-> f.since, seen |-> f.seen]
  BY DEF Freezing
<1>. DEFINE more == f.seen \cup S
<1>2. [f EXCEPT !.stage = "look", !.seen = @ \cup S] =
        [f EXCEPT !.stage = "look", !.seen = more]
  OBVIOUS
<1>. HIDE DEF more
<1>3. [f EXCEPT !.stage = "look", !.seen = more] =
        [stage |-> "look", since |-> f.since, seen |-> more]
  <2>. DEFINE g == [f EXCEPT !.stage = "look", !.seen = more]
              T == [stage : {"look"}, since : {f.since}, seen : {more}]
  <2>1. g \in T
    BY <1>1
  <2>2. \A r \in T : r = [stage |-> "look", since |-> f.since, seen |-> more]
    OBVIOUS
  <2>. QED
    BY <2>1, <2>2, Zenon
<1>4. [f EXCEPT !.stage = "stamp"] = [stage |-> "stamp", since |-> f.since, seen |-> f.seen]
  BY DEF Freezing
<1>. QED
  BY <1>2, <1>3, <1>4, Zenon DEF more

LEMMA InitKeeps ==
  ASSUME BaselineInv, NEW p \in Freezers,
         \/ ScanClaude(p) \/ ScanCodex(p) \/ LookForBaseline(p) \/ WithholdBaseline(p)
  PROVE  BaselineInv'
<1>. DEFINE f == freezing[p]
<1>1. /\ UNCHANGED <<second, sentAt, baseline, firstAt>>
      /\ second \in Nat /\ second \in Seconds /\ f \in Freezing /\ f.since \in Nat
      /\ f.since <= second /\ freezing \in [Freezers -> Freezing]
  BY SecondsAreNumbers DEF ScanClaude, ScanCodex, LookForBaseline, WithholdBaseline,
     BaselineInv, Counting, Freezing
<1>2. \A source : InitCounts(source) \subseteq Sent
  BY DEF Of, InitCounts
<1>3. NotFreezing \in Freezing
  BY SecondsAreNumbers DEF NotFreezing, Freezing
<1>4. ASSUME freezing' = [freezing EXCEPT ![p] = NotFreezing] PROVE BaselineInv'
  <2>1. Counting(p)'
    BY <1>1, <1>4 DEF Counting, NotFreezing
  <2>. QED
    BY <1>1, <1>3, <1>4, <2>1, ScanKeeps
<1>5. CASE ScanClaude(p)
  <2>. DEFINE g == [stage |-> "codex", since |-> second, seen |-> InitCounts("claude")]
  <2>1. g \in Freezing
    BY <1>1, <1>2 DEF Freezing
  <2>2. freezing' = [freezing EXCEPT ![p] = g] /\ freezing'[p] = g
    BY <1>1, <1>5 DEF ScanClaude
  <2>3. Counting(p)'
    BY <1>1, <2>2 DEF Counting, InitCounts, Countable, Of, Sources
  <2>. QED
    BY <1>1, <2>1, <2>2, <2>3, ScanKeeps
<1>6. CASE ScanCodex(p)
  <2>. DEFINE g == [stage |-> "look", since |-> f.since, seen |-> f.seen \cup InitCounts("codex")]
  <2>1. g \in Freezing
    BY <1>1, <1>2 DEF Freezing
  <2>2. freezing' = [freezing EXCEPT ![p] = g] /\ freezing'[p] = g
    <3>1. freezing' = [freezing EXCEPT ![p] =
                         [f EXCEPT !.stage = "look", !.seen = @ \cup InitCounts("codex")]]
      BY <1>1, <1>6 DEF ScanCodex
    <3>2. freezing' = [freezing EXCEPT ![p] = g]
      BY <1>1, <3>1, NextStage, Zenon
    <3>. QED
      BY <1>1, <3>2
  <2>3. Counting(p) /\ f.stage = "codex"
    BY <1>6 DEF BaselineInv, ScanCodex
  <2>4. Counting(p)'
    BY <1>1, <2>2, <2>3 DEF Counting, InitCounts, Countable, Of, Sources
  <2>. QED
    BY <1>1, <2>1, <2>2, <2>4, ScanKeeps
<1>7. CASE LookForBaseline(p) /\ ~baseline.some
  <2>. DEFINE g == [stage |-> "stamp", since |-> f.since, seen |-> f.seen]
  <2>1. g \in Freezing
    BY <1>1 DEF Freezing
  <2>2. freezing' = [freezing EXCEPT ![p] = g] /\ freezing'[p] = g
    <3>1. freezing' = [freezing EXCEPT ![p] = [f EXCEPT !.stage = "stamp"]]
      BY <1>1, <1>7 DEF LookForBaseline
    <3>2. freezing' = [freezing EXCEPT ![p] = g]
      BY <1>1, <3>1, NextStage, Zenon
    <3>. QED
      BY <1>1, <3>2
  <2>3. Counting(p) /\ f.stage = "look"
    BY <1>7 DEF BaselineInv, LookForBaseline
  <2>4. Counting(p)'
    BY <1>1, <1>7, <2>2, <2>3 DEF Counting, Countable
  <2>. QED
    BY <1>1, <2>1, <2>2, <2>4, ScanKeeps
<1>8. CASE (LookForBaseline(p) /\ baseline.some) \/ WithholdBaseline(p)
  BY <1>4, <1>8 DEF LookForBaseline, WithholdBaseline
<1>. QED
  BY <1>5, <1>6, <1>7, <1>8

(* The first baseline is written after everybody who is at work began; a     *)
(* later one by somebody who was at work then.                              *)
LEMMA WriteKeeps ==
  ASSUME BaselineInv, NEW p \in Freezers, WriteBaseline(p)
  PROVE  BaselineInv'
<1>. DEFINE f == freezing[p]
<1>1. /\ f \in Freezing /\ f.stage = "stamp" /\ Counting(p)
      /\ second \in Seconds /\ second \in Nat /\ firstAt \in Nat /\ f.since \in Nat
      /\ freezing \in [Freezers -> Freezing] /\ UNCHANGED <<second, sentAt>>
  BY SecondsAreNumbers DEF BaselineInv, WriteBaseline, Freezing
<1>2. /\ baseline' = [some |-> TRUE, created |-> second, counted |-> f.seen,
                      began |-> f.since]
      /\ firstAt' = IF baseline.some THEN firstAt ELSE second
      /\ freezing' = [freezing EXCEPT ![p] = NotFreezing]
  BY DEF WriteBaseline, Stamp
<1>3. baseline' \in Baseline /\ firstAt' \in Seconds /\ freezing' \in [Freezers -> Freezing]
  <2>1. NotFreezing \in Freezing
    BY SecondsAreNumbers DEF NotFreezing, Freezing
  <2>2. baseline' \in Baseline
    BY <1>1, <1>2 DEF Baseline, Freezing
  <2>3. firstAt' \in Seconds
    BY <1>1, <1>2 DEF BaselineInv
  <2>. QED
    BY <1>1, <1>2, <2>1, <2>2, <2>3
<1>4. \A r \in Sent : sentAt[r].ts <= second /\ (sentAt[r].by \in Sources =>
                         sentAt[r].by = "claude" \/ sentAt[r].by = "codex")
  BY DEF BaselineInv, SentByNow, Sources
<1>5. f.since <= firstAt'
  BY <1>1, <1>2 DEF Counting
<1>6. f.seen \subseteq Sent
  BY <1>1 DEF Freezing
<1>7. Frozen'
  BY <1>1, <1>2, <1>4, <1>5, <1>6 DEF Frozen, Counting, Countable
<1>8. ASSUME NEW q \in Freezers PROVE Counting(q)'
  <2>1. CASE q = p
    BY <1>1, <1>2, <2>1 DEF Counting, NotFreezing
  <2>2. CASE q # p
    <3>1. freezing'[q] = freezing[q] /\ Counting(q) /\ freezing[q].since \in Nat
      BY <1>1, <1>2, <2>2, SecondsAreNumbers DEF BaselineInv, Freezing
    <3>. QED
      BY <1>1, <1>2, <3>1 DEF Counting, Countable
  <2>. QED
    BY <2>1, <2>2
<1>. QED
  BY <1>1, <1>3, <1>7, <1>8 DEF BaselineInv, SentByNow

LEMMA BaselineInvSplits == BaselineInv => BaselineSplits
<1>. SUFFICES ASSUME BaselineInv, baseline.some PROVE BaselineSplits
  BY DEF BaselineSplits
<1>1. /\ Frozen /\ baseline.created \in Nat /\ baseline.began \in Nat
      /\ baseline.began <= firstAt
  BY SecondsAreNumbers DEF BaselineInv, Baseline, Frozen
<1>2. \A r \in Sent : /\ sentAt[r].ts \in Nat
                      /\ sentAt[r] # NotSent => sentAt[r].by \in Sources /\ sentAt[r].form \in Forms
  BY SecondsAreNumbers DEF BaselineInv, SentByNow, NotSent, SentRequest
<1>3. \A r : r \in SinceBaseline <=>
                /\ r \in Sent /\ sentAt[r].by \in Sources
                /\ sentAt[r].form \in {"dated", "ignored"}
                /\ sentAt[r].ts >= baseline.created
  BY DEF SinceBaseline, Of
<1>4. \A r \in baseline.counted \cap SinceBaseline : sentAt[r].ts = baseline.created
  BY <1>1, <1>2, <1>3 DEF Frozen
<1>5. ASSUME NEW r \in Sent \ (baseline.counted \cup SinceBaseline), sentAt[r] # NotSent
      PROVE  CASE sentAt[r].form = "dated"   -> sentAt[r].ts \in baseline.began .. baseline.created
               [] sentAt[r].form = "undated" -> sentAt[r].ts >= baseline.began
               [] OTHER -> sentAt[r].form = "malformed" \/ sentAt[r].ts < baseline.created
  <2>1. /\ sentAt[r].by \in Sources /\ sentAt[r].form \in Forms /\ sentAt[r].ts \in Nat
        /\ Countable(r) => sentAt[r].ts >= baseline.began
        /\ sentAt[r].form \in {"dated", "ignored"} => sentAt[r].ts < baseline.created
    BY <1>1, <1>2, <1>3, <1>5 DEF Frozen
  <2>2. CASE sentAt[r].form = "dated"
    BY <1>1, <2>1, <2>2 DEF Countable
  <2>3. CASE sentAt[r].form = "undated"
    BY <2>1, <2>3 DEF Countable
  <2>4. CASE sentAt[r].form \in {"malformed", "ignored"}
    BY <2>1, <2>4
  <2>. QED
    BY <2>1, <2>2, <2>3, <2>4 DEF Forms
<1>. QED
  BY <1>1, <1>4, <1>5 DEF BaselineSplits

(* A baseline splits the requests: none is on both sides but one of the very *)
(* second of the baseline; of those init keeps, none sent before the count   *)
(* is lost, and none with a timestamp sent after it; malformed records are   *)
(* on neither side, ignored ones only on the later one; only an init that    *)
(* was at work already replaces a baseline (initcmd.rs, deltacmd.rs).        *)
THEOREM BaselineSplitsRequests == BaselineSpec => []BaselineSplits
<1>1. BaselineInv /\ [BaselineNext]_baselineVars => BaselineInv'
  <2>. SUFFICES ASSUME BaselineInv, [BaselineNext]_baselineVars PROVE BaselineInv'
    OBVIOUS
  <2>1. CASE UNCHANGED baselineVars
    BY <2>1 DEF baselineVars, BaselineInv, SentByNow, Frozen, Counting, Countable
  <2>. QED
    BY <2>1, TimeKeeps, InitKeeps, WriteKeeps DEF BaselineNext
<1>. QED
  BY BaselineStart, <1>1, BaselineInvSplits, PTL DEF BaselineSpec

(* Wherever the program cuts the time in two, in an experiment or at the      *)
(* baseline of a project, no request is on both sides.                      *)
THEOREM TimeIsCutOnce == LabSpec /\ BaselineSpec => []WindowsAreApart
BY WindowsNeverOverlap, BaselineSplitsRequests, PTL DEF WindowsAreApart

-----------------------------------------------------------------------------
(* Induction on numbers, as the library states it for sets.                *)

LEMMA LeastNat ==
  ASSUME NEW T, T \subseteq Nat, T # {}
  PROVE  \E m \in T : \A k \in T : m <= k
<1>1. \E x \in T : \A y \in T : <<y, x>> \notin OpToRel(<, Nat)
  BY NatLessThanWellFounded, WFMin, Zenon
<1>2. PICK x \in T : \A y \in T : <<y, x>> \notin OpToRel(<, Nat)
  BY <1>1
<1>3. \A y \in T : ~(y < x)
  BY <1>2, Zenon DEF OpToRel
<1>. QED
  BY <1>3

(* A set of numbers that holds 0 and the successors of its members. *)
LEMMA SetInduction ==
  ASSUME NEW S, NEW n \in Nat, 0 \in S, \A i \in 0 .. n : i \in S /\ i < n => i + 1 \in S
  PROVE  \A i \in 0 .. n : i \in S
<1>. DEFINE T == (0 .. n) \ S
<1>1. SUFFICES ASSUME T # {} PROVE FALSE
  OBVIOUS
<1>2. PICK m \in T : \A k \in T : m <= k
  <2>1. T \subseteq Nat
    OBVIOUS
  <2>. HIDE DEF T
  <2>. QED
    BY <1>1, <2>1, LeastNat
<1>3. m # 0 /\ m - 1 \in 0 .. n /\ m - 1 < n
  BY <1>2
<1>4. m - 1 \in S
  BY <1>2, <1>3
<1>5. (m - 1) + 1 \in S
  BY <1>3, <1>4
<1>6. (m - 1) + 1 = m
  BY <1>2
<1>. QED
  BY <1>2, <1>5, <1>6

-----------------------------------------------------------------------------
(* parse_codex_file_mode, line by line.                                    *)

(* What is read of the first m lines. *)
Reads(g, log, want, cutoff, m) ==
  g = [i \in 0 .. m |->
        IF i = 0 THEN Start ELSE Read(g[i - 1], log[i], i, want, cutoff)]

LEMMA ReadsExist ==
  ASSUME NEW log, NEW want, NEW cutoff, NEW n \in Nat
  PROVE  \E g : Reads(g, log, want, cutoff, n)
<1>. DEFINE S == {m \in 0 .. n : \E g : Reads(g, log, want, cutoff, m)}
<1>1. 0 \in S
  <2>. DEFINE g == [i \in 0 .. 0 |-> Start]
  <2>1. Reads(g, log, want, cutoff, 0)
    BY DEF Reads
  <2>. QED
    BY <2>1
<1>2. ASSUME NEW i \in 0 .. n, i \in S, i < n
      PROVE  i + 1 \in S
  <2>1. PICK g : Reads(g, log, want, cutoff, i)
    BY <1>2
  <2>. DEFINE h == [k \in 0 .. i + 1 |->
                      IF k <= i THEN g[k] ELSE Read(g[i], log[i + 1], i + 1, want, cutoff)]
  <2>2. \A k \in 0 .. i : h[k] = g[k]
    OBVIOUS
  <2>3. h[i + 1] = Read(h[i], log[i + 1], i + 1, want, cutoff)
    BY <2>2
  <2>4. DOMAIN h = 0 .. i + 1 /\ h = [k \in 0 .. i + 1 |-> h[k]]
    OBVIOUS
  <2>5. \A k \in 0 .. i : g[k] = IF k = 0 THEN Start ELSE Read(g[k - 1], log[k], k, want, cutoff)
    BY <2>1 DEF Reads
  <2>. HIDE DEF h, S
  <2>6. ASSUME NEW k \in 0 .. i + 1
        PROVE  h[k] = IF k = 0 THEN Start ELSE Read(h[k - 1], log[k], k, want, cutoff)
    <3>1. CASE k <= i
      <4>1. k \in 0 .. i /\ (k = 0 \/ k - 1 \in 0 .. i)
        BY <3>1
      <4>2. h[k] = g[k] /\ (k = 0 \/ h[k - 1] = g[k - 1])
        BY <2>2, <4>1
      <4>. QED
        BY <2>5, <4>1, <4>2
    <3>2. CASE k = i + 1
      <4>1. k # 0 /\ k - 1 = i
        BY <3>2
      <4>. QED
        BY <2>3, <3>2, <4>1
    <3>. QED
      BY <3>1, <3>2
  <2>7. Reads(h, log, want, cutoff, i + 1)
    BY <2>4, <2>6 DEF Reads
  <2>. QED
    BY <1>2, <2>7 DEF S
<1>. HIDE DEF S
<1>3. \A i \in 0 .. n : i \in S
  BY <1>1, <1>2, SetInduction
<1>. QED
  BY <1>3 DEF S

LEMMA ReadingSteps ==
  ASSUME NEW log, Len(log) \in Nat, NEW want, NEW cutoff
  PROVE  LET R == Reading(log, want, cutoff) IN
         /\ R[0] = Start
         /\ \A i \in 1 .. Len(log) : R[i] = Read(R[i - 1], log[i], i, want, cutoff)
<1>. DEFINE R == Reading(log, want, cutoff)
<1>1. R = CHOOSE g : Reads(g, log, want, cutoff, Len(log))
  BY DEF Reading, Reads
<1>2. Reads(R, log, want, cutoff, Len(log))
  BY <1>1, ReadsExist
<1>. HIDE DEF R
<1>3. \A i \in 0 .. Len(log) :
        R[i] = IF i = 0 THEN Start ELSE Read(R[i - 1], log[i], i, want, cutoff)
  BY <1>2 DEF Reads
<1>4. R[0] = Start /\ \A i \in 1 .. Len(log) : R[i] = Read(R[i - 1], log[i], i, want, cutoff)
  BY <1>3
<1>. QED
  BY <1>4 DEF R

(* A line that is added changes nothing of what was read before it. *)
LEMMA ReadingPrefix ==
  ASSUME NEW log \in Seq(CodexLine), NEW line \in CodexLine, NEW want, NEW cutoff
  PROVE  \A i \in 0 .. Len(log) :
           Reading(Append(log, line), want, cutoff)[i] = Reading(log, want, cutoff)[i]
<1>. DEFINE longer == Append(log, line)
            R == Reading(log, want, cutoff)
            Q == Reading(longer, want, cutoff)
            S == {i \in 0 .. Len(log) : Q[i] = R[i]}
<1>1. /\ Len(log) \in Nat /\ Len(longer) = Len(log) + 1
      /\ \A i \in 1 .. Len(log) : longer[i] = log[i]
  OBVIOUS
<1>. HIDE DEF longer
<1>2. R[0] = Start /\ \A i \in 1 .. Len(log) : R[i] = Read(R[i - 1], log[i], i, want, cutoff)
  BY <1>1, ReadingSteps
<1>3. Q[0] = Start /\ \A i \in 1 .. Len(longer) : Q[i] = Read(Q[i - 1], longer[i], i, want, cutoff)
  BY <1>1, ReadingSteps
<1>. HIDE DEF R, Q
<1>4. 0 \in S
  BY <1>1, <1>2, <1>3
<1>5. ASSUME NEW i \in 0 .. Len(log), i \in S, i < Len(log)
      PROVE  i + 1 \in S
  <2>1. i + 1 \in 1 .. Len(log) /\ i + 1 \in 1 .. Len(longer) /\ (i + 1) - 1 = i
    BY <1>1, <1>5
  <2>2. Q[i + 1] = Read(Q[i], longer[i + 1], i + 1, want, cutoff)
    BY <1>3, <2>1
  <2>3. R[i + 1] = Read(R[i], log[i + 1], i + 1, want, cutoff)
    BY <1>2, <2>1
  <2>4. longer[i + 1] = log[i + 1] /\ Q[i] = R[i]
    BY <1>1, <1>5, <2>1
  <2>5. Q[i + 1] = R[i + 1]
    BY <2>2, <2>3, <2>4, Zenon
  <2>. QED
    BY <2>1, <2>5
<1>6. \A i \in 0 .. Len(log) : i \in S
  <2>. HIDE DEF S
  <2>. QED
    BY <1>1, <1>4, <1>5, SetInduction
<1>. QED
  BY <1>6 DEF R, Q, longer

(* What one line does to what was read. *)
Readings == [cwd : Projects \cup {NoCwd}, previous : Totals \cup {None},
             counted : SUBSET Nat, malformed : BOOLEAN]

LEMMA LineKinds ==
  ASSUME NEW line \in CodexLine
  PROVE  \/ line.kind = "turn" /\ line.cwd \in Projects
         \/ line.kind = "usage" /\ line.ts \in Timestamps
         \/ line.kind = "bad"
BY DEF CodexLine, Turn, Usage, Bad

LineEffect(b, a, line, i, want, cutoff) ==
  /\ b \in Readings
  /\ b.cwd = IF line.kind = "turn" THEN line.cwd ELSE a.cwd
  /\ b.previous = IF line.kind = "usage" THEN line.total
                  ELSE IF line.kind = "bad" THEN None ELSE a.previous
  /\ b.counted = IF /\ line.kind = "usage" /\ ~Repeats(a, line)
                    /\ InScope(line, a.cwd, want, cutoff)
                 THEN a.counted \cup {i} ELSE a.counted
  /\ line.kind = "bad" => b.malformed

LEMMA LineRead ==
  ASSUME NEW line \in CodexLine, NEW a \in Readings, NEW i \in Nat, NEW want, NEW cutoff,
         NEW b, b = Read(a, line, i, want, cutoff)
  PROVE  LineEffect(b, a, line, i, want, cutoff)
<1>. USE DEF Readings, LineEffect
<1>1. CASE line.kind = "turn"
  <2>1. b = [a EXCEPT !.cwd = line.cwd] /\ line.cwd \in Projects
    BY <1>1, LineKinds DEF Read
  <2>. QED
    BY <1>1, <2>1
<1>2. CASE line.kind = "bad"
  <2>1. b = [a EXCEPT !.previous = None, !.malformed = TRUE]
    BY <1>2 DEF Read
  <2>. QED
    BY <1>2, <2>1
<1>3. CASE line.kind = "usage" /\ Repeats(a, line)
  <2>1. b = a
    BY <1>3 DEF Read
  <2>. QED
    BY <1>3, <2>1 DEF Repeats
<1>4. CASE line.kind = "usage" /\ ~Repeats(a, line)
  <2>1. line.total \in Totals \cup {None}
    BY <1>4 DEF CodexLine, Turn, Usage, Bad
  <2>. DEFINE c == IF InScope(line, a.cwd, want, cutoff) THEN a.counted \cup {i} ELSE a.counted
  <2>2. b = [a EXCEPT !.previous = line.total, !.counted = c]
    BY <1>4 DEF Read, Remembers
  <2>3. c \in SUBSET Nat
    OBVIOUS
  <2>4. c = IF /\ line.kind = "usage" /\ ~Repeats(a, line)
               /\ InScope(line, a.cwd, want, cutoff)
            THEN a.counted \cup {i} ELSE a.counted
    BY <1>4
  <2>. HIDE DEF c
  <2>5. /\ b \in Readings /\ b.cwd = a.cwd /\ b.previous = line.total /\ b.counted = c
    BY <2>1, <2>2, <2>3
  <2>. QED
    BY <1>4, <2>4, <2>5
<1>. QED
  BY <1>1, <1>2, <1>3, <1>4, LineKinds

(* A scan of one scope and the scan of everything, line by line: they agree  *)
(* on the project and on the previous usage, and the one counts what the     *)
(* other counts of its scope.                                              *)
LEMMA ScansAgree ==
  ASSUME NEW log \in Seq(CodexLine), NEW want, NEW cutoff
  PROVE  LET R == Reading(log, want, cutoff)
             A == Reading(log, Anywhere, None)
         IN  \A i \in 0 .. Len(log) :
               /\ R[i] \in Readings /\ A[i] \in Readings
               /\ R[i].cwd = A[i].cwd /\ R[i].previous = A[i].previous
               /\ A[i].counted \subseteq 1 .. i
               /\ R[i].counted = {k \in A[i].counted : InScope(log[k], A[k].cwd, want, cutoff)}
<1>. DEFINE R == Reading(log, want, cutoff)
            A == Reading(log, Anywhere, None)
            In(k) == InScope(log[k], A[k].cwd, want, cutoff)
            S == {i \in 0 .. Len(log) :
                    /\ R[i] \in Readings /\ A[i] \in Readings
                    /\ R[i].cwd = A[i].cwd /\ R[i].previous = A[i].previous
                    /\ A[i].counted \subseteq 1 .. i
                    /\ R[i].counted = {k \in A[i].counted : In(k)}}
<1>1. Len(log) \in Nat /\ \A i \in 1 .. Len(log) : log[i] \in CodexLine
  OBVIOUS
<1>2. R[0] = Start /\ \A i \in 1 .. Len(log) : R[i] = Read(R[i - 1], log[i], i, want, cutoff)
  BY <1>1, ReadingSteps
<1>3. A[0] = Start /\ \A i \in 1 .. Len(log) : A[i] = Read(A[i - 1], log[i], i, Anywhere, None)
  BY <1>1, ReadingSteps
<1>. HIDE DEF R, A
<1>4. 0 \in S
  <2>1. Start \in Readings /\ Start.counted = {}
    BY DEF Start, Readings
  <2>. QED
    BY <1>1, <1>2, <1>3, <2>1
<1>5. ASSUME NEW i \in 0 .. Len(log), i \in S, i < Len(log)
      PROVE  i + 1 \in S
  <2>. DEFINE j == i + 1
              line == log[j]
  <2>1. j \in 1 .. Len(log) /\ j - 1 = i /\ j \in Nat /\ line \in CodexLine
    BY <1>1, <1>5
  <2>2. R[j] = Read(R[i], line, j, want, cutoff) /\ A[j] = Read(A[i], line, j, Anywhere, None)
    BY <1>2, <1>3, <2>1
  <2>3. /\ R[i] \in Readings /\ A[i] \in Readings
        /\ R[i].cwd = A[i].cwd /\ R[i].previous = A[i].previous
        /\ A[i].counted \subseteq 1 .. i
        /\ R[i].counted = {k \in A[i].counted : In(k)}
    BY <1>5
  <2>. HIDE DEF In, S, line, j
  <2>4. LineEffect(R[j], R[i], line, j, want, cutoff)
    <3>1. R[i] \in Readings /\ R[j] = Read(R[i], line, j, want, cutoff)
      BY <2>2, <2>3
    <3>. QED
      BY <2>1, <3>1, LineRead, Zenon
  <2>5. LineEffect(A[j], A[i], line, j, Anywhere, None)
    <3>1. A[i] \in Readings /\ A[j] = Read(A[i], line, j, Anywhere, None)
      BY <2>2, <2>3
    <3>. QED
      BY <2>1, <3>1, LineRead, Zenon
  <2>. USE DEF LineEffect
  <2>6. R[j].cwd = A[j].cwd /\ R[j].previous = A[j].previous
    BY <2>3, <2>4, <2>5
  <2>7. InScope(line, A[i].cwd, Anywhere, None)
    BY DEF InScope, Since
  <2>8. Repeats(R[i], line) <=> Repeats(A[i], line)
    BY <2>3 DEF Repeats
  <2>9. line.kind = "usage" => (InScope(line, R[i].cwd, want, cutoff) <=> In(j))
    BY <2>3, <2>5 DEF In, line
  <2>10. A[j].counted \subseteq 1 .. j
    BY <2>1, <2>3, <2>5
  <2>11. R[j].counted = {k \in A[j].counted : In(k)}
    <3>1. CASE line.kind = "usage" /\ ~Repeats(A[i], line)
      <4>1. A[j].counted = A[i].counted \cup {j}
        BY <2>5, <2>7, <3>1
      <4>2. CASE In(j)
        <5>1. R[j].counted = R[i].counted \cup {j}
          BY <2>4, <2>8, <2>9, <3>1, <4>2
        <5>. QED
          BY <2>3, <4>1, <4>2, <5>1
      <4>3. CASE ~In(j)
        <5>1. R[j].counted = R[i].counted
          BY <2>4, <2>9, <3>1, <4>3
        <5>. QED
          BY <2>3, <4>1, <4>3, <5>1
      <4>. QED
        BY <4>2, <4>3
    <3>2. CASE ~(line.kind = "usage" /\ ~Repeats(A[i], line))
      BY <2>3, <2>4, <2>5, <2>8, <3>2
    <3>. QED
      BY <3>1, <3>2
  <2>. QED
    BY <1>1, <2>1, <2>4, <2>5, <2>6, <2>10, <2>11 DEF S
<1>6. \A i \in 0 .. Len(log) : i \in S
  <2>. HIDE DEF S
  <2>. QED
    BY <1>1, <1>4, <1>5, SetInduction
<1>. QED
  BY <1>6 DEF R, A

LEMMA LogsTyped ==
  LogSpec => [](codex \in Seq(CodexLine) /\ claude \in Seq(ClaudeLine))
<1>. DEFINE Typed == codex \in Seq(CodexLine) /\ claude \in Seq(ClaudeLine)
<1>1. LogInit => Typed
  BY DEF LogInit
<1>2. Typed /\ ClaudeGrows => Typed'
  BY DEF ClaudeGrows
<1>3. Typed /\ CodexGrows => Typed'
  BY DEF CodexGrows
<1>4. Typed /\ UNCHANGED logs => Typed'
  BY DEF logs
<1>. HIDE DEF Typed
<1>5. Typed /\ [ClaudeGrows \/ CodexGrows]_logs => Typed'
  BY <1>2, <1>3, <1>4
<1>6. LogSpec => []Typed
  BY <1>1, <1>5, PTL DEF LogSpec
<1>. QED
  BY <1>6 DEF Typed

(* Without damaged lines a scan of Claude's log examines every line, and a    *)
(* message counts at its first line or not at all.                          *)
LEMMA UndamagedAgree ==
  (\A i \in DOMAIN claude : claude[i].valid) => SinceLikeUnfiltered
<1>. SUFFICES ASSUME \A i \in DOMAIN claude : claude[i].valid
              PROVE  SinceLikeUnfiltered
  OBVIOUS
<1>1. \A cutoff : Parsed(claude, cutoff) = DOMAIN claude
  BY DEF Parsed
<1>2. \A i : Since(claude[i].ts, None)
  BY DEF Since
<1>. QED
  BY <1>1, <1>2 DEF SinceLikeUnfiltered, ClaudeCounted

(* A scan of one project or of recent days counts exactly those requests of  *)
(* the full scan that belong there (parse_codex_file_mode,                  *)
(* parse_claude_file), whatever the logs hold and however long they are.     *)
THEOREM ScopedScans == LogSpec => []ScopedScansAgree
<1>1. codex \in Seq(CodexLine) /\ claude \in Seq(ClaudeLine) => ScopedScansAgree
  <2>. SUFFICES ASSUME codex \in Seq(CodexLine) PROVE ScopedScansAgree
    OBVIOUS
  <2>1. ASSUME NEW want \in Wants, NEW cutoff \in Cutoffs
        PROVE  CodexCounted(codex, want, cutoff) =
                 {i \in CodexCounted(codex, Anywhere, None) :
                    InScope(codex[i], Reading(codex, Anywhere, None)[i].cwd, want, cutoff)}
    <3>1. Len(codex) \in Nat /\ Len(codex) \in 0 .. Len(codex)
      OBVIOUS
    <3>2. Reading(codex, want, cutoff)[Len(codex)].counted =
            {k \in Reading(codex, Anywhere, None)[Len(codex)].counted :
               InScope(codex[k], Reading(codex, Anywhere, None)[k].cwd, want, cutoff)}
      BY <3>1, ScansAgree
    <3>. QED
      BY <3>2 DEF CodexCounted
  <2>. QED
    BY <2>1, UndamagedAgree, Zenon DEF ScopedScansAgree
<1>. QED
  BY <1>1, LogsTyped, PTL

-----------------------------------------------------------------------------
(* The metadata index.                                                     *)

(* What an entry says of the lines up to its fingerprint. *)
Honest(e, log) ==
  /\ e \in Entry /\ e.fp <= Len(log)
  /\ \A i \in 1 .. e.fp :
       /\ log[i].kind = "turn" => log[i].cwd \in e.cwds
       /\ log[i].kind = "usage" => log[i].ts <= e.last

ScanInv ==
  /\ codex \in Seq(CodexLine) /\ ScanTypeOK
  /\ Honest(index, codex) /\ \A p \in Scanners : Honest(held[p], codex)
  /\ \A p \in Scanners : taken[p] <= Len(codex)
  /\ IndexHidesNothing

(* What a scan counts is in its scope: recent enough, and of a project that  *)
(* some turn of the log names.                                              *)
LEMMA CountedInScope ==
  ASSUME NEW log \in Seq(CodexLine), NEW want, NEW cutoff
  PROVE  \A k \in CodexCounted(log, want, cutoff) :
           /\ k \in 1 .. Len(log) /\ log[k].kind = "usage" /\ Since(log[k].ts, cutoff)
           /\ \/ want \in {Anywhere, NoCwd}
              \/ \E t \in 1 .. Len(log) : log[t].kind = "turn" /\ log[t].cwd = want
<1>. DEFINE R == Reading(log, want, cutoff)
            Named(c, i) == \/ c = NoCwd
                           \/ \E t \in 1 .. i : log[t].kind = "turn" /\ log[t].cwd = c
            Fits(k, i) == /\ k \in 1 .. i /\ log[k].kind = "usage" /\ Since(log[k].ts, cutoff)
                          /\ want = Anywhere \/ Named(want, i)
            S == {i \in 0 .. Len(log) :
                    R[i] \in Readings /\ Named(R[i].cwd, i) /\ \A k \in R[i].counted : Fits(k, i)}
<1>1. Len(log) \in Nat /\ \A i \in 1 .. Len(log) : log[i] \in CodexLine
  OBVIOUS
<1>2. R[0] = Start /\ \A i \in 1 .. Len(log) : R[i] = Read(R[i - 1], log[i], i, want, cutoff)
  BY <1>1, ReadingSteps
<1>. HIDE DEF R
<1>3. 0 \in S
  <2>1. Start \in Readings /\ Start.counted = {} /\ Start.cwd = NoCwd
    BY DEF Start, Readings
  <2>. QED
    BY <1>1, <1>2, <2>1
<1>4. ASSUME NEW i \in 0 .. Len(log), i \in S, i < Len(log)
      PROVE  i + 1 \in S
  <2>. DEFINE j == i + 1
              line == log[j]
  <2>1. j \in 1 .. Len(log) /\ j - 1 = i /\ j \in Nat /\ line \in CodexLine /\ j \in 1 .. j
    BY <1>1, <1>4
  <2>2. R[j] = Read(R[i], line, j, want, cutoff)
    BY <1>2, <2>1
  <2>3. R[i] \in Readings /\ Named(R[i].cwd, i) /\ \A k \in R[i].counted : Fits(k, i)
    BY <1>4
  <2>4. \A t \in 1 .. i : t \in 1 .. j
    BY <2>1
  <2>5. \A c : Named(c, i) => Named(c, j)
    BY <2>4
  <2>6. \A k : Fits(k, i) => Fits(k, j)
    BY <2>4, <2>5
  <2>. HIDE DEF S, j
  <2>7. LineEffect(R[j], R[i], line, j, want, cutoff)
    BY <2>1, <2>2, <2>3, LineRead, Zenon
  <2>8. Named(R[j].cwd, j)
    BY <2>1, <2>3, <2>5, <2>7 DEF LineEffect
  <2>9. ASSUME line.kind = "usage", InScope(line, R[i].cwd, want, cutoff) PROVE Fits(j, j)
    <3>1. want = Anywhere \/ want = R[i].cwd
      BY <2>9 DEF InScope
    <3>. QED
      BY <2>1, <2>3, <2>5, <2>9, <3>1 DEF InScope
  <2>. HIDE DEF Fits, Named
  <2>10. \A k \in R[j].counted : Fits(k, j)
    BY <2>3, <2>6, <2>7, <2>9 DEF LineEffect
  <2>11. R[j] \in Readings
    BY <2>7 DEF LineEffect
  <2>. QED
    BY <2>1, <2>8, <2>10, <2>11 DEF S, j
<1>5. \A i \in 0 .. Len(log) : i \in S
  <2>. HIDE DEF S
  <2>. QED
    BY <1>1, <1>3, <1>4, SetInduction
<1>6. \A k \in R[Len(log)].counted : Fits(k, Len(log))
  <2>1. Len(log) \in 0 .. Len(log)
    BY <1>1
  <2>. QED
    BY <1>5, <2>1
<1>. QED
  BY <1>6 DEF CodexCounted, R

(* Of the first timestamps of a log there is a largest. *)
LEMMA LargestTime ==
  ASSUME NEW log \in Seq(CodexLine)
  PROVE  LET times == {None} \cup {log[i].ts : i \in {i \in DOMAIN log : log[i].kind = "usage"}}
         IN  /\ Largest(times) \in Timestamps
             /\ \A m \in times : m <= Largest(times)
<1>. DEFINE Upto(j) == {None} \cup {log[i].ts : i \in {i \in 1 .. j : log[i].kind = "usage"}}
            S == {j \in 0 .. Len(log) : \E n \in Upto(j) : \A m \in Upto(j) : m <= n}
<1>1. Len(log) \in Nat /\ DOMAIN log = 1 .. Len(log) /\ \A i \in 1 .. Len(log) : log[i] \in CodexLine
  OBVIOUS
<1>2. Timestamps \subseteq Nat /\ None \in Timestamps
  BY LogAssumption DEF Timestamps, None
<1>3. \A j \in 0 .. Len(log) : Upto(j) \subseteq Timestamps
  BY <1>1, <1>2, LineKinds
<1>4. 0 \in S
  BY <1>1 DEF None
<1>5. ASSUME NEW i \in 0 .. Len(log), i \in S, i < Len(log)
      PROVE  i + 1 \in S
  <2>. DEFINE j == i + 1
  <2>1. j \in 0 .. Len(log) /\ 1 .. j = (1 .. i) \cup {j}
    BY <1>1, <1>5
  <2>2. PICK n \in Upto(i) : \A m \in Upto(i) : m <= n
    BY <1>5
  <2>3. \/ Upto(j) = Upto(i)
        \/ Upto(j) = Upto(i) \cup {log[j].ts}
    <3>1. CASE log[j].kind = "usage"
      BY <2>1, <3>1
    <3>2. CASE log[j].kind # "usage"
      BY <2>1, <3>2
    <3>. QED
      BY <3>1, <3>2
  <2>4. Upto(i) \subseteq Nat /\ Upto(j) \subseteq Nat
    BY <1>2, <1>3, <2>1
  <2>. HIDE DEF Upto
  <2>5. \E k \in Upto(j) : \A m \in Upto(j) : m <= k
    <3>1. CASE Upto(j) = Upto(i)
      BY <2>2, <3>1
    <3>2. CASE Upto(j) = Upto(i) \cup {log[j].ts} /\ log[j].ts <= n
      BY <2>2, <3>2
    <3>3. CASE Upto(j) = Upto(i) \cup {log[j].ts} /\ ~(log[j].ts <= n)
      <4>1. log[j].ts \in Nat /\ n \in Nat
        BY <2>2, <2>4, <3>3
      <4>2. \A m \in Upto(j) : m <= log[j].ts
        BY <2>2, <2>4, <3>3, <4>1
      <4>. QED
        BY <3>3, <4>2
    <3>. QED
      BY <2>3, <3>1, <3>2, <3>3
  <2>. QED
    BY <2>1, <2>5
<1>6. \A i \in 0 .. Len(log) : i \in S
  <2>. HIDE DEF S
  <2>. QED
    BY <1>1, <1>4, <1>5, SetInduction
<1>7. Len(log) \in 0 .. Len(log)
  BY <1>1
<1>8. \E n \in Upto(Len(log)) : \A m \in Upto(Len(log)) : m <= n
  BY <1>6, <1>7
<1>9. /\ Largest(Upto(Len(log))) \in Upto(Len(log))
      /\ \A m \in Upto(Len(log)) : m <= Largest(Upto(Len(log)))
  <2>. HIDE DEF Upto
  <2>. QED
    BY <1>8 DEF Largest
<1>. QED
  BY <1>1, <1>3, <1>7, <1>9

(* A scan that read the whole file knows its projects and its last time. *)
LEMMA ObservedIsSound ==
  ASSUME codex \in Seq(CodexLine), NEW fp \in Nat, fp <= Len(codex)
  PROVE  Honest(Observed(fp), codex)
<1>. DEFINE times == {None} \cup {codex[i].ts : i \in {i \in DOMAIN codex : codex[i].kind = "usage"}}
            named == {codex[i].cwd : i \in {i \in DOMAIN codex : codex[i].kind = "turn"}}
            last == Largest(times)
<1>1. Len(codex) \in Nat /\ DOMAIN codex = 1 .. Len(codex)
      /\ \A i \in 1 .. Len(codex) : codex[i] \in CodexLine
  OBVIOUS
<1>2. last \in Timestamps /\ \A m \in times : m <= last
  BY LargestTime
<1>3. named \subseteq Projects
  BY <1>1 DEF CodexLine, Turn, Usage, Bad
<1>4. Observed(fp) = [fp |-> fp, cwds |-> named, last |-> last]
  BY DEF Observed
<1>5. ASSUME NEW i \in 1 .. fp
      PROVE  /\ codex[i].kind = "turn" => codex[i].cwd \in named
             /\ codex[i].kind = "usage" => codex[i].ts \in times
  BY <1>1
<1>. HIDE DEF times, named, last
<1>6. Observed(fp) \in Entry
  BY <1>2, <1>3, <1>4 DEF Entry
<1>. QED
  BY <1>2, <1>4, <1>5, <1>6 DEF Honest

(* The index may be behind the file, never wrong about what it has seen. *)
LEMMA SoundStays ==
  ASSUME NEW log \in Seq(CodexLine), NEW line \in CodexLine, NEW e, Honest(e, log)
  PROVE  Honest(e, Append(log, line))
<1>. DEFINE longer == Append(log, line)
<1>1. Len(log) \in Nat /\ Len(longer) = Len(log) + 1 /\ \A i \in 1 .. Len(log) : longer[i] = log[i]
  OBVIOUS
<1>2. e.fp \in Nat /\ e.fp <= Len(log)
  BY DEF Honest, Entry
<1>3. \A i \in 1 .. e.fp : longer[i] = log[i]
  BY <1>1, <1>2
<1>. HIDE DEF longer
<1>4. Honest(e, longer)
  BY <1>1, <1>2, <1>3 DEF Honest
<1>. QED
  BY <1>4 DEF longer

(* A file that may be skipped holds nothing of the query. *)
LEMMA SkipHidesNothing ==
  ASSUME NEW log \in Seq(CodexLine), NEW e, Honest(e, log), e.fp = Len(log),
         NEW q \in [want : Wants, since : Cutoffs], MaySkip(e, q)
  PROVE  CodexCounted(log, q.want, q.since) = {}
<1>. SUFFICES ASSUME NEW k \in CodexCounted(log, q.want, q.since) PROVE FALSE
  OBVIOUS
<1>1. /\ k \in 1 .. Len(log) /\ log[k].kind = "usage" /\ Since(log[k].ts, q.since)
      /\ \/ q.want \in {Anywhere, NoCwd}
         \/ \E t \in 1 .. Len(log) : log[t].kind = "turn" /\ log[t].cwd = q.want
  BY CountedInScope
<1>2. q.want # NoCwd
  BY ScopeAssumption DEF Wants, Anywhere, NoCwd
<1>3. CASE Elsewhere(e, q.want)
  BY <1>1, <1>2, <1>3 DEF Elsewhere, Honest
<1>4. CASE EntirelyOld(e, q.since)
  <2>1. log[k].ts <= e.last /\ e.last < q.since /\ q.since # None /\ log[k].ts >= q.since
    BY <1>1, <1>4 DEF EntirelyOld, Honest, Since
  <2>2. log[k].ts \in Nat /\ e.last \in Nat /\ q.since \in Nat
    <3>1. log[k] \in CodexLine
      BY <1>1
    <3>2. log[k].ts \in Timestamps
      BY <1>1, <3>1, LineKinds
    <3>3. e.last \in Timestamps /\ q.since \in Cutoffs
      BY DEF Honest, Entry
    <3>4. Timestamps \subseteq Nat /\ Cutoffs \subseteq Nat
      BY LogAssumption DEF Timestamps, Cutoffs, None
    <3>. QED
      BY <3>2, <3>3, <3>4
  <2>. QED
    BY <2>1, <2>2
<1>. QED
  BY <1>3, <1>4 DEF MaySkip

LEMMA ScanStart == LogInit /\ ScanInit => ScanInv
<1>. SUFFICES ASSUME LogInit, ScanInit PROVE ScanInv
  OBVIOUS
<1>1. codex \in Seq(CodexLine) /\ Len(codex) = 0
  BY DEF LogInit
<1>2. NoEntry \in Entry /\ NoEntry.fp = 0
  BY DEF NoEntry, Entry, Timestamps
<1>3. Honest(NoEntry, codex)
  BY <1>1, <1>2 DEF Honest
<1>4. [want |-> Anywhere, since |-> None] \in [want : Wants, since : Cutoffs]
  BY DEF Wants, Cutoffs
<1>5. ScanTypeOK
  BY <1>2, <1>4 DEF ScanTypeOK, ScanInit
<1>. QED
  BY <1>1, <1>3, <1>5 DEF ScanInv, ScanInit, IndexHidesNothing

LEMMA GrowKeeps == ScanInv /\ CodexGrows /\ UNCHANGED scanning => ScanInv'
<1>. SUFFICES ASSUME ScanInv, CodexGrows, UNCHANGED scanning PROVE ScanInv'
  OBVIOUS
<1>1. PICK line \in CodexLine : codex' = Append(codex, line)
  BY DEF CodexGrows
<1>2. codex \in Seq(CodexLine)
  BY DEF ScanInv
<1>3. codex' \in Seq(CodexLine) /\ Len(codex) \in Nat /\ Len(codex') = Len(codex) + 1
  BY <1>1, <1>2
<1>4. UNCHANGED <<index, at, query, held, taken, skipped, scans>>
  BY DEF scanning
<1>5. Honest(index', codex') /\ \A p \in Scanners : Honest(held'[p], codex')
  BY <1>1, <1>2, <1>4, SoundStays DEF ScanInv
<1>6. \A p \in Scanners : taken[p] \in Nat /\ taken'[p] <= Len(codex')
  BY <1>3, <1>4 DEF ScanInv, ScanTypeOK
<1>7. ScanTypeOK'
  BY <1>4 DEF ScanInv, ScanTypeOK
<1>. QED
  BY <1>3, <1>4, <1>5, <1>6, <1>7 DEF ScanInv, IndexHidesNothing

LEMMA LoadKeeps == ScanInv /\ (\E p \in Scanners : Load(p)) => ScanInv'
<1>. SUFFICES ASSUME ScanInv, NEW p \in Scanners, Load(p) PROVE ScanInv'
  OBVIOUS
<1>1. codex' = codex /\ index' = index /\ taken' = taken /\ skipped' = skipped
  BY DEF Load, logs
<1>2. PICK loaded \in {index, NoEntry} : held' = [held EXCEPT ![p] = loaded]
  BY DEF Load
<1>3. NoEntry \in Entry /\ NoEntry.fp = 0 /\ Len(codex) \in Nat
  BY DEF NoEntry, Entry, Timestamps, ScanInv
<1>4. Honest(loaded, codex)
  BY <1>3 DEF Honest, ScanInv
<1>5. \A s \in Scanners : Honest(held'[s], codex)
  BY <1>2, <1>4 DEF ScanInv, ScanTypeOK
<1>6. ScanTypeOK'
  <2>1. held' \in [Scanners -> Entry]
    BY <1>2, <1>4 DEF ScanInv, ScanTypeOK, Honest
  <2>2. query' \in [Scanners -> [want : Wants, since : Cutoffs]]
    BY DEF Load, ScanInv, ScanTypeOK
  <2>. QED
    BY <1>1, <2>1, <2>2 DEF Load, ScanInv, ScanTypeOK
<1>. QED
  BY <1>1, <1>5, <1>6 DEF ScanInv, IndexHidesNothing

LEMMA LookUpKeeps == ScanInv /\ (\E p \in Scanners : LookUp(p)) => ScanInv'
<1>. SUFFICES ASSUME ScanInv, NEW p \in Scanners, LookUp(p) PROVE ScanInv'
  OBVIOUS
<1>1. codex' = codex /\ index' = index /\ held' = held /\ query' = query /\ scans' = scans
  BY DEF LookUp, logs
<1>2. taken' = [taken EXCEPT ![p] = Len(codex)] /\ Len(codex) \in Nat
  BY DEF LookUp, Fingerprint, ScanInv
<1>3. ~skipped'
  <2>1. skipped' = (/\ held[p].fp = Fingerprint /\ MaySkip(held[p], query[p])
                    /\ CodexCounted(codex, query[p].want, query[p].since) # {})
    BY DEF LookUp
  <2>2. ASSUME held[p].fp = Fingerprint, MaySkip(held[p], query[p])
        PROVE  CodexCounted(codex, query[p].want, query[p].since) = {}
    <3>1. /\ codex \in Seq(CodexLine) /\ Honest(held[p], codex) /\ held[p].fp = Len(codex)
          /\ query[p] \in [want : Wants, since : Cutoffs]
      BY <2>2 DEF ScanInv, ScanTypeOK, Fingerprint
    <3>. QED
      BY <2>2, <3>1, SkipHidesNothing
  <2>. QED
    BY <2>1, <2>2
<1>4. \A s \in Scanners : taken'[s] <= Len(codex)
  BY <1>2 DEF ScanInv, ScanTypeOK
<1>5. ScanTypeOK'
  <2>1. at' \in [Scanners -> {"idle", "look", "parse", "save"}]
    BY DEF LookUp, ScanInv, ScanTypeOK
  <2>2. taken' \in [Scanners -> Nat] /\ skipped' \in BOOLEAN
    BY <1>2, <1>3 DEF LookUp, ScanInv, ScanTypeOK
  <2>. QED
    BY <1>1, <2>1, <2>2 DEF ScanInv, ScanTypeOK
<1>. QED
  BY <1>1, <1>3, <1>4, <1>5 DEF ScanInv, IndexHidesNothing

LEMMA ParseKeeps == ScanInv /\ (\E p \in Scanners : ParseFile(p)) => ScanInv'
<1>. SUFFICES ASSUME ScanInv, NEW p \in Scanners, ParseFile(p) PROVE ScanInv'
  OBVIOUS
<1>1. /\ codex' = codex /\ index' = index /\ taken' = taken /\ skipped' = skipped
      /\ query' = query /\ scans' = scans
  BY DEF ParseFile, logs
<1>2. Honest(Observed(taken[p]), codex)
  BY ObservedIsSound DEF ScanInv, ScanTypeOK
<1>3. held' = held \/ held' = [held EXCEPT ![p] = Observed(taken[p])]
  BY DEF ParseFile
<1>. HIDE DEF Observed
<1>4. \A s \in Scanners : Honest(held'[s], codex)
  BY <1>2, <1>3 DEF ScanInv, ScanTypeOK
<1>5. ScanTypeOK'
  <2>1. held' \in [Scanners -> Entry]
    BY <1>2, <1>3 DEF ScanInv, ScanTypeOK, Honest
  <2>2. at' \in [Scanners -> {"idle", "look", "parse", "save"}]
    BY DEF ParseFile, ScanInv, ScanTypeOK
  <2>. QED
    BY <1>1, <2>1, <2>2 DEF ScanInv, ScanTypeOK
<1>. QED
  BY <1>1, <1>4, <1>5 DEF ScanInv, IndexHidesNothing

LEMMA SaveIndexKeeps == ScanInv /\ (\E p \in Scanners : SaveIndex(p)) => ScanInv'
<1>. SUFFICES ASSUME ScanInv, NEW p \in Scanners, SaveIndex(p) PROVE ScanInv'
  OBVIOUS
<1>1. /\ codex' = codex /\ held' = held /\ taken' = taken /\ skipped' = skipped
      /\ query' = query /\ scans' = scans /\ index' \in {held[p], index}
  BY DEF SaveIndex, Remembered, logs
<1>2. Honest(index', codex)
  BY <1>1 DEF ScanInv
<1>3. ScanTypeOK'
  <2>1. at' \in [Scanners -> {"idle", "look", "parse", "save"}]
    BY DEF SaveIndex, ScanInv, ScanTypeOK
  <2>. QED
    BY <1>1, <1>2, <2>1 DEF ScanInv, ScanTypeOK, Honest
<1>. QED
  BY <1>1, <1>2, <1>3 DEF ScanInv, IndexHidesNothing

LEMMA ScanKept == ScanInv /\ [ScanNext]_scanVars => ScanInv'
<1>1. ScanInv /\ UNCHANGED scanVars => ScanInv'
  BY DEF scanVars, scanning, logs, ScanInv, ScanTypeOK, IndexHidesNothing
<1>. QED
  BY <1>1, GrowKeeps, LoadKeeps, LookUpKeeps, ParseKeeps, SaveIndexKeeps
     DEF ScanNext, ScanStep

(* A session file that a scan skips on the word of the metadata index holds  *)
(* nothing the scan would have counted (scan_codex_root), however many scans *)
(* run at once while the file grows and whichever of them saves last.        *)
THEOREM SkippedIsEmpty == ScanSpec => []IndexHidesNothing
<1>1. ScanInv => IndexHidesNothing
  BY DEF ScanInv
<1>. QED
  BY <1>1, ScanStart, ScanKept, PTL DEF ScanSpec

-----------------------------------------------------------------------------
(* The sums of a run's ledger, of counters of every width.                   *)

(* The recursion behind SumOf. *)
Adds(g, arithmetic, amounts, n) ==
  g = [i \in 0 .. n |-> IF i = 0 THEN 0 ELSE Plus(arithmetic, g[i - 1], amounts[i])]

LEMMA AddsExist ==
  ASSUME NEW arithmetic, NEW amounts, NEW n \in Nat
  PROVE  \E g : Adds(g, arithmetic, amounts, n)
<1>. DEFINE M == {m \in 0 .. n : \E g : Adds(g, arithmetic, amounts, m)}
<1>1. 0 \in M
  <2>. DEFINE g == [i \in 0 .. 0 |-> 0]
  <2>1. Adds(g, arithmetic, amounts, 0)
    BY DEF Adds
  <2>. QED
    BY <2>1
<1>2. ASSUME NEW i \in 0 .. n, i \in M, i < n PROVE i + 1 \in M
  <2>1. PICK g : Adds(g, arithmetic, amounts, i)
    BY <1>2
  <2>. DEFINE last == Plus(arithmetic, g[i], amounts[i + 1])
              h == [k \in 0 .. i + 1 |-> IF k <= i THEN g[k] ELSE last]
  <2>2. (\A k \in 0 .. i : h[k] = g[k]) /\ h[i + 1] = last
    OBVIOUS
  <2>3. \A k \in 0 .. i : g[k] = IF k = 0 THEN 0 ELSE Plus(arithmetic, g[k - 1], amounts[k])
    BY <2>1 DEF Adds
  <2>4. DOMAIN h = 0 .. i + 1 /\ h = [k \in 0 .. i + 1 |-> h[k]]
    OBVIOUS
  <2>. HIDE DEF h
  <2>5. \A k \in 0 .. i : h[k] = IF k = 0 THEN 0 ELSE Plus(arithmetic, h[k - 1], amounts[k])
    BY <2>2, <2>3
  <2>6. h[i + 1] = Plus(arithmetic, h[i], amounts[i + 1])
    BY <2>2
  <2>7. \A k \in 0 .. i + 1 : h[k] = IF k = 0 THEN 0 ELSE Plus(arithmetic, h[k - 1], amounts[k])
    BY <2>5, <2>6
  <2>8. Adds(h, arithmetic, amounts, i + 1)
    BY <2>4, <2>7 DEF Adds
  <2>. QED
    BY <1>2, <2>8
<1>. HIDE DEF M
<1>3. \A i \in 0 .. n : i \in M
  BY <1>1, <1>2, SetInduction
<1>. QED
  BY <1>3 DEF M

Partial(arithmetic, amounts) == CHOOSE g : Adds(g, arithmetic, amounts, Len(amounts))

LEMMA SumSteps ==
  ASSUME NEW arithmetic, NEW amounts, Len(amounts) \in Nat
  PROVE  LET g == Partial(arithmetic, amounts)
         IN  /\ SumOf(arithmetic, amounts) = g[Len(amounts)] /\ g[0] = 0
             /\ \A i \in 1 .. Len(amounts) : g[i] = Plus(arithmetic, g[i - 1], amounts[i])
<1>. DEFINE g == Partial(arithmetic, amounts)
<1>1. SumOf(arithmetic, amounts) = g[Len(amounts)]
  BY DEF SumOf, Partial, Adds
<1>2. Adds(g, arithmetic, amounts, Len(amounts))
  BY AddsExist DEF Partial
<1>. HIDE DEF g
<1>3. \A i \in 0 .. Len(amounts) :
        g[i] = IF i = 0 THEN 0 ELSE Plus(arithmetic, g[i - 1], amounts[i])
  BY <1>2 DEF Adds
<1>4. g[0] = 0 /\ \A i \in 1 .. Len(amounts) : g[i] = Plus(arithmetic, g[i - 1], amounts[i])
  BY <1>3
<1>. QED
  BY <1>1, <1>4 DEF g

(* No part of an exact sum is greater than the sum. *)
LEMMA ExactSum ==
  ASSUME NEW amounts, Len(amounts) \in Nat, \A i \in 1 .. Len(amounts) : amounts[i] \in Nat
  PROVE  /\ SumOf("exact", amounts) \in Nat
         /\ \A i \in 1 .. Len(amounts) : amounts[i] <= SumOf("exact", amounts)
         /\ \A i \in 0 .. Len(amounts) : Partial("exact", amounts)[i] \in Nat
<1>. DEFINE g == Partial("exact", amounts)
            M == {i \in 0 .. Len(amounts) : g[i] \in Nat /\ \A k \in 1 .. i : amounts[k] <= g[i]}
<1>1. /\ SumOf("exact", amounts) = g[Len(amounts)] /\ g[0] = 0
      /\ \A i \in 1 .. Len(amounts) : g[i] = Plus("exact", g[i - 1], amounts[i])
  BY SumSteps
<1>2. \A i \in 1 .. Len(amounts) : g[i] = g[i - 1] + amounts[i]
  BY <1>1 DEF Plus
<1>. HIDE DEF g
<1>3. 0 \in M
  BY <1>1
<1>4. ASSUME NEW i \in 0 .. Len(amounts), i \in M, i < Len(amounts) PROVE i + 1 \in M
  <2>1. i + 1 \in 1 .. Len(amounts) /\ i + 1 \in 0 .. Len(amounts) /\ (i + 1) - 1 = i
    BY <1>4
  <2>2. g[i + 1] = g[i] + amounts[i + 1]
    BY <1>2, <2>1
  <2>3. amounts[i + 1] \in Nat /\ g[i] \in Nat /\ \A k \in 1 .. i : amounts[k] <= g[i]
    BY <1>4, <2>1
  <2>4. g[i + 1] \in Nat /\ g[i] <= g[i + 1] /\ amounts[i + 1] <= g[i + 1]
    BY <2>2, <2>3
  <2>5. ASSUME NEW k \in 1 .. i + 1 PROVE amounts[k] <= g[i + 1]
    <3>1. CASE k = i + 1
      BY <2>4, <3>1
    <3>2. CASE k # i + 1
      <4>1. k \in 1 .. i /\ k \in 1 .. Len(amounts)
        BY <1>4, <3>2
      <4>2. amounts[k] <= g[i] /\ amounts[k] \in Nat
        BY <2>3, <4>1
      <4>. QED
        BY <2>3, <2>4, <4>2
    <3>. QED
      BY <3>1, <3>2
  <2>. QED
    BY <2>1, <2>4, <2>5
<1>. HIDE DEF M
<1>5. \A i \in 0 .. Len(amounts) : i \in M
  BY <1>3, <1>4, SetInduction
<1>6. \A i \in 0 .. Len(amounts) : g[i] \in Nat /\ \A k \in 1 .. i : amounts[k] <= g[i]
  BY <1>5 DEF M
<1>. QED
  BY <1>1, <1>6 DEF g

(* A checked sum is the exact one or absent. *)
LEMMA CheckedIs ==
  ASSUME NEW amounts, Len(amounts) \in Nat,
         \A i \in 1 .. Len(amounts) : amounts[i] \in 0 .. MaxCount
  PROVE  SumOf("checked", amounts)
           = IF SumOf("exact", amounts) > MaxCount THEN Unknown ELSE SumOf("exact", amounts)
<1>. DEFINE g == Partial("exact", amounts)
            h == Partial("checked", amounts)
            M == {i \in 0 .. Len(amounts) : h[i] = IF g[i] > MaxCount THEN Unknown ELSE g[i]}
<1>0. MaxCount \in Nat
  BY LedgerAssumption
<1>1. /\ SumOf("exact", amounts) = g[Len(amounts)] /\ g[0] = 0
      /\ \A i \in 1 .. Len(amounts) : g[i] = Plus("exact", g[i - 1], amounts[i])
  BY SumSteps
<1>2. /\ SumOf("checked", amounts) = h[Len(amounts)] /\ h[0] = 0
      /\ \A i \in 1 .. Len(amounts) : h[i] = Plus("checked", h[i - 1], amounts[i])
  BY SumSteps
<1>3. \A i \in 0 .. Len(amounts) : g[i] \in Nat
  BY <1>0, ExactSum
<1>. HIDE DEF g, h
<1>4. 0 \in M
  BY <1>0, <1>1, <1>2
<1>5. ASSUME NEW i \in 0 .. Len(amounts), i \in M, i < Len(amounts) PROVE i + 1 \in M
  <2>1. i + 1 \in 1 .. Len(amounts) /\ i + 1 \in 0 .. Len(amounts) /\ (i + 1) - 1 = i
    BY <1>5
  <2>2. g[i + 1] = g[i] + amounts[i + 1] /\ h[i + 1] = CheckedAdd(h[i], amounts[i + 1])
    BY <1>1, <1>2, <2>1 DEF Plus
  <2>3. amounts[i + 1] \in 0 .. MaxCount /\ g[i] \in Nat
        /\ h[i] = IF g[i] > MaxCount THEN Unknown ELSE g[i]
    BY <1>3, <1>5, <2>1
  <2>4. h[i + 1] = IF g[i + 1] > MaxCount THEN Unknown ELSE g[i + 1]
    BY <1>0, <2>2, <2>3 DEF CheckedAdd, Unknown
  <2>. QED
    BY <2>1, <2>4
<1>. HIDE DEF M
<1>6. \A i \in 0 .. Len(amounts) : i \in M
  BY <1>4, <1>5, SetInduction
<1>7. Len(amounts) \in M
  BY <1>6
<1>. QED
  BY <1>1, <1>2, <1>7 DEF M

(* A saturated sum is the exact one or the greatest number. *)
LEMMA SaturatingIs ==
  ASSUME NEW amounts, Len(amounts) \in Nat,
         \A i \in 1 .. Len(amounts) : amounts[i] \in 0 .. MaxCount
  PROVE  SumOf("saturating", amounts)
           = IF SumOf("exact", amounts) > MaxCount THEN MaxCount ELSE SumOf("exact", amounts)
<1>. DEFINE g == Partial("exact", amounts)
            h == Partial("saturating", amounts)
            M == {i \in 0 .. Len(amounts) : h[i] = IF g[i] > MaxCount THEN MaxCount ELSE g[i]}
<1>0. MaxCount \in Nat
  BY LedgerAssumption
<1>1. /\ SumOf("exact", amounts) = g[Len(amounts)] /\ g[0] = 0
      /\ \A i \in 1 .. Len(amounts) : g[i] = Plus("exact", g[i - 1], amounts[i])
  BY SumSteps
<1>2. /\ SumOf("saturating", amounts) = h[Len(amounts)] /\ h[0] = 0
      /\ \A i \in 1 .. Len(amounts) : h[i] = Plus("saturating", h[i - 1], amounts[i])
  BY SumSteps
<1>3. \A i \in 0 .. Len(amounts) : g[i] \in Nat
  BY <1>0, ExactSum
<1>. HIDE DEF g, h
<1>4. 0 \in M
  BY <1>0, <1>1, <1>2
<1>5. ASSUME NEW i \in 0 .. Len(amounts), i \in M, i < Len(amounts) PROVE i + 1 \in M
  <2>1. i + 1 \in 1 .. Len(amounts) /\ i + 1 \in 0 .. Len(amounts) /\ (i + 1) - 1 = i
    BY <1>5
  <2>2. g[i + 1] = g[i] + amounts[i + 1] /\ h[i + 1] = SaturatingAdd(h[i], amounts[i + 1])
    BY <1>1, <1>2, <2>1 DEF Plus
  <2>3. amounts[i + 1] \in 0 .. MaxCount /\ g[i] \in Nat
        /\ h[i] = IF g[i] > MaxCount THEN MaxCount ELSE g[i]
    BY <1>3, <1>5, <2>1
  <2>4. h[i + 1] = IF g[i + 1] > MaxCount THEN MaxCount ELSE g[i + 1]
    BY <1>0, <2>2, <2>3 DEF SaturatingAdd, Unknown
  <2>. QED
    BY <2>1, <2>4
<1>. HIDE DEF M
<1>6. \A i \in 0 .. Len(amounts) : i \in M
  BY <1>4, <1>5, SetInduction
<1>7. Len(amounts) \in M
  BY <1>6
<1>. QED
  BY <1>1, <1>2, <1>7 DEF M

(* What is missing is missing in the sum. *)
LEMMA SaturatingMisses ==
  ASSUME NEW amounts, Len(amounts) \in Nat, NEW spot \in 1 .. Len(amounts), amounts[spot] = Unknown
  PROVE  SumOf("saturating", amounts) = Unknown
<1>. DEFINE h == Partial("saturating", amounts)
            M == {i \in 0 .. Len(amounts) : spot <= i => h[i] = Unknown}
<1>1. /\ SumOf("saturating", amounts) = h[Len(amounts)]
      /\ \A i \in 1 .. Len(amounts) : h[i] = Plus("saturating", h[i - 1], amounts[i])
  BY SumSteps
<1>. HIDE DEF h
<1>2. 0 \in M
  OBVIOUS
<1>3. ASSUME NEW i \in 0 .. Len(amounts), i \in M, i < Len(amounts) PROVE i + 1 \in M
  <2>1. i + 1 \in 1 .. Len(amounts) /\ i + 1 \in 0 .. Len(amounts) /\ (i + 1) - 1 = i
    BY <1>3
  <2>2. h[i + 1] = SaturatingAdd(h[i], amounts[i + 1])
    BY <1>1, <2>1 DEF Plus
  <2>3. spot <= i + 1 => spot <= i \/ spot = i + 1
    BY <1>3
  <2>4. spot <= i + 1 => h[i] = Unknown \/ amounts[i + 1] = Unknown
    BY <1>3, <2>3
  <2>5. spot <= i + 1 => h[i + 1] = Unknown
    BY <2>2, <2>4 DEF SaturatingAdd
  <2>. QED
    BY <2>1, <2>5
<1>. HIDE DEF M
<1>4. \A i \in 0 .. Len(amounts) : i \in M
  BY <1>2, <1>3, SetInduction
<1>5. Len(amounts) \in M /\ spot <= Len(amounts)
  BY <1>4
<1>. QED
  BY <1>1, <1>5 DEF M

LEMMA SumOfTwo ==
  ASSUME NEW a, NEW b, NEW c, Len(c) \in Nat, Len(a) = Len(c), Len(b) = Len(c),
         \A i \in 1 .. Len(c) : a[i] \in Nat /\ b[i] \in Nat /\ c[i] = a[i] + b[i]
  PROVE  SumOf("exact", c) = SumOf("exact", a) + SumOf("exact", b)
<1>. DEFINE f == Partial("exact", a)
            g == Partial("exact", b)
            h == Partial("exact", c)
            M == {i \in 0 .. Len(c) : h[i] = f[i] + g[i]}
<1>1. /\ SumOf("exact", a) = f[Len(c)] /\ f[0] = 0
      /\ \A i \in 1 .. Len(c) : f[i] = Plus("exact", f[i - 1], a[i])
  BY SumSteps
<1>2. /\ SumOf("exact", b) = g[Len(c)] /\ g[0] = 0
      /\ \A i \in 1 .. Len(c) : g[i] = Plus("exact", g[i - 1], b[i])
  BY SumSteps
<1>3. /\ SumOf("exact", c) = h[Len(c)] /\ h[0] = 0
      /\ \A i \in 1 .. Len(c) : h[i] = Plus("exact", h[i - 1], c[i])
  BY SumSteps
<1>4. /\ \A i \in 0 .. Len(c) : f[i] \in Nat
      /\ \A i \in 0 .. Len(c) : g[i] \in Nat
  BY ExactSum
<1>. HIDE DEF f, g, h
<1>5. 0 \in M
  BY <1>1, <1>2, <1>3
<1>6. ASSUME NEW i \in 0 .. Len(c), i \in M, i < Len(c) PROVE i + 1 \in M
  <2>1. i + 1 \in 1 .. Len(c) /\ i + 1 \in 0 .. Len(c) /\ (i + 1) - 1 = i
    BY <1>6
  <2>2. f[i + 1] = f[i] + a[i + 1] /\ g[i + 1] = g[i] + b[i + 1] /\ h[i + 1] = h[i] + c[i + 1]
    BY <1>1, <1>2, <1>3, <2>1 DEF Plus
  <2>3. /\ f[i] \in Nat /\ g[i] \in Nat /\ a[i + 1] \in Nat /\ b[i + 1] \in Nat
        /\ c[i + 1] = a[i + 1] + b[i + 1] /\ h[i] = f[i] + g[i]
    BY <1>4, <1>6, <2>1
  <2>4. h[i + 1] = f[i + 1] + g[i + 1]
    BY <2>2, <2>3
  <2>. QED
    BY <2>1, <2>4
<1>. HIDE DEF M
<1>7. \A i \in 0 .. Len(c) : i \in M
  BY <1>5, <1>6, SetInduction
<1>8. Len(c) \in M
  BY <1>7
<1>. QED
  BY <1>1, <1>2, <1>3, <1>8 DEF M

-----------------------------------------------------------------------------
(* A record is of nothing, or of what a provider with this way of counting   *)
(* reported, with the uncached part that follows.                           *)
Told(how, u) ==
  u.semantics = how /\ u.uncached = Uncached(how, u.input, u.read, u.write)

LedgerInv ==
  /\ limit \in Limits /\ counting \in {"total_includes_cache", "uncached_only"}
  /\ recorded \in Seq(Counters)
  /\ \A i \in DOMAIN recorded : recorded[i] = NoUsage \/ Told(counting, recorded[i])

LEMMA CountIs == MaxCount \in Nat /\ Unknown = -1 /\ Count = 0 .. MaxCount \cup {-1}
BY LedgerAssumption DEF Unknown, Count

LEMMA UncachedTyped ==
  ASSUME NEW input \in Count, NEW reads \in Count, NEW writes \in Count, NEW how \in Semantics
  PROVE  Uncached(how, input, reads, writes) \in Count
<1>1. CASE how = "uncached_only"
  BY <1>1 DEF Uncached
<1>2. CASE how = "unknown"
  BY <1>2, CountIs DEF Uncached
<1>3. CASE how = "total_includes_cache"
  <2>. DEFINE cached == reads + (IF writes = Unknown THEN 0 ELSE writes)
  <2>1. Uncached(how, input, reads, writes)
          = IF input = Unknown \/ reads = Unknown \/ cached > input THEN Unknown ELSE input - cached
    BY <1>3 DEF Uncached
  <2>2. CASE input = Unknown \/ reads = Unknown \/ cached > input
    BY <2>1, <2>2, CountIs
  <2>3. CASE ~(input = Unknown \/ reads = Unknown \/ cached > input)
    <3>1. input \in 0 .. MaxCount /\ reads \in 0 .. MaxCount /\ cached \in Nat /\ cached <= input
      BY <2>3, CountIs
    <3>. HIDE DEF cached
    <3>. QED
      BY <2>1, <2>3, <3>1, CountIs
  <2>. QED
    BY <2>2, <2>3
<1>. QED
  BY <1>1, <1>2, <1>3 DEF Semantics

LEMMA LedgerStarts == LedgerInit => LedgerInv
<1>1. << >> \in Seq(Counters)
  OBVIOUS
<1>. QED
  BY <1>1 DEF LedgerInit, LedgerInv, Semantics

LEMMA LedgerKept == LedgerInv /\ [LedgerNext]_ledger => LedgerInv'
<1>. SUFFICES ASSUME LedgerInv, [LedgerNext]_ledger PROVE LedgerInv'
  OBVIOUS
<1>1. CASE UNCHANGED ledger
  <2>1. limit' = limit /\ counting' = counting /\ recorded' = recorded
    BY <1>1 DEF ledger
  <2>. QED
    BY <2>1 DEF LedgerInv, Told
<1>2. CASE RecordAttempt
  <2>0. limit' = limit /\ counting' = counting /\ counting \in Semantics
    BY <1>2 DEF RecordAttempt, LedgerInv, Semantics
  <2>1. PICK u : recorded' = Append(recorded, u) /\ u \in Counters /\ (u = NoUsage \/ Told(counting, u))
    <3>1. CASE recorded' = Append(recorded, NoUsage)
      <4>1. NoUsage \in Counters
        BY CountIs DEF NoUsage, Counters, Semantics
      <4>. QED
        BY <3>1, <4>1
    <3>2. CASE \E input, reads, writes, output \in Counter :
                 recorded' = Append(recorded,
                   [semantics |-> counting, input |-> input,
                    uncached |-> Uncached(counting, input, reads, writes),
                    read |-> reads, write |-> writes, output |-> output])
      <4>1. PICK input, reads, writes, output \in Counter :
              recorded' = Append(recorded,
                [semantics |-> counting, input |-> input,
                 uncached |-> Uncached(counting, input, reads, writes),
                 read |-> reads, write |-> writes, output |-> output])
        BY <3>2
      <4>. DEFINE part == Uncached(counting, input, reads, writes)
                  u == [semantics |-> counting, input |-> input, uncached |-> part,
                        read |-> reads, write |-> writes, output |-> output]
      <4>2. input \in Count /\ reads \in Count /\ writes \in Count /\ output \in Count
        BY LedgerAssumption DEF Counter, Count
      <4>3. part \in Count
        BY <2>0, <4>2, UncachedTyped
      <4>4. u.semantics = counting /\ u.input = input /\ u.uncached = part /\ u.read = reads
            /\ u.write = writes
        OBVIOUS
      <4>5. Told(counting, u)
        BY <4>4, Zenon DEF Told
      <4>. HIDE DEF part
      <4>6. u \in Counters
        BY <2>0, <4>2, <4>3 DEF Counters
      <4>7. recorded' = Append(recorded, u)
        BY <4>1 DEF part
      <4>. HIDE DEF u
      <4>. QED
        BY <4>5, <4>6, <4>7
    <3>. QED
      BY <1>2, <3>1, <3>2 DEF RecordAttempt
  <2>2. recorded \in Seq(Counters) /\ \A i \in DOMAIN recorded : recorded[i] = NoUsage \/ Told(counting, recorded[i])
    BY DEF LedgerInv
  <2>3. /\ recorded' \in Seq(Counters) /\ DOMAIN recorded' = 1 .. Len(recorded) + 1
        /\ Len(recorded) \in Nat /\ DOMAIN recorded = 1 .. Len(recorded)
        /\ recorded'[Len(recorded) + 1] = u
        /\ \A i \in 1 .. Len(recorded) : recorded'[i] = recorded[i]
    BY <2>1, <2>2
  <2>4. ASSUME NEW i \in DOMAIN recorded' PROVE recorded'[i] = NoUsage \/ Told(counting, recorded'[i])
    <3>1. CASE i = Len(recorded) + 1
      BY <2>1, <2>3, <3>1
    <3>2. CASE i # Len(recorded) + 1
      BY <2>2, <2>3, <3>2
    <3>. QED
      BY <3>1, <3>2
  <2>. QED
    BY <2>0, <2>3, <2>4 DEF LedgerInv
<1>. QED
  BY <1>1, <1>2 DEF LedgerNext

-----------------------------------------------------------------------------
LEMMA RecordTyped ==
  ASSUME LedgerInv, NEW i \in DOMAIN recorded
  PROVE  LET u == recorded[i]
         IN  /\ u.semantics \in Semantics /\ u.input \in Count /\ u.uncached \in Count
             /\ u.read \in Count /\ u.write \in Count /\ u.output \in Count
<1>1. recorded[i] \in Counters
  BY DEF LedgerInv
<1>. QED
  BY <1>1 DEF Counters

(* The input the code counts is the true one, where it counts any. *)
LEMMA RecordCounts ==
  ASSUME LedgerInv, NEW i \in DOMAIN recorded
  PROVE  LET u == recorded[i]
         IN  /\ Reported(u) => /\ ~Unavailable(u) /\ TrueInput(u) \in Nat
                               /\ u.output \in 0 .. MaxCount
                               /\ Transported(u) = IF TrueInput(u) > MaxCount THEN Unknown
                                                   ELSE TrueInput(u)
             /\ CompleteRecord(u) => Reported(u)
<1>. DEFINE u == recorded[i]
<1>1. /\ u.semantics \in Semantics /\ u.input \in Count /\ u.uncached \in Count
      /\ u.read \in Count /\ u.write \in Count /\ u.output \in Count
  BY RecordTyped
<1>2. u = NoUsage \/ Told(counting, u)
  BY DEF LedgerInv
<1>3. counting \in {"total_includes_cache", "uncached_only"}
  BY DEF LedgerInv
<1>. HIDE DEF u
<1>4. CASE u = NoUsage
  <2>1. u.input = Unknown /\ u.semantics = "unknown"
    BY <1>4 DEF NoUsage
  <2>2. ~Reported(u) /\ Transported(u) = Unknown
    BY <2>1 DEF Reported, Transported
  <2>. QED
    BY <2>2 DEF CompleteRecord, u
<1>5. CASE Told(counting, u) /\ counting = "total_includes_cache"
  <2>1. /\ u.semantics = "total_includes_cache" /\ Transported(u) = u.input
        /\ (Unavailable(u) <=> u.input = Unknown) /\ TrueInput(u) = u.input
        /\ (Reported(u) <=> u.input # Unknown /\ u.output # Unknown)
    BY <1>5 DEF Told, Transported, Unavailable, TrueInput, Reported
  <2>2. u.input # Unknown => u.input \in 0 .. MaxCount
    BY <1>1, CountIs
  <2>3. u.output # Unknown => u.output \in 0 .. MaxCount
    BY <1>1, CountIs
  <2>4. Reported(u) => /\ ~Unavailable(u) /\ TrueInput(u) \in Nat
                       /\ u.output \in 0 .. MaxCount
                       /\ Transported(u) = IF TrueInput(u) > MaxCount THEN Unknown ELSE TrueInput(u)
    BY <2>1, <2>2, <2>3, CountIs
  <2>. QED
    BY <2>1, <2>4 DEF CompleteRecord, u
<1>6. CASE Told(counting, u) /\ counting = "uncached_only"
  <2>1. u.semantics = "uncached_only" /\ u.uncached = u.input
    BY <1>6 DEF Told, Uncached
  <2>2. /\ Transported(u) = CheckedAdd(CheckedAdd(u.input, u.read), u.write)
        /\ (Unavailable(u) <=> u.input = Unknown \/ u.read = Unknown \/ u.write = Unknown)
        /\ TrueInput(u) = u.input + u.read + u.write
        /\ (Reported(u) <=> /\ u.input # Unknown /\ u.output # Unknown
                            /\ u.read # Unknown /\ u.write # Unknown)
    BY <1>6, <2>1 DEF Transported, Unavailable, TrueInput, Reported
  <2>3. Transported(u) # Unknown => u.input # Unknown /\ u.read # Unknown /\ u.write # Unknown
    BY <2>2 DEF CheckedAdd
  <2>4. ASSUME Reported(u)
        PROVE  /\ ~Unavailable(u) /\ TrueInput(u) \in Nat /\ u.output \in 0 .. MaxCount
               /\ Transported(u) = IF TrueInput(u) > MaxCount THEN Unknown ELSE TrueInput(u)
    <3>1. /\ u.input \in 0 .. MaxCount /\ u.read \in 0 .. MaxCount /\ u.write \in 0 .. MaxCount
          /\ u.output \in 0 .. MaxCount
      BY <1>1, <2>2, <2>4, CountIs
    <3>2. CheckedAdd(CheckedAdd(u.input, u.read), u.write)
            = IF u.input + u.read + u.write > MaxCount THEN Unknown
              ELSE u.input + u.read + u.write
      BY <3>1, CountIs DEF CheckedAdd
    <3>. QED
      BY <2>2, <2>4, <3>1, <3>2, CountIs
  <2>. QED
    BY <2>2, <2>3, <2>4 DEF CompleteRecord, u
<1>. QED
  BY <1>2, <1>3, <1>4, <1>5, <1>6

(* The total is absent where a record misses something. *)
LEMMA TotalMisses ==
  ASSUME LedgerInv, TotalTokens # Unknown
  PROVE  recorded # << >> /\ AllReported
BY RecordCounts DEF TotalTokens, Complete, AllReported

(* Otherwise it is the true one or too large. *)
LEMMA TotalIs ==
  ASSUME LedgerInv, AllReported
  PROVE  /\ TrueTotal \in Nat
         /\ recorded # << >> =>
              TotalTokens = IF TrueTotal > MaxCount THEN Unknown ELSE TrueTotal
<1>. DEFINE n == Len(recorded)
            ins == [i \in DOMAIN recorded |-> TrueInput(recorded[i])]
            outs == [i \in DOMAIN recorded |-> recorded[i].output]
            both == [i \in DOMAIN recorded |-> TrueInput(recorded[i]) + recorded[i].output]
            A == SumOf("exact", ins)
            B == SumOf("exact", outs)
<1>0. MaxCount \in Nat /\ Unknown = -1
  BY CountIs
<1>1. n \in Nat /\ DOMAIN recorded = 1 .. n
  BY DEF LedgerInv
<1>2. \A i \in 1 .. n : LET u == recorded[i]
                        IN /\ ~Unavailable(u) /\ TrueInput(u) \in Nat /\ u.output \in 0 .. MaxCount
                           /\ Transported(u) = IF TrueInput(u) > MaxCount THEN Unknown
                                               ELSE TrueInput(u)
  BY <1>1, RecordCounts DEF AllReported
<1>3. /\ Len(ins) = n /\ Len(outs) = n /\ Len(both) = n
      /\ \A i \in 1 .. n : ins[i] = TrueInput(recorded[i])
      /\ \A i \in 1 .. n : outs[i] = recorded[i].output
      /\ \A i \in 1 .. n : both[i] = ins[i] + outs[i]
  BY <1>1
<1>4. TrueTotal = SumOf("exact", both)
  BY DEF TrueTotal
<1>. HIDE DEF ins, outs, both
<1>5. \A i \in 1 .. n : ins[i] \in Nat /\ outs[i] \in 0 .. MaxCount /\ outs[i] \in Nat
  BY <1>0, <1>2, <1>3
<1>6. TrueTotal = A + B
  BY <1>1, <1>3, <1>4, <1>5, SumOfTwo
<1>7. A \in Nat /\ B \in Nat /\ \A i \in 1 .. n : ins[i] <= A
  BY <1>1, <1>3, <1>5, ExactSum
<1>8. B \in Nat /\ \A i \in 1 .. n : outs[i] <= B
  BY <1>1, <1>3, <1>5, ExactSum
<1>. HIDE DEF A, B
<1>9. ASSUME NEW i \in 1 .. n, ins[i] > MaxCount, recorded # << >>
      PROVE  TotalTokens = Unknown /\ TrueTotal > MaxCount
  <2>1. Transported(recorded[i]) = Unknown
    BY <1>2, <1>3, <1>9
  <2>2. ~Complete
    BY <1>1, <2>1 DEF Complete, CompleteRecord
  <2>3. A > MaxCount
    BY <1>0, <1>5, <1>7, <1>9
  <2>. QED
    BY <1>0, <1>6, <1>7, <2>2, <2>3 DEF TotalTokens
<1>10. ASSUME \A i \in 1 .. n : ins[i] <= MaxCount, recorded # << >>
       PROVE  TotalTokens = IF TrueTotal > MaxCount THEN Unknown ELSE TrueTotal
  <2>1. \A i \in 1 .. n : /\ Transported(recorded[i]) = ins[i] /\ ins[i] \in 0 .. MaxCount
                          /\ ~Unavailable(recorded[i]) /\ CompleteRecord(recorded[i])
    <3>1. ASSUME NEW i \in 1 .. n
          PROVE  /\ Transported(recorded[i]) = ins[i] /\ ins[i] \in 0 .. MaxCount
                 /\ ~Unavailable(recorded[i]) /\ CompleteRecord(recorded[i])
      <4>1. /\ ins[i] = TrueInput(recorded[i]) /\ ins[i] \in Nat /\ ins[i] <= MaxCount
            /\ ~Unavailable(recorded[i]) /\ recorded[i].output \in 0 .. MaxCount
            /\ Transported(recorded[i]) = IF TrueInput(recorded[i]) > MaxCount THEN Unknown
                                          ELSE TrueInput(recorded[i])
        BY <1>2, <1>3, <1>5, <1>10
      <4>2. Transported(recorded[i]) = ins[i] /\ ins[i] \in 0 .. MaxCount
        BY <1>0, <4>1
      <4>. QED
        BY <1>0, <4>1, <4>2 DEF CompleteRecord
    <3>. QED
      BY <3>1
  <2>2. ObservedInput = IF A > MaxCount THEN Unknown ELSE A
    <3>1. [i \in DOMAIN recorded |-> IF Unavailable(recorded[i]) THEN 0 ELSE Transported(recorded[i])]
            = ins
      BY <1>1, <1>3, <2>1 DEF ins
    <3>2. SumOf("checked", ins) = IF A > MaxCount THEN Unknown ELSE A
      BY <1>1, <1>3, <2>1, CheckedIs DEF A
    <3>. QED
      BY <3>1, <3>2 DEF ObservedInput
  <2>3. ObservedOutput = IF B > MaxCount THEN Unknown ELSE B
    <3>1. \A i \in DOMAIN recorded : recorded[i].output # Unknown
      BY <1>0, <1>1, <1>3, <1>5
    <3>2. [i \in DOMAIN recorded |-> IF recorded[i].output = Unknown THEN 0 ELSE recorded[i].output]
            = outs
      BY <3>1 DEF outs
    <3>3. SumOf("checked", outs) = IF B > MaxCount THEN Unknown ELSE B
      BY <1>1, <1>3, <1>5, CheckedIs DEF B
    <3>. QED
      BY <3>2, <3>3 DEF ObservedOutput
  <2>4. ObservedTotal = IF TrueTotal > MaxCount THEN Unknown ELSE TrueTotal
    BY <1>0, <1>6, <1>7, <2>2, <2>3 DEF ObservedTotal, CheckedAdd
  <2>5. ASSUME TrueTotal <= MaxCount, NEW i \in 1 .. n
        PROVE  CheckedAdd(Transported(recorded[i]), recorded[i].output) # Unknown
    <3>1. /\ Transported(recorded[i]) = ins[i] /\ recorded[i].output = outs[i]
          /\ ins[i] \in Nat /\ outs[i] \in Nat /\ ins[i] <= A /\ outs[i] <= B
      BY <1>3, <1>5, <1>7, <1>8, <2>1
    <3>2. ins[i] + outs[i] <= MaxCount
      BY <1>0, <1>6, <1>7, <2>5, <3>1
    <3>. QED
      BY <1>0, <3>1, <3>2 DEF CheckedAdd
  <2>6. Complete <=> TrueTotal <= MaxCount
    BY <1>0, <1>1, <1>6, <1>7, <1>10, <2>1, <2>4, <2>5 DEF Complete, Overflowed
  <2>. QED
    BY <1>0, <1>6, <1>7, <2>4, <2>6 DEF TotalTokens
<1>11. TrueTotal \in Nat
  BY <1>6, <1>7
<1>. QED
  BY <1>0, <1>5, <1>9, <1>10, <1>11

(* The sum of one counter that nobody left out. *)
Field(field) == [i \in DOMAIN recorded |-> recorded[i][field]]

LEMMA SummedIs ==
  ASSUME LedgerInv, NEW field \in {"input", "read", "write"}, Summed(field) # Unknown
  PROVE  /\ \A i \in DOMAIN recorded : recorded[i][field] \in 0 .. MaxCount
         /\ SumOf("exact", Field(field)) \in Nat
         /\ \A i \in DOMAIN recorded : recorded[i][field] <= SumOf("exact", Field(field))
         /\ Summed(field) = IF SumOf("exact", Field(field)) > MaxCount THEN MaxCount
                            ELSE SumOf("exact", Field(field))
<1>. DEFINE amounts == Field(field)
            n == Len(recorded)
<1>1. n \in Nat /\ DOMAIN recorded = 1 .. n /\ Len(amounts) = n
      /\ \A i \in 1 .. n : amounts[i] = recorded[i][field]
  BY DEF LedgerInv, Field
<1>2. Summed(field) = SumOf("saturating", amounts)
  BY Zenon DEF Summed, Field
<1>3. ASSUME NEW i \in 1 .. n PROVE recorded[i][field] \in Count
  <2>1. /\ recorded[i].input \in Count /\ recorded[i].read \in Count /\ recorded[i].write \in Count
    BY <1>1, RecordTyped
  <2>. QED
    BY <2>1
<1>. HIDE DEF amounts
<1>4. \A i \in 1 .. n : amounts[i] # Unknown
  BY <1>1, <1>2, SaturatingMisses
<1>5. \A i \in 1 .. n : amounts[i] \in 0 .. MaxCount /\ amounts[i] \in Nat
  BY <1>1, <1>3, <1>4, CountIs
<1>6. SumOf("exact", amounts) \in Nat /\ \A i \in 1 .. n : amounts[i] <= SumOf("exact", amounts)
  BY <1>1, <1>5, ExactSum
<1>7. Summed(field) = IF SumOf("exact", amounts) > MaxCount THEN MaxCount
                      ELSE SumOf("exact", amounts)
  BY <1>1, <1>2, <1>5, SaturatingIs
<1>. QED
  BY <1>1, <1>5, <1>6, <1>7 DEF amounts

(* What `status` shows of the input. *)
LEMMA AggregateIs ==
  ASSUME LedgerInv, Transported(Aggregate) \notin {Unknown, MaxCount}
  PROVE  /\ \A i \in DOMAIN recorded : Transported(recorded[i]) # Unknown
         /\ Transported(Aggregate) = TrueInputs
<1>. DEFINE n == Len(recorded)
            ins == [i \in DOMAIN recorded |-> TrueInput(recorded[i])]
            I == SumOf("exact", Field("input"))
            R == SumOf("exact", Field("read"))
            W == SumOf("exact", Field("write"))
<1>0. MaxCount \in Nat /\ Unknown = -1
  BY CountIs
<1>1. n \in Nat /\ DOMAIN recorded = 1 .. n /\ n # 0
      /\ counting \in {"total_includes_cache", "uncached_only"}
      /\ Aggregate.semantics = counting
      /\ \A i \in 1 .. n : Told(counting, recorded[i])
  <2>1. Aggregate.semantics # "unknown"
    BY DEF Transported
  <2>2. /\ recorded # << >> /\ Aggregate.semantics = recorded[1].semantics
        /\ \A i \in DOMAIN recorded : recorded[i].semantics = recorded[1].semantics
    BY <2>1 DEF Aggregate
  <2>3. n \in Nat /\ DOMAIN recorded = 1 .. n /\ n # 0
    BY <2>2 DEF LedgerInv
  <2>4. \A i \in 1 .. n : recorded[i] = NoUsage \/ Told(counting, recorded[i])
    BY <2>3 DEF LedgerInv
  <2>5. \A i \in 1 .. n : recorded[i] # NoUsage
    BY <2>1, <2>2, <2>3 DEF NoUsage
  <2>6. \A i \in 1 .. n : Told(counting, recorded[i])
    BY <2>4, <2>5
  <2>7. Aggregate.semantics = counting
    BY <2>2, <2>3, <2>6 DEF Told
  <2>. QED
    BY <2>3, <2>6, <2>7 DEF LedgerInv
<1>2. /\ Aggregate.input = Summed("input") /\ Aggregate.uncached = Summed("uncached")
      /\ Aggregate.read = Summed("read") /\ Aggregate.write = Summed("write")
  BY DEF Aggregate
<1>3. TrueInputs = SumOf("exact", ins)
  BY DEF TrueInputs
<1>4. CASE counting = "total_includes_cache"
  <2>1. Transported(Aggregate) = Summed("input")
    BY <1>1, <1>2, <1>4 DEF Transported
  <2>2. /\ \A i \in DOMAIN recorded : recorded[i].input \in 0 .. MaxCount
        /\ I \in Nat /\ Summed("input") = IF I > MaxCount THEN MaxCount ELSE I
    BY <2>1, SummedIs
  <2>3. ins = Field("input")
    BY <1>4 DEF Field, TrueInput
  <2>4. \A i \in DOMAIN recorded : Transported(recorded[i]) = recorded[i].input
    BY <1>1, <1>4 DEF Told, Transported
  <2>. HIDE DEF ins
  <2>5. Transported(Aggregate) = TrueInputs
    BY <1>0, <1>3, <2>1, <2>2, <2>3
  <2>6. \A i \in DOMAIN recorded : Transported(recorded[i]) # Unknown
    BY <1>0, <2>2, <2>4
  <2>. QED
    BY <2>5, <2>6
<1>5. CASE counting = "uncached_only"
  <2>1. \A i \in DOMAIN recorded : /\ recorded[i].uncached = recorded[i].input
                                   /\ recorded[i].semantics = "uncached_only"
    BY <1>1, <1>5 DEF Told, Uncached
  <2>2. Summed("uncached") = Summed("input")
    <3>1. [i \in DOMAIN recorded |-> recorded[i]["uncached"]]
            = [i \in DOMAIN recorded |-> recorded[i]["input"]]
      BY <2>1
    <3>. QED
      BY <3>1 DEF Summed
  <2>3. Transported(Aggregate)
          = CheckedAdd(CheckedAdd(Summed("input"), Summed("read")), Summed("write"))
    BY <1>1, <1>2, <1>5, <2>2 DEF Transported
  <2>4. /\ Summed("input") # Unknown /\ Summed("read") # Unknown /\ Summed("write") # Unknown
    BY <2>3 DEF CheckedAdd
  <2>5. /\ \A i \in DOMAIN recorded : recorded[i].input \in 0 .. MaxCount /\ recorded[i].input <= I
        /\ I \in Nat /\ Summed("input") = IF I > MaxCount THEN MaxCount ELSE I
    BY <2>4, SummedIs
  <2>6. /\ \A i \in DOMAIN recorded : recorded[i].read \in 0 .. MaxCount /\ recorded[i].read <= R
        /\ R \in Nat /\ Summed("read") = IF R > MaxCount THEN MaxCount ELSE R
    BY <2>4, SummedIs
  <2>7. /\ \A i \in DOMAIN recorded : recorded[i].write \in 0 .. MaxCount /\ recorded[i].write <= W
        /\ W \in Nat /\ Summed("write") = IF W > MaxCount THEN MaxCount ELSE W
    BY <2>4, SummedIs
  <2>8. Transported(Aggregate) = I + R + W /\ I + R + W < MaxCount
    <3>. HIDE DEF I, R, W
    <3>1. /\ Summed("input") = (IF I > MaxCount THEN MaxCount ELSE I) /\ I \in Nat
          /\ Summed("read") = (IF R > MaxCount THEN MaxCount ELSE R) /\ R \in Nat
          /\ Summed("write") = (IF W > MaxCount THEN MaxCount ELSE W) /\ W \in Nat
      BY <2>5, <2>6, <2>7
    <3>2. CheckedAdd(CheckedAdd(Summed("input"), Summed("read")), Summed("write"))
            \notin {Unknown, MaxCount}
      BY <2>3
    <3>. QED
      BY <1>0, <2>3, <3>1, <3>2 DEF CheckedAdd
  <2>9. TrueInputs = I + R + W
    <3>. DEFINE a == Field("input")
                b == Field("read")
                c == Field("write")
                two == [i \in DOMAIN recorded |-> recorded[i].input + recorded[i].read]
    <3>1. /\ Len(a) = n /\ Len(b) = n /\ Len(c) = n /\ Len(two) = n /\ Len(ins) = n
          /\ \A i \in 1 .. n : a[i] = recorded[i].input /\ b[i] = recorded[i].read
          /\ \A i \in 1 .. n : c[i] = recorded[i].write
          /\ \A i \in 1 .. n : two[i] = recorded[i].input + recorded[i].read
          /\ \A i \in 1 .. n : ins[i] = recorded[i].input + recorded[i].read + recorded[i].write
      BY <1>1, <1>5 DEF Field, TrueInput
    <3>. HIDE DEF a, b, c, two, ins
    <3>2. \A i \in 1 .. n : a[i] \in Nat /\ b[i] \in Nat /\ c[i] \in Nat
      <4>1. \A k \in 0 .. MaxCount : k \in Nat
        BY <1>0
      <4>2. \A i \in 1 .. n : /\ recorded[i].input \in Nat /\ recorded[i].read \in Nat
                              /\ recorded[i].write \in Nat
        <5>. HIDE DEF I, R, W
        <5>. QED
          BY <1>1, <2>5, <2>6, <2>7, <4>1, Zenon
      <4>. QED
        BY <3>1, <4>2, Zenon
    <3>3. \A i \in 1 .. n : two[i] \in Nat /\ two[i] = a[i] + b[i] /\ ins[i] = two[i] + c[i]
      BY <3>1, <3>2
    <3>4. SumOf("exact", two) = SumOf("exact", a) + SumOf("exact", b)
      BY <1>1, <3>1, <3>2, <3>3, SumOfTwo
    <3>5. SumOf("exact", ins) = SumOf("exact", two) + SumOf("exact", c)
      BY <1>1, <3>1, <3>2, <3>3, SumOfTwo
    <3>. QED
      BY <1>3, <3>4, <3>5 DEF a, b, c
  <2>10. ASSUME NEW i \in DOMAIN recorded PROVE Transported(recorded[i]) # Unknown
    <3>1. Transported(recorded[i])
            = CheckedAdd(CheckedAdd(recorded[i].input, recorded[i].read), recorded[i].write)
      BY <2>1 DEF Transported
    <3>2. /\ recorded[i].input \in 0 .. MaxCount /\ recorded[i].input <= I
          /\ recorded[i].read \in 0 .. MaxCount /\ recorded[i].read <= R
          /\ recorded[i].write \in 0 .. MaxCount /\ recorded[i].write <= W
      BY <2>5, <2>6, <2>7
    <3>3. I \in Nat /\ R \in Nat /\ W \in Nat
      BY <2>5, <2>6, <2>7
    <3>. HIDE DEF I, R, W
    <3>4. recorded[i].input + recorded[i].read + recorded[i].write <= MaxCount
      BY <1>0, <2>8, <3>2, <3>3
    <3>. QED
      BY <1>0, <3>1, <3>2, <3>4 DEF CheckedAdd
  <2>. QED
    BY <2>8, <2>9, <2>10
<1>. QED
  BY <1>1, <1>4, <1>5

LEMMA CountsFollow == LedgerInv => CountsAreTrue
<1>. SUFFICES ASSUME LedgerInv PROVE CountsAreTrue
  OBVIOUS
<1>0. MaxCount \in Nat /\ Unknown = -1 /\ limit \in 0 .. MaxCount
  BY CountIs, LedgerAssumption DEF LedgerInv
<1>1. TotalTokens # Unknown => recorded # << >> /\ AllReported
  BY TotalMisses
<1>2. AllReported => TrueTotal \in Nat
  BY TotalIs
<1>3. AllReported /\ recorded # << >> =>
        TotalTokens = IF TrueTotal > MaxCount THEN Unknown ELSE TrueTotal
  BY TotalIs
<1>4. TotalTokens # Unknown => AllReported /\ TotalTokens = TrueTotal
  BY <1>1, <1>3
<1>5. recorded # << >> /\ AllReported => (TotalTokens = Unknown <=> TrueTotal > MaxCount)
  BY <1>0, <1>2, <1>3
<1>6. limit # 0 /\ recorded # << >> => (Admits <=> AllReported /\ TrueTotal < limit)
  <2>1. limit # 0 /\ recorded # << >> => (Admits <=> TotalTokens # Unknown /\ TotalTokens < limit)
    BY DEF Admits
  <2>. QED
    BY <1>0, <1>2, <1>4, <1>5, <2>1
<1>7. Transported(Aggregate) \notin {Unknown, MaxCount} =>
        /\ \A i \in DOMAIN recorded : Transported(recorded[i]) # Unknown
        /\ Transported(Aggregate) = TrueInputs
  BY AggregateIs
<1>. QED
  BY <1>4, <1>5, <1>6, <1>7, Zenon DEF CountsAreTrue

(* For every sequence of attempts and every width of the counters: the total *)
(* of a ledger, the cap that rests on it, and what `status` shows.           *)
THEOREM LedgerCountsAreTrue == LedgerSpec => []CountsAreTrue
BY LedgerStarts, LedgerKept, CountsFollow, PTL DEF LedgerSpec

-----------------------------------------------------------------------------
(* RunCreate: a run is made by one process.                                *)

(* The entries that creation makes, and who is at work on them. *)
Parts == {EntryOrder[i] : i \in DOMAIN EntryOrder}
AtWork(p) == place[p].phase \in {"create", "clean"}

(* One process at most makes or cleans up the directory, and finds only its  *)
(* own entries in it; what comes before its next entry is there.            *)
OneMaker ==
  /\ \A p, q \in Creators : AtWork(p) /\ AtWork(q) => p = q
  /\ \A p \in Creators : AtWork(p) =>
       made /\ told = {} /\ \A x \in Parts : entry[x] \in {p, NoCreator}
  /\ \A p \in Creators : place[p].phase = "create" =>
       /\ place[p].pos \in 1 .. 8
       /\ \A i \in 1 .. 8 : i < place[p].pos => entry[EntryOrder[i]] = p
  /\ \A p \in Creators : place[p].phase = "clean" => place[p].pos \in 1 .. 9

(* No directory, no entries; one author; and what was created stays. *)
Authored ==
  /\ ~made => \A x \in Entries : entry[x] = NoCreator
  /\ \A x, y \in Parts : entry[x] # NoCreator /\ entry[y] # NoCreator => entry[x] = entry[y]
  /\ \A p \in told : made /\ \A x \in Parts : entry[x] = p

(* Whoever lets workers loose was told, and git was. *)
Entitled ==
  \A p \in Creators :
    /\ place[p].phase = "ignore" => p \in told
    /\ place[p].phase = "step" => creating[p].worked < MaxWorkers
    /\ place[p].phase \in {"loop", "step", "exit"} \/ creating[p].worked > 0 =>
         p \in told /\ entry["ignore"] = p
    /\ creating[p].start /\ creating[p].exit = "ok" =>
         p \in told /\ coding.status = "complete"

CreateInv == CreateTypeOK /\ OneMaker /\ Authored /\ Entitled

LEMMA EntriesKnown ==
  /\ DOMAIN EntryOrder = 1 .. 8 /\ Len(EntryOrder) = 8
  /\ Parts = {"attempts", "archive", "workflow", "instructions", "manifest",
              "state", "observation", "lock"}
  /\ Entries = Parts \cup {"ignore"} /\ "ignore" \notin Parts
  /\ \A i \in 1 .. 8 : EntryOrder[i] \in Parts
  /\ \A x \in Parts : \E i \in 1 .. 8 : x = EntryOrder[i]
BY DEF EntryOrder, Parts, Entries

LEMMA CleanKnown ==
  \A i \in 1 .. 9 : IF i = 9 THEN CleanOrder[i] = "run" ELSE CleanOrder[i] \in Parts
BY EntriesKnown DEF CleanOrder

LEMMA PlacesKnown ==
  ASSUME NEW phase \in {"idle", "validate", "directory", "create", "clean",
                        "ignore", "loop", "step", "exit"}, NEW pos \in 0 .. 9
  PROVE  At(phase, pos) \in Places /\ At(phase, pos).phase = phase /\ At(phase, pos).pos = pos
BY DEF At, Places

(* What a command tells of itself. *)
Telling == [start : BOOLEAN, worked : 0 .. MaxWorkers, stop : BOOLEAN, exit : Exits]

LEMMA Tellings ==
  /\ NotCreating \in Telling
  /\ \A c \in Telling :
       /\ \A code \in Exits : LET d == [c EXCEPT !.exit = code] IN
            d \in Telling /\ d.start = c.start /\ d.worked = c.worked /\ d.exit = code
       /\ \A start \in BOOLEAN : LET d == [NotCreating EXCEPT !.start = start] IN
            d \in Telling /\ d.worked = 0 /\ d.exit = "none"
<1>1. NotCreating \in Telling
  BY CreateAssumption DEF NotCreating, Telling, Exits
<1>2. NotCreating.worked = 0 /\ NotCreating.exit = "none"
  BY DEF NotCreating
<1>3. ASSUME NEW c \in Telling, NEW code \in Exits
      PROVE  LET d == [c EXCEPT !.exit = code] IN
               d \in Telling /\ d.start = c.start /\ d.worked = c.worked /\ d.exit = code
  BY <1>3 DEF Telling
<1>4. ASSUME NEW c \in Telling, NEW start \in BOOLEAN
      PROVE  LET d == [c EXCEPT !.start = start] IN
               d \in Telling /\ d.worked = c.worked /\ d.exit = c.exit
  BY <1>4 DEF Telling
<1>5. ASSUME NEW start \in BOOLEAN
      PROVE  LET d == [NotCreating EXCEPT !.start = start] IN
               d \in Telling /\ d.worked = 0 /\ d.exit = "none"
  <2>. DEFINE n == NotCreating
  <2>1. n \in Telling /\ n.worked = 0 /\ n.exit = "none"
    BY <1>1, <1>2
  <2>. HIDE DEF n
  <2>2. LET d == [n EXCEPT !.start = start] IN
          d \in Telling /\ d.worked = 0 /\ d.exit = "none"
    BY <1>4, <2>1
  <2>. QED
    BY <2>2 DEF n
<1>6. \A c \in Telling, code \in Exits : LET d == [c EXCEPT !.exit = code] IN
        d \in Telling /\ d.start = c.start /\ d.worked = c.worked /\ d.exit = code
  BY <1>3
<1>. QED
  BY <1>1, <1>5, <1>6, Zenon

LEMMA CreateStarts == CreateInit => CreateInv
<1>1. ASSUME CreateInit
      PROVE  CreateInv
  <2>1. CreateTypeOK
    <3>1. creating \in [Creators -> Telling] /\ place \in [Creators -> Places]
      BY <1>1, PlacesKnown, Tellings DEF CreateInit
    <3>2. coding \in [status : RunStatuses, ambiguous : BOOLEAN]
      BY <1>1 DEF CreateInit, RunStatuses
    <3>. QED
      BY <1>1, <3>1, <3>2 DEF CreateInit, CreateTypeOK, Telling
  <2>2. OneMaker /\ Authored /\ Entitled
    BY <1>1, PlacesKnown, EntriesKnown
    DEF CreateInit, OneMaker, AtWork, Authored, Entitled, NotCreating
  <2>. QED
    BY <2>1, <2>2 DEF CreateInv
<1>. QED
  BY <1>1

(* A command that moves to another place. *)
LEMMA Placed ==
  ASSUME CreateTypeOK, NEW p \in Creators, NEW phase, NEW pos,
         At(phase, pos) \in Places, Place(p, phase, pos)
  PROVE  /\ place' \in [Creators -> Places] /\ place'[p] = At(phase, pos)
         /\ \A q \in Creators : q # p => place'[q] = place[q]
BY DEF CreateTypeOK, Place

LEMMA Exited ==
  ASSUME CreateTypeOK, NEW p \in Creators, NEW code \in Exits, Exit(p, code)
  PROVE  /\ place' \in [Creators -> Places] /\ place'[p].phase = "idle"
         /\ creating' \in [Creators -> Telling]
         /\ creating'[p].start = creating[p].start
         /\ creating'[p].worked = creating[p].worked /\ creating'[p].exit = code
         /\ \A q \in Creators : q # p => place'[q] = place[q] /\ creating'[q] = creating[q]
<1>1. Place(p, "idle", 0) /\ creating' = [creating EXCEPT ![p].exit = code]
  BY DEF Exit
<1>2. creating \in [Creators -> Telling]
  BY DEF CreateTypeOK, Telling
<1>. DEFINE told1 == [creating[p] EXCEPT !.exit = code]
<1>3. /\ told1 \in Telling /\ told1.start = creating[p].start
      /\ told1.worked = creating[p].worked /\ told1.exit = code
  BY <1>2, Tellings
<1>4. creating' = [creating EXCEPT ![p] = told1]
  BY <1>1
<1>. HIDE DEF told1
<1>5. /\ creating' \in [Creators -> Telling] /\ creating'[p] = told1
      /\ \A q \in Creators : q # p => creating'[q] = creating[q]
  BY <1>2, <1>3, <1>4
<1>6. /\ place' \in [Creators -> Places] /\ place'[p] = At("idle", 0)
      /\ \A q \in Creators : q # p => place'[q] = place[q]
  BY <1>1, Placed, PlacesKnown
<1>7. place'[p].phase = "idle"
  BY <1>6 DEF At
<1>. QED
  BY <1>3, <1>5, <1>6, <1>7

(* A command that makes and cleans nothing leaves the directory in order. *)
LEMMA Walks ==
  ASSUME CreateInv, NEW p \in Creators, UNCHANGED <<made, entry, told>>,
         coding' \in [status : RunStatuses, ambiguous : BOOLEAN],
         coding.status = "complete" => coding'.status = "complete",
         place' \in [Creators -> Places], creating' \in [Creators -> Telling],
         \A q \in Creators : q # p => place'[q] = place[q] /\ creating'[q] = creating[q],
         place'[p].phase \notin {"create", "clean"},
         place'[p].phase = "ignore" => p \in told,
         place'[p].phase = "step" => creating'[p].worked < MaxWorkers,
         place'[p].phase \in {"loop", "step", "exit"} \/ creating'[p].worked > 0 =>
           p \in told /\ entry["ignore"] = p,
         creating'[p].start /\ creating'[p].exit = "ok" =>
           p \in told /\ coding'.status = "complete",
         creates' \in Nat
  PROVE  CreateInv'
<1>0. CreateTypeOK /\ OneMaker /\ Authored /\ Entitled
  BY DEF CreateInv
<1>1. CreateTypeOK'
  BY <1>0 DEF CreateTypeOK, Telling
<1>2. \A q \in Creators : AtWork(q)' => q # p /\ AtWork(q) /\ place'[q] = place[q]
  BY DEF AtWork
<1>3. OneMaker'
  BY <1>0, <1>2 DEF OneMaker, AtWork
<1>4. Authored'
  BY <1>0 DEF Authored
<1>5. Entitled'
  BY <1>0 DEF Entitled
<1>. QED
  BY <1>1, <1>3, <1>4, <1>5 DEF CreateInv

LEMMA BeginsKeeps ==
  ASSUME CreateInv, NEW p \in Creators, BeginInitRun(p) \/ BeginStart(p)
  PROVE  CreateInv'
<1>0. CreateTypeOK
  BY DEF CreateInv
<1>1. PICK start \in BOOLEAN : Begins(p, start)
  BY DEF BeginInitRun, BeginStart
<1>. DEFINE anew == [NotCreating EXCEPT !.start = start]
<1>2. /\ Place(p, "validate", 0) /\ creating' = [creating EXCEPT ![p] = anew]
      /\ creates' = creates + 1 /\ UNCHANGED <<made, entry, coding, told>>
  BY <1>1 DEF Begins
<1>3. anew \in Telling /\ anew.worked = 0 /\ anew.exit = "none"
  BY Tellings
<1>. HIDE DEF anew
<1>4. /\ creating' \in [Creators -> Telling] /\ creating'[p] = anew
      /\ \A q \in Creators : q # p => creating'[q] = creating[q]
  BY <1>0, <1>2, <1>3 DEF CreateTypeOK, Telling
<1>5. /\ place' \in [Creators -> Places] /\ place'[p].phase = "validate"
      /\ \A q \in Creators : q # p => place'[q] = place[q]
  BY <1>0, <1>2, Placed, PlacesKnown
<1>. QED
  BY <1>0, <1>2, <1>3, <1>4, <1>5, Walks DEF CreateTypeOK

(* A command that ends without success. *)
LEMMA Fails ==
  ASSUME CreateInv, NEW p \in Creators, Exit(p, "refused") \/ Exit(p, "failed"),
         UNCHANGED <<made, entry, told, creates>>,
         coding' \in [status : RunStatuses, ambiguous : BOOLEAN],
         coding.status = "complete" => coding'.status = "complete"
  PROVE  CreateInv'
<1>0. CreateTypeOK /\ Entitled
  BY DEF CreateInv
<1>1. PICK code \in Exits : code # "ok" /\ Exit(p, code)
  BY DEF Exits
<1>2. /\ place' \in [Creators -> Places] /\ place'[p].phase = "idle"
      /\ creating' \in [Creators -> Telling]
      /\ creating'[p].start = creating[p].start
      /\ creating'[p].worked = creating[p].worked /\ creating'[p].exit = code
      /\ \A q \in Creators : q # p => place'[q] = place[q] /\ creating'[q] = creating[q]
  BY <1>0, <1>1, Exited
<1>3. creating'[p].worked > 0 => p \in told /\ entry["ignore"] = p
  BY <1>0, <1>2 DEF Entitled
<1>. QED
  BY <1>0, <1>1, <1>2, <1>3, Walks DEF CreateTypeOK

LEMMA ValidateKeeps ==
  ASSUME CreateInv, NEW p \in Creators, Validate(p)
  PROVE  CreateInv'
<1>0. CreateTypeOK /\ Entitled
  BY DEF CreateInv
<1>1. UNCHANGED <<made, entry, coding, told, creates>>
  BY DEF Validate
<1>2. CASE Exit(p, "refused")
  BY <1>0, <1>1, <1>2, Fails DEF CreateTypeOK
<1>3. CASE Place(p, "directory", 0) /\ UNCHANGED creating
  <2>1. /\ place' \in [Creators -> Places] /\ place'[p].phase = "directory"
        /\ \A q \in Creators : q # p => place'[q] = place[q]
    BY <1>0, <1>3, Placed, PlacesKnown
  <2>2. creating' = creating /\ creating \in [Creators -> Telling]
    BY <1>0, <1>3 DEF CreateTypeOK, Telling
  <2>3. /\ creating'[p].worked > 0 => p \in told /\ entry["ignore"] = p
        /\ creating'[p].start /\ creating'[p].exit = "ok" =>
             p \in told /\ coding'.status = "complete"
    BY <1>0, <1>1, <2>2 DEF Entitled
  <2>. QED
    BY <1>0, <1>1, <2>1, <2>2, <2>3, Walks DEF CreateTypeOK
<1>. QED
  BY <1>2, <1>3 DEF Validate

LEMMA MakeDirectoryKeeps ==
  ASSUME CreateInv, NEW p \in Creators, MakeDirectory(p)
  PROVE  CreateInv'
<1>0. CreateTypeOK /\ OneMaker /\ Authored /\ Entitled
  BY DEF CreateInv
<1>1. UNCHANGED <<entry, coding, told, creates>>
  BY DEF MakeDirectory
<1>2. CASE made
  BY <1>0, <1>1, <1>2, Fails DEF CreateTypeOK, MakeDirectory
<1>3. CASE ~made
  <2>1. made' = TRUE /\ Place(p, "create", 1) /\ UNCHANGED creating
    BY <1>3 DEF MakeDirectory
  <2>2. /\ place' \in [Creators -> Places]
        /\ place'[p].phase = "create" /\ place'[p].pos = 1
        /\ \A q \in Creators : q # p => place'[q] = place[q]
    BY <1>0, <2>1, Placed, PlacesKnown
  <2>3. told = {} /\ \A q \in Creators : ~AtWork(q)
    BY <1>0, <1>3 DEF Authored, OneMaker
  <2>4. \A q \in Creators : AtWork(q)' => q = p
    BY <2>2, <2>3 DEF AtWork
  <2>5. \A x \in Parts : entry[x] = NoCreator
    BY <1>0, <1>3, EntriesKnown DEF Authored
  <2>6. CreateTypeOK'
    BY <1>0, <1>1, <2>1, <2>2 DEF CreateTypeOK
  <2>7. OneMaker'
    BY <1>1, <2>1, <2>2, <2>3, <2>4, <2>5 DEF OneMaker, AtWork
  <2>8. Authored'
    BY <1>0, <1>1, <2>1, <2>3 DEF Authored
  <2>9. Entitled'
    BY <1>0, <1>1, <2>1, <2>2 DEF Entitled
  <2>. QED
    BY <2>6, <2>7, <2>8, <2>9 DEF CreateInv
<1>. QED
  BY <1>2, <1>3

LEMMA MakeEntryKeeps ==
  ASSUME CreateInv, NEW p \in Creators, MakeEntry(p)
  PROVE  CreateInv'
<1>0. CreateTypeOK /\ OneMaker /\ Authored /\ Entitled
  BY DEF CreateInv
<1>. DEFINE n == place[p].pos
            e == EntryOrder[place[p].pos]
<1>1. /\ place[p].phase = "create" /\ n \in 1 .. 8
      /\ made /\ told = {} /\ \A x \in Parts : entry[x] \in {p, NoCreator}
      /\ \A i \in 1 .. 8 : i < n => entry[EntryOrder[i]] = p
      /\ \A q \in Creators : q # p => ~AtWork(q)
  BY <1>0 DEF MakeEntry, OneMaker, AtWork
<1>2. /\ entry' = IF Has(e) THEN entry ELSE [entry EXCEPT ![e] = p]
      /\ coding' = IF e = "state" THEN [status |-> "running", ambiguous |-> FALSE] ELSE coding
      /\ UNCHANGED <<made, creates>>
      /\ n < 8 => Place(p, "create", n + 1) /\ UNCHANGED <<told, creating>>
      /\ n >= 8 => told' = told \cup {p} /\
           IF creating[p].start THEN Place(p, "ignore", 0) /\ UNCHANGED creating
                                ELSE Exit(p, "ok")
  BY <1>1, EntriesKnown DEF MakeEntry
<1>3. e \in Parts /\ e \in Entries
  BY <1>1, EntriesKnown
<1>. HIDE DEF e
<1>4. /\ entry' \in [Entries -> Creators \cup {NoCreator}]
      /\ entry'[e] = p
      /\ \A x \in Entries : x # e => entry'[x] = entry[x]
  BY <1>0, <1>1, <1>2, <1>3 DEF CreateTypeOK, Has
<1>5. \A x \in Parts : entry'[x] \in {p, NoCreator}
  BY <1>1, <1>4, EntriesKnown
<1>6. \A i \in 1 .. 8 : i < n + 1 => entry'[EntryOrder[i]] = p
  <2>1. ASSUME NEW i \in 1 .. 8, i < n + 1
        PROVE  entry'[EntryOrder[i]] = p
    <3>1. CASE i = n
      BY <1>4, <3>1 DEF e
    <3>2. CASE i < n
      <4>1. EntryOrder[i] \in Entries
        BY EntriesKnown
      <4>. QED
        BY <1>1, <1>4, <3>2, <4>1
    <3>. QED
      BY <1>1, <2>1, <3>1, <3>2
  <2>. QED
    BY <2>1
<1>7. coding' \in [status : RunStatuses, ambiguous : BOOLEAN]
  <2>1. [status |-> "running", ambiguous |-> FALSE] \in [status : RunStatuses, ambiguous : BOOLEAN]
    BY DEF RunStatuses
  <2>. QED
    BY <1>0, <1>2, <2>1 DEF CreateTypeOK
<1>8. \A q \in Creators : place[q].phase \notin {"ignore", "loop", "step", "exit"}
      /\ ~(creating[q].worked > 0) /\ ~(creating[q].start /\ creating[q].exit = "ok")
  BY <1>0, <1>1 DEF Entitled
<1>9. CASE n < 8
  <2>1. At("create", n + 1) \in Places
    BY <1>1, <1>9, PlacesKnown
  <2>2. /\ place' \in [Creators -> Places]
        /\ place'[p].phase = "create" /\ place'[p].pos = n + 1
        /\ \A q \in Creators : q # p => place'[q] = place[q]
    BY <1>0, <1>2, <1>9, <2>1, Placed DEF At
  <2>3. CreateTypeOK'
    BY <1>0, <1>2, <1>4, <1>7, <1>9, <2>2 DEF CreateTypeOK
  <2>4. \A q \in Creators : AtWork(q)' => q = p
    BY <1>1, <2>2 DEF AtWork
  <2>5. n + 1 \in 1 .. 8
    BY <1>1, <1>9
  <2>. HIDE DEF n
  <2>6. OneMaker'
    BY <1>1, <1>2, <1>5, <1>6, <1>9, <2>2, <2>4, <2>5 DEF OneMaker, AtWork
  <2>7. Authored'
    BY <1>1, <1>2, <1>5, <1>9 DEF Authored
  <2>8. Entitled'
    BY <1>2, <1>8, <1>9, <2>2 DEF Entitled
  <2>. QED
    BY <2>3, <2>6, <2>7, <2>8 DEF CreateInv
<1>10. CASE n >= 8
  <2>1. told' = {p} /\ n = 8
    BY <1>1, <1>2, <1>10
  <2>2. \A x \in Parts : entry'[x] = p
    BY <1>6, <2>1, EntriesKnown
  <2>. HIDE DEF n
  <2>3. /\ place' \in [Creators -> Places] /\ place'[p].phase \in {"ignore", "idle"}
        /\ creating' \in [Creators -> Telling]
        /\ creating'[p].worked = creating[p].worked
        /\ creating'[p].start => creating'[p].exit = creating[p].exit /\ creating[p].start
        /\ \A q \in Creators : q # p => place'[q] = place[q] /\ creating'[q] = creating[q]
    <3>1. CASE creating[p].start
      BY <1>0, <1>2, <1>10, <3>1, Placed, PlacesKnown DEF CreateTypeOK, Telling
    <3>2. CASE ~creating[p].start
      BY <1>0, <1>2, <1>10, <3>2, Exited DEF Exits
    <3>. QED
      BY <3>1, <3>2
  <2>4. CreateTypeOK'
    BY <1>0, <1>2, <1>4, <1>7, <2>1, <2>3 DEF CreateTypeOK, Telling
  <2>5. \A q \in Creators : ~AtWork(q)'
    BY <1>1, <2>3 DEF AtWork
  <2>6. OneMaker'
    BY <2>5 DEF OneMaker, AtWork
  <2>7. Authored'
    BY <1>1, <1>2, <2>1, <2>2 DEF Authored
  <2>8. Entitled'
    BY <1>8, <2>1, <2>3 DEF Entitled
  <2>. QED
    BY <2>4, <2>6, <2>7, <2>8 DEF CreateInv
<1>. QED
  BY <1>1, <1>9, <1>10

(* Nobody was told of a run that is being made or cleaned up. *)
LEMMA NobodyTold ==
  ASSUME CreateInv, NEW p \in Creators, AtWork(p)
  PROVE  /\ made /\ told = {} /\ \A x \in Parts : entry[x] \in {p, NoCreator}
         /\ \A q \in Creators : q # p => ~AtWork(q)
         /\ \A q \in Creators :
              /\ place[q].phase \notin {"ignore", "loop", "step", "exit"}
              /\ ~(creating[q].worked > 0) /\ ~(creating[q].start /\ creating[q].exit = "ok")
BY DEF CreateInv, OneMaker, Entitled

LEMMA EntryFailsKeeps ==
  ASSUME CreateInv, NEW p \in Creators, EntryFails(p)
  PROVE  CreateInv'
<1>0. CreateTypeOK /\ OneMaker /\ Authored /\ Entitled
  BY DEF CreateInv
<1>1. /\ AtWork(p) /\ Place(p, "clean", 1)
      /\ UNCHANGED <<made, entry, coding, creating, told, creates>>
  BY DEF EntryFails, AtWork
<1>2. /\ place' \in [Creators -> Places]
      /\ place'[p].phase = "clean" /\ place'[p].pos = 1
      /\ \A q \in Creators : q # p => place'[q] = place[q]
  BY <1>0, <1>1, Placed, PlacesKnown
<1>3. CreateTypeOK'
  BY <1>0, <1>1, <1>2 DEF CreateTypeOK
<1>4. OneMaker'
  BY <1>1, <1>2, NobodyTold DEF OneMaker, AtWork
<1>5. Authored'
  BY <1>0, <1>1 DEF Authored
<1>6. Entitled'
  BY <1>0, <1>1, <1>2 DEF Entitled
<1>. QED
  BY <1>3, <1>4, <1>5, <1>6 DEF CreateInv

LEMMA CleanUpKeeps ==
  ASSUME CreateInv, NEW p \in Creators, CleanUp(p)
  PROVE  CreateInv'
<1>0. CreateTypeOK /\ OneMaker /\ Authored /\ Entitled
  BY DEF CreateInv
<1>. DEFINE n == place[p].pos
            e == CleanOrder[place[p].pos]
<1>1. place[p].phase = "clean" /\ AtWork(p) /\ n \in 1 .. 9
  BY <1>0 DEF CleanUp, OneMaker, AtWork
<1>2. /\ told = {} /\ \A x \in Parts : entry[x] \in {p, NoCreator}
      /\ \A q \in Creators : q # p => ~AtWork(q)
      /\ \A q \in Creators :
           /\ place[q].phase \notin {"ignore", "loop", "step", "exit"}
           /\ ~(creating[q].worked > 0) /\ ~(creating[q].start /\ creating[q].exit = "ok")
      /\ made
  BY <1>1, NobodyTold
<1>3. UNCHANGED <<coding, told, creates>>
  BY DEF CleanUp
<1>4. CASE n = 9
  <2>1. /\ made' = \E x \in Entries : Has(x)
        /\ Exit(p, "failed") /\ entry' = entry
    BY <1>1, <1>4, CleanKnown DEF CleanUp
  <2>2. /\ place' \in [Creators -> Places] /\ place'[p].phase = "idle"
        /\ creating' \in [Creators -> Telling]
        /\ creating'[p].worked = creating[p].worked /\ creating'[p].exit = "failed"
        /\ \A q \in Creators : q # p => place'[q] = place[q] /\ creating'[q] = creating[q]
    BY <1>0, <2>1, Exited DEF Exits
  <2>3. made' \in BOOLEAN /\ (~made' => \A x \in Entries : entry[x] = NoCreator)
    BY <2>1 DEF Has
  <2>4. CreateTypeOK'
    BY <1>0, <1>3, <2>1, <2>2, <2>3 DEF CreateTypeOK, Telling
  <2>5. \A q \in Creators : ~AtWork(q)'
    BY <1>2, <2>2 DEF AtWork
  <2>6. OneMaker'
    BY <2>5 DEF OneMaker, AtWork
  <2>7. Authored'
    BY <1>0, <1>2, <1>3, <2>1, <2>3 DEF Authored
  <2>8. Entitled'
    BY <1>2, <1>3, <2>2 DEF Entitled
  <2>. QED
    BY <2>4, <2>6, <2>7, <2>8 DEF CreateInv
<1>5. CASE n # 9
  <2>1. e \in Parts /\ e # "run"
    BY <1>1, <1>5, CleanKnown, EntriesKnown
  <2>2. /\ entry' \in {[entry EXCEPT ![e] = NoCreator], entry}
        /\ Place(p, "clean", n + 1) /\ UNCHANGED <<made, creating>>
    BY <2>1 DEF CleanUp
  <2>. HIDE DEF e
  <2>3. /\ entry' \in [Entries -> Creators \cup {NoCreator}]
        /\ \A x \in Entries : entry'[x] \in {entry[x], NoCreator}
    BY <1>0, <2>1, <2>2, EntriesKnown DEF CreateTypeOK
  <2>4. \A x \in Parts : entry'[x] \in {p, NoCreator}
    BY <1>2, <2>3, EntriesKnown
  <2>5. n + 1 \in 1 .. 9 /\ At("clean", n + 1) \in Places
    BY <1>1, <1>5, PlacesKnown
  <2>6. /\ place' \in [Creators -> Places]
        /\ place'[p].phase = "clean" /\ place'[p].pos = n + 1
        /\ \A q \in Creators : q # p => place'[q] = place[q]
    BY <1>0, <2>2, <2>5, Placed DEF At
  <2>. HIDE DEF n
  <2>7. CreateTypeOK'
    BY <1>0, <1>3, <2>2, <2>3, <2>6 DEF CreateTypeOK
  <2>8. \A q \in Creators : AtWork(q)' => q = p
    BY <1>2, <2>6 DEF AtWork
  <2>9. OneMaker'
    BY <1>2, <1>3, <2>2, <2>4, <2>5, <2>6, <2>8 DEF OneMaker, AtWork
  <2>10. Authored'
    BY <1>2, <1>3, <2>2, <2>4 DEF Authored
  <2>11. Entitled'
    BY <1>2, <1>3, <2>2, <2>6 DEF Entitled
  <2>. QED
    BY <2>7, <2>9, <2>10, <2>11 DEF CreateInv
<1>. QED
  BY <1>4, <1>5

LEMMA DiscardKeeps ==
  ASSUME CreateInv, Discard
  PROVE  CreateInv'
<1>0. CreateTypeOK /\ OneMaker /\ Authored /\ Entitled
  BY DEF CreateInv
<1>1. /\ ~Whole /\ made' = FALSE /\ entry' = [e \in Entries |-> NoCreator]
      /\ \A p \in Creators : place[p].phase \in {"idle", "validate", "directory"}
      /\ UNCHANGED <<coding, place, creating, told, creates>>
  BY DEF Discard
<1>2. told = {}
  <2>1. ASSUME NEW p \in told
        PROVE  FALSE
    <3>1. p \in Creators
      BY <1>0, <2>1 DEF CreateTypeOK
    <3>2. \A i \in 1 .. 8 : entry[EntryOrder[i]] = p
      BY <1>0, <2>1, EntriesKnown DEF Authored
    <3>. QED
      BY <1>1, <3>1, <3>2, EntriesKnown, CreateAssumption DEF Whole, Has
  <2>. QED
    BY <2>1
<1>3. CreateTypeOK'
  BY <1>0, <1>1 DEF CreateTypeOK
<1>4. OneMaker'
  BY <1>1 DEF OneMaker, AtWork
<1>5. Authored'
  BY <1>1, <1>2, EntriesKnown DEF Authored
<1>6. Entitled'
  BY <1>0, <1>1, <1>2 DEF Entitled
<1>. QED
  BY <1>3, <1>4, <1>5, <1>6 DEF CreateInv

(* `run start` after its run is created. *)
LEMMA IgnoreRunKeeps ==
  ASSUME CreateInv, NEW p \in Creators, IgnoreRun(p)
  PROVE  CreateInv'
<1>0. CreateTypeOK /\ OneMaker /\ Authored /\ Entitled
  BY DEF CreateInv
<1>1. /\ place[p].phase = "ignore" /\ entry["ignore"] = NoCreator
      /\ entry' = [entry EXCEPT !["ignore"] = p] /\ Place(p, "loop", 0)
      /\ UNCHANGED <<made, coding, creating, told, creates>>
  BY DEF IgnoreRun, Has
<1>2. p \in told /\ made
  BY <1>0, <1>1 DEF Entitled, Authored
<1>3. \A q \in Creators : ~AtWork(q)
  BY <1>0, <1>2 DEF OneMaker
<1>4. /\ place' \in [Creators -> Places] /\ place'[p].phase = "loop"
      /\ \A q \in Creators : q # p => place'[q] = place[q]
  BY <1>0, <1>1, Placed, PlacesKnown
<1>5. /\ entry' \in [Entries -> Creators \cup {NoCreator}] /\ entry'["ignore"] = p
      /\ \A x \in Parts : entry'[x] = entry[x]
  BY <1>0, <1>1, EntriesKnown DEF CreateTypeOK
<1>6. CreateTypeOK'
  BY <1>0, <1>1, <1>4, <1>5 DEF CreateTypeOK
<1>7. \A q \in Creators : ~AtWork(q)'
  BY <1>3, <1>4 DEF AtWork
<1>8. OneMaker'
  BY <1>7 DEF OneMaker, AtWork
<1>9. Authored'
  BY <1>0, <1>1, <1>2, <1>5 DEF Authored
<1>10. \A q \in Creators : q # p =>
         ~(place[q].phase \in {"loop", "step", "exit"} \/ creating[q].worked > 0)
  BY <1>0, <1>1, CreateAssumption DEF Entitled
<1>11. Entitled'
  BY <1>0, <1>1, <1>2, <1>4, <1>5, <1>10 DEF Entitled
<1>. QED
  BY <1>6, <1>8, <1>9, <1>11 DEF CreateInv

LEMMA LoopTurnKeeps ==
  ASSUME CreateInv, NEW p \in Creators, LoopTurn(p)
  PROVE  CreateInv'
<1>0. CreateTypeOK /\ Entitled
  BY DEF CreateInv
<1>1. PICK phase \in {"step", "exit"} :
        Place(p, phase, 0) /\ (phase = "step" => creating[p].worked < MaxWorkers)
  BY DEF LoopTurn, GoesOn
<1>2. /\ place' \in [Creators -> Places] /\ place'[p].phase = phase
      /\ \A q \in Creators : q # p => place'[q] = place[q]
  BY <1>0, <1>1, Placed, PlacesKnown
<1>3. /\ place[p].phase = "loop"
      /\ UNCHANGED <<made, entry, coding, creating, told, creates>>
  BY DEF LoopTurn
<1>4. /\ p \in told /\ entry["ignore"] = p
      /\ creating[p].start /\ creating[p].exit = "ok" => coding.status = "complete"
  BY <1>0, <1>3 DEF Entitled
<1>. QED
  BY <1>0, <1>1, <1>2, <1>3, <1>4, Walks DEF CreateTypeOK, Telling

LEMMA WorkKeeps ==
  ASSUME CreateInv, NEW p \in Creators, Work(p)
  PROVE  CreateInv'
<1>0. CreateTypeOK /\ Entitled
  BY DEF CreateInv
<1>1. /\ place[p].phase = "step" /\ UNCHANGED <<made, entry, told, creates>>
      /\ p \in told /\ entry["ignore"] = p /\ creating[p].worked < MaxWorkers
  BY <1>0 DEF Work, Entitled
<1>2. CASE /\ coding' \in {coding, [coding EXCEPT !.ambiguous = coding.status = "running"]}
           /\ Exit(p, "failed")
  <2>1. /\ coding' \in [status : RunStatuses, ambiguous : BOOLEAN]
        /\ coding'.status = coding.status
    BY <1>0, <1>2 DEF CreateTypeOK
  <2>. QED
    BY <1>1, <1>2, <2>1, Fails
<1>3. CASE /\ coding.status = "running"
           /\ \E status \in RunStatuses, passed \in BOOLEAN :
                /\ coding' = [coding EXCEPT !.status = status]
                /\ creating' = [creating EXCEPT ![p].worked = @ + 1,
                                  ![p].stop = status # "running" \/ ~passed]
           /\ Place(p, "loop", 0)
  <2>1. PICK status \in RunStatuses, passed \in BOOLEAN :
          /\ coding' = [coding EXCEPT !.status = status]
          /\ creating' = [creating EXCEPT ![p].worked = @ + 1,
                            ![p].stop = status # "running" \/ ~passed]
    BY <1>3
  <2>2. coding' \in [status : RunStatuses, ambiguous : BOOLEAN]
    BY <1>0, <2>1 DEF CreateTypeOK
  <2>3. /\ place' \in [Creators -> Places] /\ place'[p].phase = "loop"
        /\ \A q \in Creators : q # p => place'[q] = place[q]
    BY <1>0, <1>3, Placed, PlacesKnown
  <2>4. /\ creating' \in [Creators -> Telling]
        /\ creating'[p].start = creating[p].start /\ creating'[p].exit = creating[p].exit
        /\ \A q \in Creators : q # p => creating'[q] = creating[q]
    <3>. DEFINE d == [creating[p] EXCEPT !.worked = @ + 1,
                                         !.stop = status # "running" \/ ~passed]
    <3>1. creating \in [Creators -> Telling]
      BY <1>0 DEF CreateTypeOK, Telling
    <3>2. creating[p].worked + 1 \in 0 .. MaxWorkers
      BY <1>1, <3>1, CreateAssumption DEF Telling
    <3>3. d \in Telling /\ d.start = creating[p].start /\ d.exit = creating[p].exit
      BY <3>1, <3>2 DEF Telling
    <3>4. creating' = [creating EXCEPT ![p] = d]
      BY <2>1, <3>1
    <3>. HIDE DEF d
    <3>. QED
      BY <3>1, <3>3, <3>4
  <2>. QED
    BY <1>0, <1>1, <1>3, <2>2, <2>3, <2>4, Walks DEF CreateTypeOK, Entitled
<1>. QED
  BY <1>2, <1>3, Zenon DEF Work

LEMMA ExitStartKeeps ==
  ASSUME CreateInv, NEW p \in Creators, ExitStart(p)
  PROVE  CreateInv'
<1>0. CreateTypeOK /\ Entitled
  BY DEF CreateInv
<1>1. /\ place[p].phase = "exit" /\ UNCHANGED <<made, entry, coding, told, creates>>
      /\ p \in told /\ entry["ignore"] = p
  BY <1>0 DEF ExitStart, Entitled
<1>2. PICK code \in Exits : Exit(p, code) /\ (code = "ok" => coding.status = "complete")
  BY DEF ExitStart, Exits
<1>3. /\ place' \in [Creators -> Places] /\ place'[p].phase = "idle"
      /\ creating' \in [Creators -> Telling] /\ creating'[p].exit = code
      /\ \A q \in Creators : q # p => place'[q] = place[q] /\ creating'[q] = creating[q]
  BY <1>0, <1>2, Exited
<1>. QED
  BY <1>0, <1>1, <1>2, <1>3, Walks DEF CreateTypeOK

LEMMA OthersWorkKeeps ==
  ASSUME CreateInv, OthersWork
  PROVE  CreateInv'
<1>0. CreateTypeOK /\ OneMaker /\ Authored /\ Entitled
  BY DEF CreateInv
<1>1. /\ coding.status = "running" /\ UNCHANGED <<made, entry, place, creating, told, creates>>
      /\ coding' \in [status : RunStatuses, ambiguous : BOOLEAN]
  BY DEF OthersWork
<1>2. CreateTypeOK' /\ Authored' /\ Entitled'
  BY <1>0, <1>1 DEF CreateTypeOK, Authored, Entitled
<1>3. OneMaker'
  BY <1>0, <1>1 DEF OneMaker, AtWork
<1>. QED
  BY <1>2, <1>3 DEF CreateInv

LEMMA CreateNextKeeps == CreateInv /\ [CreateNext]_creation => CreateInv'
<1>1. ASSUME CreateInv, NEW p \in Creators,
             \/ BeginInitRun(p) \/ BeginStart(p) \/ Validate(p)
             \/ MakeDirectory(p) \/ MakeEntry(p) \/ EntryFails(p)
             \/ CleanUp(p)
      PROVE  CreateInv'
  BY <1>1, BeginsKeeps, ValidateKeeps, MakeDirectoryKeeps, MakeEntryKeeps,
     EntryFailsKeeps, CleanUpKeeps
<1>2. ASSUME CreateInv, NEW p \in Creators,
             IgnoreRun(p) \/ LoopTurn(p) \/ Work(p) \/ ExitStart(p)
      PROVE  CreateInv'
  BY <1>2, IgnoreRunKeeps, LoopTurnKeeps, WorkKeeps, ExitStartKeeps
<1>3. ASSUME CreateInv, NEW p \in Creators, DieCreating(p)
      PROVE  CreateInv'
  BY <1>3, Fails DEF DieCreating, CreateInv, CreateTypeOK
<1>4. ASSUME CreateInv, UNCHANGED creation
      PROVE  CreateInv'
  BY <1>4 DEF creation, CreateInv, CreateTypeOK, OneMaker, AtWork, Authored, Entitled
<1>. QED
  BY <1>1, <1>2, <1>3, <1>4, DiscardKeeps, OthersWorkKeeps DEF CreateNext

(* However many processes create and start a run of one name, and whatever   *)
(* dies or fails, the run has one author, what was reported as created stays, *)
(* and nobody's workers run in somebody else's run.                         *)
THEOREM CreatedRunsAreWhole == CreateSpec => []RunsAreWhole
<1>1. CreateInv => RunsAreWhole
  <2>1. SUFFICES ASSUME CreateInv
                 PROVE  RunsAreWhole
    OBVIOUS
  <2>2. OneAuthor /\ CreatedStays
    BY <2>1, EntriesKnown DEF CreateInv, Authored, OneAuthor, CreatedStays, Has, Parts
  <2>3. WorksOnItsOwn /\ SuccessIsEarned
    BY <2>1 DEF CreateInv, Entitled, WorksOnItsOwn, SuccessIsEarned
  <2>. QED
    BY <2>2, <2>3 DEF RunsAreWhole
<1>. QED
  BY <1>1, CreateStarts, CreateNextKeeps, PTL DEF CreateSpec

-----------------------------------------------------------------------------
(* CycleCheck: the plan it is given can be worked off.                    *)

(* What is marked is a number of ids of the plan; whatever is marked had its *)
(* dependencies marked; a pass that marked nothing so far has passed only    *)
(* tasks that are marked or have to wait.                                    *)
MarkedInOrder ==
  /\ completed \subseteq PlanIds(plan)
  /\ \A i \in DOMAIN Tasks :
       Tasks[i].id \in completed => Tasks[i].deps \subseteq completed

PassedOver ==
  Cardinality(completed) = before =>
    \A i \in DOMAIN Tasks : i < next =>
      Tasks[i].id \in completed \/ ~(Tasks[i].deps \subseteq completed)

(* What is marked can be worked off. *)
WorkedOff ==
  \A S \in (SUBSET (DOMAIN Tasks)) \ {{}} :
    {Tasks[i].id : i \in S} \subseteq completed =>
      \E i \in S : \A j \in S : Tasks[j].id \notin Tasks[i].deps

(* A verdict was given at the end of a pass. *)
Judged ==
  /\ verdict = "accepted" => Cardinality(completed) = Len(Tasks)
  /\ verdict = "refused" =>
       /\ next > Len(Tasks)
       /\ Cardinality(completed) # Len(Tasks) /\ Cardinality(completed) = before

LoopInv ==
  /\ plan \in Plans /\ next \in Nat \ {0} /\ before \in Nat
  /\ before <= Cardinality(completed)
  /\ MarkedInOrder /\ PassedOver /\ WorkedOff /\ Judged

(* A plan has as many ids as tasks. *)
LEMMA IdsOfPlan ==
  ASSUME NEW p \in Plans
  PROVE  /\ p.tasks \in Seq(Task) /\ WellFormed(p) /\ Len(p.tasks) \in Nat
         /\ IsFiniteSet(PlanIds(p)) /\ Cardinality(PlanIds(p)) = Len(p.tasks)
<1>1. p.tasks \in Seq(Task) /\ WellFormed(p)
  BY LoopAssumption DEF Plan
<1>2. Len(p.tasks) \in Nat /\ DOMAIN p.tasks = 1..Len(p.tasks)
  BY <1>1
<1>. DEFINE n == Len(p.tasks)
            f == [i \in 1..n |-> p.tasks[i].id]
<1>3. PlanIds(p) = {p.tasks[i].id : i \in 1..n}
  BY <1>2 DEF PlanIds
<1>4. f \in [1..n -> PlanIds(p)] /\ \A t \in PlanIds(p) : \E i \in 1..n : f[i] = t
  BY <1>3
<1>5. \A i, j \in 1..n : f[i] = f[j] => i = j
  BY <1>1, <1>2 DEF WellFormed
<1>6. IsFiniteSet(1..n) /\ Cardinality(1..n) = n
  BY <1>2, FS_Interval
<1>. HIDE DEF f, n
<1>7. f \in Surjection(1..n, PlanIds(p)) /\ f \in Injection(1..n, PlanIds(p))
  BY <1>4, <1>5 DEF Surjection, Injection, IsInjective
<1>8. IsFiniteSet(PlanIds(p)) /\ Cardinality(PlanIds(p)) = Cardinality(1..n)
  BY <1>6, <1>7, FS_Surjection
<1>. QED
  BY <1>1, <1>2, <1>6, <1>8 DEF n

(* The marks can be counted. *)
LEMMA MarkedFinite ==
  ASSUME plan \in Plans, MarkedInOrder
  PROVE  IsFiniteSet(completed) /\ Cardinality(completed) \in Nat
BY IdsOfPlan, FS_Subset, FS_CardinalityType DEF MarkedInOrder

(* Marking a task whose dependencies are marked keeps what is marked workable. *)
LEMMA MarksWorkable ==
  ASSUME plan \in Plans, MarkedInOrder, WorkedOff, NEW k \in DOMAIN Tasks,
         Settles(Tasks[k]), Tasks[k].id \notin completed,
         NEW S \in (SUBSET (DOMAIN Tasks)) \ {{}},
         {Tasks[i].id : i \in S} \subseteq completed \cup {Tasks[k].id}
  PROVE  \E i \in S : \A j \in S : Tasks[j].id \notin Tasks[i].deps
<1>1. \A i \in DOMAIN Tasks : Tasks[i].id = Tasks[k].id => i = k
  BY IdsOfPlan DEF WellFormed, Tasks
<1>2. CASE k \notin S
  <2>1. {Tasks[i].id : i \in S} \subseteq completed
    BY <1>1, <1>2
  <2>. QED
    BY <2>1 DEF WorkedOff
<1>3. CASE S = {k}
  BY <1>3 DEF Settles
<1>4. CASE k \in S /\ S # {k}
  <2>. DEFINE R == S \ {k}
  <2>1. R \in (SUBSET (DOMAIN Tasks)) \ {{}}
    BY <1>4
  <2>2. {Tasks[i].id : i \in R} \subseteq completed
    BY <1>1
  <2>3. PICK i \in R : \A j \in R : Tasks[j].id \notin Tasks[i].deps
    BY <2>1, <2>2 DEF WorkedOff
  <2>4. Tasks[i].deps \subseteq completed
    BY <2>2, <2>3 DEF MarkedInOrder
  <2>. QED
    BY <2>3, <2>4
<1>. QED
  BY <1>2, <1>3, <1>4

(* The loop begins with nothing marked. *)
LEMMA LoopInvInit == LoopInit => LoopInv
<1>. SUFFICES ASSUME LoopInit PROVE LoopInv
  OBVIOUS
<1>1. Cardinality({}) = 0
  BY FS_EmptySet
<1>2. WorkedOff
  BY DEF LoopInit, WorkedOff
<1>3. PassedOver
  <2>1. \A i \in DOMAIN Tasks : ~(i < 1)
    BY IdsOfPlan DEF LoopInit, Tasks
  <2>. QED
    BY <2>1 DEF LoopInit, PassedOver
<1>. QED
  BY <1>1, <1>2, <1>3 DEF LoopInit, LoopInv, MarkedInOrder, Judged

(* Looking at a task keeps the invariant, whether it is marked or not. *)
LEMMA LoopInvLook == LoopInv /\ Look => LoopInv'
<1>. SUFFICES ASSUME LoopInv, Look PROVE LoopInv'
  OBVIOUS
<1>1. /\ plan \in Plans /\ plan' = plan /\ verdict = "none" /\ verdict' = "none"
      /\ before' = before /\ next' = next + 1 /\ Tasks' = Tasks
      /\ next \in Nat /\ before \in Nat
  BY DEF LoopInv, Look, Tasks
<1>2. Tasks \in Seq(Task) /\ DOMAIN Tasks = 1..Len(Tasks) /\ Len(Tasks) \in Nat
  BY <1>1, IdsOfPlan DEF Tasks
<1>3. IsFiniteSet(completed) /\ Cardinality(completed) \in Nat
  BY MarkedFinite DEF LoopInv
<1>4. CASE completed' = completed
  <2>1. PassedOver'
    <3>. SUFFICES ASSUME Cardinality(completed) = before, NEW i \in DOMAIN Tasks,
                         i < next + 1
                  PROVE  Tasks[i].id \in completed \/ ~(Tasks[i].deps \subseteq completed)
      BY <1>1, <1>4 DEF PassedOver
    <3>1. CASE i < next
      BY <3>1 DEF LoopInv, PassedOver
    <3>2. CASE i = next
      BY <1>4, <3>2 DEF Look, Settles
    <3>. QED
      BY <1>1, <1>2, <3>1, <3>2
  <2>. QED
    BY <1>1, <1>4, <2>1 DEF LoopInv, MarkedInOrder, WorkedOff, Judged
<1>5. CASE completed' # completed
  <2>1. /\ next \in DOMAIN Tasks /\ Settles(Tasks[next])
        /\ completed' = completed \cup {Tasks[next].id}
        /\ Tasks[next].id \notin completed
    <3>1. next \in 1..Len(Tasks)
      <4>1. next >= 1
        BY <1>2 DEF LoopInv
      <4>. QED
        BY <1>1, <1>2, <4>1 DEF Look
    <3>. QED
      BY <1>2, <1>5, <3>1 DEF Look
  <2>2. Cardinality(completed') = Cardinality(completed) + 1
    BY <1>3, <2>1, FS_AddElement
  <2>3. before' <= Cardinality(completed') /\ Cardinality(completed') # before'
    BY <1>1, <1>3, <2>2 DEF LoopInv
  <2>4. MarkedInOrder'
    <3>1. completed' \subseteq PlanIds(plan)
      BY <2>1 DEF LoopInv, MarkedInOrder, PlanIds, Tasks
    <3>2. \A i \in DOMAIN Tasks : Tasks[i].id = Tasks[next].id => i = next
      BY <1>1, <2>1, IdsOfPlan DEF WellFormed, Tasks
    <3>. QED
      BY <1>1, <2>1, <3>1, <3>2 DEF LoopInv, MarkedInOrder, Settles
  <2>5. WorkedOff'
    BY <1>1, <2>1, MarksWorkable DEF LoopInv, WorkedOff
  <2>. QED
    BY <1>1, <2>3, <2>4, <2>5 DEF LoopInv, PassedOver, Judged
<1>. QED
  BY <1>4, <1>5

(* So does the end of a pass, with a verdict or with a new pass. *)
LEMMA LoopInvEndPass == LoopInv /\ EndPass => LoopInv'
<1>. SUFFICES ASSUME LoopInv, EndPass PROVE LoopInv'
  OBVIOUS
<1>1. /\ plan' = plan /\ completed' = completed /\ Tasks' = Tasks
      /\ plan \in Plans /\ next \in Nat \ {0} /\ before \in Nat
  BY DEF LoopInv, EndPass, Tasks
<1>2. Cardinality(completed) \in Nat
  BY MarkedFinite DEF LoopInv
<1>3. MarkedInOrder' /\ WorkedOff'
  BY <1>1 DEF LoopInv, MarkedInOrder, WorkedOff
<1>4. CASE UNCHANGED <<before, next>>
  <2>1. PassedOver'
    BY <1>1, <1>4 DEF LoopInv, PassedOver
  <2>2. Judged'
    BY <1>1, <1>4 DEF EndPass, Judged
  <2>. QED
    BY <1>1, <1>3, <1>4, <2>1, <2>2 DEF LoopInv
<1>5. CASE before' = Cardinality(completed) /\ next' = 1 /\ verdict' = verdict
  <2>1. \A i \in DOMAIN Tasks : ~(i < 1)
    BY <1>1, IdsOfPlan DEF Tasks
  <2>2. PassedOver'
    BY <1>1, <1>5, <2>1 DEF PassedOver
  <2>3. Judged'
    BY <1>5 DEF EndPass, Judged
  <2>. QED
    BY <1>1, <1>2, <1>3, <1>5, <2>2, <2>3 DEF LoopInv
<1>. QED
  BY <1>4, <1>5 DEF EndPass

(* A plan of which everything is marked is acyclic; one of which a pass      *)
(* could mark nothing more is not.                                           *)
LEMMA VerdictRight == LoopInv => LoopFindsCycles
<1>. SUFFICES ASSUME LoopInv PROVE LoopFindsCycles
  OBVIOUS
<1>1. /\ plan \in Plans /\ Tasks \in Seq(Task) /\ Len(Tasks) \in Nat
      /\ DOMAIN Tasks = 1..Len(Tasks) /\ WellFormed(plan)
      /\ IsFiniteSet(PlanIds(plan)) /\ Cardinality(PlanIds(plan)) = Len(Tasks)
  BY IdsOfPlan DEF LoopInv, Tasks
<1>2. /\ completed \subseteq PlanIds(plan)
      /\ Cardinality(completed) <= Cardinality(PlanIds(plan))
      /\ Cardinality(completed) = Cardinality(PlanIds(plan)) =>
           completed = PlanIds(plan)
      /\ Cardinality(completed) \in Nat /\ Cardinality(PlanIds(plan)) \in Nat
  BY <1>1, FS_Subset, FS_CardinalityType, MarkedFinite DEF LoopInv, MarkedInOrder
<1>3. ASSUME verdict = "accepted" PROVE Acyclic(plan)
  <2>1. completed = PlanIds(plan)
    BY <1>1, <1>2, <1>3 DEF LoopInv, Judged
  <2>. SUFFICES ASSUME NEW S \in (SUBSET (DOMAIN Tasks)) \ {{}}
                PROVE  \E i \in S : \A j \in S : Tasks[j].id \notin Tasks[i].deps
    BY DEF Acyclic, Tasks
  <2>2. {Tasks[i].id : i \in S} \subseteq completed
    BY <2>1 DEF PlanIds, Tasks
  <2>. QED
    BY <2>2 DEF LoopInv, WorkedOff
<1>4. ASSUME verdict = "refused" PROVE ~Acyclic(plan)
  <2>. DEFINE S == {i \in DOMAIN Tasks : Tasks[i].id \notin completed}
  <2>1. \A i \in S : ~(Tasks[i].deps \subseteq completed)
    <3>1. Cardinality(completed) = before /\ next > Len(Tasks) /\ next \in Nat
      BY <1>4 DEF LoopInv, Judged
    <3>2. \A i \in DOMAIN Tasks : i < next
      BY <1>1, <3>1
    <3>3. \A i \in DOMAIN Tasks :
            Tasks[i].id \in completed \/ ~(Tasks[i].deps \subseteq completed)
      BY <3>1, <3>2 DEF LoopInv, PassedOver
    <3>. QED
      BY <3>3
  <2>2. S # {}
    <3>. SUFFICES ASSUME S = {} PROVE FALSE
      OBVIOUS
    <3>1. completed = PlanIds(plan)
      BY <1>2 DEF PlanIds, Tasks
    <3>. QED
      BY <1>1, <1>4, <3>1 DEF LoopInv, Judged
  <2>3. \A i \in S : \E j \in S : Tasks[j].id \in Tasks[i].deps
    BY <1>1, <2>1 DEF WellFormed, PlanIds, Tasks
  <2>4. S \in (SUBSET (DOMAIN plan.tasks)) \ {{}}
    BY <2>2 DEF Tasks
  <2>. HIDE DEF S
  <2>. QED
    BY <2>3, <2>4 DEF Acyclic, Tasks
<1>. QED
  BY <1>3, <1>4 DEF LoopFindsCycles

(* For every plan with unique ids and known dependencies, of any size and in *)
(* any order of declaration, a verdict of reject_cycles is right.            *)
THEOREM CycleCheckRight == LoopSpec => []LoopFindsCycles
<1>1. ASSUME LoopInv, [LoopNext]_loopVars PROVE LoopInv'
  <2>1. CASE UNCHANGED loopVars
    BY <1>1, <2>1 DEF loopVars, LoopInv, MarkedInOrder, PassedOver, WorkedOff, Judged, Tasks
  <2>. QED
    BY <1>1, <2>1, LoopInvLook, LoopInvEndPass DEF LoopNext
<1>. QED
  BY <1>1, LoopInvInit, VerdictRight, PTL DEF LoopSpec
=============================================================================
