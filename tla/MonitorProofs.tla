--------------------------- MODULE MonitorProofs ---------------------------
(***************************************************************************)
(* The monitor's commands keep each other's writes apart, a baseline stays, *)
(* a disabled monitor collects nothing, and nothing of ours ever exists     *)
(* without the manifest, for every set of processes, paths and baselines.   *)
(***************************************************************************)
EXTENDS MonitorRefinement, TLAPS

-----------------------------------------------------------------------------
(* The inductive invariant, in parts.                                      *)

(* A command in progress holds monitor.lock. *)
Mutex == \A p \in Procs : pc[p] # "idle" <=> lock = p

Enabling == {"install", "claim", "place", "hash", "turn_on"}
Writing == Enabling \cup {"baseline", "turn_off", "collect"}

(* Until its last write of state.json a command holds what is in it. *)
Current ==
  /\ ~Exists(mon) => mon = NoState
  /\ \A p \in Procs :
       /\ pc[p] \in Writing => local[p].seen = mon
       /\ pc[p] = "baseline" => ~Exists(mon)
       /\ pc[p] \in Enabling \cup {"turn_off"} => Exists(mon)
       /\ pc[p] = "collect" => mon.enabled

(* The manifest names the program of every file and job of ours. *)
Covered ==
  /\ \A r \in AllResources : file[r] \in Exes => r \in Ours /\ file[r] = manifest.exe
  /\ job = "ours" => manifest.exe \in Exes
  /\ platform = "linux" /\ job = "ours" => \A r \in Ours : file[r] # Nothing

(* What install and remove found when they looked is still so. *)
Held ==
  \A p \in Procs :
    /\ pc[p] = "claim" => manifest.exe \in {Nothing, local[p].exe}
    /\ pc[p] \in {"place", "hash", "unregister", "withdraw"} =>
         manifest.exe = local[p].exe
    /\ pc[p] \in {"claim", "place", "hash", "unregister", "withdraw"} =>
         local[p].exe \in Exes
    /\ pc[p] \in {"claim", "place"} /\ platform = "linux" => job # Foreign
    /\ pc[p] = "unregister" =>
         IF local[p].registered THEN job # Foreign /\ (platform # "linux" => job = "ours")
                                ELSE job # "ours"
    /\ pc[p] = "withdraw" => job # "ours"

MonInv == TypeOK /\ Mutex /\ Current /\ Covered /\ Held

-----------------------------------------------------------------------------
(* How the commands move.                                                  *)

LEMMA NoLocalType == NoState \in State /\ NoLocal \in Local
BY DEF NoState, State, NoLocal, Local

LEMMA Acquires ==
  ASSUME TypeOK, Mutex, NEW p \in Procs, NEW where \in Pcs \ {"idle"},
         NEW native \in BOOLEAN, Acquire(p, where, native)
  PROVE  /\ pc' \in [Procs -> Pcs] /\ local' \in [Procs -> Local]
         /\ lock = NoProc /\ lock' = p /\ Mutex'
         /\ pc'[p] = where /\ local'[p].seen = mon
         /\ \A q \in Procs : pc[q] = "idle"
         /\ \A q \in Procs : q # p => pc'[q] = "idle"
<1>. DEFINE locals == [NoLocal EXCEPT !.seen = mon, !.native = native]
<1>1. locals \in Local /\ locals.seen = mon
  BY NoLocalType DEF TypeOK, Local
<1>2. Goto(p, where, locals)
  BY DEF Acquire
<1>. HIDE DEF locals
<1>3. lock = NoProc /\ lock' = p /\ \A q \in Procs : pc[q] = "idle"
  BY ScheduleAssumption DEF Acquire, Mutex
<1>4. /\ pc' = [pc EXCEPT ![p] = where]
      /\ local' = [local EXCEPT ![p] = locals]
  BY <1>2 DEF Goto
<1>. QED
  BY <1>1, <1>3, <1>4, ScheduleAssumption DEF TypeOK, Mutex

LEMMA Moves ==
  ASSUME TypeOK, Mutex, NEW p \in Procs, pc[p] # "idle", lock' = lock,
         NEW where \in Pcs \ {"idle"}, NEW locals \in Local, Goto(p, where, locals)
  PROVE  /\ pc' \in [Procs -> Pcs] /\ local' \in [Procs -> Local]
         /\ lock = p /\ Mutex' /\ pc'[p] = where /\ local'[p] = locals
         /\ \A q \in Procs : q # p => pc[q] = "idle" /\ pc'[q] = "idle"
BY ScheduleAssumption DEF Goto, TypeOK, Mutex

LEMMA Ends ==
  ASSUME TypeOK, Mutex, NEW p \in Procs, pc[p] # "idle", Return(p)
  PROVE  /\ pc' \in [Procs -> Pcs] /\ local' \in [Procs -> Local]
         /\ lock = p /\ lock' = NoProc /\ Mutex'
         /\ \A q \in Procs : pc'[q] = "idle"
         /\ \A q \in Procs : q # p => pc[q] = "idle"
BY NoLocalType, ScheduleAssumption DEF Return, Goto, TypeOK, Mutex, Pcs

(* The resources of every platform. *)
LEMMA OurResources ==
  ASSUME TypeOK
  PROVE  /\ Ours \subseteq AllResources
         /\ \A i \in DOMAIN Resources : Resources[i] \in Ours
         /\ platform = "mac" => Ours = {"plist"}
<1>1. platform \in {"mac", "linux", "windows"}
  BY ScheduleAssumption DEF TypeOK
<1>2. CASE platform = "mac"
  <2>1. Resources = <<"plist">>
    BY <1>2 DEF Resources
  <2>. QED
    BY <2>1 DEF Ours, AllResources
<1>3. CASE platform = "linux"
  <2>1. Resources = <<"service", "timer">>
    BY <1>3 DEF Resources
  <2>. QED
    BY <1>3, <2>1 DEF Ours, AllResources
<1>4. CASE platform = "windows"
  <2>1. Resources = <<"task">>
    BY <1>4 DEF Resources
  <2>. QED
    BY <1>4, <2>1 DEF Ours, AllResources
<1>. QED
  BY <1>1, <1>2, <1>3, <1>4

LEMMA SameResources ==
  ASSUME platform' = platform
  PROVE  Ours' = Ours /\ Resources' = Resources
BY DEF Ours, Resources

LEMMA MonInvInit == Init => MonInv
<1>1. ASSUME Init
      PROVE  MonInv
  <2>1. manifest \in [exe : Exes \cup {Nothing, Foreign}, hashed : BOOLEAN]
    <3>1. NoManifest \in [exe : Exes \cup {Nothing, Foreign}, hashed : BOOLEAN]
      BY DEF NoManifest
    <3>2. [NoManifest EXCEPT !.exe = Foreign]
            \in [exe : Exes \cup {Nothing, Foreign}, hashed : BOOLEAN]
      BY <3>1
    <3>. QED
      BY <1>1, <3>1, <3>2 DEF Init
  <2>2. TypeOK
    BY <1>1, <2>1, NoLocalType DEF Init, TypeOK, Pcs, Wishes
  <2>3. Mutex /\ Current /\ Held
    BY <1>1, ScheduleAssumption DEF Init, Mutex, Current, Held, Enabling, Writing
  <2>4. Covered
    BY <1>1, ScheduleAssumption DEF Init, Covered
  <2>. QED
    BY <2>2, <2>3, <2>4 DEF MonInv
<1>. QED
  BY <1>1

-----------------------------------------------------------------------------
(* A command begins, ends, and what happens around the commands.           *)

LEMMA CommandBegins ==
  ASSUME MonInv, NEW p \in Procs, Begin(p)
  PROVE  MonInv' /\ UNCHANGED <<registered, mon>>
<1>0. TypeOK /\ Mutex /\ Current /\ Covered /\ Held
  BY DEF MonInv
<1>1. PICK where \in {"baseline", "install", "turn_on", "turn_off", "collect"},
          native \in BOOLEAN :
        /\ Acquire(p, where, native)
        /\ where = "baseline" => ~Exists(mon)
        /\ where \in Enabling \cup {"turn_off"} => Exists(mon)
        /\ where = "collect" => mon.enabled
  <2>1. CASE BeginEnable(p)
    BY <2>1 DEF BeginEnable, NeedsBaseline, AfterBaseline, Enabling
  <2>2. CASE BeginDisable(p)
    BY <2>2 DEF BeginDisable, Enabling
  <2>3. CASE BeginCheck(p)
    BY <2>3 DEF BeginCheck, Enabling
  <2>. QED
    BY <2>1, <2>2, <2>3 DEF Begin
<1>2. UNCHANGED <<registered, mon, env>>
  BY DEF Begin, BeginEnable, BeginDisable, BeginCheck
<1>3. /\ pc' \in [Procs -> Pcs] /\ local' \in [Procs -> Local]
      /\ lock' = p /\ Mutex'
      /\ pc'[p] = where /\ local'[p].seen = mon
      /\ \A q \in Procs : q # p => pc'[q] = "idle"
  BY <1>0, <1>1, Acquires DEF Pcs
<1>4. TypeOK'
  BY <1>0, <1>2, <1>3 DEF TypeOK, registered, env
<1>5. Current'
  BY <1>0, <1>1, <1>2, <1>3 DEF Current, Enabling, Writing, Exists
<1>6. Covered'
  BY <1>0, <1>2, SameResources DEF Covered, registered
<1>7. Held'
  BY <1>1, <1>3 DEF Held
<1>. QED
  BY <1>2, <1>3, <1>4, <1>5, <1>6, <1>7 DEF MonInv

(* A command that ends leaves an invariant that says nothing of commands. *)
LEMMA CommandEnds ==
  ASSUME MonInv, NEW p \in Procs, pc[p] # "idle", Return(p),
         UNCHANGED registered, exe' \in Exes,
         mon' \in State, ~Exists(mon') => mon' = NoState,
         want' \in Wishes, unread' \in BOOLEAN, wishes' \in Nat, faults' \in Nat
  PROVE  MonInv'
<1>0. TypeOK /\ Mutex /\ Current /\ Covered /\ Held
  BY DEF MonInv
<1>1. /\ pc' \in [Procs -> Pcs] /\ local' \in [Procs -> Local]
      /\ lock' = NoProc /\ Mutex'
      /\ \A q \in Procs : pc'[q] = "idle"
  BY <1>0, Ends
<1>2. TypeOK'
  BY <1>0, <1>1 DEF TypeOK, registered
<1>3. Current' /\ Held'
  BY <1>1 DEF Current, Held, Enabling, Writing, Exists
<1>4. Covered'
  BY <1>0, SameResources DEF Covered, registered
<1>. QED
  BY <1>1, <1>2, <1>3, <1>4 DEF MonInv

LEMMA OthersKeep ==
  ASSUME MonInv, Others
  PROVE  MonInv'
<1>0. TypeOK /\ Mutex /\ Current /\ Covered /\ Held
  BY DEF MonInv
<1>1. /\ UNCHANGED <<exe, lock, pc, local, mon, want, unread, wishes>>
      /\ UNCHANGED <<platform, manifest>> /\ faults' \in Nat
  BY <1>0 DEF Others, LoginLoads, ForeignJob, ForeignFile, TypeOK
<1>2. Mutex' /\ Current'
  BY <1>0, <1>1 DEF Mutex, Current, Exists, Enabling, Writing
<1>3. CASE LoginLoads
  <2>1. /\ platform = "mac" /\ lock = NoProc /\ job' = "ours"
        /\ file' = file /\ file["plist"] \in Exes
    BY <1>3 DEF LoginLoads
  <2>2. TypeOK'
    BY <1>0, <1>1, <2>1 DEF TypeOK
  <2>3. \A q \in Procs : pc[q] = "idle"
    BY <1>0, <2>1, ScheduleAssumption DEF Mutex
  <2>4. Held'
    BY <1>1, <2>3 DEF Held
  <2>5. Covered'
    BY <1>0, <1>1, <2>1, SameResources, ScheduleAssumption DEF Covered, AllResources
  <2>. QED
    BY <1>2, <2>2, <2>4, <2>5 DEF MonInv
<1>4. CASE ForeignJob
  <2>1. /\ platform = "linux" \/ job # Nothing => lock = NoProc
        /\ job # Foreign /\ job' = Foreign /\ file' = file
    BY <1>4 DEF ForeignJob
  <2>2. TypeOK'
    BY <1>0, <1>1, <2>1 DEF TypeOK
  <2>3. ASSUME NEW q \in Procs, pc[q] # "idle"
        PROVE  platform # "linux" /\ job = Nothing
    BY <1>0, <2>1, <2>3, ScheduleAssumption DEF Mutex
  <2>4. Held'
    BY <1>0, <1>1, <2>1, <2>3, ScheduleAssumption DEF Held
  <2>5. Covered'
    BY <1>0, <1>1, <2>1, SameResources, ScheduleAssumption DEF Covered
  <2>. QED
    BY <1>2, <2>2, <2>4, <2>5 DEF MonInv
<1>5. CASE \E r \in AllResources : ForeignFile(r)
  <2>1. PICK r \in AllResources :
          r \in Ours /\ file' = [file EXCEPT ![r] = Foreign] /\ job' = job
    BY <1>5 DEF ForeignFile
  <2>2. TypeOK'
    BY <1>0, <1>1, <2>1 DEF TypeOK
  <2>3. Held'
    BY <1>0, <1>1, <2>1 DEF Held
  <2>4. \A s \in AllResources : file'[s] = IF s = r THEN Foreign ELSE file[s]
    BY <1>0, <2>1 DEF TypeOK
  <2>5. Covered'
    BY <1>0, <1>1, <2>1, <2>4, SameResources, OurResources, ScheduleAssumption
    DEF Covered
  <2>. QED
    BY <1>2, <2>2, <2>3, <2>5 DEF MonInv
<1>. QED
  BY <1>3, <1>4, <1>5 DEF Others

LEMMA UserKeeps ==
  ASSUME MonInv, User
  PROVE  MonInv'
<1>0. TypeOK /\ Mutex /\ Current /\ Covered /\ Held
  BY DEF MonInv
<1>1. UNCHANGED <<registered, lock, pc, local, mon, faults>>
  BY DEF User
<1>2. TypeOK'
  <2>1. exe' \in Exes /\ want' \in Wishes /\ wishes' \in Nat
    BY <1>0 DEF User, TypeOK
  <2>2. unread' \in BOOLEAN
    BY <1>0 DEF User, TypeOK
  <2>. QED
    BY <1>0, <1>1, <2>1, <2>2 DEF TypeOK, registered
<1>3. Mutex' /\ Current' /\ Held'
  BY <1>0, <1>1 DEF Mutex, Current, Held, Exists, Enabling, Writing, registered
<1>4. Covered'
  BY <1>0, <1>1, SameResources DEF Covered, registered
<1>. QED
  BY <1>2, <1>3, <1>4 DEF MonInv

-----------------------------------------------------------------------------
(* The writes of state.json.                                               *)

LEMMA SaveBaselineKeeps ==
  ASSUME MonInv, NEW p \in Procs, SaveBaseline(p)
  PROVE  MonInv' /\ mon = NoState /\ mon'.enabled = FALSE /\ mon'.snapshots = {}
<1>0. TypeOK /\ Mutex /\ Current /\ Covered /\ Held
  BY DEF MonInv
<1>. DEFINE locals == [local[p] EXCEPT !.seen = mon']
            where == AfterBaseline(local[p].native)
<1>1. /\ pc[p] = "baseline" /\ Goto(p, where, locals)
      /\ UNCHANGED <<registered, lock, env>>
  BY DEF SaveBaseline
<1>2. mon = NoState
  BY <1>0, <1>1 DEF Current
<1>3. PICK b \in Baselines : mon' = [NoState EXCEPT !.baseline = b]
  BY DEF SaveBaseline
<1>4. /\ mon' \in State /\ mon'.baseline = b
      /\ mon'.enabled = FALSE /\ mon'.snapshots = {}
  BY <1>3, NoLocalType DEF NoState, State
<1>5. Exists(mon')
  BY <1>4, MonitorAssumption DEF Exists
<1>6. locals \in Local /\ locals.seen = mon'
  BY <1>0, <1>4 DEF TypeOK, Local
<1>7. where \in {"install", "turn_on"}
  BY DEF AfterBaseline
<1>. HIDE DEF locals, where
<1>8. /\ pc' \in [Procs -> Pcs] /\ local' \in [Procs -> Local] /\ Mutex'
      /\ pc'[p] = where /\ local'[p] = locals
      /\ \A q \in Procs : q # p => pc'[q] = "idle"
  BY <1>0, <1>1, <1>6, <1>7, Moves DEF Pcs
<1>9. TypeOK'
  BY <1>0, <1>1, <1>4, <1>8 DEF TypeOK, registered, env
<1>10. Current'
  <2>1. Exists(mon)'
    BY <1>5 DEF Exists
  <2>. QED
    BY <1>6, <1>7, <1>8, <2>1 DEF Current, Enabling, Writing
<1>11. Covered'
  BY <1>0, <1>1, SameResources DEF Covered, registered
<1>12. Held'
  BY <1>7, <1>8 DEF Held
<1>. QED
  BY <1>2, <1>4, <1>8, <1>9, <1>10, <1>11, <1>12 DEF MonInv

(* What a command writes over the state it read. *)
LEMMA Rewritten ==
  ASSUME NEW s \in State
  PROVE  /\ \A v \in BOOLEAN :
              LET t == [s EXCEPT !.enabled = v]
              IN  /\ t \in State /\ t.baseline = s.baseline /\ t.enabled = v
                  /\ t.snapshots = s.snapshots
         /\ \A v \in SUBSET Days :
              LET t == [s EXCEPT !.snapshots = v]
              IN  t \in State /\ t.baseline = s.baseline /\ t.enabled = s.enabled
BY DEF State

(* The state the three other writes leave is a state of the same baseline. *)
LEMMA TurnOnKeeps ==
  ASSUME MonInv, NEW p \in Procs, TurnOn(p)
  PROVE  /\ MonInv' /\ pc[p] = "turn_on"
         /\ mon'.baseline = mon.baseline /\ mon'.snapshots = mon.snapshots
<1>0. TypeOK /\ Mutex /\ Current /\ Covered /\ Held
  BY DEF MonInv
<1>1. /\ pc[p] = "turn_on" /\ mon' = [local[p].seen EXCEPT !.enabled = TRUE]
      /\ Return(p) /\ UNCHANGED <<registered, env>>
  BY DEF TurnOn
<1>2. local[p].seen = mon /\ Exists(mon)
  BY <1>0, <1>1 DEF Current, Enabling, Writing
<1>3. mon' \in State /\ mon'.baseline = mon.baseline /\ mon'.snapshots = mon.snapshots
  BY <1>0, <1>1, <1>2, Rewritten DEF TypeOK
<1>4. MonInv'
  BY <1>0, <1>1, <1>2, <1>3, CommandEnds DEF TypeOK, env, Exists
<1>. QED
  BY <1>1, <1>3, <1>4

LEMMA CollectKeeps ==
  ASSUME MonInv, NEW p \in Procs, Collect(p)
  PROVE  /\ MonInv' /\ mon.enabled
         /\ mon'.baseline = mon.baseline /\ mon'.enabled = mon.enabled
<1>0. TypeOK /\ Mutex /\ Current /\ Covered /\ Held
  BY DEF MonInv
<1>1. /\ pc[p] = "collect" /\ Goto(p, "idle", NoLocal)
      /\ UNCHANGED <<registered, env>>
  BY DEF Collect
<1>2. local[p].seen = mon /\ mon.enabled
  BY <1>0, <1>1 DEF Current, Writing
<1>3. PICK day \in Days : mon' = [local[p].seen EXCEPT !.snapshots = Retained(@ \cup {day})]
  BY DEF Collect
<1>4. mon.snapshots \in SUBSET Days
  BY <1>0 DEF TypeOK, State
<1>5. Retained(mon.snapshots \cup {day}) \in SUBSET Days
  BY <1>4 DEF Retained
<1>6. mon' = [mon EXCEPT !.snapshots = Retained(mon.snapshots \cup {day})]
  BY <1>2, <1>3
<1>7. mon' \in State /\ mon'.baseline = mon.baseline /\ mon'.enabled = mon.enabled
  BY <1>0, <1>5, <1>6, Rewritten DEF TypeOK
<1>8. Exists(mon)
  BY <1>0, <1>2 DEF Current, NoState
<1>9. Return(p)
  BY <1>0, <1>1 DEF Return, Collect, Mutex
<1>10. MonInv'
  BY <1>0, <1>1, <1>7, <1>8, <1>9, CommandEnds DEF TypeOK, env, Exists
<1>. QED
  BY <1>2, <1>7, <1>10

LEMMA TurnOffKeeps ==
  ASSUME MonInv, NEW p \in Procs, TurnOff(p)
  PROVE  /\ MonInv' /\ mon'.enabled = FALSE
         /\ mon'.baseline = mon.baseline /\ mon'.snapshots = mon.snapshots
<1>0. TypeOK /\ Mutex /\ Current /\ Covered /\ Held
  BY DEF MonInv
<1>1. /\ pc[p] = "turn_off" /\ mon' = [local[p].seen EXCEPT !.enabled = FALSE]
      /\ Goto(p, "remove", local[p]) /\ UNCHANGED <<registered, lock, env>>
  BY DEF TurnOff
<1>2. local[p].seen = mon /\ Exists(mon)
  BY <1>0, <1>1 DEF Current, Writing
<1>3. /\ mon' \in State /\ mon'.baseline = mon.baseline
      /\ mon'.enabled = FALSE /\ mon'.snapshots = mon.snapshots
  BY <1>0, <1>1, <1>2, Rewritten DEF TypeOK
<1>4. /\ pc' \in [Procs -> Pcs] /\ local' \in [Procs -> Local] /\ Mutex'
      /\ pc'[p] = "remove"
      /\ \A q \in Procs : q # p => pc'[q] = "idle"
  BY <1>0, <1>1, Moves DEF Pcs, TypeOK
<1>5. TypeOK'
  BY <1>0, <1>1, <1>3, <1>4 DEF TypeOK, registered, env
<1>6. Exists(mon)'
  BY <1>2, <1>3 DEF Exists
<1>7. Current'
  BY <1>4, <1>6 DEF Current, Enabling, Writing
<1>8. Covered'
  BY <1>0, <1>1, SameResources DEF Covered, registered
<1>9. Held'
  BY <1>4 DEF Held
<1>. QED
  BY <1>3, <1>4, <1>5, <1>7, <1>8, <1>9 DEF MonInv

-----------------------------------------------------------------------------
(* The steps of install and remove.                                        *)

(* A step that leaves state.json as it is. *)
LEMMA ScheduleMoves ==
  ASSUME MonInv, NEW p \in Procs,
         pc[p] \in {"install", "claim", "place", "hash", "remove", "unregister"},
         UNCHANGED <<platform, lock, mon, env>>,
         NEW where \in {"claim", "place", "hash", "turn_on", "unregister", "withdraw"},
         where \in Enabling => pc[p] \in Enabling,
         NEW locals \in Local, locals.seen = local[p].seen, Goto(p, where, locals),
         manifest' \in [exe : Exes \cup {Nothing, Foreign}, hashed : BOOLEAN],
         file' \in [AllResources -> Exes \cup {Nothing, Foreign}],
         job' \in {Nothing, Foreign, "ours"}
  PROVE  /\ TypeOK' /\ Mutex' /\ Current'
         /\ pc'[p] = where /\ local'[p] = locals
         /\ \A q \in Procs : q # p => pc'[q] = "idle"
<1>0. TypeOK /\ Mutex /\ Current
  BY DEF MonInv
<1>1. /\ pc' \in [Procs -> Pcs] /\ local' \in [Procs -> Local] /\ Mutex'
      /\ pc'[p] = where /\ local'[p] = locals
      /\ \A q \in Procs : q # p => pc'[q] = "idle"
  BY <1>0, Moves DEF Pcs
<1>2. TypeOK'
  BY <1>0, <1>1 DEF TypeOK, env
<1>3. mon' = mon
  OBVIOUS
<1>4. where \in Writing => where \in Enabling
  BY DEF Writing, Enabling
<1>5. where \in Enabling => locals.seen = mon /\ Exists(mon)
  BY <1>0 DEF Current, Writing
<1>6. where \notin {"baseline", "collect"}
  OBVIOUS
<1>7. \A q \in Procs : q # p => pc'[q] \notin Writing
  BY <1>1 DEF Writing, Enabling
<1>8. Current'
  BY <1>0, <1>1, <1>3, <1>4, <1>5, <1>6, <1>7 DEF Current, Writing, Exists
<1>. QED
  BY <1>1, <1>2, <1>8

-----------------------------------------------------------------------------
(* The job and its files as the promise sees them.                         *)

AllParts == AllResources \cup {"job"}
PartsNow == [r \in AllParts |-> Part(r)]

(* A step of the promise, or one it does not see. *)
Promised ==
  \/ Owner!Claim \/ Owner!Put \/ Owner!TakeBack \/ Owner!Release \/ Owner!Others
  \/ UNCHANGED <<OurManifest, PartsNow>>

LEMMA JobChanges ==
  ASSUME file' = file
  PROVE  PartsNow' = [PartsNow EXCEPT !["job"] = job']
BY DEF PartsNow, Part, AllParts, AllResources

LEMMA FileChanges ==
  ASSUME TypeOK, NEW s \in AllResources, NEW x, file' = [file EXCEPT ![s] = x], job' = job
  PROVE  PartsNow' = [PartsNow EXCEPT ![s] = IF x \in Exes THEN "ours" ELSE x]
<1>1. s # "job"
  BY DEF AllResources
<1>2. file'[s] = x /\ \A r \in AllResources : r # s => file'[r] = file[r]
  BY DEF TypeOK
<1>3. Part(s)' = IF x \in Exes THEN "ours" ELSE x
  BY <1>1, <1>2 DEF Part
<1>4. ASSUME NEW r \in AllParts, r # s
      PROVE  Part(r)' = Part(r)
  BY <1>2, <1>4 DEF Part, AllParts
<1>. QED
  BY <1>3, <1>4 DEF PartsNow, AllParts

LEMMA PartsUnmoved ==
  ASSUME file' = file, job' = job
  PROVE  PartsNow' = PartsNow
BY DEF PartsNow, Part

LEMMA ManifestUnmoved ==
  ASSUME manifest'.exe = manifest.exe
  PROVE  OurManifest' <=> OurManifest
BY DEF OurManifest

LEMMA Puts ==
  ASSUME NEW s \in AllParts, NEW what \in {"ours", Foreign},
         OurManifest, OurManifest', Part(s) = Nothing,
         PartsNow' = [PartsNow EXCEPT ![s] = what]
  PROVE  Promised
<1>1. PartsNow[s] = Nothing
  BY DEF PartsNow
<1>2. OurManifest' = OurManifest
  BY DEF OurManifest
<1>3. Owner!Put
  BY <1>1, <1>2 DEF Owner!Put, PartsNow, AllParts
<1>. QED
  BY <1>3 DEF Promised

LEMMA TakesBack ==
  ASSUME NEW s \in AllParts,
         OurManifest, OurManifest', Part(s) = "ours",
         PartsNow' = [PartsNow EXCEPT ![s] = Nothing]
  PROVE  Promised
<1>1. PartsNow[s] = "ours"
  BY DEF PartsNow
<1>2. OurManifest' = OurManifest
  BY DEF OurManifest
<1>3. Owner!TakeBack
  BY <1>1, <1>2 DEF Owner!TakeBack, PartsNow, AllParts
<1>. QED
  BY <1>3 DEF Promised

LEMMA Disturbs ==
  ASSUME NEW s \in AllParts, manifest' = manifest, Part(s) # Foreign,
         PartsNow' = [PartsNow EXCEPT ![s] = Foreign]
  PROVE  Promised
<1>1. PartsNow[s] # Foreign
  BY DEF PartsNow
<1>2. OurManifest' = OurManifest
  BY DEF OurManifest
<1>3. Owner!Others
  BY <1>1, <1>2 DEF Owner!Others, PartsNow, AllParts
<1>. QED
  BY <1>3 DEF Promised

LEMMA Unseen ==
  ASSUME manifest'.exe = manifest.exe, file' = file, job' = job
  PROVE  Promised
<1>1. OurManifest' = OurManifest
  BY DEF OurManifest
<1>. QED
  BY <1>1, PartsUnmoved DEF Promised

-----------------------------------------------------------------------------
(* install_with, step by step.                                             *)

LEMMA InstallCheckKeeps ==
  ASSUME MonInv, NEW p \in Procs, InstallCheck(p), UNCHANGED <<mon, env>>
  PROVE  MonInv' /\ Promised
<1>0. TypeOK /\ Mutex /\ Current /\ Covered /\ Held
  BY DEF MonInv
<1>. DEFINE locals == [local[p] EXCEPT !.exe = exe, !.registered = Registered]
<1>1. /\ pc[p] = "install" /\ InstallAccepted /\ Goto(p, "claim", locals)
      /\ UNCHANGED <<registered, lock>>
  BY DEF InstallCheck
<1>2. locals \in Local /\ locals.seen = local[p].seen /\ locals.exe = exe
  BY <1>0 DEF TypeOK, Local, Registered
<1>. HIDE DEF locals
<1>3. UNCHANGED <<platform, manifest, file, job>>
  BY <1>1 DEF registered
<1>4. /\ TypeOK' /\ Mutex' /\ Current'
      /\ pc'[p] = "claim" /\ local'[p] = locals
      /\ \A q \in Procs : q # p => pc'[q] = "idle"
  BY <1>0, <1>1, <1>2, <1>3, ScheduleMoves DEF TypeOK, Enabling
<1>5. manifest.exe \in {Nothing, exe} /\ (platform = "linux" => job # Foreign)
  BY <1>1 DEF InstallAccepted, ProbeAccepts, Owned
<1>6. Held'
  BY <1>0, <1>2, <1>3, <1>4, <1>5 DEF Held, TypeOK
<1>7. Covered'
  BY <1>0, <1>3, SameResources DEF Covered
<1>. QED
  BY <1>3, <1>4, <1>6, <1>7, Unseen DEF MonInv

LEMMA ClaimKeeps ==
  ASSUME MonInv, NEW p \in Procs, Claim(p), UNCHANGED <<mon, env>>
  PROVE  MonInv' /\ Promised
<1>0. TypeOK /\ Mutex /\ Current /\ Covered /\ Held
  BY DEF MonInv
<1>1. /\ pc[p] = "claim" /\ Goto(p, "place", local[p])
      /\ UNCHANGED <<platform, file, job, lock>>
      /\ manifest' = IF Owned THEN manifest ELSE [exe |-> local[p].exe, hashed |-> FALSE]
  BY DEF Claim
<1>2. /\ manifest.exe \in {Nothing, local[p].exe} /\ local[p].exe \in Exes
      /\ platform = "linux" => job # Foreign
  BY <1>0, <1>1 DEF Held
<1>3. manifest'.exe = local[p].exe
  BY <1>1, <1>2 DEF Owned
<1>4. manifest' \in [exe : Exes \cup {Nothing, Foreign}, hashed : BOOLEAN]
  BY <1>0, <1>1, <1>2 DEF TypeOK
<1>5. local[p] \in Local
  BY <1>0 DEF TypeOK
<1>6. /\ TypeOK' /\ Mutex' /\ Current'
      /\ pc'[p] = "place" /\ local'[p] = local[p]
      /\ \A q \in Procs : q # p => pc'[q] = "idle"
  BY <1>0, <1>1, <1>4, <1>5, ScheduleMoves DEF TypeOK, Enabling
<1>7. Held'
  BY <1>1, <1>2, <1>3, <1>6 DEF Held
<1>8. Covered'
  <2>1. \A r \in AllResources : file[r] \in Exes => r \in Ours /\ file[r] = local[p].exe
    BY <1>0, <1>2, ScheduleAssumption DEF Covered
  <2>. QED
    BY <1>0, <1>1, <1>2, <1>3, <2>1, SameResources DEF Covered
<1>9. PartsNow' = PartsNow
  BY <1>1, PartsUnmoved
<1>10. Promised
  <2>1. OurManifest'
    BY <1>2, <1>3 DEF OurManifest
  <2>2. OurManifest => OurManifest' = OurManifest
    BY <2>1 DEF OurManifest
  <2>3. ~OurManifest => Owner!Claim
    BY <1>9, <2>1 DEF Owner!Claim, PartsNow, AllParts, OurManifest
  <2>. QED
    BY <1>9, <2>2, <2>3 DEF Promised
<1>. QED
  BY <1>6, <1>7, <1>8, <1>10 DEF MonInv

LEMMA PlaceKeeps ==
  ASSUME MonInv, NEW p \in Procs, Place(p), UNCHANGED <<mon, env>>
  PROVE  MonInv' /\ Promised
<1>0. TypeOK /\ Mutex /\ Current /\ Covered /\ Held
  BY DEF MonInv
<1>1. pc[p] = "place" /\ UNCHANGED <<platform, manifest, job, lock, pc, local>>
  BY DEF Place
<1>2. PICK i \in DOMAIN Resources :
        Missing(i) /\ file' = [file EXCEPT ![Resources[i]] = local[p].exe]
  BY DEF Place
<1>. DEFINE s == Resources[i]
<1>3. s \in Ours /\ s \in AllResources /\ file[s] = Nothing
  BY <1>0, <1>2, OurResources DEF Missing
<1>4. file' = [file EXCEPT ![s] = local[p].exe]
  BY <1>2
<1>. HIDE DEF s
<1>5. manifest.exe = local[p].exe /\ local[p].exe \in Exes
  BY <1>0, <1>1 DEF Held
<1>6. TypeOK'
  BY <1>0, <1>1, <1>4, <1>5 DEF TypeOK, env
<1>7. \A r \in AllResources : file'[r] = IF r = s THEN local[p].exe ELSE file[r]
  BY <1>0, <1>4 DEF TypeOK
<1>8. Covered'
  BY <1>0, <1>1, <1>3, <1>5, <1>7, OurResources, SameResources, ScheduleAssumption
  DEF Covered
<1>9. Mutex' /\ Held'
  BY <1>0, <1>1 DEF Mutex, Held
<1>10. Current'
  BY <1>0, <1>1 DEF Current, Exists
<1>11. Promised
  <2>1. PartsNow' = [PartsNow EXCEPT ![s] = "ours"]
    BY <1>0, <1>1, <1>3, <1>4, <1>5, FileChanges
  <2>2. Part(s) = Nothing
    BY <1>3, ScheduleAssumption DEF Part, AllResources
  <2>. QED
    BY <1>1, <1>3, <1>5, <2>1, <2>2, Puts DEF AllParts, OurManifest
<1>. QED
  BY <1>6, <1>8, <1>9, <1>10, <1>11 DEF MonInv

LEMMA RegisterKeeps ==
  ASSUME MonInv, NEW p \in Procs, Register(p), UNCHANGED <<mon, env>>
  PROVE  MonInv' /\ Promised
<1>0. TypeOK /\ Mutex /\ Current /\ Covered /\ Held
  BY DEF MonInv
<1>1. /\ pc[p] = "place" /\ \A i \in DOMAIN Resources : ~Missing(i)
      /\ ~NameTaken(p)
      /\ job' = IF platform # "linux" /\ local[p].registered THEN job ELSE Loaded
      /\ UNCHANGED <<platform, manifest, file, lock>>
  BY DEF Register
<1>2. PICK where \in {"hash", "turn_on"} : Goto(p, where, local[p])
  BY DEF Register
<1>3. /\ manifest.exe = local[p].exe /\ local[p].exe \in Exes
      /\ platform = "linux" => job # Foreign
  BY <1>0, <1>1 DEF Held
<1>4. Loaded \in {"ours", Foreign} /\ (platform = "linux" => Loaded = "ours")
  BY DEF Loaded
<1>5. job' \in {Nothing, Foreign, "ours"}
  BY <1>0, <1>1, <1>4 DEF TypeOK
<1>6. local[p] \in Local
  BY <1>0 DEF TypeOK
<1>7. /\ TypeOK' /\ Mutex' /\ Current'
      /\ pc'[p] = where /\ local'[p] = local[p]
      /\ \A q \in Procs : q # p => pc'[q] = "idle"
  BY <1>0, <1>1, <1>2, <1>5, <1>6, ScheduleMoves DEF TypeOK, Enabling
<1>8. Held'
  BY <1>1, <1>2, <1>3, <1>7 DEF Held
<1>9. \A r \in Ours : file[r] # Nothing
  BY <1>1 DEF Ours, Missing
<1>10. Covered'
  BY <1>0, <1>1, <1>3, <1>9, SameResources DEF Covered
<1>11. PartsNow' = [PartsNow EXCEPT !["job"] = job']
  BY <1>1, JobChanges
<1>12. OurManifest /\ OurManifest'
  BY <1>1, <1>3 DEF OurManifest
<1>13. Part("job") = job /\ "job" \in AllParts
  BY DEF Part, AllParts
<1>14. CASE job' = job
  BY <1>1, <1>14, Unseen, <1>7, <1>8, <1>10 DEF MonInv
<1>15. CASE job' # job
  <2>1. job = Nothing /\ job' \in {"ours", Foreign}
    BY <1>0, <1>1, <1>3, <1>4, <1>15 DEF NameTaken, TypeOK
  <2>2. Promised
    BY <1>11, <1>12, <1>13, <2>1, Puts
  <2>. QED
    BY <1>7, <1>8, <1>10, <2>2 DEF MonInv
<1>. QED
  BY <1>14, <1>15

LEMMA RecordHashKeeps ==
  ASSUME MonInv, NEW p \in Procs, RecordHash(p), UNCHANGED <<mon, env>>
  PROVE  MonInv' /\ Promised
<1>0. TypeOK /\ Mutex /\ Current /\ Covered /\ Held
  BY DEF MonInv
<1>1. /\ pc[p] = "hash" /\ manifest' = [manifest EXCEPT !.hashed = TRUE]
      /\ Goto(p, "turn_on", local[p]) /\ UNCHANGED <<platform, file, job, lock>>
  BY DEF RecordHash
<1>2. /\ manifest' \in [exe : Exes \cup {Nothing, Foreign}, hashed : BOOLEAN]
      /\ manifest'.exe = manifest.exe
  BY <1>0, <1>1 DEF TypeOK
<1>3. local[p] \in Local
  BY <1>0 DEF TypeOK
<1>4. /\ TypeOK' /\ Mutex' /\ Current'
      /\ pc'[p] = "turn_on" /\ local'[p] = local[p]
      /\ \A q \in Procs : q # p => pc'[q] = "idle"
  BY <1>0, <1>1, <1>2, <1>3, ScheduleMoves DEF TypeOK, Enabling
<1>5. Held'
  BY <1>4 DEF Held
<1>6. Covered'
  BY <1>0, <1>1, <1>2, SameResources DEF Covered
<1>. QED
  BY <1>1, <1>2, <1>4, <1>5, <1>6, Unseen DEF MonInv

-----------------------------------------------------------------------------
(* remove_with, step by step.                                              *)

LEMMA RemoveCheckKeeps ==
  ASSUME MonInv, NEW p \in Procs, RemoveCheck(p), UNCHANGED <<mon, env>>
  PROVE  MonInv' /\ Promised
<1>0. TypeOK /\ Mutex /\ Current /\ Covered /\ Held
  BY DEF MonInv
<1>. DEFINE locals == [local[p] EXCEPT !.exe = manifest.exe, !.registered = Registered]
<1>1. /\ pc[p] = "remove" /\ Owned /\ RemoveAccepted
      /\ Goto(p, "unregister", locals) /\ UNCHANGED <<registered, lock>>
  BY DEF RemoveCheck
<1>2. manifest.exe \in Exes
  BY <1>0, <1>1 DEF TypeOK, Owned, RemoveAccepted, ManifestReadable
<1>3. /\ locals \in Local /\ locals.seen = local[p].seen
      /\ locals.exe = manifest.exe /\ (locals.registered <=> Registered)
  BY <1>0, <1>2 DEF TypeOK, Local, Registered
<1>. HIDE DEF locals
<1>4. UNCHANGED <<platform, manifest, file, job>>
  BY <1>1 DEF registered
<1>5. /\ TypeOK' /\ Mutex' /\ Current'
      /\ pc'[p] = "unregister" /\ local'[p] = locals
      /\ \A q \in Procs : q # p => pc'[q] = "idle"
  BY <1>0, <1>1, <1>3, <1>4, ScheduleMoves DEF TypeOK, Enabling
<1>6. IF Registered THEN job # Foreign /\ (platform # "linux" => job = "ours")
                    ELSE job # "ours"
  <2>1. CASE platform = "linux"
    <3>1. job # Foreign
      BY <1>1, <2>1 DEF RemoveAccepted, ProbeAccepts
    <3>2. ~Registered => \A r \in Ours : file[r] = Nothing
      BY <2>1 DEF Registered
    <3>3. Ours # {}
      BY <2>1 DEF Ours, Resources
    <3>. QED
      BY <1>0, <2>1, <3>1, <3>2, <3>3 DEF Covered
  <2>2. CASE platform # "linux"
    BY <1>1, <2>2, ScheduleAssumption
    DEF RemoveAccepted, ProbeAccepts, Registered, TaskMatches
  <2>. QED
    BY <2>1, <2>2
<1>7. Held'
  BY <1>2, <1>3, <1>4, <1>5, <1>6 DEF Held
<1>8. Covered'
  BY <1>0, <1>4, SameResources DEF Covered
<1>. QED
  BY <1>4, <1>5, <1>7, <1>8, Unseen DEF MonInv

LEMMA UnregisterKeeps ==
  ASSUME MonInv, NEW p \in Procs, Unregister(p), UNCHANGED <<mon, env>>
  PROVE  MonInv' /\ Promised
<1>0. TypeOK /\ Mutex /\ Current /\ Covered /\ Held
  BY DEF MonInv
<1>1. /\ pc[p] = "unregister" /\ Goto(p, "withdraw", local[p])
      /\ job' = IF local[p].registered THEN Nothing ELSE job
      /\ UNCHANGED <<platform, manifest, file, lock>>
  BY DEF Unregister
<1>2. /\ manifest.exe = local[p].exe /\ local[p].exe \in Exes
      /\ IF local[p].registered THEN job # Foreign ELSE job # "ours"
  BY <1>0, <1>1 DEF Held
<1>3. job' \in {Nothing, Foreign, "ours"} /\ job' # "ours"
  BY <1>0, <1>1, <1>2, ScheduleAssumption DEF TypeOK
<1>4. local[p] \in Local
  BY <1>0 DEF TypeOK
<1>5. /\ TypeOK' /\ Mutex' /\ Current'
      /\ pc'[p] = "withdraw" /\ local'[p] = local[p]
      /\ \A q \in Procs : q # p => pc'[q] = "idle"
  BY <1>0, <1>1, <1>3, <1>4, ScheduleMoves DEF TypeOK, Enabling
<1>6. Held'
  BY <1>1, <1>2, <1>3, <1>5 DEF Held
<1>7. Covered'
  BY <1>0, <1>1, <1>3, SameResources DEF Covered
<1>8. PartsNow' = [PartsNow EXCEPT !["job"] = job']
  BY <1>1, JobChanges
<1>9. OurManifest /\ OurManifest' /\ Part("job") = job /\ "job" \in AllParts
  BY <1>1, <1>2 DEF OurManifest, Part, AllParts
<1>10. CASE job' = job
  BY <1>1, <1>10, Unseen, <1>5, <1>6, <1>7 DEF MonInv
<1>11. CASE job' # job
  <2>1. job = "ours" /\ job' = Nothing
    BY <1>0, <1>1, <1>2, <1>11 DEF TypeOK
  <2>2. Promised
    BY <1>8, <1>9, <2>1, TakesBack
  <2>. QED
    BY <1>5, <1>6, <1>7, <2>2 DEF MonInv
<1>. QED
  BY <1>10, <1>11

LEMMA WithdrawKeeps ==
  ASSUME MonInv, NEW p \in Procs, Withdraw(p), UNCHANGED <<mon, env>>
  PROVE  MonInv' /\ Promised
<1>0. TypeOK /\ Mutex /\ Current /\ Covered /\ Held
  BY DEF MonInv
<1>1. pc[p] = "withdraw" /\ UNCHANGED <<platform, manifest, job, lock, pc, local>>
  BY DEF Withdraw
<1>2. PICK i \in DOMAIN Resources :
        /\ file[Resources[i]] = local[p].exe
        /\ file' = [file EXCEPT ![Resources[i]] = Nothing]
  BY DEF Withdraw
<1>. DEFINE s == Resources[i]
<1>3. s \in Ours /\ s \in AllResources /\ file[s] = local[p].exe
  BY <1>0, <1>2, OurResources
<1>4. file' = [file EXCEPT ![s] = Nothing]
  BY <1>2
<1>. HIDE DEF s
<1>5. manifest.exe = local[p].exe /\ local[p].exe \in Exes /\ job # "ours"
  BY <1>0, <1>1 DEF Held
<1>6. TypeOK'
  BY <1>0, <1>1, <1>4 DEF TypeOK, env
<1>7. \A r \in AllResources : file'[r] = IF r = s THEN Nothing ELSE file[r]
  BY <1>0, <1>4 DEF TypeOK
<1>8. Covered'
  BY <1>0, <1>1, <1>5, <1>7, SameResources, ScheduleAssumption DEF Covered
<1>9. Mutex' /\ Held'
  BY <1>0, <1>1 DEF Mutex, Held
<1>10. Current'
  BY <1>0, <1>1 DEF Current, Exists
<1>11. Promised
  <2>1. PartsNow' = [PartsNow EXCEPT ![s] = Nothing]
    BY <1>0, <1>1, <1>3, <1>4, FileChanges, ScheduleAssumption
  <2>2. Part(s) = "ours"
    BY <1>3, <1>5 DEF Part, AllResources
  <2>. QED
    BY <1>1, <1>3, <1>5, <2>1, <2>2, TakesBack DEF AllParts, OurManifest
<1>. QED
  BY <1>6, <1>8, <1>9, <1>10, <1>11 DEF MonInv

LEMMA ReleaseKeeps ==
  ASSUME MonInv, NEW p \in Procs, Release(p)
  PROVE  MonInv' /\ Promised
<1>0. TypeOK /\ Mutex /\ Current /\ Covered /\ Held
  BY DEF MonInv
<1>1. /\ pc[p] = "withdraw" /\ \A r \in Ours : file[r] # local[p].exe
      /\ manifest' = NoManifest /\ Return(p)
      /\ UNCHANGED <<platform, file, job, mon, env>>
  BY DEF Release, Withdrawn
<1>2. manifest.exe = local[p].exe /\ local[p].exe \in Exes /\ job # "ours"
  BY <1>0, <1>1 DEF Held
<1>3. /\ pc' \in [Procs -> Pcs] /\ local' \in [Procs -> Local]
      /\ lock' = NoProc /\ Mutex'
      /\ \A q \in Procs : pc'[q] = "idle"
  BY <1>0, <1>1, Ends
<1>4. manifest'.exe = Nothing
  BY <1>1 DEF NoManifest
<1>5. manifest' \in [exe : Exes \cup {Nothing, Foreign}, hashed : BOOLEAN]
  BY <1>1 DEF NoManifest
<1>6. TypeOK'
  BY <1>0, <1>1, <1>3, <1>5 DEF TypeOK, env
<1>7. mon' = mon
  BY <1>1
<1>8. Current' /\ Held'
  BY <1>0, <1>3, <1>7 DEF Current, Held, Enabling, Writing, Exists
<1>9. \A r \in AllResources : file[r] \notin Exes
  BY <1>0, <1>1, <1>2 DEF Covered
<1>10. Covered'
  BY <1>1, <1>2, <1>9 DEF Covered
<1>11. Promised
  <2>1. OurManifest /\ ~OurManifest'
    BY <1>2, <1>4, ScheduleAssumption DEF OurManifest
  <2>2. PartsNow' = PartsNow
    BY <1>1, PartsUnmoved
  <2>3. \A r \in AllParts : Part(r) # "ours"
    BY <1>0, <1>2, <1>9, ScheduleAssumption DEF Part, AllParts, TypeOK
  <2>4. Owner!Release
    BY <2>1, <2>2, <2>3 DEF Owner!Release, PartsNow, AllParts, OurManifest
  <2>. QED
    BY <2>4 DEF Promised
<1>. QED
  BY <1>3, <1>6, <1>8, <1>10, <1>11 DEF MonInv

LEMMA GiveUpKeeps ==
  ASSUME MonInv, NEW p \in Procs, GiveUp(p)
  PROVE  MonInv' /\ Promised
<1>0. TypeOK /\ Current
  BY DEF MonInv
<1>1. pc[p] # "idle" /\ Return(p) /\ UNCHANGED <<registered, mon, env>>
  BY DEF GiveUp, BaselineRefused, InstallRefused, RemoveRefused, NothingToRemove
<1>2. MonInv'
  BY <1>0, <1>1, CommandEnds DEF TypeOK, Current, env
<1>. QED
  BY <1>1, <1>2, Unseen DEF registered

LEMMA AbandonKeeps ==
  ASSUME MonInv, NEW p \in Procs, Abandon(p)
  PROVE  MonInv' /\ Promised /\ mon' = mon
<1>0. TypeOK /\ Current
  BY DEF MonInv
<1>1. /\ pc[p] # "idle" /\ Return(p) /\ faults' = faults + 1
      /\ UNCHANGED <<registered, exe, mon, want, unread, wishes>>
  BY DEF Abandon
<1>2. MonInv'
  BY <1>0, <1>1, CommandEnds DEF TypeOK, Current
<1>. QED
  BY <1>1, <1>2, Unseen DEF registered

LEMMA OthersPromised ==
  ASSUME MonInv, Others
  PROVE  Promised
<1>0. TypeOK /\ Covered
  BY DEF MonInv
<1>1. UNCHANGED <<platform, manifest>>
  BY DEF Others, LoginLoads, ForeignJob, ForeignFile
<1>2. Part("job") = job /\ "job" \in AllParts
  BY DEF Part, AllParts
<1>3. CASE LoginLoads
  <2>1. /\ job = Nothing /\ job' = "ours"
        /\ file' = file /\ file["plist"] \in Exes
    BY <1>3 DEF LoginLoads
  <2>2. OurManifest /\ OurManifest'
    BY <1>0, <1>1, <2>1 DEF Covered, OurManifest, AllResources
  <2>3. PartsNow' = [PartsNow EXCEPT !["job"] = "ours"]
    BY <2>1, JobChanges
  <2>. QED
    BY <1>2, <2>1, <2>2, <2>3, Puts
<1>4. CASE ForeignJob
  <2>1. job # Foreign /\ job' = Foreign /\ file' = file
    BY <1>4 DEF ForeignJob
  <2>2. PartsNow' = [PartsNow EXCEPT !["job"] = Foreign]
    BY <2>1, JobChanges
  <2>. QED
    BY <1>1, <1>2, <2>1, <2>2, Disturbs
<1>5. CASE \E r \in AllResources : ForeignFile(r)
  <2>1. PICK r \in AllResources :
          file[r] # Foreign /\ file' = [file EXCEPT ![r] = Foreign] /\ job' = job
    BY <1>5 DEF ForeignFile
  <2>2. PartsNow' = [PartsNow EXCEPT ![r] = Foreign]
    BY <1>0, <2>1, FileChanges, ScheduleAssumption
  <2>3. Part(r) # Foreign
    BY <2>1, ScheduleAssumption DEF Part, AllResources
  <2>. QED
    BY <1>1, <2>2, <2>3, Disturbs DEF AllParts
<1>. QED
  BY <1>3, <1>4, <1>5 DEF Others

-----------------------------------------------------------------------------
(* Every step.                                                             *)

LEMMA ScheduleStepKeeps ==
  ASSUME MonInv, NEW p \in Procs, ScheduleStep(p)
  PROVE  MonInv' /\ Promised /\ mon' = mon
<1>1. UNCHANGED <<mon, env>>
  BY DEF ScheduleStep
<1>2. CASE InstallCheck(p) \/ Claim(p) \/ Place(p) \/ Register(p) \/ RecordHash(p)
  BY <1>1, <1>2, InstallCheckKeeps, ClaimKeeps, PlaceKeeps, RegisterKeeps, RecordHashKeeps
<1>3. CASE RemoveCheck(p) \/ Unregister(p) \/ Withdraw(p)
  BY <1>1, <1>3, RemoveCheckKeeps, UnregisterKeeps, WithdrawKeeps
<1>. QED
  BY <1>2, <1>3 DEF ScheduleStep

(* What a step may do to state.json. *)
Recorded ==
  /\ Exists(mon) => mon'.baseline = mon.baseline
  /\ ~mon.enabled =>
       /\ mon'.snapshots = mon.snapshots
       /\ mon'.enabled => \E p \in Procs : pc[p] = "turn_on"

LEMMA Unrecorded ==
  ASSUME mon' = mon
  PROVE  Recorded
BY DEF Recorded

LEMMA ContinueKeeps ==
  ASSUME MonInv, NEW p \in Procs, Continue(p)
  PROVE  MonInv' /\ Promised /\ Recorded
<1>1. CASE SaveBaseline(p)
  <2>1. /\ MonInv' /\ mon = NoState /\ mon'.enabled = FALSE
        /\ mon'.snapshots = {}
    BY <1>1, SaveBaselineKeeps
  <2>2. Recorded
    BY <2>1 DEF Recorded, NoState, Exists
  <2>. QED
    BY <1>1, <2>1, <2>2, Unseen DEF SaveBaseline, registered
<1>2. CASE TurnOn(p)
  BY <1>2, TurnOnKeeps, Unseen DEF TurnOn, registered, Recorded
<1>3. CASE TurnOff(p)
  BY <1>3, TurnOffKeeps, Unseen DEF TurnOff, registered, Recorded
<1>4. CASE Release(p)
  BY <1>4, ReleaseKeeps, Unrecorded DEF Release
<1>5. CASE Collect(p)
  BY <1>5, CollectKeeps, Unseen DEF Collect, registered, Recorded
<1>6. CASE ScheduleStep(p)
  BY <1>6, ScheduleStepKeeps, Unrecorded
<1>7. CASE GiveUp(p)
  BY <1>7, GiveUpKeeps, Unrecorded DEF GiveUp
<1>. QED
  BY <1>1, <1>2, <1>3, <1>4, <1>5, <1>6, <1>7 DEF Continue

LEMMA MonInvNext ==
  ASSUME MonInv, [Next]_vars
  PROVE  MonInv' /\ Promised /\ Recorded
<1>1. ASSUME NEW p \in Procs, Begin(p)
      PROVE  MonInv' /\ Promised /\ Recorded
  BY <1>1, CommandBegins, Unseen, Unrecorded DEF registered
<1>2. ASSUME NEW p \in Procs, Continue(p)
      PROVE  MonInv' /\ Promised /\ Recorded
  BY <1>2, ContinueKeeps
<1>3. ASSUME NEW p \in Procs, Abandon(p)
      PROVE  MonInv' /\ Promised /\ Recorded
  BY <1>3, AbandonKeeps, Unrecorded
<1>4. CASE Others
  BY <1>4, OthersKeep, OthersPromised, Unrecorded DEF Others
<1>5. CASE User
  BY <1>5, UserKeeps, Unseen, Unrecorded DEF User, registered
<1>6. CASE UNCHANGED vars
  <2>1. /\ UNCHANGED <<registered, exe, lock, pc, local, mon, want, unread, wishes, faults>>
    BY <1>6 DEF vars
  <2>2. TypeOK' /\ Mutex' /\ Current' /\ Held'
    BY <2>1 DEF MonInv, TypeOK, Mutex, Current, Held, registered, Exists
  <2>3. Covered'
    BY <2>1, SameResources DEF MonInv, Covered, registered
  <2>. QED
    BY <2>1, <2>2, <2>3, Unseen, Unrecorded DEF MonInv, registered
<1>. QED
  BY <1>1, <1>2, <1>3, <1>4, <1>5, <1>6 DEF Next

LEMMA Invariant == Spec => []MonInv
<1>1. MonInv /\ [Next]_vars => MonInv'
  BY MonInvNext
<1>. QED
  BY <1>1, MonInvInit, PTL DEF Spec

(* The monitor's variables keep their types. *)
THEOREM MonitorTyped == Spec => []TypeOK
<1>1. MonInv => TypeOK
  BY DEF MonInv
<1>. QED
  BY <1>1, Invariant, PTL

(* No interrupted, repeated or concurrent `monitor enable` replaces the     *)
(* baseline of the first one.                                              *)
THEOREM BaselineStays == Spec => BaselineKept
<1>1. MonInv /\ [Next]_vars => [Exists(mon) => mon'.baseline = mon.baseline]_vars
  BY MonInvNext DEF Recorded
<1>. QED
  BY <1>1, Invariant, PTL DEF Spec, BaselineKept

(* After `monitor disable` nothing is collected, and only the last step of  *)
(* an enable turns the collector on again.                                 *)
THEOREM DisabledStaysOff == Spec => DisableSticks
<1>1. MonInv /\ [Next]_vars =>
        [~mon.enabled =>
           /\ mon'.snapshots = mon.snapshots
           /\ mon'.enabled => \E p \in Procs : pc[p] = "turn_on"]_vars
  BY MonInvNext DEF Recorded
<1>. QED
  BY <1>1, Invariant, PTL DEF Spec, DisableSticks

(* Every file and job of ours is covered by the manifest at every moment,   *)
(* and what is not ours is never changed: the monitor implements OwnedJob.  *)
THEOREM JobIsOwned == Spec => ImplementsOwnedJob
<1>1. Init => Owner!JobInit
  <2>1. ASSUME Init
        PROVE  Owner!JobInit
    <3>1. manifest.exe \in {Nothing, Foreign}
      <4>1. NoManifest.exe = Nothing /\ [NoManifest EXCEPT !.exe = Foreign].exe = Foreign
        BY DEF NoManifest
      <4>. QED
        BY <2>1, <4>1 DEF Init
    <3>2. ~OurManifest
      BY <3>1, ScheduleAssumption DEF OurManifest
    <3>3. \A r \in AllResources \cup {"job"} : Part(r) = Nothing
      BY <2>1, ScheduleAssumption DEF Init, Part
    <3>. QED
      BY <3>2, <3>3 DEF Owner!JobInit, OurManifest
  <2>. QED
    BY <2>1
<1>2. MonInv /\ [Next]_vars =>
        [Owner!Claim \/ Owner!Put \/ Owner!TakeBack \/ Owner!Release
           \/ Owner!Others]_(Owner!promise)
  BY MonInvNext DEF Promised, Owner!promise, PartsNow, AllParts
<1>. QED
  BY <1>1, <1>2, Invariant, PTL DEF Spec, ImplementsOwnedJob, Owner!JobSpec
=============================================================================
