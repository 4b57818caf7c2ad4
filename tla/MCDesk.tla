------------------------------ MODULE MCDesk ------------------------------
(* The components that keep no file in common, each in a scene of its own:  *)
(* shared stores, experiments, setup, the logs and their scans, the index   *)
(* of the scans, the loop that refuses cyclic plans, the creation of runs,  *)
(* the sums of their ledgers, the claims a run decides, the blocks of        *)
(* `init` and its baseline, and what reports say of the requests.           *)
EXTENDS SharedStores, TimeWindows, Setup, ScanIndex, CycleCheck, RunCreate,
        TokenLedger, ProjectInit, RetroVerdict

CONSTANTS
  t1, t2, t3, class, claim, file,
  MaxIndexed  \* bound: lines of a log that is scanned with the index

LOCAL INSTANCE TLC

VARIABLES scene, manifest, state, observed, archive, reported

claiming == <<manifest, state, observed, archive, reported>>

Scenes == {"stores", "lab", "setup", "logs", "index", "cycle", "create", "ledger",
           "claims", "init", "baseline", "waste"}

(* A run without a plan that verifies every step and decides one claim, with *)
(* what is proved of all runs.                                               *)
Claiming == INSTANCE CodingStateProofs WITH
  Ids <- {}, Classes <- {class}, Decisions <- {}, Paths <- {file}, Claims <- {claim},
  Manifests <- {[plan |-> [cap |-> 0, tasks |-> << >>], command |-> TRUE,
                 everyStep |-> TRUE, unverified |-> FALSE]},
  MaxWorkPlanTasks <- 3, MaxPacketTasks <- 3, MaxQueueItems <- 3,
  MaxCompletedItems <- 2, MaxDecisions <- 1, MaxArtifacts <- 1, MaxChecks <- 3,
  MaxManagedChecks <- 2, MaxEpistemicItems <- 1, MaxEvidence <- 1, StateBudget <- 6,
  Proposals <- {}, MaxAdd <- 1, MaxUpsert <- 1, MaxRevision <- 3

(* Setup finds a last line without an end. *)
OneText == {<<"words">>}

(* Init finds no rules, or the first version's between the user's lines.     *)
FirstRules == {<< >>, <<"words", "v1", "heading", "old rule", "chapter">>}

(* Two sessions, one of each source: short answers of a large model behind a  *)
(* rewritten cache, retries, a session that grows and one that shrinks.      *)
Sends(session, ts, unc, cached, w5, w1h, out) ==
  [session |-> session, claude |-> session = "first", heavy |-> out = 1, ts |-> ts,
   unc |-> unc, cached |-> cached, w5 |-> w5, w1h |-> w1h, out |-> out]

Both == {"first", "second"}

FewKinds ==
  {Sends("first", ts, 0, 0, 4, 0, 1) : ts \in {1, 2, NoTime}}
  \cup {Sends("first", 2, 2, 2, 0, 0, 1), Sends("first", 4, 0, 0, 4, 8, 3),
        Sends("first", 3, 0, 12, 0, 0, 3),
        Sends("second", 2, 8, 0, 0, 0, 3), Sends("second", 1, 4, 8, 0, 0, 1)}

(* In every scene the processes are alike. *)
Symmetry == Permutations(Setups) \cup Permutations(Commands)

TaskOrder == <<t1, t2, t3>>

(* Every plan of up to three tasks, with every combination of dependencies. *)
AllPlans ==
  UNION {{p \in {[cap |-> 1, tasks |-> [i \in 1..n |->
                   [id |-> TaskOrder[i], class |-> class, deps |-> deps[i]]]] :
                     deps \in [1..n -> SUBSET Ids]} :
            WellFormed(p)} : n \in 1..3}

(* The index tells sessions apart by their turns and times; what the first  *)
(* scan leaves in it does not depend on what that scan was asked for.       *)
IndexScene ==
  /\ ScanNext
  /\ Len(codex') <= MaxIndexed
  /\ \A i \in DOMAIN codex' : codex'[i].kind = "usage" => codex'[i].total = None
  /\ scans' = 1 => \A p \in Scanners : query'[p] = [want |-> Anywhere, since |-> None]

DeskInit ==
  /\ scene \in Scenes
  /\ StoresInit /\ (scene # "stores" => \A p \in Commands : project[p] = CHOOSE d \in Paths : TRUE)
  /\ LabInit /\ SetupInit /\ LogInit /\ ScanInit
  /\ CreateInit /\ LedgerInit
  /\ (scene # "ledger" => limit = 0 /\ counting = "uncached_only")
  /\ Claiming!Init
  /\ InitInit /\ (scene # "init" => \A f \in RuleFile : rules[f] = << >>)
  /\ BaselineInit /\ ScanBegins
  /\ LoopInit /\ (scene # "cycle" => Len(plan.tasks) = 1 /\ plan.tasks[1].deps = {})

DeskNext ==
  /\ UNCHANGED scene
  /\ IF scene = "stores" THEN StoresNext ELSE UNCHANGED stores
  /\ IF scene = "lab" THEN LabNext ELSE UNCHANGED lab
  /\ IF scene = "setup" THEN SetupNext ELSE UNCHANGED setupVars
  /\ IF scene = "logs" THEN (ClaudeGrows \/ CodexGrows) /\ UNCHANGED scanning
     ELSE IF scene = "index" THEN IndexScene
     ELSE UNCHANGED scanVars
  /\ IF scene = "cycle" THEN LoopNext ELSE UNCHANGED loopVars
  /\ IF scene = "create" THEN CreateNext ELSE UNCHANGED creation
  /\ IF scene = "ledger" THEN LedgerNext ELSE UNCHANGED ledger
  /\ IF scene = "claims" THEN Claiming!Next ELSE UNCHANGED claiming
  /\ IF scene = "init" THEN InitNext ELSE UNCHANGED initVars
  /\ IF scene = "baseline" THEN BaselineNext ELSE UNCHANGED baselineVars
  /\ IF scene = "waste" THEN WasteNext ELSE UNCHANGED waste

DeskSpec ==
  DeskInit /\ [][DeskNext]_<<scene, stores, lab, setupVars, scanVars, loopVars,
                            creation, ledger, claiming, initVars, baselineVars, waste>>

(* Setup and init put their blocks into files the user writes, too: whatever *)
(* the files hold, the block goes in and comes out again, or into the same   *)
(* place, and leaves the user's text as it was (setupcmd.rs, initcmd.rs).    *)
(* In the other scenes these files do not change.                           *)
BlocksRoundTrip ==
  /\ scene = "setup" => InstallRoundTrips
  /\ scene = "init" => InitRoundTrips

(* Of a run without a plan that verifies every step: a verified claim can    *)
(* only be disputed after that, a disputed one is never taken back, and it   *)
(* leaves the state only for the archive (CodingState::validate_delta).      *)
ClaimsMoveForward == Claiming!ClaimsMoveForward

(* What the program says of tokens: the totals a run's cap is held against,  *)
(* what the detectors call reclaimable, and the verdict on long sessions     *)
(* (ledger.rs, detectors.rs, verdictcmd.rs).  The detectors look at the      *)
(* requests alone, so what they say need not be asked again for each way in  *)
(* which the rest of the scan may have gone.                                *)
NumbersAreTrue ==
  /\ scene = "ledger" => CountsAreTrue
  /\ scene = "waste" =>
       /\ ignored = 0 /\ CompleteAccounting => ImpactIsBounded
       /\ VerdictIsFair
=============================================================================
