# codeunlimited: TLA+ models of the bounded run and its neighbours

codeunlimited is a command line tool (Rust, `src/src/`). It reads the logs of
coding agents and computes reports, puts rules for these agents into a user's
files, watches their usage, and drives them: the *bounded run* of
`src/src/runtime/` is a durable loop that hands one prompt at a time to a worker
(an agent process with access to the project), validates the answer, saves a
revision, and stops for an operator whenever it is unclear what the worker did.
This directory holds the models, the TLC configurations and the TLAPS proofs.
`PROJECT.json` lists components, runs, mutants, the source lines behind each
definition, hazards and theorems.

## 1. Inventory

### Run engine (`runtime/engine.rs`) and run store (`runtime/store.rs`, `safeio.rs`)

State, all in `.codeunlimited/runs/<name>/`: `state.json` (revision, status and
the coding state), `observation.txt` (what the next prompt says happened),
`attempts/NNNNNNNN.json` (immutable records), `attempt-intent.json` (written
before a worker is started, removed last), `recovery.json` (an ambiguous
attempt waits for an operator), `archive/NNNNNNNN.json`, `lock`, and files fixed
at creation (manifest, workflow, provider instructions). Every write is an
atomic create (never replaces) or an atomic rename.

Operations: `init_run`, `run start`; `step`; `run_steps` (a loop of `step`);
`cache_probe`; `recover`; the readers `status`, `ledger`, `packet`,
`render_next_prompt`. Each changing command takes the run lock without waiting; a
dead process loses the lock. `status` and `ledger` go on without it.

Hard behaviour: a command makes up to six durable writes and may die between any
two; the worker shares the file system with the run and may outlive its step;
git may be unable to say whether the project changed, and compares what `git
status` prints, not what files hold; the worker may damage files without which no
command loads the run; two commands may be called at once; `recover` may itself be
interrupted and repeated; a reader sees the files of different moments; a directory
may be half created.

What makes it correct: no started worker is forgotten or recorded twice; no
worker is started over a live worker or over edits that git shows and nobody
accepted; revisions and records agree; budgets count every invocation; a terminal status is final;
no crash leaves the run in a state that no command accepts; a report that does not
call itself busy shows one moment; who is told "created" has a whole run.

### Attempt ledger and token cap (`runtime/ledger.rs`)

Derived from the records: token sums with checked arithmetic, coverage, accepted
tasks; `cap_admission_error` decides whether a step may start. Hard: unknown
usage, overflow, records of interrupted attempts, counters that mean different
things. Correct: the cap never admits on a sum it does not know.

### Worker process capture (`runtime/provider.rs`)

A child process, a writer thread for the prompt, two bounded reader threads, a
timeout, a kill. Hard: full pipes, a worker that answers early, grandchildren
that keep the pipes open, reads that fail. Correct: an answer is complete, nobody
waits in a circle, the call returns and the child is gone.

### Work plans (`runtime/packet.rs`) and coding state (`runtime/validate.rs`, `runtime/model.rs`)

A plan is a set of tasks with dependencies; a packet is the next few tasks; a
verified response accepts some of them. The coding state has bounded lists
(queue, completed, decisions, checks, hypotheses), compacted into an archive
chain; `apply_delta` is the only way to the next state. Hard: long sequences of
legal deltas, limits of the lists, epistemic status changes. Correct: what is
accepted stays acceptable; a dependency is never overtaken; a bounded list never
makes a legal run stop.

### Usage monitor (`monitor.rs`) and its scheduler (`monitor_schedule.rs`)

`state.json` of the monitor under a try-lock; `enable`, `check`, `disable`,
`status`. The scheduler has an ownership manifest, unit files or a task, and an
external service (launchctl, systemctl, schtasks). Hard: a crash between
manifest, files and registration; foreign jobs of the same name; logs that cannot
be accounted for. Correct: a retry
finishes, a foreign job is untouched, a baseline is never reset, nothing is
collected after `disable`.

### Shared stores (`registry.rs`, `experiment.rs`, `reportcmd.rs` history)

Read-modify-write of one file under a blocking lock. Correct: no update is lost,
a request is never on both sides of a comparison.

### Managed files (`setupcmd.rs`, `initcmd.rs`, `safeio.rs`)

Marked blocks in files of the user, with a backup, and the baseline that `init`
writes once. Hard: several files, an edit between planning, comparing and writing, blocks
of an earlier version. Correct: repeatable, removes only its own block, keeps
the user's text.

### Logs and what is said of them (`parsers.rs`, `detectors.rs`, `verdictcmd.rs`, `deltacmd.rs`)

Lines of session files that agents append to while they are read; an index of
Codex sessions that lets a scan skip files; five detectors with overlapping
claims; a verdict that is withheld when the scan missed something. Hard: repeated
records across a cutoff, two scans and one index, sums at the width of the
counters. Correct: a restricted scan counts what a full one counts in its scope;
the headline counts a request once; no verdict on sums that are not the true ones.

Interactions: `runtimecmd` calls the engine; the engine calls the store for every
durable write, the provider for the worker, `packet`/`validate` for the next
state and `ledger` for admission; `monitor` calls `monitor_schedule` inside its
own lock; `init` calls scan, verdict and registry; everything writes through
`safeio`.

## 2. Plan

| order | module | models | status |
|---|---|---|---|
| 1 | `RunEngine`, `MCRunEngine` | step, recover, cache-probe, crashes, workers | done |
| 1 | `RunContract`, `RunEngineRefinement` | what stepping and recovering promises, and that the engine keeps it | done |
| 1 | `RunEngineProofs` | types, terminal states, the ledger, accounted dispatches | four theorems |
| 1 | `RunEngineSafetyProofs` | no worker beside a living one, none over unaccepted edits; budgets, cap, damage | six theorems |
| 1 | `RunEngineContractProofs` | prompts, recovery, the contract, reports | four theorems |
| 2 | `WorkPlan` | plan validation, packet selection, acceptance rules (operators) | done |
| 2 | `CycleCheck` | the loop of `reject_cycles` | done |
| 2 | `CodingState`, `MCCodingState` | what an accepted answer and a recovery do to the coding state | done |
| 2 | `TaskBoard`, `CodingStateRefinement` | what a managed run promises about its plan, and that the coding state keeps it | done |
| 2 | `CodingStateProofs` | types, history, order of tasks, packets, completion, claims, the refinement | eight theorems |
| 3 | `RunInspect`, `MCRunEngineDamage` | readers beside the engine; the engine in bad company | done |
| 3 | `RunCreate` | creation of a run, its cleanup, `run start` | done |
| 3 | `TokenLedger` | the counters of the ledger and their sums | done |
| 4 | `MonitorSchedule`, `Monitor`, `OwnedJob`, `MonitorRefinement`, `MCMonitor` | the monitor and its daily job, and the abstract owned job they implement | done |
| 4 | `MonitorProofs` | baseline, disable, the owned job | four theorems |
| 5 | `ProcessCapture`, `ProviderCall`, `MCProviderCall` | pipes, threads, timeout; one provider call around them | done |
| 5 | `ProviderCallProofs` | pipes and answers | three theorems |
| 6 | `SharedStores`, `Experiments`, `TimeWindows` | registry and history; experiment windows | done |
| 6 | `Setup`, `ProjectInit`, `ProjectBaseline` | managed blocks, the blocks of `init`, its baseline | done |
| 6 | `SeqParts` | parts and sums of texts and logs, as recursive functions (operators) | done |
| 7 | `UsageLog`, `ScanIndex` | which records a scan counts; the index of Codex logs | done |
| 7 | `Findings`, `RetroVerdict` | detectors and the headline; the verdict and its gate | done |
| 7 | `StoreProofs` | creation and the plan check before it, stores, experiments, baselines, scans of logs and their index, sums of the ledger | nine theorems |
| | `MCDesk` | the components that keep no file in common, a scene each | done |
| 8 | `DeskProofs` | setup, the blocks of `init`, detectors, verdict, and the properties of the desk made of them | ten theorems |

Abstract specifications: the contract of a run, the task board of a plan, an
owned job; each is the PROPERTY of a run through a refinement mapping.

## 3. `RunEngine`: how it corresponds to the code

One action per durable write. `pc[p]` names the write a command of process `p`
makes next, `job[p]` holds the local variables that outlive a write; what the
code computes between two writes belongs to the action of the next one.

| pc | action | code |
|---|---|---|
| (begin) | `BeginStep` | lock, load, admission, `write_attempt_intent` |
| dispatch | `Dispatch` / `ProviderFails` | spawn, or no worker could be started |
| running | `WorkerReturns` | worker ends or is killed; control hash and intent are compared |
| judge | `ProviderFails`, `RejectResponse`, `AcceptResponse` | error of the provider; `fail_transition`; `apply_delta` accepts |
| archive, observation, state | `SaveArchive`, `SaveObservation`, `SaveState`, `SaveFails` | `save_transition` and its rollback |
| record, mark, clear | `WriteRecord`, `MarkRecovery`, `ClearIntent` | `finalize_attempt` |
| (begin) | `BeginRecover` | lock, load, every refusal of `recover` |
| r_record ... r_intent | `WriteInterrupted`, `AcceptObservation`, `AcceptState`, `AcceptFails`, `ClearRecovery`, `DropIntent` | the writes of `recover` |
| probing | `BeginProbe`, `ProbeReturns` | `cache_probe` |

The environment: `Edit` (a live worker edits the project or the run's files),
`OrphanExits` (a worker whose step is dead stops or is stopped), `Abandon` (a
process is killed, or an I/O error makes it return).

Abstractions. File contents are what the properties tell apart: an observation
is the revision it was written for, or `Foreign`. A worker's edit of the run's files
is of one of two kinds. "control" leaves another observation that loads. "wreck"
leaves a manifest, workflow, state, observation or instruction file that `load`
refuses: `loads` is false from then on, and no command that begins with `load`
(`BeginStep`, `BeginRecover`, `BeginProbe`, the save of a transition, the readers)
goes on. Nothing in the code repairs such a file, so a wrecked run stays closed until
somebody does it by hand. A worker that rewrites `state.json` into another valid
state, or damages `recovery.json`, is left out. An altered intent keeps its
attempt number and base revision (an alteration of these two is refused by the
same comparisons).

The project has a `content`, and `GitShows` says what `git_snapshot` tells of each:
HEAD and a digest of `git status`, without the contents of files and without ignored
files, so that several contents may look alike. `BeginStep` remembers what git shows
in `shown` (`before_git`), `Changed` compares it with what git shows now, and git may
fail to answer in every judgement (`Ambiguous`). In the runs git tells a modified
project from a clean one but not two drafts from each other, and the project may
hold a draft of its user from the beginning. What the verification command leaves in
the project (`Verify`) counts as edits; that it may change the run's files is a hazard
of the list. Every attempt of
known usage costs one unit of the token cap. Whether a response is acceptable is
a free choice, except that damaged control files or a damaged intent reject it.
The project edits of a cache probe are seen or missed, not tracked further.

`RunInspect` puts a reader beside the engine. `status` and `ledger` try the lock;
without it they go on and say that the run is busy (`SaysBusy`), `packet` refuses,
and rendering a prompt never asks for it. State, observation, attempts and intent
are read one after the other (`ReadState` ... `ReadIntent`), the engine moves in
between, and a reader that holds the lock turns every other command away with
`RunBusy`. An intent that does not parse makes the report an error.

History variables: `started` (workers ever started) and `accepted` (the content of the
project last taken in by a commit or acknowledged by an operator). They are read by
properties only. `NoDispatchOverUnacceptedEdits` says that no worker is started while
git shows something else than it shows of the accepted content; `EditsAreSeen`, what
the documents say, that the content *is* the accepted one. The second is false where
two contents look alike (run `engine_hidden`) and a theorem where none do
(`EditsSeenWhereGitTells`).

## 4. `CodingState`: how it corresponds to the code

`RunEngine` knows of an answer only whether it was accepted. `CodingState` is the
other half: which answers are accepted and what they make of the state, on top of
the operators of `WorkPlan`. Between two saves the code is sequential, so one
accepted answer is one step, and a refused one, which leaves the state alone, is
a stuttering step.

| module | definition | code |
|---|---|---|
| `WorkPlan` | `ValidPlan`, `Acyclic` | `validate_work_plan`, what `reject_cycles` decides |
| | `Candidates`, `IsPacket` | `select_tasks`: first ready task, then more of its class up to the cap |
| | `AcceptsPrefix`, `OutcomeFits`, `ValidResponse` | `validate_response` |
| | `RemainingQueue` | the queue that the engine derives, whatever the worker proposes |
| `CodingState` | `Merged`, `Learned`, `Compacted`, `After` | `apply_delta`: fields, ledger of claims, `compact_visible_history`, status |
| | `UpsertAccepted`, `TouchedOnce`, `RetireAccepted`, `MayBecome`, `Supports` | `apply_epistemic_delta` |
| | `OutcomeAccepted`, `StatusAfter`, `MustVerify` | the frozen command and what its result does to a requested completion |
| | `ValidState`, `Fits`, `ValidPlanState` | `validate_state`, `validate_plan_state`: the last word on every answer |
| | `Step`, `Recover` | `step` from the answer to the save; `recover` |
| `CycleCheck` | `Look`, `EndPass` | one task, one pass of the loop in `reject_cycles` |

Abstractions. A task is an id, its dependencies and one class that stands for
group, risk and scope, which a packet must share. A queue is the set of its ids:
in a managed run the plan fixes the order, and in another run the order decides
nothing. Texts, their own limits, focus, active files and hashes are left out, and so
is the base revision of an answer, which decides only acceptance. The byte budget of
the serialized state is counted in entries: `Size` adds up the lists, the artifacts
and the claims, so it grows from answer to answer, also by what nothing takes out
again, and `ValidState` refuses what is larger than `StateBudget`. `apply_delta`
works on a copy in a fixed order of mutations and checks; the model names the same
intermediate states (`Merged`, `Upserted`, `Full`, `After`) and evaluates each
check on the state it sees in the code. `Recover` starts only from a running
state: a recovery of a terminal run is possible but applies nothing, which
`TerminalIsFinal` of `RunEngine` says. Ids in an unmanaged run may be used again
once compaction moved them to the archive: uniqueness is checked against the
visible lists only, and no document promises more.

History variables: `archive` (the contents of the archive files in order) and
`reported` (every entry an accepted answer appended).

## 5. The other modules and the code

### `RunCreate`: `run init`, `run start` (`store.rs`, `engine.rs`, `runtimecmd.rs`)

`MakeDirectory` is the `create_dir` that decides who owns the name; `MakeEntry`
makes the next file or directory in the order of `RunStore::create`; `EntryFails`
and `CleanUp` are an I/O error and `cleanup_partial_create`; `DieCreating` is a
killed process. `Validate` stands for all checks made before anything is written.
`LoopTurn` and `Work` are the loop of `run_steps`, with a whole step as one action,
and `Exit` its exit code. `Discard` is the operator, who removes by hand a
directory that is not a whole run: the code has no command for that, so until
then the name stays taken (a hazard of the list).

### `TokenLedger`: sums of counters (`ledger.rs`, `engine.rs`)

Counters up to `MaxCount` (`u64::MAX`) or `Unknown`; `CheckedAdd` and
`SaturatingAdd` are the two ways in which the code adds. `Complete`, `TotalTokens`
and `Admits` are coverage, total and cap; `Aggregate` is what `status` shows. The
properties compare them with sums of unlimited width (`TrueTotal`). Cost estimates
and the break-down by provider are left out.

### `MonitorSchedule`, `Monitor`, `OwnedJob`, `MonitorRefinement`

One action per file operation and per call of the scheduler. `Monitor` has the
commands (`BeginEnable`, `SaveBaseline`, `TurnOn`; `BeginDisable`, `TurnOff`,
`Release`; `BeginCheck`, `Collect`) under `monitor.lock`. `unread` says that the logs hold
what cannot be accounted for, until the user repairs them: the first enable is refused
for as long (`BaselineRefused`). The commands call the steps of
`MonitorSchedule` (`install_with`: `InstallCheck`, `Claim`, `Place`, `Register`,
`RecordHash`; `remove_with`: `RemoveCheck`, `Unregister`, `Withdraw`). `Abandon` is a
crash or a failed call at any of them. The text of a job file is the executable it
names, since that is all in which two versions of our text differ; any other text
is `Foreign`. launchd, systemd and the task scheduler differ in their resources, in
what they store (`Loaded`) and in whether registering refuses a name that was taken
since the probe (`NameTaken`); on Linux it does not, so a foreign job appears there
only between two commands. launchctl, systemctl and schtasks themselves are
external, modelled from how the code reads their answers. The tokens of a
snapshot are one value.

`OwnedJob` is the abstract promise: one claim covers the job and its files, nothing
of ours exists without it, nothing foreign is changed. `MonitorRefinement` maps the
manifest to the claim, and files and job to the parts.

### `ProcessCapture`, `ProviderCall` (`provider.rs`)

Threads are actions of their own: `WriterStep`, `ReaderStep`, the caller's `Spawn`,
`ChildEnded`, `TimesOut`, `Join`. The child turns to a pipe (`TurnTo`), then waits
until it can read or write; it may fork processes that inherit its pipes
(`Forks`, `HeirWrites`, `HeirsExit`). A read may fail (`ReaderFails`), which ends the
collection without a mark, as `read_bounded` does. Bytes come in units, pipes are bounded.
`ProviderCall` is the call around it: `Prepare` (temporary files and arguments),
the capture, `ReadAnswer` (stdout, or Codex's last-message file), a second sample
for a probe; `Request` is the whole of an HTTP provider. Argument lists and the
bodies of requests and answers are left out: an answer is valid or invalid.

### `SharedStores`, `Experiments` (`registry.rs`, `reportcmd.rs`, `experiment.rs`)

`register` looks at the list, waits for the lock, reads again and replaces the
file; `append_history` reads, appends and replaces under its own lock. A process
may die (`Stop`) anywhere. `Experiments` holds one lock from before the clock is
read until the store is saved; `Counted` is what the logs hold *when they are
scanned*, and the clock may be set back (`Tick`).

### `Setup`, `ProjectInit`, `ProjectBaseline` (`setupcmd.rs`, `initcmd.rs`, `deltacmd.rs`)

A text is a sequence of words, line ends and blocks in `Setup`, of lines in
`ProjectInit`. `NextText` and `Upserted` compute the next text as `policy_next` (with
its fellows) and `upsert_block` do, including ambiguous markers, which refuse.
Setup plans every file first (`PlanTargets`, one step), compares each with its plan
(`CompareTarget`), makes a backup if there is none (`BackUp`), then replaces it
(`Replace`); the user edits at any moment. An edit between compare and replace is
overwritten, as `docs/VERSION-2.4.md:76-77` says of editors that share no lock:
`overtaken` remembers the setups this happened to, and `UserTextKept` allows the
user's text to change in their write and nowhere else.
`AGENTS.md` is treated like `CLAUDE.md`; CRLF, empty lines in `ProjectInit` and the
user's deletions are left out. What is kept of a text (`Only`) and the replacement of a
part of it (`Spliced`) are in `SeqParts`. `ProjectBaseline` scans the two sources one after the
other and stamps the baseline with the time of writing; its clock is not set back. A
record has a form: with a timestamp, without one, malformed, or of an ignored
project. `init` keeps the first two and writes the baseline although malformed records
are left out, when they are few enough to be disclosed; `delta` counts what has a
timestamp, of ignored projects too.

### `UsageLog`, `ScanIndex` (`parsers.rs`)

A log is the sequence of lines that matter; a scan is the set of positions it
counts. `ClaudeCounted` has the first-seen rule for streamed messages,
`CodexCounted` the repeated totals, both with the project and the cutoff in the
order in which the code looks at them. `ScanIndex` adds the metadata index: `Load`,
`LookUp`, `ParseFile`, `SaveIndex` of two scans at once, without a lock, while
Codex appends. The fingerprint of a file that only grows is its length. Token
counts and rate limits are left out: a record is countable or damaged.

### `Findings`, `RetroVerdict` (`detectors.rs`, `verdictcmd.rs`)

`HeavyOnTrivial`, `ContextTax`, `CacheRewrites`, `FatStarts` and `RetryStorms` are the
five detectors over requests in reading order; `ReclaimTotal` is the headline.
`Summary`, `Gate`, `Reportable` and `Eligible` are the verdict, `InitLine` is what `init` prints. Sums
saturate at `MaxTokens`. A finding is a function from the requests it claims
something of to the claims; a session is the set of places of its requests, in the
order of the log, and `Rank` the place of a request among them. A sum over sessions
is taken where the first request of each is (`OverLong`), so that all sums are sums
along the log (`Total` of `SeqParts`). Averages are exact fractions where the code has an
`f64`: the model says nothing about rounding. `ignored` counts the requests of ignored
projects, which `InitLine` still has in its gate and `Eligible` has not.

`docs/ACCURACY.md:51` describes the start of heavy sessions by a median that is
compared with 25k tokens; `heavy_session_start` claims each session's own excess.
The model follows the code; no run is about the sentence, which does not say what
is claimed.

### `MCDesk`

These components share no file, so their interleavings mean nothing. `MCDesk` puts
twelve of them into scenes of one run: `scene` never changes and decides which
component moves. Invariants are checked in every state; `BlocksRoundTrip` and
`NumbersAreTrue` only where their variables move, to save time.

### Not modelled

* The prompt compiler, option parsing, printing, HTML and report text: renderings
  of data that other parts hold, without state of their own.
* Weekly report scheduling (`schedule.rs`): one call of schtasks, or a crontab line
  that is printed.
* Request and response bodies of the HTTP providers, argument lists of provider
  CLIs: external formats.
* Metrics, forecasts, `compare`, `fix`, `doctor`: averages over rows, and advice.
* Techniques and configuration: tables.
* The Python tools: a reference implementation and benchmarks beside the program.
* The limits on single texts, hashes and syntax checks of `validate.rs`: they decide on
  one text at a time. (The budget of the whole state is modelled.)
* A worker that rewrites `state.json` into another valid state or damages
  `recovery.json`, and a verification command that changes the run's files.

## 6. Runs

Twelve runs, seven that pass and five that find a disagreement. Between them the
passing runs fire every action. `CHECK_DEADLOCK FALSE` throughout:
every one of these systems may stop, because commands, attempts or edits are
bounded, or because a run is complete or blocked.

| run | bounds | shows |
|---|---|---|
| `engine_faults` | 2 processes, 3 attempts, 2 per revision, 2 faults, 3 contents of which git tells 2 apart, fairness | eight properties of stepping and recovering, among them the refinement of `RunContract` and that a blocked run that loads is opened by recovering |
| `engine_damage` | 2 processes, 3 attempts, cap of 2, usage known or not, every kind of edit, a reader; either 1 fault, or damage to the intent and the run's files and cache probes | observation and state agree; the cap; a damaged intent still blocks; reports are whole |
| `coding_plan` | all plans of 3 tasks in 2 classes, packets of 2, 4 revisions, answers of up to 2 ids, any verdict, states of 6 entries | order of tasks, packets never run out, packet rules and state limits fit, refinement of `TaskBoard` |
| `coding_open` | no plan; all flags; 3 ids, 2 decisions, lists of 2 and 1 entries, 3 revisions | compaction keeps the history; completion needs its own check |
| `monitor` | 2 processes, 3 platforms, 2 places of the program, 2 faults, 3 changes of mind or of the logs, fairness | baseline kept, disable sticks, a repeated command gets its wish, refinement of `OwnedJob` |
| `provider_call` | prompt of 2 units, pipes of 1, output limit 2, 3 writes per stream, failing reads, fairness of the caller | no circular wait, answers are whole, the call returns or is held up by a grandchild |
| `desk` | see below | the twelve scenes |
| `engine_probe` | 2 attempts, no fault | violation: a cache probe can leave a run that nobody can recover |
| `engine_retry` | 2 attempts, 1 fault | violation: a repeated `recover` gains two revisions for one attempt |
| `coding_full` | lists of 2 checks, 3 revisions | violation: a full list of checks refuses every answer |
| `engine_hidden` | 2 attempts, 3 contents of which git tells 2 apart | violation: an edit that git status does not show stops nothing |
| `provider_timeout` | as `provider_call` | violation: a grandchild holds the call beyond its timeout |

Why the bounds are enough.

*Engine.* An attempt interacts with the one before and the one
after it, through records, the base revision and the two budgets, and with
nothing further away; three attempts with a limit of two per revision reach every
budget in both ways. Two faults allow a crash in a step and one in its recovery,
or a state write whose rollback fails. Two processes are enough because a third
could only be refused by the lock. Three contents, a clean one and two that look alike,
have every relation git can have to an edit: seen, unseen, taken back; in `engine_damage`,
whose properties and actions ask for the status alone, one content for each status says
as much. The cap of two there closes a run before its three attempts do. `ObservationMatchesState` is checked with one
fault: with two (state write and rollback both fail) the code ignores the second
error and the property fails; this is listed as a hazard. Where the intent can be
damaged no process dies: with its intent deleted *and* its step dead an attempt
leaves no trace on disk, so no implementation could keep the property.

*Coding.* Three tasks give chains, forks, joins and cycles of
every length up to three; two classes split a packet, and a cap below the number
of tasks makes several packets necessary. The limits of the lists are set below
what the answers can append, so that compaction runs twice and `PacketRulesSuffice`
meets the check limit exactly at the last task (`MaxManagedChecks` is the number
of tasks, as 32 is in the code, and `MaxChecks` is smaller, as 16 is). A finished plan of
three tasks with its checks takes six entries, which is `StateBudget` in `coding_plan`: the
artifact an answer may bring makes the budget too small.

*Monitor.* Two faults interrupt an install and the removal that follows, or leave
a foreign job and a crash; two places of the program give a job of an older
installation; three changes of mind are enable, disable and enable again. One
snapshot is retained, so that the second one drops the first.

*Provider.* One unit per pipe makes every write wait; a prompt of two units needs
the child to read; three writes exceed the shared limit of two, by one stream or by
both together.

*Desk.* stores: 3 commands, 2 projects. lab: 2 names, 2 requests, clock up to 2
(a window, its end, and the second in which two windows touch), 4 commands, 2
runners. setup: 2 setups, 1 edit, a last line without end; three setups were
checked as well. logs: 4 lines, 2 times, 2 projects, 2 totals (a repetition across a
cutoff needs three lines). index: 2 scans, 2 lines. cycle: all dependencies among
up to 3 tasks. create: 2 processes, 3 commands, 2 steps. ledger: 2 attempts,
counters up to 3 (every sum of two overflows or not). claims: one claim, one
artifact, every kind of evidence, 3 revisions: verified, disputed, retired. init: 2
inits, 1 edit, no rules or an old block. baseline: 2 inits, 1 request of four forms, 3 seconds.
waste: 4 requests of 8 kinds in 2 sessions, one malformed record, one ignored request.

Symmetry is used in `engine_damage`, `desk` and the three violation runs of the engine,
whose properties are about safety and treat processes alike. `engine_faults` runs
under `QuietSpec`, the steps of `Next` without the probes, which `Probing = FALSE`
excludes; a probe that leaves the run stuck is the finding `engine_probe`.

Fairness. *Engine* (`Fairness`): `WF(Progress(p))`: a command in progress goes on,
because file operations do not wait and the worker and the verification command run
under a timeout. This is an assumption the code does not quite keep: a grandchild may hold
a call beyond its timeout (`provider_timeout`), and then the run stays as it is until
somebody ends the command. `BlockedIsResolved` says nothing of that case.
`WF(BeginRecover)`: the operator of a blocked run calls `recover`
again, which is what `BlockedIsResolved` is about; nothing obliges anyone to start
a step. `WF(OrphanExits)`: the operator stops the old worker, as
`docs/RUNTIME.md` asks. Faults are bounded by `MaxFaults`, so they cease.
*Monitor*: `WF(Continue(p))` as above; `SF` for beginning to enable and to disable,
because the user repeats the command until it succeeds, and a check, which takes the
same lock, holds it for a moment once a day. *Provider*: `WF` for the caller, its
threads and the timer; nothing for the worker or what it leaves behind. So `CallReturns`
has two outcomes: the call ends, or a process of the worker's family holds for ever
a pipe that a thread of the caller serves (`HeldUp`); the second is the finding
`provider_timeout`.

Type invariants. Each module has one. `TypeOK` of the engine and of the coding
state is proved for all values; the others hold on the instances of the runs and are
left out of the runs, which keep their time for other questions.

### Findings

* `engine_probe`: `cache_probe` writes `recovery.json` with attempt 0
  (`engine.rs:779`); `recover` looks up that attempt and refuses
  (`engine.rs:825-828`); `step` refuses as well.
* `engine_retry`: the comment at `engine.rs:857-859` promises a deduplicating
  retry, but with a `recovery.json` the observation is applied unconditionally
  (`engine.rs:841`), so an interrupted and repeated `recover` advances the
  revision twice for one attempt.
* `coding_full`: `docs/superpowers/specs/2026-09-04-v2-stateful-runtime-design.md:279`
  says that bounded lists at their cap give way to new entries when the memory
  summary changes. `compact_visible_history` (`validate.rs:367-384`) does so for
  completed items and decisions. The list of checks is never shortened, so an
  unmanaged run that verifies every step refuses every answer once it holds 16.
* `engine_hidden`: `docs/RUNTIME.md:373-376` says that a failed attempt after which the
  repository changed blocks the run. `workspace_changed` (`engine.rs:1370`) compares HEAD
  and a digest of `git status`, so a second edit of a modified or untracked file, or
  one of an ignored file, goes unseen, and the next worker starts on top of it.
* `provider_timeout`: `README.md:149-150` calls timeouts hard limits. After the kill the
  pipe readers are joined without a limit (`provider.rs:648`), as long as any process
  that inherited a pipe holds it.

Three more places where a text and the code part are excepted in the properties named
here, at the line where it happens:

* `parsers.rs:308-309` says that deduplication with a cutoff stays identical to an
  unfiltered scan. The id of a damaged line before the cutoff is kept
  (`parsers.rs:307-312`), while an unfiltered scan drops that line without its id; a
  later line of the same message is then counted by the one and lost by the other.
  `ScopedScansAgree` asks for `SinceLikeUnfiltered` only of logs without damaged lines.
* `verdictcmd.rs:23-29` describes one gate, shared by `verdict` and `init`, that withholds
  the model above a share of malformed records. `init` asks it before the requests of
  ignored projects are removed (`initcmd.rs:158`), `verdict` afterwards.
  `VerdictIsFair` excepts `init` while malformed records are disclosed and a project is
  ignored.
* `docs/HANDOFF-CODEX.md:16-18` says that the upgrade of a v1 block preserves the
  surrounding file. It takes everything up to the next `## ` heading, or to the end of
  the file (`initcmd.rs:74-78`), with what the user wrote there. `InitRoundTrips` asks of
  an upgrade only that what is before the block stays.

## 7. Proofs

`RunEngineProofs` proves, for all processes, budgets, caps, kinds of edits and
numbers of faults, from `EngineAssumption` (types of the constants only):

* `TypeCorrect`: `Spec => []TypeOK`. With the types goes the finiteness of the
  attempt directory, because attempt numbers are computed from its cardinality.
* `TerminalStaysFinal`: `Spec => TerminalIsFinal` (no step leaves a terminal
  status), from the inductive `RunInv`:
  the lock holder is the only command at work (`Mutex`); records are numbered
  1..n and everything unrecorded holds n + 1 (`Numbering`); an intent beside a
  command at work is that command's (`IntentOfJob`); whatever may still become a
  revision was started while the run was running (`StatusStands`). The last part
  is why the theorem needs more than the guards: a recovery is allowed on a
  complete run and must find there only attempts it does not apply.
* `LedgerStaysHistory`: `Spec => []LedgerIsHistory`, from `RunInv` and `History`
  (an unrecorded attempt starts at or after what every record is credited with).
* `NoDispatchLost`: `Spec => []NoLostDispatch` if no worker deletes the intent,
  from `RunInv` and `Accounted` (a step keeps its intent until its record exists,
  a recovery removes only what has a record).

`RunEngineSafetyProofs` builds on it, again for all values of the constants. Three of
its six properties hold under two provisos:

* `OneWorkerAtATime`: `Spec => []NoDispatchOverLiveWorker`, from `Alone`: a living
  worker is the one the intent names, the intent is not yet applied, and only the
  step that waits for the worker is past its recovery guards.
* `NoWorkerOverUnacceptedEdits`: `Spec => []NoDispatchOverUnacceptedEdits`, from
  `EditsBlock` and `ShownIsAccepted`: a status that differs from that of the accepted
  content keeps an intent or a recovery record on disk, until then a recovery may not
  write a record that clears it, and what a step compares with is the status of the
  accepted content. `Contents` and `GitShows` are any set and any function on it.
* `EditsSeenWhereGitTells`: `Spec => []EditsAreSeen`, if `GitShows` is one to one besides:
  what the documents promise holds where git shows every change. `engine_hidden` shows
  that the condition is needed.

The provisos are needed. A worker that deletes the intent, and whose step then
dies, leaves nothing on disk that a later step could see. And `recover` cannot
tell whether the old worker still runs: docs/RUNTIME.md:387 asks the operator to
"stop any old worker before recovering" (`StopsOldWorker`).

The other three:

* `BudgetsAreKept`: `Spec => []BudgetsHold`, without any proviso, from `Budgets`: the
  records fit `max_steps` and `max_attempts_per_revision` with room for the one
  attempt that is not recorded yet, whether its intent stands or a command still
  carries it. What `step` checks before it writes the intent must still be so when
  the record is written; the lock, and the numbering of attempts, see to that.
* `CapIsKept`: `Spec => []CapHolds`, without any proviso, from `Cap`: a step on its
  way to a dispatch stays admitted, because nobody else writes records meanwhile.
* `DamageIsSeen`: `Spec => []DamageHidesNothing`, if the two provisos hold *or*
  `MaxFaults = 0`. The second case is an invariant of its own (`Attended`,
  `EditsNoted`): without a crash a worker may delete or falsify its intent in any
  way, since the step that started it lives to compare.

`RunEngineContractProofs` proves what operators and readers rely on:

* `PromptsArePaired`: `Spec => []ObservationMatchesState` under the two provisos, from
  `Paired`: while `state.json` and `observation.txt` disagree, a recovery record or an
  intent whose attempt gained no revision keeps the run from stepping.
* `RecoveryIsAccepted`: `Spec => []NeverStuck`, which speaks of runs that load, if no
  worker alters or garbles its intent and nobody probes the cache, from `Recoverable`: intent, recovery record and
  attempt record agree as far as they exist, after any number of faults. The run
  `engine_probe` shows that the proviso on probes is needed.
* `RunsKeepTheContract`: `Spec => ImplementsContract`, if no worker deletes the intent
  and nobody probes. Each action is shown to be one move of `RunContract` or a stutter
  under the refinement mapping, one lemma per action that writes.
* `ReportsShowOneMoment`: `InspectSpec => ReportsAreWhole` under the two provisos, from
  `Undisturbed`: what a reader that holds the lock has read is still so, but for the
  observation of a run whose pending attempt may have a worker alive.

Each invariant is shown to hold initially, to be kept by every action (one lemma
per group of actions, one step per action), and to imply the property. The
candidates were checked by TLC before they were proved.

`CodingStateProofs` proves eight results for all manifests, plans, limits and
answers, from `PlanAssumption` and `StateAssumption` (types of the constants, valid
manifests, finitely many claims). Only `PacketsAreTaken` assumes a relation between
the limits.

* `TypeCorrect`: `Spec => []TypeOK`.
* `HistoryKept`: `Spec => []NothingForgotten`; inductive with the types, by the
  algebra of splitting and concatenating lists (`SplitList`, `Moved`).
* `NeverWithoutPacket`: `Spec => []AlwaysReady`, from `PlanInv`: the queue of a
  managed run is what its plan has left, and is empty exactly when the run is
  complete or blocked. That a task is *ready* then follows from acyclicity.
* `TasksInOrder`: `Spec => []DependenciesFirst`: a prefix of a packet is ordered
  (`PrefixInOrder`), an ordered history may grow by it (`OrderedGrows`), and what
  the state shows as done is part of the history (`HistoryKept`).
* `CompletionEarned`: `Spec => []CompleteIsEarned`, from `CheckInv` and `PlanInv`.
* `BoardImplemented`: `Spec => ImplementsBoard`, the refinement of `TaskBoard`. The
  key is that `validate_plan_state` leaves compaction nothing to remove in a
  managed run: an answer whose compaction would hide a completed task is refused.
* `KnowledgeStands`: `Spec => ClaimsMoveForward`, from what the merge, the ledger rules
  and the compaction do to each claim (`ClaimMoves`).
* `PacketsAreTaken`: `Spec => []PacketRulesSuffice`, which excepts answers that lead to a
  state beyond its byte budget, under `PlansFit`, which says that the
  limits on queue, completed tasks and managed checks are no smaller than the limit
  on tasks of a plan (64, 32 and 32 against 32, validate.rs and model.rs; the run
  `coding_plan` satisfies it). The invariant is `RoomLeft`: the state of a managed run
  is valid, and while it runs it has at most one check for each completed task.
  Without `PlansFit` it is false: TLC finds a correct packet refused in `coding_plan` if
  `MaxCompletedItems` is 2 for its plans of three tasks.

`MonitorProofs` proves, for any number of commands and executables, from
`ScheduleAssumption` (the marks for "nothing" and "somebody else's" are no program's
name), with the invariant `MonInv`: a command in progress holds the lock (`Mutex`); it
has in memory what `state.json` holds until its last write (`Current`); every file
and job of ours is of the program the manifest names (`Covered`); and what `install`
and `remove` found when they looked is still so (`Held`).

* `MonitorTyped`: `Spec => []TypeOK`.
* `BaselineStays`: `Spec => BaselineKept`, and `DisabledStaysOff`: `Spec => DisableSticks`;
  both need that a check or an enable does not write back an older state.
* `JobIsOwned`: `Spec => ImplementsOwnedJob`, the refinement of `OwnedJob`: every write
  of a file, of the manifest or to the scheduler is one `Claim`, `Put`, `TakeBack`,
  `Release` or `Others`, or a stutter, on each of the three platforms.

`ProviderCallProofs` proves, for every prompt, output, pipe and limit:

* `PipesAreServed`: `Spec => []NoCircularWait`, from `Phases` (where the caller is, the
  child is too) and `Streaming` (a reader ends only when nobody can write any more,
  the writer only when the prompt is out).
* `AnswersAreWhole`: `Spec => []AnswerIsWhole`, from `Streaming` (what was written is in
  the pipe or collected, unless a read failed or something was dropped), `Verdict` (success is given for a
  capture that does not change any more) and `Samples` (a probe's two calls).
* `CallTyped`: `Spec => []TypeOK`.

`StoreProofs` proves nine results for any number of processes, workers, commands, projects,
experiments, requests, seconds, scans, lines of a log and attempts, and for every
plan, from `CreateAssumption`, `LoopAssumption`, `StoresAssumption`, `LabAssumption`,
`BaselineAssumption`, `LogAssumption`, `ScopeAssumption` and `LedgerAssumption` (nobody is
not a process; clocks are numbers; a project has a name; counters are numbers that
fit their width; the plans the loop is given passed the checks before it).

* `CreatedRunsAreWhole`: `CreateSpec => []RunsAreWhole`, from `OneMaker` (who makes or
  cleans up the directory is alone and finds nothing but its own entries),
  `Authored` (one author; what was reported as created stays) and `Entitled` (who
  lets workers loose was told so). `create_dir`, which fails for all but one, is
  all that keeps the processes apart.
* `CycleCheckRight`: `LoopSpec => []LoopFindsCycles`: `reject_cycles` decides
  acyclicity for every plan in every order of declaration. The invariant says that
  what is marked can be worked off (`WorkedOff`), is closed under dependencies
  (`Marked`), and that a pass which marked nothing so far has left behind only
  tasks that wait (`PassedOver`); `Cardinality(completed) = before` then means what
  the code takes it for.
* `StoresLoseNothing`: `StoresSpec => []NothingOverwritten`, from `Fresh`: who is about
  to replace a file holds its lock, and has read what the file still holds.
* `WindowsNeverOverlap`: `LabSpec => []NoRequestOnBothSides`, from `AllSound`: what a
  record counts lies in its window, in the store and in every copy a runner has in
  memory. A request that is logged later was counted nowhere. The proof needs
  neither the lock nor a clock that only goes forward.
* `BaselineSplitsRequests`: `BaselineSpec => []BaselineSplits`, from `Counting` (an init
  that scans has seen everything it keeps that was sent before it began, of the sources
  it has scanned, and one that may still write began before the first baseline was
  written) and `Frozen` (the same of the baseline). The statement goes by the form of a
  record: one with a timestamp is on neither side only if it was sent while init
  counted, one without only if it was sent after the count began, one of an ignored
  project only if it was sent before the baseline; a malformed one always is. This one
  needs the clock to go forward.
* `TimeIsCutOnce`: `LabSpec /\ BaselineSpec => []WindowsAreApart`, the two together.
* `ScopedScans`: `LogSpec => []ScopedScansAgree`. A scan of one scope and the scan of
  everything are compared line by line (`ScansAgree`): both are on the same project
  and remember the same previous usage, whatever is in scope, and the one has
  counted what the other counted of its scope. For Claude the theorem has the
  property's own proviso that no line is damaged.
* `SkippedIsEmpty`: `ScanSpec => []IndexHidesNothing`, from `ScanInv`: an entry of the
  index, on disk or in the memory of a scan, knows the project of every turn and a
  time no earlier than any usage up to its fingerprint (`Honest`). It may say too
  much, since the file may have grown between the fingerprint and the reading, or be
  overwritten by an older entry; never too little. What is counted is in a project
  that some turn names (`CountedInScope`), so an entry that covers the whole file
  hides nothing.
* `LedgerCountsAreTrue`: `LedgerSpec => []CountsAreTrue`, the first of the three parts of
  `NumbersAreTrue`, for counters of every width and any number of attempts. A checked
  sum is the exact one or absent (`CheckedIs`), a saturating one the exact one or the
  greatest number (`SaturatingIs`), and a counter that somebody left out is missing in
  the sum (`SaturatingMisses`). `LedgerInv` says how the uncached part of a record
  follows from its other counters; without it the input of a total would not be the true
  one.

`DeskProofs` proves ten results for any number of setups, inits, edits and requests, every
text, every threshold and every width of the counters, from `SetupAssumption`,
`RulesAssumption`, `FindingsAssumption` and `VerdictAssumption` (a text setup has not seen
yet holds no block of its own; a file of rules consists of lines; thresholds are
numbers, and a session counts as long after two requests at least, as `config.rs:105`
sees to; a sample has at least one request, as `verdictcmd.rs:332` asks).

* `TextIsKept`: `SetupSpec => UserTextKept`. The plan of one file is examined token by
  token: putting a block in and taking it out move no token of the user's (`PutAdds`,
  `CutDrops`), but a removal may take a line end of the user's and leave one of its own
  (`SettledKeeps`). That the number of line ends comes out right needs the invariant
  `Paired`: a text holds as many added line ends as its blocks came with, edited or not.
  `SetupInv` says so of every file and every plan, and that a file between check and write
  still says what was read, as far as the user is concerned, unless its setup was
  overtaken by an edit or by another overtaken setup; only the write of an overtaken
  setup is excepted.
* `SetupTyped`: `SetupSpec => []SetupTypeOK`.
* `InstallsRoundTrip`: `SetupSpec => []InstallRoundTrips`, and with it the first half of
  `BlocksRoundTrip`. `SetupInv` is not enough. Setup takes a line end before and after each
  of its blocks with it when it removes one; two blocks that shared a line end would
  not both come out again. `SpacedInv` says that between two blocks there are always two
  line ends that setup added, in every file and every plan, whatever the user put
  there too (`PutSpaced`, `EditSpaced`); then what is cut is what was put, also from under
  another block (`CutPut`, `CutPutPut`).
* `InitsRoundTrip`: `InitSpec => []InitRoundTrips`, the second half. A text that init takes
  is split into what is before its block, the block and what is behind (`Framed`),
  neither part holding a marker; another block between the same parts is framed
  again (`FramedAgain`), and the first version's block reaches up to the next heading
  or the end. `InitInv` adds what an init between reading and writing knows: texts that
  were clear when they were read, even if the user edited the files since.
* `InitTyped`: `InitSpec => []InitTypeOK`.
* `BlocksGoRound`: `DeskSpec => []BlocksRoundTrip`, both halves on the whole desk.
* `ImpactBounded`: `WasteSpec => []ImpactIsBounded`. What a detector claims of a request is
  at most what the request sent (`ClaimsFit`), and the headline takes of each request the
  largest of the five claims; sums along the log then compare term by term, also
  when they saturate. That later requests take nothing back needs more: the ranks,
  the predecessor and the sum of the first requests of an old request's session are
  what they were (`OldRanks`, `OldPrevious`, `OldSums`), and the average that the
  context tax is measured against is fixed when it claims its first request
  (`OldExcess`).
* `VerdictsAreFair`: `WasteSpec => []VerdictIsFair`. The rank is shown to number the requests
  of a session without gaps (`RankIs`, `RanksDiffer`, `RowsAre`); so the sum of a session
  row by row is its sum along the log (`SessionSum`), and the sum over long sessions is
  the sum over their requests (`LongSessions`). Without overflow nothing saturates (`Clean`) and both are
  the true sums. That a session whose requests never grow is not counted as growing
  is a statement about averages (`Averages`, `AveragesUp`): the first m of T numbers that never rise
  sum to at least m/T of all, by induction in whole numbers. And what `init` prints
  is behind the same conditions as what `verdict` says, because a session is included
  only if it is long, and because without ignored requests, or without malformed records,
  the two gates agree.
* `NumbersTrue`: `DeskSpec => []NumbersAreTrue`: these two and `LedgerCountsAreTrue` on the
  whole desk.
* `ClaimsStand`: `DeskSpec => ClaimsMoveForward`, from `KnowledgeStands`, which `MCDesk`
  instantiates with the definitions of its scene.

The scans, what is kept of a text (`Only`) and the sums (`SumOf`, `Total`) are recursive
functions along the lines of a log, the tokens of a text or the attempts of a run. What
they compute is proved by induction on the line, in the form of the least counterexample
(`LeastNat`, `SetInduction`, from the library's `WFMin`), which needs no theorem with an
operator as a parameter; `ReadsExist` and `ReadingSteps` derive the equations of the
recursive function first.

Only model-checked: liveness (and anything with ENABLED), that is `BlockedIsResolved`,
`WishGranted` and `CallReturns`, which the prover does not support. Every other property
of a passing run is stated by a theorem. The five disagreements of section 6 are
counterexamples and have nothing to prove. No module declares a RECURSIVE operator.

## 8. Running

    tlc -config RunEngineFaults.cfg MCRunEngine
    tlc -config RunEngineDamage.cfg MCRunEngineDamage
    tlc -config RunEngineHidden.cfg MCRunEngine
    tlc -config CodingPlan.cfg MCCodingState
    tlc -config CodingOpen.cfg MCCodingState
    tlc -config Monitor.cfg MCMonitor
    tlc -config ProviderCall.cfg MCProviderCall
    tlc -config ProviderTimeout.cfg MCProviderCall
    tlc -config Desk.cfg MCDesk
    tlapm RunEngineProofs.tla
    tlapm RunEngineSafetyProofs.tla
    tlapm RunEngineContractProofs.tla
    tlapm CodingStateProofs.tla
    tlapm MonitorProofs.tla
    tlapm ProviderCallProofs.tla
    tlapm StoreProofs.tla
    tlapm DeskProofs.tla

The longest runs are `provider_call` (about 1,470,000 states), `engine_faults` (about
920,000) and `desk` (about 270,000), a few minutes each; the proofs take a few
minutes a module, `DeskProofs` about fifteen.
