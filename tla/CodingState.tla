---------------------------- MODULE CodingState ----------------------------
(***************************************************************************)
(* The bounded coding state of one run and what an answer of a worker may  *)
(* do to it: engine.rs between the provider's answer and the save, with    *)
(* packet.rs and validate.rs behind it.  One action is one committed       *)
(* transition.  An answer that any rule refuses leaves the state as it is, *)
(* a stuttering step here; what a refusal costs, and how a transition gets *)
(* to disk, is RunEngine.                                                  *)
(*                                                                         *)
(* The byte budget of the state counts entries, each as one, whatever they *)
(* say.  Left out because no property tells it apart: texts and their own  *)
(* limits, focus and active files, hashes, the wording of blockers.        *)
(***************************************************************************)
EXTENDS WorkPlan

CONSTANTS
  Manifests,        \* the manifests runs are created with
  Decisions,        \* ids of decisions
  Paths,            \* paths of artifacts
  Claims,           \* ids of the epistemic ledger
  MaxQueueItems, MaxCompletedItems, MaxDecisions, MaxArtifacts,
  MaxChecks, MaxManagedChecks, MaxEpistemicItems, MaxEvidence,
  StateBudget,      \* state_budget_bytes of the manifests
  Proposals,        \* bound: the queues an answer may propose
  MaxAdd,           \* bound: ids one answer appends to a list
  MaxUpsert,        \* bound: claims one answer writes
  MaxRevision       \* bound: revisions of one behaviour

(* A manifest without a plan has no tasks in it.  Managed runs verify every *)
(* answer and cannot complete unverified.                                   *)
Manifest == [plan : Plan, command : BOOLEAN, everyStep : BOOLEAN,
             unverified : BOOLEAN]

Managed(m) == m.plan.tasks # << >>

ValidManifest(m) ==
  Managed(m) => ValidPlan(m.plan) /\ m.command /\ ~m.unverified

ASSUME StateAssumption ==
  /\ Manifests \subseteq {m \in Manifest : ValidManifest(m)}
  /\ Proposals \subseteq SUBSET Ids /\ IsFiniteSet(Claims)
  /\ \A n \in {MaxQueueItems, MaxCompletedItems, MaxDecisions, MaxArtifacts,
               MaxChecks, MaxManagedChecks, MaxEpistemicItems, MaxEvidence,
               StateBudget, MaxAdd, MaxUpsert, MaxRevision} : n \in Nat
  /\ \A m \in Manifests : Cardinality(PlanIds(m.plan)) <= StateBudget

VARIABLES
  manifest,  \* manifest.json, immutable
  state,     \* the coding state
  observed,  \* observation.txt is not empty
  archive,   \* what the archive files hold, in the order they were written;
             \* of claims only their number
  reported   \* history: every id an accepted answer appended

vars == <<manifest, state, observed, archive, reported>>

Statuses == {"running", "complete", "blocked"}
Outcomes == {"continue", "complete", "blocked"}
Verdicts == {"none", "passed", "failed"}

(* What a claim may cite: a bounded observation, a check by its revision, an *)
(* artifact by its path.                                                     *)
Evidence == [kind : {"step", "latest"}, of : {0}]
            \cup [kind : {"check"}, of : Nat]
            \cup [kind : {"artifact"}, of : Paths]
Standings == {"hypothesis", "observed", "verified", "disputed"}
Item == [status : Standings, evidence : SUBSET Evidence]
NoItem == [status |-> "none", evidence |-> {}]

Check == [rev : Nat, passed : BOOLEAN]

State ==
  [rev : Nat, status : Statuses, queue : SUBSET Ids, completed : Seq(Ids),
   decisions : Seq(Decisions), blocked : BOOLEAN, checks : Seq(Check),
   artifacts : SUBSET Paths, claims : [Claims -> Item \cup {NoItem}],
   archiveCount : Nat]

(* Type invariant: the coding state, the archive and the history. *)
TypeOK ==
  /\ manifest \in Manifests
  /\ state \in State
  /\ observed \in BOOLEAN
  /\ archive \in [completed : Seq(Ids), decisions : Seq(Decisions),
                  claims : Nat]
  /\ reported \in [completed : Seq(Ids), decisions : Seq(Decisions)]

Elems(s) == {s[i] : i \in DOMAIN s}
Distinct(s) == \A i, j \in DOMAIN s : s[i] = s[j] => i = j
Known(claims) == {c \in Claims : claims[c] # NoItem}

Init ==
  /\ manifest \in Manifests
  /\ state = [rev |-> 0, status |-> "running", queue |-> PlanIds(manifest.plan),
              completed |-> << >>, decisions |-> << >>, blocked |-> FALSE,
              checks |-> << >>, artifacts |-> {},
              claims |-> [c \in Claims |-> NoItem], archiveCount |-> 0]
  /\ observed = FALSE
  /\ archive = [completed |-> << >>, decisions |-> << >>, claims |-> 0]
  /\ reported = [completed |-> << >>, decisions |-> << >>]

-----------------------------------------------------------------------------
(* What a worker may answer. *)
Lists(S) == UNION {[1..n -> S] : n \in 0..MaxAdd}
Queues == [some : {FALSE}, ids : {{}}] \cup [some : {TRUE}, ids : Proposals]

Citable ==
  {E \in SUBSET ([kind : {"step", "latest"}, of : {0}]
                 \cup [kind : {"check"}, of : 1..MaxRevision]
                 \cup [kind : {"artifact"}, of : Paths]) :
     Cardinality(E) <= MaxEvidence}

Upserts ==
  UNION {[D -> [status : Standings, evidence : Citable]] :
           D \in {D \in SUBSET Claims : Cardinality(D) <= MaxUpsert}}

Answers(completed) ==
  [outcome : Outcomes, resummarised : BOOLEAN, queue : Queues,
   completed : {completed}, decisions : Lists(Decisions),
   blockers : {"keep", "clear", "set"}, artifacts : SUBSET Paths,
   upsert : Upserts, retire : SUBSET Claims]

-----------------------------------------------------------------------------
(* The frozen command runs for every answer of a managed run, when the       *)
(* manifest says so, and for a requested completion; without a command there *)
(* is no check.                                                              *)
MustVerify(m, answer) ==
  /\ m.command
  /\ Managed(m) \/ m.everyStep \/ answer.outcome = "complete"

(* The answer's delta and the check, appended and replaced. *)
Merged(m, s, answer, verdict) ==
  [s EXCEPT
     !.rev = @ + 1,
     !.queue = IF Managed(m) THEN RemainingQueue(m.plan,
                                    Elems(s.completed) \cup Elems(answer.completed))
               ELSE IF answer.queue.some THEN answer.queue.ids ELSE @,
     !.completed = @ \o answer.completed,
     !.decisions = @ \o answer.decisions,
     !.blocked = answer.blockers = "set" \/ (answer.blockers = "keep" /\ @),
     !.artifacts = @ \cup answer.artifacts,
     !.checks = IF verdict = "none" THEN @
                ELSE Append(@, [rev |-> s.rev + 1, passed |-> verdict = "passed"])]

Passed(s, r) == \E i \in DOMAIN s.checks : s.checks[i] = [rev |-> r, passed |-> TRUE]

(* Evidence that the state itself can show. *)
Stands(s, e) ==
  /\ e.kind = "check" => Passed(s, e.of)
  /\ e.kind = "artifact" => e.of \in s.artifacts

MayBecome(prior, next) ==
  \/ prior \in {"none", "hypothesis"}
  \/ prior = "observed" /\ next \in {"observed", "verified", "disputed"}
  \/ prior = "verified" /\ next \in {"verified", "disputed"}
  \/ prior = "disputed" /\ next = "disputed"

Supports(status, evidence) ==
  CASE status = "hypothesis" -> TRUE
    [] status = "observed" -> \E e \in evidence : e.kind \in {"step", "latest"}
    [] status = "verified" -> \E e \in evidence : e.kind \in {"check", "artifact"}
    [] status = "disputed" -> evidence # {}

(* The ledger rules, on the state the delta was merged into: first what the  *)
(* answer writes, then what it retires, and no claim in both.                *)
UpsertAccepted(s, answer, latest) ==
  \A c \in DOMAIN answer.upsert :
    LET item == answer.upsert[c] IN
    /\ MayBecome(s.claims[c].status, item.status)
    /\ \A e \in item.evidence : Stands(s, e) /\ (e.kind = "latest" => latest)
    /\ Supports(item.status, item.evidence)

Upserted(s, answer) ==
  [s EXCEPT !.claims = [c \in Claims |->
     IF c \in DOMAIN answer.upsert THEN answer.upsert[c] ELSE @[c]]]

(* Mutant: ids are compared within each list only. *)
TouchedPerList(answer) == TRUE

TouchedOnce(answer) == answer.retire \cap DOMAIN answer.upsert = {}

RetireAccepted(s, answer) ==
  /\ answer.retire # {} => answer.resummarised
  /\ \A c \in answer.retire : s.claims[c].status = "disputed"

Learned(s, answer) ==
  [Upserted(s, answer) EXCEPT !.claims =
     [c \in Claims |-> IF c \in answer.retire THEN NoItem ELSE @[c]]]

(* The oldest entries beyond the visible limits leave the state. *)
Overflow(list, max) == IF Len(list) > max THEN Len(list) - max ELSE 0
Oldest(list, max) == SubSeq(list, 1, Overflow(list, max))

(* Mutant: the newest entries leave the state. *)
KeepsOldest(list, max) == SubSeq(list, 1, Len(list) - Overflow(list, max))

Visible(list, max) == SubSeq(list, Overflow(list, max) + 1, Len(list))

CompactAccepted(s, answer) ==
  \/ Overflow(s.completed, MaxCompletedItems) = 0
     /\ Overflow(s.decisions, MaxDecisions) = 0
  \/ answer.resummarised

Compacted(s, answer) ==
  [s EXCEPT
     !.completed = Visible(@, MaxCompletedItems),
     !.decisions = Visible(@, MaxDecisions),
     !.archiveCount = @ + Overflow(s.completed, MaxCompletedItems)
                        + Overflow(s.decisions, MaxDecisions)
                        + Cardinality(answer.retire)]

Current(s) == s.checks # << >> /\ s.checks[Len(s.checks)].rev = s.rev

OutcomeAccepted(m, s, outcome) ==
  /\ outcome = "blocked" => s.blocked
  /\ outcome = "complete" => s.queue = {} /\ ~s.blocked /\ (Current(s) \/ m.unverified)

(* Mutant: a check is demanded, whatever it said. *)
AnyCheckCompletes(s, outcome) == IF outcome = "continue" THEN "running" ELSE outcome

(* A requested completion whose check fails stays running. *)
StatusAfter(s, outcome) ==
  IF outcome = "complete" /\ Current(s) /\ ~s.checks[Len(s.checks)].passed
  THEN "running"
  ELSE CASE outcome = "continue" -> "running"
         [] outcome = "blocked" -> "blocked"
         [] outcome = "complete" -> "complete"

(* What every load and every save demand of a state. *)
ValidPlanState(plan, s) ==
  /\ Elems(s.completed) \subseteq PlanIds(plan)
  /\ s.queue = RemainingQueue(plan, Elems(s.completed))
  /\ s.status = "complete" => Cardinality(Elems(s.completed)) = Len(plan.tasks)

(* Mutant: one limit for all runs. *)
LegacyLimit(m) == MaxChecks

CheckLimit(m) == IF Managed(m) THEN MaxManagedChecks ELSE MaxChecks

WithinLimits(m, s) ==
  /\ Cardinality(s.queue) <= MaxQueueItems
  /\ Len(s.completed) <= MaxCompletedItems
  /\ Len(s.decisions) <= MaxDecisions
  /\ Len(s.checks) <= CheckLimit(m)
  /\ Cardinality(s.artifacts) <= MaxArtifacts
  /\ Cardinality(Known(s.claims)) <= MaxEpistemicItems

(* The serialized state: it grows with every list, also with the checks and  *)
(* artifacts, which nothing takes out again.                                *)
Size(s) ==
  Cardinality(s.queue) + Len(s.completed) + Len(s.decisions) + Len(s.checks)
  + Cardinality(s.artifacts) + Cardinality(Known(s.claims))

Fits(s) == Size(s) <= StateBudget

ValidState(m, s) ==
  /\ WithinLimits(m, s) /\ Fits(s)
  /\ Distinct(s.completed) /\ s.queue \cap Elems(s.completed) = {}
  /\ Distinct(s.decisions)
  /\ \A c \in Known(s.claims) :
       /\ \A e \in s.claims[c].evidence : Stands(s, e)
       /\ Supports(s.claims[c].status, s.claims[c].evidence)
  /\ s.status = "complete" => s.queue = {} /\ ~s.blocked
  /\ s.status = "blocked" => s.blocked
  /\ Managed(m) => ValidPlanState(m.plan, s)

-----------------------------------------------------------------------------
(* The states between the merge and the save. *)
Full(m, s, answer, verdict) == Learned(Merged(m, s, answer, verdict), answer)

After(m, s, answer, verdict) ==
  [Compacted(Full(m, s, answer, verdict), answer) EXCEPT
     !.status = StatusAfter(Merged(m, s, answer, verdict), answer.outcome)]

(* The rules of apply_delta: an artifact is listed once, and every rule      *)
(* holds at its point of the way from the old state to the new.              *)
DeltaAccepted(m, s, latest, answer, verdict) ==
  LET merged == Merged(m, s, answer, verdict) IN
  /\ s.status = "running"
  /\ answer.artifacts \cap s.artifacts = {}
  /\ UpsertAccepted(merged, answer, latest)
  /\ TouchedOnce(answer)
  /\ RetireAccepted(Upserted(merged, answer), answer)
  /\ CompactAccepted(merged, answer)
  /\ OutcomeAccepted(m, merged, answer.outcome)
  /\ ValidState(m, After(m, s, answer, verdict))

(* The rules of step for a managed run: a prefix of the packet the worker    *)
(* was given, and a check that passed.                                       *)
PacketAccepted(m, s, answer, verdict) ==
  Managed(m) =>
    verdict = "passed" /\ ValidResponse(m.plan, Elems(s.completed), answer)

Commit(answer, verdict) ==
  LET full == Full(manifest, state, answer, verdict) IN
  /\ verdict # "none" <=> MustVerify(manifest, answer)
  /\ PacketAccepted(manifest, state, answer, verdict)
  /\ DeltaAccepted(manifest, state, observed, answer, verdict)
  /\ state' = After(manifest, state, answer, verdict)
  /\ archive' =
       [completed |-> archive.completed \o Oldest(full.completed, MaxCompletedItems),
        decisions |-> archive.decisions \o Oldest(full.decisions, MaxDecisions),
        claims |-> archive.claims + Cardinality(answer.retire)]
  /\ reported' = [completed |-> reported.completed \o answer.completed,
                  decisions |-> reported.decisions \o answer.decisions]
  /\ observed' = TRUE
  /\ UNCHANGED manifest

(* One accepted answer, up to the save of its transition. *)
Step ==
  /\ state.status = "running" /\ state.rev < MaxRevision
  /\ \E completed \in Lists(Ids) :
       /\ Managed(manifest) =>
            AcceptsPrefix(manifest.plan, Elems(state.completed), completed)
       /\ \E answer \in Answers(completed), verdict \in Verdicts :
            Commit(answer, verdict)

(* `run recover` applies the operator's observation, which may be empty, and *)
(* touches nothing else.  It finds only running states here: see            *)
(* RunEngine!TerminalIsFinal.                                                *)
Recover ==
  /\ state.status = "running" /\ state.rev < MaxRevision
  /\ state' = [state EXCEPT !.rev = @ + 1, !.status = "running"]
  /\ observed' \in BOOLEAN
  /\ UNCHANGED <<manifest, archive, reported>>

Next == Step \/ Recover

Spec == Init /\ [][Next]_vars

-----------------------------------------------------------------------------
Report == reported.completed

(* No task is accepted before the tasks it depends on, though one packet may *)
(* hold both and only a prefix of it be accepted.                            *)
DependenciesFirst ==
  Managed(manifest) =>
    \A k \in DOMAIN Report : \E i \in DOMAIN manifest.plan.tasks :
      /\ manifest.plan.tasks[i].id = Report[k]
      /\ manifest.plan.tasks[i].deps \subseteq {Report[j] : j \in 1..(k - 1)}

(* A managed run that is still running always has a task to begin a packet   *)
(* with: it never waits for a dependency that cannot come, and never runs on *)
(* with nothing left.                                                        *)
AlwaysReady ==
  Managed(manifest) /\ state.status = "running" =>
    Candidates(manifest.plan, Elems(state.completed), << >>) # {}

(* An answer that the packet rules take, verified, is refused after the fact *)
(* for one reason only, the byte budget of the state (validate_state): the   *)
(* rules on packets and the other limits of the state fit together, at every *)
(* size of plan, after any answers and recoveries.                           *)
PacketRulesSuffice ==
  Managed(manifest) /\ state.status = "running" =>
    \A completed \in Lists(Ids), outcome \in Outcomes :
      LET answer == [outcome |-> outcome, resummarised |-> FALSE,
                     queue |-> [some |-> FALSE, ids |-> {}],
                     completed |-> completed, decisions |-> << >>,
                     blockers |-> IF outcome = "blocked" THEN "set" ELSE "clear",
                     artifacts |-> {}, upsert |-> << >>, retire |-> {}]
      IN  /\ PacketAccepted(manifest, state, answer, "passed")
          /\ Fits(After(manifest, state, answer, "passed"))
          => DeltaAccepted(manifest, state, observed, answer, "passed")

(* Compaction moves entries, it never drops, doubles or reorders one, and    *)
(* the count in the state is the number of entries in the archive.           *)
NothingForgotten ==
  /\ archive.completed \o state.completed = reported.completed
  /\ archive.decisions \o state.decisions = reported.decisions
  /\ state.archiveCount =
       Len(archive.completed) + Len(archive.decisions) + archive.claims

(* A run completes only at a revision whose own check passed, unless it has  *)
(* no command and may do without; a managed run only with every task.        *)
CompleteIsEarned ==
  state.status = "complete" =>
    /\ manifest.command \/ ~manifest.unverified => Passed(state, state.rev)
    /\ PlanIds(manifest.plan) \subseteq Elems(Report)

(* A claim leaves the ledger only from a dispute that an earlier answer      *)
(* recorded, and a verified or disputed claim never falls back.              *)
ClaimsMoveForward ==
  [][\A c \in Claims :
       LET old == state.claims[c].status
           new == state'.claims[c].status
       IN  /\ old # "none" /\ new = "none" =>
                old = "disputed" /\ archive'.claims > archive.claims
           /\ old = "verified" => new \in {"verified", "disputed"}
           /\ old = "disputed" => new \in {"disputed", "none"}
    ]_vars

(* docs/superpowers/specs/2026-09-04-v2-stateful-runtime-design.md:279: a    *)
(* list at its cap gives way to new entries when the answer also rewrites    *)
(* the memory summary.  Stated for the simplest answer: carry on.            *)
FullListsGiveWay ==
  ~Managed(manifest) /\ state.status = "running" =>
    \E verdict \in Verdicts :
      LET answer == [outcome |-> "continue", resummarised |-> TRUE,
                     queue |-> [some |-> FALSE, ids |-> {}],
                     completed |-> << >>, decisions |-> << >>,
                     blockers |-> "keep", artifacts |-> {},
                     upsert |-> << >>, retire |-> {}]
      IN  /\ verdict # "none" <=> MustVerify(manifest, answer)
          /\ DeltaAccepted(manifest, state, observed, answer, verdict)
=============================================================================
