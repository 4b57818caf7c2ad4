------------------------- MODULE CodingStateProofs -------------------------
(***************************************************************************)
(* Theorems about CodingState, for every set of manifests, every limit and *)
(* every answer.                                                           *)
(***************************************************************************)
EXTENDS CodingStateRefinement, SequenceTheorems, FiniteSetTheorems, TLAPS

(* An answer as the types of its parts. *)
Answer ==
  [outcome : Outcomes, resummarised : BOOLEAN,
   queue : [some : BOOLEAN, ids : SUBSET Ids],
   completed : Seq(Ids), decisions : Seq(Decisions),
   blockers : {"keep", "clear", "set"}, artifacts : SUBSET Paths,
   upsert : UNION {[D -> Item] : D \in SUBSET Claims}, retire : SUBSET Claims]

(* What an answer appends is a list. *)
LEMMA ListsAreSeqs == ASSUME NEW S, NEW l \in Lists(S) PROVE l \in Seq(S)
BY StateAssumption DEF Lists

(* The claims an answer writes are items of the ledger. *)
LEMMA UpsertsTyped ==
  ASSUME NEW u \in Upserts
  PROVE  u \in UNION {[D -> Item] : D \in SUBSET Claims}
<1>1. PICK D \in SUBSET Claims :
        u \in [D -> [status : Standings, evidence : Citable]]
  BY DEF Upserts
<1>2. Citable \subseteq SUBSET Evidence
  BY StateAssumption DEF Citable, Evidence
<1>3. u \in [D -> Item]
  BY <1>1, <1>2 DEF Item
<1>. QED
  BY <1>3

(* The enumerated answers are answers. *)
LEMMA AnswersTyped ==
  ASSUME NEW completed \in Lists(Ids), NEW answer \in Answers(completed)
  PROVE  answer \in Answer /\ answer.completed = completed
<1>1. answer.queue \in [some : BOOLEAN, ids : SUBSET Ids]
  BY StateAssumption DEF Answers, Queues
<1>2. answer.upsert \in UNION {[D -> Item] : D \in SUBSET Claims}
  BY UpsertsTyped DEF Answers
<1>3. answer.decisions \in Seq(Decisions) /\ completed \in Seq(Ids)
  BY ListsAreSeqs DEF Answers
<1>. QED
  BY <1>1, <1>2, <1>3 DEF Answers, Answer

(* An overflow is a number of entries. *)
LEMMA OverflowNat ==
  ASSUME NEW S, NEW l \in Seq(S), NEW max \in Nat
  PROVE  Overflow(l, max) \in Nat
BY DEF Overflow

(* Splitting a list at its overflow neither loses nor adds an entry. *)
LEMMA SplitList ==
  ASSUME NEW S, NEW l \in Seq(S), NEW max \in Nat
  PROVE  /\ Overflow(l, max) \in 0..Len(l)
         /\ Oldest(l, max) \in Seq(S) /\ Visible(l, max) \in Seq(S)
         /\ Oldest(l, max) \o Visible(l, max) = l
         /\ Len(Oldest(l, max)) = Overflow(l, max)
         /\ Elems(Visible(l, max)) \subseteq Elems(l)
<1>. DEFINE n == Overflow(l, max)
<1>1. n \in 0..Len(l) /\ Len(l) \in Nat
  BY DEF Overflow
<1>2. /\ SubSeq(l, 1, n) \in Seq(S) /\ Len(SubSeq(l, 1, n)) = n
      /\ \A i \in 1..n : SubSeq(l, 1, n)[i] = l[i]
  BY <1>1
<1>3. /\ SubSeq(l, n + 1, Len(l)) \in Seq(S)
      /\ Len(SubSeq(l, n + 1, Len(l))) = Len(l) - n
      /\ \A i \in 1..(Len(l) - n) : SubSeq(l, n + 1, Len(l))[i] = l[n + i]
  BY <1>1
<1>4. SubSeq(l, 1, n) \o SubSeq(l, n + 1, Len(l)) = l
  <2>1. SubSeq(l, 1, n) \o SubSeq(l, n + 1, Len(l)) = SubSeq(l, 1, Len(l))
    <3>. HIDE DEF n
    <3>1. /\ 1 \in 1..(Len(l) + 1) /\ n \in (1 - 1)..Len(l)
          /\ Len(l) \in n..Len(l)
      BY <1>1
    <3>. QED
      BY <3>1, ConcatAdjacentSubSeq
  <2>. QED
    BY <2>1, SubSeqFull
<1>5. Elems(SubSeq(l, n + 1, Len(l))) \subseteq Elems(l)
  BY <1>1, <1>3 DEF Elems
<1>. QED
  BY <1>1, <1>2, <1>3, <1>4, <1>5 DEF Oldest, Visible

(* Runs are created with valid manifests only. *)
LEMMA ManifestsTyped ==
  ASSUME NEW m \in Manifests
  PROVE  m \in Manifest /\ ValidManifest(m)
BY StateAssumption

(* A plan names ids. *)
LEMMA PlanIdsTyped ==
  ASSUME NEW m \in Manifest
  PROVE  PlanIds(m.plan) \subseteq Ids
<1>1. m.plan.tasks \in Seq(Task)
  BY DEF Manifest, Plan
<1>2. \A i \in DOMAIN m.plan.tasks : m.plan.tasks[i] \in Task
  BY <1>1
<1>. QED
  BY <1>2 DEF Task, PlanIds

(* What the merge makes of the fields. *)
MergedTo(t, m, s, answer, verdict) ==
  /\ t \in State
  /\ t.rev = s.rev + 1 /\ t.status = s.status
  /\ t.completed = s.completed \o answer.completed
  /\ t.decisions = s.decisions \o answer.decisions
  /\ t.archiveCount = s.archiveCount
  /\ t.claims = s.claims /\ t.artifacts = s.artifacts \cup answer.artifacts
  /\ t.blocked = (answer.blockers = "set" \/ (answer.blockers = "keep" /\ s.blocked))
  /\ Managed(m) =>
       t.queue = RemainingQueue(m.plan, Elems(s.completed) \cup Elems(answer.completed))
  /\ verdict # "none" =>
       t.checks = Append(s.checks, [rev |-> s.rev + 1, passed |-> verdict = "passed"])

LEMMA MergedFields ==
  ASSUME NEW m \in Manifest, NEW s \in State, NEW answer \in Answer,
         NEW verdict \in Verdicts
  PROVE  MergedTo(Merged(m, s, answer, verdict), m, s, answer, verdict)
<1>. DEFINE queue == IF Managed(m)
                     THEN RemainingQueue(m.plan,
                            Elems(s.completed) \cup Elems(answer.completed))
                     ELSE IF answer.queue.some THEN answer.queue.ids ELSE s.queue
            checks == IF verdict = "none" THEN s.checks
                      ELSE Append(s.checks, [rev |-> s.rev + 1,
                                             passed |-> verdict = "passed"])
            blocked == answer.blockers = "set" \/ (answer.blockers = "keep" /\ s.blocked)
<1>1. queue \in SUBSET Ids
  BY PlanIdsTyped DEF RemainingQueue, State, Answer
<1>2. checks \in Seq(Check)
  <2>1. [rev |-> s.rev + 1, passed |-> verdict = "passed"] \in Check
    BY DEF State, Check
  <2>2. s.checks \in Seq(Check)
    BY DEF State
  <2>. QED
    BY <2>1, <2>2
<1>3. blocked \in BOOLEAN
  BY DEF State
<1>4. /\ s.rev + 1 \in Nat
      /\ s.completed \o answer.completed \in Seq(Ids)
      /\ s.decisions \o answer.decisions \in Seq(Decisions)
      /\ s.artifacts \cup answer.artifacts \in SUBSET Paths
  BY DEF State, Answer
<1>5. Merged(m, s, answer, verdict) =
        [s EXCEPT !.rev = s.rev + 1, !.queue = queue,
                  !.completed = s.completed \o answer.completed,
                  !.decisions = s.decisions \o answer.decisions,
                  !.blocked = blocked, !.artifacts = s.artifacts \cup answer.artifacts,
                  !.checks = checks]
  BY Zenon DEF Merged
<1>6. /\ Managed(m) =>
           queue = RemainingQueue(m.plan, Elems(s.completed) \cup Elems(answer.completed))
      /\ verdict # "none" =>
           checks = Append(s.checks, [rev |-> s.rev + 1, passed |-> verdict = "passed"])
      /\ blocked = (answer.blockers = "set" \/ (answer.blockers = "keep" /\ s.blocked))
  OBVIOUS
<1>. HIDE DEF queue, checks, blocked
<1>7. LET t == [s EXCEPT !.rev = s.rev + 1, !.queue = queue,
                  !.completed = s.completed \o answer.completed,
                  !.decisions = s.decisions \o answer.decisions,
                  !.blocked = blocked, !.artifacts = s.artifacts \cup answer.artifacts,
                  !.checks = checks]
      IN  /\ t \in State
          /\ t.rev = s.rev + 1 /\ t.queue = queue
          /\ t.completed = s.completed \o answer.completed
          /\ t.decisions = s.decisions \o answer.decisions /\ t.checks = checks
          /\ t.status = s.status /\ t.archiveCount = s.archiveCount
          /\ t.claims = s.claims /\ t.artifacts = s.artifacts \cup answer.artifacts
          /\ t.blocked = blocked
  <2>. DEFINE completed == s.completed \o answer.completed
              decisions == s.decisions \o answer.decisions
              artifacts == s.artifacts \cup answer.artifacts
              rev == s.rev + 1
  <2>1. /\ rev \in Nat /\ completed \in Seq(Ids) /\ decisions \in Seq(Decisions)
        /\ artifacts \in SUBSET Paths
    BY <1>4
  <2>. HIDE DEF completed, decisions, artifacts, rev
  <2>2. LET t == [s EXCEPT !.rev = rev, !.queue = queue, !.completed = completed,
                           !.decisions = decisions, !.blocked = blocked,
                           !.artifacts = artifacts, !.checks = checks]
        IN  /\ t \in State
            /\ t.rev = rev /\ t.queue = queue /\ t.completed = completed
            /\ t.decisions = decisions /\ t.checks = checks
            /\ t.status = s.status /\ t.archiveCount = s.archiveCount
            /\ t.claims = s.claims /\ t.artifacts = artifacts /\ t.blocked = blocked
    BY <1>1, <1>2, <1>3, <2>1 DEF State
  <2>. QED
    BY <2>2 DEF completed, decisions, artifacts, rev
<1>. QED
  BY <1>5, <1>6, <1>7, Zenon DEF MergedTo

LEMMA MergedParts ==
  ASSUME NEW m \in Manifest, NEW s \in State, NEW answer \in Answer,
         NEW verdict \in Verdicts
  PROVE  /\ Merged(m, s, answer, verdict) \in State
         /\ Merged(m, s, answer, verdict).rev = s.rev + 1
         /\ Merged(m, s, answer, verdict).status = s.status
         /\ Merged(m, s, answer, verdict).completed = s.completed \o answer.completed
         /\ Merged(m, s, answer, verdict).decisions = s.decisions \o answer.decisions
         /\ Merged(m, s, answer, verdict).archiveCount = s.archiveCount
         /\ Managed(m) =>
              Merged(m, s, answer, verdict).queue =
                RemainingQueue(m.plan, Elems(s.completed) \cup Elems(answer.completed))
         /\ verdict # "none" =>
              Merged(m, s, answer, verdict).checks =
                Append(s.checks, [rev |-> s.rev + 1, passed |-> verdict = "passed"])
<1>1. MergedTo(Merged(m, s, answer, verdict), m, s, answer, verdict)
  BY MergedFields, Zenon
<1>. QED
  BY <1>1, Zenon DEF MergedTo

LEMMA MergedRest ==
  ASSUME NEW m \in Manifest, NEW s \in State, NEW answer \in Answer,
         NEW verdict \in Verdicts
  PROVE  /\ Merged(m, s, answer, verdict) \in State
         /\ Merged(m, s, answer, verdict).claims = s.claims
         /\ Merged(m, s, answer, verdict).artifacts = s.artifacts \cup answer.artifacts
         /\ Merged(m, s, answer, verdict).blocked =
              (answer.blockers = "set" \/ (answer.blockers = "keep" /\ s.blocked))
<1>1. MergedTo(Merged(m, s, answer, verdict), m, s, answer, verdict)
  BY MergedFields, Zenon
<1>. QED
  BY <1>1, Zenon DEF MergedTo

(* The ledger rules rewrite the claims and nothing else. *)
LEMMA LearnedParts ==
  ASSUME NEW s \in State, NEW answer \in Answer
  PROVE  LET t == Learned(s, answer) IN
         /\ t \in State
         /\ t.rev = s.rev /\ t.status = s.status /\ t.queue = s.queue
         /\ t.completed = s.completed /\ t.decisions = s.decisions
         /\ t.checks = s.checks /\ t.archiveCount = s.archiveCount
         /\ t.artifacts = s.artifacts /\ t.blocked = s.blocked
         /\ \A c \in Claims :
              t.claims[c] = IF c \in answer.retire THEN NoItem
                            ELSE IF c \in DOMAIN answer.upsert THEN answer.upsert[c]
                            ELSE s.claims[c]
         /\ \A c \in Claims :
              Upserted(s, answer).claims[c] =
                IF c \in DOMAIN answer.upsert THEN answer.upsert[c] ELSE s.claims[c]
<1>. DEFINE up == [c \in Claims |-> IF c \in DOMAIN answer.upsert THEN answer.upsert[c]
                                    ELSE s.claims[c]]
            left == [c \in Claims |-> IF c \in answer.retire THEN NoItem ELSE up[c]]
<1>1. s.claims \in [Claims -> Item \cup {NoItem}]
  BY DEF State
<1>2. up \in [Claims -> Item \cup {NoItem}]
  <2>1. PICK D \in SUBSET Claims : answer.upsert \in [D -> Item]
    BY DEF Answer
  <2>. QED
    BY <1>1, <2>1
<1>3. left \in [Claims -> Item \cup {NoItem}]
  BY <1>2
<1>4. Upserted(s, answer) = [s EXCEPT !.claims = up]
  BY Zenon DEF Upserted
<1>5. Upserted(s, answer).claims = up
  <2>. HIDE DEF up
  <2>. QED
    BY <1>4 DEF State
<1>6. Learned(s, answer) = [Upserted(s, answer) EXCEPT !.claims = left]
  BY <1>5 DEF Learned
<1>7. \A c \in Claims :
        /\ up[c] = IF c \in DOMAIN answer.upsert THEN answer.upsert[c] ELSE s.claims[c]
        /\ left[c] = IF c \in answer.retire THEN NoItem ELSE up[c]
  OBVIOUS
<1>. HIDE DEF up, left
<1>8. LET t == Learned(s, answer) IN
      /\ t \in State
      /\ t.rev = s.rev /\ t.status = s.status /\ t.queue = s.queue
      /\ t.completed = s.completed /\ t.decisions = s.decisions
      /\ t.checks = s.checks /\ t.archiveCount = s.archiveCount
      /\ t.artifacts = s.artifacts /\ t.blocked = s.blocked /\ t.claims = left
  BY <1>3, <1>4, <1>6 DEF State
<1>. QED
  BY <1>5, <1>7, <1>8

(* What compaction and the outcome make of the fields. *)
LEMMA AfterParts ==
  ASSUME NEW m \in Manifest, NEW s \in State, NEW answer \in Answer,
         NEW verdict \in Verdicts
  PROVE  LET merged == Merged(m, s, answer, verdict)
             t == After(m, s, answer, verdict)
             lost == Overflow(merged.completed, MaxCompletedItems)
                     + Overflow(merged.decisions, MaxDecisions)
                     + Cardinality(answer.retire)
         IN  /\ t \in State
             /\ t.rev = s.rev + 1
             /\ t.status = StatusAfter(merged, answer.outcome)
             /\ t.queue = merged.queue /\ t.checks = merged.checks
             /\ t.completed = Visible(merged.completed, MaxCompletedItems)
             /\ t.decisions = Visible(merged.decisions, MaxDecisions)
             /\ t.archiveCount = s.archiveCount + lost
             /\ t.artifacts = merged.artifacts /\ t.blocked = merged.blocked
             /\ t.claims = Full(m, s, answer, verdict).claims
             /\ Full(m, s, answer, verdict).completed = merged.completed
             /\ Full(m, s, answer, verdict).decisions = merged.decisions
<1>. DEFINE merged == Merged(m, s, answer, verdict)
            full == Full(m, s, answer, verdict)
            completed == Visible(full.completed, MaxCompletedItems)
            decisions == Visible(full.decisions, MaxDecisions)
            count == full.archiveCount + Overflow(full.completed, MaxCompletedItems)
                       + Overflow(full.decisions, MaxDecisions)
                       + Cardinality(answer.retire)
            status == StatusAfter(merged, answer.outcome)
<1>1. /\ merged \in State /\ merged.rev = s.rev + 1
      /\ merged.archiveCount = s.archiveCount
  BY MergedParts
<1>2. /\ full \in State
      /\ full.rev = merged.rev /\ full.queue = merged.queue
      /\ full.completed = merged.completed /\ full.decisions = merged.decisions
      /\ full.checks = merged.checks /\ full.archiveCount = merged.archiveCount
      /\ full.artifacts = merged.artifacts /\ full.blocked = merged.blocked
  BY <1>1, LearnedParts DEF Full
<1>3. full.completed \in Seq(Ids) /\ full.decisions \in Seq(Decisions)
  BY <1>2 DEF State
<1>4. completed \in Seq(Ids) /\ decisions \in Seq(Decisions)
  BY <1>3, SplitList, StateAssumption
<1>5. count \in Nat
  <2>1. Cardinality(answer.retire) \in Nat
    BY FS_Subset, FS_CardinalityType, StateAssumption DEF Answer
  <2>2. full.archiveCount \in Nat
    BY <1>2 DEF State
  <2>3. /\ Overflow(full.completed, MaxCompletedItems) \in Nat
        /\ Overflow(full.decisions, MaxDecisions) \in Nat
    BY <1>3, OverflowNat, StateAssumption
  <2>. QED
    BY <2>1, <2>2, <2>3
<1>6. status \in Statuses
  BY DEF StatusAfter, Statuses, Answer, Outcomes
<1>7. Compacted(full, answer) =
        [full EXCEPT !.completed = completed, !.decisions = decisions,
                     !.archiveCount = count]
  BY Zenon DEF Compacted
<1>8. After(m, s, answer, verdict) = [Compacted(full, answer) EXCEPT !.status = status]
  BY Zenon DEF After
<1>9. LET t == [[full EXCEPT !.completed = completed, !.decisions = decisions,
                             !.archiveCount = count] EXCEPT !.status = status]
      IN  /\ t \in State
          /\ t.rev = full.rev /\ t.queue = full.queue /\ t.checks = full.checks
          /\ t.completed = completed /\ t.decisions = decisions
          /\ t.archiveCount = count /\ t.status = status
          /\ t.artifacts = full.artifacts /\ t.blocked = full.blocked
          /\ t.claims = full.claims
  <2>. HIDE DEF completed, decisions, count, status, full
  <2>. QED
    BY <1>2, <1>4, <1>5, <1>6 DEF State
<1>10. count = s.archiveCount + (Overflow(merged.completed, MaxCompletedItems)
                     + Overflow(merged.decisions, MaxDecisions)
                     + Cardinality(answer.retire))
  <2>. DEFINE a == Overflow(merged.completed, MaxCompletedItems)
              b == Overflow(merged.decisions, MaxDecisions)
              c == Cardinality(answer.retire)
  <2>1. count = s.archiveCount + a + b + c
    BY <1>1, <1>2
  <2>2. a \in Nat /\ b \in Nat /\ c \in Nat /\ s.archiveCount \in Nat
    <3>1. c \in Nat
      BY FS_Subset, FS_CardinalityType, StateAssumption DEF Answer
    <3>2. /\ merged.completed \in Seq(Ids) /\ merged.decisions \in Seq(Decisions)
          /\ s.archiveCount \in Nat
      BY <1>1 DEF State
    <3>3. a \in Nat /\ b \in Nat
      BY <3>2, OverflowNat, StateAssumption
    <3>. QED
      BY <3>1, <3>2, <3>3
  <2>. HIDE DEF a, b, c, count
  <2>3. count = s.archiveCount + (a + b + c)
    BY <2>1, <2>2
  <2>. QED
    BY <2>3 DEF a, b, c
<1>. HIDE DEF full, merged, count, completed, decisions, status
<1>11. /\ completed = Visible(merged.completed, MaxCompletedItems)
       /\ decisions = Visible(merged.decisions, MaxDecisions)
  BY <1>2 DEF completed, decisions
<1>. QED
  BY <1>1, <1>2, <1>7, <1>8, <1>9, <1>10, <1>11, Zenon DEF status, merged, full

-----------------------------------------------------------------------------
(* A step commits one answer to a run that is running. *)
LEMMA StepCommits ==
  ASSUME Step
  PROVE  /\ state.status = "running"
         /\ \E answer \in Answer, verdict \in Verdicts : Commit(answer, verdict)
<1>1. PICK completed \in Lists(Ids) :
        \E answer \in Answers(completed), verdict \in Verdicts : Commit(answer, verdict)
  BY DEF Step
<1>2. PICK answer \in Answers(completed), verdict \in Verdicts : Commit(answer, verdict)
  BY <1>1
<1>3. answer \in Answer
  BY AnswersTyped
<1>. QED
  BY <1>2, <1>3 DEF Step

(* The archive and the history grow by lists of their types. *)
LEMMA CommitTyped ==
  ASSUME TypeOK, NEW answer \in Answer, NEW verdict \in Verdicts,
         Commit(answer, verdict)
  PROVE  TypeOK'
<1>. DEFINE full == Full(manifest, state, answer, verdict)
<1>1. manifest \in Manifest /\ state \in State
  BY ManifestsTyped DEF TypeOK
<1>2. After(manifest, state, answer, verdict) \in State
  BY <1>1, AfterParts
<1>3. full.completed \in Seq(Ids) /\ full.decisions \in Seq(Decisions)
  <2>1. /\ full.completed = Merged(manifest, state, answer, verdict).completed
        /\ full.decisions = Merged(manifest, state, answer, verdict).decisions
    BY <1>1, AfterParts
  <2>2. Merged(manifest, state, answer, verdict) \in State
    BY <1>1, MergedParts
  <2>. QED
    BY <2>1, <2>2 DEF State
<1>4. /\ Oldest(full.completed, MaxCompletedItems) \in Seq(Ids)
      /\ Oldest(full.decisions, MaxDecisions) \in Seq(Decisions)
  BY <1>3, SplitList, StateAssumption
<1>5. Cardinality(answer.retire) \in Nat
  BY FS_Subset, FS_CardinalityType, StateAssumption DEF Answer
<1>6. archive' \in [completed : Seq(Ids), decisions : Seq(Decisions), claims : Nat]
  <2>1. /\ archive.completed \o Oldest(full.completed, MaxCompletedItems) \in Seq(Ids)
        /\ archive.decisions \o Oldest(full.decisions, MaxDecisions) \in Seq(Decisions)
        /\ archive.claims + Cardinality(answer.retire) \in Nat
    BY <1>4, <1>5 DEF TypeOK
  <2>. QED
    BY <2>1 DEF Commit
<1>7. reported' \in [completed : Seq(Ids), decisions : Seq(Decisions)]
  <2>1. /\ reported.completed \o answer.completed \in Seq(Ids)
        /\ reported.decisions \o answer.decisions \in Seq(Decisions)
    BY DEF TypeOK, Answer
  <2>. QED
    BY <2>1 DEF Commit
<1>8. state' \in State /\ observed' \in BOOLEAN /\ manifest' \in Manifests
  BY <1>2 DEF Commit, TypeOK
<1>. QED
  BY <1>6, <1>7, <1>8 DEF TypeOK

(* A recovery touches the revision alone. *)
LEMMA RecoverParts ==
  ASSUME TypeOK, Recover
  PROVE  /\ TypeOK' /\ state' = [state EXCEPT !.rev = state.rev + 1]
         /\ state'.rev = state.rev + 1 /\ state'.status = "running"
         /\ state'.queue = state.queue /\ state'.completed = state.completed
         /\ state'.decisions = state.decisions
         /\ state'.archiveCount = state.archiveCount
         /\ UNCHANGED <<manifest, archive, reported>>
<1>1. state \in State /\ state.status = "running"
  BY DEF TypeOK, Recover
<1>2. state' = [state EXCEPT !.rev = state.rev + 1, !.status = "running"]
  BY DEF Recover
<1>3. /\ state' \in State
      /\ state'.rev = state.rev + 1 /\ state'.status = "running"
      /\ state'.queue = state.queue /\ state'.completed = state.completed
      /\ state'.decisions = state.decisions
      /\ state'.archiveCount = state.archiveCount
  <2>1. state.rev + 1 \in Nat /\ "running" \in Statuses
    BY <1>1 DEF State, Statuses
  <2>. DEFINE rev == state.rev + 1
  <2>2. state' = [state EXCEPT !.rev = rev, !.status = "running"] /\ rev \in Nat
    BY <1>2, <2>1
  <2>. HIDE DEF rev
  <2>3. /\ state' \in State
        /\ state'.rev = rev /\ state'.status = "running"
        /\ state'.queue = state.queue /\ state'.completed = state.completed
        /\ state'.decisions = state.decisions
        /\ state'.archiveCount = state.archiveCount
    BY <1>1, <2>1, <2>2 DEF State
  <2>. QED
    BY <2>3 DEF rev
<1>4. state' = [state EXCEPT !.rev = state.rev + 1]
  BY <1>1, <1>2 DEF State
<1>. QED
  BY <1>1, <1>3, <1>4 DEF Recover, TypeOK

(* A run starts in a state of the declared types. *)
LEMMA InitTyped == Init => TypeOK
<1>. SUFFICES ASSUME Init PROVE TypeOK
  OBVIOUS
<1>1. manifest \in Manifest
  BY ManifestsTyped DEF Init
<1>2. PlanIds(manifest.plan) \in SUBSET Ids
  BY <1>1, PlanIdsTyped
<1>3. [c \in Claims |-> NoItem] \in [Claims -> Item \cup {NoItem}]
  OBVIOUS
<1>4. state \in State
  BY <1>2, <1>3 DEF Init, State, Statuses
<1>5. /\ archive \in [completed : Seq(Ids), decisions : Seq(Decisions), claims : Nat]
      /\ reported \in [completed : Seq(Ids), decisions : Seq(Decisions)]
  <2>1. << >> \in Seq(Ids) /\ << >> \in Seq(Decisions)
    OBVIOUS
  <2>2. /\ archive = [completed |-> << >>, decisions |-> << >>, claims |-> 0]
        /\ reported = [completed |-> << >>, decisions |-> << >>]
    BY DEF Init
  <2>. QED
    BY <2>1, <2>2
<1>. QED
  BY <1>4, <1>5 DEF Init, TypeOK

(* Every answer, check and recovery leaves the coding state, the archive and *)
(* the history in the types that model.rs declares.                          *)
THEOREM TypeCorrect == Spec => []TypeOK
<1>1. ASSUME TypeOK, [Next]_vars PROVE TypeOK'
  <2>1. CASE Step
    BY <1>1, <2>1, StepCommits, CommitTyped
  <2>2. CASE Recover
    BY <1>1, <2>2, RecoverParts
  <2>3. CASE UNCHANGED vars
    BY <1>1, <2>3 DEF vars, TypeOK
  <2>. QED
    BY <1>1, <2>1, <2>2, <2>3 DEF Next
<1>. QED
  BY <1>1, InitTyped, PTL DEF Spec

-----------------------------------------------------------------------------
(* A list whose oldest entries move to the archive keeps the history.        *)
LEMMA Moved ==
  ASSUME NEW S, NEW a \in Seq(S), NEW l \in Seq(S), NEW max \in Nat
  PROVE  /\ (a \o Oldest(l, max)) \o Visible(l, max) = a \o l
         /\ Len(a \o Oldest(l, max)) = Len(a) + Overflow(l, max)
<1>. DEFINE o == Oldest(l, max)
            v == Visible(l, max)
<1>1. o \in Seq(S) /\ v \in Seq(S)
  BY SplitList
<1>2. o \o v = l /\ Len(o) = Overflow(l, max)
  BY SplitList
<1>. HIDE DEF o, v
<1>3. (a \o o) \o v = a \o (o \o v)
  BY <1>1, ConcatAssociative
<1>4. Len(a \o o) = Len(a) + Len(o)
  BY <1>1
<1>5. (a \o o) \o v = a \o l
  BY <1>2, <1>3, Zenon
<1>. QED
  BY <1>2, <1>4, <1>5, Zenon DEF o, v

(* The changes of one accepted answer to the state, the archive and the      *)
(* history.                                                                  *)
LEMMA CommitParts ==
  ASSUME TypeOK, NEW answer \in Answer, NEW verdict \in Verdicts,
         Commit(answer, verdict)
  PROVE  LET merged == Merged(manifest, state, answer, verdict)
             completed == state.completed \o answer.completed
             decisions == state.decisions \o answer.decisions
         IN  /\ state'.rev = merged.rev /\ merged.rev = state.rev + 1
             /\ state'.queue = merged.queue /\ state'.checks = merged.checks
             /\ state'.status = StatusAfter(merged, answer.outcome)
             /\ state'.completed = Visible(completed, MaxCompletedItems)
             /\ state'.decisions = Visible(decisions, MaxDecisions)
             /\ state'.archiveCount = state.archiveCount
                  + (Overflow(completed, MaxCompletedItems)
                     + Overflow(decisions, MaxDecisions)
                     + Cardinality(answer.retire))
             /\ archive'.completed =
                  archive.completed \o Oldest(completed, MaxCompletedItems)
             /\ archive'.decisions =
                  archive.decisions \o Oldest(decisions, MaxDecisions)
             /\ archive'.claims = archive.claims + Cardinality(answer.retire)
             /\ reported'.completed = reported.completed \o answer.completed
             /\ reported'.decisions = reported.decisions \o answer.decisions
             /\ UNCHANGED manifest
<1>1. manifest \in Manifest /\ state \in State
  BY ManifestsTyped DEF TypeOK
<1>2. /\ Merged(manifest, state, answer, verdict).completed =
           state.completed \o answer.completed
      /\ Merged(manifest, state, answer, verdict).decisions =
           state.decisions \o answer.decisions
      /\ Merged(manifest, state, answer, verdict).rev = state.rev + 1
  BY <1>1, MergedParts
<1>3. /\ state' = After(manifest, state, answer, verdict) /\ UNCHANGED manifest
      /\ archive' =
           [completed |-> archive.completed \o
              Oldest(Full(manifest, state, answer, verdict).completed, MaxCompletedItems),
            decisions |-> archive.decisions \o
              Oldest(Full(manifest, state, answer, verdict).decisions, MaxDecisions),
            claims |-> archive.claims + Cardinality(answer.retire)]
      /\ reported' = [completed |-> reported.completed \o answer.completed,
                      decisions |-> reported.decisions \o answer.decisions]
  BY DEF Commit
<1>. DEFINE s == After(manifest, state, answer, verdict)
            merged == Merged(manifest, state, answer, verdict)
            full == Full(manifest, state, answer, verdict)
<1>4. /\ s.rev = state.rev + 1
      /\ s.status = StatusAfter(merged, answer.outcome)
      /\ s.queue = merged.queue /\ s.checks = merged.checks
      /\ s.completed = Visible(merged.completed, MaxCompletedItems)
      /\ s.decisions = Visible(merged.decisions, MaxDecisions)
      /\ s.archiveCount = state.archiveCount
           + (Overflow(merged.completed, MaxCompletedItems)
              + Overflow(merged.decisions, MaxDecisions)
              + Cardinality(answer.retire))
      /\ full.completed = merged.completed /\ full.decisions = merged.decisions
  BY <1>1, AfterParts
<1>. HIDE DEF s, merged, full
<1>. QED
  BY <1>2, <1>3, <1>4 DEF s, merged, full

(* Nothing is forgotten at the start. *)
LEMMA HistoryInit == Init => NothingForgotten
<1>. SUFFICES ASSUME Init PROVE NothingForgotten
  OBVIOUS
<1>1. << >> \o << >> = << >>
  BY EmptySeq, ConcatEmptySeq
<1>. QED
  BY <1>1 DEF Init, NothingForgotten

(* Neither does an accepted answer forget anything. *)
LEMMA HistoryCommit ==
  ASSUME TypeOK, NothingForgotten, NEW answer \in Answer, NEW verdict \in Verdicts,
         Commit(answer, verdict)
  PROVE  NothingForgotten'
<1>. DEFINE completed == state.completed \o answer.completed
            decisions == state.decisions \o answer.decisions
<1>1. /\ archive.completed \in Seq(Ids) /\ archive.decisions \in Seq(Decisions)
      /\ state.completed \in Seq(Ids) /\ state.decisions \in Seq(Decisions)
      /\ answer.completed \in Seq(Ids) /\ answer.decisions \in Seq(Decisions)
      /\ archive.claims \in Nat /\ state.archiveCount \in Nat
  BY DEF TypeOK, State, Answer
<1>2. /\ state'.completed = Visible(completed, MaxCompletedItems)
      /\ state'.decisions = Visible(decisions, MaxDecisions)
      /\ state'.archiveCount = state.archiveCount
           + (Overflow(completed, MaxCompletedItems) + Overflow(decisions, MaxDecisions)
              + Cardinality(answer.retire))
      /\ archive'.completed = archive.completed \o Oldest(completed, MaxCompletedItems)
      /\ archive'.decisions = archive.decisions \o Oldest(decisions, MaxDecisions)
      /\ archive'.claims = archive.claims + Cardinality(answer.retire)
      /\ reported'.completed = reported.completed \o answer.completed
      /\ reported'.decisions = reported.decisions \o answer.decisions
  BY CommitParts
<1>3. /\ (archive.completed \o Oldest(completed, MaxCompletedItems))
            \o Visible(completed, MaxCompletedItems)
           = (archive.completed \o state.completed) \o answer.completed
      /\ Len(archive.completed \o Oldest(completed, MaxCompletedItems))
           = Len(archive.completed) + Overflow(completed, MaxCompletedItems)
  <2>. DEFINE a == archive.completed
              l == state.completed
              x == answer.completed
  <2>1. MaxCompletedItems \in Nat
    BY StateAssumption
  <2>2. a \in Seq(Ids) /\ l \in Seq(Ids) /\ x \in Seq(Ids)
    BY <1>1
  <2>3. completed \in Seq(Ids)
    BY <1>1
  <2>. HIDE DEF a, l, x, completed
  <2>4. /\ (a \o Oldest(completed, MaxCompletedItems)) \o Visible(completed, MaxCompletedItems)
             = a \o completed
        /\ Len(a \o Oldest(completed, MaxCompletedItems))
             = Len(a) + Overflow(completed, MaxCompletedItems)
    BY <2>1, <2>2, <2>3, Moved
  <2>5. (a \o l) \o x = a \o (l \o x)
    BY <2>2, ConcatAssociative
  <2>. QED
    BY <2>4, <2>5, Zenon DEF a, l, x, completed
<1>4. /\ (archive.decisions \o Oldest(decisions, MaxDecisions))
            \o Visible(decisions, MaxDecisions)
           = (archive.decisions \o state.decisions) \o answer.decisions
      /\ Len(archive.decisions \o Oldest(decisions, MaxDecisions))
           = Len(archive.decisions) + Overflow(decisions, MaxDecisions)
  <2>. DEFINE a == archive.decisions
              l == state.decisions
              x == answer.decisions
  <2>1. MaxDecisions \in Nat
    BY StateAssumption
  <2>2. a \in Seq(Decisions) /\ l \in Seq(Decisions) /\ x \in Seq(Decisions)
    BY <1>1
  <2>3. decisions \in Seq(Decisions)
    BY <1>1
  <2>. HIDE DEF a, l, x, decisions
  <2>4. /\ (a \o Oldest(decisions, MaxDecisions)) \o Visible(decisions, MaxDecisions)
             = a \o decisions
        /\ Len(a \o Oldest(decisions, MaxDecisions))
             = Len(a) + Overflow(decisions, MaxDecisions)
    BY <2>1, <2>2, <2>3, Moved
  <2>5. (a \o l) \o x = a \o (l \o x)
    BY <2>2, ConcatAssociative
  <2>. QED
    BY <2>4, <2>5, Zenon DEF a, l, x, decisions
<1>5. archive'.completed \o state'.completed = reported'.completed
  <2>1. archive'.completed \o state'.completed =
          (archive.completed \o state.completed) \o answer.completed
    BY <1>3, <1>2, Zenon
  <2>. QED
    BY <2>1, <1>2, Zenon DEF NothingForgotten
<1>6. archive'.decisions \o state'.decisions = reported'.decisions
  <2>1. archive'.decisions \o state'.decisions =
          (archive.decisions \o state.decisions) \o answer.decisions
    BY <1>4, <1>2, Zenon
  <2>. QED
    BY <2>1, <1>2, Zenon DEF NothingForgotten
<1>7. state'.archiveCount =
        Len(archive'.completed) + Len(archive'.decisions) + archive'.claims
  <2>. DEFINE a == Overflow(completed, MaxCompletedItems)
              b == Overflow(decisions, MaxDecisions)
              c == Cardinality(answer.retire)
  <2>1. /\ Len(archive'.completed) = Len(archive.completed) + a
        /\ Len(archive'.decisions) = Len(archive.decisions) + b
    BY <1>3, <1>4, <1>2, Zenon
  <2>2. /\ state'.archiveCount = state.archiveCount + (a + b + c)
        /\ archive'.claims = archive.claims + c
    BY <1>2
  <2>3. a \in Nat /\ b \in Nat /\ c \in Nat
    <3>1. c \in Nat
      BY FS_Subset, FS_CardinalityType, StateAssumption DEF Answer
    <3>2. completed \in Seq(Ids) /\ decisions \in Seq(Decisions)
      BY <1>1
    <3>3. a \in Nat /\ b \in Nat
      <4>. HIDE DEF completed, decisions
      <4>. QED
        BY <3>2, OverflowNat, StateAssumption
    <3>. QED
      BY <3>1, <3>3
  <2>4. /\ state.archiveCount =
             Len(archive.completed) + Len(archive.decisions) + archive.claims
        /\ Len(archive.completed) \in Nat /\ Len(archive.decisions) \in Nat
    BY <1>1 DEF NothingForgotten
  <2>. DEFINE n == Len(archive.completed)
              k == Len(archive.decisions)
  <2>. HIDE DEF a, b, c, n, k
  <2>5. /\ state.archiveCount = n + k + archive.claims /\ n \in Nat /\ k \in Nat
        /\ Len(archive'.completed) = n + a /\ Len(archive'.decisions) = k + b
    BY <2>1, <2>4 DEF n, k
  <2>. QED
    BY <1>1, <2>2, <2>3, <2>5
<1>. QED
  BY <1>5, <1>6, <1>7 DEF NothingForgotten

(* Whatever the limits and the answers are: compaction loses, doubles and    *)
(* reorders no completed item and no decision, and the archive count of the  *)
(* state is the number of entries written to the archive.                    *)
THEOREM HistoryKept == Spec => []NothingForgotten
<1>1. ASSUME TypeOK, NothingForgotten, [Next]_vars PROVE NothingForgotten'
  <2>1. CASE Step
    BY <1>1, <2>1, StepCommits, HistoryCommit
  <2>2. CASE Recover
    BY <1>1, <2>2, RecoverParts DEF NothingForgotten
  <2>3. CASE UNCHANGED vars
    BY <1>1, <2>3 DEF vars, NothingForgotten
  <2>. QED
    BY <1>1, <2>1, <2>2, <2>3 DEF Next
<1>. QED
  BY <1>1, HistoryInit, TypeCorrect, PTL DEF Spec

-----------------------------------------------------------------------------
(* What the engine demands of an accepted answer of a managed run.           *)
LEMMA ManagedCommit ==
  ASSUME TypeOK, Managed(manifest), NEW answer \in Answer, NEW verdict \in Verdicts,
         Commit(answer, verdict)
  PROVE  LET plan == manifest.plan
             done == Elems(state.completed)
             accepted == Elems(answer.completed)
         IN  /\ AcceptsPrefix(plan, done, answer.completed)
             /\ answer.completed = << >> => answer.outcome = "blocked"
             /\ accepted \cap done = {}
             /\ Elems(state'.completed) \subseteq PlanIds(plan)
             /\ state'.queue = RemainingQueue(plan, Elems(state'.completed))
             /\ state'.queue = RemainingQueue(plan, done \cup accepted)
             /\ answer.outcome = "complete" <=> state'.queue = {}
             /\ answer.outcome = "continue" => state'.status = "running"
             /\ answer.outcome = "blocked" => state'.status = "blocked"
             /\ answer.outcome = "complete" => state'.status = "complete"
<1>. DEFINE plan == manifest.plan
            done == Elems(state.completed)
            accepted == Elems(answer.completed)
            merged == Merged(manifest, state, answer, verdict)
<1>1. manifest \in Manifest /\ state \in State
  BY ManifestsTyped DEF TypeOK
<1>2. verdict = "passed" /\ ValidResponse(plan, done, answer)
  BY DEF Commit, PacketAccepted
<1>3. ValidPlanState(plan, state')
  BY DEF Commit, DeltaAccepted, ValidState
<1>4. state'.queue = RemainingQueue(plan, done \cup accepted)
  <2>1. state'.queue = merged.queue
    BY CommitParts
  <2>2. merged.queue = RemainingQueue(plan, done \cup accepted)
    BY <1>1, MergedParts
  <2>. QED
    BY <2>1, <2>2
<1>5. /\ AcceptsPrefix(plan, done, answer.completed)
      /\ answer.completed = << >> => answer.outcome = "blocked"
      /\ accepted \cap done = {}
      /\ answer.outcome = "complete" <=> RemainingQueue(plan, done \cup accepted) = {}
  BY <1>2 DEF ValidResponse, OutcomeFits, Elems
<1>6. merged.checks # << >> => merged.checks[Len(merged.checks)].passed
  <2>1. merged.checks = Append(state.checks, [rev |-> state.rev + 1, passed |-> TRUE])
    BY <1>1, <1>2, MergedParts
  <2>2. state.checks \in Seq(Check)
    BY <1>1 DEF State
  <2>3. merged.checks[Len(merged.checks)] = [rev |-> state.rev + 1, passed |-> TRUE]
    <3>. HIDE DEF merged
    <3>. QED
      BY <2>1, <2>2
  <2>. QED
    BY <2>3
<1>7. state'.status = StatusAfter(merged, answer.outcome)
  BY CommitParts
<1>8. ~(Current(merged) /\ ~merged.checks[Len(merged.checks)].passed)
  BY <1>6 DEF Current
<1>9. state'.status = CASE answer.outcome = "continue" -> "running"
                        [] answer.outcome = "blocked" -> "blocked"
                        [] answer.outcome = "complete" -> "complete"
  <2>. HIDE DEF merged
  <2>. QED
    BY <1>7, <1>8 DEF StatusAfter
<1>. QED
  BY <1>3, <1>4, <1>5, <1>9 DEF ValidPlanState

(* The queue of a managed run is what its plan has left, and a managed run   *)
(* runs exactly as long as its plan has something left.                      *)
PlanInv ==
  Managed(manifest) =>
    /\ Elems(state.completed) \subseteq PlanIds(manifest.plan)
    /\ state.queue = RemainingQueue(manifest.plan, Elems(state.completed))
    /\ state.status = "running" => state.queue # {}
    /\ state.status = "complete" => state.queue = {}

(* A new managed run has its whole plan in the queue, and that is not empty. *)
LEMMA PlanInvInit == Init => PlanInv
<1>. SUFFICES ASSUME Init, Managed(manifest) PROVE PlanInv
  BY DEF PlanInv
<1>1. manifest \in Manifest /\ ValidPlan(manifest.plan)
  BY ManifestsTyped DEF Init, ValidManifest
<1>2. /\ state.completed = << >> /\ state.status = "running"
      /\ state.queue = PlanIds(manifest.plan)
  BY DEF Init
<1>3. Elems(state.completed) = {}
  BY <1>2 DEF Elems
<1>4. PlanIds(manifest.plan) # {}
  <2>1. manifest.plan.tasks \in Seq(Task) /\ Len(manifest.plan.tasks) >= 1
    BY <1>1, PlanAssumption DEF ValidPlan, Manifest, Plan
  <2>2. 1 \in DOMAIN manifest.plan.tasks
    BY <2>1
  <2>. QED
    BY <2>2 DEF PlanIds
<1>. QED
  BY <1>2, <1>3, <1>4 DEF PlanInv, RemainingQueue

(* Answers and recoveries keep the queue what the plan has left. *)
LEMMA PlanInvStep == TypeOK /\ PlanInv /\ [Next]_vars => PlanInv'
<1>. SUFFICES ASSUME TypeOK, PlanInv, [Next]_vars, Managed(manifest') PROVE PlanInv'
  BY DEF PlanInv
<1>1. CASE Step
  <2>1. PICK answer \in Answer, verdict \in Verdicts : Commit(answer, verdict)
    BY <1>1, StepCommits
  <2>2. manifest' = manifest /\ answer.outcome \in Outcomes
    BY <2>1 DEF Commit, Answer
  <2>3. /\ Elems(state'.completed) \subseteq PlanIds(manifest.plan)
        /\ state'.queue = RemainingQueue(manifest.plan, Elems(state'.completed))
        /\ answer.outcome = "complete" <=> state'.queue = {}
        /\ answer.outcome = "continue" => state'.status = "running"
        /\ answer.outcome = "blocked" => state'.status = "blocked"
        /\ answer.outcome = "complete" => state'.status = "complete"
    BY <2>1, <2>2, ManagedCommit
  <2>. QED
    BY <2>2, <2>3 DEF PlanInv, Outcomes
<1>2. CASE Recover
  BY <1>2, RecoverParts DEF PlanInv, Recover
<1>3. CASE UNCHANGED vars
  BY <1>3 DEF vars, PlanInv
<1>. QED
  BY <1>1, <1>2, <1>3 DEF Next

(* The queue is what the plan has left, in every run. *)
LEMMA PlanInvHolds == Spec => []PlanInv
BY PlanInvInit, PlanInvStep, TypeCorrect, PTL DEF Spec

-----------------------------------------------------------------------------
(* A task of what remains waits for nothing that remains, in any plan.       *)
LEMMA SomethingReady ==
  ASSUME NEW m \in Manifest, ValidPlan(m.plan), NEW done,
         RemainingQueue(m.plan, done) # {}
  PROVE  Candidates(m.plan, done, << >>) # {}
<1>. DEFINE tasks == m.plan.tasks
            S == {i \in DOMAIN tasks : tasks[i].id \notin done}
<1>1. S \in (SUBSET (DOMAIN tasks)) \ {{}}
  BY DEF RemainingQueue, PlanIds
<1>2. PICK i \in S : \A j \in S : tasks[j].id \notin tasks[i].deps
  BY <1>1 DEF ValidPlan, Acyclic
<1>3. tasks[i].deps \subseteq PlanIds(m.plan)
  BY <1>2 DEF ValidPlan
<1>4. tasks[i].deps \subseteq done
  BY <1>2, <1>3 DEF PlanIds
<1>5. PacketIds(m.plan, << >>) = {}
  BY DEF PacketIds
<1>6. i \in Candidates(m.plan, done, << >>)
  BY <1>2, <1>4, <1>5 DEF Candidates
<1>. QED
  BY <1>6

(* For every plan that validate_work_plan accepts, of any size and with any  *)
(* packet cap: a managed run that is running has a first task for its next   *)
(* packet.                                                                   *)
THEOREM NeverWithoutPacket == Spec => []AlwaysReady
<1>1. TypeOK /\ PlanInv => AlwaysReady
  <2>. SUFFICES ASSUME TypeOK, PlanInv, Managed(manifest), state.status = "running"
                PROVE  Candidates(manifest.plan, Elems(state.completed), << >>) # {}
    BY DEF AlwaysReady
  <2>1. manifest \in Manifest /\ ValidPlan(manifest.plan)
    BY ManifestsTyped DEF TypeOK, ValidManifest
  <2>2. RemainingQueue(manifest.plan, Elems(state.completed)) # {}
    BY DEF PlanInv
  <2>. QED
    BY <2>1, <2>2, SomethingReady
<1>. QED
  BY <1>1, TypeCorrect, PlanInvHolds, PTL

(* The q-th id of a list is a task that waits only for what is done or        *)
(* stands before it.                                                         *)
Follows(tasks, done, list, q) ==
  \E i \in DOMAIN tasks :
    /\ tasks[i].id = list[q]
    /\ tasks[i].deps \subseteq done \cup {list[r] : r \in 1..(q - 1)}

(* A task of a prefix of a packet waits only for what was done before or     *)
(* stands before it in the prefix.                                           *)
LEMMA PrefixInOrder ==
  ASSUME NEW m \in Manifest, NEW done, NEW completed \in Seq(Ids),
         AcceptsPrefix(m.plan, done, completed), NEW q \in DOMAIN completed
  PROVE  Follows(m.plan.tasks, done, completed, q)
<1>1. PICK packet \in Packets(m.plan) :
        /\ IsPacket(m.plan, done, packet)
        /\ Len(completed) <= Len(packet)
        /\ \A k \in DOMAIN completed : completed[k] = m.plan.tasks[packet[k]].id
  BY DEF AcceptsPrefix
<1>2. PICK n \in 1..m.plan.cap : packet \in [1..n -> DOMAIN m.plan.tasks]
  BY DEF Packets
<1>3. n \in Nat /\ packet \in Seq(DOMAIN m.plan.tasks) /\ Len(packet) = n
  BY <1>2 DEF Manifest, Plan
<1>4. q \in 1..Len(completed) /\ Len(completed) \in Nat
  OBVIOUS
<1>5. q \in DOMAIN packet
  BY <1>1, <1>3, <1>4
<1>. DEFINE before == SubSeq(packet, 1, q - 1)
<1>6. packet[q] \in Candidates(m.plan, done, before)
  BY <1>1, <1>5 DEF IsPacket, IsFirst
<1>7. m.plan.tasks[packet[q]].deps \subseteq done \cup PacketIds(m.plan, before)
  BY <1>6 DEF Candidates
<1>8. PacketIds(m.plan, before) \subseteq {completed[r] : r \in 1..(q - 1)}
  <2>1. /\ DOMAIN before = 1..(q - 1)
        /\ \A r \in 1..(q - 1) : before[r] = packet[r]
    BY <1>3, <1>4, <1>5
  <2>2. \A r \in 1..(q - 1) : completed[r] = m.plan.tasks[packet[r]].id
    BY <1>1, <1>4
  <2>. HIDE DEF before
  <2>. QED
    BY <2>1, <2>2 DEF PacketIds
<1>9. packet[q] \in DOMAIN m.plan.tasks /\ m.plan.tasks[packet[q]].id = completed[q]
  BY <1>1, <1>2, <1>3, <1>5
<1>. QED
  BY <1>7, <1>8, <1>9 DEF Follows

(* The entries of a concatenation. *)
LEMMA ConcatEntries ==
  ASSUME NEW S, NEW a \in Seq(S), NEW b \in Seq(S)
  PROVE  /\ Len(a) \in Nat /\ DOMAIN a = 1..Len(a) /\ DOMAIN b = 1..Len(b)
         /\ \A j \in DOMAIN a : j \in DOMAIN (a \o b) /\ (a \o b)[j] = a[j]
         /\ \A j \in DOMAIN b : /\ Len(a) + j \in DOMAIN (a \o b)
                                /\ (a \o b)[Len(a) + j] = b[j]
         /\ \A k \in DOMAIN (a \o b) :
              k \in DOMAIN a \/ \E q \in DOMAIN b : k = Len(a) + q
<1>1. /\ Len(a) \in Nat /\ Len(b) \in Nat
      /\ DOMAIN a = 1..Len(a) /\ DOMAIN b = 1..Len(b)
      /\ DOMAIN (a \o b) = 1..(Len(a) + Len(b))
  OBVIOUS
<1>2. \A i \in 1..(Len(a) + Len(b)) :
        (a \o b)[i] = IF i <= Len(a) THEN a[i] ELSE b[i - Len(a)]
  BY ConcatProperties
<1>3. ASSUME NEW k \in DOMAIN (a \o b), k \notin DOMAIN a
      PROVE  \E q \in DOMAIN b : k = Len(a) + q
  <2>1. k - Len(a) \in DOMAIN b /\ k = Len(a) + (k - Len(a))
    BY <1>1, <1>3
  <2>. QED
    BY <2>1
<1>4. ASSUME NEW j \in DOMAIN b
      PROVE  /\ Len(a) + j \in DOMAIN (a \o b)
             /\ (a \o b)[Len(a) + j] = b[j]
  <2>1. /\ Len(a) + j \in 1..(Len(a) + Len(b))
        /\ ~(Len(a) + j <= Len(a)) /\ (Len(a) + j) - Len(a) = j
    BY <1>1
  <2>. QED
    BY <1>1, <1>2, <2>1
<1>5. ASSUME NEW j \in DOMAIN a
      PROVE  j \in DOMAIN (a \o b) /\ (a \o b)[j] = a[j]
  <2>1. j \in 1..(Len(a) + Len(b)) /\ j <= Len(a)
    BY <1>1
  <2>. QED
    BY <1>1, <1>2, <2>1
<1>. QED
  BY <1>1, <1>3, <1>4, <1>5

(* Every id of a list is a task whose dependencies stand before it.          *)
Ordered(tasks, list) ==
  \A k \in DOMAIN list : \E i \in DOMAIN tasks :
    /\ tasks[i].id = list[k]
    /\ tasks[i].deps \subseteq {list[j] : j \in 1..(k - 1)}

(* An ordered list may grow by ids that wait only for what is before them. *)
LEMMA OrderedGrows ==
  ASSUME NEW S, NEW tasks, NEW old \in Seq(S), NEW new \in Seq(S),
         Ordered(tasks, old),
         \A q \in DOMAIN new : Follows(tasks, Elems(old), new, q)
  PROVE  Ordered(tasks, old \o new)
<1>. DEFINE all == old \o new
            n == Len(old)
<1>1. /\ n \in Nat /\ DOMAIN old = 1..n /\ DOMAIN new = 1..Len(new)
      /\ \A j \in DOMAIN old : j \in DOMAIN all /\ all[j] = old[j]
      /\ \A j \in DOMAIN new : n + j \in DOMAIN all /\ all[n + j] = new[j]
      /\ \A k \in DOMAIN all : k \in DOMAIN old \/ \E q \in DOMAIN new : k = n + q
  BY ConcatEntries
<1>. HIDE DEF all, n
<1>. SUFFICES ASSUME NEW k \in DOMAIN all
              PROVE  \E i \in DOMAIN tasks :
                       /\ tasks[i].id = all[k]
                       /\ tasks[i].deps \subseteq {all[j] : j \in 1..(k - 1)}
  BY DEF Ordered, all
<1>2. CASE k \in DOMAIN old
  <2>1. PICK i \in DOMAIN tasks :
          /\ tasks[i].id = old[k]
          /\ tasks[i].deps \subseteq {old[j] : j \in 1..(k - 1)}
    BY <1>2 DEF Ordered
  <2>2. /\ all[k] = old[k]
        /\ \A j \in 1..(k - 1) : all[j] = old[j]
    BY <1>1, <1>2
  <2>. QED
    BY <2>1, <2>2
<1>3. ASSUME NEW q \in DOMAIN new, k = n + q
      PROVE  \E i \in DOMAIN tasks :
               /\ tasks[i].id = all[k]
               /\ tasks[i].deps \subseteq {all[j] : j \in 1..(k - 1)}
  <2>1. PICK i \in DOMAIN tasks :
          /\ tasks[i].id = new[q]
          /\ tasks[i].deps \subseteq Elems(old) \cup {new[r] : r \in 1..(q - 1)}
    BY DEF Follows
  <2>2. \A j \in DOMAIN old : j \in 1..(k - 1) /\ all[j] = old[j]
    BY <1>1, <1>3
  <2>3. \A r \in 1..(q - 1) : n + r \in 1..(k - 1) /\ all[n + r] = new[r]
    BY <1>1, <1>3
  <2>4. Elems(old) \subseteq {all[j] : j \in 1..(k - 1)}
    BY <2>2 DEF Elems
  <2>5. {new[r] : r \in 1..(q - 1)} \subseteq {all[j] : j \in 1..(k - 1)}
    BY <2>3
  <2>6. all[k] = new[q]
    BY <1>1, <1>3
  <2>. QED
    BY <2>1, <2>4, <2>5, <2>6
<1>. QED
  BY <1>1, <1>2, <1>3

(* What the state shows as completed is part of the history. *)
LEMMA DoneReported ==
  ASSUME TypeOK, NothingForgotten
  PROVE  Elems(state.completed) \subseteq Elems(Report)
<1>. DEFINE a == archive.completed
            b == state.completed
<1>1. a \o b = Report
  BY DEF NothingForgotten, Report
<1>2. a \in Seq(Ids) /\ b \in Seq(Ids)
  BY DEF TypeOK, State
<1>. HIDE DEF a, b
<1>3. \A i \in DOMAIN b : Len(a) + i \in DOMAIN (a \o b) /\ (a \o b)[Len(a) + i] = b[i]
  BY <1>2, ConcatEntries
<1>4. \A i \in DOMAIN b : Len(a) + i \in DOMAIN Report /\ Report[Len(a) + i] = b[i]
  BY <1>1, <1>3, Zenon
<1>. QED
  BY <1>4 DEF Elems, b

(* The history of a managed run stays ordered when an answer is accepted. *)
LEMMA DependenciesCommit ==
  ASSUME TypeOK, NothingForgotten, Ordered(manifest.plan.tasks, Report),
         Managed(manifest), NEW answer \in Answer, NEW verdict \in Verdicts,
         Commit(answer, verdict)
  PROVE  Ordered(manifest.plan.tasks, Report')
<1>. DEFINE old == reported.completed
            new == answer.completed
            tasks == manifest.plan.tasks
<1>1. /\ manifest \in Manifest /\ old \in Seq(Ids) /\ new \in Seq(Ids)
  BY ManifestsTyped DEF TypeOK, Answer
<1>2. Report' = old \o new /\ Report = old
  BY CommitParts DEF Report
<1>3. AcceptsPrefix(manifest.plan, Elems(state.completed), new)
  BY ManagedCommit
<1>4. Elems(state.completed) \subseteq Elems(old)
  BY DoneReported DEF Report
<1>5. ASSUME NEW q \in DOMAIN new PROVE Follows(tasks, Elems(old), new, q)
  <2>. DEFINE done == Elems(state.completed)
  <2>1. /\ new \in Seq(Ids) /\ q \in DOMAIN new
        /\ AcceptsPrefix(manifest.plan, done, new)
    BY <1>1, <1>3
  <2>. HIDE DEF new, done
  <2>2. Follows(manifest.plan.tasks, done, new, q)
    BY <1>1, <2>1, PrefixInOrder
  <2>3. done \subseteq Elems(old)
    BY <1>4 DEF done
  <2>. QED
    BY <2>2, <2>3 DEF Follows
<1>6. Ordered(tasks, old)
  BY <1>2
<1>. HIDE DEF old, new, tasks
<1>7. Ordered(tasks, old \o new)
  BY <1>1, <1>5, <1>6, OrderedGrows
<1>. QED
  BY <1>2, <1>7, Zenon DEF tasks

(* For every accepted plan, packet cap and limit: the tasks of a managed run *)
(* are accepted in an order in which every task follows its dependencies.    *)
THEOREM TasksInOrder == Spec => []DependenciesFirst
<1>. DEFINE Inv == Managed(manifest) => Ordered(manifest.plan.tasks, Report)
<1>1. Init => Inv
  BY DEF Init, Ordered, Report
<1>2. ASSUME TypeOK, NothingForgotten, Inv, [Next]_vars
      PROVE  Inv'
  <2>1. CASE Step
    <3>1. PICK answer \in Answer, verdict \in Verdicts : Commit(answer, verdict)
      BY <2>1, StepCommits
    <3>2. manifest' = manifest
      BY <3>1 DEF Commit
    <3>3. ASSUME Managed(manifest) PROVE Ordered(manifest.plan.tasks, Report')
      BY <1>2, <3>1, <3>3, DependenciesCommit
    <3>. QED
      BY <3>2, <3>3
  <2>2. CASE UNCHANGED <<manifest, reported>>
    BY <1>2, <2>2 DEF Report
  <2>. QED
    BY <1>2, <2>1, <2>2 DEF Next, Recover, vars
<1>3. Inv => DependenciesFirst
  BY DEF DependenciesFirst, Ordered
<1>. QED
  BY <1>1, <1>2, <1>3, TypeCorrect, HistoryKept, PTL DEF Spec

-----------------------------------------------------------------------------
(* A completion stands on a check of its own revision, or on neither a       *)
(* command nor the duty to have one.                                         *)
CheckInv ==
  state.status = "complete" =>
    (manifest.command \/ ~manifest.unverified => Passed(state, state.rev))

(* An accepted answer completes a run only with its own check. *)
LEMMA CheckCommit ==
  ASSUME TypeOK, NEW answer \in Answer, NEW verdict \in Verdicts,
         Commit(answer, verdict)
  PROVE  CheckInv'
<1>. DEFINE merged == Merged(manifest, state, answer, verdict)
            last == Len(merged.checks)
<1>. SUFFICES ASSUME state'.status = "complete",
                     manifest.command \/ ~manifest.unverified
              PROVE  Passed(state', state'.rev)
  BY CommitParts DEF CheckInv
<1>1. manifest \in Manifest /\ state \in State
  BY ManifestsTyped DEF TypeOK
<1>2. /\ state'.rev = merged.rev /\ merged.rev = state.rev + 1
      /\ state'.checks = merged.checks
      /\ state'.status = StatusAfter(merged, answer.outcome)
  BY CommitParts
<1>3. /\ answer.outcome \in Outcomes
      /\ OutcomeAccepted(manifest, merged, answer.outcome)
      /\ verdict # "none" <=> MustVerify(manifest, answer)
  BY DEF Commit, DeltaAccepted, Answer
<1>4. answer.outcome = "complete" /\ ~(Current(merged) /\ ~merged.checks[last].passed)
  <2>. HIDE DEF merged
  <2>. QED
    BY <1>2, <1>3 DEF StatusAfter, Outcomes
<1>5. Current(merged)
  <2>1. CASE ~manifest.unverified
    BY <1>3, <1>4, <2>1 DEF OutcomeAccepted
  <2>2. CASE manifest.command
    <3>1. verdict # "none"
      BY <1>3, <1>4, <2>2 DEF MustVerify
    <3>2. merged.checks = Append(state.checks, [rev |-> state.rev + 1,
                                                passed |-> verdict = "passed"])
      BY <1>1, <3>1, MergedParts
    <3>3. state.checks \in Seq(Check)
      BY <1>1 DEF State
    <3>. HIDE DEF merged
    <3>4. /\ merged.checks # << >>
          /\ merged.checks[Len(merged.checks)] =
               [rev |-> state.rev + 1, passed |-> verdict = "passed"]
      BY <3>2, <3>3
    <3>. QED
      BY <1>2, <3>4 DEF Current
  <2>. QED
    BY <2>1, <2>2
<1>6. merged.checks \in Seq(Check)
  <2>1. merged \in State
    BY <1>1, MergedParts
  <2>. QED
    BY <2>1 DEF State
<1>. HIDE DEF merged
<1>7. last \in DOMAIN merged.checks /\ merged.checks[last] \in Check
  BY <1>5, <1>6 DEF Current
<1>8. merged.checks[last].rev = merged.rev /\ merged.checks[last].passed = TRUE
  BY <1>4, <1>5, <1>7 DEF Current, Check
<1>9. merged.checks[last] = [rev |-> merged.rev, passed |-> TRUE]
  BY <1>7, <1>8 DEF Check
<1>. QED
  BY <1>2, <1>7, <1>9 DEF Passed

(* Whatever is verified when: no run completes on an old check, a failed     *)
(* check or an unfinished plan.                                              *)
THEOREM CompletionEarned == Spec => []CompleteIsEarned
<1>1. Init => CheckInv
  BY DEF Init, CheckInv
<1>2. ASSUME TypeOK, CheckInv, [Next]_vars PROVE CheckInv'
  <2>1. CASE Step
    BY <1>2, <2>1, StepCommits, CheckCommit
  <2>2. CASE Recover
    BY <1>2, <2>2, RecoverParts DEF CheckInv
  <2>3. CASE UNCHANGED vars
    BY <1>2, <2>3 DEF vars, CheckInv, Passed
  <2>. QED
    BY <1>2, <2>1, <2>2, <2>3 DEF Next
<1>3. ASSUME TypeOK, CheckInv, PlanInv, NothingForgotten
      PROVE  CompleteIsEarned
  <2>. SUFFICES ASSUME state.status = "complete"
                PROVE  PlanIds(manifest.plan) \subseteq Elems(Report)
    BY <1>3 DEF CheckInv, CompleteIsEarned
  <2>1. CASE Managed(manifest)
    <3>1. PlanIds(manifest.plan) \subseteq Elems(state.completed)
      BY <1>3, <2>1 DEF PlanInv, RemainingQueue
    <3>2. Elems(state.completed) \subseteq Elems(Report)
      BY <1>3, DoneReported
    <3>. QED
      BY <3>1, <3>2
  <2>2. CASE ~Managed(manifest)
    BY <2>2 DEF Managed, PlanIds
  <2>. QED
    BY <2>1, <2>2
<1>. QED
  BY <1>1, <1>2, <1>3, TypeCorrect, PlanInvHolds, HistoryKept, PTL DEF Spec

-----------------------------------------------------------------------------
(* The needs of a task of an accepted plan are the dependencies it declares. *)
LEMMA NeedsOfTask ==
  ASSUME NEW plan, ValidPlan(plan), NEW i \in DOMAIN plan.tasks
  PROVE  Needs(plan, plan.tasks[i].id) = plan.tasks[i].deps
<1>1. \A j \in DOMAIN plan.tasks : plan.tasks[j].id = plan.tasks[i].id => j = i
  BY DEF ValidPlan
<1>. QED
  BY <1>1 DEF Needs

(* No task of an accepted plan needs itself or a task that is not of the     *)
(* plan.                                                                     *)
LEMMA NeedsInPlan ==
  ASSUME NEW plan, ValidPlan(plan), NEW t \in PlanIds(plan)
  PROVE  Needs(plan, t) \subseteq PlanIds(plan) \ {t}
<1>1. PICK i \in DOMAIN plan.tasks : plan.tasks[i].id = t
  BY DEF PlanIds
<1>2. Needs(plan, t) = plan.tasks[i].deps
  BY <1>1, NeedsOfTask
<1>3. plan.tasks[i].deps \subseteq PlanIds(plan)
  BY DEF ValidPlan
<1>4. t \notin plan.tasks[i].deps
  <2>1. {i} \in (SUBSET (DOMAIN plan.tasks)) \ {{}}
    OBVIOUS
  <2>2. PICK k \in {i} : \A j \in {i} : plan.tasks[j].id \notin plan.tasks[k].deps
    BY <2>1 DEF ValidPlan, Acyclic
  <2>. QED
    BY <1>1, <2>2
<1>. QED
  BY <1>2, <1>3, <1>4

(* An accepted prefix is a group of tasks of the plan, closed under what     *)
(* they need.                                                                *)
LEMMA PrefixIsGroup ==
  ASSUME NEW m \in Manifest, ValidPlan(m.plan), NEW done,
         NEW completed \in Seq(Ids), AcceptsPrefix(m.plan, done, completed)
  PROVE  /\ Elems(completed) \subseteq PlanIds(m.plan)
         /\ \A t \in Elems(completed) :
              Needs(m.plan, t) \subseteq done \cup Elems(completed)
<1>. SUFFICES ASSUME NEW t \in Elems(completed)
              PROVE  /\ t \in PlanIds(m.plan)
                     /\ Needs(m.plan, t) \subseteq done \cup Elems(completed)
  OBVIOUS
<1>1. PICK q \in DOMAIN completed : t = completed[q]
  BY DEF Elems
<1>2. Follows(m.plan.tasks, done, completed, q)
  BY PrefixInOrder
<1>3. PICK i \in DOMAIN m.plan.tasks :
        /\ m.plan.tasks[i].id = completed[q]
        /\ m.plan.tasks[i].deps \subseteq done \cup {completed[r] : r \in 1..(q - 1)}
  BY <1>2 DEF Follows
<1>4. {completed[r] : r \in 1..(q - 1)} \subseteq Elems(completed)
  <2>1. \A r \in 1..(q - 1) : r \in DOMAIN completed
    OBVIOUS
  <2>. QED
    BY <2>1 DEF Elems
<1>5. Needs(m.plan, t) = m.plan.tasks[i].deps
  BY <1>1, <1>3, NeedsOfTask
<1>. QED
  BY <1>1, <1>3, <1>4, <1>5 DEF PlanIds

(* What an accepted answer of a managed run does to the board.               *)
LEMMA CommitAccepts ==
  ASSUME TypeOK, PlanInv, Managed(manifest), NEW answer \in Answer,
         NEW verdict \in Verdicts, Commit(answer, verdict)
  PROVE  LET plan == manifest.plan
             done == Elems(state.completed)
             group == Elems(answer.completed)
         IN  /\ group \in SUBSET (PlanIds(plan) \ done)
             /\ \A t \in group : Needs(plan, t) \subseteq done \cup group
             /\ Elems(state'.completed) = done \cup group
             /\ \/ state'.status = "complete" /\ done \cup group = PlanIds(plan)
                \/ /\ state'.status = "running" /\ group # {}
                   /\ done \cup group # PlanIds(plan)
                \/ state'.status = "blocked" /\ done \cup group # PlanIds(plan)
             /\ manifest' = manifest
<1>. DEFINE plan == manifest.plan
            done == Elems(state.completed)
            group == Elems(answer.completed)
<1>1. /\ manifest \in Manifest /\ ValidPlan(plan) /\ answer.completed \in Seq(Ids)
      /\ answer.outcome \in Outcomes
  BY ManifestsTyped DEF TypeOK, ValidManifest, Answer
<1>2. /\ AcceptsPrefix(plan, done, answer.completed)
      /\ answer.completed = << >> => answer.outcome = "blocked"
      /\ group \cap done = {}
      /\ Elems(state'.completed) \subseteq PlanIds(plan)
      /\ state'.queue = RemainingQueue(plan, Elems(state'.completed))
      /\ state'.queue = RemainingQueue(plan, done \cup group)
      /\ answer.outcome = "complete" <=> state'.queue = {}
      /\ answer.outcome = "continue" => state'.status = "running"
      /\ answer.outcome = "blocked" => state'.status = "blocked"
      /\ answer.outcome = "complete" => state'.status = "complete"
  BY ManagedCommit
<1>3. done \subseteq PlanIds(plan)
  BY DEF PlanInv
<1>4. /\ group \subseteq PlanIds(plan)
      /\ \A t \in group : Needs(plan, t) \subseteq done \cup group
  BY <1>1, <1>2, PrefixIsGroup
<1>5. Elems(state'.completed) = done \cup group
  BY <1>2, <1>3, <1>4 DEF RemainingQueue
<1>6. state'.queue = {} <=> done \cup group = PlanIds(plan)
  BY <1>2, <1>3, <1>4 DEF RemainingQueue
<1>7. answer.completed # << >> => group # {}
  <2>. SUFFICES ASSUME answer.completed # << >> PROVE group # {}
    OBVIOUS
  <2>1. 1 \in DOMAIN answer.completed
    BY <1>1
  <2>. QED
    BY <2>1 DEF Elems
<1>8. manifest' = manifest
  BY DEF Commit
<1>. HIDE DEF plan, done, group
<1>9. \/ state'.status = "complete" /\ done \cup group = PlanIds(plan)
      \/ /\ state'.status = "running" /\ group # {}
         /\ done \cup group # PlanIds(plan)
      \/ state'.status = "blocked" /\ done \cup group # PlanIds(plan)
  BY <1>1, <1>2, <1>6, <1>7 DEF Outcomes
<1>10. group \in SUBSET (PlanIds(plan) \ done)
  BY <1>2, <1>4
<1>. QED
  BY <1>4, <1>5, <1>8, <1>9, <1>10 DEF plan, done, group

(* A new run is an empty board. *)
LEMMA BoardStarts == Init => B!BoardInit
<1>. SUFFICES ASSUME Init PROVE B!BoardInit
  OBVIOUS
<1>1. \A t \in PlanIds(manifest.plan) :
        Needs(manifest.plan, t) \subseteq PlanIds(manifest.plan) \ {t}
  <2>1. CASE Managed(manifest)
    <3>1. ValidPlan(manifest.plan)
      BY <2>1, ManifestsTyped DEF Init, ValidManifest
    <3>. QED
      BY <3>1, NeedsInPlan
  <2>2. CASE ~Managed(manifest)
    BY <2>2 DEF Managed, PlanIds
  <2>. QED
    BY <2>1, <2>2
<1>2. Elems(state.completed) = {} /\ state.status = "running"
  BY DEF Init, Elems
<1>. QED
  BY <1>1, <1>2 DEF B!BoardInit

(* Every step of a run is a step of the board or leaves it alone. *)
LEMMA BoardSteps ==
  TypeOK /\ PlanInv /\ [Next]_vars => [B!BoardNext]_(B!boardVars)
<1>. SUFFICES ASSUME TypeOK, PlanInv, [Next]_vars
              PROVE  [B!BoardNext]_(B!boardVars)
  OBVIOUS
<1>. USE DEF B!boardVars
<1>1. CASE Step /\ Managed(manifest)
  <2>1. PICK answer \in Answer, verdict \in Verdicts : Commit(answer, verdict)
    BY <1>1, StepCommits
  <2>. DEFINE plan == manifest.plan
              done == Elems(state.completed)
              group == Elems(answer.completed)
  <2>2. /\ group \in SUBSET (PlanIds(plan) \ done)
        /\ \A t \in group : Needs(plan, t) \subseteq done \cup group
        /\ Elems(state'.completed) = done \cup group
        /\ \/ state'.status = "complete" /\ done \cup group = PlanIds(plan)
           \/ /\ state'.status = "running" /\ group # {}
              /\ done \cup group # PlanIds(plan)
           \/ state'.status = "blocked" /\ done \cup group # PlanIds(plan)
        /\ manifest' = manifest
    BY <1>1, <2>1, CommitAccepts
  <2>3. state.status = "running"
    BY <1>1 DEF Step
  <2>4. B!Accept(group)
    BY <1>1, <2>2 DEF B!Accept
  <2>. QED
    BY <1>1, <2>2, <2>3, <2>4 DEF B!BoardNext
<1>2. CASE Step /\ ~Managed(manifest)
  <2>1. manifest' = manifest
    BY <1>2, StepCommits DEF Commit
  <2>. QED
    BY <1>2, <2>1
<1>3. CASE Recover
  BY <1>3, RecoverParts DEF Recover
<1>4. CASE UNCHANGED vars
  BY <1>4 DEF vars
<1>. QED
  BY <1>1, <1>2, <1>3, <1>4 DEF Next

(* For every set of manifests: the answers, checks, compactions and          *)
(* recoveries of a managed run are steps of the task board.                  *)
THEOREM BoardImplemented == Spec => ImplementsBoard
<1>. QED
  BY BoardStarts, BoardSteps, TypeCorrect, PlanInvHolds, PTL
     DEF Spec, ImplementsBoard, B!Board

-----------------------------------------------------------------------------
(* What an accepted answer does to one claim.                              *)
LEMMA ClaimMoves ==
  ASSUME TypeOK, NEW answer \in Answer, NEW verdict \in Verdicts,
         Commit(answer, verdict), NEW c \in Claims
  PROVE  /\ \/ state'.claims[c] = state.claims[c]
            \/ /\ state'.claims[c].status \in Standings
               /\ MayBecome(state.claims[c].status, state'.claims[c].status)
            \/ /\ c \in answer.retire /\ state'.claims[c].status = "none"
               /\ state.claims[c].status = "disputed"
         /\ archive'.claims = archive.claims + Cardinality(answer.retire)
<1>. DEFINE merged == Merged(manifest, state, answer, verdict)
            full == Full(manifest, state, answer, verdict)
<1>1. manifest \in Manifest /\ state \in State
  BY ManifestsTyped DEF TypeOK
<1>2. merged \in State /\ merged.claims = state.claims
  BY <1>1, MergedRest
<1>3. state'.claims = full.claims
  BY <1>1, AfterParts DEF Commit
<1>4. /\ UpsertAccepted(merged, answer, observed) /\ TouchedOnce(answer)
      /\ RetireAccepted(Upserted(merged, answer), answer)
  BY DEF Commit, DeltaAccepted
<1>. HIDE DEF merged
<1>5. /\ full.claims[c] = IF c \in answer.retire THEN NoItem
                          ELSE IF c \in DOMAIN answer.upsert THEN answer.upsert[c]
                          ELSE merged.claims[c]
      /\ Upserted(merged, answer).claims[c] =
           IF c \in DOMAIN answer.upsert THEN answer.upsert[c] ELSE merged.claims[c]
  BY <1>2, LearnedParts DEF Full, merged
<1>. HIDE DEF full
<1>6. archive'.claims = archive.claims + Cardinality(answer.retire)
  BY CommitParts
<1>7. CASE c \in answer.retire
  <2>1. c \notin DOMAIN answer.upsert
    BY <1>4, <1>7 DEF TouchedOnce
  <2>2. Upserted(merged, answer).claims[c].status = "disputed"
    BY <1>4, <1>7 DEF RetireAccepted
  <2>. QED
    BY <1>2, <1>3, <1>5, <1>7, <1>6, <2>1, <2>2 DEF NoItem
<1>8. CASE c \notin answer.retire /\ c \in DOMAIN answer.upsert
  <2>1. answer.upsert[c] \in Item
    BY <1>8 DEF Answer
  <2>2. MayBecome(merged.claims[c].status, answer.upsert[c].status)
    BY <1>4, <1>8 DEF UpsertAccepted
  <2>. QED
    BY <1>2, <1>3, <1>5, <1>8, <1>6, <2>1, <2>2 DEF Item
<1>9. CASE c \notin answer.retire /\ c \notin DOMAIN answer.upsert
  BY <1>2, <1>3, <1>5, <1>9, <1>6
<1>. QED
  BY <1>7, <1>8, <1>9

(* Whatever an answer writes and retires at once: a claim leaves the ledger   *)
(* only from a dispute that an earlier answer recorded, and a verified or    *)
(* disputed claim never falls back.                                         *)
THEOREM KnowledgeStands == Spec => ClaimsMoveForward
<1>. DEFINE Forward ==
       \A c \in Claims :
         LET old == state.claims[c].status
             new == state'.claims[c].status
         IN  /\ old # "none" /\ new = "none" =>
                  old = "disputed" /\ archive'.claims > archive.claims
             /\ old = "verified" => new \in {"verified", "disputed"}
             /\ old = "disputed" => new \in {"disputed", "none"}
<1>1. ASSUME TypeOK, Step PROVE Forward
  <2>1. PICK answer \in Answer, verdict \in Verdicts : Commit(answer, verdict)
    BY <1>1, StepCommits
  <2>2. SUFFICES ASSUME NEW c \in Claims
                 PROVE  LET old == state.claims[c].status
                            new == state'.claims[c].status
                        IN  /\ old # "none" /\ new = "none" =>
                                 old = "disputed" /\ archive'.claims > archive.claims
                            /\ old = "verified" => new \in {"verified", "disputed"}
                            /\ old = "disputed" => new \in {"disputed", "none"}
    OBVIOUS
  <2>3. CASE c \in answer.retire /\ state'.claims[c].status = "none"
             /\ state.claims[c].status = "disputed"
    <3>1. answer.retire \subseteq Claims /\ IsFiniteSet(answer.retire)
      BY FS_Subset, StateAssumption DEF Answer
    <3>2. Cardinality(answer.retire) \in Nat \ {0}
      BY <2>3, <3>1, FS_CardinalityType, FS_EmptySet
    <3>3. archive.claims \in Nat /\ archive'.claims = archive.claims + Cardinality(answer.retire)
      BY <1>1, <2>1, ClaimMoves DEF TypeOK
    <3>. QED
      BY <2>3, <3>2, <3>3
  <2>4. CASE state'.claims[c] = state.claims[c]
    BY <2>4
  <2>5. CASE /\ state'.claims[c].status \in Standings
             /\ MayBecome(state.claims[c].status, state'.claims[c].status)
    BY <2>5 DEF Standings, MayBecome
  <2>. QED
    BY <1>1, <2>1, <2>3, <2>4, <2>5, ClaimMoves
<1>2. ASSUME TypeOK, Recover PROVE Forward
  <2>1. state'.claims = state.claims
    BY <1>2 DEF Recover, TypeOK, State
  <2>. QED
    BY <2>1
<1>3. TypeOK /\ [Next]_vars => [Forward]_vars
  BY <1>1, <1>2 DEF Next
<1>. QED
  BY <1>3, TypeCorrect, PTL DEF Spec, ClaimsMoveForward

-----------------------------------------------------------------------------
(* The limits of the state leave room for every plan (model.rs and            *)
(* validate.rs: 32 tasks; 64, 32 and 32 entries).                           *)
PlansFit ==
  /\ MaxWorkPlanTasks <= MaxQueueItems /\ MaxWorkPlanTasks <= MaxCompletedItems
  /\ MaxWorkPlanTasks <= MaxManagedChecks

(* What a managed run has on disk is valid, and each of its checks but that   *)
(* of a final answer came with a task.                                      *)
RoomLeft ==
  Managed(manifest) =>
    /\ ValidState(manifest, state)
    /\ state.status = "running" => Len(state.checks) <= Len(state.completed)

(* An answer that carries on, completes or blocks, and brings nothing else. *)
Plain(completed, outcome) ==
  [outcome |-> outcome, resummarised |-> FALSE,
   queue |-> [some |-> FALSE, ids |-> {}],
   completed |-> completed, decisions |-> << >>,
   blockers |-> IF outcome = "blocked" THEN "set" ELSE "clear",
   artifacts |-> {}, upsert |-> << >>, retire |-> {}]

(* A list has as many entries as members exactly if none is repeated. *)
LEMMA CountOfList ==
  ASSUME NEW S, NEW l \in Seq(S)
  PROVE  /\ IsFiniteSet(Elems(l)) /\ Cardinality(Elems(l)) \in Nat
         /\ Cardinality(Elems(l)) = Len(l) <=> Distinct(l)
<1>. DEFINE n == Len(l)
<1>1. n \in Nat /\ DOMAIN l = 1..n /\ l \in [1..n -> S]
  OBVIOUS
<1>2. IsFiniteSet(1..n) /\ Cardinality(1..n) = n
  BY <1>1, FS_Interval
<1>. HIDE DEF n
<1>3. l \in Surjection(1..n, Elems(l))
  BY <1>1 DEF Surjection, Elems
<1>4. l \in Injection(1..n, Elems(l)) <=> Distinct(l)
  BY <1>1, <1>3 DEF Injection, IsInjective, Surjection, Distinct
<1>5. /\ IsFiniteSet(Elems(l))
      /\ Cardinality(Elems(l)) = Cardinality(1..n) <=> l \in Injection(1..n, Elems(l))
  BY <1>2, <1>3, FS_Surjection, Zenon
<1>. QED
  BY <1>2, <1>4, <1>5, FS_CardinalityType DEF n

(* Two lists without repetitions and with nothing in common, one after the   *)
(* other.                                                                   *)
LEMMA ConcatDistinct ==
  ASSUME NEW S, NEW a \in Seq(S), NEW b \in Seq(S)
  PROVE  /\ Elems(a \o b) = Elems(a) \cup Elems(b)
         /\ Distinct(a) /\ Distinct(b) /\ Elems(a) \cap Elems(b) = {} => Distinct(a \o b)
<1>. DEFINE all == a \o b
            n == Len(a)
<1>1. /\ n \in Nat /\ DOMAIN a = 1..n /\ DOMAIN b = 1..Len(b)
      /\ \A j \in DOMAIN a : j \in DOMAIN all /\ all[j] = a[j]
      /\ \A j \in DOMAIN b : n + j \in DOMAIN all /\ all[n + j] = b[j]
      /\ \A k \in DOMAIN all : k \in DOMAIN a \/ \E q \in DOMAIN b : k = n + q
  BY ConcatEntries
<1>. HIDE DEF all, n
<1>2. Elems(all) = Elems(a) \cup Elems(b)
  BY <1>1 DEF Elems
<1>3. ASSUME Distinct(a), Distinct(b), Elems(a) \cap Elems(b) = {},
             NEW i \in DOMAIN all, NEW j \in DOMAIN all, all[i] = all[j]
      PROVE  i = j
  <2>1. CASE i \in DOMAIN a /\ j \in DOMAIN a
    BY <1>1, <1>3, <2>1 DEF Distinct
  <2>2. ASSUME NEW p \in DOMAIN b, NEW q \in DOMAIN b, i = n + p, j = n + q
        PROVE  i = j
    BY <1>1, <1>3, <2>2 DEF Distinct
  <2>0. \A k \in DOMAIN a, q \in DOMAIN b : a[k] # b[q]
    BY <1>3 DEF Elems
  <2>3. ASSUME NEW q \in DOMAIN b, j = n + q, i \in DOMAIN a PROVE FALSE
    <3>1. all[i] = a[i] /\ all[j] = b[q]
      BY <1>1, <2>3
    <3>. QED
      BY <1>3, <2>0, <2>3, <3>1
  <2>4. ASSUME NEW q \in DOMAIN b, i = n + q, j \in DOMAIN a PROVE FALSE
    <3>1. all[j] = a[j] /\ all[i] = b[q]
      BY <1>1, <2>4
    <3>. QED
      BY <1>3, <2>0, <2>4, <3>1
  <2>. QED
    BY <1>1, <2>1, <2>2, <2>3, <2>4
<1>4. Distinct(a) /\ Distinct(b) /\ Elems(a) \cap Elems(b) = {} => Distinct(all)
  BY <1>3 DEF Distinct
<1>. QED
  BY <1>2, <1>4 DEF all

(* A plan has as many ids as tasks. *)
LEMMA PlanCount ==
  ASSUME NEW m \in Manifest, ValidPlan(m.plan)
  PROVE  /\ IsFiniteSet(PlanIds(m.plan)) /\ Cardinality(PlanIds(m.plan)) = Len(m.plan.tasks)
         /\ Len(m.plan.tasks) \in Nat /\ Len(m.plan.tasks) <= MaxWorkPlanTasks
<1>. DEFINE tasks == m.plan.tasks
            ids == [i \in DOMAIN tasks |-> tasks[i].id]
<1>1. tasks \in Seq(Task) /\ Len(tasks) \in 1..MaxWorkPlanTasks
  BY DEF Manifest, Plan, ValidPlan
<1>0. \A i \in DOMAIN tasks : tasks[i] \in Task
  BY <1>1
<1>2. \A i \in DOMAIN tasks : tasks[i].id \in Ids
  BY <1>0 DEF Task
<1>3. ids \in Seq(Ids) /\ Len(ids) = Len(tasks)
  BY <1>1, <1>2
<1>4. Elems(ids) = PlanIds(m.plan) /\ Distinct(ids)
  BY DEF Elems, PlanIds, Distinct, ValidPlan
<1>. HIDE DEF ids
<1>. QED
  BY <1>1, <1>3, <1>4, CountOfList, PlanAssumption

(* What an answer to a packet adds to the completed tasks fits the plan, and *)
(* so does one more check.                                                  *)
LEMMA PlanHasRoom ==
  ASSUME PlansFit, NEW m \in Manifest, Managed(m), ValidPlan(m.plan),
         NEW s \in State, ValidState(m, s), NEW completed \in Seq(Ids),
         AcceptsPrefix(m.plan, Elems(s.completed), completed),
         Cardinality(Elems(completed)) = Len(completed),
         Elems(completed) \cap Elems(s.completed) = {}
  PROVE  LET all == s.completed \o completed IN
         /\ all \in Seq(Ids) /\ Distinct(all) /\ Len(all) = Len(s.completed) + Len(completed)
         /\ Elems(all) = Elems(s.completed) \cup Elems(completed)
         /\ Elems(all) \subseteq PlanIds(m.plan)
         /\ Len(all) <= Len(m.plan.tasks) /\ Cardinality(Elems(all)) = Len(all)
         /\ Overflow(all, MaxCompletedItems) = 0 /\ Visible(all, MaxCompletedItems) = all
         /\ s.queue # {} => Len(s.completed) < Len(m.plan.tasks)
<1>. DEFINE all == s.completed \o completed
            plan == m.plan
<1>1. s.completed \in Seq(Ids) /\ Distinct(s.completed) /\ Elems(s.completed) \subseteq PlanIds(plan)
  BY DEF State, ValidState, ValidPlanState
<1>2. Distinct(completed)
  BY CountOfList
<1>3. Elems(completed) \subseteq PlanIds(plan)
  BY PrefixIsGroup
<1>4. /\ all \in Seq(Ids) /\ Len(all) = Len(s.completed) + Len(completed)
      /\ Len(all) \in Nat /\ Len(s.completed) \in Nat
  BY <1>1
<1>5. Elems(all) = Elems(s.completed) \cup Elems(completed) /\ Distinct(all)
  BY <1>1, <1>2, ConcatDistinct
<1>. HIDE DEF all
<1>6. Elems(all) \subseteq PlanIds(plan)
  BY <1>1, <1>3, <1>5
<1>7. /\ IsFiniteSet(PlanIds(plan)) /\ Cardinality(PlanIds(plan)) = Len(plan.tasks)
      /\ Len(plan.tasks) \in Nat /\ Len(plan.tasks) <= MaxWorkPlanTasks
  BY PlanCount
<1>8. Cardinality(Elems(all)) = Len(all) /\ Cardinality(Elems(s.completed)) = Len(s.completed)
  BY <1>1, <1>4, <1>5, CountOfList
<1>9. Len(all) <= Len(plan.tasks)
  BY <1>6, <1>7, <1>8, FS_Subset
<1>10. Len(all) <= MaxCompletedItems
  <2>1. MaxCompletedItems \in Nat /\ MaxWorkPlanTasks \in Nat
    BY StateAssumption, PlanAssumption
  <2>2. MaxWorkPlanTasks <= MaxCompletedItems
    BY DEF PlansFit
  <2>. QED
    BY <1>4, <1>7, <1>9, <2>1, <2>2
<1>11. Overflow(all, MaxCompletedItems) = 0 /\ Visible(all, MaxCompletedItems) = all
  <2>1. Overflow(all, MaxCompletedItems) = 0
    BY <1>4, <1>10, StateAssumption DEF Overflow
  <2>2. SubSeq(all, 1, Len(all)) = all
    BY <1>4, SubSeqFull
  <2>. QED
    BY <2>1, <2>2 DEF Visible
<1>12. ASSUME s.queue # {} PROVE Len(s.completed) < Len(plan.tasks)
  <2>1. Elems(s.completed) # PlanIds(plan)
    BY <1>12 DEF ValidState, ValidPlanState, RemainingQueue
  <2>2. Cardinality(Elems(s.completed)) <= Cardinality(PlanIds(plan))
        /\ Cardinality(Elems(s.completed)) # Cardinality(PlanIds(plan))
    BY <1>1, <1>7, <2>1, FS_Subset
  <2>. QED
    BY <1>4, <1>7, <1>8, <2>2
<1>. QED
  BY <1>4, <1>5, <1>6, <1>8, <1>9, <1>11, <1>12 DEF all
LEMMA PlainTyped ==
  ASSUME NEW completed \in Seq(Ids), NEW outcome \in Outcomes
  PROVE  Plain(completed, outcome) \in Answer
<1>1. << >> \in [{} -> Item]
  OBVIOUS
<1>2. << >> \in UNION {[D -> Item] : D \in SUBSET Claims}
  BY <1>1
<1>3. << >> \in Seq(Decisions)
  BY EmptySeq
<1>. QED
  BY <1>2, <1>3 DEF Plain, Answer

(* What is left of the merge when the answer brings no more than its tasks.  *)
PlainMerged(t, m, s, completed, outcome) ==
  /\ t \in State /\ t.rev = s.rev + 1
  /\ t.queue = RemainingQueue(m.plan, Elems(s.completed) \cup Elems(completed))
  /\ t.completed = s.completed \o completed /\ t.decisions = s.decisions
  /\ t.checks = Append(s.checks, [rev |-> s.rev + 1, passed |-> TRUE])
  /\ t.claims = s.claims /\ t.artifacts = s.artifacts
  /\ t.blocked = (outcome = "blocked")

LEMMA PlainMerges ==
  ASSUME NEW m \in Manifest, Managed(m), NEW s \in State, NEW completed \in Seq(Ids),
         NEW outcome \in Outcomes
  PROVE  PlainMerged(Merged(m, s, Plain(completed, outcome), "passed"),
                     m, s, completed, outcome)
<1>. DEFINE a == Plain(completed, outcome)
            t == Merged(m, s, a, "passed")
<1>1. a \in Answer /\ "passed" \in Verdicts
  BY PlainTyped DEF Verdicts
<1>2. /\ a.completed = completed /\ a.decisions = << >> /\ a.artifacts = {}
      /\ a.blockers = IF outcome = "blocked" THEN "set" ELSE "clear"
  BY DEF Plain
<1>. HIDE DEF a
<1>3. MergedTo(t, m, s, a, "passed")
  BY <1>1, MergedFields
<1>. HIDE DEF t
<1>4. s.decisions \o << >> = s.decisions
  BY ConcatEmptySeq DEF State
<1>5. t.blocked = (outcome = "blocked")
  BY <1>2, <1>3 DEF MergedTo
<1>6. /\ t.decisions = s.decisions /\ t.artifacts = s.artifacts
      /\ t.completed = s.completed \o completed
  BY <1>2, <1>3, <1>4 DEF MergedTo
<1>7. t.checks = Append(s.checks, [rev |-> s.rev + 1, passed |-> TRUE])
  BY <1>3 DEF MergedTo
<1>8. t.queue = RemainingQueue(m.plan, Elems(s.completed) \cup Elems(completed))
  BY <1>2, <1>3 DEF MergedTo
<1>9. PlainMerged(t, m, s, completed, outcome)
  BY <1>3, <1>5, <1>6, <1>7, <1>8 DEF PlainMerged, MergedTo
<1>. QED
  BY <1>9 DEF t, a

(* A check that passed counts on, whatever is appended after it. *)
LEMMA StandsOn ==
  ASSUME NEW s \in State, NEW t \in State, NEW c \in Check,
         t.checks = s.checks \/ t.checks = Append(s.checks, c),
         t.artifacts = s.artifacts, NEW e, Stands(s, e)
  PROVE  Stands(t, e)
<1>1. s.checks \in Seq(Check)
  BY DEF State
<1>2. \A i \in DOMAIN s.checks : i \in DOMAIN t.checks /\ t.checks[i] = s.checks[i]
  BY <1>1
<1>3. \A r : Passed(s, r) => Passed(t, r)
  BY <1>2 DEF Passed
<1>. QED
  BY <1>3 DEF Stands

(* What the state demands of its claims it still demands of the same claims  *)
(* with more checks.                                                        *)
LEMMA ClaimsStand ==
  ASSUME NEW m \in Manifest, NEW s \in State, ValidState(m, s), NEW t \in State,
         NEW k \in Check, t.checks = s.checks \/ t.checks = Append(s.checks, k),
         t.artifacts = s.artifacts, t.claims = s.claims
  PROVE  \A c \in Known(t.claims) :
           /\ \A e \in t.claims[c].evidence : Stands(t, e)
           /\ Supports(t.claims[c].status, t.claims[c].evidence)
<1>1. \A c \in Known(s.claims) :
        /\ \A e \in s.claims[c].evidence : Stands(s, e)
        /\ Supports(s.claims[c].status, s.claims[c].evidence)
  BY DEF ValidState
<1>2. \A e : Stands(s, e) => Stands(t, e)
  BY StandsOn
<1>. QED
  BY <1>1, <1>2

(* There is a packet only while a task is left. *)
LEMMA PacketNeedsTask ==
  ASSUME NEW m \in Manifest, NEW done, NEW completed,
         AcceptsPrefix(m.plan, done, completed)
  PROVE  RemainingQueue(m.plan, done) # {}
<1>1. PICK packet \in Packets(m.plan) : IsPacket(m.plan, done, packet)
  BY DEF AcceptsPrefix
<1>2. PICK n \in 1..m.plan.cap : packet \in [1..n -> DOMAIN m.plan.tasks]
  BY <1>1 DEF Packets
<1>3. m.plan.cap \in Nat
  BY DEF Manifest, Plan
<1>4. 1 \in DOMAIN packet
  BY <1>2, <1>3
<1>5. packet[1] \in Candidates(m.plan, done, SubSeq(packet, 1, 1 - 1))
  BY <1>1, <1>4 DEF IsPacket, IsFirst
<1>6. packet[1] \in DOMAIN m.plan.tasks /\ m.plan.tasks[packet[1]].id \notin done
  BY <1>5 DEF Candidates
<1>. QED
  BY <1>6 DEF RemainingQueue, PlanIds

(* What the packet rules say of an answer that brings only tasks. *)
LEMMA PlainRules ==
  ASSUME NEW m \in Manifest, NEW done, NEW completed \in Seq(Ids), NEW outcome \in Outcomes,
         ValidResponse(m.plan, done, Plain(completed, outcome))
  PROVE  /\ AcceptsPrefix(m.plan, done, completed)
         /\ Cardinality(Elems(completed)) = Len(completed)
         /\ Elems(completed) \cap done = {}
         /\ outcome = "complete" <=>
              RemainingQueue(m.plan, done \cup Elems(completed)) = {}
<1>. DEFINE answer == Plain(completed, outcome)
            rest == RemainingQueue(m.plan, done \cup Elems(completed))
<1>1. answer.completed = completed /\ answer.outcome = outcome
  BY DEF Plain
<1>. HIDE DEF answer
<1>2. ValidResponse(m.plan, done, answer)
  BY DEF answer
<1>3. {answer.completed[k] : k \in DOMAIN answer.completed} = Elems(completed)
  BY <1>1 DEF Elems
<1>4. /\ AcceptsPrefix(m.plan, done, answer.completed)
      /\ Cardinality(Elems(completed)) = Len(answer.completed)
      /\ Elems(completed) \cap done = {}
      /\ OutcomeFits(answer.outcome, rest)
  BY <1>2, <1>3, Zenon DEF ValidResponse
<1>. QED
  BY <1>1, <1>4 DEF OutcomeFits

(* The decisions of a valid state overflow nothing. *)
LEMMA DecisionsFit ==
  ASSUME NEW m \in Manifest, NEW s \in State, ValidState(m, s)
  PROVE  /\ Overflow(s.decisions, MaxDecisions) = 0
         /\ Visible(s.decisions, MaxDecisions) = s.decisions
<1>1. s.decisions \in Seq(Decisions) /\ MaxDecisions \in Nat
  BY StateAssumption DEF State
<1>2. Len(s.decisions) <= MaxDecisions
  BY DEF ValidState, WithinLimits
<1>3. Overflow(s.decisions, MaxDecisions) = 0
  BY <1>1, <1>2 DEF Overflow
<1>4. SubSeq(s.decisions, 1, Len(s.decisions)) = s.decisions
  BY <1>1, SubSeqFull
<1>. QED
  BY <1>3, <1>4 DEF Visible

(* What the plan's answers leave of the rules on a state.  *)
LEMMA PlainIsValid ==
  ASSUME PlansFit, NEW m \in Manifest, Managed(m), ValidPlan(m.plan),
         NEW s \in State, ValidState(m, s), Len(s.checks) <= Len(s.completed),
         NEW completed \in Seq(Ids), NEW outcome \in Outcomes, NEW t \in State,
         ValidResponse(m.plan, Elems(s.completed), Plain(completed, outcome)),
         t.queue = RemainingQueue(m.plan, Elems(s.completed) \cup Elems(completed)),
         t.completed = s.completed \o completed, t.decisions = s.decisions,
         t.checks = Append(s.checks, [rev |-> s.rev + 1, passed |-> TRUE]),
         t.claims = s.claims, t.artifacts = s.artifacts,
         t.blocked = (outcome = "blocked"),
         t.status = IF outcome = "continue" THEN "running" ELSE outcome,
         Fits(t)
  PROVE  ValidState(m, t)
<1>. DEFINE plan == m.plan
            done == Elems(s.completed)
            all == s.completed \o completed
            rest == RemainingQueue(plan, done \cup Elems(completed))
<1>1. /\ AcceptsPrefix(plan, done, completed)
      /\ Cardinality(Elems(completed)) = Len(completed)
      /\ Elems(completed) \cap done = {}
      /\ outcome = "complete" <=> rest = {}
  BY PlainRules
<1>2. /\ all \in Seq(Ids) /\ Distinct(all)
      /\ Elems(all) = done \cup Elems(completed) /\ Elems(all) \subseteq PlanIds(plan)
      /\ Len(all) <= Len(plan.tasks) /\ Cardinality(Elems(all)) = Len(all)
      /\ Overflow(all, MaxCompletedItems) = 0
      /\ s.queue # {} => Len(s.completed) < Len(plan.tasks)
  BY <1>1, PlanHasRoom
<1>3. s.queue # {}
  BY <1>1, PacketNeedsTask DEF ValidState, ValidPlanState
<1>4. /\ IsFiniteSet(PlanIds(plan)) /\ Cardinality(PlanIds(plan)) = Len(plan.tasks)
      /\ Len(plan.tasks) \in Nat /\ Len(plan.tasks) <= MaxWorkPlanTasks
  BY PlanCount
<1>5. /\ MaxWorkPlanTasks \in Nat /\ MaxQueueItems \in Nat /\ MaxCompletedItems \in Nat
      /\ MaxManagedChecks \in Nat
  BY StateAssumption, PlanAssumption
<1>6. t.completed = all /\ Len(all) \in Nat /\ Len(s.completed) \in Nat
  BY <1>2 DEF State
<1>. HIDE DEF all
<1>7. WithinLimits(m, t)
  <2>1. WithinLimits(m, s)
    BY DEF ValidState
  <2>2. Cardinality(t.queue) <= MaxQueueItems
    <3>1. t.queue \subseteq PlanIds(plan)
      BY DEF RemainingQueue
    <3>2. Cardinality(t.queue) \in Nat /\ Cardinality(t.queue) <= Cardinality(PlanIds(plan))
      BY <1>4, <3>1, FS_Subset, FS_CardinalityType
    <3>. QED
      BY <1>4, <1>5, <3>2 DEF PlansFit
  <2>3. Len(t.completed) <= MaxCompletedItems
    BY <1>2, <1>5, <1>6 DEF Overflow
  <2>4. Len(t.checks) <= MaxManagedChecks
    <3>1. s.checks \in Seq(Check)
      BY DEF State
    <3>2. Len(t.checks) = Len(s.checks) + 1 /\ Len(s.checks) \in Nat
      BY <3>1
    <3>3. Len(s.completed) < Len(plan.tasks)
      BY <1>2, <1>3
    <3>4. MaxWorkPlanTasks <= MaxManagedChecks
      BY DEF PlansFit
    <3>. QED
      BY <1>4, <1>5, <1>6, <3>2, <3>3, <3>4
  <2>. QED
    BY <2>1, <2>2, <2>3, <2>4 DEF WithinLimits, CheckLimit
<1>8. Distinct(t.completed) /\ t.queue \cap Elems(t.completed) = {}
  BY <1>2, <1>6 DEF RemainingQueue
<1>9. Distinct(t.decisions)
  BY DEF ValidState
<1>10. \A c \in Known(t.claims) :
         /\ \A e \in t.claims[c].evidence : Stands(t, e)
         /\ Supports(t.claims[c].status, t.claims[c].evidence)
  <2>1. [rev |-> s.rev + 1, passed |-> TRUE] \in Check
    BY DEF State, Check
  <2>. QED
    BY <2>1, ClaimsStand
<1>11. /\ t.status = "complete" => t.queue = {} /\ ~t.blocked
       /\ t.status = "blocked" => t.blocked
  BY <1>1 DEF Outcomes
<1>12. ValidPlanState(plan, t)
  <2>1. t.queue = RemainingQueue(plan, Elems(t.completed))
    BY <1>2, <1>6
  <2>2. ASSUME t.status = "complete"
        PROVE  Cardinality(Elems(t.completed)) = Len(plan.tasks)
    <3>1. RemainingQueue(plan, Elems(all)) = {}
      BY <1>6, <1>11, <2>1, <2>2
    <3>2. Elems(all) = PlanIds(plan)
      BY <1>2, <3>1 DEF RemainingQueue
    <3>. QED
      BY <1>4, <1>6, <3>2
  <2>. QED
    BY <1>2, <1>6, <2>1, <2>2 DEF ValidPlanState
<1>. QED
  BY <1>7, <1>8, <1>9, <1>10, <1>11, <1>12 DEF ValidState

(* The rules on the state take every verified answer that the packet rules    *)
(* take, in a state with room left, if the next one keeps within its budget. *)
LEMMA AnswerFits ==
  ASSUME PlansFit, NEW m \in Manifest, Managed(m), ValidPlan(m.plan),
         NEW s \in State, ValidState(m, s), s.status = "running",
         Len(s.checks) <= Len(s.completed), NEW latest \in BOOLEAN,
         NEW completed \in Seq(Ids), NEW outcome \in Outcomes,
         ValidResponse(m.plan, Elems(s.completed), Plain(completed, outcome)),
         Fits(After(m, s, Plain(completed, outcome), "passed"))
  PROVE  DeltaAccepted(m, s, latest, Plain(completed, outcome), "passed")
<1>. DEFINE a == Plain(completed, outcome)
            merged == Merged(m, s, a, "passed")
            after == After(m, s, a, "passed")
            all == s.completed \o completed
            check == [rev |-> s.rev + 1, passed |-> TRUE]
<1>1. /\ a \in Answer /\ "passed" \in Verdicts
      /\ a.outcome = outcome /\ a.artifacts = {} /\ a.retire = {} /\ a.upsert = << >>
  BY PlainTyped DEF Plain, Verdicts
<1>2. PlainMerged(merged, m, s, completed, outcome)
  BY PlainMerges
<1>3. /\ AcceptsPrefix(m.plan, Elems(s.completed), completed)
      /\ Cardinality(Elems(completed)) = Len(completed)
      /\ Elems(completed) \cap Elems(s.completed) = {}
      /\ outcome = "complete" <=>
           RemainingQueue(m.plan, Elems(s.completed) \cup Elems(completed)) = {}
  BY PlainRules
<1>4. /\ Overflow(all, MaxCompletedItems) = 0 /\ Visible(all, MaxCompletedItems) = all
  BY <1>3, PlanHasRoom
<1>5. /\ Overflow(s.decisions, MaxDecisions) = 0
      /\ Visible(s.decisions, MaxDecisions) = s.decisions
  BY DecisionsFit
<1>. HIDE DEF a, all, merged
<1>6. /\ merged.rev = s.rev + 1 /\ merged.checks = Append(s.checks, check)
      /\ merged.completed = all /\ merged.decisions = s.decisions
      /\ merged.blocked = (outcome = "blocked") /\ merged.claims = s.claims
      /\ merged.queue = RemainingQueue(m.plan, Elems(s.completed) \cup Elems(completed))
      /\ merged \in State /\ merged.artifacts = s.artifacts
  BY <1>2 DEF PlainMerged, all
<1>7. Current(merged) /\ merged.checks[Len(merged.checks)].passed
  <2>1. s.checks \in Seq(Check) /\ check \in Check
    BY DEF State, Check
  <2>. HIDE DEF check
  <2>2. merged.checks # << >> /\ merged.checks[Len(merged.checks)] = check
    BY <1>6, <2>1
  <2>. QED
    BY <1>6, <2>2 DEF Current, check
<1>8. OutcomeAccepted(m, merged, outcome)
  BY <1>3, <1>6, <1>7 DEF OutcomeAccepted
<1>9. StatusAfter(merged, outcome) = IF outcome = "continue" THEN "running" ELSE outcome
  BY <1>7 DEF StatusAfter, Outcomes
<1>10. CompactAccepted(merged, a)
  BY <1>4, <1>5, <1>6 DEF CompactAccepted
<1>11. UpsertAccepted(merged, a, latest) /\ TouchedOnce(a)
       /\ RetireAccepted(Upserted(merged, a), a)
  BY <1>1 DEF UpsertAccepted, TouchedOnce, RetireAccepted
<1>12. /\ after \in State /\ after.status = StatusAfter(merged, outcome)
       /\ after.queue = merged.queue /\ after.checks = merged.checks
       /\ after.completed = Visible(merged.completed, MaxCompletedItems)
       /\ after.decisions = Visible(merged.decisions, MaxDecisions)
       /\ after.artifacts = merged.artifacts /\ after.blocked = merged.blocked
       /\ after.claims = Full(m, s, a, "passed").claims
  BY <1>1, AfterParts DEF merged
<1>0. Fits(after)
  BY DEF a
<1>13. after.claims = s.claims
  <2>1. Full(m, s, a, "passed") = Learned(merged, a)
    BY DEF Full, merged
  <2>2. \A c \in Claims : Learned(merged, a).claims[c] = merged.claims[c]
    BY <1>1, <1>6, LearnedParts
  <2>3. after.claims \in [Claims -> Item \cup {NoItem}]
        /\ s.claims \in [Claims -> Item \cup {NoItem}]
    BY <1>12 DEF State
  <2>. HIDE DEF after
  <2>. QED
    BY <1>6, <1>12, <2>1, <2>2, <2>3
<1>. HIDE DEF after
<1>14. ValidState(m, after)
  <2>1. /\ after.completed = s.completed \o completed /\ after.decisions = s.decisions
        /\ after.status = IF outcome = "continue" THEN "running" ELSE outcome
        /\ after.checks = Append(s.checks, [rev |-> s.rev + 1, passed |-> TRUE])
        /\ after.queue = RemainingQueue(m.plan, Elems(s.completed) \cup Elems(completed))
        /\ after.artifacts = s.artifacts /\ after.blocked = (outcome = "blocked")
    BY <1>4, <1>5, <1>6, <1>9, <1>12 DEF all
  <2>. QED
    BY <1>0, <1>12, <1>13, <2>1, PlainIsValid
<1>. QED
  BY <1>1, <1>8, <1>10, <1>11, <1>14, Zenon DEF DeltaAccepted, merged, after, a

LEMMA RoomAtFirst == ASSUME PlansFit, Init PROVE RoomLeft
<1>. SUFFICES ASSUME Managed(manifest)
              PROVE  ValidState(manifest, state) /\ Len(state.checks) <= Len(state.completed)
  BY DEF RoomLeft
<1>1. manifest \in Manifest /\ ValidPlan(manifest.plan)
  BY ManifestsTyped DEF Init, ValidManifest
<1>2. /\ state.queue = PlanIds(manifest.plan) /\ state.status = "running"
      /\ state.completed = << >> /\ state.decisions = << >> /\ state.checks = << >>
      /\ state.artifacts = {} /\ state.claims = [c \in Claims |-> NoItem]
  BY DEF Init
<1>3. Known(state.claims) = {} /\ Elems(<< >>) = {} /\ Distinct(<< >>)
  BY <1>2 DEF Known, Elems, Distinct
<1>4. Cardinality(state.queue) <= MaxQueueItems
  <2>1. MaxWorkPlanTasks \in Nat /\ MaxQueueItems \in Nat
    BY StateAssumption, PlanAssumption
  <2>. QED
    BY <1>1, <1>2, <2>1, PlanCount DEF PlansFit
<1>5. WithinLimits(manifest, state)
  <2>1. Cardinality({}) = 0 /\ Len(<< >>) = 0
    BY FS_EmptySet
  <2>2. /\ 0 <= MaxCompletedItems /\ 0 <= MaxDecisions /\ 0 <= MaxManagedChecks
        /\ 0 <= MaxChecks /\ 0 <= MaxArtifacts /\ 0 <= MaxEpistemicItems
    BY StateAssumption
  <2>. QED
    BY <1>2, <1>3, <1>4, <2>1, <2>2 DEF WithinLimits, CheckLimit
<1>6. ValidPlanState(manifest.plan, state)
  BY <1>2, <1>3 DEF ValidPlanState, RemainingQueue
<1>7. Fits(state)
  <2>1. Size(state) = Cardinality(state.queue)
    <3>1. Cardinality(state.queue) \in Nat
      BY <1>1, <1>2, PlanCount
    <3>2. Len(state.completed) = 0 /\ Len(state.decisions) = 0 /\ Len(state.checks) = 0
          /\ Cardinality(state.artifacts) = 0 /\ Cardinality(Known(state.claims)) = 0
      BY <1>2, <1>3, FS_EmptySet
    <3>. QED
      BY <3>1, <3>2 DEF Size
  <2>2. manifest \in Manifests
    BY DEF Init
  <2>. QED
    BY <1>2, <2>1, <2>2, StateAssumption DEF Fits
<1>8. ValidState(manifest, state)
  BY <1>2, <1>3, <1>5, <1>6, <1>7 DEF ValidState
<1>. QED
  BY <1>2, <1>8

LEMMA RoomKept ==
  ASSUME PlansFit, TypeOK, RoomLeft, NEW answer \in Answer, NEW verdict \in Verdicts,
         Commit(answer, verdict)
  PROVE  RoomLeft'
<1>. SUFFICES ASSUME Managed(manifest)
              PROVE  /\ ValidState(manifest, state')
                     /\ state'.status = "running" =>
                          Len(state'.checks) <= Len(state'.completed)
  BY DEF RoomLeft, Commit
<1>. DEFINE merged == Merged(manifest, state, answer, verdict)
            all == state.completed \o answer.completed
<1>1. manifest \in Manifest /\ ValidPlan(manifest.plan) /\ state \in State
  BY ManifestsTyped DEF TypeOK, ValidManifest
<1>2. /\ state.status = "running" /\ ValidState(manifest, state') /\ verdict = "passed"
      /\ ValidResponse(manifest.plan, Elems(state.completed), answer)
  BY DEF Commit, DeltaAccepted, PacketAccepted
<1>3. ValidState(manifest, state) /\ Len(state.checks) <= Len(state.completed)
  BY <1>2 DEF RoomLeft
<1>4. /\ state'.checks = merged.checks /\ state'.status = StatusAfter(merged, answer.outcome)
      /\ state'.completed = Visible(all, MaxCompletedItems)
  BY CommitParts
<1>5. merged.checks = Append(state.checks, [rev |-> state.rev + 1, passed |-> TRUE])
  BY <1>1, <1>2, MergedParts
<1>6. /\ AcceptsPrefix(manifest.plan, Elems(state.completed), answer.completed)
      /\ Cardinality(Elems(answer.completed)) = Len(answer.completed)
      /\ Elems(answer.completed) \cap Elems(state.completed) = {}
      /\ answer.completed = << >> => answer.outcome = "blocked"
  BY <1>2 DEF ValidResponse, Elems
<1>7. answer.completed \in Seq(Ids) /\ state.completed \in Seq(Ids)
      /\ state.checks \in Seq(Check)
  BY <1>1 DEF Answer, State
<1>8. Visible(all, MaxCompletedItems) = all
      /\ Len(all) = Len(state.completed) + Len(answer.completed)
  BY <1>1, <1>3, <1>6, <1>7, PlanHasRoom
<1>9. Len(state'.checks) = Len(state.checks) + 1
  <2>1. [rev |-> state.rev + 1, passed |-> TRUE] \in Check
    BY <1>1 DEF State, Check
  <2>. QED
    BY <1>4, <1>5, <1>7, <2>1
<1>10. ASSUME state'.status = "running" PROVE Len(state'.checks) <= Len(state'.completed)
  <2>1. answer.outcome # "blocked"
    BY <1>4, <1>10 DEF StatusAfter
  <2>2. answer.completed # << >>
    BY <1>6, <2>1
  <2>3. Len(answer.completed) >= 1 /\ Len(answer.completed) \in Nat
    BY <1>7, <2>2
  <2>4. Len(state.completed) \in Nat /\ Len(state.checks) \in Nat
    BY <1>7
  <2>5. Len(state'.completed) = Len(state.completed) + Len(answer.completed)
    BY <1>4, <1>8
  <2>6. \A k, n, a \in Nat : k <= n /\ a >= 1 => k + 1 <= n + a
    OBVIOUS
  <2>7. Len(state.checks) + 1 <= Len(state.completed) + Len(answer.completed)
    BY <1>3, <2>3, <2>4, <2>6
  <2>. QED
    BY <1>9, <2>5, <2>7, Zenon
<1>. QED
  BY <1>2, <1>10

LEMMA RoomRecovered == ASSUME TypeOK, RoomLeft, Recover PROVE RoomLeft'
<1>. SUFFICES ASSUME Managed(manifest)
              PROVE  ValidState(manifest, state') /\ Len(state'.checks) <= Len(state'.completed)
  BY DEF RoomLeft, Recover
<1>1. state \in State /\ state.status = "running"
  BY DEF TypeOK, Recover
<1>2. ValidState(manifest, state) /\ Len(state.checks) <= Len(state.completed)
  BY <1>1 DEF RoomLeft
<1>3. /\ state' \in State /\ state' = [state EXCEPT !.rev = state.rev + 1]
      /\ state'.status = "running"
  BY RecoverParts DEF TypeOK
<1>4. /\ state'.queue = state.queue /\ state'.completed = state.completed
      /\ state'.decisions = state.decisions /\ state'.checks = state.checks
      /\ state'.artifacts = state.artifacts /\ state'.claims = state.claims
      /\ state'.blocked = state.blocked
  BY <1>1, <1>3 DEF State
<1>5. WithinLimits(manifest, state') /\ ValidPlanState(manifest.plan, state')
  BY <1>2, <1>3, <1>4 DEF ValidState, WithinLimits, CheckLimit, ValidPlanState
<1>6. \A c \in Known(state'.claims) :
        /\ \A e \in state'.claims[c].evidence : Stands(state', e)
        /\ Supports(state'.claims[c].status, state'.claims[c].evidence)
  <2>1. \A e : Stands(state, e) => Stands(state', e)
    BY <1>4 DEF Stands, Passed
  <2>. QED
    BY <1>2, <1>4, <2>1 DEF ValidState
<1>7. Fits(state')
  BY <1>2, <1>4 DEF ValidState, Fits, Size
<1>. QED
  BY <1>2, <1>3, <1>4, <1>5, <1>6, <1>7 DEF ValidState

(* PacketRulesSuffice: whatever the packet rules take, verified, the rules on *)
(* the state take as well, in every managed run, unless the state outgrows   *)
(* its budget in bytes, as long as its other limits leave room for a whole   *)
(* plan, as the constants of the code do (validate_state).                   *)
THEOREM PacketsAreTaken == ASSUME PlansFit PROVE Spec => []PacketRulesSuffice
<1>1. Init => RoomLeft
  BY RoomAtFirst
<1>2. TypeOK /\ RoomLeft /\ [Next]_vars => RoomLeft'
  <2>. SUFFICES ASSUME TypeOK, RoomLeft, [Next]_vars PROVE RoomLeft'
    OBVIOUS
  <2>1. CASE Step
    BY <2>1, StepCommits, RoomKept
  <2>2. CASE Recover
    BY <2>2, RoomRecovered
  <2>3. CASE UNCHANGED vars
    BY <2>3 DEF vars, RoomLeft
  <2>. QED
    BY <2>1, <2>2, <2>3 DEF Next
<1>3. TypeOK /\ RoomLeft => PacketRulesSuffice
  <2>. SUFFICES ASSUME TypeOK, RoomLeft, Managed(manifest), state.status = "running",
                       NEW completed \in Lists(Ids), NEW outcome \in Outcomes,
                       PacketAccepted(manifest, state, Plain(completed, outcome), "passed"),
                       Fits(After(manifest, state, Plain(completed, outcome), "passed"))
                PROVE  DeltaAccepted(manifest, state, observed,
                                     Plain(completed, outcome), "passed")
    BY Zenon DEF PacketRulesSuffice, Plain
  <2>1. manifest \in Manifest /\ ValidPlan(manifest.plan) /\ state \in State
        /\ observed \in BOOLEAN
    BY ManifestsTyped DEF TypeOK, ValidManifest
  <2>2. ValidState(manifest, state) /\ Len(state.checks) <= Len(state.completed)
    BY DEF RoomLeft
  <2>3. ValidResponse(manifest.plan, Elems(state.completed), Plain(completed, outcome))
    BY DEF PacketAccepted
  <2>4. completed \in Seq(Ids)
    BY ListsAreSeqs
  <2>. QED
    BY <2>1, <2>2, <2>3, <2>4, AnswerFits
<1>. QED
  BY <1>1, <1>2, <1>3, TypeCorrect, PTL DEF Spec
=============================================================================
