----------------------------- MODULE CycleCheck -----------------------------
(***************************************************************************)
(* reject_cycles, the loop that decides whether the tasks of a plan can be *)
(* worked off, step by step: a task is marked when all it depends on is    *)
(* marked; passes over the tasks repeat until every task is marked or a    *)
(* pass marks none.                                                        *)
(***************************************************************************)
EXTENDS WorkPlan

(* The plans that reach the loop: ids are unique and dependencies known. *)
CONSTANT Plans

WellFormed(plan) ==
  /\ plan.tasks # << >>
  /\ \A i, j \in DOMAIN plan.tasks :
       plan.tasks[i].id = plan.tasks[j].id => i = j
  /\ \A i \in DOMAIN plan.tasks : plan.tasks[i].deps \subseteq PlanIds(plan)

ASSUME LoopAssumption == Plans \subseteq {plan \in Plan : WellFormed(plan)}

VARIABLES plan,
          completed,  \* the ids marked so far
          before,     \* how many were marked when the pass began
          next,       \* the position the pass looks at
          verdict

loopVars == <<plan, completed, before, next, verdict>>

Tasks == plan.tasks

LoopInit ==
  /\ plan \in Plans /\ completed = {} /\ before = 0 /\ next = 1
  /\ verdict = "none"

(* Mutant: one marked dependency is enough. *)
SettlesOnAny(task) == task.deps = {} \/ task.deps \cap completed # {}

Settles(task) == task.deps \subseteq completed

Look ==
  /\ verdict = "none" /\ next <= Len(Tasks)
  /\ completed' = IF Settles(Tasks[next]) THEN completed \cup {Tasks[next].id}
                  ELSE completed
  /\ next' = next + 1
  /\ UNCHANGED <<plan, before, verdict>>

EndPass ==
  /\ verdict = "none" /\ next > Len(Tasks)
  /\ \/ /\ Cardinality(completed) = Len(Tasks)
        /\ verdict' = "accepted" /\ UNCHANGED <<before, next>>
     \/ /\ Cardinality(completed) # Len(Tasks) /\ Cardinality(completed) = before
        /\ verdict' = "refused" /\ UNCHANGED <<before, next>>
     \/ /\ Cardinality(completed) # Len(Tasks) /\ Cardinality(completed) # before
        /\ before' = Cardinality(completed) /\ next' = 1 /\ UNCHANGED verdict
  /\ UNCHANGED <<plan, completed>>

LoopNext == Look \/ EndPass

LoopSpec == LoopInit /\ [][LoopNext]_loopVars

(* Whatever the order of declaration: the loop accepts a plan exactly when   *)
(* every set of its tasks holds one that waits for no other of the set.      *)
LoopFindsCycles ==
  /\ verdict = "accepted" => Acyclic(plan)
  /\ verdict = "refused" => ~Acyclic(plan)
=============================================================================
