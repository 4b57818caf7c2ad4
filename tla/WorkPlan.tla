------------------------------ MODULE WorkPlan ------------------------------
(***************************************************************************)
(* The immutable work plan of a managed run: which plans are accepted,     *)
(* which tasks the next packet holds, and which answers to a packet the    *)
(* engine takes (runtime/packet.rs).                                       *)
(*                                                                         *)
(* A task is an id, its class and its dependencies; the class stands for   *)
(* what two tasks of one packet must share: group, risk and scope set.     *)
(* Texts and paths are left out.  A queue is the set of its ids: a plan    *)
(* fixes the order, and a queue in another order is refused like any other *)
(* wrong queue.                                                            *)
(***************************************************************************)
EXTENDS Naturals, Sequences, FiniteSets

CONSTANTS
  Ids,              \* ids of tasks
  Classes,          \* group, risk and scope of a task
  MaxWorkPlanTasks, \* MAX_WORK_PLAN_TASKS
  MaxPacketTasks    \* MAX_PACKET_TASKS

ASSUME PlanAssumption ==
  /\ MaxWorkPlanTasks \in Nat \ {0} /\ MaxPacketTasks \in Nat \ {0}

Task == [id : Ids, class : Classes, deps : SUBSET Ids]
Plan == [cap : Nat, tasks : Seq(Task)]

PlanIds(plan) == {plan.tasks[i].id : i \in DOMAIN plan.tasks}

(* Every set of tasks holds one that depends on no other of the set. *)
Acyclic(plan) ==
  \A S \in (SUBSET (DOMAIN plan.tasks)) \ {{}} : \E i \in S :
    \A j \in S : plan.tasks[j].id \notin plan.tasks[i].deps

ValidPlan(plan) ==
  /\ plan.cap \in 1..MaxPacketTasks
  /\ Len(plan.tasks) \in 1..MaxWorkPlanTasks
  /\ \A i, j \in DOMAIN plan.tasks :
       plan.tasks[i].id = plan.tasks[j].id => i = j
  /\ \A i \in DOMAIN plan.tasks : plan.tasks[i].deps \subseteq PlanIds(plan)
  /\ Acyclic(plan)

RemainingQueue(plan, done) == PlanIds(plan) \ done

-----------------------------------------------------------------------------
(* A packet is a sequence of positions in the plan. *)
PacketIds(plan, packet) == {plan.tasks[packet[k]].id : k \in DOMAIN packet}

(* The tasks that may follow the packet so far: not done, of the class of its *)
(* first task, and waiting for nothing but what is done or in the packet.     *)
Candidates(plan, done, packet) ==
  LET taken == PacketIds(plan, packet) IN
  {i \in DOMAIN plan.tasks :
     /\ plan.tasks[i].id \notin done \cup taken
     /\ plan.tasks[i].deps \subseteq done \cup taken
     /\ packet # << >> => plan.tasks[i].class = plan.tasks[packet[1]].class}

(* `find` takes the first in declaration order. *)
IsFirst(i, S) == i \in S /\ \A j \in S : i <= j

(* The packet select_tasks returns: grown by the first candidate until the   *)
(* cap is reached or none is left.  It has a first task or is an error.      *)
IsPacket(plan, done, packet) ==
  /\ packet # << >> /\ Len(packet) <= plan.cap
  /\ \A k \in DOMAIN packet :
       IsFirst(packet[k], Candidates(plan, done, SubSeq(packet, 1, k - 1)))
  /\ Len(packet) < plan.cap => Candidates(plan, done, packet) = {}

Packets(plan) == UNION {[1..n -> DOMAIN plan.tasks] : n \in 1..plan.cap}

(* Mutant: any part of the packet may be accepted, in any order. *)
AcceptsMembers(plan, done, completed) ==
  \E packet \in Packets(plan) :
    /\ IsPacket(plan, done, packet)
    /\ \A k \in DOMAIN completed : completed[k] \in PacketIds(plan, packet)

(* What was completed must be a prefix of the packet. *)
AcceptsPrefix(plan, done, completed) ==
  \E packet \in Packets(plan) :
    /\ IsPacket(plan, done, packet)
    /\ Len(completed) <= Len(packet)
    /\ \A k \in DOMAIN completed : completed[k] = plan.tasks[packet[k]].id

(* Mutant: accepting the last task without completing the run is allowed. *)
MayRunOn(outcome, rest) == outcome = "complete" => rest = {}

(* Complete exactly when nothing remains. *)
OutcomeFits(outcome, rest) == outcome = "complete" <=> rest = {}

(* The prefix is nonempty unless the answer is blocked, nothing is accepted  *)
(* twice, the answer proposes no other queue than the plan's, and its        *)
(* outcome fits.                                                             *)
ValidResponse(plan, done, answer) ==
  LET accepted == {answer.completed[k] : k \in DOMAIN answer.completed}
      rest == RemainingQueue(plan, done \cup accepted)
  IN  /\ answer.completed = << >> => answer.outcome = "blocked"
      /\ AcceptsPrefix(plan, done, answer.completed)
      /\ Cardinality(accepted) = Len(answer.completed)
      /\ accepted \cap done = {}
      /\ answer.queue.some => answer.queue.ids = rest
      /\ OutcomeFits(answer.outcome, rest)
=============================================================================
