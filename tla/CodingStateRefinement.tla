----------------------- MODULE CodingStateRefinement -----------------------
(***************************************************************************)
(* CodingState implements TaskBoard: a managed run accepts the tasks of    *)
(* its plan as the board demands.  A run without a plan has an empty board *)
(* that nobody touches.                                                    *)
(***************************************************************************)
EXTENDS CodingState

Needs(plan, t) ==
  UNION {plan.tasks[i].deps : i \in {i \in DOMAIN plan.tasks : plan.tasks[i].id = t}}

B == INSTANCE TaskBoard WITH
       needs  <- [t \in PlanIds(manifest.plan) |-> Needs(manifest.plan, t)],
       done   <- IF Managed(manifest) THEN Elems(state.completed) ELSE {},
       status <- IF Managed(manifest) THEN state.status ELSE "running"

(* Answers, checks, compactions and recoveries of a managed run are a        *)
(* behaviour of the task board.                                              *)
ImplementsBoard == B!Board
=============================================================================
