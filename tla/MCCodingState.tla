--------------------------- MODULE MCCodingState ---------------------------
(* CodingState on small instances: every plan of three tasks in two        *)
(* classes, with packets of up to two; and runs without a plan.            *)
EXTENDS CodingStateRefinement, TLC

CONSTANTS t1, t2, t3, c1, c2, d1, d2, k1, file

MCIds == {t1, t2, t3}
Order == <<t1, t2, t3>>

Plans ==
  {plan \in {[cap |-> cap, tasks |-> [i \in 1..3 |->
               [id |-> Order[i], class |-> class[i], deps |-> deps[i]]]] :
               cap \in {2}, class \in [1..3 -> {c1, c2}],
               deps \in [1..3 -> SUBSET MCIds]} :
     plan.tasks[1].class = c1 /\ ValidPlan(plan)}

(* The right queue of some states, and a wrong one of all others. *)
PlanProposals == {{}, {t3}}

NoPlan == [cap |-> 0, tasks |-> << >>]

ManagedRuns == {[plan |-> plan, command |-> TRUE, everyStep |-> FALSE,
                 unverified |-> FALSE] : plan \in Plans}

(* Without a command nothing is verified, whatever the other flags say. *)
OpenRuns == {m \in [plan : {NoPlan}, command : BOOLEAN, everyStep : BOOLEAN,
                    unverified : BOOLEAN] : m.everyStep => m.command}

VerifiedRuns == {m \in OpenRuns : m.everyStep /\ ~m.unverified}
=============================================================================
