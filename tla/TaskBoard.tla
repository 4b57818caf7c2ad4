----------------------------- MODULE TaskBoard -----------------------------
(***************************************************************************)
(* What a managed run promises about its plan: tasks are accepted in       *)
(* groups, each group closed under dependencies; nothing accepted is taken *)
(* back; the run is complete exactly when the last task is accepted, and a *)
(* blocked or complete run is final.  CodingState implements it.           *)
(***************************************************************************)
VARIABLES needs,  \* task -> the tasks it depends on
          done,   \* the accepted tasks
          status

boardVars == <<needs, done, status>>

BoardInit ==
  /\ \A t \in DOMAIN needs : needs[t] \subseteq DOMAIN needs \ {t}
  /\ done = {} /\ status = "running"

(* A group of tasks, none of them waiting for a task outside of it.  A group *)
(* may be empty only to give up.                                             *)
Accept(group) ==
  /\ \A t \in group : needs[t] \subseteq done \cup group
  /\ done' = done \cup group
  /\ \/ status' = "complete" /\ done' = DOMAIN needs
     \/ status' = "running" /\ group # {} /\ done' # DOMAIN needs
     \/ status' = "blocked" /\ done' # DOMAIN needs
  /\ UNCHANGED needs

BoardNext ==
  /\ status = "running"
  /\ \E group \in SUBSET (DOMAIN needs \ done) : Accept(group)

Board == BoardInit /\ [][BoardNext]_boardVars
=============================================================================
