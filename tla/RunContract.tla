---------------------------- MODULE RunContract ----------------------------
(***************************************************************************)
(* What stepping and recovering a bounded run promises, however many       *)
(* durable writes a command needs: one worker attempt is open at a time,   *)
(* every opened attempt is recorded exactly once, an attempt is credited   *)
(* with a revision at most once while its intent stands, nothing is        *)
(* dispatched over an unresolved attempt, and a terminal status is final.  *)
(* RunEngine implements it, see RunEngineRefinement.                       *)
(***************************************************************************)
EXTENDS Naturals

CONSTANT MaxSteps          \* manifest.max_steps, a number

VARIABLES revision,        \* revision of the run
          status,          \* "running" until a commit makes it terminal
          dispatched,      \* attempts ever opened
          recorded,        \* attempts with an immutable record
          open,            \* the intent of an attempt stands
          noted,           \* an ambiguous attempt waits for an operator
          credited         \* the open attempt already gained a revision

contractVars ==
  <<revision, status, dispatched, recorded, open, noted, credited>>

ContractInit ==
  /\ revision = 0 /\ status = "running"
  /\ dispatched = 0 /\ recorded = 0
  /\ open = FALSE /\ noted = FALSE /\ credited = FALSE

(* A worker attempt is opened when no earlier one is unresolved. *)
Open ==
  /\ ~open /\ ~noted
  /\ status = "running" /\ dispatched < MaxSteps
  /\ dispatched' = dispatched + 1
  /\ open' = TRUE
  /\ UNCHANGED <<revision, status, recorded, noted, credited>>

(* The accepted response of the open attempt becomes the next revision. *)
Commit ==
  /\ open /\ ~noted /\ ~credited /\ recorded < dispatched
  /\ status = "running"
  /\ status' \in {"running", "complete", "blocked"}
  /\ revision' = revision + 1
  /\ credited' = TRUE
  /\ UNCHANGED <<dispatched, recorded, open, noted>>

(* The open attempt gets its record. *)
Record ==
  /\ open /\ recorded < dispatched
  /\ recorded' = recorded + 1
  /\ UNCHANGED <<revision, status, dispatched, open, noted, credited>>

(* A recorded attempt that gained no revision is put to the operator. *)
Note ==
  /\ open /\ ~credited /\ recorded = dispatched
  /\ noted' = TRUE
  /\ UNCHANGED <<revision, status, dispatched, recorded, open, credited>>

(* The operator's observation becomes a revision of the unresolved run. *)
Acknowledge ==
  /\ noted \/ (open /\ ~credited)
  /\ recorded = dispatched
  /\ status = "running"
  /\ revision' = revision + 1
  /\ credited' = open
  /\ UNCHANGED <<status, dispatched, recorded, open, noted>>

(* What blocked the run is removed: first the note, then the intent. *)
Unnote ==
  /\ noted /\ recorded = dispatched
  /\ noted' = FALSE
  /\ UNCHANGED <<revision, status, dispatched, recorded, open, credited>>

Close ==
  /\ open /\ recorded = dispatched
  /\ open' = FALSE /\ credited' = FALSE
  /\ UNCHANGED <<revision, status, dispatched, recorded, noted>>

ContractNext ==
  Open \/ Commit \/ Record \/ Note \/ Acknowledge \/ Unnote \/ Close

Contract == ContractInit /\ [][ContractNext]_contractVars
=============================================================================
