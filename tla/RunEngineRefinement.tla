------------------------ MODULE RunEngineRefinement ------------------------
(***************************************************************************)
(* RunEngine implements RunContract: the many durable writes of a step and *)
(* of a recovery map to the contract's single moves or to stutters.        *)
(***************************************************************************)
EXTENDS RunEngine

Unrecorded == intent.kind # "none" /\ intent.attempt \notin DOMAIN attempts

C == INSTANCE RunContract WITH
       revision   <- state.rev,
       status     <- state.status,
       dispatched <- Cardinality(DOMAIN attempts) + (IF Unrecorded THEN 1 ELSE 0),
       recorded   <- Cardinality(DOMAIN attempts),
       open       <- intent.kind # "none",
       noted      <- recovery.some,
       credited   <- intent.kind # "none" /\ state.rev # intent.base

(* Stepping and recovering a run, with every crash and failed write in      *)
(* between, is a behaviour of the contract.                                 *)
ImplementsContract == C!Contract
=============================================================================
