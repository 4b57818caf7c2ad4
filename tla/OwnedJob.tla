------------------------------ MODULE OwnedJob ------------------------------
(***************************************************************************)
(* What the scheduler of the monitor promises: one claim covers the job and *)
(* its files.  Nothing of ours exists without the claim, so that `disable`  *)
(* always finds it; what is not ours is never changed.                      *)
(***************************************************************************)
CONSTANTS Resources, Nothing, Ours, Foreign

VARIABLES
  claimed, \* we hold the ownership manifest
  parts    \* the job and its files: Nothing, Ours or Foreign

promise == <<claimed, parts>>

JobInit == claimed = FALSE /\ parts = [r \in Resources |-> Nothing]

Claim == ~claimed /\ claimed' = TRUE /\ UNCHANGED parts

(* Only where nothing is, and only under the claim. *)
Put == \E r \in Resources, what \in {Ours, Foreign} :
  /\ claimed /\ parts[r] = Nothing
  /\ parts' = [parts EXCEPT ![r] = what]
  /\ UNCHANGED claimed

TakeBack == \E r \in Resources :
  /\ claimed /\ parts[r] = Ours
  /\ parts' = [parts EXCEPT ![r] = Nothing]
  /\ UNCHANGED claimed

Release ==
  /\ claimed /\ \A r \in Resources : parts[r] # Ours
  /\ claimed' = FALSE
  /\ UNCHANGED parts

(* Other programs put their own things there, or edit ours. *)
Others == \E r \in Resources :
  /\ parts[r] # Foreign
  /\ parts' = [parts EXCEPT ![r] = Foreign]
  /\ UNCHANGED claimed

JobSpec ==
  JobInit /\ [][Claim \/ Put \/ TakeBack \/ Release \/ Others]_promise
=============================================================================
