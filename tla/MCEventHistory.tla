--------------------------- MODULE MCEventHistory ---------------------------
(***************************************************************************)
(* EventHistory with at most MaxOps pushes and polled calls and MaxFaults  *)
(* restarts and cancellations in a behaviour.                              *)
(***************************************************************************)
EXTENDS EventHistory, TLC

CONSTANTS MaxOps, MaxFaults

VARIABLES ops, faults

mcvars == <<vars, ops, faults>>

Symmetry == Permutations(Ids)

MCInit == Init /\ ops = 0 /\ faults = 0

MCNext ==
  \/ ops < MaxOps /\ Environment /\ ops' = ops + 1 /\ UNCHANGED faults
  \/ System /\ UNCHANGED <<ops, faults>>
  \/ faults < MaxFaults /\ Faults /\ faults' = faults + 1 /\ UNCHANGED ops

MCSpec == MCInit /\ [][MCNext]_mcvars

MCFairSpec == MCSpec /\ Fairness
=============================================================================
