------------------------------- MODULE MCCycle -------------------------------
(* Instances of the polling cycle for TLC; the .cfg files give the constants. *)
EXTENDS CycleProperties, TLC

\* Execution ids are only compared for equality.
Symmetry == Permutations(Executions)
=============================================================================
