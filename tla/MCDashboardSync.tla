--------------------------- MODULE MCDashboardSync ---------------------------
(* Instances of the dashboard's cache for TLC. *)
EXTENDS DashboardSync, TLC

\* Sessions are only compared for equality.
Symmetry == Permutations(Sessions)
=============================================================================
