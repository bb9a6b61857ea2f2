----------------------------- MODULE MCRangeView -----------------------------
(* Instances of the poller and its series for TLC; the .cfg gives the constants. *)
EXTENDS RangeView
=============================================================================
