----------------------------- MODULE MCGpsClock -----------------------------
(* Every day until the end of 2026, at its edges and around the last leap  *)
(* second's threshold.                                                     *)
EXTENDS GpsClock

\* looked at around a midnight, around the 17 seconds of 2017, and in between
MCMoments == {0, 1, 16, 17, 43200, 86399}
=============================================================================
