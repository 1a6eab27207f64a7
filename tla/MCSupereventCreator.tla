-------------------------- MODULE MCSupereventCreator --------------------------
(***************************************************************************)
(* Small instances of SupereventCreator.  Half a window is 2; the events   *)
(* sit at distances 0, at the window's edge, half way between two windows  *)
(* (a tie), and out of reach, with two equally loud ones among them.       *)
(***************************************************************************)
EXTENDS SupereventCreator

G(id, time, snr) == [graceid |-> id, end_time |-> time, snr |-> snr, far |-> 1]

\* 0 and 4 open two windows; 2 lies at the edge of both, and
\* between 0 and 3, which open two windows as well, closer to the second.
MCEvent == {G("G1", 0, 2), G("G2", 4, 1), G("G3", 2, 2), G("G4", 3, 3)}

MCCutoff == {3}

===============================================================================
