------------------------------ MODULE MCClusterer ------------------------------
(***************************************************************************)
(* Small instances of Clusterer.  Half a window is 2.  "quiet1" opens a    *)
(* window, "loud1" lands in it and is louder, "soft1" lands in it and is   *)
(* not; "far2" opens another window and its FAR is over the gate.          *)
(***************************************************************************)
EXTENDS Clusterer

CONSTANTS c1, c2

G(id, time, snr, far) == [graceid |-> id, end_time |-> time, snr |-> snr, far |-> far]

quiet1 == G("quiet1", 0, 5, 1)
loud1  == G("loud1", 1, 9, 1)
soft1  == G("soft1", 2, 4, 1)
far2   == G("far2", 9, 6, 9)

\* One window with a promotion, and a gated window of its own.
GatedEvent == {quiet1, loud1, far2}

\* One window with a promotion and a skip.
OneWindow == {quiet1, loud1, soft1}

Alone(events) == [i \in Instance |-> events]

AllGated == Alone(GatedEvent)
AllOneWindow == Alone(OneWindow)

===============================================================================
