-------------------------- MODULE SupereventTimeline --------------------------
(***************************************************************************)
(* What clustering promises, without index, ids, sequences or sky maps:    *)
(* open windows along the GPS timeline, each with the events recorded in   *)
(* it and one of the loudest of them as the preferred event.               *)
(* SupereventCreator is shown to implement it.                             *)
(***************************************************************************)
EXTENDS Integers

CONSTANTS
  Event,  \* [end_time, snr, ...]
  Half    \* half of the window duration

VARIABLES
  members,   \* t_0 of an open window -> the set of events recorded in it
  preferred  \* t_0 of an open window -> its preferred event

vars == <<members, preferred>>

Gap(a, b) == IF a < b THEN b - a ELSE a - b

Loudest(M) == {p \in M : \A q \in M : q.snr <= p.snr}

\* The open windows that hold a time, and the closest ones among them.
Holding(gps) == {t \in DOMAIN members : Gap(gps, t) <= Half}
Closest(gps) == {t \in Holding(gps) : \A u \in Holding(gps) : Gap(gps, t) <= Gap(gps, u)}

Init == members = <<>> /\ preferred = <<>>

\* An event no open window holds opens one around itself.
OpenWindow(e) ==
  /\ Holding(e.end_time) = {}
  /\ members' = [t \in DOMAIN members \cup {e.end_time} |->
                   IF t = e.end_time THEN {e} ELSE members[t]]
  /\ preferred' = [t \in DOMAIN members \cup {e.end_time} |->
                     IF t = e.end_time THEN e ELSE preferred[t]]

\* Any other event joins a closest window, whose preferred event is then one
\* of the loudest it has.
JoinWindow(e, t) ==
  /\ t \in Closest(e.end_time)
  /\ members' = [members EXCEPT ![t] = @ \cup {e}]
  /\ \E p \in Loudest(members[t] \cup {e}) : preferred' = [preferred EXCEPT ![t] = p]

\* The earliest windows are forgotten; those kept are all after them.
Forget(kept) ==
  /\ \A t \in kept, u \in DOMAIN members : t < u => u \in kept
  /\ members' = [t \in kept |-> members[t]]
  /\ preferred' = [t \in kept |-> preferred[t]]

Next ==
  \/ \E e \in Event : OpenWindow(e) \/ \E t \in DOMAIN members : JoinWindow(e, t)
  \/ \E kept \in SUBSET DOMAIN members : Forget(kept)

Spec == Init /\ [][Next]_vars

===============================================================================
