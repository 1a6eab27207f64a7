------------------------------ MODULE GpsClock ------------------------------
(***************************************************************************)
(* A UTC clock and a GPS clock that run side by side, which the            *)
(* conversions of GpsTime are checked against.  The UTC clock carries      *)
(* seconds into days, days into months and months into years; the GPS      *)
(* clock counts, and counts one more where a leap second was inserted.     *)
(* Neither uses an operator of GpsTime.                                    *)
(***************************************************************************)
EXTENDS GpsTime

CONSTANTS
    LastYear,     \* the clocks stop at the end of it
    Moments       \* the seconds of a day at which the clocks are looked at, 0 among them

ASSUME ClockAssumption ==
    /\ LastYear \in Nat /\ LastYear >= 1980
    /\ 0 \in Moments /\ \A s \in Moments : s \in Nat /\ s < 86400

VARIABLES
    utc,          \* [year, month, day, sod]
    gps,          \* seconds since 1980-01-06T00:00:00Z, leap seconds included
    sinceLeap     \* UTC seconds since the last leap second, or -1

clock == <<utc, gps, sinceLeap>>

\* the days that began just after a leap second (gcn.rs names them beside its table)
LeapDays ==
    {<<y, 7, 1>> : y \in {1981, 1982, 1983, 1985, 1992, 1993, 1994, 1997, 2012, 2015}}
    \cup {<<y, 1, 1>> : y \in {1988, 1990, 1991, 1996, 1999, 2006, 2009, 2017}}

DaysInMonth(y, m) ==
    IF m \in {4, 6, 9, 11} THEN 30
    ELSE IF m # 2 THEN 31
    ELSE IF y % 4 # 0 \/ (y % 100 = 0 /\ y % 400 # 0) THEN 28 ELSE 29

NextDay(d) ==
    IF d.day < DaysInMonth(d.year, d.month) THEN <<d.year, d.month, d.day + 1>>
    ELSE IF d.month < 12 THEN <<d.year, d.month + 1, 1>>
    ELSE <<d.year + 1, 1, 1>>

-----------------------------------------------------------------------------
ClockInit ==
    /\ utc = [year |-> 1980, month |-> 1, day |-> 6, sod |-> 0]
    /\ gps = 0
    /\ sinceLeap = -1

\* to the next moment of the same day
Tick ==
    LET later == {s \in Moments : s > utc.sod} IN
    /\ later # {}
    /\ LET s == Min(later) IN
       /\ utc' = [utc EXCEPT !.sod = s]
       /\ gps' = gps + (s - utc.sod)
       /\ sinceLeap' = IF sinceLeap = -1 THEN -1 ELSE sinceLeap + (s - utc.sod)

\* from the day's last moment to the next midnight
Midnight ==
    LET n    == NextDay(utc)
        rest == 86400 - utc.sod IN
    /\ \A s \in Moments : s <= utc.sod
    /\ n[1] <= LastYear
    /\ utc' = [year |-> n[1], month |-> n[2], day |-> n[3], sod |-> 0]
    /\ gps' = gps + rest + (IF n \in LeapDays THEN 1 ELSE 0)
    /\ sinceLeap' = IF n \in LeapDays THEN 0
                    ELSE IF sinceLeap = -1 THEN -1 ELSE sinceLeap + rest

ClockNext == Tick \/ Midnight

ClockSpec == ClockInit /\ [][ClockNext]_clock

-----------------------------------------------------------------------------
(***************************************************************************)
(* The conversion of a notice's time is right at every moment but the      *)
(* first seconds after a leap second.  The thresholds of the table are     *)
(* GPS seconds and are compared with UTC seconds, so that the n-th leap    *)
(* second is counted n - 1 seconds late (gcn.rs:158-168).                  *)
(***************************************************************************)
NoticeTimeIsRight ==
    sinceLeap \notin 0 .. LeapSeconds - 2 => Iso8601UtcToGps(utc) = gps

(***************************************************************************)
(* The two conversions are the inverse of each other wherever the constant *)
(* of alert.rs holds: since 2017, an alert about an event at a notice's    *)
(* time prints that notice's time.  For a time before, it prints one that  *)
(* is early by the leap seconds that were still to come.                   *)
(***************************************************************************)
AlertTimeIsRight ==
    utc.year >= 2017 =>
        UnixToCivilSeconds(GpsToUnix(Iso8601UtcToGps(utc))) - CivilSeconds(utc)
            \in (IF sinceLeap \in 0 .. LeapSeconds - 2 THEN {-1} ELSE {0})

(***************************************************************************)
(* What gcn.rs:28-32 says of its offset: Fermi's clock and GPS time differ *)
(* by what lies between 1980-01-06 and 2001-01-01 in UTC.                  *)
(***************************************************************************)
FermiEpochIsRight ==
    utc.year = 2001 /\ utc.month = 1 /\ utc.day = 1 /\ utc.sod > 0
        => FermiMetToGps(utc.sod) = gps
=============================================================================
