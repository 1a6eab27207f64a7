------------------------------ MODULE GpsTime ------------------------------
(***************************************************************************)
(* The two time conversions of boom-gw, in whole seconds: a notice's UTC   *)
(* timestamp to GPS seconds (gcn.rs, written by hand with a leap-second    *)
(* table) and an alert's GPS seconds back to UTC (alert.rs, with one       *)
(* constant offset).                                                       *)
(*                                                                         *)
(* A timestamp is [year, month, day, sod], sod being the second of the     *)
(* day; one that does not split into numbers is refused by the parsers     *)
(* that call these.                                                        *)
(***************************************************************************)
EXTENDS Integers, Sequences, FiniteSets, FiniteSetsExt

DaySeconds == 86400

\* Variant of LeapSeconds: not bumped in 2017.
LeapSecondsOf2015 == 17

(***************************************************************************)
(* gcn.rs: pairs of a threshold and the leap seconds from it on.           *)
(***************************************************************************)
LeapTable == <<
    << 46828800, 1>>, << 78364801, 2>>, <<109900802, 3>>, <<173059203, 4>>,
    <<252028804, 5>>, <<315187205, 6>>, <<346723206, 7>>, <<393984007, 8>>,
    <<425520008, 9>>, <<457056009, 10>>, <<504489610, 11>>, <<551750411, 12>>,
    <<599184012, 13>>, <<820108813, 14>>, <<914803214, 15>>, <<1025136015, 16>>,
    <<1119744016, 17>>, <<1167264017, 18>> >>

\* Variant of IsLeapYear: no exception for the fourth centuries.
JulianCenturies(y) == y % 4 = 0 /\ y % 100 # 0

IsLeapYear(y) == \/ y % 4 = 0 /\ y % 100 # 0
                 \/ y % 400 = 0

\* the days of the first month - 1 months: of all twelve for a month past December, and for
\* month 0, whose predecessor wraps around to 2^32 - 1
DaysBeforeMonth(month, leap) ==
    LET days == <<31, IF leap THEN 29 ELSE 28, 31, 30, 31, 30, 31, 31, 30, 31, 30, 31>>
        sum[n \in 0 .. 12] == IF n = 0 THEN 0 ELSE sum[n - 1] + days[n]
    IN sum[IF month = 0 \/ month > 12 THEN 12 ELSE month - 1]

\* the total of the last entry whose threshold has been reached
LeapSecondsAt(s) ==
    LET reached == Cardinality({i \in DOMAIN LeapTable : s >= LeapTable[i][1]})
    IN IF reached = 0 THEN 0 ELSE LeapTable[reached][2]

\* seconds since 1980-01-06 when every day has 86400 of them; a year before 1980 counts as 1980
CivilSeconds(t) ==
    LET years  == IF t.year < 1980 THEN 0 ELSE t.year - 1980
        toYear == 365 * years + Cardinality({y \in 1980 .. t.year - 1 : IsLeapYear(y)})
        days   == toYear - 5 + DaysBeforeMonth(t.month, IsLeapYear(t.year)) + (t.day - 1)
    IN days * DaySeconds + t.sod

Iso8601UtcToGps(t) == CivilSeconds(t) + LeapSecondsAt(CivilSeconds(t))

(***************************************************************************)
(* alert.rs: seconds since the Unix epoch of a GPS time, and since 1980 in *)
(* the same count, by which the two ends compare.                          *)
(***************************************************************************)
GpsEpochUnix == 315964800
LeapSeconds == 18

GpsToUnix(gps) == gps + (GpsEpochUnix - LeapSeconds)

UnixToCivilSeconds(unix) == unix - GpsEpochUnix

(***************************************************************************)
(* gcn.rs: Fermi's own clock, seconds since 2001-01-01, in GPS seconds.    *)
(* A count that is missing or not positive gives 0.                        *)
(***************************************************************************)
FermiMetToGpsOffset == 662860800

FermiMetToGps(met) == IF met > 0 THEN met + FermiMetToGpsOffset ELSE 0

=============================================================================
