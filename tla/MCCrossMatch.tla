------------------------------ MODULE MCCrossMatch ------------------------------
(***************************************************************************)
(* Small instances of CrossMatch: a GRB, and a trigger that is not matched *)
(* on arrival.                                                             *)
(***************************************************************************)
EXTENDS CrossMatch

CONSTANTS grb, frb

Bound(maps, grbNotices, frbNotices, scans, flags, errors) ==
  [ maps |-> maps, notices |-> [t \in Trigger |-> IF t = grb THEN grbNotices ELSE frbNotices],
    requests |-> scans, patches |-> flags, failures |-> errors ]

\* Two sky maps and two notices of the GRB, with an operator or with failures; a flag
\* that is set; both triggers, of the FRB two notices.
MCBounds ==
  { Bound(2, 2, 0, 1, 0, 0), Bound(2, 2, 0, 0, 0, 1), Bound(2, 1, 0, 1, 1, 0),
    Bound(1, 1, 2, 0, 0, 2) }

===============================================================================
