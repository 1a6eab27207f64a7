--------------------------- MODULE MCAuthentication ---------------------------
EXTENDS Authentication, TLC

Scenario(dev, calls, logins, rotations, restarts) ==
  [ dev_mode |-> dev, calls |-> calls, logins |-> logins, rotations |-> rotations,
    restarts |-> restarts ]

\* Scripts while the keys rotate; sign-ins in two tabs beside a script; dev mode.
MCScenarios ==
  { Scenario(FALSE, 3, 0, 3, 0), Scenario(FALSE, 1, 2, 0, 1), Scenario(TRUE, 1, 2, 0, 1) }

MCSymmetry == Permutations(Task) \cup Permutations(User)
===============================================================================
