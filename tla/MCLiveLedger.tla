---------------------------- MODULE MCLiveLedger ----------------------------
(* A small tenant for TLC: constants that are functions of the sessions.     *)
EXTENDS LiveLedger, TLC

CONSTANTS s1, s2, s3

\* Sessions of different lengths, so that a release of the wrong size shows.
MCHoldOf == [s \in Sessions |-> IF s = s1 THEN 5 ELSE 4]

MCReports == {0, 1, 9}

Symmetric == Permutations(Users) \cup Permutations(Closes) \cup Permutations(Calls)
=============================================================================
