---------------------------- MODULE MC_ScanJobs ----------------------------
EXTENDS ScanJobs, TLC

CONSTANTS w1, w2, e1, e2, j1, j2

\* Instances are interchangeable, and so are execution slots and scans.
Symmetry == Permutations({w1, w2}) \cup Permutations({e1, e2}) \cup Permutations({j1, j2})
=============================================================================
