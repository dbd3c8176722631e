--------------------------- MODULE MCCredentials ---------------------------
EXTENDS Credentials, TLC

CONSTANTS g1, g2, q1, q2, r1, r2, c1, b1, b2, b3

Alike == Permutations(Requests) \cup Permutations(Rows) \cup Permutations(Bundles)
=============================================================================
