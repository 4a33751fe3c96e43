--------------------------- MODULE MCAuthSessions ---------------------------
\* One account, its owner and an administrator, on a clock of a few ticks.
EXTENDS AuthSessions, TLC

\* Requests and passwords are interchangeable.
Symmetry == Permutations(Requests) \cup Permutations(Passwords)
=============================================================================
