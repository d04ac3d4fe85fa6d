---------------------------- MODULE MCHttpdServer ----------------------------
EXTENDS HttpdServer, TLC

\* Clients are interchangeable.
ClientSymmetry == Permutations(Clients)
=============================================================================
