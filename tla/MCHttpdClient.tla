---------------------------- MODULE MCHttpdClient ----------------------------
EXTENDS HttpdClient, TLC

\* Clients are interchangeable.
ClientSymmetry == Permutations(Clients)
=============================================================================
