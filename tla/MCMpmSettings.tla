--------------------------- MODULE MCMpmSettings ---------------------------
EXTENDS MpmSettings

\* Numbers on both sides of every comparison of the directives.
SampleArgs == {-1, 0, 1, 2, 5, 6, 7, 100}
=============================================================================
