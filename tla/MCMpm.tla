------------------------------- MODULE MCMpm -------------------------------
EXTENDS MpmApache
=============================================================================
