---------------------------- MODULE MCListeners ----------------------------
EXTENDS Listeners
=============================================================================
