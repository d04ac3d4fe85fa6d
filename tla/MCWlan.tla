-------------------------------- MODULE MCWlan --------------------------------
(* Access points that come and go one at a time; liveness is checked, so    *)
(* they are told apart.                                                    *)
EXTENDS Wlan
=============================================================================
