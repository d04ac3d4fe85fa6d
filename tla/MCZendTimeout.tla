--------------------------- MODULE MCZendTimeout ---------------------------
(* A word of sixteen values and two of them to the second: a limit of one  *)
(* or two is what it is, one of four is negative, one of eight wraps to 0. *)
EXTENDS ZendTimeout

MCLimits == {0, 1, 2, 4, 8}
=============================================================================
