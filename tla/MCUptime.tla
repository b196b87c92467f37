------------------------------ MODULE MCUptime ------------------------------
(* Instances of Uptime for TLC.                                            *)
EXTENDS Uptime, TLC

CONSTANTS p1, p2, m1, m2, m3, m4, m5, m6

MCMoments == {m1, m2, m3, m4, m5, m6}
=============================================================================
