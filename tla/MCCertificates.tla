--------------------------- MODULE MCCertificates ---------------------------
(* Constants for small instances of Certificates: one daemon that is       *)
(* restarted, and two that may start at the same time.                     *)
EXTENDS Certificates, TLC

CONSTANTS d1, d2, k1, k2, k3, k4

OneDaemon  == {d1}
TwoDaemons == {d1, d2}
FourKeys   == {k1, k2, k3, k4}

KeySymmetry == Permutations(FourKeys)
=============================================================================
