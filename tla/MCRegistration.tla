--------------------------- MODULE MCRegistration ---------------------------
(* A small instance of Registration for TLC. *)
EXTENDS Registration

CONSTANTS p1, p2, s1, s2, s3
=============================================================================
