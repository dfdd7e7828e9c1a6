----------------------------- MODULE MCDiscovery -----------------------------
(* A small instance of Discovery for TLC. *)
EXTENDS Discovery

CONSTANTS n1, n2

MCNumbers == {n1, n2}
MCLists == {[prev |-> <<n1>>, new |-> <<n2, n1>>]}
==============================================================================
