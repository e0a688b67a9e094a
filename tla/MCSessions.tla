------------------------------ MODULE MCSessions ------------------------------
(***************************************************************************)
(* Small instances of Sessions for TLC: one user, logged in on one device, *)
(* and a few requests, which may log in on others.                         *)
(***************************************************************************)
EXTENDS Sessions, TLC

CONSTANTS ana, phone, q1, q2, q3

MCFirstUser == [t \in FirstTokens |-> ana]

RequestSymmetry == Permutations(Requests)
=============================================================================
