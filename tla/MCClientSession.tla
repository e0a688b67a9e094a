---------------------------- MODULE MCClientSession ----------------------------
(***************************************************************************)
(* A small instance of ClientSession for TLC.                              *)
(***************************************************************************)
EXTENDS ClientSession

CONSTANTS ana, ben, phone, q1, q2, q3, load1, load2

MCRoleOf == [a \in Accounts |-> IF a = ana THEN "ADMIN" ELSE "VIEWER"]
MCConfigs == {{"products", "admin"}}
MCUrls == {"admin"}
=============================================================================
