------------------------------ MODULE MCCommands ------------------------------
(* Commands for TLC: two of the calls share a request id, as after 2^32 calls. *)
EXTENDS Commands, TLC

CONSTANTS c1, c2, c3

SharedRequestId == [c \in Calls |-> IF c = c2 THEN 2 ELSE 1]
=============================================================================
