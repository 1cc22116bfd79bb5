------------------------------ MODULE MCCallers ------------------------------
(* Small instances of Callers for TLC. *)
EXTENDS Callers

CONSTANTS c1, c2, k

(* A call with a key, and one of guard. *)
MCKeyOfCall == [c \in Calls |-> IF c \in Guards THEN NONE ELSE k]

=============================================================================
