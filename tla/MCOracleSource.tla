-------------------------- MODULE MCOracleSource --------------------------
(* Small instances of OracleSource for TLC. *)
EXTENDS OracleSource

CONSTANT null, none

FourValues == 1..4

(* Numbers and timestamps are sorted as they are compared. *)
Ascending == [c \in 1..4 |-> c]

(* The third version is an update of the first row. *)
OneUpdate == <<1, 2, 1, 3>>
=============================================================================
