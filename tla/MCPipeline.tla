---------------------------- MODULE MCPipeline ----------------------------
(* Small instances of Pipeline for TLC. *)
EXTENDS Pipeline

CONSTANTS null, none

FourValues == 1..4
FourValuesOrNull == 1..4 \cup {null}

Ascending == [c \in 1..4 |-> c]

(* The first row is updated once. *)
OneUpdate == <<1, 2, 1, 3>>
=============================================================================
