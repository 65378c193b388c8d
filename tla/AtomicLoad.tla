---------------------------- MODULE AtomicLoad ----------------------------
(***************************************************************************)
(* What the Oracle destination promises, seen from the target table: a     *)
(* load reaches the table whole and in one step, or not at all.            *)
(*                                                                         *)
(* CommitMode::Atomic       the load's rows are added to the table         *)
(*                          ("All-or-nothing, at-least-once")              *)
(* CommitMode::StagedMerge  the load's rows are merged into it by key      *)
(*                                                                         *)
(* The step may or may not be reported back to whoever asked for the load: *)
(* the answer to COMMIT can be lost after the COMMIT was applied.          *)
(***************************************************************************)
EXTENDS MergeStatement

CONSTANTS
    Loaders,        \* the concurrently configured loads
    Mode,           \* Mode[l]: "atomic" or "staged_merge"
    Input,          \* Input[l]: the rows the source yields for load l
    InitialTable    \* the target table before any load

VARIABLES
    table,          \* the committed contents of the target table
    commits,        \* commits[l]: how often load l reached the table
    reported        \* reported[l]: how often its success was reported

vars == <<table, commits, reported>>

(* All the rows of load l. *)
AllRows(l) == FirstRows(Input[l], Len(Input[l]))

LoadEffect(l, t) ==
    IF Mode[l] = "atomic" THEN InsertEffect(t, AllRows(l))
                          ELSE MergeEffect(t, AllRows(l))

Init ==
    /\ table = InitialTable
    /\ commits = [l \in Loaders |-> 0]
    /\ reported = [l \in Loaders |-> 0]

Load(l) ==
    /\ table' = LoadEffect(l, table)
    /\ commits' = [commits EXCEPT ![l] = @ + 1]
    /\ \/ reported' = [reported EXCEPT ![l] = @ + 1]
       \/ UNCHANGED reported

Next == \E l \in Loaders : Load(l)

Spec == Init /\ [][Next]_vars
=============================================================================
