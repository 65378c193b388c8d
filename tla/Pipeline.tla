----------------------------- MODULE Pipeline -----------------------------
(***************************************************************************)
(* An incremental pipeline of the two plugins: the runs of OracleSource,   *)
(* each of them a load of the Oracle destination.                          *)
(*                                                                         *)
(* The destination is taken as AtomicLoad, which OracleDestination         *)
(* implements: the rows of a run reach the target whole, in the one step   *)
(* in which the run lands, or not at all.  What is added here is the       *)
(* target table: what it holds after many runs, in which rows come again   *)
(* and new versions of them come late.                                     *)
(*                                                                         *)
(* A destination process can outlive the engine: nothing interrupts        *)
(* finalize between the MERGE and the COMMIT.  With Orphans, an engine     *)
(* that dies leaves such a process behind, and the next run is started     *)
(* while it is still at work.                                              *)
(***************************************************************************)
EXTENDS OracleSource

CONSTANTS
    Staged,     \* CommitMode::StagedMerge, by primary key; else Atomic
    Orphans     \* a destination process may outlive the engine

ASSUME ModesAssumption == Staged \in BOOLEAN /\ Orphans \in BOOLEAN

(* The key of a version, NULL for positions that are no version. *)
KeyOfVersion == [i \in 1..MaxRows |-> RowKey[i]]

Target == INSTANCE MergeStatement
            WITH Rows <- 1..MaxRows, KeyOf <- KeyOfVersion, NullKey <- NullCursor,
                 Columns <- {"key", "cursor"}, MergeKey <- {"key"}

ASSUME KeyAssumption ==
    MaxRows \in Nat /\ \A i \in 1..MaxRows : RowKey[i] # NullCursor

VARIABLES
    table,      \* the target: how many copies it holds of each version
    orphan      \* the rows that an orphaned destination is to commit

pipelineVars == <<vars, table, orphan>>

PipelineInit == Init /\ table = Target!NoRows /\ orphan = <<>>

(* A load, as the destination has it before it commits. *)
LoadOf(rowsOfRun) == Target!FirstRows(rowsOfRun, Len(rowsOfRun))

(* Mutant: the rows of a run are inserted, not merged. *)
InsertedAlways(load) ==
    /\ Staged => Target!MergeAccepted(table, load)
    /\ table' = Target!InsertEffect(table, load)

(* The destination commits the load. *)
TargetLoaded(load) ==
    IF Staged
    THEN /\ Target!MergeAccepted(table, load)
         /\ table' = Target!MergeEffect(table, load)
    ELSE table' = Target!InsertEffect(table, load)

RunLands == Land /\ TargetLoaded(LoadOf(handed)) /\ UNCHANGED orphan

RunLandsUnanswered ==
    LandUnanswered /\ TargetLoaded(LoadOf(handed)) /\ UNCHANGED orphan

(* The engine dies while the destination is in finalize. *)
EngineDies ==
    /\ Orphans /\ orphan = <<>>
    /\ pc = "exhausted" /\ faults < MaxFaults
    /\ Gone
    /\ faults' = faults + 1
    /\ orphan' = handed
    /\ UNCHANGED <<appVars, engineVars, table>>

(* The orphan commits, whatever was started since. *)
OrphanLands ==
    /\ orphan # <<>>
    /\ TargetLoaded(LoadOf(orphan))
    /\ LET load == {orphan[k] : k \in DOMAIN orphan}
       IN  /\ landed' = landed \cup load
           /\ again' = again \cup (landed \cap load)
           /\ unsaved' = unsaved \cup load
    /\ orphan' = <<>>
    /\ UNCHANGED <<appVars, pc, pluginVars, handed, persisted, faults>>

(* It fails, or it is gone with its session. *)
OrphanFails == orphan # <<>> /\ orphan' = <<>> /\ UNCHANGED <<vars, table>>

(* The steps that do not reach the target. *)
RunGoesOn ==
    /\ Configure \/ ResumeFrom \/ NextBatch \/ Exhausted \/ Persist \/ Exit
    /\ UNCHANGED <<table, orphan>>

Disturbed ==
    /\ AppCommit \/ NextBatchFails \/ Cancel \/ Crash
    /\ UNCHANGED <<table, orphan>>

PipelineNext ==
    \/ RunLands
    \/ RunLandsUnanswered
    \/ RunGoesOn
    \/ Disturbed
    \/ EngineDies
    \/ OrphanLands
    \/ OrphanFails

PipelineSpec == PipelineInit /\ [][PipelineNext]_pipelineVars

(* As in OracleSource: what was started is finished or given up, and the   *)
(* next run comes.                                                         *)
PipelineFairness ==
    /\ WF_pipelineVars(RunGoesOn)
    /\ WF_pipelineVars(RunLands)
    /\ WF_pipelineVars(pc = "failed" /\ Cancel /\ UNCHANGED <<table, orphan>>)

FairPipelineSpec == PipelineSpec /\ PipelineFairness

---------------------------------------------------------------------------
(* Properties. *)

SameRow(i, j) == RowKey[i] = RowKey[j]

(* Version i is in the target, once, and no other version of its row is. *)
Alone(i) ==
    table[i] = 1 /\ \A j \in 1..MaxRows : SameRow(i, j) /\ j # i => table[j] = 0

(* The query brings no row twice, and the MERGE of a run is never refused  *)
(* (ORA-30926, ORA-00001): it would be refused again in every later run,   *)
(* which begins at the same watermark.                                     *)
MergeNeverRefused ==
    Staged /\ pc = "exhausted" => Target!MergeAccepted(table, LoadOf(handed))

(* "Idempotent by the key => exactly-once effective", for the pipeline:    *)
(* up to the persisted watermark the target is the source's table.  The    *)
(* current version of each row is in it, exactly once, and none of the     *)
(* older ones, after whatever runs that failed, or landed and were         *)
(* repeated with other versions of the same rows.                          *)
TargetIsCurrent ==
    Staged =>
        \A i \in DOMAIN source \ late :
            /\ Wanted(i) /\ ~Superseded(i)
            /\ persisted # NoValue /\ source[i] <= persisted
            => Alone(i)

(* "All-or-nothing, at-least-once": with exact cursors, atomic loads put a *)
(* row into the target again only after a run that landed it and could not *)
(* persist its watermark; and the target has each row that landed.         *)
CopiesAreRepeats ==
    ~Staged => \A i \in 1..MaxRows : /\ table[i] > 1 => i \in unsaved
                                     /\ table[i] > 0 <=> i \in landed

(* The target becomes the source's table: from some moment on it has the   *)
(* current version of every row above initial_value, and it alone.         *)
Converges ==
    <>[](\A i \in DOMAIN source : Wanted(i) /\ ~Superseded(i) => Alone(i))
=============================================================================
