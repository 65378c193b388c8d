------------------------ MODULE OracleDestination -------------------------
(***************************************************************************)
(* OracleDestPlugin (connector/src/destination.rs): any number of loads    *)
(* into one Oracle table, each run by a plugin process of its own.         *)
(*                                                                         *)
(* The engine, outside this repository, calls configure, prepare,          *)
(* write_batch for each batch of the source, then finalize; once a call    *)
(* has failed it calls nothing but cancel; and it may call cancel between  *)
(* any two calls.  A process that has ended may be started again for the   *)
(* same load.  Oracle is modelled from the statements the plugin sends: a  *)
(* session's changes are invisible to the others until it commits; an      *)
(* INSERT and a MERGE lock the keys they touch one after the other, and    *)
(* keep what they have locked while they wait for the next.                *)
(***************************************************************************)
EXTENDS MergeStatement

CONSTANTS
    Loaders,        \* the loads into the table
    Mode,           \* Mode[l]: "atomic" or "staged_merge"
    Input,          \* Input[l]: the rows the source yields for load l
    InitialTable,   \* the target table before any load
    InitialColumns, \* its columns
    UniqueTarget,   \* there is a unique index on merge_key
    NoTable,        \* stands for a staging table that does not exist
    MaxAttempts     \* bound: how often a load is started

ASSUME ModeAssumption == Mode \in [Loaders -> {"atomic", "staged_merge"}]
ASSUME InputAssumption == Input \in [Loaders -> Seq(Rows)]
ASSUME TableAssumption == InitialTable \in Tables
ASSUME UniqueAssumption ==
    /\ UniqueTarget \in BOOLEAN
    /\ \A l \in Loaders : Mode[l] = "staged_merge" => UniqueTarget

VARIABLES
    (* The plugin process of each load: fields of OracleDestPlugin. *)
    pc,             \* the call it is in, or the last one that returned
    conn,           \* "none", "open", or "lost": open but of no use
    stagingTable,   \* staging_table is set
    columns,        \* columns is not empty: the first batch was seen
    mergeSql,       \* merge_sql is set
    rowsWritten,    \* rows_written
    nrows,          \* the size of the batch being written
    left,           \* how many of its rows Oracle has yet to execute
    pos,            \* how many rows of Input[l] Oracle has executed
    (* Oracle. *)
    table,          \* the committed rows of the target table
    tableColumns,   \* its columns
    gttColumns,     \* columns of the global temporary table, or NoTable
    removes,        \* removes[l]: rows of table that session l replaced
    adds,           \* adds[l]: rows that session l added to the target
    staging,        \* staging[l]: session l's rows in the temporary table
    snapshot,       \* snapshot[l]: the table as the running MERGE reads it
    locks,          \* locks[l]: the keys that MERGE has locked
    wants,          \* wants[l]: the key it is at, and waits for, if any
    (* History. *)
    attempts,       \* attempts[l]: how often load l was started
    commits,        \* commits[l]: how often load l was committed
    reported        \* reported[l]: how often finalize returned Ok

pluginVars == <<pc, conn, stagingTable, columns, mergeSql, rowsWritten,
                nrows, left, pos>>
mergeVars == <<snapshot, locks, wants>>
sessionVars == <<removes, adds, staging, mergeVars>>
shapeVars == <<tableColumns, gttColumns>>
historyVars == <<attempts, commits, reported>>
vars == <<pluginVars, table, sessionVars, shapeVars, historyVars>>

Staged(l) == Mode[l] = "staged_merge"

Init ==
    /\ pc = [l \in Loaders |-> "off"]
    /\ conn = [l \in Loaders |-> "none"]
    /\ stagingTable = [l \in Loaders |-> FALSE]
    /\ columns = [l \in Loaders |-> FALSE]
    /\ mergeSql = [l \in Loaders |-> FALSE]
    /\ rowsWritten = [l \in Loaders |-> 0]
    /\ nrows = [l \in Loaders |-> 0]
    /\ left = [l \in Loaders |-> 0]
    /\ pos = [l \in Loaders |-> 0]
    /\ table = InitialTable
    /\ tableColumns = InitialColumns
    /\ gttColumns = NoTable
    /\ removes = [l \in Loaders |-> {}]
    /\ adds = [l \in Loaders |-> NoRows]
    /\ staging = [l \in Loaders |-> NoRows]
    /\ snapshot = [l \in Loaders |-> NoRows]
    /\ locks = [l \in Loaders |-> {}]
    /\ wants = [l \in Loaders |-> {}]
    /\ attempts = [l \in Loaders |-> 0]
    /\ commits = [l \in Loaders |-> 0]
    /\ reported = [l \in Loaders |-> 0]

---------------------------------------------------------------------------
(* Oracle: sessions, locks and constraints. *)

(* No MERGE of session l is running. *)
NoMerge(l) ==
    /\ snapshot' = [snapshot EXCEPT ![l] = NoRows]
    /\ locks' = [locks EXCEPT ![l] = {}]
    /\ wants' = [wants EXCEPT ![l] = {}]

(* Nothing is left uncommitted: rolled back, or just committed. *)
TransactionEnds(l) ==
    /\ removes' = [removes EXCEPT ![l] = {}]
    /\ adds' = [adds EXCEPT ![l] = NoRows]
    /\ staging' = [staging EXCEPT ![l] = NoRows]
    /\ NoMerge(l)

(* The keys session l has locked: of its uncommitted rows, and by a MERGE. *)
Held(l) == KeysIn(adds[l]) \cup locks[l]

(* The sessions other than l that hold one of the keys. *)
Holders(l, keys) == {o \in Loaders \ {l} : Held(o) \cap keys # {}}

(* The row that the array DML executes next, and the key it needs. *)
NextRow(l) == Input[l][pos[l] + 1]
NextKey(l) == {KeyOf[NextRow(l)]} \ {NullKey}

(* The key that the statement of session l needs now. *)
Inserts(l) == pc[l] = "inserting" /\ left[l] > 0 /\ ~Staged(l) /\ UniqueTarget
Needs(l) == IF Inserts(l) THEN NextKey(l) ELSE wants[l]

(* The sessions it waits for. *)
Blockers(l) == Holders(l, Needs(l))

(* Oracle refuses the row: an unknown column (ORA-00904), or a key that is *)
(* there already (ORA-00001).  The temporary table has no unique index.    *)
Refused(l) ==
    IF Staged(l)
    THEN gttColumns = NoTable \/ ~(Columns \subseteq gttColumns)
    ELSE \/ ~(Columns \subseteq tableColumns)
         \/ /\ UniqueTarget
            /\ NextKey(l) \cap (KeysIn(table) \cup KeysIn(adds[l])) # {}

(* Sessions that wait for each other in a circle (ORA-00060). *)
Deadlocked(l) ==
    \E circle \in SUBSET Loaders :
        /\ l \in circle
        /\ \A m \in circle : Blockers(m) \cap circle # {}

(* Another session, or the DBA, adds the columns the batches have and the  *)
(* target lacks.  Oracle refuses the DDL while the table has open changes. *)
AlterTarget ==
    /\ ~(Columns \subseteq tableColumns)
    /\ \A l \in Loaders : adds[l] = NoRows /\ locks[l] = {} /\ wants[l] = {}
    /\ tableColumns' = tableColumns \cup Columns
    /\ UNCHANGED <<pluginVars, table, sessionVars, gttColumns, historyVars>>

(* The connection breaks, or the server ends the session. *)
SessionLost(l) ==
    /\ conn[l] = "open"
    /\ conn' = [conn EXCEPT ![l] = "lost"]
    /\ TransactionEnds(l)
    /\ UNCHANGED <<pc, stagingTable, columns, mergeSql, rowsWritten, nrows,
                   left, pos, table, shapeVars, historyVars>>

---------------------------------------------------------------------------
(* configure, prepare *)

(* The engine starts a process (OracleDestPlugin::new) and configures it.  *)
Configure(l) ==
    /\ pc[l] = "off"
    /\ attempts[l] < MaxAttempts
    /\ ~(Staged(l) /\ MergeKey = {})
    /\ pc' = [pc EXCEPT ![l] = "configured"]
    /\ attempts' = [attempts EXCEPT ![l] = @ + 1]
    /\ UNCHANGED <<conn, stagingTable, columns, mergeSql, rowsWritten, nrows,
                   left, pos, table, sessionVars, shapeVars, commits, reported>>

(* Connect, describe the target, and create the staging table unless it    *)
(* exists.  The DDL commits, in a session that has written nothing yet.    *)
Prepare(l) ==
    /\ pc[l] = "configured"
    /\ pc' = [pc EXCEPT ![l] = "ready"]
    /\ conn' = [conn EXCEPT ![l] = "open"]
    /\ stagingTable' = [stagingTable EXCEPT ![l] = Staged(l)]
    /\ gttColumns' = IF Staged(l) /\ gttColumns = NoTable
                     THEN tableColumns ELSE gttColumns
    /\ UNCHANGED <<columns, mergeSql, rowsWritten, nrows, left, pos, table,
                   sessionVars, tableColumns, historyVars>>

(* No connection or no such table; or, once connected, no staging table. *)
PrepareFails(l) ==
    /\ pc[l] = "configured"
    /\ pc' = [pc EXCEPT ![l] = "failed"]
    /\ \/ UNCHANGED conn
       \/ Staged(l) /\ conn' = [conn EXCEPT ![l] = "open"]
    /\ UNCHANGED <<stagingTable, columns, mergeSql, rowsWritten, nrows, left,
                   pos, table, sessionVars, shapeVars, historyVars>>

---------------------------------------------------------------------------
(* write_batch *)

(* Mutant: a later batch forgets the MERGE the first one had built. *)
StatementsForgotten(l) ==
    /\ columns' = [columns EXCEPT ![l] = TRUE]
    /\ mergeSql' = [mergeSql EXCEPT ![l] = Staged(l) /\ ~columns[l]]

(* The first batch, empty or not, fixes the column list and the MERGE,     *)
(* which cannot be built if merge_key is not in the batch.                 *)
StatementsBuilt(l) ==
    /\ columns' = [columns EXCEPT ![l] = TRUE]
    /\ mergeSql' = [mergeSql EXCEPT ![l] = @ \/ (Staged(l) /\ MergeKeyPresent)]

(* Mutant: one row too many is appended to the array DML. *)
OneRowTooMany(l, n) ==
    /\ nrows' = [nrows EXCEPT ![l] = n]
    /\ left' = [left EXCEPT ![l] = IF n = 0 THEN 0 ELSE n + 1]

(* The n rows of the batch are appended to the array DML, which is sent. *)
ArrayDml(l, n) ==
    /\ nrows' = [nrows EXCEPT ![l] = n]
    /\ left' = [left EXCEPT ![l] = n]

(* A batch of n rows arrives: an empty one is done with; else its values   *)
(* are converted and the array DML is sent.                                *)
WriteBatch(l, n) ==
    /\ pc[l] = "ready"
    /\ n \in 0..(Len(Input[l]) - pos[l])
    /\ StatementsBuilt(l)
    /\ Staged(l) => stagingTable[l] /\ MergeKeyPresent
    /\ pc' = [pc EXCEPT ![l] = IF n = 0 THEN @ ELSE "inserting"]
    /\ ArrayDml(l, n)
    /\ UNCHANGED <<conn, stagingTable, rowsWritten, pos, table, sessionVars,
                   shapeVars, historyVars>>

(* merge_key is not in the batch, or a value has no conversion. *)
WriteBatchFails(l) ==
    /\ pc[l] = "ready"
    /\ StatementsBuilt(l)
    /\ pc' = [pc EXCEPT ![l] = "failed"]
    /\ UNCHANGED <<conn, stagingTable, rowsWritten, nrows, left, pos, table,
                   sessionVars, shapeVars, historyVars>>

(* Oracle executes one row of the array DML. *)
InsertRow(l) ==
    /\ pc[l] = "inserting" /\ left[l] > 0
    /\ conn[l] = "open"
    /\ ~Refused(l)
    /\ Blockers(l) = {}
    /\ left' = [left EXCEPT ![l] = @ - 1]
    /\ pos' = [pos EXCEPT ![l] = @ + 1]
    /\ IF Staged(l)
       THEN staging' = [staging EXCEPT ![l][NextRow(l)] = @ + 1] /\ UNCHANGED adds
       ELSE adds' = [adds EXCEPT ![l][NextRow(l)] = @ + 1] /\ UNCHANGED staging
    /\ UNCHANGED <<pc, conn, stagingTable, columns, mergeSql, rowsWritten, nrows,
                   table, removes, mergeVars, shapeVars, historyVars>>

(* Mutant: rows_written is overwritten instead of added to. *)
LastBatchCounted(l) == rowsWritten' = [rowsWritten EXCEPT ![l] = nrows[l]]

RowsCounted(l) == rowsWritten' = [rowsWritten EXCEPT ![l] = @ + nrows[l]]

(* Mutant: every batch is committed (autocommit). *)
BatchCommitted(l) ==
    /\ pc[l] = "inserting" /\ left[l] = 0
    /\ pc' = [pc EXCEPT ![l] = "ready"]
    /\ RowsCounted(l)
    /\ table' = Changed(table, removes[l], adds[l])
    /\ TransactionEnds(l)
    /\ UNCHANGED <<conn, stagingTable, columns, mergeSql, nrows, left, pos,
                   shapeVars, historyVars>>

(* All rows are executed: the array DML succeeds and write_batch returns. *)
BatchWritten(l) ==
    /\ pc[l] = "inserting" /\ left[l] = 0
    /\ pc' = [pc EXCEPT ![l] = "ready"]
    /\ RowsCounted(l)
    /\ UNCHANGED <<conn, stagingTable, columns, mergeSql, nrows, left, pos,
                   table, sessionVars, shapeVars, historyVars>>

(* The array DML fails at a row.  The rows before it stay executed, in a   *)
(* transaction that stays open.                                            *)
DmlFails(l) ==
    /\ pc[l] = "inserting" /\ left[l] > 0
    /\ pc' = [pc EXCEPT ![l] = "failed"]
    /\ UNCHANGED <<conn, stagingTable, columns, mergeSql, rowsWritten, nrows,
                   left, pos, table, sessionVars, shapeVars, historyVars>>

---------------------------------------------------------------------------
(* finalize *)

(* finalize sends the MERGE, if there is one, which reads the rows that are *)
(* committed now; else the COMMIT.                                         *)
Finalize(l) ==
    /\ pc[l] = "ready" /\ pos[l] = Len(Input[l])
    /\ pc' = [pc EXCEPT ![l] = IF mergeSql[l] THEN "merging" ELSE "committing"]
    /\ snapshot' = [snapshot EXCEPT ![l] = IF mergeSql[l] THEN table ELSE @]
    /\ UNCHANGED <<conn, stagingTable, columns, mergeSql, rowsWritten, nrows,
                   left, pos, table, removes, adds, staging, locks, wants,
                   shapeVars, historyVars>>

Merging(l) == pc[l] = "merging" /\ conn[l] = "open" /\ Columns \subseteq tableColumns

(* The keys whose rows it updates or inserts. *)
KeysToLock(l) == KeysIn(MergeAdds(snapshot[l], staging[l]))

(* Of the key that it is at, a row is no longer as the MERGE has read it.  *)
Changing(l) ==
    \E r \in Rows : KeyOf[r] \in wants[l] /\ table[r] # snapshot[l][r]

(* It locks the key that it is at, and gets to another, in any order. *)
MergeLocks(l) ==
    /\ Merging(l)
    /\ Blockers(l) = {} /\ ~Changing(l)
    /\ \E k \in KeysToLock(l) \ (locks[l] \cup wants[l]) :
        /\ locks' = [locks EXCEPT ![l] = @ \cup wants[l]]
        /\ wants' = [wants EXCEPT ![l] = {k}]
    /\ UNCHANGED <<pluginVars, table, removes, adds, staging, snapshot,
                   shapeVars, historyVars>>

(* A row it is to update was changed by a COMMIT since: the MERGE undoes   *)
(* what it did and starts again, from the rows that are committed now.     *)
MergeRestarts(l) ==
    /\ Merging(l)
    /\ Blockers(l) = {} /\ Changing(l)
    /\ wants[l] \subseteq KeysIn(snapshot[l])
    /\ snapshot' = [snapshot EXCEPT ![l] = table]
    /\ locks' = [locks EXCEPT ![l] = {}]
    /\ wants' = [wants EXCEPT ![l] = {}]
    /\ UNCHANGED <<pluginVars, table, removes, adds, staging, shapeVars, historyVars>>

(* It has locked all its keys, and changes the rows. *)
MergeEnds(l) ==
    /\ Merging(l) /\ MergeAccepted(snapshot[l], staging[l])
    /\ Blockers(l) = {} /\ ~Changing(l)
    /\ KeysToLock(l) \subseteq locks[l] \cup wants[l]
    /\ removes' = [removes EXCEPT ![l] = MergeRemoves(snapshot[l], staging[l])]
    /\ adds' = [adds EXCEPT ![l] = MergeAdds(snapshot[l], staging[l])]
    /\ NoMerge(l)
    /\ pc' = [pc EXCEPT ![l] = "committing"]
    /\ UNCHANGED <<conn, stagingTable, columns, mergeSql, rowsWritten, nrows,
                   left, pos, table, staging, shapeVars, historyVars>>

(* Mutant: a MERGE that failed is sent again. *)
MergeRetried(l) ==
    /\ pc[l] = "merging"
    /\ NoMerge(l)
    /\ UNCHANGED <<pluginVars, table, removes, adds, staging, shapeVars, historyVars>>

(* The MERGE fails, and as one statement leaves nothing behind. *)
MergeFails(l) ==
    /\ pc[l] = "merging"
    /\ pc' = [pc EXCEPT ![l] = "failed"]
    /\ NoMerge(l)
    /\ UNCHANGED <<conn, stagingTable, columns, mergeSql, rowsWritten, nrows,
                   left, pos, table, removes, adds, staging, shapeVars, historyVars>>

(* Mutant: finalize returns without a COMMIT, and the session ends. *)
CommitOmitted(l) ==
    /\ UNCHANGED table
    /\ TransactionEnds(l)
    /\ commits' = [commits EXCEPT ![l] = @ + 1]

(* Oracle applies the COMMIT, which also empties the temporary table. *)
Committed(l) ==
    /\ table' = Changed(table, removes[l], adds[l])
    /\ TransactionEnds(l)
    /\ commits' = [commits EXCEPT ![l] = @ + 1]

(* finalize returns Ok(rows_written). *)
Commit(l) ==
    /\ pc[l] = "committing" /\ conn[l] = "open"
    /\ Committed(l)
    /\ reported' = [reported EXCEPT ![l] = @ + 1]
    /\ pc' = [pc EXCEPT ![l] = "done"]
    /\ UNCHANGED <<conn, stagingTable, columns, mergeSql, rowsWritten, nrows,
                   left, pos, shapeVars, attempts>>

(* The COMMIT is applied, but the connection breaks before the answer. *)
CommitAnswerLost(l) ==
    /\ pc[l] = "committing" /\ conn[l] = "open"
    /\ Committed(l)
    /\ pc' = [pc EXCEPT ![l] = "failed"]
    /\ conn' = [conn EXCEPT ![l] = "lost"]
    /\ UNCHANGED <<stagingTable, columns, mergeSql, rowsWritten, nrows, left,
                   pos, shapeVars, attempts, reported>>

(* Mutant: the COMMIT is tried again on the connection that is gone. *)
CommitRetried(l) ==
    /\ pc[l] = "committing" /\ conn[l] = "lost"
    /\ UNCHANGED vars

(* The COMMIT does not reach Oracle: the session is gone. *)
CommitFails(l) ==
    /\ pc[l] = "committing" /\ conn[l] = "lost"
    /\ pc' = [pc EXCEPT ![l] = "failed"]
    /\ UNCHANGED <<conn, stagingTable, columns, mergeSql, rowsWritten, nrows,
                   left, pos, table, sessionVars, shapeVars, historyVars>>

---------------------------------------------------------------------------
(* cancel, and the end of the process *)

(* Mutant: no ROLLBACK. *)
CancelWithoutRollback(l) ==
    /\ pc[l] \in {"configured", "ready", "failed"}
    /\ pc' = [pc EXCEPT ![l] = "cancelled"]
    /\ UNCHANGED <<conn, stagingTable, columns, mergeSql, rowsWritten, nrows,
                   left, pos, table, sessionVars, shapeVars, historyVars>>

(* Roll back, if there is a connection; an error of ROLLBACK is ignored. *)
Cancel(l) ==
    /\ pc[l] \in {"configured", "ready", "failed"}
    /\ pc' = [pc EXCEPT ![l] = "cancelled"]
    /\ IF conn[l] = "open" THEN TransactionEnds(l) ELSE UNCHANGED sessionVars
    /\ UNCHANGED <<conn, stagingTable, columns, mergeSql, rowsWritten, nrows,
                   left, pos, table, shapeVars, historyVars>>

(* Mutant: the session outlives the process, with all that it has locked. *)
SessionOutlives(l) ==
    /\ pc' = [pc EXCEPT ![l] = "off"]
    /\ pos' = [pos EXCEPT ![l] = 0]
    /\ left' = [left EXCEPT ![l] = 0]
    /\ UNCHANGED <<conn, stagingTable, columns, mergeSql, rowsWritten, nrows,
                   table, sessionVars, shapeVars, historyVars>>

(* The process ends: its fields are gone, and so is its session. *)
Gone(l) ==
    /\ pc' = [pc EXCEPT ![l] = "off"]
    /\ conn' = [conn EXCEPT ![l] = "none"]
    /\ stagingTable' = [stagingTable EXCEPT ![l] = FALSE]
    /\ columns' = [columns EXCEPT ![l] = FALSE]
    /\ mergeSql' = [mergeSql EXCEPT ![l] = FALSE]
    /\ rowsWritten' = [rowsWritten EXCEPT ![l] = 0]
    /\ nrows' = [nrows EXCEPT ![l] = 0]
    /\ left' = [left EXCEPT ![l] = 0]
    /\ pos' = [pos EXCEPT ![l] = 0]
    /\ TransactionEnds(l)
    /\ UNCHANGED <<table, shapeVars, historyVars>>

Exit(l) == pc[l] \in {"done", "cancelled", "failed"} /\ Gone(l)

(* The process dies, in a call or between two. *)
Crash(l) ==
    /\ pc[l] \in {"configured", "ready", "inserting", "merging", "committing"}
    /\ Gone(l)

---------------------------------------------------------------------------
(* What an undisturbed load does next. *)
Works(l) ==
    \/ Prepare(l)
    \/ \E n \in 0..Len(Input[l]) : WriteBatch(l, n)
    \/ InsertRow(l)
    \/ BatchWritten(l)
    \/ Finalize(l)
    \/ MergeLocks(l)
    \/ MergeRestarts(l)
    \/ MergeEnds(l)
    \/ Commit(l)
    \/ Cancel(l)

Fails(l) ==
    \/ PrepareFails(l)
    \/ WriteBatchFails(l)
    \/ DmlFails(l)
    \/ MergeFails(l)
    \/ CommitFails(l)
    \/ CommitAnswerLost(l)
    \/ SessionLost(l)
    \/ Crash(l)

Next ==
    \/ AlterTarget
    \/ \E l \in Loaders : Configure(l) \/ Works(l) \/ Fails(l) \/ Exit(l)

Spec == Init /\ [][Next]_vars

---------------------------------------------------------------------------
(* Fairness.  The engine goes on with a load it has started and cancels    *)
(* one that failed; Oracle answers, with an error when it has to.  Nothing *)
(* makes the engine start, cancel or end a load, and no fault has to come. *)

(* The statement that load l has sent can only fail. *)
DmlDoomed(l) == conn[l] = "lost" \/ Refused(l) \/ Deadlocked(l)

(* For a MERGE: no connection, a column that is unknown, a key it cannot   *)
(* merge, a deadlock, or a key it inserts that is there by now (ORA-00001).*)
MergeDoomed(l) ==
    \/ conn[l] = "lost"
    \/ ~(Columns \subseteq tableColumns)
    \/ ~MergeAccepted(snapshot[l], staging[l])
    \/ Deadlocked(l)
    \/ Changing(l) /\ ~(wants[l] \subseteq KeysIn(snapshot[l]))

Progress(l) ==
    \/ Prepare(l)
    \/ \E n \in 1..Len(Input[l]) : WriteBatch(l, n)
    \/ Staged(l) /\ ~MergeKeyPresent /\ Input[l] # <<>> /\ WriteBatchFails(l)
    \/ InsertRow(l)
    \/ BatchWritten(l)
    \/ pc[l] = "inserting" /\ left[l] > 0 /\ DmlDoomed(l) /\ DmlFails(l)
    \/ Finalize(l)
    \/ MergeLocks(l)
    \/ MergeRestarts(l)
    \/ MergeEnds(l)
    \/ MergeDoomed(l) /\ MergeFails(l)
    \/ Commit(l)
    \/ CommitFails(l)
    \/ pc[l] = "failed" /\ Cancel(l)

Fairness == \A l \in Loaders : WF_vars(Progress(l))

FairSpec == Spec /\ Fairness
---------------------------------------------------------------------------
(* Properties. *)

Calls == {"off", "configured", "ready", "inserting", "merging", "committing",
          "failed", "cancelled", "done"}

(* Every variable has its type: in particular a load never has more rows   *)
(* executed, or in hand, than the source gave it.                          *)
TypeOK ==
    /\ pc \in [Loaders -> Calls]
    /\ conn \in [Loaders -> {"none", "open", "lost"}]
    /\ stagingTable \in [Loaders -> BOOLEAN]
    /\ columns \in [Loaders -> BOOLEAN]
    /\ mergeSql \in [Loaders -> BOOLEAN]
    /\ rowsWritten \in [Loaders -> Nat]
    /\ nrows \in [Loaders -> Nat]
    /\ left \in [Loaders -> Nat]
    /\ pos \in [Loaders -> Nat]
    /\ \A l \in Loaders : pos[l] + left[l] <= Len(Input[l])
    /\ table \in Tables
    /\ tableColumns \in SUBSET (InitialColumns \cup Columns)
    /\ gttColumns \in (SUBSET (InitialColumns \cup Columns)) \cup {NoTable}
    /\ removes \in [Loaders -> SUBSET Rows]
    /\ adds \in [Loaders -> Tables]
    /\ staging \in [Loaders -> Tables]
    /\ snapshot \in [Loaders -> Tables]
    /\ locks \in [Loaders -> SUBSET {KeyOf[r] : r \in Rows}]
    /\ wants \in [Loaders -> SUBSET {KeyOf[r] : r \in Rows}]
    /\ attempts \in [Loaders -> Nat]
    /\ commits \in [Loaders -> Nat]
    /\ reported \in [Loaders -> Nat]

(* What a session holds back is exactly what its load has written, also in *)
(* the middle of a batch: the first pos[l] rows of the input, in the       *)
(* target (atomic) or in the temporary table (staged_merge), and nothing   *)
(* of it once the connection is gone.  rows_written counts whole batches.  *)
TxnIsInputPrefix ==
    \A l \in Loaders :
        /\ conn[l] = "open" /\ pc[l] \in {"ready", "inserting", "merging"} =>
            LET written == FirstRows(Input[l], pos[l])
            IN  /\ adds[l] = IF Staged(l) THEN NoRows ELSE written
                /\ staging[l] = IF Staged(l) THEN written ELSE NoRows
                /\ removes[l] = {}
        /\ conn[l] # "open" => /\ adds[l] = NoRows /\ staging[l] = NoRows
                               /\ removes[l] = {}
        /\ conn[l] # "open" \/ pc[l] # "merging" => locks[l] = {} /\ wants[l] = {}
        /\ pc[l] \in {"ready", "merging", "committing", "done"} =>
            rowsWritten[l] = pos[l]
        /\ pc[l] = "inserting" => rowsWritten[l] + nrows[l] = pos[l] + left[l]

(* finalize's Ok is the row count of the whole load (finalize returns      *)
(* self.rows_written): no row of the input is missing from it, whichever   *)
(* way the batches were cut.                                               *)
FinalizeReportsWholeLoad ==
    \A l \in Loaders : pc[l] = "done" => rowsWritten[l] = Len(Input[l])

(* The refinement mapping: the committed rows of the target are the table, *)
(* and what plugins and sessions hold of a load is not there yet.          *)
Loads == INSTANCE AtomicLoad
            WITH table <- table, commits <- commits, reported <- reported

(* "All-or-nothing": the table changes only by a whole load, in one step,  *)
(* whatever crashes, lost connections, failed batches and other sessions   *)
(* do in between; and a MERGE computed before COMMIT is still the merge of *)
(* the load into the table that COMMIT finds.                              *)
EachLoadIsAtomic == Loads!Spec

(* Once finalize has returned Ok for a load, its rows stay in the table:   *)
(* every key it brought, and every copy of a row without a key.            *)
ReportedLoadIsDurable ==
    \A l \in Loaders : reported[l] > 0 =>
        /\ KeysIn(Loads!AllRows(l)) \subseteq KeysIn(table)
        /\ \A r \in Rows :
            KeyOf[r] = NullKey => table[r] >= Loads!AllRows(l)[r]

(* "Idempotent by the key => exactly-once effective": however often a      *)
(* staged_merge load was committed, every row with a key is as if it was   *)
(* committed once, unless another load changed the table as well.  A row   *)
(* whose key is NULL matches nothing and comes again with every commit.    *)
ExactlyOnceEffective ==
    \A l \in Loaders :
        Staged(l) /\ (\A o \in Loaders \ {l} : commits[o] = 0) =>
            LET once == IF commits[l] = 0 THEN InitialTable
                                          ELSE Loads!LoadEffect(l, InitialTable)
            IN  \A r \in Rows :
                    table[r] = IF KeyOf[r] # NullKey THEN once[r]
                               ELSE InitialTable[r] + commits[l] * Loads!AllRows(l)[r]

(* No load hangs: once started, and whatever faults and other loads do, it *)
(* is finished or cancelled, and its locks are released.                   *)
EveryLoadSettles ==
    \A l \in Loaders :
        pc[l] = "configured" ~> /\ pc[l] \in {"done", "cancelled", "off"}
                                /\ adds[l] = NoRows /\ locks[l] = {}

(* What keeps loads from hanging, as properties of states and of steps: of *)
(* loads that wait one can always go on, and each time there is less to do.*)

Settled(l) == pc[l] \in {"done", "cancelled", "off"}

(* Load l is not Settled, and a step of Progress(l) is possible. *)
CanGo(l) ==
    \/ pc[l] \in {"configured", "failed"}
    \/ /\ pc[l] = "ready"
       /\ \/ pos[l] = Len(Input[l])
          \/ Staged(l) /\ MergeKeyPresent => stagingTable[l]
    \/ /\ pc[l] = "inserting"
       /\ left[l] = 0 \/ DmlDoomed(l) \/ (conn[l] = "open" /\ Blockers(l) = {})
    \/ /\ pc[l] = "merging"
       /\ MergeDoomed(l) \/ (conn[l] = "open" /\ Blockers(l) = {})
    \/ pc[l] = "committing" /\ conn[l] \in {"open", "lost"}

(* Loads that wait for none but each other do not all wait: a circle of    *)
(* array DMLs and MERGEs, each holding what the next one needs, is broken  *)
(* as a deadlock, and nobody waits for a load that is settled, because     *)
(* cancel, COMMIT and the end of a process have released its locks.        *)
NoStandstill ==
    \A group \in SUBSET Loaders :
        /\ \E l \in group : ~Settled(l)
        /\ \A l \in group : Blockers(l) \subseteq group
        => \E l \in group : CanGo(l)

(* An upper bound of the steps that load l still takes: three for a row    *)
(* that is not sent yet, which may be a batch of its own; one for each key *)
(* the MERGE has to lock, and as many again if it is to start once more.   *)
ToMerge(l) == KeysIn(staging[l])
MergeSteps(l) ==
    Cardinality(ToMerge(l) \ (locks[l] \cup wants[l]))
      + (IF \E r \in Rows : KeyOf[r] \in ToMerge(l) /\ table[r] # snapshot[l][r]
         THEN Cardinality(ToMerge(l)) + 1 ELSE 0)
StepsLeft(l) ==
    CASE pc[l] = "configured" -> 5 + 4 * Len(Input[l])
      [] pc[l] = "ready" -> 4 + Len(Input[l]) + 3 * (Len(Input[l]) - pos[l])
      [] pc[l] = "inserting" ->
            5 + Len(Input[l]) + 3 * (Len(Input[l]) - pos[l] - left[l]) + left[l]
      [] pc[l] = "merging" -> 3 + MergeSteps(l)
      [] pc[l] = "committing" -> 2
      [] pc[l] = "failed" -> 1
      [] OTHER -> 0

(* No load goes round in circles: each step of it leaves it less to do, an *)
(* empty batch as much, and no fault, nor what the engine does, makes it   *)
(* more; only a process that is started begins anew, and a MERGE may start *)
(* again, as often as another load commits before it and no oftener.       *)
WorkShrinks ==
    [][\A l \in Loaders :
        /\ Progress(l) => StepsLeft(l)' < StepsLeft(l)
        /\ StepsLeft(l)' > StepsLeft(l) =>
            \/ pc[l] = "off"
            \/ pc[l] = "merging" /\ \E o \in Loaders \ {l} : commits'[o] > commits[o]
      ]_vars
=============================================================================
