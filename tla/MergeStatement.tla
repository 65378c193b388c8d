-------------------------- MODULE MergeStatement --------------------------
(***************************************************************************)
(* What the two SQL statements of the Oracle destination do to a table.    *)
(*                                                                         *)
(*   build_insert_sql        INSERT INTO target (cols) VALUES (binds)      *)
(*   build_staged_merge_sql  MERGE INTO target t USING staging s           *)
(*                           ON (t.k = s.k AND ...)                        *)
(*                           [WHEN MATCHED THEN UPDATE SET non-key]        *)
(*                           WHEN NOT MATCHED THEN INSERT                  *)
(*                                                                         *)
(* A table is a bag of rows: a function from Rows to the number of copies. *)
(* A row is opaque; all that the statements look at is the value of its    *)
(* merge_key columns, KeyOf[row].  NullKey stands for a NULL key:          *)
(* `t.k = s.k` is then never true, in SQL's three-valued logic, and a      *)
(* unique index does not hold an entry for it.                             *)
(***************************************************************************)
EXTENDS Naturals, FiniteSets, Sequences

CONSTANTS
    Rows,       \* the rows that source and target may hold
    KeyOf,      \* KeyOf[r]: the merge_key value of row r
    NullKey,    \* the key value of a row whose merge_key is NULL
    Columns,    \* the columns of the incoming batches
    MergeKey    \* the configured merge_key, as a set of column names

ASSUME KeyOfAssumption == KeyOf = [r \in Rows |-> KeyOf[r]]

Tables == [Rows -> Nat]

NoRows == [r \in Rows |-> 0]

(* The bag of the first n rows of the sequence s. *)
FirstRows(s, n) == [r \in Rows |-> Cardinality({i \in 1..n : s[i] = r})]

(* The keys an equality predicate, or a unique index, can see in table t. *)
KeysIn(t) == {KeyOf[r] : r \in {q \in Rows : t[q] > 0}} \ {NullKey}

(* Table t after a statement replaced the rows of a set and added others. *)
Changed(t, removed, added) ==
    [r \in Rows |-> (IF r \in removed THEN 0 ELSE t[r]) + added[r]]

---------------------------------------------------------------------------
(* The column lists the MERGE is built from. *)

(* Every merge_key column occurs in the incoming data. *)
MergeKeyPresent == MergeKey \subseteq Columns

(* There is a non-key column, hence a WHEN MATCHED branch. *)
UpdatesMatched == Columns \ MergeKey # {}

---------------------------------------------------------------------------
(* The MERGE.  Its precondition, from the documentation of merge_key, is   *)
(* that the key is unique on the target.                                   *)

(* The ON predicate holds between r and some row of the other table. *)
Matched(t, staged, r) == KeyOf[r] \in KeysIn(t) \cap KeysIn(staged)

(* Mutant: there is no WHEN MATCHED branch, and all rows are inserted. *)
ReplacesNothing(t, staged) == {}

(* The target rows that WHEN MATCHED replaces by the staged ones. *)
MergeRemoves(t, staged) ==
    {r \in Rows : UpdatesMatched /\ t[r] > 0 /\ Matched(t, staged, r)}

(* What replaces them, and the rows that WHEN NOT MATCHED inserts. *)
MergeAdds(t, staged) ==
    [r \in Rows |->
        IF Matched(t, staged, r) /\ ~UpdatesMatched THEN 0 ELSE staged[r]]

MergeEffect(t, staged) ==
    Changed(t, MergeRemoves(t, staged), MergeAdds(t, staged))

InsertEffect(t, rows) == Changed(t, {}, rows)

(* Exactly one staged row carries key k. *)
OneRowFor(staged, k) ==
    \E r \in Rows :
        /\ KeyOf[r] = k
        /\ staged[r] = 1
        /\ \A q \in Rows : KeyOf[q] = k /\ q # r => staged[q] = 0

(* Oracle runs the MERGE: no target row would be updated from two staged   *)
(* rows (ORA-30926), and no key would be inserted twice (ORA-00001).       *)
MergeAccepted(t, staged) ==
    \A k \in KeysIn(staged) :
        \/ OneRowFor(staged, k)
        \/ k \in KeysIn(t) /\ ~UpdatesMatched
=============================================================================
