--------------------- MODULE OracleDestinationProofs ----------------------
(***************************************************************************)
(* Proofs about OracleDestination, for every set of loads, every input,    *)
(* every table and every bound.                                            *)
(***************************************************************************)
EXTENDS OracleDestination, FiniteSetTheorems, TLAPS

---------------------------------------------------------------------------
(* Bags of rows. *)

(* The positions up to n that hold row r are finitely many. *)
LEMMA PositionsFinite ==
    ASSUME NEW s, NEW n \in Nat, NEW r
    PROVE  /\ IsFiniteSet({i \in 1..n : s[i] = r})
           /\ Cardinality({i \in 1..n : s[i] = r}) \in Nat
<1>1. IsFiniteSet(1..n)
  BY FS_Interval
<1>2. {i \in 1..n : s[i] = r} \in SUBSET (1..n)
  OBVIOUS
<1>3. IsFiniteSet({i \in 1..n : s[i] = r})
  BY <1>1, <1>2, FS_Subset
<1> QED BY <1>3, FS_CardinalityType

LEMMA FirstRowsType ==
    ASSUME NEW s, NEW n \in Nat
    PROVE  FirstRows(s, n) \in Tables
<1>1. \A r \in Rows : Cardinality({i \in 1..n : s[i] = r}) \in Nat
  BY PositionsFinite
<1> QED BY <1>1 DEF FirstRows, Tables

LEMMA FirstRowsEmpty == \A s : FirstRows(s, 0) = NoRows
<1> TAKE s
<1>1. \A r \in Rows : {i \in 1..0 : s[i] = r} = {}
  OBVIOUS
<1> QED BY <1>1, FS_EmptySet DEF FirstRows, NoRows

(* One more row of the sequence is one more copy of that row. *)
LEMMA FirstRowsStep ==
    ASSUME NEW s, NEW n \in Nat
    PROVE  FirstRows(s, n + 1) = [FirstRows(s, n) EXCEPT ![s[n + 1]] = @ + 1]
<1> SUFFICES ASSUME NEW r \in Rows
             PROVE  FirstRows(s, n + 1)[r] =
                      [FirstRows(s, n) EXCEPT ![s[n + 1]] = @ + 1][r]
  BY DEF FirstRows
<1> DEFINE Old == {i \in 1..n : s[i] = r}
           New == {i \in 1..(n + 1) : s[i] = r}
<1>1. FirstRows(s, n)[r] = Cardinality(Old) /\ FirstRows(s, n + 1)[r] = Cardinality(New)
  BY DEF FirstRows
<1>2. CASE r # s[n + 1]
  <2>1. New = Old
    BY <1>2
  <2> QED BY <1>1, <1>2, <2>1 DEF FirstRows
<1>3. CASE r = s[n + 1]
  <2>1. New = Old \cup {n + 1} /\ n + 1 \notin Old
    BY <1>3
  <2>2. IsFiniteSet(Old)
    BY PositionsFinite
  <2> HIDE DEF Old, New
  <2>3. Cardinality(New) = Cardinality(Old) + 1
    BY <2>1, <2>2, FS_AddElement
  <2> QED BY <1>1, <1>3, <2>3 DEF FirstRows
<1> QED BY <1>2, <1>3

LEMMA NoRowsType == NoRows \in Tables
BY DEF NoRows, Tables

LEMMA OneMoreType ==
    ASSUME NEW t \in Tables, NEW r \in Rows
    PROVE  [t EXCEPT ![r] = @ + 1] \in Tables
BY DEF Tables

LEMMA ChangedType ==
    ASSUME NEW t \in Tables, NEW removed, NEW added \in Tables
    PROVE  Changed(t, removed, added) \in Tables
BY DEF Changed, Tables

LEMMA MergeTypes ==
    ASSUME NEW t \in Tables, NEW staged \in Tables
    PROVE  /\ MergeRemoves(t, staged) \in SUBSET Rows
           /\ MergeAdds(t, staged) \in Tables
BY DEF MergeRemoves, MergeAdds, Tables

---------------------------------------------------------------------------
(* Keys. *)

LEMMA KeyHeld ==
    ASSUME NEW t, NEW k
    PROVE  k \in KeysIn(t) <=>
             k # NullKey /\ \E r \in Rows : KeyOf[r] = k /\ t[r] > 0
BY DEF KeysIn

LEMMA NoRowsKeys == KeysIn(NoRows) = {}
BY DEF KeysIn, NoRows

(* One more copy of row r. *)
LEMMA OneMoreKeys ==
    ASSUME NEW t \in Tables, NEW r \in Rows
    PROVE  KeysIn([t EXCEPT ![r] = @ + 1]) = KeysIn(t) \cup ({KeyOf[r]} \ {NullKey})
<1> DEFINE u == [t EXCEPT ![r] = @ + 1]
<1>1. \A q \in Rows : u[q] > 0 <=> t[q] > 0 \/ q = r
  BY DEF Tables
<1> HIDE DEF u
<1>2. \A k : k \in KeysIn(u) <=> k \in KeysIn(t) \/ (k = KeyOf[r] /\ k # NullKey)
  BY <1>1, KeyHeld
<1>3. KeysIn(u) = KeysIn(t) \cup ({KeyOf[r]} \ {NullKey})
  BY <1>2
<1> QED BY <1>3 DEF u

(* A statement that replaces rows by rows with the same keys keeps every   *)
(* key, and brings those of the rows it adds.                              *)
LEMMA ChangedKeys ==
    ASSUME NEW t \in Tables, NEW added \in Tables, NEW removed \in SUBSET Rows,
           \A r \in removed : KeyOf[r] \in KeysIn(added)
    PROVE  KeysIn(Changed(t, removed, added)) = KeysIn(t) \cup KeysIn(added)
<1> DEFINE u == Changed(t, removed, added)
<1>1. \A q \in Rows : u[q] > 0 <=> (q \notin removed /\ t[q] > 0) \/ added[q] > 0
  BY DEF Changed, Tables
<1> HIDE DEF u
<1>2. \A k : k \in KeysIn(u) => k \in KeysIn(t) \cup KeysIn(added)
  BY <1>1, KeyHeld
<1>3. \A k : k \in KeysIn(added) => k \in KeysIn(u)
  BY <1>1, KeyHeld
<1>4. ASSUME NEW k \in KeysIn(t) PROVE k \in KeysIn(u)
  <2>1. PICK q \in Rows : KeyOf[q] = k /\ t[q] > 0 /\ k # NullKey
    BY KeyHeld
  <2>2. CASE q \in removed
    BY <1>3, <2>1, <2>2
  <2>3. CASE q \notin removed
    BY <1>1, <2>1, <2>3, KeyHeld
  <2> QED BY <2>2, <2>3
<1> QED BY <1>2, <1>3, <1>4 DEF u

LEMMA MergeOfNoRows ==
    ASSUME NEW t \in Tables
    PROVE  MergeAdds(t, NoRows) = NoRows /\ MergeRemoves(t, NoRows) = {}
BY NoRowsKeys DEF MergeAdds, MergeRemoves, Matched, NoRows

(* The MERGE holds only keys it was given, and all that it replaces. *)
LEMMA MergeKeys ==
    ASSUME NEW t \in Tables, NEW staged \in Tables
    PROVE  /\ KeysIn(MergeAdds(t, staged)) \subseteq KeysIn(staged)
           /\ \A r \in MergeRemoves(t, staged) : KeyOf[r] \in KeysIn(MergeAdds(t, staged))
           /\ KeysIn(staged) \subseteq KeysIn(t) \cup KeysIn(MergeAdds(t, staged))
<1> DEFINE m == MergeAdds(t, staged)
<1>1. \A r \in Rows : m[r] > 0 => staged[r] > 0
  BY DEF MergeAdds
<1>2. \A r \in Rows : m[r] = IF Matched(t, staged, r) /\ ~UpdatesMatched THEN 0 ELSE staged[r]
  BY DEF MergeAdds
<1> HIDE DEF m
<1>3. KeysIn(m) \subseteq KeysIn(staged)
  BY <1>1, KeyHeld
<1>4. ASSUME NEW r \in MergeRemoves(t, staged) PROVE KeyOf[r] \in KeysIn(m)
  <2>1. UpdatesMatched /\ KeyOf[r] \in KeysIn(staged)
    BY DEF MergeRemoves, Matched
  <2>2. PICK q \in Rows : KeyOf[q] = KeyOf[r] /\ staged[q] > 0 /\ KeyOf[r] # NullKey
    BY <2>1, KeyHeld
  <2> QED BY <1>2, <2>1, <2>2, KeyHeld
<1>5. ASSUME NEW k \in KeysIn(staged), k \notin KeysIn(t) PROVE k \in KeysIn(m)
  <2>1. PICK q \in Rows : KeyOf[q] = k /\ staged[q] > 0 /\ k # NullKey
    BY KeyHeld
  <2>2. ~Matched(t, staged, q)
    BY <1>5, <2>1 DEF Matched
  <2> QED BY <1>2, <2>1, <2>2, KeyHeld
<1> QED BY <1>3, <1>4, <1>5 DEF m

(* A MERGE that was computed against table t is still the right one after  *)
(* another session has committed changes to other keys.                    *)
LEMMA MergeSurvivesOthers ==
    ASSUME NEW t \in Tables, NEW staged \in Tables, NEW added \in Tables,
           NEW removed \in SUBSET Rows,
           \A r \in removed : KeyOf[r] \in KeysIn(added),
           KeysIn(added) \cap KeysIn(MergeAdds(t, staged)) = {}
    PROVE  LET u == Changed(t, removed, added)
           IN  /\ MergeAdds(u, staged) = MergeAdds(t, staged)
               /\ MergeRemoves(u, staged) = MergeRemoves(t, staged)
<1> DEFINE u == Changed(t, removed, added)
<1>1. KeysIn(u) = KeysIn(t) \cup KeysIn(added)
  BY ChangedKeys
<1>2. KeysIn(staged) \subseteq KeysIn(t) \cup KeysIn(MergeAdds(t, staged))
  BY MergeKeys
<1>3. \A r \in Rows : Matched(u, staged, r) <=> Matched(t, staged, r)
  BY <1>1, <1>2 DEF Matched
<1>4. MergeAdds(u, staged) = MergeAdds(t, staged)
  BY <1>3 DEF MergeAdds
<1>5. ASSUME UpdatesMatched, NEW r \in Rows, Matched(t, staged, r)
      PROVE  u[r] = t[r]
  <2>1. MergeAdds(t, staged) = staged
    BY <1>5 DEF MergeAdds, Tables
  <2>2. KeyOf[r] \notin KeysIn(added) /\ KeyOf[r] # NullKey
    BY <1>5, <2>1 DEF Matched, KeysIn
  <2>3. r \notin removed /\ ~(added[r] > 0)
    BY <2>2, KeyHeld
  <2> QED BY <2>3 DEF Changed, Tables
<1>6. MergeRemoves(u, staged) = MergeRemoves(t, staged)
  BY <1>3, <1>5 DEF MergeRemoves
<1> QED BY <1>4, <1>6

(* A MERGE of rows as it has read them is the MERGE of the rows as they    *)
(* are, if those it touches are the same and no key has gone.              *)
LEMMA MergeAsRead ==
    ASSUME NEW t \in Tables, NEW seen \in Tables, NEW staged \in Tables,
           KeysIn(seen) \subseteq KeysIn(t),
           \A r \in Rows : KeyOf[r] \in KeysIn(MergeAdds(seen, staged)) => t[r] = seen[r]
    PROVE  /\ MergeAdds(t, staged) = MergeAdds(seen, staged)
           /\ MergeRemoves(t, staged) = MergeRemoves(seen, staged)
<1>1. KeysIn(staged) \subseteq KeysIn(seen) \cup KeysIn(MergeAdds(seen, staged))
  BY MergeKeys
<1>2. ASSUME NEW k \in KeysIn(t) \cap KeysIn(staged) PROVE k \in KeysIn(seen)
  <2>1. CASE k \in KeysIn(seen)
    BY <2>1
  <2>2. CASE k \in KeysIn(MergeAdds(seen, staged))
    <3>1. PICK q \in Rows : KeyOf[q] = k /\ t[q] > 0 /\ k # NullKey
      BY KeyHeld
    <3>2. seen[q] > 0
      BY <2>2, <3>1
    <3> QED BY <3>1, <3>2, KeyHeld
  <2> QED BY <1>1, <2>1, <2>2
<1>3. \A r \in Rows : Matched(t, staged, r) <=> Matched(seen, staged, r)
  BY <1>2 DEF Matched
<1>4. MergeAdds(t, staged) = MergeAdds(seen, staged)
  BY <1>3 DEF MergeAdds
<1>5. ASSUME UpdatesMatched, NEW r \in Rows, Matched(seen, staged, r)
      PROVE  t[r] = seen[r]
  <2>1. MergeAdds(seen, staged) = staged
    BY <1>5 DEF MergeAdds, Tables
  <2> QED BY <1>5, <2>1 DEF Matched
<1>6. MergeRemoves(t, staged) = MergeRemoves(seen, staged)
  BY <1>3, <1>5 DEF MergeRemoves
<1> QED BY <1>4, <1>6

---------------------------------------------------------------------------
(* Type correctness. *)

LEMMA InputLength == \A l \in Loaders : Len(Input[l]) \in Nat
BY InputAssumption

(* While a row of the batch is left, there is a next row in the input. *)
LEMMA NextRowType ==
    ASSUME TypeOK, NEW l \in Loaders, left[l] > 0
    PROVE  NextRow(l) \in Rows /\ pos[l] + 1 \in 1..Len(Input[l])
<1>1. Input[l] \in Seq(Rows)
  BY InputAssumption
<1>2. pos[l] \in Nat /\ left[l] \in Nat /\ pos[l] + left[l] <= Len(Input[l])
  BY DEF TypeOK
<1>3. pos[l] + 1 \in 1..Len(Input[l])
  BY <1>1, <1>2
<1> QED BY <1>1, <1>3 DEF NextRow

LEMMA TypeInit == Init => TypeOK
<1> SUFFICES ASSUME Init PROVE TypeOK
  OBVIOUS
<1>1. \A l \in Loaders : pos[l] + left[l] <= Len(Input[l])
  BY InputLength DEF Init
<1>2. /\ removes \in [Loaders -> SUBSET Rows]
      /\ adds \in [Loaders -> Tables] /\ staging \in [Loaders -> Tables]
      /\ snapshot \in [Loaders -> Tables]
      /\ locks \in [Loaders -> SUBSET {KeyOf[r] : r \in Rows}]
      /\ wants \in [Loaders -> SUBSET {KeyOf[r] : r \in Rows}]
  BY NoRowsType DEF Init
<1>3. table \in Tables
  BY TableAssumption DEF Init
<1>4. /\ stagingTable \in [Loaders -> BOOLEAN]
      /\ columns \in [Loaders -> BOOLEAN] /\ mergeSql \in [Loaders -> BOOLEAN]
  BY DEF Init
<1>5. /\ tableColumns \in SUBSET (InitialColumns \cup Columns)
      /\ gttColumns \in (SUBSET (InitialColumns \cup Columns)) \cup {NoTable}
  BY DEF Init
<1>6. /\ pc \in [Loaders -> Calls]
      /\ conn \in [Loaders -> {"none", "open", "lost"}]
  BY DEF Init, Calls
<1>7. /\ rowsWritten \in [Loaders -> Nat] /\ nrows \in [Loaders -> Nat]
      /\ left \in [Loaders -> Nat] /\ pos \in [Loaders -> Nat]
      /\ attempts \in [Loaders -> Nat] /\ commits \in [Loaders -> Nat]
      /\ reported \in [Loaders -> Nat]
  BY DEF Init
<1> QED BY <1>1, <1>2, <1>3, <1>4, <1>5, <1>6, <1>7 DEF TypeOK

(* The part of TypeOK that is about a running MERGE. *)
MergeTyped ==
    /\ snapshot \in [Loaders -> Tables]
    /\ locks \in [Loaders -> SUBSET {KeyOf[r] : r \in Rows}]
    /\ wants \in [Loaders -> SUBSET {KeyOf[r] : r \in Rows}]

LEMMA TypeStep == TypeOK /\ [Next]_vars => TypeOK'
<1> SUFFICES ASSUME TypeOK, [Next]_vars PROVE TypeOK'
  OBVIOUS
<1> USE DEF TypeOK, Calls
<1> USE DEF pluginVars, sessionVars, mergeVars, shapeVars, historyVars
<1>1. CASE UNCHANGED vars
  BY <1>1 DEF vars
<1>2. CASE AlterTarget
  BY <1>2 DEF AlterTarget
<1>3. ASSUME NEW l \in Loaders, Configure(l) PROVE TypeOK'
  <2>1. pc' \in [Loaders -> Calls] /\ attempts' \in [Loaders -> Nat]
    BY <1>3 DEF Configure
  <2> QED BY <1>3, <2>1 DEF Configure
<1>4. ASSUME NEW l \in Loaders, Prepare(l) PROVE TypeOK'
  <2>1. gttColumns' \in (SUBSET (InitialColumns \cup Columns)) \cup {NoTable}
    BY <1>4 DEF Prepare
  <2>2. stagingTable' \in [Loaders -> BOOLEAN]
    BY <1>4 DEF Prepare, Staged
  <2> QED BY <1>4, <2>1, <2>2 DEF Prepare
<1>5. ASSUME NEW l \in Loaders, NEW n \in 0..Len(Input[l]), WriteBatch(l, n)
      PROVE  TypeOK'
  <2>1. \A m \in Loaders : pos'[m] + left'[m] <= Len(Input[m])
    <3>1. /\ n \in Nat /\ pos[l] \in Nat /\ pos[l] + n <= Len(Input[l])
      BY <1>5, InputLength DEF WriteBatch
    <3>2. pos' = pos /\ left' = [left EXCEPT ![l] = n]
      BY <1>5 DEF WriteBatch, ArrayDml
    <3> QED BY <3>1, <3>2
  <2>2. nrows' \in [Loaders -> Nat] /\ left' \in [Loaders -> Nat]
    BY <1>5, InputLength DEF WriteBatch, ArrayDml
  <2>3. columns' \in [Loaders -> BOOLEAN] /\ mergeSql' \in [Loaders -> BOOLEAN]
    BY <1>5 DEF WriteBatch, StatementsBuilt, Staged
  <2>4. pc' \in [Loaders -> Calls]
    BY <1>5 DEF WriteBatch
  <2> QED BY <1>5, <2>1, <2>2, <2>3, <2>4 DEF WriteBatch
<1>6. ASSUME NEW l \in Loaders, InsertRow(l) PROVE TypeOK'
  <2>1. pos' \in [Loaders -> Nat] /\ left' \in [Loaders -> Nat]
    BY <1>6 DEF InsertRow
  <2>6. NextRow(l) \in Rows
    <3>1. left[l] > 0
      BY <1>6 DEF InsertRow
    <3> QED BY <3>1, NextRowType
  <2>2. \A m \in Loaders : pos'[m] + left'[m] = pos[m] + left[m]
    BY <1>6 DEF InsertRow
  <2>3. ASSUME Staged(l)
        PROVE  adds' \in [Loaders -> Tables] /\ staging' \in [Loaders -> Tables]
    <3>1. [staging[l] EXCEPT ![NextRow(l)] = @ + 1] \in Tables
      BY <2>6, OneMoreType
    <3>2. /\ adds' = adds
          /\ staging' = [staging EXCEPT ![l] = [staging[l] EXCEPT ![NextRow(l)] = @ + 1]]
      BY <1>6, <2>3 DEF InsertRow
    <3> QED BY <3>1, <3>2
  <2>4. ASSUME ~Staged(l)
        PROVE  adds' \in [Loaders -> Tables] /\ staging' \in [Loaders -> Tables]
    <3>1. [adds[l] EXCEPT ![NextRow(l)] = @ + 1] \in Tables
      BY <2>6, OneMoreType
    <3>2. /\ staging' = staging
          /\ adds' = [adds EXCEPT ![l] = [adds[l] EXCEPT ![NextRow(l)] = @ + 1]]
      BY <1>6, <2>4 DEF InsertRow
    <3> QED BY <3>1, <3>2
  <2>5. adds' \in [Loaders -> Tables] /\ staging' \in [Loaders -> Tables]
    BY <2>3, <2>4
  <2> QED BY <1>6, <2>1, <2>2, <2>5 DEF InsertRow
<1>7. ASSUME NEW l \in Loaders, BatchWritten(l) PROVE TypeOK'
  <2>1. rowsWritten' \in [Loaders -> Nat] /\ pc' \in [Loaders -> Calls]
    BY <1>7 DEF BatchWritten, RowsCounted
  <2> QED BY <1>7, <2>1 DEF BatchWritten
<1>8. ASSUME NEW l \in Loaders, Finalize(l) PROVE TypeOK'
  <2>1. \A phase \in Calls : [pc EXCEPT ![l] = phase] \in [Loaders -> Calls]
    OBVIOUS
  <2>2. \A t \in Tables : [snapshot EXCEPT ![l] = t] \in [Loaders -> Tables]
    OBVIOUS
  <2>3. pc' \in [Loaders -> Calls]
    BY <1>8, <2>1 DEF Finalize
  <2>4. snapshot' \in [Loaders -> Tables]
    BY <1>8, <2>2 DEF Finalize
  <2> QED BY <1>8, <2>3, <2>4 DEF Finalize
<1>8a. ASSUME NEW l \in Loaders, MergeLocks(l) PROVE TypeOK'
  <2>1. PICK k \in KeysToLock(l) :
            /\ locks' = [locks EXCEPT ![l] = @ \cup wants[l]]
            /\ wants' = [wants EXCEPT ![l] = {k}]
    BY <1>8a DEF MergeLocks
  <2>2. k \in {KeyOf[r] : r \in Rows}
    BY DEF KeysToLock, KeysIn
  <2>3. MergeTyped'
    <3> DEFINE Keys == {KeyOf[r] : r \in Rows}
    <3>1. k \in Keys /\ locks \in [Loaders -> SUBSET Keys] /\ wants \in [Loaders -> SUBSET Keys]
      BY <2>2
    <3>2. snapshot \in [Loaders -> Tables] /\ snapshot' = snapshot
      BY <1>8a DEF MergeLocks
    <3> HIDE DEF Keys
    <3>3. locks' \in [Loaders -> SUBSET Keys] /\ wants' \in [Loaders -> SUBSET Keys]
      BY <2>1, <3>1
    <3> QED BY <3>2, <3>3 DEF MergeTyped, Keys
  <2> QED BY <1>8a, <2>3 DEF MergeLocks, MergeTyped
<1>8b. ASSUME NEW l \in Loaders, MergeRestarts(l) PROVE TypeOK'
  BY <1>8b DEF MergeRestarts
<1>8c. ASSUME NEW l \in Loaders, MergeEnds(l) PROVE TypeOK'
  <2>1. /\ MergeRemoves(snapshot[l], staging[l]) \in SUBSET Rows
        /\ MergeAdds(snapshot[l], staging[l]) \in Tables
    BY MergeTypes
  <2>2. /\ adds' \in [Loaders -> Tables] /\ removes' \in [Loaders -> SUBSET Rows]
        /\ pc' \in [Loaders -> Calls]
    BY <1>8c, <2>1 DEF MergeEnds
  <2> QED BY <1>8c, <2>2, NoRowsType DEF MergeEnds, NoMerge
<1>9. ASSUME NEW l \in Loaders, Commit(l) PROVE TypeOK'
  <2>1. Changed(table, removes[l], adds[l]) \in Tables
    BY ChangedType
  <2>2. /\ removes' \in [Loaders -> SUBSET Rows]
        /\ adds' \in [Loaders -> Tables] /\ staging' \in [Loaders -> Tables]
        /\ MergeTyped' /\ table' \in Tables
    BY <1>9, <2>1, NoRowsType DEF Commit, Committed, TransactionEnds, NoMerge, MergeTyped
  <2>3. /\ pc' \in [Loaders -> Calls]
        /\ commits' \in [Loaders -> Nat] /\ reported' \in [Loaders -> Nat]
    BY <1>9 DEF Commit, Committed
  <2> QED BY <1>9, <2>2, <2>3 DEF Commit, MergeTyped
<1>10. ASSUME NEW l \in Loaders, Cancel(l) PROVE TypeOK'
  <2>1. TransactionEnds(l) \/ UNCHANGED sessionVars
    BY <1>10 DEF Cancel
  <2>2. /\ removes' \in [Loaders -> SUBSET Rows]
        /\ adds' \in [Loaders -> Tables] /\ staging' \in [Loaders -> Tables]
        /\ MergeTyped'
    <3>1. CASE TransactionEnds(l)
      BY <3>1, NoRowsType DEF TransactionEnds, NoMerge, MergeTyped
    <3>2. CASE UNCHANGED sessionVars
      BY <3>2 DEF MergeTyped
    <3> QED BY <2>1, <3>1, <3>2
  <2> QED BY <1>10, <2>2 DEF Cancel, MergeTyped
<1>11. ASSUME NEW l \in Loaders, PrepareFails(l) PROVE TypeOK'
  BY <1>11 DEF PrepareFails
<1>12. ASSUME NEW l \in Loaders, WriteBatchFails(l) PROVE TypeOK'
  BY <1>12 DEF WriteBatchFails, StatementsBuilt, Staged
<1>13. ASSUME NEW l \in Loaders, DmlFails(l) PROVE TypeOK'
  BY <1>13 DEF DmlFails
<1>14. ASSUME NEW l \in Loaders, MergeFails(l) PROVE TypeOK'
  BY <1>14, NoRowsType DEF MergeFails, NoMerge
<1>15. ASSUME NEW l \in Loaders, CommitFails(l) PROVE TypeOK'
  BY <1>15 DEF CommitFails
<1>16. ASSUME NEW l \in Loaders, CommitAnswerLost(l) PROVE TypeOK'
  BY <1>16, ChangedType, NoRowsType DEF CommitAnswerLost, Committed, TransactionEnds, NoMerge
<1>17. ASSUME NEW l \in Loaders, SessionLost(l) PROVE TypeOK'
  BY <1>17, NoRowsType DEF SessionLost, TransactionEnds, NoMerge
<1>18. ASSUME NEW l \in Loaders, Crash(l) \/ Exit(l) PROVE TypeOK'
  <2>1. Gone(l)
    BY <1>18 DEF Crash, Exit
  <2>2. \A m \in Loaders : pos'[m] + left'[m] <= Len(Input[m])
    BY <2>1, InputLength DEF Gone
  <2> QED BY <2>1, <2>2, NoRowsType DEF Gone, TransactionEnds, NoMerge
<1> QED
  BY <1>1, <1>2, <1>3, <1>4, <1>5, <1>6, <1>7, <1>8, <1>8a, <1>8b, <1>8c, <1>9,
     <1>10, <1>11, <1>12, <1>13, <1>14, <1>15, <1>16, <1>17, <1>18
  DEF Next, Works, Fails

(* Every variable keeps its type, and no load ever has more rows executed  *)
(* or in hand than the source gave it (write_batch's loop over the batch). *)
THEOREM TypeCorrect == Spec => []TypeOK
BY TypeInit, TypeStep, PTL DEF Spec

---------------------------------------------------------------------------
(* The inductive invariant. *)

(* Where a plugin process stands. *)
ProcessInv ==
    \A l \in Loaders :
        /\ pc[l] \in {"off", "configured"} =>
            /\ conn[l] = "none" /\ ~mergeSql[l]
            /\ pos[l] = 0 /\ rowsWritten[l] = 0
        /\ mergeSql[l] => Staged(l)
        /\ pc[l] \in {"inserting", "merging"} => mergeSql[l] = Staged(l)
        /\ pc[l] = "merging" => Staged(l)
        /\ pc[l] \in {"ready", "inserting", "committing"} =>
            pos[l] = 0 \/ mergeSql[l] = Staged(l)
        /\ pc[l] \in {"merging", "committing", "done"} => pos[l] = Len(Input[l])

(* No two sessions hold the same key. *)
LocksExclusive ==
    UniqueTarget =>
        \A l \in Loaders : \A o \in Loaders \ {l} : Held(l) \cap Held(o) = {}

(* A row that a session replaces is replaced by one with the same key. *)
RemovedAreReplaced ==
    \A l \in Loaders : \A r \in removes[l] : KeyOf[r] \in KeysIn(adds[l])

(* While its MERGE runs: no key that it read has gone from the table, the  *)
(* rows of the keys it has locked are as it read them, and it locks keys   *)
(* of its own rows only.                                                   *)
LockedAsRead ==
    \A l \in Loaders :
        pc[l] = "merging" /\ conn[l] = "open" =>
            /\ KeysIn(snapshot[l]) \subseteq KeysIn(table)
            /\ \A r \in Rows : KeyOf[r] \in locks[l] => table[r] = snapshot[l][r]
            /\ locks[l] \cup wants[l] \subseteq KeysToLock(l)

(* Between its MERGE and its COMMIT, a session holds the effect that the   *)
(* load has on the table as it is now, not as it was then.                 *)
CommitsWholeLoad ==
    \A l \in Loaders :
        pc[l] = "committing" /\ conn[l] = "open" =>
            LET all == FirstRows(Input[l], Len(Input[l]))
            IN  /\ adds[l] = IF Staged(l) THEN MergeAdds(table, all) ELSE all
                /\ removes[l] = IF Staged(l) THEN MergeRemoves(table, all) ELSE {}

LoadInv ==
    /\ ProcessInv
    /\ TxnIsInputPrefix
    /\ LocksExclusive
    /\ RemovedAreReplaced
    /\ LockedAsRead
    /\ CommitsWholeLoad

(* What a step can be. *)
LEMMA NextCases ==
    ASSUME [Next]_vars
    PROVE  \/ UNCHANGED vars
           \/ AlterTarget
           \/ \E l \in Loaders :
                \/ Configure(l) \/ Prepare(l) \/ InsertRow(l) \/ BatchWritten(l)
                \/ \E n \in 0..Len(Input[l]) : WriteBatch(l, n)
                \/ Finalize(l) \/ MergeLocks(l) \/ MergeRestarts(l) \/ MergeEnds(l)
                \/ Commit(l) \/ Cancel(l)
                \/ PrepareFails(l) \/ WriteBatchFails(l) \/ DmlFails(l)
                \/ MergeFails(l) \/ CommitFails(l) \/ CommitAnswerLost(l)
                \/ SessionLost(l) \/ Gone(l)
BY DEF Next, Works, Fails, Crash, Exit

LEMMA LoadInvInit == Init => LoadInv
<1> SUFFICES ASSUME Init PROVE LoadInv
  OBVIOUS
<1>1. ProcessInv
  BY DEF Init, ProcessInv
<1>2. TxnIsInputPrefix
  BY DEF Init, TxnIsInputPrefix
<1>3. LocksExclusive
  BY NoRowsKeys DEF Init, LocksExclusive, Held
<1>4. RemovedAreReplaced
  BY DEF Init, RemovedAreReplaced
<1>5. LockedAsRead /\ CommitsWholeLoad
  BY DEF Init, LockedAsRead, CommitsWholeLoad
<1> QED BY <1>1, <1>2, <1>3, <1>4, <1>5 DEF LoadInv

LEMMA ProcessStep == TypeOK /\ ProcessInv /\ [Next]_vars => ProcessInv'
<1> SUFFICES ASSUME TypeOK, ProcessInv, [Next]_vars PROVE ProcessInv'
  OBVIOUS
<1> USE DEF ProcessInv, Staged
<1>1. CASE UNCHANGED vars \/ AlterTarget
  BY <1>1 DEF vars, AlterTarget, pluginVars
<1>2. ASSUME NEW l \in Loaders, Configure(l) PROVE ProcessInv'
  BY <1>2 DEF Configure, TypeOK, Calls
<1>3. ASSUME NEW l \in Loaders, Prepare(l) PROVE ProcessInv'
  BY <1>3 DEF Prepare, TypeOK, Calls
<1>4. ASSUME NEW l \in Loaders, NEW n \in 0..Len(Input[l]), WriteBatch(l, n)
      PROVE  ProcessInv'
  BY <1>4 DEF WriteBatch, TypeOK, Calls, StatementsBuilt
<1>5. ASSUME NEW l \in Loaders, InsertRow(l) PROVE ProcessInv'
  BY <1>5 DEF InsertRow, TypeOK, Calls
<1>6. ASSUME NEW l \in Loaders, BatchWritten(l) PROVE ProcessInv'
  BY <1>6 DEF BatchWritten, TypeOK, Calls, RowsCounted
<1>7. ASSUME NEW l \in Loaders, Finalize(l) PROVE ProcessInv'
  BY <1>7 DEF Finalize, TypeOK, Calls
<1>7a. ASSUME NEW l \in Loaders, MergeLocks(l) \/ MergeRestarts(l) PROVE ProcessInv'
  BY <1>7a DEF MergeLocks, MergeRestarts, pluginVars
<1>7b. ASSUME NEW l \in Loaders, MergeEnds(l) PROVE ProcessInv'
  BY <1>7b DEF MergeEnds, Merging, TypeOK, Calls
<1>8. ASSUME NEW l \in Loaders, Commit(l) PROVE ProcessInv'
  BY <1>8 DEF Commit, TypeOK, Calls
<1>9. ASSUME NEW l \in Loaders, Cancel(l) PROVE ProcessInv'
  BY <1>9 DEF Cancel, TypeOK, Calls
<1>10. ASSUME NEW l \in Loaders, PrepareFails(l) PROVE ProcessInv'
  BY <1>10 DEF PrepareFails, TypeOK, Calls
<1>11. ASSUME NEW l \in Loaders, WriteBatchFails(l) PROVE ProcessInv'
  BY <1>11 DEF WriteBatchFails, TypeOK, Calls, StatementsBuilt
<1>12. ASSUME NEW l \in Loaders, DmlFails(l) PROVE ProcessInv'
  BY <1>12 DEF DmlFails, TypeOK, Calls
<1>13. ASSUME NEW l \in Loaders, MergeFails(l) PROVE ProcessInv'
  BY <1>13 DEF MergeFails, TypeOK, Calls
<1>14. ASSUME NEW l \in Loaders, CommitFails(l) PROVE ProcessInv'
  BY <1>14 DEF CommitFails, TypeOK, Calls
<1>15. ASSUME NEW l \in Loaders, CommitAnswerLost(l) PROVE ProcessInv'
  BY <1>15 DEF CommitAnswerLost, TypeOK, Calls
<1>16. ASSUME NEW l \in Loaders, SessionLost(l) PROVE ProcessInv'
  BY <1>16 DEF SessionLost, TypeOK, Calls
<1>17. ASSUME NEW l \in Loaders, Gone(l) PROVE ProcessInv'
  BY <1>17 DEF Gone, TypeOK, Calls
<1> QED
  BY NextCases, <1>1, <1>2, <1>3, <1>4, <1>5, <1>6, <1>7, <1>7a, <1>7b, <1>8,
     <1>9, <1>10, <1>11, <1>12, <1>13, <1>14, <1>15, <1>16, <1>17

LEMMA PrefixStep ==
    TypeOK /\ ProcessInv /\ TxnIsInputPrefix /\ [Next]_vars => TxnIsInputPrefix'
<1> SUFFICES ASSUME TypeOK, ProcessInv, TxnIsInputPrefix, [Next]_vars
             PROVE  TxnIsInputPrefix'
  OBVIOUS
<1> USE DEF TxnIsInputPrefix, Staged, mergeVars, NoMerge
<1>1. CASE UNCHANGED vars \/ AlterTarget
  BY <1>1 DEF vars, AlterTarget, pluginVars, sessionVars
<1>2. ASSUME NEW l \in Loaders, Configure(l) PROVE TxnIsInputPrefix'
  BY <1>2 DEF Configure, TypeOK, Calls, sessionVars, ProcessInv
<1>3. ASSUME NEW l \in Loaders, Prepare(l) PROVE TxnIsInputPrefix'
  BY <1>3, FirstRowsEmpty DEF Prepare, TypeOK, Calls, sessionVars, ProcessInv
<1>4. ASSUME NEW l \in Loaders, NEW n \in 0..Len(Input[l]), WriteBatch(l, n)
      PROVE  TxnIsInputPrefix'
  <2>1. /\ UNCHANGED <<conn, rowsWritten, pos, adds, removes, staging, locks, wants>>
        /\ \A m \in Loaders \ {l} : pc'[m] = pc[m] /\ nrows'[m] = nrows[m] /\ left'[m] = left[m]
        /\ pc[l] = "ready" /\ pc'[l] \in {"ready", "inserting"}
        /\ nrows'[l] = left'[l]
    BY <1>4 DEF WriteBatch, TypeOK, sessionVars, ArrayDml
  <2> QED BY <2>1
<1>5. ASSUME NEW l \in Loaders, InsertRow(l) PROVE TxnIsInputPrefix'
  <2> DEFINE written == FirstRows(Input[l], pos[l])
             more(t) == [t EXCEPT ![NextRow(l)] = @ + 1]
  <2>1. pos[l] \in Nat /\ left[l] \in Nat /\ rowsWritten[l] \in Nat /\ nrows[l] \in Nat
    BY DEF TypeOK
  <2>2. FirstRows(Input[l], pos[l] + 1) = more(written)
    BY <2>1, FirstRowsStep DEF NextRow
  <2>3. /\ pos' = [pos EXCEPT ![l] = @ + 1] /\ left' = [left EXCEPT ![l] = @ - 1]
        /\ UNCHANGED <<pc, conn, rowsWritten, nrows, removes, locks, wants>>
        /\ pc[l] = "inserting" /\ conn[l] = "open" /\ left[l] > 0
    BY <1>5 DEF InsertRow
  <2>4. adds' = IF Staged(l) THEN adds ELSE [adds EXCEPT ![l] = more(adds[l])]
    BY <1>5 DEF InsertRow
  <2>5. staging' = IF Staged(l) THEN [staging EXCEPT ![l] = more(staging[l])] ELSE staging
    BY <1>5 DEF InsertRow
  <2>6. /\ adds[l] = IF Staged(l) THEN NoRows ELSE written
        /\ staging[l] = IF Staged(l) THEN written ELSE NoRows
        /\ removes[l] = {}
        /\ rowsWritten[l] + nrows[l] = pos[l] + left[l]
    BY <2>3
  <2>7. /\ pos'[l] = pos[l] + 1 /\ left'[l] = left[l] - 1
        /\ \A m \in Loaders \ {l} :
            /\ pos'[m] = pos[m] /\ left'[m] = left[m]
            /\ adds'[m] = adds[m] /\ staging'[m] = staging[m]
    BY <2>3, <2>4, <2>5 DEF TypeOK
  <2>8. /\ adds'[l] = IF Staged(l) THEN NoRows ELSE more(written)
        /\ staging'[l] = IF Staged(l) THEN more(written) ELSE NoRows
    BY <2>4, <2>5, <2>6 DEF TypeOK
  <2> HIDE DEF more, written
  <2>9. FirstRows(Input[l], pos'[l]) = more(written)
    BY <2>2, <2>7
  <2>10. rowsWritten'[l] + nrows'[l] = pos'[l] + left'[l]
    BY <2>1, <2>3, <2>6, <2>7
  <2> QED BY <2>3, <2>6, <2>7, <2>8, <2>9, <2>10
<1>6. ASSUME NEW l \in Loaders, BatchWritten(l) PROVE TxnIsInputPrefix'
  <2>1. /\ UNCHANGED <<conn, nrows, left, pos, adds, removes, staging, locks, wants>>
        /\ \A m \in Loaders \ {l} : pc'[m] = pc[m] /\ rowsWritten'[m] = rowsWritten[m]
        /\ pc[l] = "inserting" /\ pc'[l] = "ready" /\ left[l] = 0
        /\ rowsWritten'[l] = rowsWritten[l] + nrows[l] /\ pos[l] \in Nat
    BY <1>6 DEF BatchWritten, TypeOK, sessionVars, RowsCounted
  <2> QED BY <2>1
<1>7. ASSUME NEW l \in Loaders, Finalize(l) PROVE TxnIsInputPrefix'
  <2>1. /\ UNCHANGED <<conn, rowsWritten, nrows, left, pos, adds, removes, staging,
                       locks, wants>>
        /\ \A m \in Loaders \ {l} : pc'[m] = pc[m]
        /\ pc[l] = "ready" /\ pc'[l] \in {"merging", "committing"}
    BY <1>7 DEF Finalize, TypeOK
  <2> QED BY <2>1
<1>7a. ASSUME NEW l \in Loaders, MergeLocks(l) \/ MergeRestarts(l)
       PROVE  TxnIsInputPrefix'
  <2>1. /\ UNCHANGED <<pc, conn, rowsWritten, nrows, left, pos, adds, removes, staging>>
        /\ pc[l] = "merging" /\ conn[l] = "open"
    BY <1>7a DEF MergeLocks, MergeRestarts, Merging, pluginVars
  <2>2. \A m \in Loaders \ {l} : locks'[m] = locks[m] /\ wants'[m] = wants[m]
    BY <1>7a DEF MergeLocks, MergeRestarts, TypeOK
  <2> QED BY <2>1, <2>2
<1>7b. ASSUME NEW l \in Loaders, MergeEnds(l) PROVE TxnIsInputPrefix'
  BY <1>7b DEF MergeEnds, Merging, TypeOK, Calls
<1>8. ASSUME NEW l \in Loaders, Commit(l) PROVE TxnIsInputPrefix'
  BY <1>8 DEF Commit, TypeOK, Calls, sessionVars, Committed, TransactionEnds
<1>9. ASSUME NEW l \in Loaders, Cancel(l) PROVE TxnIsInputPrefix'
  BY <1>9 DEF Cancel, TypeOK, Calls, sessionVars, TransactionEnds
<1>10. ASSUME NEW l \in Loaders, PrepareFails(l) PROVE TxnIsInputPrefix'
  BY <1>10 DEF PrepareFails, TypeOK, Calls, sessionVars, ProcessInv
<1>11. ASSUME NEW l \in Loaders, WriteBatchFails(l) PROVE TxnIsInputPrefix'
  BY <1>11 DEF WriteBatchFails, TypeOK, Calls, sessionVars
<1>12. ASSUME NEW l \in Loaders, DmlFails(l) PROVE TxnIsInputPrefix'
  BY <1>12 DEF DmlFails, TypeOK, Calls, sessionVars
<1>13. ASSUME NEW l \in Loaders, MergeFails(l) PROVE TxnIsInputPrefix'
  BY <1>13 DEF MergeFails, TypeOK, Calls
<1>14. ASSUME NEW l \in Loaders, CommitFails(l) PROVE TxnIsInputPrefix'
  BY <1>14 DEF CommitFails, TypeOK, Calls, sessionVars
<1>15. ASSUME NEW l \in Loaders, CommitAnswerLost(l) PROVE TxnIsInputPrefix'
  BY <1>15 DEF CommitAnswerLost, TypeOK, Calls, sessionVars, Committed, TransactionEnds
<1>16. ASSUME NEW l \in Loaders, SessionLost(l) PROVE TxnIsInputPrefix'
  BY <1>16 DEF SessionLost, TypeOK, Calls, sessionVars, TransactionEnds
<1>17. ASSUME NEW l \in Loaders, Gone(l) PROVE TxnIsInputPrefix'
  BY <1>17 DEF Gone, TypeOK, Calls, sessionVars, TransactionEnds
<1> QED
  BY NextCases, <1>1, <1>2, <1>3, <1>4, <1>5, <1>6, <1>7, <1>7a, <1>7b, <1>8,
     <1>9, <1>10, <1>11, <1>12, <1>13, <1>14, <1>15, <1>16, <1>17

(* Nothing but COMMIT is missing. *)
AboutToCommit(l) == pc[l] = "committing" /\ conn[l] = "open"

(* The session's transaction ends, and no other session is concerned. *)
SessionEnds(l) ==
    /\ TransactionEnds(l)
    /\ ~AboutToCommit(l)'
    /\ \A m \in Loaders \ {l} : AboutToCommit(m)' => AboutToCommit(m)

(* No row is changed or newly locked. *)
Idle ==
    /\ UNCHANGED <<table, adds, removes>>
    /\ \A m \in Loaders : locks'[m] \subseteq locks[m]
    /\ \A m \in Loaders : AboutToCommit(m)' => AboutToCommit(m)

(* What a step can do to the table and to what is held for it. *)
LEMMA StepKinds ==
    ASSUME TypeOK, [Next]_vars
    PROVE  \/ Idle
           \/ \E l \in Loaders : InsertRow(l)
           \/ \E l \in Loaders : Finalize(l)
           \/ \E l \in Loaders : MergeLocks(l)
           \/ \E l \in Loaders : MergeEnds(l)
           \/ \E l \in Loaders : SessionEnds(l) /\ UNCHANGED table
           \/ \E l \in Loaders :
                /\ SessionEnds(l) /\ AboutToCommit(l)
                /\ table' = Changed(table, removes[l], adds[l])
<1> USE DEF AboutToCommit, mergeVars
<1>1. ASSUME UNCHANGED vars \/ AlterTarget PROVE Idle
  BY <1>1 DEF vars, AlterTarget, pluginVars, sessionVars, Idle
<1>2. ASSUME NEW l \in Loaders,
             \/ Configure(l) \/ Prepare(l) \/ BatchWritten(l)
             \/ \E n \in 0..Len(Input[l]) : WriteBatch(l, n)
             \/ PrepareFails(l) \/ WriteBatchFails(l) \/ DmlFails(l)
             \/ CommitFails(l)
      PROVE  Idle
  <2>1. UNCHANGED <<table, adds, removes, locks>>
    BY <1>2 DEF Configure, Prepare, BatchWritten, WriteBatch, PrepareFails,
                WriteBatchFails, DmlFails, CommitFails, sessionVars
  <2>2. \A m \in Loaders : AboutToCommit(m)' => AboutToCommit(m)
    BY <1>2 DEF Configure, Prepare, BatchWritten, WriteBatch, PrepareFails,
                WriteBatchFails, DmlFails, CommitFails, TypeOK
  <2> QED BY <2>1, <2>2 DEF Idle
<1>3. ASSUME NEW l \in Loaders, MergeRestarts(l) \/ MergeFails(l)
      PROVE  Idle
  BY <1>3 DEF MergeRestarts, MergeFails, NoMerge, pluginVars, TypeOK, Idle
<1>4. ASSUME NEW l \in Loaders, Cancel(l)
      PROVE  Idle \/ (SessionEnds(l) /\ UNCHANGED table)
  BY <1>4 DEF Cancel, sessionVars, TypeOK, Idle, SessionEnds
<1>5. ASSUME NEW l \in Loaders, SessionLost(l) \/ Gone(l)
      PROVE  SessionEnds(l) /\ UNCHANGED table
  BY <1>5 DEF SessionLost, Gone, TypeOK, SessionEnds
<1>6. ASSUME NEW l \in Loaders, Commit(l) \/ CommitAnswerLost(l)
      PROVE  /\ SessionEnds(l) /\ AboutToCommit(l)
             /\ table' = Changed(table, removes[l], adds[l])
  BY <1>6 DEF Commit, CommitAnswerLost, Committed, TypeOK, SessionEnds
<1> QED BY NextCases, <1>1, <1>2, <1>3, <1>4, <1>5, <1>6

(* What the steps that change or lock rows do to the rows that are held. *)
LEMMA InsertRowHolds ==
    ASSUME TypeOK, NEW l \in Loaders, InsertRow(l)
    PROVE  /\ UNCHANGED <<table, removes, pc, conn, locks, wants, snapshot>>
           /\ pc[l] = "inserting"
           /\ \A m \in Loaders \ {l} : adds'[m] = adds[m]
           /\ Staged(l) => adds'[l] = adds[l]
           /\ ~Staged(l) =>
                /\ KeysIn(adds'[l]) = KeysIn(adds[l]) \cup NextKey(l)
                /\ UniqueTarget =>
                    \A m \in Loaders \ {l} : Held(m) \cap NextKey(l) = {}
<1>1. /\ UNCHANGED <<table, removes, pc, conn, locks, wants, snapshot>>
      /\ pc[l] = "inserting" /\ left[l] > 0 /\ Blockers(l) = {}
      /\ adds' = IF Staged(l) THEN adds
                 ELSE [adds EXCEPT ![l] = [adds[l] EXCEPT ![NextRow(l)] = @ + 1]]
  BY DEF InsertRow, mergeVars
<1>2. NextRow(l) \in Rows
  BY <1>1, NextRowType
<1>3. adds[l] \in Tables /\ adds \in [Loaders -> Tables]
  BY DEF TypeOK
<1>4. ~Staged(l) => KeysIn(adds'[l]) = KeysIn(adds[l]) \cup NextKey(l)
  BY <1>1, <1>2, <1>3, OneMoreKeys DEF NextKey
<1>5. ~Staged(l) /\ UniqueTarget =>
        \A m \in Loaders \ {l} : Held(m) \cap NextKey(l) = {}
  BY <1>1 DEF Blockers, Needs, Inserts, Holders
<1> QED BY <1>1, <1>3, <1>4, <1>5

LEMMA FinalizeHolds ==
    ASSUME TypeOK, NEW l \in Loaders, Finalize(l)
    PROVE  /\ UNCHANGED <<table, adds, removes, staging, locks, wants, conn>>
           /\ pc[l] = "ready" /\ pos[l] = Len(Input[l])
           /\ \A m \in Loaders \ {l} : pc'[m] = pc[m] /\ snapshot'[m] = snapshot[m]
           /\ pc'[l] = IF mergeSql[l] THEN "merging" ELSE "committing"
           /\ mergeSql[l] => snapshot'[l] = table
<1> USE DEF TypeOK
<1>1. /\ UNCHANGED <<table, adds, removes, staging, locks, wants, conn>>
      /\ pc[l] = "ready" /\ pos[l] = Len(Input[l])
  BY DEF Finalize
<1>2. /\ \A m \in Loaders \ {l} : pc'[m] = pc[m] /\ snapshot'[m] = snapshot[m]
      /\ pc'[l] = IF mergeSql[l] THEN "merging" ELSE "committing"
      /\ mergeSql[l] => snapshot'[l] = table
  BY DEF Finalize
<1> QED BY <1>1, <1>2

(* A key that a MERGE gets is held by no other, and is as it was read. *)
LEMMA MergeGets ==
    ASSUME NEW l \in Loaders, pc[l] = "merging", Blockers(l) = {}, ~Changing(l)
    PROVE  /\ \A m \in Loaders \ {l} : Held(m) \cap wants[l] = {}
           /\ \A r \in Rows : KeyOf[r] \in wants[l] => table[r] = snapshot[l][r]
BY DEF Blockers, Needs, Inserts, Holders, Changing

LEMMA MergeLocksHolds ==
    ASSUME TypeOK, NEW l \in Loaders, MergeLocks(l)
    PROVE  /\ UNCHANGED <<table, adds, removes, staging, snapshot, pc, conn>>
           /\ pc[l] = "merging" /\ conn[l] = "open"
           /\ \A m \in Loaders \ {l} : locks'[m] = locks[m] /\ wants'[m] = wants[m]
           /\ locks'[l] = locks[l] \cup wants[l] /\ wants'[l] \subseteq KeysToLock(l)
           /\ \A m \in Loaders \ {l} : Held(m) \cap wants[l] = {}
           /\ \A r \in Rows : KeyOf[r] \in wants[l] => table[r] = snapshot[l][r]
<1>1. /\ UNCHANGED <<table, adds, removes, staging, snapshot, pc, conn>>
      /\ pc[l] = "merging" /\ conn[l] = "open" /\ Blockers(l) = {} /\ ~Changing(l)
  BY DEF MergeLocks, Merging, pluginVars
<1>2. /\ \A m \in Loaders \ {l} : locks'[m] = locks[m] /\ wants'[m] = wants[m]
      /\ locks'[l] = locks[l] \cup wants[l] /\ wants'[l] \subseteq KeysToLock(l)
  BY DEF MergeLocks, TypeOK
<1> QED BY <1>1, <1>2, MergeGets

LEMMA MergeEndsHolds ==
    ASSUME TypeOK, NEW l \in Loaders, MergeEnds(l)
    PROVE  /\ UNCHANGED <<table, staging, conn>>
           /\ pc[l] = "merging" /\ conn[l] = "open" /\ pc'[l] = "committing"
           /\ \A m \in Loaders \ {l} :
                /\ adds'[m] = adds[m] /\ removes'[m] = removes[m] /\ pc'[m] = pc[m]
                /\ locks'[m] = locks[m] /\ wants'[m] = wants[m]
                /\ snapshot'[m] = snapshot[m]
           /\ adds'[l] = MergeAdds(snapshot[l], staging[l])
           /\ removes'[l] = MergeRemoves(snapshot[l], staging[l])
           /\ locks'[l] = {} /\ KeysIn(adds'[l]) \subseteq locks[l] \cup wants[l]
           /\ MergeAccepted(snapshot[l], staging[l])
           /\ \A m \in Loaders \ {l} : Held(m) \cap wants[l] = {}
           /\ \A r \in Rows : KeyOf[r] \in wants[l] => table[r] = snapshot[l][r]
<1>1. /\ UNCHANGED <<table, staging, conn>>
      /\ pc[l] = "merging" /\ conn[l] = "open" /\ Blockers(l) = {} /\ ~Changing(l)
      /\ MergeAccepted(snapshot[l], staging[l])
      /\ KeysToLock(l) \subseteq locks[l] \cup wants[l]
  BY DEF MergeEnds, Merging
<1>2. /\ pc'[l] = "committing"
      /\ \A m \in Loaders \ {l} :
            adds'[m] = adds[m] /\ removes'[m] = removes[m] /\ pc'[m] = pc[m]
      /\ adds'[l] = MergeAdds(snapshot[l], staging[l])
      /\ removes'[l] = MergeRemoves(snapshot[l], staging[l])
  BY DEF MergeEnds, TypeOK
<1>3. /\ locks'[l] = {}
      /\ \A m \in Loaders \ {l} : /\ locks'[m] = locks[m] /\ wants'[m] = wants[m]
                                  /\ snapshot'[m] = snapshot[m]
  BY DEF MergeEnds, NoMerge, TypeOK
<1>4. KeysIn(adds'[l]) \subseteq locks[l] \cup wants[l]
  BY <1>1, <1>2 DEF KeysToLock
<1> QED BY <1>1, <1>2, <1>3, <1>4, MergeGets

LEMMA SessionEndsHolds ==
    ASSUME TypeOK, NEW l \in Loaders, TransactionEnds(l)
    PROVE  /\ adds'[l] = NoRows /\ removes'[l] = {} /\ locks'[l] = {}
           /\ \A m \in Loaders \ {l} :
                adds'[m] = adds[m] /\ removes'[m] = removes[m] /\ locks'[m] = locks[m]
BY DEF TransactionEnds, NoMerge, TypeOK

(* No step but one that inserts or merges gives a session a key, and then  *)
(* one that no other session holds.                                        *)
LEMMA LocksStep == TypeOK /\ LocksExclusive /\ [Next]_vars => LocksExclusive'
<1> SUFFICES ASSUME TypeOK, LocksExclusive, [Next]_vars, UniqueTarget,
                    NEW m \in Loaders, NEW o \in Loaders \ {m}
             PROVE  Held(m)' \cap Held(o)' = {}
  BY DEF LocksExclusive
<1> USE DEF Held
<1>1. Held(m) \cap Held(o) = {}
  BY DEF LocksExclusive
<1>2. CASE Idle
  BY <1>1, <1>2 DEF Idle
<1>3. ASSUME NEW l \in Loaders, InsertRow(l) PROVE Held(m)' \cap Held(o)' = {}
  BY <1>1, <1>3, InsertRowHolds
<1>4. ASSUME NEW l \in Loaders, Finalize(l) PROVE Held(m)' \cap Held(o)' = {}
  BY <1>1, <1>4, FinalizeHolds
<1>5. ASSUME NEW l \in Loaders, MergeLocks(l) PROVE Held(m)' \cap Held(o)' = {}
  BY <1>1, <1>5, MergeLocksHolds
<1>6. ASSUME NEW l \in Loaders, MergeEnds(l) PROVE Held(m)' \cap Held(o)' = {}
  BY <1>1, <1>6, MergeEndsHolds
<1>7. ASSUME NEW l \in Loaders, SessionEnds(l) PROVE Held(m)' \cap Held(o)' = {}
  BY <1>1, <1>7, SessionEndsHolds, NoRowsKeys DEF SessionEnds
<1> QED BY <1>2, <1>3, <1>4, <1>5, <1>6, <1>7, StepKinds

LEMMA RemovedStep ==
    TypeOK /\ RemovedAreReplaced /\ [Next]_vars => RemovedAreReplaced'
<1> SUFFICES ASSUME TypeOK, RemovedAreReplaced, [Next]_vars,
                    NEW m \in Loaders, NEW r \in removes'[m]
             PROVE  KeyOf[r] \in KeysIn(adds'[m])
  BY DEF RemovedAreReplaced
<1>1. \A q \in removes[m] : KeyOf[q] \in KeysIn(adds[m])
  BY DEF RemovedAreReplaced
<1>2. CASE Idle
  BY <1>1, <1>2 DEF Idle
<1>3. ASSUME NEW l \in Loaders, InsertRow(l) PROVE KeyOf[r] \in KeysIn(adds'[m])
  BY <1>1, <1>3, InsertRowHolds
<1>4. ASSUME NEW l \in Loaders, Finalize(l) \/ MergeLocks(l)
      PROVE  KeyOf[r] \in KeysIn(adds'[m])
  BY <1>1, <1>4, FinalizeHolds, MergeLocksHolds
<1>5. ASSUME NEW l \in Loaders, MergeEnds(l) PROVE KeyOf[r] \in KeysIn(adds'[m])
  <2>1. CASE m # l
    BY <1>1, <1>5, <2>1, MergeEndsHolds
  <2>2. CASE m = l
    <3>1. snapshot[l] \in Tables /\ staging[l] \in Tables
      BY DEF TypeOK
    <3> QED BY <1>5, <2>2, <3>1, MergeEndsHolds, MergeKeys
  <2> QED BY <2>1, <2>2
<1>6. ASSUME NEW l \in Loaders, SessionEnds(l) PROVE KeyOf[r] \in KeysIn(adds'[m])
  BY <1>1, <1>6, SessionEndsHolds DEF SessionEnds
<1> QED BY <1>2, <1>3, <1>4, <1>5, <1>6, StepKinds

(* A MERGE that runs after a step went on undisturbed, got to another key, *)
(* or has just started, or started again, with the rows of the moment.     *)
LEMMA MergeKinds ==
    ASSUME TypeOK, TxnIsInputPrefix, [Next]_vars,
           NEW m \in Loaders, pc'[m] = "merging", conn'[m] = "open"
    PROVE  /\ staging'[m] = staging[m]
           /\ \/ /\ pc[m] = "merging" /\ conn[m] = "open"
                 /\ snapshot'[m] = snapshot[m]
                 /\ locks'[m] = locks[m] /\ wants'[m] = wants[m]
              \/ MergeLocks(m)
              \/ /\ table' = table /\ snapshot'[m] = table
                 /\ locks'[m] = {} /\ wants'[m] = {}
<1> USE DEF mergeVars
<1> DEFINE Same == /\ pc[m] = "merging" /\ conn[m] = "open"
                   /\ snapshot'[m] = snapshot[m] /\ staging'[m] = staging[m]
                   /\ locks'[m] = locks[m] /\ wants'[m] = wants[m]
           Fresh == /\ table' = table /\ snapshot'[m] = table /\ staging'[m] = staging[m]
                    /\ locks'[m] = {} /\ wants'[m] = {}
<1>1. ASSUME UNCHANGED vars \/ AlterTarget PROVE Same
  BY <1>1 DEF vars, AlterTarget, pluginVars, sessionVars
<1>2. ASSUME NEW l \in Loaders,
             \/ Configure(l) \/ Prepare(l) \/ BatchWritten(l)
             \/ \E n \in 0..Len(Input[l]) : WriteBatch(l, n)
             \/ PrepareFails(l) \/ WriteBatchFails(l) \/ DmlFails(l) \/ CommitFails(l)
      PROVE  Same
  <2>1. UNCHANGED <<snapshot, staging, locks, wants>>
    BY <1>2 DEF Configure, Prepare, BatchWritten, WriteBatch, PrepareFails,
                WriteBatchFails, DmlFails, CommitFails, sessionVars
  <2>2. pc[m] = "merging" /\ conn[m] = "open"
    BY <1>2 DEF Configure, Prepare, BatchWritten, WriteBatch, PrepareFails,
                WriteBatchFails, DmlFails, CommitFails, TypeOK
  <2> QED BY <2>1, <2>2
<1>3. ASSUME NEW l \in Loaders, InsertRow(l) PROVE Same
  BY <1>3 DEF InsertRow, TypeOK
<1>4. ASSUME NEW l \in Loaders, Finalize(l) PROVE Same \/ Fresh
  <2>1. CASE m # l
    BY <1>4, <2>1 DEF Finalize, TypeOK
  <2>2. CASE m = l
    <3>1. /\ pc[l] = "ready" /\ pc'[l] = IF mergeSql[l] THEN "merging" ELSE "committing"
          /\ mergeSql[l] => snapshot'[l] = table
          /\ UNCHANGED <<table, staging, locks, wants>>
      BY <1>4, FinalizeHolds
    <3>2. locks[l] = {} /\ wants[l] = {}
      BY <3>1 DEF TxnIsInputPrefix
    <3> QED BY <2>2, <3>1, <3>2
  <2> QED BY <2>1, <2>2
<1>5. ASSUME NEW l \in Loaders, MergeLocks(l)
      PROVE  Same \/ (MergeLocks(m) /\ staging'[m] = staging[m])
  BY <1>5, MergeLocksHolds
<1>6. ASSUME NEW l \in Loaders, MergeRestarts(l) PROVE Same \/ Fresh
  BY <1>6 DEF MergeRestarts, pluginVars, TypeOK
<1>7. ASSUME NEW l \in Loaders, MergeEnds(l) PROVE Same
  BY <1>7, MergeEndsHolds
<1>8. ASSUME NEW l \in Loaders, MergeFails(l) PROVE Same
  BY <1>8 DEF MergeFails, NoMerge, TypeOK
<1>9. ASSUME NEW l \in Loaders, \/ Commit(l) \/ CommitAnswerLost(l) \/ SessionLost(l)
                                \/ Gone(l) \/ Cancel(l)
      PROVE  Same
  <2>1. m # l /\ pc'[m] = pc[m] /\ conn'[m] = conn[m]
    BY <1>9 DEF Commit, CommitAnswerLost, SessionLost, Gone, Cancel, TypeOK
  <2>2. TransactionEnds(l) \/ UNCHANGED sessionVars
    BY <1>9 DEF Commit, CommitAnswerLost, SessionLost, Gone, Cancel, Committed
  <2>3. UNCHANGED <<snapshot[m], staging[m], locks[m], wants[m]>>
    BY <2>1, <2>2 DEF TransactionEnds, NoMerge, sessionVars, TypeOK
  <2> QED BY <2>1, <2>3
<1> QED BY NextCases, <1>1, <1>2, <1>3, <1>4, <1>5, <1>6, <1>7, <1>8, <1>9

(* The table changes only when a session commits. *)
LEMMA TableKinds ==
    ASSUME TypeOK, [Next]_vars
    PROVE  \/ table' = table
           \/ \E l \in Loaders : /\ AboutToCommit(l)
                                 /\ table' = Changed(table, removes[l], adds[l])
BY StepKinds, InsertRowHolds, FinalizeHolds, MergeLocksHolds, MergeEndsHolds DEF Idle

(* What one session has locked, no commit of another changes. *)
LEMMA LockedStays ==
    ASSUME TypeOK, LoadInv, UniqueTarget, NEW l \in Loaders, NEW m \in Loaders \ {l},
           table' = Changed(table, removes[l], adds[l])
    PROVE  /\ KeysIn(table) \subseteq KeysIn(table')
           /\ \A r \in Rows : KeyOf[r] \in locks[m] /\ KeyOf[r] # NullKey =>
                table'[r] = table[r]
<1>1. /\ table \in Tables /\ adds[l] \in Tables /\ removes[l] \in SUBSET Rows
      /\ \A r \in removes[l] : KeyOf[r] \in KeysIn(adds[l])
  BY DEF TypeOK, LoadInv, RemovedAreReplaced
<1>2. KeysIn(table') = KeysIn(table) \cup KeysIn(adds[l])
  BY <1>1, ChangedKeys
<1>3. KeysIn(adds[l]) \cap locks[m] = {}
  BY DEF LoadInv, LocksExclusive, Held
<1>4. ASSUME NEW r \in Rows, KeyOf[r] \in locks[m], KeyOf[r] # NullKey
      PROVE  table'[r] = table[r]
  <2>1. r \notin removes[l] /\ ~(adds[l][r] > 0)
    BY <1>1, <1>3, <1>4, KeyHeld
  <2> QED BY <1>1, <2>1 DEF Changed, Tables
<1> QED BY <1>2, <1>4

LEMMA LockedStep == TypeOK /\ LoadInv /\ [Next]_vars => LockedAsRead'
<1> SUFFICES ASSUME TypeOK, LoadInv, [Next]_vars,
                    NEW m \in Loaders, pc'[m] = "merging", conn'[m] = "open"
             PROVE  /\ KeysIn(snapshot'[m]) \subseteq KeysIn(table')
                    /\ \A r \in Rows : KeyOf[r] \in locks'[m] =>
                            table'[r] = snapshot'[m][r]
                    /\ locks'[m] \cup wants'[m] \subseteq KeysToLock(m)'
  BY DEF LockedAsRead
<1>0. TxnIsInputPrefix
  BY DEF LoadInv
<1>1. ASSUME pc[m] = "merging", conn[m] = "open",
             snapshot'[m] = snapshot[m], staging'[m] = staging[m],
             locks'[m] = locks[m], wants'[m] = wants[m]
      PROVE  /\ KeysIn(snapshot'[m]) \subseteq KeysIn(table')
             /\ \A r \in Rows : KeyOf[r] \in locks'[m] => table'[r] = snapshot'[m][r]
             /\ locks'[m] \cup wants'[m] \subseteq KeysToLock(m)'
  <2>1. /\ KeysIn(snapshot[m]) \subseteq KeysIn(table)
        /\ \A r \in Rows : KeyOf[r] \in locks[m] => table[r] = snapshot[m][r]
        /\ locks[m] \cup wants[m] \subseteq KeysToLock(m)
    BY <1>1 DEF LoadInv, LockedAsRead
  <2>2. KeysToLock(m)' = KeysToLock(m)
    BY <1>1 DEF KeysToLock
  <2>3. \A r \in Rows : KeyOf[r] \in locks[m] => KeyOf[r] # NullKey
    BY <2>1 DEF KeysToLock, KeysIn
  <2>4. CASE table' = table
    BY <1>1, <2>1, <2>2, <2>4
  <2>5. ASSUME NEW l \in Loaders, AboutToCommit(l),
               table' = Changed(table, removes[l], adds[l])
        PROVE  /\ KeysIn(table) \subseteq KeysIn(table')
               /\ \A r \in Rows : KeyOf[r] \in locks[m] => table'[r] = table[r]
    <3>1. m # l
      BY <1>1, <2>5 DEF AboutToCommit
    <3>2. UniqueTarget
      BY <1>1, UniqueAssumption DEF LoadInv, ProcessInv, Staged
    <3> QED BY <2>3, <2>5, <3>1, <3>2, LockedStays
  <2> QED BY <1>1, <2>1, <2>2, <2>4, <2>5, TableKinds
<1>2. ASSUME MergeLocks(m)
      PROVE  /\ KeysIn(snapshot'[m]) \subseteq KeysIn(table')
             /\ \A r \in Rows : KeyOf[r] \in locks'[m] => table'[r] = snapshot'[m][r]
             /\ locks'[m] \cup wants'[m] \subseteq KeysToLock(m)'
  <2>1. /\ table' = table /\ snapshot' = snapshot /\ staging' = staging
        /\ pc[m] = "merging" /\ conn[m] = "open"
        /\ locks'[m] = locks[m] \cup wants[m] /\ wants'[m] \subseteq KeysToLock(m)
        /\ \A r \in Rows : KeyOf[r] \in wants[m] => table[r] = snapshot[m][r]
    BY <1>2, MergeLocksHolds
  <2>2. KeysToLock(m)' = KeysToLock(m)
    BY <2>1 DEF KeysToLock
  <2>3. /\ KeysIn(snapshot[m]) \subseteq KeysIn(table)
        /\ \A r \in Rows : KeyOf[r] \in locks[m] => table[r] = snapshot[m][r]
        /\ locks[m] \cup wants[m] \subseteq KeysToLock(m)
    BY <2>1 DEF LoadInv, LockedAsRead
  <2> QED BY <2>1, <2>2, <2>3
<1> QED BY <1>0, <1>1, <1>2, MergeKinds

(* The heart of the matter: what a load has merged is not overtaken by the *)
(* commits of others, because it holds the keys it is about to write.      *)
LEMMA CommitsStep == TypeOK /\ LoadInv /\ [Next]_vars => CommitsWholeLoad'
<1> SUFFICES ASSUME TypeOK, LoadInv, [Next]_vars,
                    NEW m \in Loaders, AboutToCommit(m)'
             PROVE  LET all == FirstRows(Input[m], Len(Input[m]))
                    IN  /\ adds'[m] = IF Staged(m) THEN MergeAdds(table', all) ELSE all
                        /\ removes'[m] = IF Staged(m) THEN MergeRemoves(table', all)
                                                      ELSE {}
  BY DEF CommitsWholeLoad, AboutToCommit, Staged
<1> DEFINE all == FirstRows(Input[m], Len(Input[m]))
           Goal == /\ adds'[m] = IF Staged(m) THEN MergeAdds(table', all) ELSE all
                   /\ removes'[m] = IF Staged(m) THEN MergeRemoves(table', all) ELSE {}
<1>0. AboutToCommit(m) =>
        /\ adds[m] = IF Staged(m) THEN MergeAdds(table, all) ELSE all
        /\ removes[m] = IF Staged(m) THEN MergeRemoves(table, all) ELSE {}
  BY DEF LoadInv, CommitsWholeLoad, AboutToCommit
<1>1. all \in Tables
  BY FirstRowsType, InputLength
<1> HIDE DEF all
<1>2. ASSUME Idle PROVE Goal
  <2>1. AboutToCommit(m) /\ table' = table /\ adds' = adds /\ removes' = removes
    BY <1>2 DEF Idle
  <2> QED BY <1>0, <2>1
<1>3. ASSUME NEW l \in Loaders, InsertRow(l) \/ MergeLocks(l) PROVE Goal
  BY <1>0, <1>3, InsertRowHolds, MergeLocksHolds DEF AboutToCommit
<1>4. ASSUME NEW l \in Loaders, Finalize(l) PROVE Goal
  <2>1. CASE m # l
    BY <1>0, <1>4, <2>1, FinalizeHolds DEF AboutToCommit
  <2>2. CASE m = l
    <3>1. ~mergeSql[l] /\ conn[l] = "open"
      BY <1>4, <2>2, FinalizeHolds DEF AboutToCommit
    <3>2. /\ adds[l] = IF Staged(l) THEN NoRows ELSE all
          /\ removes[l] = {}
      BY <1>4, <2>2, <3>1, FinalizeHolds DEF LoadInv, TxnIsInputPrefix, all
    <3>3. CASE Staged(l)
      <4>1. pos[l] = 0 /\ Len(Input[l]) = 0
        BY <1>4, <3>1, <3>3, FinalizeHolds DEF LoadInv, ProcessInv
      <4>2. all = NoRows
        BY <2>2, <4>1, FirstRowsEmpty DEF all
      <4>3. MergeAdds(table, all) = NoRows /\ MergeRemoves(table, all) = {}
        BY <4>2, MergeOfNoRows DEF TypeOK
      <4> QED BY <1>4, <2>2, <3>2, <3>3, <4>3, FinalizeHolds
    <3>4. CASE ~Staged(l)
      BY <1>4, <2>2, <3>2, <3>4, FinalizeHolds
    <3> QED BY <3>3, <3>4
  <2> QED BY <2>1, <2>2
<1>4a. ASSUME NEW l \in Loaders, MergeEnds(l) PROVE Goal
  <2>1. CASE m # l
    BY <1>0, <1>4a, <2>1, MergeEndsHolds DEF AboutToCommit
  <2>2. CASE m = l
    <3>1. Staged(l) /\ staging[l] = all
      BY <1>4a, <2>2, MergeEndsHolds DEF LoadInv, ProcessInv, TxnIsInputPrefix, all
    <3>2. /\ adds'[l] = MergeAdds(snapshot[l], all)
          /\ removes'[l] = MergeRemoves(snapshot[l], all) /\ table' = table
      BY <1>4a, <3>1, MergeEndsHolds
    <3>3. /\ table \in Tables /\ snapshot[l] \in Tables
          /\ KeysIn(snapshot[l]) \subseteq KeysIn(table)
      BY <1>4a, MergeEndsHolds DEF TypeOK, LoadInv, LockedAsRead
    <3>4. \A r \in Rows : KeyOf[r] \in KeysIn(MergeAdds(snapshot[l], all)) =>
                table[r] = snapshot[l][r]
      BY <1>4a, <3>2, MergeEndsHolds DEF LoadInv, LockedAsRead
    <3>5. /\ MergeAdds(table, all) = MergeAdds(snapshot[l], all)
          /\ MergeRemoves(table, all) = MergeRemoves(snapshot[l], all)
      BY <1>1, <3>3, <3>4, MergeAsRead
    <3> QED BY <2>2, <3>1, <3>2, <3>5
  <2> QED BY <2>1, <2>2
<1>5. ASSUME NEW l \in Loaders, SessionEnds(l), UNCHANGED table PROVE Goal
  BY <1>0, <1>5, SessionEndsHolds DEF SessionEnds
<1>6. ASSUME NEW l \in Loaders, SessionEnds(l),
             table' = Changed(table, removes[l], adds[l])
      PROVE  Goal
  <2>1. m # l /\ AboutToCommit(m)
    BY <1>6 DEF SessionEnds
  <2>2. adds'[m] = adds[m] /\ removes'[m] = removes[m]
    BY <1>6, <2>1, SessionEndsHolds DEF SessionEnds
  <2>3. CASE ~Staged(m)
    BY <1>0, <2>1, <2>2, <2>3
  <2>4. CASE Staged(m)
    <3>1. UniqueTarget
      BY <2>4, UniqueAssumption DEF Staged
    <3>2. KeysIn(adds[l]) \cap KeysIn(MergeAdds(table, all)) = {}
      BY <1>0, <2>1, <2>4, <3>1 DEF LoadInv, LocksExclusive, Held
    <3>3. /\ table \in Tables /\ adds[l] \in Tables /\ removes[l] \in SUBSET Rows
          /\ \A r \in removes[l] : KeyOf[r] \in KeysIn(adds[l])
      BY DEF TypeOK, LoadInv, RemovedAreReplaced
    <3>4. /\ MergeAdds(table', all) = MergeAdds(table, all)
          /\ MergeRemoves(table', all) = MergeRemoves(table, all)
      BY <1>1, <1>6, <3>2, <3>3, MergeSurvivesOthers
    <3> QED BY <1>0, <2>1, <2>2, <2>4, <3>4
  <2> QED BY <2>3, <2>4
<1> QED BY <1>2, <1>3, <1>4, <1>4a, <1>5, <1>6, StepKinds DEF all

LEMMA LoadInvStep == TypeOK /\ LoadInv /\ [Next]_vars => LoadInv'
BY ProcessStep, PrefixStep, LocksStep, RemovedStep, LockedStep, CommitsStep DEF LoadInv

THEOREM LoadInvariant == Spec => [](TypeOK /\ LoadInv)
BY TypeInit, TypeStep, LoadInvInit, LoadInvStep, PTL DEF Spec

(* Exactly what the session of a load holds back, at every moment of it.   *)
THEOREM HoldsWhatItWrote == Spec => []TxnIsInputPrefix
BY LoadInvariant, PTL DEF LoadInv

(* finalize never reports less than the whole load. *)
THEOREM ReportsWholeLoad == Spec => []FinalizeReportsWholeLoad
<1>1. LoadInv => FinalizeReportsWholeLoad
  BY DEF LoadInv, ProcessInv, TxnIsInputPrefix, FinalizeReportsWholeLoad
<1> QED BY <1>1, LoadInvariant, PTL

---------------------------------------------------------------------------
(* The destination implements AtomicLoad. *)

LEMMA LoadsAllRows ==
    \A l \in Loaders : Loads!AllRows(l) = FirstRows(Input[l], Len(Input[l]))
<1> TAKE l \in Loaders
<1>1. Loads!AllRows(l) = Loads!FirstRows(Input[l], Len(Input[l]))
  BY DEF Loads!AllRows
<1>2. ASSUME NEW s, NEW n PROVE Loads!FirstRows(s, n) = FirstRows(s, n)
  BY DEF Loads!FirstRows, FirstRows, Loads!Cardinality, Cardinality
<1> QED BY <1>1, <1>2

LEMMA LoadsEffect ==
    \A l \in Loaders : \A t \in Tables :
        LET all == FirstRows(Input[l], Len(Input[l]))
        IN  Loads!LoadEffect(l, t) =
              IF Staged(l) THEN Changed(t, MergeRemoves(t, all), MergeAdds(t, all))
                           ELSE Changed(t, {}, all)
<1> TAKE l \in Loaders
<1> TAKE t \in Tables
<1>1. Mode[l] = "atomic" <=> ~Staged(l)
  BY ModeAssumption DEF Staged
<1>2. Loads!AllRows(l) = FirstRows(Input[l], Len(Input[l]))
  BY LoadsAllRows
<1> QED
  BY <1>1, <1>2
  DEF Loads!LoadEffect, Loads!InsertEffect, Loads!MergeEffect, Loads!Changed,
      Loads!MergeRemoves, Loads!MergeAdds, Loads!Matched, Loads!KeysIn,
      Loads!UpdatesMatched, Changed, MergeRemoves, MergeAdds, Matched, KeysIn,
      UpdatesMatched

(* A step of the destination is a whole load, or nothing at all. *)
LEMMA StepIsLoad ==
    ASSUME TypeOK, LoadInv, [Next]_vars
    PROVE  [Loads!Next]_(Loads!vars)
<1> USE DEF Loads!vars
<1>1. CASE UNCHANGED vars \/ AlterTarget
  BY <1>1 DEF vars, AlterTarget, historyVars
<1>2. ASSUME NEW l \in Loaders,
             \/ Configure(l) \/ Prepare(l) \/ InsertRow(l) \/ BatchWritten(l)
             \/ \E n \in 0..Len(Input[l]) : WriteBatch(l, n)
             \/ Finalize(l) \/ MergeLocks(l) \/ MergeRestarts(l) \/ MergeEnds(l)
             \/ Cancel(l) \/ PrepareFails(l) \/ WriteBatchFails(l)
             \/ DmlFails(l) \/ MergeFails(l) \/ CommitFails(l)
             \/ SessionLost(l) \/ Gone(l)
      PROVE  UNCHANGED <<table, commits, reported>>
  BY <1>2 DEF Configure, Prepare, InsertRow, BatchWritten, WriteBatch, Finalize,
              MergeLocks, MergeRestarts, MergeEnds, Cancel, PrepareFails,
              WriteBatchFails, DmlFails, MergeFails, CommitFails, SessionLost, Gone,
              historyVars
<1>3. ASSUME NEW l \in Loaders, Commit(l) \/ CommitAnswerLost(l)
      PROVE  Loads!Load(l)
  <2>1. /\ AboutToCommit(l) /\ table' = Changed(table, removes[l], adds[l])
        /\ commits' = [commits EXCEPT ![l] = @ + 1]
        /\ \/ reported' = [reported EXCEPT ![l] = @ + 1]
           \/ UNCHANGED reported
    BY <1>3 DEF Commit, CommitAnswerLost, Committed, AboutToCommit
  <2>2. LET all == FirstRows(Input[l], Len(Input[l]))
        IN  /\ adds[l] = IF Staged(l) THEN MergeAdds(table, all) ELSE all
            /\ removes[l] = IF Staged(l) THEN MergeRemoves(table, all) ELSE {}
    BY <2>1 DEF LoadInv, CommitsWholeLoad, AboutToCommit
  <2>3. table' = Loads!LoadEffect(l, table)
    BY <2>1, <2>2, LoadsEffect DEF TypeOK
  <2> QED BY <2>1, <2>3 DEF Loads!Load
<1> QED BY NextCases, <1>1, <1>2, <1>3 DEF Loads!Next

(* CommitMode's promise: whatever other sessions, crashes, lost connections *)
(* and failed statements do, a load reaches the table whole and in one      *)
(* step.                                                                    *)
THEOREM LoadIsAtomic == Spec => EachLoadIsAtomic
<1>1. Init => Loads!Init
  BY DEF Init, Loads!Init
<1> QED BY <1>1, StepIsLoad, LoadInvariant, PTL DEF Spec, EachLoadIsAtomic, Loads!Spec

---------------------------------------------------------------------------
(* What the commits add up to. *)

AllOf(l) == FirstRows(Input[l], Len(Input[l]))

(* Load l, applied to table t. *)
EffectOf(l, t) ==
    IF Staged(l) THEN MergeEffect(t, AllOf(l)) ELSE InsertEffect(t, AllOf(l))

LEMMA AllOfType == \A l \in Loaders : AllOf(l) \in Tables
BY FirstRowsType, InputLength DEF AllOf

LEMMA EffectIsLoads ==
    \A l \in Loaders : \A t \in Tables : Loads!LoadEffect(l, t) = EffectOf(l, t)
BY LoadsEffect DEF EffectOf, AllOf, MergeEffect, InsertEffect

LEMMA StepEffect ==
    ASSUME TypeOK, LoadInv, [Next]_vars
    PROVE  \/ UNCHANGED <<table, commits, reported>>
           \/ \E l \in Loaders :
                /\ table' = EffectOf(l, table)
                /\ commits' = [commits EXCEPT ![l] = @ + 1]
                /\ \/ reported' = [reported EXCEPT ![l] = @ + 1]
                   \/ UNCHANGED reported
<1>1. [Loads!Next]_(Loads!vars)
  BY StepIsLoad
<1>2. table \in Tables
  BY DEF TypeOK
<1> QED BY <1>1, <1>2, EffectIsLoads DEF Loads!Next, Loads!Load, Loads!vars

(* A load brings all its keys, and takes no row without a key away. *)
LEMMA EffectKeeps ==
    ASSUME NEW l \in Loaders, NEW t \in Tables
    PROVE  /\ KeysIn(EffectOf(l, t)) = KeysIn(t) \cup KeysIn(AllOf(l))
           /\ \A r \in Rows : KeyOf[r] = NullKey =>
                EffectOf(l, t)[r] = t[r] + AllOf(l)[r]
<1> DEFINE all == AllOf(l)
<1>1. all \in Tables
  BY AllOfType
<1> HIDE DEF all
<1>2. CASE Staged(l)
  <2> DEFINE added == MergeAdds(t, all)
             removed == MergeRemoves(t, all)
  <2>1. EffectOf(l, t) = Changed(t, removed, added)
    BY <1>2 DEF EffectOf, MergeEffect, all
  <2>2. added \in Tables /\ removed \in SUBSET Rows
    BY <1>1, MergeTypes
  <2>3. /\ KeysIn(added) \subseteq KeysIn(all)
        /\ \A r \in removed : KeyOf[r] \in KeysIn(added)
        /\ KeysIn(all) \subseteq KeysIn(t) \cup KeysIn(added)
    BY <1>1, MergeKeys
  <2>4. \A r \in Rows : KeyOf[r] = NullKey => r \notin removed /\ added[r] = all[r]
    BY DEF MergeRemoves, MergeAdds, Matched, KeysIn
  <2> HIDE DEF added, removed
  <2>5. KeysIn(Changed(t, removed, added)) = KeysIn(t) \cup KeysIn(added)
    BY <2>2, <2>3, ChangedKeys
  <2>6. \A r \in Rows : KeyOf[r] = NullKey => Changed(t, removed, added)[r] = t[r] + all[r]
    BY <2>4 DEF Changed
  <2> QED BY <2>1, <2>3, <2>5, <2>6 DEF all
<1>3. CASE ~Staged(l)
  <2>1. EffectOf(l, t) = Changed(t, {}, all)
    BY <1>3 DEF EffectOf, InsertEffect, all
  <2>2. KeysIn(Changed(t, {}, all)) = KeysIn(t) \cup KeysIn(all)
    BY <1>1, ChangedKeys
  <2> QED BY <2>1, <2>2 DEF all, Changed
<1> QED BY <1>2, <1>3

(* The rows of every committed load are in the table. *)
DurableInv ==
    \A l \in Loaders :
        /\ reported[l] > 0 => commits[l] > 0
        /\ commits[l] > 0 =>
            /\ KeysIn(AllOf(l)) \subseteq KeysIn(table)
            /\ \A r \in Rows : KeyOf[r] = NullKey => table[r] >= AllOf(l)[r]

LEMMA DurableStep ==
    TypeOK /\ LoadInv /\ DurableInv /\ [Next]_vars => DurableInv'
<1> SUFFICES ASSUME TypeOK, LoadInv, DurableInv, [Next]_vars, NEW m \in Loaders
             PROVE  /\ reported'[m] > 0 => commits'[m] > 0
                    /\ commits'[m] > 0 =>
                        /\ KeysIn(AllOf(m)) \subseteq KeysIn(table')
                        /\ \A r \in Rows : KeyOf[r] = NullKey => table'[r] >= AllOf(m)[r]
  BY DEF DurableInv, AllOf
<1>1. CASE UNCHANGED <<table, commits, reported>>
  BY <1>1 DEF DurableInv
<1>2. ASSUME NEW l \in Loaders,
             table' = EffectOf(l, table),
             commits' = [commits EXCEPT ![l] = @ + 1],
             \/ reported' = [reported EXCEPT ![l] = @ + 1]
             \/ UNCHANGED reported
      PROVE  /\ reported'[m] > 0 => commits'[m] > 0
             /\ commits'[m] > 0 =>
                 /\ KeysIn(AllOf(m)) \subseteq KeysIn(table')
                 /\ \A r \in Rows : KeyOf[r] = NullKey => table'[r] >= AllOf(m)[r]
  <2>1. /\ KeysIn(table') = KeysIn(table) \cup KeysIn(AllOf(l))
        /\ \A r \in Rows : KeyOf[r] = NullKey => table'[r] = table[r] + AllOf(l)[r]
    BY <1>2, EffectKeeps DEF TypeOK
  <2>2. \A r \in Rows : table[r] \in Nat /\ AllOf(l)[r] \in Nat /\ AllOf(m)[r] \in Nat
    BY AllOfType DEF TypeOK, Tables
  <2>3. reported'[m] > 0 => commits'[m] > 0
    BY <1>2 DEF TypeOK, DurableInv
  <2>4. CASE m = l
    BY <2>1, <2>2, <2>3, <2>4
  <2>5. CASE m # l
    <3>1. commits'[m] = commits[m]
      BY <1>2, <2>5 DEF TypeOK
    <3> QED BY <2>1, <2>2, <2>3, <3>1 DEF DurableInv
  <2> QED BY <2>4, <2>5
<1> QED BY <1>1, <1>2, StepEffect

(* The rows of a load that finalize has reported stay in the table. *)
THEOREM ReportedIsDurable == Spec => []ReportedLoadIsDurable
<1>1. Init => DurableInv
  BY DEF Init, DurableInv
<1>2. DurableInv => ReportedLoadIsDurable
  BY LoadsAllRows DEF DurableInv, ReportedLoadIsDurable, AllOf
<1> QED BY <1>1, <1>2, DurableStep, LoadInvariant, PTL DEF Spec

---------------------------------------------------------------------------
(* Exactly once. *)

(* Merging the same rows twice is merging them once, for every row with a  *)
(* key and whatever the table held.                                        *)
THEOREM MergeIdempotent ==
    ASSUME NEW t \in Tables, NEW staged \in Tables, NEW r \in Rows, KeyOf[r] # NullKey
    PROVE  MergeEffect(MergeEffect(t, staged), staged)[r] = MergeEffect(t, staged)[r]
<1> DEFINE added == MergeAdds(t, staged)
           removed == MergeRemoves(t, staged)
           u == MergeEffect(t, staged)
<1>1. /\ added \in Tables /\ removed \in SUBSET Rows
      /\ KeysIn(added) \subseteq KeysIn(staged)
      /\ \A q \in removed : KeyOf[q] \in KeysIn(added)
      /\ KeysIn(staged) \subseteq KeysIn(t) \cup KeysIn(added)
  BY MergeTypes, MergeKeys
<1>2. u = Changed(t, removed, added)
  BY DEF MergeEffect
<1>3. u \in Tables
  BY <1>1, <1>2, ChangedType
<1>4. KeysIn(u) = KeysIn(t) \cup KeysIn(added)
  BY <1>1, <1>2, ChangedKeys
<1>5. Matched(u, staged, r) <=> KeyOf[r] \in KeysIn(staged)
  BY <1>1, <1>4 DEF Matched
<1>6. staged[r] > 0 => KeyOf[r] \in KeysIn(staged)
  BY KeyHeld
<1>7. u[r] = (IF r \in removed THEN 0 ELSE t[r]) + added[r]
  BY <1>2 DEF Changed
<1>8. MergeEffect(u, staged)[r] =
        (IF r \in MergeRemoves(u, staged) THEN 0 ELSE u[r]) + MergeAdds(u, staged)[r]
  BY DEF MergeEffect, Changed
<1> HIDE DEF u, added, removed
<1>9. MergeEffect(u, staged)[r] = u[r]
  <2>1. staged[r] \in Nat /\ t[r] \in Nat /\ u[r] \in Nat /\ added[r] \in Nat
    BY <1>1, <1>3 DEF Tables
  <2>2. CASE KeyOf[r] \notin KeysIn(staged)
    <3>1. staged[r] = 0 /\ ~Matched(u, staged, r)
      BY <1>5, <1>6, <2>1, <2>2
    <3>2. r \notin MergeRemoves(u, staged) /\ MergeAdds(u, staged)[r] = 0
      BY <3>1 DEF MergeRemoves, MergeAdds
    <3> QED BY <1>8, <2>1, <3>2
  <2>3. CASE KeyOf[r] \in KeysIn(staged) /\ ~UpdatesMatched
    <3>1. r \notin MergeRemoves(u, staged) /\ MergeAdds(u, staged)[r] = 0
      BY <1>5, <2>3 DEF MergeRemoves, MergeAdds
    <3> QED BY <1>8, <2>1, <3>1
  <2>4. CASE KeyOf[r] \in KeysIn(staged) /\ UpdatesMatched
    <3>1. added[r] = staged[r] /\ MergeAdds(u, staged)[r] = staged[r]
      BY <2>4 DEF MergeAdds, added
    <3>2. u[r] = staged[r]
      <4>1. CASE KeyOf[r] \in KeysIn(t) /\ t[r] > 0
        <5>1. r \in removed
          BY <2>4, <4>1 DEF removed, MergeRemoves, Matched
        <5> QED BY <1>7, <2>1, <3>1, <5>1
      <4>2. CASE ~(t[r] > 0)
        BY <1>7, <2>1, <3>1, <4>2
      <4>3. t[r] > 0 => KeyOf[r] \in KeysIn(t)
        BY <2>4, KeyHeld
      <4> QED BY <4>1, <4>2, <4>3
    <3>3. u[r] > 0 => r \in MergeRemoves(u, staged)
      BY <1>5, <2>4 DEF MergeRemoves
    <3> QED BY <1>8, <2>1, <3>1, <3>2, <3>3
  <2> QED BY <2>2, <2>3, <2>4
<1> QED BY <1>9 DEF u

(* What a MERGE does to the rows with a key depends on those rows only.    *)
LEMMA MergeOfKeyedRows ==
    ASSUME NEW t \in Tables, NEW u \in Tables, NEW staged \in Tables,
           \A q \in Rows : KeyOf[q] # NullKey => t[q] = u[q],
           NEW r \in Rows, KeyOf[r] # NullKey
    PROVE  MergeEffect(t, staged)[r] = MergeEffect(u, staged)[r]
<1>1. \A k : k \in KeysIn(t) <=> k \in KeysIn(u)
  BY KeyHeld
<1>2. Matched(t, staged, r) <=> Matched(u, staged, r)
  BY <1>1 DEF Matched
<1>3. /\ r \in MergeRemoves(t, staged) <=> r \in MergeRemoves(u, staged)
      /\ MergeAdds(t, staged)[r] = MergeAdds(u, staged)[r]
  BY <1>2 DEF MergeRemoves, MergeAdds
<1> QED BY <1>3 DEF MergeEffect, Changed

LEMMA OnceMore == \A c, a \in Nat : c * a \in Nat /\ (c + 1) * a = c * a + a
OBVIOUS

(* Row r of the table, if l is the only load and was committed c times.    *)
OnceOf(l, c, r) ==
    IF KeyOf[r] = NullKey THEN InitialTable[r] + c * AllOf(l)[r]
    ELSE IF c = 0 THEN InitialTable[r] ELSE EffectOf(l, InitialTable)[r]

LEMMA OnceAgain ==
    ASSUME TypeOK, NEW l \in Loaders, Staged(l), NEW c \in Nat,
           \A q \in Rows : table[q] = OnceOf(l, c, q), NEW r \in Rows
    PROVE  EffectOf(l, table)[r] = OnceOf(l, c + 1, r)
<1>1. table \in Tables /\ InitialTable \in Tables /\ AllOf(l) \in Tables
  BY AllOfType, TableAssumption DEF TypeOK
<1>2. CASE KeyOf[r] = NullKey
  <2>1. EffectOf(l, table)[r] = table[r] + AllOf(l)[r]
    BY <1>1, <1>2, EffectKeeps
  <2>2. InitialTable[r] \in Nat /\ AllOf(l)[r] \in Nat
    BY <1>1 DEF Tables
  <2>3. table[r] = InitialTable[r] + c * AllOf(l)[r]
    BY <1>2 DEF OnceOf
  <2>4. OnceOf(l, c + 1, r) = InitialTable[r] + (c + 1) * AllOf(l)[r]
    BY <1>2 DEF OnceOf
  <2>5. c * AllOf(l)[r] \in Nat /\ (c + 1) * AllOf(l)[r] = c * AllOf(l)[r] + AllOf(l)[r]
    BY <2>2, OnceMore
  <2> QED BY <2>1, <2>2, <2>3, <2>4, <2>5
<1>3. CASE KeyOf[r] # NullKey
  <2>1. \A t \in Tables : EffectOf(l, t) = MergeEffect(t, AllOf(l))
    BY DEF EffectOf
  <2>2. OnceOf(l, c + 1, r) = MergeEffect(InitialTable, AllOf(l))[r]
    BY <1>1, <1>3, <2>1 DEF OnceOf
  <2>3. CASE c = 0
    <3>1. \A q \in Rows : KeyOf[q] # NullKey => table[q] = InitialTable[q]
      BY <2>3 DEF OnceOf
    <3> QED BY <1>1, <1>3, <2>1, <2>2, <3>1, MergeOfKeyedRows
  <2>4. CASE c # 0
    <3> DEFINE once == MergeEffect(InitialTable, AllOf(l))
    <3>1. \A q \in Rows : KeyOf[q] # NullKey => table[q] = once[q]
      BY <1>1, <2>1, <2>4 DEF OnceOf
    <3>2. once \in Tables
      BY <1>1, MergeTypes, ChangedType DEF MergeEffect
    <3>3. MergeEffect(once, AllOf(l))[r] = once[r]
      BY <1>1, <1>3, MergeIdempotent
    <3> HIDE DEF once
    <3>4. MergeEffect(table, AllOf(l))[r] = MergeEffect(once, AllOf(l))[r]
      BY <1>1, <1>3, <3>1, <3>2, MergeOfKeyedRows
    <3> QED BY <1>1, <2>1, <2>2, <3>3, <3>4 DEF once
  <2> QED BY <2>3, <2>4
<1> QED BY <1>2, <1>3

(* CommitMode::StagedMerge, "Idempotent by the key => exactly-once          *)
(* effective": true of every row with a key; one whose key is NULL comes    *)
(* again with every commit.                                                 *)
THEOREM ExactlyOnce == Spec => []ExactlyOnceEffective
<1> DEFINE Once == \A l \in Loaders :
             Staged(l) /\ (\A o \in Loaders \ {l} : commits[o] = 0) =>
                 \A r \in Rows : table[r] = OnceOf(l, commits[l], r)
<1>1. Init => Once
  <2> SUFFICES ASSUME Init, NEW l \in Loaders, NEW r \in Rows
               PROVE  table[r] = OnceOf(l, commits[l], r)
    OBVIOUS
  <2>1. InitialTable[r] \in Nat /\ AllOf(l)[r] \in Nat
    BY AllOfType, TableAssumption DEF Tables
  <2>2. commits[l] = 0 /\ table[r] = InitialTable[r]
    BY DEF Init
  <2> QED BY <2>1, <2>2 DEF OnceOf
<1>2. TypeOK /\ LoadInv /\ Once /\ [Next]_vars => Once'
  <2> SUFFICES ASSUME TypeOK, LoadInv, Once, [Next]_vars,
                      NEW m \in Loaders, Staged(m),
                      \A o \in Loaders \ {m} : commits'[o] = 0,
                      NEW r \in Rows
               PROVE  table'[r] = OnceOf(m, commits'[m], r)
    BY DEF OnceOf, EffectOf, Staged, AllOf
  <2>1. CASE UNCHANGED <<table, commits, reported>>
    BY <2>1
  <2>2. ASSUME NEW l \in Loaders,
               table' = EffectOf(l, table),
               commits' = [commits EXCEPT ![l] = @ + 1]
        PROVE  table'[r] = OnceOf(m, commits'[m], r)
    <3>1. commits'[l] = commits[l] + 1 /\ commits[l] \in Nat
      BY <2>2 DEF TypeOK
    <3>2. l = m
      BY <3>1
    <3>3. \A o \in Loaders \ {m} : commits[o] = 0
      BY <2>2, <3>2 DEF TypeOK
    <3>4. \A q \in Rows : table[q] = OnceOf(m, commits[m], q)
      BY <3>3
    <3> HIDE DEF Once
    <3> QED BY <2>2, <3>1, <3>2, <3>4, OnceAgain
  <2> QED BY <2>1, <2>2, StepEffect
<1>3. TypeOK /\ Once => ExactlyOnceEffective
  <2> SUFFICES ASSUME TypeOK, Once, NEW l \in Loaders, Staged(l),
                      \A o \in Loaders \ {l} : commits[o] = 0, NEW r \in Rows
               PROVE  LET once == IF commits[l] = 0 THEN InitialTable
                                  ELSE Loads!LoadEffect(l, InitialTable)
                      IN  table[r] = IF KeyOf[r] # NullKey THEN once[r]
                                     ELSE InitialTable[r] + commits[l] * Loads!AllRows(l)[r]
    BY DEF ExactlyOnceEffective
  <2>1. table[r] = OnceOf(l, commits[l], r)
    OBVIOUS
  <2>2. Loads!AllRows(l) = AllOf(l)
    BY LoadsAllRows DEF AllOf
  <2>3. Loads!LoadEffect(l, InitialTable) = EffectOf(l, InitialTable)
    BY EffectIsLoads, TableAssumption
  <2> QED BY <2>1, <2>2, <2>3 DEF OnceOf
<1> HIDE DEF Once
<1> QED BY <1>1, <1>2, <1>3, LoadInvariant, PTL DEF Spec

---------------------------------------------------------------------------
(* At least once. *)

(* Nothing has replaced row r: it has no key, or no staged load that       *)
(* brings the same key was committed.                                      *)
AddsUp(r) ==
    \A o \in Loaders : Staged(o) /\ KeyOf[r] \in KeysIn(AllOf(o)) => commits[o] = 0

(* What was there, and the copies of row r that load l has brought. *)
CopiesBy(l, r) == InitialTable[r] + commits[l] * AllOf(l)[r]

(* Each commit of a load brings each of its rows as often as the input has *)
(* it, and nothing of that is lost until a MERGE of the same key replaces  *)
(* it, whatever other loads do; and no more than that, if the load is the  *)
(* only one.  A row that was replaced has left one with its key.           *)
EveryCommitCounts ==
    \A l \in Loaders :
        /\ \A r \in Rows : AddsUp(r) =>
            /\ table[r] >= CopiesBy(l, r)
            /\ (\A o \in Loaders \ {l} : commits[o] = 0) => table[r] = CopiesBy(l, r)
        /\ commits[l] > 0 => KeysIn(AllOf(l)) \subseteq KeysIn(table)

(* A staged load leaves the rows whose keys it does not bring, and adds    *)
(* those that have none.                                                   *)
LEMMA EffectAddsUp ==
    ASSUME NEW l \in Loaders, NEW t \in Tables, NEW r \in Rows,
           ~Staged(l) \/ KeyOf[r] \notin KeysIn(AllOf(l))
    PROVE  EffectOf(l, t)[r] = t[r] + AllOf(l)[r]
<1>1. CASE ~Staged(l)
  BY <1>1 DEF EffectOf, InsertEffect, Changed
<1>2. CASE Staged(l) /\ KeyOf[r] \notin KeysIn(AllOf(l))
  <2>1. r \notin MergeRemoves(t, AllOf(l)) /\ MergeAdds(t, AllOf(l))[r] = AllOf(l)[r]
    BY <1>2 DEF MergeRemoves, MergeAdds, Matched
  <2> QED BY <1>2, <2>1 DEF EffectOf, MergeEffect, Changed
<1> QED BY <1>1, <1>2

(* CommitMode::Atomic, "all-or-nothing, at-least-once": the table has the  *)
(* rows of a load as often as it was committed, answered or not, as long   *)
(* as no staged load of the same key was; the rows without a key of a      *)
(* staged load count so too, and for them it is no better than atomic; and *)
(* no key of a committed load is ever missing.                             *)
THEOREM AtLeastOnce == Spec => []EveryCommitCounts
<1> DEFINE Counts == \A l \in Loaders : \A r \in Rows : AddsUp(r) =>
             /\ table[r] >= CopiesBy(l, r)
             /\ (\A o \in Loaders \ {l} : commits[o] = 0) => table[r] = CopiesBy(l, r)
<1>1. Init => Counts
  <2> SUFFICES ASSUME Init, NEW l \in Loaders, NEW r \in Rows
               PROVE  table[r] = CopiesBy(l, r) /\ table[r] >= CopiesBy(l, r)
    OBVIOUS
  <2>1. InitialTable[r] \in Nat /\ AllOf(l)[r] \in Nat
    BY TableAssumption, AllOfType DEF Tables
  <2>2. commits[l] = 0 /\ table[r] = InitialTable[r]
    BY DEF Init
  <2> QED BY <2>1, <2>2 DEF CopiesBy
<1>2. TypeOK /\ LoadInv /\ Counts /\ [Next]_vars => Counts'
  <2> SUFFICES ASSUME TypeOK, LoadInv, Counts, [Next]_vars,
                      NEW m \in Loaders, NEW r \in Rows, AddsUp(r)'
               PROVE  /\ table'[r] >= CopiesBy(m, r)'
                      /\ (\A o \in Loaders \ {m} : commits'[o] = 0) =>
                            table'[r] = CopiesBy(m, r)'
    OBVIOUS
  <2>1. CASE UNCHANGED <<table, commits, reported>>
    BY <2>1 DEF CopiesBy, AddsUp, AllOf, Staged
  <2>2. ASSUME NEW l \in Loaders,
               table' = EffectOf(l, table),
               commits' = [commits EXCEPT ![l] = @ + 1]
        PROVE  /\ table'[r] >= CopiesBy(m, r)'
               /\ (\A o \in Loaders \ {m} : commits'[o] = 0) =>
                     table'[r] = CopiesBy(m, r)'
    <3> DEFINE of == AllOf(l)[r]
               mine == AllOf(m)[r]
    <3>1. /\ commits'[l] = commits[l] + 1 /\ \A o \in Loaders : commits[o] \in Nat
          /\ \A o \in Loaders \ {l} : commits'[o] = commits[o]
      BY <2>2 DEF TypeOK
    <3>2. /\ table[r] \in Nat /\ InitialTable[r] \in Nat /\ of \in Nat /\ mine \in Nat
      BY AllOfType, TableAssumption DEF TypeOK, Tables
    <3>3. table'[r] = table[r] + of
      <4>1. ~Staged(l) \/ KeyOf[r] \notin KeysIn(AllOf(l))
        <5>1. Staged(l) /\ KeyOf[r] \in KeysIn(AllOf(l)) => commits'[l] = 0
          BY DEF AddsUp, Staged, AllOf
        <5> QED BY <3>1, <5>1
      <4> QED BY <2>2, <4>1, EffectAddsUp DEF TypeOK
    <3>4. AddsUp(r)
      <4>1. \A o \in Loaders : commits'[o] = 0 => commits[o] = 0
        BY <3>1
      <4> QED BY <4>1 DEF AddsUp, Staged, AllOf
    <3>5. /\ table[r] >= InitialTable[r] + commits[m] * mine
          /\ (\A o \in Loaders \ {m} : commits[o] = 0) =>
                table[r] = InitialTable[r] + commits[m] * mine
      BY <3>4 DEF CopiesBy
    <3>6. CopiesBy(m, r)' = InitialTable[r] + commits'[m] * mine
      BY DEF CopiesBy, AllOf
    <3> HIDE DEF mine
    <3>7. commits[m] * mine \in Nat /\ (commits[m] + 1) * mine = commits[m] * mine + mine
      BY <3>1, <3>2, OnceMore
    <3>8. CASE m = l
      <4>1. of = mine /\ commits'[m] * mine = commits[m] * mine + mine
        BY <3>1, <3>7, <3>8 DEF mine
      <4>2. (\A o \in Loaders \ {m} : commits'[o] = 0) =>
                \A o \in Loaders \ {m} : commits[o] = 0
        BY <3>1, <3>8
      <4> HIDE DEF of
      <4> QED BY <3>2, <3>3, <3>5, <3>6, <3>7, <4>1, <4>2
    <3>9. CASE m # l
      <4>1. commits'[m] = commits[m] /\ commits'[l] # 0
        BY <3>1, <3>9
      <4> HIDE DEF of
      <4> QED BY <3>2, <3>3, <3>5, <3>6, <3>7, <3>9, <4>1
    <3> QED BY <3>8, <3>9
  <2> QED BY <2>1, <2>2, StepEffect
<1>3. Init => DurableInv
  BY DEF Init, DurableInv
<1>4. Counts /\ DurableInv => EveryCommitCounts
  BY DEF EveryCommitCounts, DurableInv
<1> HIDE DEF Counts
<1> QED BY <1>1, <1>2, <1>3, <1>4, DurableStep, LoadInvariant, PTL DEF Spec

---------------------------------------------------------------------------
(* At most once, and one row per key, where a unique index sees to it. *)

(* The keys that an atomic load has inserted are new to the table, and     *)
(* stay so until it commits.                                               *)
HeldKeysAreNew ==
    UniqueTarget =>
        \A l \in Loaders : ~Staged(l) => KeysIn(adds[l]) \cap KeysIn(table) = {}

LEMMA HeldKeysStep ==
    TypeOK /\ LoadInv /\ HeldKeysAreNew /\ [Next]_vars => HeldKeysAreNew'
<1> SUFFICES ASSUME TypeOK, LoadInv, HeldKeysAreNew, [Next]_vars, UniqueTarget,
                    NEW m \in Loaders, ~Staged(m)
             PROVE  KeysIn(adds'[m]) \cap KeysIn(table') = {}
  BY DEF HeldKeysAreNew, Staged
<1>1. KeysIn(adds[m]) \cap KeysIn(table) = {}
  BY DEF HeldKeysAreNew
<1>2. CASE Idle
  BY <1>1, <1>2 DEF Idle
<1>3. ASSUME NEW l \in Loaders, InsertRow(l)
      PROVE  KeysIn(adds'[m]) \cap KeysIn(table') = {}
  <2>1. CASE m # l
    BY <1>1, <1>3, <2>1, InsertRowHolds
  <2>2. CASE m = l
    <3>1. NextKey(l) \cap KeysIn(table) = {}
      BY <1>3, <2>2 DEF InsertRow, Refused
    <3> QED BY <1>1, <1>3, <2>2, <3>1, InsertRowHolds
  <2> QED BY <2>1, <2>2
<1>4. ASSUME NEW l \in Loaders, Finalize(l) \/ MergeLocks(l)
      PROVE  KeysIn(adds'[m]) \cap KeysIn(table') = {}
  BY <1>1, <1>4, FinalizeHolds, MergeLocksHolds
<1>4a. ASSUME NEW l \in Loaders, MergeEnds(l)
      PROVE  KeysIn(adds'[m]) \cap KeysIn(table') = {}
  <2>1. m # l
    BY <1>4a, MergeEndsHolds DEF LoadInv, ProcessInv
  <2> QED BY <1>1, <1>4a, <2>1, MergeEndsHolds
<1>5. ASSUME NEW l \in Loaders, SessionEnds(l), UNCHANGED table
      PROVE  KeysIn(adds'[m]) \cap KeysIn(table') = {}
  BY <1>1, <1>5, SessionEndsHolds, NoRowsKeys DEF SessionEnds
<1>6. ASSUME NEW l \in Loaders, SessionEnds(l), table' = Changed(table, removes[l], adds[l])
      PROVE  KeysIn(adds'[m]) \cap KeysIn(table') = {}
  <2>1. CASE m = l
    BY <1>6, <2>1, SessionEndsHolds, NoRowsKeys DEF SessionEnds
  <2>2. CASE m # l
    <3>1. KeysIn(adds[m]) \cap KeysIn(adds[l]) = {}
      BY <2>2 DEF LoadInv, LocksExclusive, Held
    <3>2. KeysIn(table') = KeysIn(table) \cup KeysIn(adds[l])
      BY <1>6, ChangedKeys DEF TypeOK, LoadInv, RemovedAreReplaced
    <3>3. adds'[m] = adds[m]
      BY <1>6, <2>2, SessionEndsHolds DEF SessionEnds
    <3> QED BY <1>1, <3>1, <3>2, <3>3
  <2> QED BY <2>1, <2>2
<1> QED BY <1>2, <1>3, <1>4, <1>4a, <1>5, <1>6, StepKinds

(* A load is committed only by its session, when nothing else is missing.  *)
LEMMA WhoCommits ==
    ASSUME TypeOK, [Next]_vars, NEW l \in Loaders, commits'[l] # commits[l]
    PROVE  AboutToCommit(l) /\ commits'[l] = commits[l] + 1
<1>1. CASE UNCHANGED vars \/ AlterTarget
  BY <1>1 DEF vars, AlterTarget, historyVars
<1>2. ASSUME NEW m \in Loaders,
             \/ Configure(m) \/ Prepare(m) \/ InsertRow(m) \/ BatchWritten(m)
             \/ \E n \in 0..Len(Input[m]) : WriteBatch(m, n)
             \/ Finalize(m) \/ MergeLocks(m) \/ MergeRestarts(m) \/ MergeEnds(m)
             \/ Cancel(m) \/ PrepareFails(m) \/ WriteBatchFails(m)
             \/ DmlFails(m) \/ MergeFails(m) \/ CommitFails(m)
             \/ SessionLost(m) \/ Gone(m)
      PROVE  commits' = commits
  BY <1>2 DEF Configure, Prepare, InsertRow, BatchWritten, WriteBatch, Finalize,
              MergeLocks, MergeRestarts, MergeEnds, Cancel, PrepareFails,
              WriteBatchFails, DmlFails, MergeFails, CommitFails, SessionLost, Gone,
              historyVars
<1>3. ASSUME NEW m \in Loaders, Commit(m) \/ CommitAnswerLost(m)
      PROVE  AboutToCommit(m) /\ commits' = [commits EXCEPT ![m] = @ + 1]
  BY <1>3 DEF Commit, CommitAnswerLost, Committed, AboutToCommit
<1> QED BY NextCases, <1>1, <1>2, <1>3 DEF TypeOK

(* On a unique target an atomic load with at least one key is committed at *)
(* most once, however often it is repeated.                                *)
NoSecondCommit ==
    \A l \in Loaders :
        UniqueTarget /\ ~Staged(l) /\ KeysIn(AllOf(l)) # {} => commits[l] <= 1

(* "At-least-once" is exactly once where merge_key has a unique index: a   *)
(* load that is repeated after a COMMIT without an answer is refused at    *)
(* its first key, and rolled back.                                         *)
THEOREM AtMostOnce == Spec => []NoSecondCommit
<1> DEFINE Inv == DurableInv /\ HeldKeysAreNew /\ NoSecondCommit
<1>1. Init => Inv
  <2> SUFFICES ASSUME Init PROVE Inv
    OBVIOUS
  <2>1. DurableInv /\ NoSecondCommit
    BY DEF Init, DurableInv, NoSecondCommit
  <2>2. HeldKeysAreNew
    BY NoRowsKeys DEF Init, HeldKeysAreNew
  <2> QED BY <2>1, <2>2
<1>2. TypeOK /\ LoadInv /\ Inv /\ [Next]_vars => Inv'
  <2> SUFFICES ASSUME TypeOK, LoadInv, Inv, [Next]_vars PROVE Inv'
    OBVIOUS
  <2>1. DurableInv' /\ HeldKeysAreNew'
    BY DurableStep, HeldKeysStep
  <2>2. ASSUME NEW l \in Loaders, UniqueTarget, ~Staged(l), KeysIn(AllOf(l)) # {}
        PROVE  commits'[l] <= 1
    <3>1. commits[l] <= 1 /\ commits[l] \in Nat
      BY <2>2 DEF NoSecondCommit, TypeOK
    <3>2. CASE commits'[l] = commits[l]
      BY <3>1, <3>2
    <3>3. CASE commits'[l] # commits[l]
      <4>1. AboutToCommit(l) /\ commits'[l] = commits[l] + 1
        BY <3>3, WhoCommits
      <4>2. adds[l] = AllOf(l)
        BY <2>2, <4>1 DEF LoadInv, CommitsWholeLoad, AboutToCommit, AllOf
      <4>3. ~(KeysIn(AllOf(l)) \subseteq KeysIn(table))
        BY <2>2, <4>2 DEF HeldKeysAreNew
      <4>4. ~(commits[l] > 0)
        BY <4>3 DEF DurableInv
      <4> QED BY <3>1, <4>1, <4>4
    <3> QED BY <3>2, <3>3
  <2> QED BY <2>1, <2>2 DEF NoSecondCommit, AllOf, Staged
<1>3. Inv => NoSecondCommit
  OBVIOUS
<1> HIDE DEF Inv
<1> QED BY <1>1, <1>2, <1>3, LoadInvariant, PTL DEF Spec

(* No key twice in table t. *)
UniqueRows(t) ==
    \A r \in Rows : t[r] > 0 /\ KeyOf[r] # NullKey =>
        t[r] = 1 /\ \A q \in Rows \ {r} : KeyOf[q] = KeyOf[r] => t[q] = 0

(* A MERGE that Oracle accepts leaves one row per key, if there was one.   *)
LEMMA MergeUnique ==
    ASSUME NEW t \in Tables, NEW staged \in Tables, UniqueRows(t), MergeAccepted(t, staged)
    PROVE  UniqueRows(MergeEffect(t, staged))
<1> DEFINE u == MergeEffect(t, staged)
           added == MergeAdds(t, staged)
           removed == MergeRemoves(t, staged)
<1>1. \A q \in Rows : u[q] = (IF q \in removed THEN 0 ELSE t[q]) + added[q]
  BY DEF MergeEffect, Changed
<1>2. \A q \in Rows : /\ t[q] \in Nat /\ staged[q] \in Nat
                      /\ (t[q] > 0 \/ t[q] = 0) /\ (staged[q] > 0 \/ staged[q] = 0)
  BY DEF Tables
<1>3. \A q \in Rows : /\ q \in removed <=> UpdatesMatched /\ t[q] > 0 /\ Matched(t, staged, q)
                      /\ added[q] = IF Matched(t, staged, q) /\ ~UpdatesMatched
                                    THEN 0 ELSE staged[q]
  BY DEF MergeRemoves, MergeAdds
<1> HIDE DEF u, added, removed
<1>4. ASSUME NEW r \in Rows, u[r] > 0, KeyOf[r] # NullKey
      PROVE  u[r] = 1 /\ \A q \in Rows \ {r} : KeyOf[q] = KeyOf[r] => u[q] = 0
  <2> DEFINE k == KeyOf[r]
             Same == {q \in Rows : KeyOf[q] = k}
  <2>1. /\ \A q \in Same : t[q] > 0 => k \in KeysIn(t)
        /\ \A q \in Same : staged[q] > 0 => k \in KeysIn(staged)
    BY <1>4, KeyHeld
  <2>2. \A q \in Same : Matched(t, staged, q) <=> k \in KeysIn(t) /\ k \in KeysIn(staged)
    BY DEF Matched
  <2>3. ASSUME \A q \in Same : u[q] = t[q]
        PROVE  u[r] = 1 /\ \A q \in Rows \ {r} : KeyOf[q] = KeyOf[r] => u[q] = 0
    BY <1>4, <2>3 DEF UniqueRows
  <2>4. ASSUME \A q \in Same : u[q] = staged[q], OneRowFor(staged, k)
        PROVE  u[r] = 1 /\ \A q \in Rows \ {r} : KeyOf[q] = KeyOf[r] => u[q] = 0
    <3>1. PICK p \in Rows : /\ KeyOf[p] = k /\ staged[p] = 1
                            /\ \A q \in Rows : KeyOf[q] = k /\ q # p => staged[q] = 0
      BY <2>4 DEF OneRowFor
    <3>2. p = r
      BY <1>2, <1>4, <2>4, <3>1
    <3> QED BY <2>4, <3>1, <3>2
  <2>5. CASE k \notin KeysIn(staged)
    <3>1. \A q \in Same : q \notin removed /\ added[q] = 0
      BY <1>2, <1>3, <2>1, <2>2, <2>5
    <3> QED BY <1>1, <1>2, <2>3, <3>1
  <2>6. CASE k \in KeysIn(staged) /\ k \in KeysIn(t) /\ ~UpdatesMatched
    <3>1. \A q \in Same : q \notin removed /\ added[q] = 0
      BY <1>3, <2>2, <2>6
    <3> QED BY <1>1, <1>2, <2>3, <3>1
  <2>7. CASE k \in KeysIn(staged) /\ (k \notin KeysIn(t) \/ UpdatesMatched)
    <3>1. OneRowFor(staged, k)
      BY <2>7 DEF MergeAccepted
    <3>2. \A q \in Same : added[q] = staged[q] /\ (q \in removed \/ t[q] = 0)
      BY <1>2, <1>3, <2>1, <2>2, <2>7
    <3>3. \A q \in Same : u[q] = staged[q]
      BY <1>1, <1>2, <3>2
    <3> QED BY <2>4, <3>1, <3>3
  <2> QED BY <2>5, <2>6, <2>7
<1> QED BY <1>4 DEF UniqueRows, u

(* So does an INSERT of rows with other keys. *)
LEMMA InsertUnique ==
    ASSUME NEW t \in Tables, NEW new \in Tables, UniqueRows(t), UniqueRows(new),
           KeysIn(new) \cap KeysIn(t) = {}
    PROVE  UniqueRows(Changed(t, {}, new))
<1> DEFINE u == Changed(t, {}, new)
<1>1. \A q \in Rows : u[q] = t[q] + new[q] /\ t[q] \in Nat /\ new[q] \in Nat
  BY DEF Changed, Tables
<1> HIDE DEF u
<1>2. ASSUME NEW r \in Rows, u[r] > 0, KeyOf[r] # NullKey
      PROVE  u[r] = 1 /\ \A q \in Rows \ {r} : KeyOf[q] = KeyOf[r] => u[q] = 0
  <2>1. CASE KeyOf[r] \in KeysIn(t)
    <3>1. \A q \in Rows : KeyOf[q] = KeyOf[r] => ~(new[q] > 0)
      BY <1>2, <2>1, KeyHeld
    <3> QED BY <1>1, <1>2, <3>1 DEF UniqueRows
  <2>2. CASE KeyOf[r] \notin KeysIn(t)
    <3>1. \A q \in Rows : KeyOf[q] = KeyOf[r] => ~(t[q] > 0)
      BY <1>2, <2>2, KeyHeld
    <3> QED BY <1>1, <1>2, <3>1 DEF UniqueRows
  <2> QED BY <2>1, <2>2
<1> QED BY <1>2 DEF UniqueRows, u

LEMMA OneMoreUnique ==
    ASSUME NEW t \in Tables, NEW r \in Rows, UniqueRows(t), KeyOf[r] \notin KeysIn(t)
    PROVE  UniqueRows([t EXCEPT ![r] = @ + 1])
<1> DEFINE u == [t EXCEPT ![r] = @ + 1]
<1>1. \A q \in Rows : t[q] \in Nat /\ u[q] = IF q = r THEN t[q] + 1 ELSE t[q]
  BY DEF Tables
<1> HIDE DEF u
<1>2. KeyOf[r] # NullKey => \A q \in Rows : KeyOf[q] = KeyOf[r] => ~(t[q] > 0)
  BY KeyHeld
<1>3. ASSUME NEW p \in Rows, u[p] > 0, KeyOf[p] # NullKey
      PROVE  u[p] = 1 /\ \A q \in Rows \ {p} : KeyOf[q] = KeyOf[p] => u[q] = 0
  <2>1. CASE KeyOf[p] = KeyOf[r]
    BY <1>1, <1>2, <1>3, <2>1
  <2>2. CASE KeyOf[p] # KeyOf[r]
    BY <1>1, <1>3, <2>2 DEF UniqueRows
  <2> QED BY <2>1, <2>2
<1> QED BY <1>3 DEF UniqueRows, u

(* What keeps the table's keys unique: so are the rows of each atomic load, *)
(* and a MERGE that was accepted would be accepted again.                   *)
UniqueInv ==
    /\ HeldKeysAreNew
    /\ UniqueRows(table)
    /\ \A l \in Loaders : ~Staged(l) => UniqueRows(adds[l])
    /\ \A l \in Loaders : Staged(l) /\ AboutToCommit(l) => MergeAccepted(table, AllOf(l))

(* An accepted MERGE stays so while other sessions commit keys. *)
LEMMA AcceptedStays ==
    ASSUME NEW t, NEW u, NEW staged, KeysIn(t) \subseteq KeysIn(u), MergeAccepted(t, staged)
    PROVE  MergeAccepted(u, staged)
BY DEF MergeAccepted

LEMMA NoRowsAccepted == \A t : MergeAccepted(t, NoRows)
BY NoRowsKeys DEF MergeAccepted

LEMMA UniqueStep ==
    ASSUME UniqueTarget, TypeOK, LoadInv, UniqueInv, [Next]_vars
    PROVE  UniqueInv'
<1>1. HeldKeysAreNew'
  BY HeldKeysStep DEF UniqueInv
<1>2. CASE Idle
  <2>1. table' = table /\ adds' = adds
    BY <1>2 DEF Idle
  <2>2. \A l \in Loaders : AboutToCommit(l)' => AboutToCommit(l)
    BY <1>2 DEF Idle
  <2> QED BY <1>1, <2>1, <2>2 DEF UniqueInv, Staged, AllOf, UniqueRows
<1>3. ASSUME NEW l \in Loaders, InsertRow(l)
      PROVE  UniqueInv'
  <2>1. /\ UNCHANGED <<table, pc, conn>>
        /\ \A m \in Loaders \ {l} : adds'[m] = adds[m]
    BY <1>3, InsertRowHolds
  <2>2. ASSUME ~Staged(l) PROVE UniqueRows(adds'[l])
    <3>1. /\ adds'[l] = [adds[l] EXCEPT ![NextRow(l)] = @ + 1]
          /\ left[l] > 0 /\ adds[l] \in Tables
      BY <1>3, <2>2 DEF InsertRow, TypeOK
    <3>2. NextRow(l) \in Rows
      BY <3>1, NextRowType
    <3>3. KeyOf[NextRow(l)] \notin KeysIn(adds[l])
      BY <1>3, <2>2 DEF InsertRow, Refused, NextKey, KeysIn
    <3> QED BY <2>2, <3>1, <3>2, <3>3, OneMoreUnique DEF UniqueInv
  <2>3. \A m \in Loaders : ~Staged(m) => UniqueRows(adds'[m])
    BY <2>1, <2>2 DEF UniqueInv
  <2> QED BY <1>1, <2>1, <2>3 DEF UniqueInv, Staged, AllOf, UniqueRows, AboutToCommit
<1>4. ASSUME NEW l \in Loaders, Finalize(l)
      PROVE  UniqueInv'
  <2>1. UNCHANGED <<table, adds, conn>> /\ \A m \in Loaders \ {l} : pc'[m] = pc[m]
    BY <1>4, FinalizeHolds
  <2>2. ASSUME Staged(l), AboutToCommit(l)' PROVE MergeAccepted(table, AllOf(l))
    <3>1. pc[l] = "ready" /\ pos[l] = Len(Input[l]) /\ ~mergeSql[l]
      BY <1>4, <2>2, FinalizeHolds DEF AboutToCommit
    <3>2. AllOf(l) = NoRows
      BY <2>2, <3>1, FirstRowsEmpty DEF LoadInv, ProcessInv, AllOf
    <3> QED BY <3>2, NoRowsAccepted
  <2>3. ASSUME NEW m \in Loaders, Staged(m), AboutToCommit(m)'
        PROVE  MergeAccepted(table, AllOf(m))
    BY <2>1, <2>2, <2>3 DEF UniqueInv, AboutToCommit
  <2> QED BY <1>1, <2>1, <2>3 DEF UniqueInv, Staged, AllOf, UniqueRows
<1>4a. ASSUME NEW l \in Loaders, MergeLocks(l)
       PROVE  UniqueInv'
  <2>1. UNCHANGED <<table, adds, pc, conn>>
    BY <1>4a, MergeLocksHolds
  <2> QED BY <1>1, <2>1 DEF UniqueInv, Staged, AllOf, UniqueRows, AboutToCommit
<1>4b. ASSUME NEW l \in Loaders, MergeEnds(l)
       PROVE  UniqueInv'
  <2>1. /\ UNCHANGED <<table, conn>>
        /\ \A m \in Loaders \ {l} : adds'[m] = adds[m] /\ pc'[m] = pc[m]
    BY <1>4b, MergeEndsHolds
  <2>2. Staged(l) /\ staging[l] = AllOf(l) /\ KeysIn(snapshot[l]) \subseteq KeysIn(table)
    BY <1>4b, MergeEndsHolds
    DEF LoadInv, ProcessInv, TxnIsInputPrefix, LockedAsRead, AllOf
  <2>3. MergeAccepted(table, AllOf(l))
    BY <1>4b, <2>2, MergeEndsHolds, AcceptedStays
  <2>4. \A m \in Loaders : ~Staged(m) => adds'[m] = adds[m]
    BY <2>1, <2>2
  <2>5. ASSUME NEW m \in Loaders, Staged(m), AboutToCommit(m)'
        PROVE  MergeAccepted(table, AllOf(m))
    BY <2>1, <2>3, <2>5 DEF UniqueInv, AboutToCommit
  <2> QED BY <1>1, <2>1, <2>4, <2>5 DEF UniqueInv, Staged, AllOf, UniqueRows
<1>5. ASSUME NEW l \in Loaders, SessionEnds(l)
      PROVE  /\ \A m \in Loaders : ~Staged(m) => UniqueRows(adds'[m])
             /\ \A m \in Loaders : Staged(m) /\ AboutToCommit(m)' =>
                    MergeAccepted(table, AllOf(m))
  <2>1. UniqueRows(NoRows)
    BY DEF UniqueRows, NoRows
  <2>2. adds'[l] = NoRows /\ \A m \in Loaders \ {l} : adds'[m] = adds[m]
    BY <1>5, SessionEndsHolds DEF SessionEnds
  <2>3. \A m \in Loaders : AboutToCommit(m)' => AboutToCommit(m)
    BY <1>5 DEF SessionEnds
  <2> QED BY <2>1, <2>2, <2>3 DEF UniqueInv
<1>6. ASSUME NEW l \in Loaders, SessionEnds(l), UNCHANGED table
      PROVE  UniqueInv'
  BY <1>1, <1>5, <1>6 DEF UniqueInv, Staged, AllOf, UniqueRows
<1>7. ASSUME NEW l \in Loaders, SessionEnds(l), AboutToCommit(l),
             table' = Changed(table, removes[l], adds[l])
      PROVE  UniqueInv'
  <2>1. table \in Tables /\ adds[l] \in Tables /\ AllOf(l) \in Tables
    BY AllOfType DEF TypeOK
  <2>2. /\ adds[l] = IF Staged(l) THEN MergeAdds(table, AllOf(l)) ELSE AllOf(l)
        /\ removes[l] = IF Staged(l) THEN MergeRemoves(table, AllOf(l)) ELSE {}
    BY <1>7 DEF LoadInv, CommitsWholeLoad, AboutToCommit, AllOf
  <2>3. UniqueRows(table')
    <3>1. CASE Staged(l)
      <4>1. table' = MergeEffect(table, AllOf(l))
        BY <1>7, <2>2, <3>1 DEF MergeEffect
      <4> QED BY <1>7, <2>1, <3>1, <4>1, MergeUnique DEF UniqueInv
    <3>2. CASE ~Staged(l)
      <4>1. KeysIn(adds[l]) \cap KeysIn(table) = {}
        BY <3>2 DEF UniqueInv, HeldKeysAreNew
      <4> QED BY <1>7, <2>1, <2>2, <3>2, <4>1, InsertUnique DEF UniqueInv
    <3> QED BY <3>1, <3>2
  <2>4. KeysIn(table) \subseteq KeysIn(table')
    <3>1. /\ removes[l] \in SUBSET Rows
          /\ \A r \in removes[l] : KeyOf[r] \in KeysIn(adds[l])
      BY DEF TypeOK, LoadInv, RemovedAreReplaced
    <3>2. KeysIn(Changed(table, removes[l], adds[l])) = KeysIn(table) \cup KeysIn(adds[l])
      BY <2>1, <3>1, ChangedKeys
    <3> QED BY <1>7, <3>2
  <2>5. \A m \in Loaders : Staged(m) /\ AboutToCommit(m)' => MergeAccepted(table', AllOf(m))
    BY <1>5, <1>7, <2>4, AcceptedStays
  <2> QED BY <1>1, <1>5, <1>7, <2>3, <2>5 DEF UniqueInv, Staged, AllOf, UniqueRows
<1> QED BY <1>2, <1>3, <1>4, <1>4a, <1>4b, <1>6, <1>7, StepKinds

(* merge_key "unique on the target": what the staged MERGE asks of the     *)
(* target, the loads keep true themselves, in either mode and at any       *)
(* number at a time.                                                       *)
THEOREM KeysStayUnique ==
    ASSUME UniqueTarget, UniqueRows(InitialTable)
    PROVE  Spec => []UniqueRows(table)
<1>1. Init => UniqueInv
  <2> SUFFICES ASSUME Init PROVE UniqueInv
    OBVIOUS
  <2>1. \A l \in Loaders : adds[l] = NoRows /\ ~AboutToCommit(l)
    BY DEF Init, AboutToCommit
  <2>2. UniqueRows(NoRows)
    BY DEF UniqueRows, NoRows
  <2>3. table = InitialTable
    BY DEF Init
  <2> QED BY <2>1, <2>2, <2>3, NoRowsKeys DEF UniqueInv, HeldKeysAreNew
<1>2. TypeOK /\ LoadInv /\ UniqueInv /\ [Next]_vars => UniqueInv'
  BY UniqueStep
<1>3. UniqueInv => UniqueRows(table)
  BY DEF UniqueInv
<1> QED BY <1>1, <1>2, <1>3, LoadInvariant, PTL DEF Spec

---------------------------------------------------------------------------
(* No standstill. *)

(* What a load still has while it works, and no longer has once settled.   *)
SettledInv ==
    \A l \in Loaders :
        /\ pc[l] \in {"ready", "inserting", "merging", "committing", "done"} =>
            conn[l] # "none"
        /\ pc[l] \in {"ready", "inserting"} /\ Staged(l) => stagingTable[l]
        /\ Settled(l) => adds[l] = NoRows

LEMMA SettledStep ==
    TypeOK /\ ProcessInv /\ TxnIsInputPrefix /\ SettledInv /\ [Next]_vars => SettledInv'
<1> SUFFICES ASSUME TypeOK, ProcessInv, TxnIsInputPrefix, SettledInv, [Next]_vars
             PROVE  SettledInv'
  OBVIOUS
<1> USE DEF SettledInv, Settled, Staged, TypeOK, Calls
<1>1. CASE UNCHANGED vars \/ AlterTarget
  BY <1>1 DEF vars, AlterTarget, pluginVars, sessionVars
<1>2. ASSUME NEW l \in Loaders, Configure(l) PROVE SettledInv'
  BY <1>2 DEF Configure, sessionVars
<1>3. ASSUME NEW l \in Loaders, Prepare(l) PROVE SettledInv'
  BY <1>3 DEF Prepare, sessionVars
<1>4. ASSUME NEW l \in Loaders, NEW n \in 0..Len(Input[l]), WriteBatch(l, n)
      PROVE  SettledInv'
  BY <1>4 DEF WriteBatch, sessionVars
<1>5. ASSUME NEW l \in Loaders, InsertRow(l) PROVE SettledInv'
  BY <1>5 DEF InsertRow
<1>6. ASSUME NEW l \in Loaders, BatchWritten(l) PROVE SettledInv'
  BY <1>6 DEF BatchWritten, sessionVars
<1>7. ASSUME NEW l \in Loaders, Finalize(l) PROVE SettledInv'
  BY <1>7 DEF Finalize
<1>7a. ASSUME NEW l \in Loaders, MergeLocks(l) \/ MergeRestarts(l) PROVE SettledInv'
  BY <1>7a DEF MergeLocks, MergeRestarts, pluginVars
<1>7b. ASSUME NEW l \in Loaders, MergeEnds(l) PROVE SettledInv'
  <2>1. /\ UNCHANGED <<conn, stagingTable>> /\ pc[l] = "merging"
        /\ pc' = [pc EXCEPT ![l] = "committing"]
        /\ \A m \in Loaders \ {l} : adds'[m] = adds[m]
    BY <1>7b DEF MergeEnds, Merging
  <2> QED BY <2>1
<1>8. ASSUME NEW l \in Loaders, Commit(l) PROVE SettledInv'
  BY <1>8 DEF Commit, Committed, TransactionEnds
<1>9. ASSUME NEW l \in Loaders, Cancel(l) PROVE SettledInv'
  BY <1>9 DEF Cancel, TransactionEnds, sessionVars, TxnIsInputPrefix
<1>10. ASSUME NEW l \in Loaders,
              \/ PrepareFails(l) \/ WriteBatchFails(l) \/ DmlFails(l)
              \/ MergeFails(l) \/ CommitFails(l)
       PROVE  SettledInv'
  BY <1>10 DEF PrepareFails, WriteBatchFails, DmlFails, MergeFails, CommitFails,
               sessionVars
<1>11. ASSUME NEW l \in Loaders, CommitAnswerLost(l) PROVE SettledInv'
  BY <1>11 DEF CommitAnswerLost, Committed, TransactionEnds
<1>12. ASSUME NEW l \in Loaders, SessionLost(l) PROVE SettledInv'
  BY <1>12 DEF SessionLost, TransactionEnds
<1>13. ASSUME NEW l \in Loaders, Gone(l) PROVE SettledInv'
  BY <1>13 DEF Gone, TransactionEnds
<1> QED
  BY NextCases, <1>1, <1>2, <1>3, <1>4, <1>5, <1>6, <1>7, <1>7a, <1>7b, <1>8,
     <1>9, <1>10, <1>11, <1>12, <1>13

(* A load that cannot go on waits in its array DML, or in its MERGE, and   *)
(* not for itself.                                                         *)
LEMMA StuckWaits ==
    ASSUME TypeOK, SettledInv, NEW l \in Loaders, ~Settled(l), ~CanGo(l)
    PROVE  Blockers(l) # {} /\ ~Deadlocked(l)
<1> USE DEF CanGo, Settled
<1>1. /\ pc[l] \in {"inserting", "merging"}
      /\ conn[l] \in {"open", "lost"}
  BY DEF TypeOK, Calls, SettledInv
<1>2. CASE pc[l] = "inserting"
  BY <1>1, <1>2 DEF DmlDoomed
<1>3. CASE pc[l] = "merging"
  BY <1>1, <1>3 DEF MergeDoomed
<1> QED BY <1>1, <1>2, <1>3

(* Who is waited for holds a key, and is therefore not settled.            *)
LEMMA HolderWorks ==
    ASSUME TypeOK, LoadInv, SettledInv, NEW l \in Loaders, NEW o \in Blockers(l)
    PROVE  o \in Loaders /\ ~Settled(o)
<1>1. o \in Loaders /\ Held(o) # {}
  BY DEF Blockers, Holders
<1>2. adds[o] # NoRows \/ pc[o] = "merging"
  BY <1>1, NoRowsKeys DEF Held, LoadInv, TxnIsInputPrefix
<1> QED BY <1>1, <1>2 DEF SettledInv, Settled

(* The loads of a group that cannot go on, and are not settled, would be   *)
(* the circle of a deadlock, which Oracle breaks.                          *)
LEMMA SomeCanGo ==
    TypeOK /\ LoadInv /\ SettledInv => NoStandstill
<1> SUFFICES ASSUME TypeOK, LoadInv, SettledInv, NEW group \in SUBSET Loaders,
                    NEW l \in group, ~Settled(l),
                    \A m \in group : Blockers(m) \subseteq group,
                    \A m \in group : ~CanGo(m)
             PROVE  FALSE
  BY DEF NoStandstill
<1> DEFINE circle == {m \in group : ~Settled(m)}
<1>1. ASSUME NEW m \in circle PROVE Blockers(m) \cap circle # {}
  <2>1. PICK o : o \in Blockers(m)
    BY <1>1, StuckWaits
  <2>2. o \in circle
    BY <1>1, <2>1, HolderWorks
  <2> QED BY <2>1, <2>2
<1>2. circle \in SUBSET Loaders /\ l \in circle
  OBVIOUS
<1> HIDE DEF circle
<1>3. Deadlocked(l)
  BY <1>1, <1>2 DEF Deadlocked
<1> QED BY <1>3, StuckWaits

(* Row locks, ORA-00060 and "cancel" together keep loads from waiting for  *)
(* ever: in any group of loads that wait for no other, whether they are in *)
(* an array DML or in a MERGE that already holds some of its keys, one can *)
(* go on (connector/src/destination.rs, write_batch and finalize).         *)
THEOREM NeverAtStandstill == Spec => []NoStandstill
<1>1. Init => SettledInv
  BY DEF Init, SettledInv
<1>2. TypeOK /\ LoadInv /\ SettledInv /\ [Next]_vars => SettledInv'
  BY SettledStep DEF LoadInv
<1> QED BY <1>1, <1>2, SomeCanGo, LoadInvariant, PTL DEF Spec

---------------------------------------------------------------------------
(* Less to do with every step. *)

(* Rows that came from the first n of a sequence have at most n keys.      *)
LEMMA PrefixKeys ==
    ASSUME NEW s, NEW n \in Nat, NEW rows \in {NoRows, FirstRows(s, n)}
    PROVE  IsFiniteSet(KeysIn(rows)) /\ Cardinality(KeysIn(rows)) <= n
<1> DEFINE f == [i \in 1..n |-> KeyOf[s[i]]]
           T == {f[i] : i \in 1..n}
<1>1. f \in Surjection(1..n, T)
  BY DEF Surjection
<1>2. IsFiniteSet(1..n) /\ Cardinality(1..n) = n
  BY FS_Interval
<1>3. IsFiniteSet(T) /\ Cardinality(T) <= n
  <2> HIDE DEF f, T
  <2> QED BY <1>1, <1>2, FS_Surjection
<1>4. KeysIn(rows) \subseteq T
  <2>1. CASE rows = NoRows
    BY <2>1, NoRowsKeys
  <2>2. CASE rows = FirstRows(s, n)
    <3>1. ASSUME NEW r \in Rows, rows[r] > 0 PROVE \E i \in 1..n : s[i] = r
      <4>1. rows[r] = Cardinality({i \in 1..n : s[i] = r})
        BY <2>2 DEF FirstRows
      <4>2. {i \in 1..n : s[i] = r} # {}
        BY <3>1, <4>1, FS_EmptySet
      <4> QED BY <4>2
    <3> QED BY <3>1 DEF KeysIn
  <2> QED BY <2>1, <2>2
<1>5. IsFiniteSet(KeysIn(rows)) /\ Cardinality(KeysIn(rows)) <= Cardinality(T)
  <2> HIDE DEF T
  <2> QED BY <1>3, <1>4, FS_Subset
<1>6. Cardinality(T) \in Nat /\ Cardinality(KeysIn(rows)) \in Nat
  <2> HIDE DEF T
  <2> QED BY <1>3, <1>5, FS_CardinalityType
<1> HIDE DEF T
<1> QED BY <1>3, <1>5, <1>6

(* MergeSteps as a function of what it depends on: the keys of the MERGE,  *)
(* those it has got to, and the table as it is and as it was read.         *)
Stale(keys, t, seen) == \E r \in Rows : KeyOf[r] \in keys /\ t[r] # seen[r]
Todo(keys, got, t, seen) ==
    Cardinality(keys \ got) + (IF Stale(keys, t, seen) THEN Cardinality(keys) + 1 ELSE 0)

LEMMA TodoValues ==
    ASSUME NEW keys, IsFiniteSet(keys), NEW got, NEW t, NEW seen
    PROVE  /\ Cardinality(keys) \in Nat
           /\ Cardinality(keys \ got) \in Nat
           /\ Todo(keys, got, t, seen) \in Nat
           /\ Todo(keys, {}, t, t) = Cardinality(keys)
           /\ Stale(keys, t, seen) => Todo(keys, got, t, seen) > Cardinality(keys)
<1>1. keys \ got \in SUBSET keys /\ keys \ {} = keys
  OBVIOUS
<1>2. Cardinality(keys) \in Nat /\ Cardinality(keys \ got) \in Nat
  BY <1>1, FS_Subset, FS_CardinalityType
<1>3. ~Stale(keys, t, t)
  BY DEF Stale
<1> QED BY <1>1, <1>2, <1>3 DEF Todo

LEMMA TodoFalls ==
    ASSUME NEW keys, IsFiniteSet(keys), NEW got, NEW t, NEW seen, NEW k \in keys \ got
    PROVE  Todo(keys, got \cup {k}, t, seen) < Todo(keys, got, t, seen)
<1> DEFINE rest == keys \ got
           again == IF Stale(keys, t, seen) THEN Cardinality(keys) + 1 ELSE 0
<1>1. rest \in SUBSET keys /\ keys \ (got \cup {k}) = rest \ {k} /\ k \in rest
  OBVIOUS
<1>2. Cardinality(keys) \in Nat /\ Cardinality(rest) \in Nat
  BY TodoValues
<1>3. /\ Todo(keys, got, t, seen) = Cardinality(rest) + again
      /\ Todo(keys, got \cup {k}, t, seen) = Cardinality(keys \ (got \cup {k})) + again
  BY DEF Todo
<1>4. again \in Nat
  BY <1>2
<1> HIDE DEF rest, again
<1>5. IsFiniteSet(rest)
  BY <1>1, FS_Subset
<1>6. Cardinality(rest \ {k}) = Cardinality(rest) - 1
  BY <1>1, <1>5, FS_RemoveElement
<1>7. Cardinality(keys \ (got \cup {k})) = Cardinality(rest) - 1
  <2> DEFINE fewer == keys \ (got \cup {k})
  <2>1. fewer = rest \ {k}
    BY <1>1
  <2> HIDE DEF fewer
  <2>2. Cardinality(fewer) = Cardinality(rest) - 1
    BY <1>6, <2>1
  <2> QED BY <2>2 DEF fewer
<1> QED BY <1>2, <1>3, <1>4, <1>7

LEMMA TodoOfNothing == \A got, t, seen : Todo({}, got, t, seen) = 0
<1> TAKE got, t, seen
<1>1. {} \ got = {} /\ ~Stale({}, t, seen)
  BY DEF Stale
<1> QED BY <1>1, FS_EmptySet DEF Todo

(* StepsLeft as a function of what it depends on. *)
Left(phase, length, done, sent, merge) ==
    CASE phase = "configured" -> 5 + 4 * length
      [] phase = "ready" -> 4 + length + 3 * (length - done)
      [] phase = "inserting" -> 5 + length + 3 * (length - done - sent) + sent
      [] phase = "merging" -> 3 + merge
      [] phase = "committing" -> 2
      [] phase = "failed" -> 1
      [] OTHER -> 0

LEMMA LeftValues ==
    ASSUME NEW length, NEW done, NEW sent, NEW merge
    PROVE  /\ Left("configured", length, done, sent, merge) = 5 + 4 * length
           /\ Left("ready", length, done, sent, merge) = 4 + length + 3 * (length - done)
           /\ Left("inserting", length, done, sent, merge)
                = 5 + length + 3 * (length - done - sent) + sent
           /\ Left("merging", length, done, sent, merge) = 3 + merge
           /\ Left("committing", length, done, sent, merge) = 2
           /\ Left("failed", length, done, sent, merge) = 1
           /\ Left("cancelled", length, done, sent, merge) = 0
           /\ Left("done", length, done, sent, merge) = 0
           /\ Left("off", length, done, sent, merge) = 0
BY DEF Left

(* Before the MERGE there is more to do than to lock its keys, and end it. *)
LEMMA LeftBefore ==
    ASSUME NEW length \in Nat, NEW done \in Nat, NEW sent \in Nat, NEW merge,
           done + sent <= length
    PROVE  /\ Left("ready", length, done, sent, merge) > 3 + length
           /\ Left("inserting", length, done, sent, merge) > 3 + length
BY LeftValues

(* A batch that is sent, and a row of it that is executed. *)
LEMMA BatchCounts ==
    ASSUME NEW length \in Nat, NEW done \in Nat, NEW sent \in Nat,
           sent > 0, done + sent <= length
    PROVE  /\ 5 + length + 3 * (length - done - sent) + sent
                < 4 + length + 3 * (length - done)
           /\ 5 + length + 3 * (length - (done + 1) - (sent - 1)) + (sent - 1)
                < 5 + length + 3 * (length - done - sent) + sent
OBVIOUS

LEMMA LeftType ==
    ASSUME NEW phase \in Calls, NEW length \in Nat, NEW done \in Nat, NEW sent \in Nat,
           NEW merge, phase = "merging" => merge \in Nat, done + sent <= length
    PROVE  Left(phase, length, done, sent, merge) \in Nat
<1>1. CASE phase = "merging"
  BY <1>1, LeftValues
<1>2. CASE phase # "merging"
  BY <1>2 DEF Left, Calls
<1> QED BY <1>1, <1>2

LEMMA StepsLeftIs ==
    /\ \A l : StepsLeft(l) = Left(pc[l], Len(Input[l]), pos[l], left[l], MergeSteps(l))
    /\ \A l : StepsLeft(l)' = Left(pc'[l], Len(Input[l]), pos'[l], left'[l], MergeSteps(l)')
    /\ \A l : MergeSteps(l) =
                Todo(KeysIn(staging[l]), locks[l] \cup wants[l], table, snapshot[l])
    /\ \A l : MergeSteps(l)' =
                Todo(KeysIn(staging'[l]), locks'[l] \cup wants'[l], table', snapshot'[l])
BY DEF StepsLeft, Left, MergeSteps, ToMerge, Todo, Stale

(* What is staged in a MERGE are at most the rows of the input. *)
LEMMA StagedKeys ==
    ASSUME TypeOK, TxnIsInputPrefix, NEW l \in Loaders, pc[l] = "merging"
    PROVE  /\ IsFiniteSet(KeysIn(staging[l]))
           /\ Cardinality(KeysIn(staging[l])) <= Len(Input[l])
<1>1. /\ pos[l] \in Nat /\ pos[l] <= Len(Input[l]) /\ Len(Input[l]) \in Nat
  BY InputLength DEF TypeOK
<1>2. staging[l] \in {NoRows, FirstRows(Input[l], pos[l])}
  BY DEF TxnIsInputPrefix, TypeOK
<1>3. /\ IsFiniteSet(KeysIn(staging[l]))
      /\ Cardinality(KeysIn(staging[l])) <= pos[l]
  BY <1>1, <1>2, PrefixKeys
<1>4. Cardinality(KeysIn(staging[l])) \in Nat
  BY <1>3, FS_CardinalityType
<1> QED BY <1>1, <1>3, <1>4

LEMMA StagedKeysNext ==
    ASSUME TypeOK, TxnIsInputPrefix, ProcessInv, [Next]_vars,
           NEW l \in Loaders, pc'[l] = "merging"
    PROVE  /\ IsFiniteSet(KeysIn(staging'[l]))
           /\ Cardinality(KeysIn(staging'[l])) <= Len(Input[l])
<1>1. TypeOK' /\ TxnIsInputPrefix'
  BY TypeStep, PrefixStep
<1>2. /\ pos'[l] \in Nat /\ pos'[l] <= Len(Input[l]) /\ Len(Input[l]) \in Nat
  BY <1>1, InputLength DEF TypeOK
<1>3. staging'[l] \in {NoRows, FirstRows(Input[l], pos'[l])}
  BY <1>1 DEF TxnIsInputPrefix, TypeOK
<1>4. /\ IsFiniteSet(KeysIn(staging'[l]))
      /\ Cardinality(KeysIn(staging'[l])) <= pos'[l]
  BY <1>2, <1>3, PrefixKeys
<1>5. Cardinality(KeysIn(staging'[l])) \in Nat
  BY <1>4, FS_CardinalityType
<1> QED BY <1>2, <1>4, <1>5

LEMMA StepsLeftType ==
    ASSUME TypeOK, TxnIsInputPrefix, ProcessInv, [Next]_vars, NEW l \in Loaders
    PROVE  /\ StepsLeft(l) \in Nat /\ StepsLeft(l)' \in Nat
           /\ pc[l] \in Calls /\ pos[l] \in Nat /\ left[l] \in Nat
           /\ Len(Input[l]) \in Nat /\ pos[l] + left[l] <= Len(Input[l])
<1>1. /\ pc[l] \in Calls /\ pos[l] \in Nat /\ left[l] \in Nat
      /\ Len(Input[l]) \in Nat /\ pos[l] + left[l] <= Len(Input[l])
  BY InputLength DEF TypeOK
<1>2. TypeOK'
  BY TypeStep
<1>3. /\ pc'[l] \in Calls /\ pos'[l] \in Nat /\ left'[l] \in Nat
      /\ pos'[l] + left'[l] <= Len(Input[l])
  BY <1>2 DEF TypeOK
<1>4. pc[l] = "merging" => MergeSteps(l) \in Nat
  BY StagedKeys, StepsLeftIs, TodoValues
<1>5. pc'[l] = "merging" => MergeSteps(l)' \in Nat
  BY StagedKeysNext, StepsLeftIs, TodoValues
<1>6. StepsLeft(l) \in Nat
  BY <1>1, <1>4, LeftType, StepsLeftIs
<1>7. StepsLeft(l)' \in Nat
  BY <1>1, <1>3, <1>5, LeftType, StepsLeftIs
<1> QED BY <1>1, <1>6, <1>7

(* The steps of one load, and what they leave of its work. *)
LEMMA MergeStepsFall ==
    ASSUME TypeOK, LoadInv, [Next]_vars, NEW l \in Loaders,
           MergeLocks(l) \/ MergeRestarts(l)
    PROVE  StepsLeft(l)' < StepsLeft(l)
<1> DEFINE keys == KeysIn(staging[l])
<1>1. /\ UNCHANGED <<pc, pos, left, staging, table>>
      /\ pc[l] = "merging" /\ conn[l] = "open"
  BY DEF MergeLocks, MergeRestarts, Merging, pluginVars
<1>2. IsFiniteSet(keys)
  BY <1>1, StagedKeys DEF LoadInv
<1>3. snapshot[l] \in Tables /\ staging[l] \in Tables
  BY DEF TypeOK
<1>4. wants[l] \subseteq keys /\ KeysToLock(l) \subseteq keys
  BY <1>1, <1>3, MergeKeys DEF LoadInv, LockedAsRead, KeysToLock
<1>5. /\ MergeSteps(l) = Todo(keys, locks[l] \cup wants[l], table, snapshot[l])
      /\ MergeSteps(l)' = Todo(keys, locks'[l] \cup wants'[l], table, snapshot'[l])
  BY <1>1, StepsLeftIs
<1>6. StepsLeft(l) = 3 + MergeSteps(l) /\ StepsLeft(l)' = 3 + MergeSteps(l)'
  BY <1>1, StepsLeftIs, LeftValues
<1> HIDE DEF keys
<1>7. MergeSteps(l) \in Nat /\ MergeSteps(l)' \in Nat
  <2>1. Todo(keys, locks[l] \cup wants[l], table, snapshot[l]) \in Nat
    BY <1>2, TodoValues
  <2>2. Todo(keys, locks'[l] \cup wants'[l], table, snapshot'[l]) \in Nat
    BY <1>2, TodoValues
  <2> QED BY <1>5, <2>1, <2>2
<1>8. CASE MergeLocks(l)
  <2>1. PICK k \in KeysToLock(l) \ (locks[l] \cup wants[l]) :
            /\ locks' = [locks EXCEPT ![l] = @ \cup wants[l]]
            /\ wants' = [wants EXCEPT ![l] = {k}]
    BY <1>8 DEF MergeLocks
  <2>2. k \in keys \ (locks[l] \cup wants[l])
    BY <1>4, <2>1
  <2>3. locks'[l] \cup wants'[l] = (locks[l] \cup wants[l]) \cup {k}
    BY <2>1 DEF TypeOK
  <2>4. snapshot'[l] = snapshot[l]
    BY <1>8 DEF MergeLocks
  <2>5. MergeSteps(l)' < MergeSteps(l)
    BY <1>2, <1>5, <2>2, <2>3, <2>4, TodoFalls
  <2> QED BY <1>6, <1>7, <2>5
<1>9. CASE MergeRestarts(l)
  <2>1. snapshot'[l] = table /\ locks'[l] \cup wants'[l] = {}
    BY <1>9 DEF MergeRestarts, TypeOK
  <2>2. Stale(keys, table, snapshot[l])
    BY <1>4, <1>9 DEF MergeRestarts, Changing, Stale
  <2>3. MergeSteps(l)' = Cardinality(keys) /\ MergeSteps(l) > Cardinality(keys)
    BY <1>2, <1>5, <2>1, <2>2, TodoValues
  <2> QED BY <1>6, <1>7, <2>3
<1> QED BY <1>8, <1>9

LEMMA OwnStep ==
    ASSUME TypeOK, LoadInv, [Next]_vars, NEW l \in Loaders,
           \/ Prepare(l) \/ InsertRow(l) \/ BatchWritten(l)
           \/ \E n \in 1..Len(Input[l]) : WriteBatch(l, n)
           \/ Finalize(l) \/ MergeLocks(l) \/ MergeRestarts(l) \/ MergeEnds(l)
           \/ Commit(l) \/ (pc[l] = "failed" /\ Cancel(l))
           \/ WriteBatchFails(l) \/ DmlFails(l) \/ MergeFails(l) \/ CommitFails(l)
    PROVE  StepsLeft(l)' < StepsLeft(l)
<1>a. /\ pc[l] \in Calls /\ pos[l] \in Nat /\ left[l] \in Nat
      /\ Len(Input[l]) \in Nat /\ pos[l] + left[l] <= Len(Input[l])
      /\ StepsLeft(l) \in Nat /\ StepsLeft(l)' \in Nat
  BY StepsLeftType DEF LoadInv
<1>b. /\ pc \in [Loaders -> Calls] /\ pos \in [Loaders -> Nat] /\ left \in [Loaders -> Nat]
  BY DEF TypeOK
<1>c. StepsLeft(l) = Left(pc[l], Len(Input[l]), pos[l], left[l], MergeSteps(l))
  BY StepsLeftIs
<1>d. StepsLeft(l)' = Left(pc'[l], Len(Input[l]), pos'[l], left'[l], MergeSteps(l)')
  BY StepsLeftIs
<1>1. CASE Prepare(l)
  <2>1. /\ pc[l] = "configured" /\ pc'[l] = "ready" /\ pos'[l] = pos[l]
    BY <1>1, <1>b DEF Prepare
  <2>2. /\ StepsLeft(l) = 5 + 4 * Len(Input[l])
        /\ StepsLeft(l)' = 4 + Len(Input[l]) + 3 * (Len(Input[l]) - pos[l])
    BY <1>c, <1>d, <2>1, LeftValues
  <2> QED BY <1>a, <2>2
<1>2. CASE InsertRow(l)
  <2>1. /\ pc[l] = "inserting" /\ pc'[l] = "inserting" /\ left[l] > 0
        /\ pos'[l] = pos[l] + 1 /\ left'[l] = left[l] - 1
    BY <1>2, <1>b DEF InsertRow
  <2>2. StepsLeft(l) =
          5 + Len(Input[l]) + 3 * (Len(Input[l]) - pos[l] - left[l]) + left[l]
    BY <1>c, <2>1, LeftValues
  <2>3. StepsLeft(l)' =
          5 + Len(Input[l])
            + 3 * (Len(Input[l]) - (pos[l] + 1) - (left[l] - 1)) + (left[l] - 1)
    BY <1>d, <2>1, LeftValues
  <2> QED BY <1>a, <2>1, <2>2, <2>3, BatchCounts
<1>3. CASE BatchWritten(l)
  <2>1. /\ pc[l] = "inserting" /\ pc'[l] = "ready"
        /\ left[l] = 0 /\ pos'[l] = pos[l]
    BY <1>3, <1>b DEF BatchWritten
  <2>2. StepsLeft(l) =
          5 + Len(Input[l]) + 3 * (Len(Input[l]) - pos[l] - left[l]) + left[l]
    BY <1>c, <2>1, LeftValues
  <2>3. StepsLeft(l)' = 4 + Len(Input[l]) + 3 * (Len(Input[l]) - pos'[l])
    BY <1>d, <2>1, LeftValues
  <2> QED BY <1>a, <2>1, <2>2, <2>3
<1>4. ASSUME NEW n \in 1..Len(Input[l]), WriteBatch(l, n)
      PROVE  StepsLeft(l)' < StepsLeft(l)
  <2>1. /\ pc[l] = "ready" /\ pc'[l] = "inserting"
        /\ n \in 0..(Len(Input[l]) - pos[l]) /\ left'[l] = n /\ pos'[l] = pos[l]
    BY <1>4, <1>a, <1>b DEF WriteBatch, ArrayDml
  <2>2. StepsLeft(l) = 4 + Len(Input[l]) + 3 * (Len(Input[l]) - pos[l])
    BY <1>c, <2>1, LeftValues
  <2>3. StepsLeft(l)' =
          5 + Len(Input[l]) + 3 * (Len(Input[l]) - pos[l] - n) + n
    BY <1>d, <2>1, LeftValues
  <2>4. n \in Nat /\ n > 0 /\ pos[l] + n <= Len(Input[l])
    BY <1>a, <2>1
  <2> QED BY <1>a, <2>2, <2>3, <2>4, BatchCounts
<1>5. CASE Finalize(l) /\ mergeSql[l]
  <2>1. /\ pc[l] = "ready" /\ pc'[l] = "merging"
        /\ table' = table /\ snapshot'[l] = table
        /\ UNCHANGED <<locks, wants>> /\ locks[l] = {} /\ wants[l] = {}
    BY <1>5, FinalizeHolds DEF LoadInv, TxnIsInputPrefix
  <2>2. /\ IsFiniteSet(KeysIn(staging'[l]))
        /\ Cardinality(KeysIn(staging'[l])) <= Len(Input[l])
    BY <2>1, StagedKeysNext DEF LoadInv
  <2>3. MergeSteps(l)' = Todo(KeysIn(staging'[l]), {}, table, table)
    BY <2>1, StepsLeftIs
  <2>4. MergeSteps(l)' <= Len(Input[l]) /\ MergeSteps(l)' \in Nat
    BY <2>2, <2>3, TodoValues
  <2>5. StepsLeft(l)' = 3 + MergeSteps(l)'
    BY <1>d, <2>1, LeftValues
  <2>6. StepsLeft(l) > 3 + Len(Input[l])
    BY <1>a, <1>c, <2>1, LeftBefore
  <2> QED BY <1>a, <2>4, <2>5, <2>6
<1>6. CASE \/ Finalize(l) /\ ~mergeSql[l]
           \/ WriteBatchFails(l) \/ DmlFails(l)
  <2>1. pc[l] \in {"ready", "inserting"} /\ pc'[l] \in {"committing", "failed"}
    BY <1>6, <1>b DEF Finalize, WriteBatchFails, DmlFails
  <2>2. StepsLeft(l)' \in {1, 2}
    BY <1>d, <2>1, LeftValues
  <2>3. StepsLeft(l) > 3 + Len(Input[l])
    BY <1>a, <1>c, <2>1, LeftBefore
  <2> QED BY <1>a, <2>2, <2>3
<1>7. CASE MergeEnds(l) \/ MergeFails(l)
  <2>1. pc[l] = "merging" /\ pc'[l] \in {"committing", "failed"}
    BY <1>7, <1>b DEF MergeEnds, Merging, MergeFails
  <2>2. StepsLeft(l)' \in {1, 2}
    BY <1>d, <2>1, LeftValues
  <2>3. MergeSteps(l) \in Nat
    BY <2>1, StagedKeys, StepsLeftIs, TodoValues DEF LoadInv
  <2>4. StepsLeft(l) = 3 + MergeSteps(l)
    BY <1>c, <2>1, LeftValues
  <2> QED BY <2>2, <2>3, <2>4
<1>8. CASE Commit(l) \/ CommitFails(l) \/ (pc[l] = "failed" /\ Cancel(l))
  <2>1. \/ pc[l] = "committing" /\ pc'[l] \in {"done", "failed"}
        \/ pc[l] = "failed" /\ pc'[l] = "cancelled"
    BY <1>8, <1>b DEF Commit, CommitFails, Cancel
  <2> QED BY <1>c, <1>d, <2>1, LeftValues
<1> QED BY <1>1, <1>2, <1>3, <1>4, <1>5, <1>6, <1>7, <1>8, MergeStepsFall

LEMMA ProgressShrinks ==
    ASSUME TypeOK, LoadInv, [Next]_vars, NEW l \in Loaders, Progress(l)
    PROVE  StepsLeft(l)' < StepsLeft(l)
BY OwnStep DEF Progress

(* The same step changes nothing of another load, and the table only as a  *)
(* commit.                                                                 *)
LEMMA OthersUntouched ==
    ASSUME TypeOK, NEW l \in Loaders, NEW m \in Loaders \ {l},
           \/ Configure(l) \/ Prepare(l) \/ InsertRow(l) \/ BatchWritten(l)
           \/ \E n \in 0..Len(Input[l]) : WriteBatch(l, n)
           \/ Finalize(l) \/ MergeLocks(l) \/ MergeRestarts(l) \/ MergeEnds(l)
           \/ Commit(l) \/ Cancel(l)
           \/ PrepareFails(l) \/ WriteBatchFails(l) \/ DmlFails(l)
           \/ MergeFails(l) \/ CommitFails(l) \/ CommitAnswerLost(l)
           \/ SessionLost(l) \/ Gone(l)
    PROVE  \/ StepsLeft(m)' = StepsLeft(m)
           \/ pc[m] = "merging" /\ commits'[l] > commits[l]
<1> USE DEF mergeVars
<1>1. /\ pc'[m] = pc[m] /\ pos'[m] = pos[m] /\ left'[m] = left[m]
      /\ staging'[m] = staging[m] /\ snapshot'[m] = snapshot[m]
      /\ locks'[m] = locks[m] /\ wants'[m] = wants[m]
  <2> USE DEF TypeOK, sessionVars, pluginVars
  <2>1. CASE Configure(l) \/ Prepare(l) \/ BatchWritten(l)
    BY <2>1 DEF Configure, Prepare, BatchWritten
  <2>2. ASSUME NEW n \in 0..Len(Input[l]), WriteBatch(l, n)
        PROVE  /\ pc'[m] = pc[m] /\ pos'[m] = pos[m] /\ left'[m] = left[m]
               /\ UNCHANGED sessionVars
    BY <2>2 DEF WriteBatch, ArrayDml
  <2>3. CASE InsertRow(l)
    BY <2>3 DEF InsertRow
  <2>4. CASE Finalize(l) \/ MergeLocks(l) \/ MergeRestarts(l)
    BY <2>4 DEF Finalize, MergeLocks, MergeRestarts
  <2>5. CASE MergeEnds(l) \/ MergeFails(l)
    BY <2>5 DEF MergeEnds, MergeFails, NoMerge
  <2>6. CASE PrepareFails(l) \/ WriteBatchFails(l) \/ DmlFails(l) \/ CommitFails(l)
    BY <2>6 DEF PrepareFails, WriteBatchFails, DmlFails, CommitFails
  <2>7. CASE \/ Commit(l) \/ CommitAnswerLost(l) \/ Cancel(l)
             \/ SessionLost(l) \/ Gone(l)
    <3>1. pc'[m] = pc[m] /\ pos'[m] = pos[m] /\ left'[m] = left[m]
      BY <2>7 DEF Commit, CommitAnswerLost, Cancel, SessionLost, Gone
    <3>2. TransactionEnds(l) \/ UNCHANGED sessionVars
      BY <2>7 DEF Commit, CommitAnswerLost, Cancel, SessionLost, Gone, Committed
    <3> QED BY <3>1, <3>2 DEF TransactionEnds, NoMerge
  <2> QED BY <2>1, <2>2, <2>3, <2>4, <2>5, <2>6, <2>7
<1>2. table' = table \/ commits'[l] > commits[l]
  <2>1. CASE Commit(l) \/ CommitAnswerLost(l)
    BY <2>1 DEF Commit, CommitAnswerLost, Committed, TypeOK
  <2>2. CASE ~(Commit(l) \/ CommitAnswerLost(l))
    BY <2>2 DEF Configure, Prepare, InsertRow, BatchWritten, WriteBatch, Finalize,
                MergeLocks, MergeRestarts, MergeEnds, Cancel, PrepareFails,
                WriteBatchFails, DmlFails, MergeFails, CommitFails, SessionLost, Gone
  <2> QED BY <2>1, <2>2
<1>3. CASE pc[m] = "merging" /\ commits'[l] > commits[l]
  BY <1>3
<1>4. CASE table' = table
  <2>1. MergeSteps(m)' = MergeSteps(m)
    BY <1>1, <1>4, StepsLeftIs
  <2> QED BY <1>1, <2>1, StepsLeftIs
<1>5. CASE pc[m] # "merging"
  <2>1. \A a, b : Left(pc[m], Len(Input[m]), pos[m], left[m], a)
                    = Left(pc[m], Len(Input[m]), pos[m], left[m], b)
    BY <1>5 DEF Left
  <2> QED BY <1>1, <2>1, StepsLeftIs
<1> QED BY <1>2, <1>3, <1>4, <1>5

(* Of its own steps only Configure gives a load more to do, and of the     *)
(* steps of others only a commit before its MERGE.                         *)
LEMMA NeverMore ==
    ASSUME TypeOK, LoadInv, [Next]_vars, NEW m \in Loaders, pc[m] # "off"
    PROVE  \/ StepsLeft(m)' <= StepsLeft(m)
           \/ pc[m] = "merging" /\ \E o \in Loaders \ {m} : commits'[o] > commits[o]
<1>0. /\ StepsLeft(m) \in Nat /\ StepsLeft(m)' \in Nat
      /\ pc[m] \in Calls /\ pos[m] \in Nat /\ left[m] \in Nat
      /\ Len(Input[m]) \in Nat /\ pos[m] + left[m] <= Len(Input[m])
  BY StepsLeftType DEF LoadInv
<1>1. CASE UNCHANGED vars \/ AlterTarget
  <2>1. UNCHANGED <<pc, pos, left, staging, snapshot, locks, wants, table>>
    BY <1>1 DEF vars, AlterTarget, pluginVars, sessionVars, mergeVars
  <2>2. MergeSteps(m)' = MergeSteps(m)
    BY <2>1, StepsLeftIs
  <2>3. StepsLeft(m)' = StepsLeft(m)
    BY <2>1, <2>2, StepsLeftIs
  <2> QED BY <1>0, <2>3
<1>2. ASSUME \/ Configure(m) \/ WriteBatch(m, 0) \/ Cancel(m) \/ PrepareFails(m)
             \/ CommitAnswerLost(m) \/ Gone(m)
      PROVE  StepsLeft(m)' <= StepsLeft(m)
  <2>1. \/ pc[m] = "ready" /\ pc'[m] = "ready" /\ pos'[m] = pos[m]
        \/ pc[m] = "configured" /\ pc'[m] = "failed"
        \/ pc[m] = "committing" /\ pc'[m] = "failed"
        \/ pc'[m] \in {"cancelled", "off"}
    BY <1>2
    DEF Configure, WriteBatch, ArrayDml, Cancel, PrepareFails, CommitAnswerLost,
        Gone, TypeOK
  <2>2. CASE pc[m] = "ready" /\ pc'[m] = "ready" /\ pos'[m] = pos[m]
    <3>1. StepsLeft(m)' = StepsLeft(m)
      BY <2>2, StepsLeftIs, LeftValues
    <3> QED BY <1>0, <3>1
  <2>3. CASE pc[m] = "configured" /\ pc'[m] = "failed"
    <3>1. StepsLeft(m)' = 1
      BY <2>3, StepsLeftIs, LeftValues
    <3>2. StepsLeft(m) = 5 + 4 * Len(Input[m])
      BY <2>3, StepsLeftIs, LeftValues
    <3> QED BY <1>0, <3>1, <3>2
  <2>4. CASE pc[m] = "committing" /\ pc'[m] = "failed"
    <3>1. StepsLeft(m)' = 1 /\ StepsLeft(m) = 2
      BY <2>4, StepsLeftIs, LeftValues
    <3> QED BY <3>1
  <2>5. CASE pc'[m] \in {"cancelled", "off"}
    <3>1. StepsLeft(m)' = 0
      BY <2>5, StepsLeftIs, LeftValues
    <3> QED BY <1>0, <3>1
  <2> QED BY <2>1, <2>2, <2>3, <2>4, <2>5
<1>3. ASSUME SessionLost(m) PROVE StepsLeft(m)' <= StepsLeft(m)
  <2>1. /\ UNCHANGED <<pc, pos, left>> /\ staging'[m] = NoRows
    BY <1>3 DEF SessionLost, TransactionEnds, TypeOK
  <2>2. MergeSteps(m)' = 0
    BY <2>1, NoRowsKeys, TodoOfNothing, StepsLeftIs
  <2>3. CASE pc[m] = "merging"
    <3>1. MergeSteps(m) \in Nat
      BY <2>3, StagedKeys, StepsLeftIs, TodoValues DEF LoadInv
    <3>2. StepsLeft(m) = 3 + MergeSteps(m) /\ StepsLeft(m)' = 3
      BY <2>1, <2>2, <2>3, StepsLeftIs, LeftValues
    <3> QED BY <3>1, <3>2
  <2>4. CASE pc[m] # "merging"
    <3>1. \A a, b : Left(pc[m], Len(Input[m]), pos[m], left[m], a)
                      = Left(pc[m], Len(Input[m]), pos[m], left[m], b)
      BY <2>4 DEF Left
    <3>2. StepsLeft(m)' = StepsLeft(m)
      BY <2>1, <3>1, StepsLeftIs
    <3> QED BY <1>0, <3>2
  <2> QED BY <2>3, <2>4
<1>4. ASSUME \/ Prepare(m) \/ InsertRow(m) \/ BatchWritten(m)
             \/ \E n \in 1..Len(Input[m]) : WriteBatch(m, n)
             \/ Finalize(m) \/ MergeLocks(m) \/ MergeRestarts(m) \/ MergeEnds(m)
             \/ Commit(m)
             \/ WriteBatchFails(m) \/ DmlFails(m) \/ MergeFails(m) \/ CommitFails(m)
      PROVE  StepsLeft(m)' <= StepsLeft(m)
  <2>1. StepsLeft(m)' < StepsLeft(m)
    BY <1>4, OwnStep
  <2> QED BY <1>0, <2>1
<1>5. \A n \in 0..Len(Input[m]) : n = 0 \/ n \in 1..Len(Input[m])
  BY <1>0
<1>6. ASSUME NEW l \in Loaders \ {m},
             \/ Configure(l) \/ Prepare(l) \/ InsertRow(l) \/ BatchWritten(l)
             \/ \E n \in 0..Len(Input[l]) : WriteBatch(l, n)
             \/ Finalize(l) \/ MergeLocks(l) \/ MergeRestarts(l) \/ MergeEnds(l)
             \/ Commit(l) \/ Cancel(l)
             \/ PrepareFails(l) \/ WriteBatchFails(l) \/ DmlFails(l)
             \/ MergeFails(l) \/ CommitFails(l) \/ CommitAnswerLost(l)
             \/ SessionLost(l) \/ Gone(l)
      PROVE  \/ StepsLeft(m)' <= StepsLeft(m)
             \/ pc[m] = "merging" /\ \E o \in Loaders \ {m} : commits'[o] > commits[o]
  <2>1. \/ StepsLeft(m)' = StepsLeft(m)
        \/ pc[m] = "merging" /\ commits'[l] > commits[l]
    BY <1>6, OthersUntouched
  <2>2. StepsLeft(m)' = StepsLeft(m) => StepsLeft(m)' <= StepsLeft(m)
    BY <1>0
  <2> QED BY <2>1, <2>2
<1> QED BY NextCases, <1>1, <1>2, <1>3, <1>4, <1>5, <1>6

(* A load that is started has at most 5 + 4 * Len(Input) steps before it,  *)
(* empty batches apart, and neither faults nor other loads make it more,   *)
(* but that its MERGE starts again where another load commits before it.   *)
THEOREM LessToDo == Spec => WorkShrinks
<1>1. TypeOK /\ LoadInv /\ [Next]_vars =>
        [\A l \in Loaders :
            /\ Progress(l) => StepsLeft(l)' < StepsLeft(l)
            /\ StepsLeft(l)' > StepsLeft(l) =>
                \/ pc[l] = "off"
                \/ pc[l] = "merging" /\ \E o \in Loaders \ {l} : commits'[o] > commits[o]
          ]_vars
  <2> SUFFICES ASSUME TypeOK, LoadInv, [Next]_vars, NEW l \in Loaders
               PROVE  /\ Progress(l) => StepsLeft(l)' < StepsLeft(l)
                      /\ StepsLeft(l)' > StepsLeft(l) =>
                            \/ pc[l] = "off"
                            \/ /\ pc[l] = "merging"
                               /\ \E o \in Loaders \ {l} : commits'[o] > commits[o]
    OBVIOUS
  <2>1. StepsLeft(l) \in Nat /\ StepsLeft(l)' \in Nat
    BY StepsLeftType DEF LoadInv
  <2>2. Progress(l) => StepsLeft(l)' < StepsLeft(l)
    BY ProgressShrinks
  <2>3. pc[l] # "off" =>
            \/ ~(StepsLeft(l)' > StepsLeft(l))
            \/ pc[l] = "merging" /\ \E o \in Loaders \ {l} : commits'[o] > commits[o]
    BY <2>1, NeverMore
  <2> QED BY <2>2, <2>3
<1> QED BY <1>1, LoadInvariant, PTL DEF Spec, WorkShrinks

=============================================================================
