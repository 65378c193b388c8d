-------------------------- MODULE PipelineProofs --------------------------
(***************************************************************************)
(* Proofs about Pipeline, for every number of rows, versions, runs and     *)
(* faults: what holds also when destinations outlive their engines, in     *)
(* either mode and then of staged loads; what staged loads promise when    *)
(* none does; and the copies that CommitMode::Atomic leaves in the target. *)
(***************************************************************************)
EXTENDS Pipeline, WatermarkProofs

---------------------------------------------------------------------------
(* A load in which no row comes twice. *)

LEMMA LoadCounts ==
    ASSUME NEW s, NEW n \in Nat, NEW r \in 1..MaxRows,
           \A j, k \in 1..n : s[j] = s[k] => j = k
    PROVE  Target!FirstRows(s, n)[r] = IF \E k \in 1..n : s[k] = r THEN 1 ELSE 0
<1> DEFINE At == {k \in 1..n : s[k] = r}
<1>1. Target!FirstRows(s, n)[r] = Cardinality(At)
  BY DEF Target!FirstRows, Target!Cardinality, Cardinality
<1>2. CASE \E k \in 1..n : s[k] = r
  <2>1. PICK k \in 1..n : s[k] = r
    BY <1>2
  <2>2. At = {k}
    BY <2>1
  <2>3. Cardinality({k}) = 1
    BY FS_Singleton
  <2> QED
    BY <1>1, <1>2, <2>2, <2>3
<1>3. CASE ~\E k \in 1..n : s[k] = r
  <2>1. At = {}
    BY <1>3
  <2>2. Cardinality({}) = 0
    BY FS_EmptySet
  <2> QED
    BY <1>1, <1>3, <2>1, <2>2
<1> QED
  BY <1>2, <1>3

RowsOf(s) == {s[k] : k \in DOMAIN s}

(* No two versions of one row are in s. *)
OneVersionEach(s) == \A j, k \in DOMAIN s : SameRow(s[j], s[k]) => j = k

LEMMA LoadHolds ==
    ASSUME DOMAIN source \subseteq 1..MaxRows,
           NEW s \in Seq(DOMAIN source), OneVersionEach(s)
    PROVE  /\ RowsOf(s) \subseteq DOMAIN source /\ RowsOf(s) \subseteq 1..MaxRows
           /\ \A r \in 1..MaxRows : LoadOf(s)[r] = IF r \in RowsOf(s) THEN 1 ELSE 0
           /\ \A h, g \in RowsOf(s) : SameRow(h, g) => h = g
<1>1. /\ Len(s) \in Nat /\ DOMAIN s = 1..Len(s)
      /\ \A k \in DOMAIN s : s[k] \in DOMAIN source
  BY LenProperties, ElementOfSeq
<1>2. \A j, k \in 1..Len(s) : s[j] = s[k] => j = k
  BY <1>1 DEF OneVersionEach, SameRow
<1>3. ASSUME NEW r \in 1..MaxRows
      PROVE  LoadOf(s)[r] = IF r \in RowsOf(s) THEN 1 ELSE 0
  <2>1. Target!FirstRows(s, Len(s))[r] = IF \E k \in 1..Len(s) : s[k] = r THEN 1 ELSE 0
    BY <1>1, <1>2, LoadCounts
  <2>2. r \in RowsOf(s) <=> \E k \in 1..Len(s) : s[k] = r
    BY <1>1 DEF RowsOf
  <2> QED
    BY <2>1, <2>2 DEF LoadOf
<1> QED
  BY <1>1, <1>3 DEF RowsOf, OneVersionEach

(* The keys of a load are those of its rows. *)
LEMMA KeysOfLoad ==
    ASSUME NEW load, NEW S \in SUBSET (1..MaxRows),
           \A r \in 1..MaxRows : load[r] = IF r \in S THEN 1 ELSE 0
    PROVE  Target!KeysIn(load) = {RowKey[i] : i \in S}
<1>1. \A r \in 1..MaxRows : load[r] > 0 <=> r \in S
  OBVIOUS
<1>2. \A r \in 1..MaxRows : KeyOfVersion[r] = RowKey[r] /\ RowKey[r] # NullCursor
  BY KeyAssumption DEF KeyOfVersion
<1> QED
  BY <1>1, <1>2 DEF Target!KeysIn

(* A MERGE of one version each of some rows puts these in place of what    *)
(* the table had of the rows, and leaves the others alone.                 *)
Replaced(t, S) ==
    [r \in 1..MaxRows |-> (IF \E h \in S : SameRow(h, r) THEN 0 ELSE t[r])
                             + (IF r \in S THEN 1 ELSE 0)]

LEMMA MergeReplaces ==
    ASSUME NEW t, \A r \in 1..MaxRows : t[r] \in Nat,
           NEW load, NEW S \in SUBSET (1..MaxRows),
           \A r \in 1..MaxRows : load[r] = IF r \in S THEN 1 ELSE 0
    PROVE  Target!MergeEffect(t, load) = Replaced(t, S)
<1>1. Target!UpdatesMatched
  BY DEF Target!UpdatesMatched
<1>2. Target!KeysIn(load) = {RowKey[i] : i \in S}
  BY KeysOfLoad
<1>3. ASSUME NEW r \in 1..MaxRows
      PROVE  r \in Target!MergeRemoves(t, load) <=>
                t[r] > 0 /\ \E h \in S : SameRow(h, r)
  <2>1. KeyOfVersion[r] = RowKey[r] /\ RowKey[r] # NullCursor
    BY KeyAssumption DEF KeyOfVersion
  <2>2. RowKey[r] \in Target!KeysIn(load) <=> \E h \in S : SameRow(h, r)
    BY <1>2 DEF SameRow
  <2>3. t[r] > 0 => RowKey[r] \in Target!KeysIn(t)
    BY <2>1 DEF Target!KeysIn
  <2> QED
    BY <1>1, <2>1, <2>2, <2>3 DEF Target!MergeRemoves, Target!Matched
<1>4. \A r \in 1..MaxRows : Target!MergeAdds(t, load)[r] = load[r]
  BY <1>1 DEF Target!MergeAdds
<1>5. ASSUME NEW r \in 1..MaxRows
      PROVE  (IF r \in Target!MergeRemoves(t, load) THEN 0 ELSE t[r])
                = IF \E h \in S : SameRow(h, r) THEN 0 ELSE t[r]
  BY <1>3
<1>6. /\ Target!MergeEffect(t, load) =
            [r \in 1..MaxRows |-> Target!MergeEffect(t, load)[r]]
      /\ \A r \in 1..MaxRows :
            Target!MergeEffect(t, load)[r] =
                (IF r \in Target!MergeRemoves(t, load) THEN 0 ELSE t[r])
                    + Target!MergeAdds(t, load)[r]
  BY DEF Target!MergeEffect, Target!Changed
<1>7. \A r \in 1..MaxRows :
        Target!MergeEffect(t, load)[r] =
            (IF \E h \in S : SameRow(h, r) THEN 0 ELSE t[r]) + (IF r \in S THEN 1 ELSE 0)
  BY <1>4, <1>5, <1>6
<1> QED
  BY <1>6, <1>7 DEF Replaced

(* And Oracle does not refuse it. *)
LEMMA MergeIsAccepted ==
    ASSUME NEW t, NEW load, NEW S \in SUBSET (1..MaxRows),
           \A r \in 1..MaxRows : load[r] = IF r \in S THEN 1 ELSE 0,
           \A h, g \in S : SameRow(h, g) => h = g
    PROVE  Target!MergeAccepted(t, load)
<1>1. Target!KeysIn(load) = {RowKey[i] : i \in S}
  BY KeysOfLoad
<1>2. ASSUME NEW h \in S
      PROVE  Target!OneRowFor(load, RowKey[h])
  <2>1. \A q \in 1..MaxRows : RowKey[q] = RowKey[h] /\ q # h => load[q] = 0
    BY DEF SameRow
  <2>2. \A q \in 1..MaxRows : KeyOfVersion[q] = RowKey[q]
    BY DEF KeyOfVersion
  <2> QED
    BY <2>1, <2>2 DEF Target!OneRowFor
<1> QED
  BY <1>1, <1>2 DEF Target!MergeAccepted

---------------------------------------------------------------------------
(* Also when a destination process outlives its engine. *)

(* What an orphan holds was the buffer of a run: rows that are there, in   *)
(* one version each.                                                       *)
OrphanInv ==
    /\ MoveInv
    /\ DOMAIN source \subseteq 1..MaxRows
    /\ orphan \in Seq(DOMAIN source)
    /\ OneVersionEach(rows)
    /\ OneVersionEach(orphan)

(* A step of the pipeline is one of the source and its engine, or it is    *)
(* the orphan that commits; an engine that dies has crashed.               *)
LEMMA StepOrOrphan ==
    ASSUME [PipelineNext]_pipelineVars
    PROVE  [Next]_vars \/ OrphanLands
<1>1. EngineDies => Crash
  BY DEF EngineDies, Crash, engineVars
<1> QED
  BY <1>1 DEF PipelineNext, pipelineVars, RunLands, RunLandsUnanswered, RunGoesOn, Disturbed,
              OrphanFails, Next, Run

LEMMA OrphanRowsAreThere ==
    ASSUME OrphanInv
    PROVE  /\ RowsOf(orphan) \subseteq DOMAIN source /\ RowsOf(orphan) \subseteq 1..MaxRows
           /\ \A r \in 1..MaxRows :
                LoadOf(orphan)[r] = IF r \in RowsOf(orphan) THEN 1 ELSE 0
           /\ \A h, g \in RowsOf(orphan) : SameRow(h, g) => h = g
  BY LoadHolds DEF OrphanInv

(* What a run hands over is its buffer. *)
LEMMA RunRowsAreThere ==
    ASSUME OrphanInv, pc = "exhausted"
    PROVE  /\ Handed = RowsOf(rows)
           /\ Handed \subseteq DOMAIN source /\ Handed \subseteq 1..MaxRows
           /\ \A r \in 1..MaxRows : LoadOf(handed)[r] = IF r \in Handed THEN 1 ELSE 0
           /\ \A h, g \in Handed : SameRow(h, g) => h = g
<1>1. handed = rows /\ rows \in Seq(DOMAIN source)
  BY DEF OrphanInv, MoveInv, SkipInv, BatchInv, TypeInv, TypeOK, BatchesArePrefix
<1>2. Handed = RowsOf(rows)
  BY <1>1 DEF Handed, RowsOf
<1> QED
  BY <1>1, <1>2, LoadHolds DEF OrphanInv

(* The orphan's commit only adds to what landed. *)
LEMMA OrphanCommits ==
    ASSUME OrphanInv, OrphanLands
    PROVE  MoveInv'
<1> USE DEF OrphanInv
<1>1. /\ UNCHANGED <<appVars, pc, pluginVars, handed, persisted, faults>>
      /\ landed' = landed \cup RowsOf(orphan)
      /\ again' = again \cup (landed \cap RowsOf(orphan))
      /\ unsaved' = unsaved \cup RowsOf(orphan)
  BY DEF OrphanLands, RowsOf
<1>2. RowsOf(orphan) \subseteq DOMAIN source
  BY OrphanRowsAreThere
<1>3. TypeInv'
  BY <1>1, <1>2 DEF MoveInv, SkipInv, BatchInv, TypeInv, TypeOK, NothingLoaded, appVars, pluginVars
<1>4. BatchInv'
  BY <1>1, <1>3 DEF MoveInv, SkipInv, BatchInv, PhaseInv, BatchesArePrefix, pluginVars
<1>5. QueryInv' /\ WatermarkInv'
  BY <1>1 DEF MoveInv, SkipInv, QueryInv, WatermarkInv, Superseded, InRows, AboveRows, HasCursor,
              Bound, appVars, pluginVars
<1>6. RunInv' /\ NoRowSkipped'
  BY <1>1 DEF MoveInv, SkipInv, RunInv, NoRowSkipped, Wanted, Superseded, HasCursor, Handed,
              appVars, pluginVars
<1>7. ForwardInv'
  BY <1>1 DEF MoveInv, ForwardInv, IsText, Text, RowsAboveResume, HasCursor, appVars, pluginVars
<1> QED
  BY <1>4, <1>5, <1>6, <1>7 DEF MoveInv, SkipInv

(* The query brings each row in its newest version, and in that once. *)
LEMMA QueryIsNewest ==
    ASSUME OrphanInv, EnsureLoaded, ~loaded
    PROVE  /\ OneVersionEach(rows)'
           /\ \A k \in DOMAIN rows' : \A j \in DOMAIN source :
                SameRow(rows'[k], j) => j <= rows'[k]
<1>1. rows' \in Results
  BY DEF EnsureLoaded
<1>2. DOMAIN source = 1..Len(source) /\ Len(source) \in Nat
  BY LenProperties DEF OrphanInv, MoveInv, SkipInv, BatchInv, TypeInv, TypeOK
<1>3. /\ \A k \in DOMAIN rows' : rows'[k] \in Selected
      /\ \A j, k \in DOMAIN rows' : j < k => rows'[j] # rows'[k]
      /\ DOMAIN rows' = 1..Cardinality(Selected)
  BY <1>1 DEF Results
<1>4. \A i \in Selected : \A j \in DOMAIN source : SameRow(i, j) => j <= i
  BY <1>2 DEF Selected, Superseded, SameRow
<1>5. ASSUME NEW j \in DOMAIN rows', NEW k \in DOMAIN rows', SameRow(rows'[j], rows'[k])
      PROVE  j = k
  <2>1. rows'[j] \in DOMAIN source /\ rows'[k] \in DOMAIN source
    BY <1>3 DEF Selected
  <2>2. rows'[j] <= rows'[k] /\ rows'[k] <= rows'[j]
    BY <1>3, <1>4, <1>5, <2>1 DEF SameRow
  <2>3. rows'[j] = rows'[k]
    BY <1>2, <2>1, <2>2
  <2>4. ~(j < k) /\ ~(k < j)
    BY <1>3, <2>3
  <2> QED
    BY <1>3, <2>4
<1> QED
  BY <1>3, <1>4, <1>5 DEF OneVersionEach, SameRow

LEMMA StepKeepsOrphan ==
    ASSUME OrphanInv, [PipelineNext]_pipelineVars
    PROVE  OrphanInv'
<1> USE DEF OrphanInv
<1>1. MoveInv'
  <2>1. CASE [Next]_vars
    BY <2>1, StepMovesForward
  <2>2. CASE OrphanLands
    BY <2>2, OrphanCommits
  <2> QED
    BY <2>1, <2>2, StepOrOrphan
<1>2. /\ DOMAIN source \subseteq DOMAIN source' /\ DOMAIN source' \subseteq 1..MaxRows
  <2>1. CASE AppCommit
    <3>1. /\ source' \in Seq(Cursors) /\ Len(source') <= MaxRows
          /\ DOMAIN source \subseteq DOMAIN source'
      BY <2>1, SourceGrows DEF MoveInv, SkipInv, BatchInv, TypeInv, TypeOK
    <3> QED
      BY <3>1, LenProperties, KeyAssumption
  <2>2. CASE ~AppCommit
    <3>1. source' = source
      BY <2>2, StepOrOrphan DEF Next, Run, Configure, ResumeFrom, NextBatch, Exhausted, Land,
            Persist, Exit, NextBatchFails, LandUnanswered, Cancel, Crash, OrphanLands, vars, appVars
    <3> QED
      BY <3>1
  <2> QED
    BY <2>1, <2>2
<1>3. orphan' = orphan \/ orphan' = <<>> \/ (orphan' = handed /\ pc = "exhausted")
  <2>1. CASE RunLands \/ RunLandsUnanswered \/ RunGoesOn \/ Disturbed \/ UNCHANGED pipelineVars
    BY <2>1 DEF pipelineVars, RunLands, RunLandsUnanswered, RunGoesOn, Disturbed
  <2>2. CASE EngineDies
    BY <2>2 DEF EngineDies
  <2>3. CASE OrphanLands \/ OrphanFails
    BY <2>3 DEF OrphanLands, OrphanFails
  <2> QED
    BY <2>1, <2>2, <2>3 DEF PipelineNext
<1>4. pc = "exhausted" => handed = rows /\ rows \in Seq(DOMAIN source)
  BY DEF MoveInv, SkipInv, BatchInv, TypeInv, TypeOK, BatchesArePrefix
<1>5. orphan' \in Seq(DOMAIN source') /\ OneVersionEach(orphan)'
  <2>1. CASE orphan' = orphan
    BY <1>2, <2>1, SeqMonotonic DEF OneVersionEach, SameRow
  <2>2. CASE orphan' = <<>>
    <3>1. <<>> \in Seq(DOMAIN source') /\ DOMAIN <<>> = {}
      BY EmptySeq
    <3> QED
      BY <2>2, <3>1 DEF OneVersionEach, SameRow
  <2>3. CASE orphan' = handed /\ pc = "exhausted"
    <3>1. orphan' = rows /\ rows \in Seq(DOMAIN source)
      BY <1>4, <2>3
    <3>2. rows \in Seq(DOMAIN source')
      BY <1>2, <3>1, SeqMonotonic
    <3> QED
      BY <3>1, <3>2 DEF OneVersionEach, SameRow
  <2> QED
    BY <1>3, <2>1, <2>2, <2>3
<1>6. OneVersionEach(rows)'
  <2>1. EnsureLoaded \/ rows' = rows \/ rows' = <<>>
    <3>1. CASE NextBatch \/ Exhausted \/ NextBatchFails
      BY <3>1 DEF NextBatch, Exhausted, NextBatchFails
    <3>2. CASE Exit \/ Crash
      BY <3>2 DEF Exit, Crash, Gone
    <3>3. CASE AppCommit \/ Land \/ LandUnanswered \/ Persist \/ OrphanLands \/ UNCHANGED vars
      BY <3>3 DEF AppCommit, Land, LandUnanswered, Persist, OrphanLands, vars, pluginVars
    <3>4. CASE Configure \/ ResumeFrom \/ Cancel
      BY <3>4 DEF Configure, ResumeFrom, Cancel
    <3> QED
      BY <3>1, <3>2, <3>3, <3>4, StepOrOrphan DEF Next, Run
  <2>2. CASE EnsureLoaded /\ ~loaded
    BY <2>2, QueryIsNewest
  <2>3. rows' = rows \/ rows' = <<>> \/ (EnsureLoaded /\ ~loaded)
    BY <2>1 DEF EnsureLoaded
  <2>4. ASSUME rows' = rows \/ rows' = <<>> PROVE OneVersionEach(rows)'
    BY <2>4 DEF OneVersionEach, SameRow
  <2> QED
    BY <2>2, <2>3, <2>4
<1> QED
  BY <1>1, <1>2, <1>5, <1>6

LEMMA InitHasNoOrphan == PipelineInit => OrphanInv
<1> SUFFICES ASSUME PipelineInit PROVE OrphanInv
  OBVIOUS
<1>1. MoveInv
  BY InitMoves DEF PipelineInit
<1>2. source = <<>> /\ rows = <<>> /\ orphan = <<>>
  BY DEF PipelineInit, Init
<1> QED
  BY <1>1, <1>2, EmptySeq DEF OrphanInv, OneVersionEach

LEMMA OrphanHolds == PipelineSpec => []OrphanInv
  BY InitHasNoOrphan, StepKeepsOrphan, PTL DEF PipelineSpec

(* Also with orphans, in either mode, for cursors of any precision and in  *)
(* any order of their texts: the persisted watermark passes no row that is *)
(* not durable.                                                            *)
THEOREM OrphansSkipNothing == PipelineSpec => []NoRowSkipped
<1>1. OrphanInv => NoRowSkipped
  BY DEF OrphanInv, MoveInv, SkipInv
<1> QED
  BY <1>1, OrphanHolds, PTL

(* And it never moves back: an orphan commits rows, but persists nothing.  *)
THEOREM OrphansNeverMoveBack == PipelineSpec => WatermarkNeverBack
<1>1. OrphanInv /\ [PipelineNext]_pipelineVars
        => [persisted # NoValue => persisted' # NoValue /\ persisted' >= persisted]_vars
  <2> SUFFICES ASSUME OrphanInv, [PipelineNext]_pipelineVars, persisted # NoValue
               PROVE  persisted' # NoValue /\ persisted' >= persisted
    OBVIOUS
  <2>1. CASE [Next]_vars
    BY <2>1, StepMovesForward DEF OrphanInv
  <2>2. CASE OrphanLands
    <3>1. persisted' = persisted /\ persisted \in Nat
      BY <2>2 DEF OrphanLands, OrphanInv, MoveInv, SkipInv, BatchInv, TypeInv, TypeOK, Watermarks
    <3> QED
      BY <3>1
  <2> QED
    BY <2>1, <2>2, StepOrOrphan
<1> QED
  BY <1>1, OrphanHolds, PTL DEF PipelineSpec, WatermarkNeverBack

(* The query of a run finds all that is still to be read, also when an     *)
(* orphan commits before, or while, the run reads.                         *)
THEOREM OrphansHideNothing == PipelineSpec => QueryFindsTheRest
<1>1. OrphanInv /\ [PipelineNext]_pipelineVars =>
        [~loaded /\ loaded' =>
            \A i \in DOMAIN source \ late :
                Wanted(i) => \/ i \in landed \/ Superseded(i)
                             \/ \E k \in DOMAIN rows' : rows'[k] = i]_vars
  <2> SUFFICES ASSUME OrphanInv, [PipelineNext]_pipelineVars, ~loaded, loaded',
                      NEW i \in DOMAIN source \ late, Wanted(i)
               PROVE  \/ i \in landed \/ Superseded(i)
                      \/ \E k \in DOMAIN rows' : rows'[k] = i
    OBVIOUS
  <2>1. ~OrphanLands /\ vars' # vars
    BY DEF OrphanLands, pluginVars, vars
  <2> QED
    BY <2>1, StepOrOrphan, QueryStepFinds DEF OrphanInv, MoveInv
<1> QED
  BY <1>1, OrphanHolds, PTL DEF PipelineSpec, QueryFindsTheRest

(* The MERGE of a run is never refused for a key that it finds twice.      *)
THEOREM MergeRuns == PipelineSpec => []MergeNeverRefused
<1>1. OrphanInv => MergeNeverRefused
  BY RunRowsAreThere, MergeIsAccepted DEF MergeNeverRefused
<1> QED
  BY <1>1, OrphanHolds, PTL

---------------------------------------------------------------------------
(* The versions in the target of staged loads. *)

(* Of each row that ever landed the target has exactly one version, once,  *)
(* which is one that landed; and it has nothing else.                      *)
OneVersionPerRow ==
    Staged =>
        /\ \A i \in 1..MaxRows : table[i] > 0 => i \in landed
        /\ \A i \in landed : \E j \in landed : SameRow(i, j) /\ Alone(j)

VersionInv ==
    /\ OrphanInv
    /\ Staged => table \in [1..MaxRows -> Nat]
    /\ OneVersionPerRow

(* A load of one version each of some rows lands. *)
LEMMA LoadKeepsVersions ==
    ASSUME VersionInv, Staged, NEW S \in SUBSET (1..MaxRows), NEW load,
           \A r \in 1..MaxRows : load[r] = IF r \in S THEN 1 ELSE 0,
           \A h, g \in S : SameRow(h, g) => h = g,
           TargetLoaded(load), landed' = landed \cup S
    PROVE  table' \in [1..MaxRows -> Nat] /\ OneVersionPerRow'
<1>1. table \in [1..MaxRows -> Nat] /\ landed \subseteq 1..MaxRows
  BY DEF VersionInv, OrphanInv, MoveInv, SkipInv, BatchInv, TypeInv, TypeOK
<1>2. /\ table' \in [1..MaxRows -> Nat]
      /\ \A r \in 1..MaxRows :
            table'[r] = (IF \E h \in S : SameRow(h, r) THEN 0 ELSE table[r])
                            + (IF r \in S THEN 1 ELSE 0)
  <2>1. table' = Target!MergeEffect(table, load)
    BY DEF TargetLoaded
  <2>2. \A r \in 1..MaxRows : table[r] \in Nat
    BY <1>1
  <2>3. table' = Replaced(table, S)
    BY <2>1, <2>2, MergeReplaces
  <2> QED
    BY <2>2, <2>3 DEF Replaced
<1>3. ASSUME NEW i \in 1..MaxRows, table'[i] > 0
      PROVE  i \in landed'
  BY <1>1, <1>2, <1>3 DEF VersionInv, OneVersionPerRow
<1>4. ASSUME NEW i \in landed'
      PROVE  \E j \in landed' : SameRow(i, j) /\ Alone(j)'
  <2>1. CASE \E h \in S : SameRow(h, i)
    <3>1. PICK h \in S : SameRow(h, i)
      BY <2>1
    <3>2. table'[h] = 1
      BY <1>2 DEF SameRow
    <3>3. ASSUME NEW j \in 1..MaxRows, SameRow(h, j), j # h
          PROVE  table'[j] = 0
      BY <1>2, <3>3
    <3> QED
      BY <3>1, <3>2, <3>3 DEF Alone, SameRow
  <2>2. CASE ~\E h \in S : SameRow(h, i)
    <3>1. i \in landed
      BY <2>2 DEF SameRow
    <3>2. PICK j \in landed : SameRow(i, j) /\ Alone(j)
      BY <3>1 DEF VersionInv, OneVersionPerRow
    <3>3. ASSUME NEW q \in 1..MaxRows, SameRow(i, q)
          PROVE  table'[q] = table[q]
      <4>1. ~(\E h \in S : SameRow(h, q)) /\ q \notin S
        BY <2>2, <3>3 DEF SameRow
      <4> QED
        BY <1>1, <1>2, <4>1
    <3> QED
      BY <1>1, <3>2, <3>3 DEF Alone, SameRow
  <2> QED
    BY <2>1, <2>2
<1> QED
  BY <1>2, <1>3, <1>4 DEF OneVersionPerRow, SameRow

LEMMA StepKeepsVersions ==
    ASSUME VersionInv, [PipelineNext]_pipelineVars
    PROVE  VersionInv'
<1>1. OrphanInv /\ OrphanInv'
  BY StepKeepsOrphan DEF VersionInv
<1>2. CASE ~Staged
  BY <1>1, <1>2 DEF VersionInv, OneVersionPerRow
<1>3. CASE Staged /\ (RunLands \/ RunLandsUnanswered)
  <2>1. /\ pc = "exhausted" /\ landed' = landed \cup Handed
        /\ TargetLoaded(LoadOf(handed))
    BY <1>3 DEF RunLands, RunLandsUnanswered, Land, LandUnanswered
  <2> QED
    BY <1>1, <1>3, <2>1, RunRowsAreThere, LoadKeepsVersions DEF VersionInv
<1>4. CASE Staged /\ OrphanLands
  <2>1. landed' = landed \cup RowsOf(orphan) /\ TargetLoaded(LoadOf(orphan))
    BY <1>4 DEF OrphanLands, RowsOf
  <2> QED
    BY <1>1, <1>4, <2>1, OrphanRowsAreThere, LoadKeepsVersions DEF VersionInv
<1>5. ASSUME UNCHANGED <<table, landed>> PROVE VersionInv'
  BY <1>1, <1>5 DEF VersionInv, OneVersionPerRow, Alone, SameRow
<1>6. RunGoesOn \/ Disturbed \/ EngineDies \/ OrphanFails \/ UNCHANGED pipelineVars
        => UNCHANGED <<table, landed>>
  BY DEF RunGoesOn, Disturbed, EngineDies, OrphanFails, pipelineVars, Configure, ResumeFrom,
         NextBatch, Exhausted, Persist, Exit, AppCommit, NextBatchFails, Cancel, Crash, vars,
         engineVars
<1> QED
  BY <1>2, <1>3, <1>4, <1>5, <1>6 DEF PipelineNext

LEMMA VersionsHold == PipelineSpec => []VersionInv
<1>1. PipelineInit => VersionInv
  <2> SUFFICES ASSUME PipelineInit PROVE VersionInv
    OBVIOUS
  <2>1. table = [i \in 1..MaxRows |-> 0] /\ landed = {}
    BY DEF PipelineInit, Init, Target!NoRows
  <2> QED
    BY <2>1, InitHasNoOrphan DEF VersionInv, OneVersionPerRow
<1> QED
  BY <1>1, StepKeepsVersions, PTL DEF PipelineSpec

(* "Idempotent by the key": whatever is repeated, overtaken or left behind *)
(* by an engine that died, staged loads never lose a row that landed and   *)
(* never double one.  All that an orphan can do is to make a row old.      *)
THEOREM NoRowLostOrDoubled == PipelineSpec => []OneVersionPerRow
<1>1. VersionInv => OneVersionPerRow
  BY DEF VersionInv
<1> QED
  BY <1>1, VersionsHold, PTL

---------------------------------------------------------------------------
(* When no destination outlives its engine, the target holds the newest    *)
(* version of each row that ever landed, and a run brings no row in an     *)
(* older version than has landed.                                          *)

Newest(i) == i \in landed /\ \A j \in landed : SameRow(i, j) => j <= i

TableInv ==
    Staged => table = [i \in 1..MaxRows |-> IF Newest(i) THEN 1 ELSE 0]

RowsInv == \A k \in DOMAIN rows : \A j \in landed : SameRow(rows[k], j) => j <= rows[k]

PipelineInv ==
    /\ OrphanInv
    /\ orphan = <<>>
    /\ RowsInv
    /\ TableInv

(* The step of the pipeline is a step of the source and its engine. *)
LEMMA StepIsSourceStep ==
    ASSUME ~Orphans, orphan = <<>>, [PipelineNext]_pipelineVars
    PROVE  [Next]_vars /\ orphan' = <<>>
  BY DEF PipelineNext, pipelineVars, RunLands, RunLandsUnanswered, RunGoesOn, Disturbed,
         EngineDies, OrphanLands, OrphanFails, Next, Run

(* The MERGE of a run replaces older versions, and only those. *)
LEMMA MergeKeepsNewest ==
    ASSUME PipelineInv, Staged, pc = "exhausted",
           landed' = landed \cup Handed, TargetLoaded(LoadOf(handed))
    PROVE  TableInv'
<1>1. \A r \in 1..MaxRows : table[r] = IF Newest(r) THEN 1 ELSE 0
  BY DEF PipelineInv, TableInv
<1>2. landed \subseteq 1..MaxRows
  BY DEF PipelineInv, OrphanInv, MoveInv, SkipInv, BatchInv, TypeInv, TypeOK
<1>3. /\ Handed = RowsOf(rows) /\ Handed \subseteq 1..MaxRows
      /\ \A r \in 1..MaxRows : LoadOf(handed)[r] = IF r \in Handed THEN 1 ELSE 0
      /\ \A h, g \in Handed : SameRow(h, g) => h = g
  BY RunRowsAreThere DEF PipelineInv
<1>4. \A h \in Handed : \A j \in landed : SameRow(h, j) => j <= h
  BY <1>3 DEF PipelineInv, RowsInv, RowsOf
<1>5. /\ table' \in [1..MaxRows -> Nat]
      /\ \A r \in 1..MaxRows :
            table'[r] = (IF \E h \in Handed : SameRow(h, r) THEN 0 ELSE table[r])
                            + (IF r \in Handed THEN 1 ELSE 0)
  <2> DEFINE load == LoadOf(handed)
  <2>1. table' = Target!MergeEffect(table, load)
    BY DEF TargetLoaded
  <2>2. \A r \in 1..MaxRows : table[r] \in Nat
    BY <1>1
  <2>3. \A r \in 1..MaxRows : load[r] = IF r \in Handed THEN 1 ELSE 0
    BY <1>3
  <2> HIDE DEF load
  <2>4. table' = Replaced(table, Handed)
    BY <1>3, <2>1, <2>2, <2>3, MergeReplaces
  <2> QED
    BY <2>2, <2>4 DEF Replaced
<1>6. ASSUME NEW r \in 1..MaxRows
      PROVE  table'[r] = IF Newest(r)' THEN 1 ELSE 0
  <2>1. Newest(r)' <=> /\ r \in landed \cup Handed
                       /\ \A j \in landed \cup Handed : SameRow(r, j) => j <= r
    BY DEF Newest, SameRow
  <2>2. CASE r \in Handed
    <3>1. \A j \in landed \cup Handed : SameRow(r, j) => j <= r
      BY <1>3, <1>4, <2>2
    <3>2. Newest(r)'
      BY <2>1, <2>2, <3>1
    <3>3. \E h \in Handed : SameRow(h, r)
      BY <2>2 DEF SameRow
    <3> QED
      BY <1>5, <2>2, <3>2, <3>3
  <2>3. CASE r \notin Handed /\ \E h \in Handed : SameRow(h, r)
    <3>1. PICK h \in Handed : SameRow(h, r)
      BY <2>3
    <3>2. r \in landed => ~(h <= r)
      <4>1. r \in landed => r <= h /\ r # h
        BY <1>4, <2>3, <3>1
      <4> QED
        BY <1>2, <1>3, <4>1
    <3>3. ~Newest(r)'
      BY <2>1, <2>3, <3>1, <3>2 DEF SameRow
    <3> QED
      BY <1>5, <2>3, <3>3
  <2>4. CASE ~\E h \in Handed : SameRow(h, r)
    <3>1. r \notin Handed
      BY <2>4 DEF SameRow
    <3>2. Newest(r)' <=> Newest(r)
      BY <2>1, <2>4, <3>1 DEF Newest, SameRow
    <3> QED
      BY <1>1, <1>5, <2>4, <3>1, <3>2
  <2> QED
    BY <2>2, <2>3, <2>4
<1> QED
  BY <1>5, <1>6 DEF TableInv

LEMMA InitIsPipeline == PipelineInit => PipelineInv
<1> SUFFICES ASSUME PipelineInit PROVE PipelineInv
  OBVIOUS
<1>1. rows = <<>> /\ landed = {} /\ orphan = <<>>
  BY DEF PipelineInit, Init
<1>2. table = [i \in 1..MaxRows |-> 0]
  BY DEF PipelineInit, Target!NoRows
<1>3. \A i : ~Newest(i)
  BY <1>1 DEF Newest
<1> QED
  BY <1>1, <1>2, <1>3, InitHasNoOrphan DEF PipelineInv, RowsInv, TableInv

LEMMA StepKeepsPipeline ==
    ASSUME ~Orphans, PipelineInv, [PipelineNext]_pipelineVars
    PROVE  PipelineInv'
<1> USE DEF PipelineInv
<1>1. [Next]_vars /\ orphan' = <<>>
  BY StepIsSourceStep
<1>2. OrphanInv'
  BY StepKeepsOrphan
<1>3. landed \subseteq DOMAIN source /\ landed \subseteq 1..MaxRows
  BY DEF OrphanInv, MoveInv, SkipInv, BatchInv, TypeInv, TypeOK
<1>4. CASE RunLands \/ RunLandsUnanswered
  <2>1. /\ pc = "exhausted" /\ landed' = landed \cup Handed
        /\ UNCHANGED rows /\ TargetLoaded(LoadOf(handed))
    BY <1>4 DEF RunLands, RunLandsUnanswered, Land, LandUnanswered, pluginVars
  <2>2. /\ Handed = RowsOf(rows) /\ Handed \subseteq 1..MaxRows
        /\ \A h, g \in Handed : SameRow(h, g) => h = g
    BY <2>1, RunRowsAreThere
  <2>3. RowsInv'
    <3>1. ASSUME NEW k \in DOMAIN rows, NEW j \in landed', SameRow(rows[k], j)
          PROVE  j <= rows[k]
      <4>1. rows[k] \in Handed
        BY <2>2 DEF RowsOf
      <4>2. CASE j \in landed
        BY <3>1, <4>2 DEF RowsInv
      <4>3. CASE j \in Handed
        BY <2>2, <3>1, <4>1, <4>3
      <4> QED
        BY <2>1, <3>1, <4>2, <4>3
    <3> QED
      BY <2>1, <3>1 DEF RowsInv, SameRow
  <2>4. TableInv'
    <3>1. CASE Staged
      BY <2>1, <3>1, MergeKeepsNewest
    <3>2. CASE ~Staged
      BY <3>2 DEF TableInv
    <3> QED
      BY <3>1, <3>2
  <2> QED
    BY <1>1, <1>2, <2>3, <2>4
<1>5. ASSUME UNCHANGED <<landed, table>> PROVE TableInv'
  BY <1>5 DEF TableInv, Newest, SameRow
<1>6. ASSUME UNCHANGED <<landed, rows>> PROVE RowsInv'
  BY <1>6 DEF RowsInv, SameRow
<1>7. CASE (NextBatch \/ Exhausted \/ NextBatchFails) /\ UNCHANGED table
  <2>1. landed' = landed /\ (rows' = rows \/ (EnsureLoaded /\ ~loaded))
    BY <1>7 DEF NextBatch, Exhausted, NextBatchFails, engineVars, EnsureLoaded
  <2>2. ASSUME EnsureLoaded, ~loaded PROVE RowsInv'
    BY <1>3, <2>1, <2>2, QueryIsNewest DEF RowsInv, SameRow
  <2> QED
    BY <1>1, <1>2, <1>5, <1>6, <1>7, <2>1, <2>2
<1>8. CASE (Exit \/ Crash) /\ UNCHANGED table
  <2>1. landed' = landed /\ rows' = <<>>
    BY <1>8 DEF Exit, Crash, Gone, engineVars
  <2>2. RowsInv'
    BY <2>1 DEF RowsInv
  <2> QED
    BY <1>1, <1>2, <1>5, <1>8, <2>1, <2>2
<1>9. CASE /\ Configure \/ ResumeFrom \/ Persist \/ AppCommit \/ Cancel \/ UNCHANGED vars
           /\ UNCHANGED table
  <2>1. UNCHANGED <<landed, rows>>
    BY <1>9 DEF Configure, ResumeFrom, Persist, AppCommit, Cancel, vars, engineVars,
                pluginVars
  <2> QED
    BY <1>1, <1>2, <1>5, <1>6, <1>9, <2>1
<1>10. ~EngineDies /\ ~OrphanLands /\ ~OrphanFails
  BY DEF EngineDies, OrphanLands, OrphanFails
<1> QED
  BY <1>4, <1>7, <1>8, <1>9, <1>10 DEF PipelineNext, pipelineVars, RunGoesOn, Disturbed

LEMMA PipelineHolds == ~Orphans => (PipelineSpec => []PipelineInv)
<1> SUFFICES ASSUME ~Orphans PROVE PipelineSpec => []PipelineInv
  OBVIOUS
<1>1. PipelineInit => PipelineInv
  BY InitIsPipeline
<1>2. PipelineInv /\ [PipelineNext]_pipelineVars => PipelineInv'
  BY StepKeepsPipeline
<1> QED
  BY <1>1, <1>2, PTL DEF PipelineSpec

---------------------------------------------------------------------------
(* The runs of the pipeline are runs of OracleSource: what is proved of    *)
(* those holds here.                                                       *)
THEOREM RunsAreTheSources == ~Orphans => (PipelineSpec => Spec)
<1> SUFFICES ASSUME ~Orphans PROVE PipelineSpec => Spec
  OBVIOUS
<1>1. PipelineInit => Init
  BY DEF PipelineInit
<1>2. PipelineInv /\ [PipelineNext]_pipelineVars => [Next]_vars
  BY StepIsSourceStep DEF PipelineInv
<1> QED
  BY <1>1, <1>2, PipelineHolds, PTL DEF PipelineSpec, Spec

(* Up to the persisted watermark the target is the source's table: the     *)
(* current version of each row, once, and no older one.                    *)
THEOREM TargetFollows == ~Orphans => (PipelineSpec => []TargetIsCurrent)
<1> SUFFICES ASSUME ~Orphans PROVE PipelineSpec => []TargetIsCurrent
  OBVIOUS
<1>1. ASSUME PipelineInv PROVE TargetIsCurrent
  <2> SUFFICES ASSUME Staged, NEW i \in DOMAIN source \ late,
                      Wanted(i), ~Superseded(i), persisted # NoValue,
                      source[i] <= persisted
               PROVE  Alone(i)
    BY DEF TargetIsCurrent
  <2>1. /\ landed \subseteq DOMAIN source /\ DOMAIN source \subseteq 1..MaxRows
        /\ i \in landed
    BY <1>1 DEF PipelineInv, OrphanInv, MoveInv, SkipInv, NoRowSkipped, BatchInv, TypeInv, TypeOK
  <2>2. \A j \in DOMAIN source : SameRow(i, j) => ~(j > i)
    BY DEF Superseded, SameRow
  <2>3. Newest(i)
    BY <2>1, <2>2 DEF Newest
  <2>4. ASSUME NEW j \in 1..MaxRows, SameRow(i, j), j # i
        PROVE  ~Newest(j)
    <3>1. j \in landed => j < i
      BY <2>1, <2>2, <2>4
    <3> QED
      BY <2>1, <2>4, <3>1 DEF Newest, SameRow
  <2>5. \A r \in 1..MaxRows : table[r] = IF Newest(r) THEN 1 ELSE 0
    BY <1>1 DEF PipelineInv, TableInv
  <2> QED
    BY <2>1, <2>3, <2>4, <2>5 DEF Alone
<1> QED
  BY <1>1, PipelineHolds, PTL

(* In the target a row never gets older, and never goes away: whatever is  *)
(* repeated, and also above the watermark.                                 *)
NeverOlder ==
    [][Staged => \A i \in 1..MaxRows : table[i] > 0 =>
            \E j \in 1..MaxRows : j >= i /\ SameRow(i, j) /\ table'[j] > 0]_pipelineVars

(* A run that is repeated after a commit without an answer, or after a     *)
(* crash, with whatever has become of its rows, takes nothing back.        *)
THEOREM TargetMovesForward == ~Orphans => (PipelineSpec => NeverOlder)
<1> SUFFICES ASSUME ~Orphans PROVE PipelineSpec => NeverOlder
  OBVIOUS
<1>1. ASSUME PipelineInv, PipelineInv', VersionInv', [PipelineNext]_pipelineVars, Staged,
             NEW i \in 1..MaxRows, table[i] > 0
      PROVE  \E j \in 1..MaxRows : j >= i /\ SameRow(i, j) /\ table'[j] > 0
  <2>1. i \in landed
    BY <1>1 DEF PipelineInv, TableInv, Newest
  <2>2. landed \subseteq landed'
    <3>1. [Next]_vars
      BY <1>1, StepIsSourceStep DEF PipelineInv
    <3> QED
      BY <3>1 DEF Next, Run, Configure, ResumeFrom, NextBatch, Exhausted, Land, Persist, Exit,
                  AppCommit, NextBatchFails, LandUnanswered, Cancel, Crash, vars, engineVars
  <2>3. PICK j \in landed' : SameRow(i, j) /\ Alone(j)'
    BY <1>1, <2>1, <2>2 DEF VersionInv, OneVersionPerRow, SameRow
  <2>4. j \in 1..MaxRows /\ table'[j] = 1
    BY <1>1, <2>3 DEF Alone, PipelineInv, OrphanInv, MoveInv, SkipInv, BatchInv, TypeInv, TypeOK
  <2>5. Newest(j)'
    BY <1>1, <2>4 DEF PipelineInv, TableInv
  <2>6. i <= j
    BY <2>1, <2>2, <2>3, <2>5 DEF Newest, SameRow
  <2> QED
    BY <2>3, <2>4, <2>6
<1>2. PipelineInv /\ PipelineInv' /\ VersionInv' /\ [PipelineNext]_pipelineVars =>
        [Staged => \A i \in 1..MaxRows : table[i] > 0 =>
            \E j \in 1..MaxRows : j >= i /\ SameRow(i, j) /\ table'[j] > 0]_pipelineVars
  BY <1>1
<1> QED
  BY <1>2, PipelineHolds, VersionsHold, PTL DEF PipelineSpec, NeverOlder

---------------------------------------------------------------------------
(* The copies in the target of atomic loads. *)

Counted ==
    ~Staged => table \in [1..MaxRows -> Nat] /\ CopiesAreRepeats

CopiesInv == OrphanInv /\ ReadInv /\ Counted

(* A load that inserts S counts the rows of S once more. *)
LEMMA InsertCounts ==
    ASSUME NEW load, NEW S \in SUBSET (1..MaxRows), Counted, ~Staged,
           \A r \in 1..MaxRows : load[r] = IF r \in S THEN 1 ELSE 0,
           TargetLoaded(load), landed' = landed \cup S,
           unsaved \subseteq unsaved', landed \cap S \subseteq unsaved'
    PROVE  Counted'
<1>1. /\ table' \in [1..MaxRows -> Nat]
      /\ \A r \in 1..MaxRows : table'[r] = table[r] + IF r \in S THEN 1 ELSE 0
  BY DEF TargetLoaded, Target!InsertEffect, Target!Changed, Counted
<1>2. \A r \in 1..MaxRows : table[r] \in Nat
  BY DEF Counted
<1> QED
  BY <1>1, <1>2 DEF Counted, CopiesAreRepeats

LEMMA OrphanReadsOnce ==
    ASSUME CopiesInv, OrphanLands
    PROVE  ReadInv'
<1> USE DEF CopiesInv, ReadInv
<1>1. /\ UNCHANGED <<source, pc, rows, pos, last, handed, persisted>>
      /\ landed' = landed \cup RowsOf(orphan)
      /\ again' = again \cup (landed \cap RowsOf(orphan))
      /\ unsaved' = unsaved \cup RowsOf(orphan)
  BY DEF OrphanLands, RowsOf, appVars, pluginVars
<1>2. OrderInv'
  BY <1>1, OrphanCommits DEF OrderInv, SortedRows, LastHandedOut, Text
<1> QED
  BY <1>1, <1>2 DEF LandedIsBelow, ReadOnce, Handed

LEMMA StepKeepsCopies ==
    ASSUME SortedAsCompared, Tick = 1, CopiesInv, [PipelineNext]_pipelineVars
    PROVE  CopiesInv'
<1> USE DEF CopiesInv
<1>1. OrphanInv'
  BY StepKeepsOrphan
<1>2. ReadInv'
  <2>1. CASE [Next]_vars
    BY <2>1, StepReadsOnce
  <2>2. CASE OrphanLands
    BY <2>2, OrphanReadsOnce
  <2> QED
    BY <2>1, <2>2, StepOrOrphan
<1>3. Counted'
  <2> SUFFICES ASSUME ~Staged PROVE Counted'
    BY DEF Counted
  <2>1. CASE RunLands \/ RunLandsUnanswered
    <3>1. /\ pc = "exhausted" /\ landed' = landed \cup Handed
          /\ TargetLoaded(LoadOf(handed)) /\ unsaved \subseteq unsaved'
      BY <2>1 DEF RunLands, RunLandsUnanswered, Land, LandUnanswered
    <3>2. landed \cap Handed \subseteq unsaved'
      BY <3>1, RepeatsAreUnsaved
    <3> QED
      BY <3>1, <3>2, RunRowsAreThere, InsertCounts
  <2>2. CASE OrphanLands
    <3>1. /\ landed' = landed \cup RowsOf(orphan) /\ unsaved' = unsaved \cup RowsOf(orphan)
          /\ TargetLoaded(LoadOf(orphan))
      BY <2>2 DEF OrphanLands, RowsOf
    <3>2. RowsOf(orphan) \subseteq 1..MaxRows
      BY OrphanRowsAreThere DEF OrphanInv
    <3> QED
      BY <3>1, <3>2, OrphanRowsAreThere, InsertCounts
  <2>3. CASE UNCHANGED <<table, landed>> /\ unsaved \subseteq unsaved'
    BY <2>3 DEF Counted, CopiesAreRepeats
  <2>4. RunGoesOn \/ Disturbed \/ EngineDies \/ OrphanFails \/ UNCHANGED pipelineVars
            => UNCHANGED <<table, landed>> /\ unsaved \subseteq unsaved'
    BY DEF RunGoesOn, Disturbed, EngineDies, OrphanFails, pipelineVars, Configure, ResumeFrom,
           NextBatch, Exhausted, Persist, Exit, AppCommit, NextBatchFails, Cancel, Crash, vars,
           engineVars
  <2> QED
    BY <2>1, <2>2, <2>3, <2>4 DEF PipelineNext
<1> QED
  BY <1>1, <1>2, <1>3

(* "All-or-nothing, at-least-once": with exact cursors that are never NULL *)
(* and sorted as they are compared, atomic loads put a row into the target *)
(* again only if a run that landed it could not persist, orphans included. *)
THEOREM CopiesAreOfRepeats ==
    SortedAsCompared /\ Tick = 1 => (PipelineSpec => []CopiesAreRepeats)
<1> SUFFICES ASSUME SortedAsCompared, Tick = 1 PROVE PipelineSpec => []CopiesAreRepeats
  OBVIOUS
<1>1. PipelineInit => CopiesInv
  <2> SUFFICES ASSUME PipelineInit PROVE CopiesInv
    OBVIOUS
  <2>1. table = [i \in 1..MaxRows |-> 0] /\ landed = {} /\ again = {}
    BY DEF PipelineInit, Init, Target!NoRows
  <2>2. Counted
    BY <2>1 DEF Counted, CopiesAreRepeats
  <2>3. ReadInv
    BY <2>1, InitOrder DEF PipelineInit, ReadInv, LandedIsBelow, ReadOnce
  <2> QED
    BY <2>2, <2>3, InitHasNoOrphan DEF CopiesInv
<1>2. CopiesInv /\ [PipelineNext]_pipelineVars => CopiesInv'
  BY StepKeepsCopies
<1>3. CopiesInv => CopiesAreRepeats
  BY DEF CopiesInv, Counted, CopiesAreRepeats
<1> QED
  BY <1>1, <1>2, <1>3, PTL DEF PipelineSpec
=============================================================================
