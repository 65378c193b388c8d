------------------------ MODULE OracleSourceProofs ------------------------
(***************************************************************************)
(* Proofs about OracleSource, for every set of cursors, every precision of *)
(* their text, every initial_value and batch_size, and any number of runs, *)
(* rows and faults.                                                        *)
(***************************************************************************)
EXTENDS OracleSource, FiniteSetTheorems, SequenceTheorems, TLAPS

---------------------------------------------------------------------------
(* The operators. *)

(* The text of a cursor is cut down, never rounded up. *)
LEMMA TextIsBelow ==
    ASSUME NEW c \in Nat
    PROVE  Text(c) \in Nat /\ Text(c) <= c
<1>1. Tick \in Nat /\ Tick > 0
  BY TickAssumption
<1>2. c \div Tick \in Nat /\ c = Tick * (c \div Tick) + (c % Tick) /\ c % Tick >= 0
      /\ c % Tick \in Int
  BY <1>1, SMT
<1>3. Tick * (c \div Tick) = (c \div Tick) * Tick
  BY <1>1, <1>2, SMT
<1>4. (c \div Tick) * Tick \in Nat
  BY <1>1, <1>2, SMT
<1> QED
  BY <1>2, <1>3, <1>4, SMT DEF Text

(* A cursor that is not NULL is a number. *)
LEMMA CursorOrNull == \A c \in Cursors : c # NullCursor => c \in Nat
  BY CursorsAssumption

LEMMA CursorIsNumber ==
    ASSUME source \in Seq(Cursors), NEW i \in DOMAIN source, HasCursor(i)
    PROVE  source[i] \in Nat
<1>1. source[i] \in Cursors
  BY LenProperties, ElementOfSeq
<1> QED
  BY <1>1, CursorOrNull DEF HasCursor

LEMMA BoundType ==
    ASSUME resume \in Watermarks
    PROVE  Bound \in Watermarks
  BY InitialAssumption DEF Bound, Watermarks

(* The result of the query is a sequence of rows that are there, and holds *)
(* every row that passes the bound.                                        *)
LEMMA ResultsAreRows ==
    ASSUME source \in Seq(Cursors), NEW r \in Results
    PROVE  /\ r \in Seq(DOMAIN source)
           /\ \A i \in Selected : \E k \in DOMAIN r : r[k] = i
<1>1. Selected \subseteq 1..Len(source)
  BY LenProperties DEF Selected
<1>2. Len(source) \in Nat /\ DOMAIN source = 1..Len(source)
  BY LenProperties
<1>3. IsFiniteSet(Selected)
  <2>1. IsFiniteSet(1..Len(source))
    BY <1>2, FS_Interval
  <2> QED
    BY <1>1, <2>1, FS_Subset
<1>4. Cardinality(Selected) \in Nat
  BY <1>3, FS_CardinalityType
<1>5. r \in [1..Cardinality(Selected) -> DOMAIN source]
  BY <1>1, <1>2 DEF Results
<1>6. r \in Seq(DOMAIN source)
  BY <1>4, <1>5, SeqDef
<1> QED
  BY <1>6 DEF Results

(* A chunk is not empty, and continues what was handed out before it. *)
LEMMA ChunkContinues ==
    ASSUME NEW S, NEW r \in Seq(S), NEW p \in 0..Len(r), p < Len(r)
    PROVE  /\ NextPos(r, p) \in p+1..Len(r)
           /\ Chunk(r, p) \in Seq(S)
           /\ Len(Chunk(r, p)) \in Nat \ {0}
           /\ Chunk(r, p)[Len(Chunk(r, p))] = r[NextPos(r, p)]
           /\ SubSeq(r, 1, p) \o Chunk(r, p) = SubSeq(r, 1, NextPos(r, p))
<1> DEFINE e == ChunkEnd(r, p)
<1>1. Len(r) \in Nat /\ p \in Nat /\ BatchSize \in Nat /\ BatchSize > 0
  BY LenProperties, BatchSizeAssumption
<1>2. e \in p+1..Len(r)
  BY <1>1 DEF ChunkEnd
<1> HIDE DEF e
<1>3. NextPos(r, p) = e /\ Chunk(r, p) = SubSeq(r, p + 1, e)
  BY DEF NextPos, Chunk, e
<1>4. p + 1 \in 1..(Len(r) + 1) /\ e \in p..Len(r)
  BY <1>1, <1>2
<1>5. /\ SubSeq(r, p + 1, e) \in Seq(S)
      /\ Len(SubSeq(r, p + 1, e)) = e - p
      /\ \A k \in 1..(e - p) : SubSeq(r, p + 1, e)[k] = r[p + k]
  <2>1. /\ SubSeq(r, p + 1, e) \in Seq(S)
        /\ Len(SubSeq(r, p + 1, e)) = IF p + 1 <= e THEN e - (p + 1) + 1 ELSE 0
        /\ \A k \in 1..(e - (p + 1) + 1) :
              SubSeq(r, p + 1, e)[k] = r[p + 1 + k - 1]
    BY <1>1, <1>2, SubSeqProperties
  <2>2. /\ p + 1 <= e /\ e - (p + 1) + 1 = e - p
        /\ \A k \in 1..(e - p) : p + 1 + k - 1 = p + k
    BY <1>1, <1>2
  <2> QED
    BY <2>1, <2>2
<1>6. SubSeq(r, 1, p) \o SubSeq(r, p + 1, e) = SubSeq(r, 1, e)
  <2>1. 1 \in 1..(Len(r) + 1) /\ p \in (1 - 1)..Len(r)
    BY <1>1
  <2> QED
    BY <1>4, <2>1, ConcatAdjacentSubSeq
<1>7. e - p \in Nat \ {0} /\ e - p \in 1..(e - p) /\ p + (e - p) = e
  BY <1>1, <1>2
<1>8. SubSeq(r, p + 1, e)[e - p] = r[e]
  BY <1>5, <1>7
<1> QED
  BY <1>2, <1>3, <1>5, <1>6, <1>7, <1>8

---------------------------------------------------------------------------
(* Type correctness.  rows is replaced only while it is empty, which is    *)
(* why pos and last stay in their types.                                   *)

NothingLoaded == ~loaded => rows = <<>> /\ last = NoValue

TypeInv == TypeOK /\ NothingLoaded

(* What ensure_loaded does, whether or not it runs the query. *)
LEMMA LoadedRows ==
    ASSUME TypeInv, EnsureLoaded
    PROVE  /\ rows' \in Seq(DOMAIN source)
           /\ loaded' = TRUE
           /\ loaded => rows' = rows
           /\ ~loaded => rows' \in Results /\ pos = 0 /\ last = NoValue
           /\ pos \in 0..Len(rows')
<1> USE DEF TypeInv, TypeOK
<1>1. CASE loaded
  BY <1>1 DEF EnsureLoaded
<1>2. CASE ~loaded
  <2>1. rows' \in Results
    BY <1>2 DEF EnsureLoaded
  <2>2. rows' \in Seq(DOMAIN source)
    BY <2>1, ResultsAreRows
  <2>3. Len(rows') \in Nat
    BY <2>2, LenProperties
  <2>4. rows = <<>> /\ last = NoValue
    BY <1>2 DEF NothingLoaded
  <2>5. pos = 0
    BY <2>4, EmptySeq
  <2> QED
    BY <1>2, <2>1, <2>2, <2>3, <2>4, <2>5 DEF EnsureLoaded
<1> QED
  BY <1>1, <1>2

(* The watermark is a text, or stays as it was. *)
LEMMA WatermarkType ==
    ASSUME source \in Seq(Cursors), last \in Watermarks,
           NEW r \in Seq(DOMAIN source), NEW p \in 0..Len(r), p < Len(r)
    PROVE  /\ Watermark(Chunk(r, p)) \in Watermarks
           /\ LET i == r[NextPos(r, p)]
              IN  /\ i \in DOMAIN source
                  /\ Watermark(Chunk(r, p)) =
                        IF HasCursor(i) THEN Text(source[i]) ELSE last
<1> DEFINE i == r[NextPos(r, p)]
<1>1. Len(r) \in Nat /\ NextPos(r, p) \in 1..Len(r)
      /\ Chunk(r, p)[Len(Chunk(r, p))] = i
  BY LenProperties, ChunkContinues
<1>2. i \in DOMAIN source
  BY <1>1, ElementOfSeq
<1>3. Watermark(Chunk(r, p)) = IF HasCursor(i) THEN Text(source[i]) ELSE last
  BY <1>1 DEF Watermark
<1>4. HasCursor(i) => Text(source[i]) \in Nat
  BY <1>2, CursorIsNumber, TextIsBelow
<1> QED
  BY <1>2, <1>3, <1>4 DEF Watermarks

(* The application only appends: what was committed stays as it is, and a  *)
(* new row that has a cursor, and is not late, is above every older one.   *)
LEMMA SourceGrows ==
    ASSUME source \in Seq(Cursors), AppCommit
    PROVE  /\ source' \in Seq(Cursors) /\ Len(source') <= MaxRows
           /\ DOMAIN source \subseteq DOMAIN source'
           /\ \A i \in DOMAIN source : source'[i] = source[i]
           /\ late \subseteq late' /\ late' \subseteq late \cup DOMAIN source'
           /\ \A i \in DOMAIN source : Superseded(i) => Superseded(i)'
           /\ \A i \in (DOMAIN source' \ DOMAIN source) \ late' :
                \A j \in DOMAIN source :
                    source'[i] # NullCursor /\ HasCursor(j) => source'[i] > source[j]
<1>1. PICK new \in {<<c>> : c \in Cursors} \cup {<<c, d>> : c, d \in Cursors} :
        /\ Len(source) + Len(new) <= MaxRows
        /\ source' = source \o new
        /\ late' = late \cup {i \in DOMAIN source' \ DOMAIN source : Behind(source'[i])}
  BY DEF AppCommit
<1>2. new \in Seq(Cursors)
  <2>1. CASE new \in {<<c>> : c \in Cursors}
    BY <2>1
  <2>2. CASE new \in {<<c, d>> : c, d \in Cursors}
    <3>1. PICK c \in Cursors, d \in Cursors : new = <<c, d>>
      BY <2>2
    <3> QED
      BY <3>1
  <2> QED
    BY <1>1, <2>1, <2>2
<1>3. /\ source' \in Seq(Cursors)
      /\ Len(source') = Len(source) + Len(new)
      /\ \A i \in 1..Len(source) + Len(new) :
            source'[i] = IF i <= Len(source) THEN source[i]
                                             ELSE new[i - Len(source)]
  BY <1>1, <1>2, ConcatProperties
<1>4. /\ Len(source) \in Nat /\ Len(new) \in Nat
      /\ DOMAIN source = 1..Len(source) /\ DOMAIN new = 1..Len(new)
      /\ DOMAIN source' = 1..Len(source) + Len(new)
  BY <1>2, <1>3, LenProperties
<1>5. \A i \in DOMAIN source : source'[i] = source[i]
  BY <1>3, <1>4
<1>6. DOMAIN source \subseteq DOMAIN source'
  BY <1>4
<1>7. ASSUME NEW i \in (DOMAIN source' \ DOMAIN source) \ late', NEW j \in DOMAIN source,
             source'[i] # NullCursor, HasCursor(j)
      PROVE  source'[i] > source[j]
  <2>1. ~(source'[i] <= source[j])
    BY <1>1, <1>7 DEF Behind
  <2>2. source'[i] \in Nat
    <3>1. source'[i] \in Cursors
      BY <1>3, LenProperties, ElementOfSeq
    <3>2. source'[i] # NullCursor
      BY <1>7
    <3> QED
      BY <3>1, <3>2, CursorOrNull
  <2>3. source[j] \in Nat
    BY <1>7, CursorIsNumber
  <2> QED
    BY <2>1, <2>2, <2>3
<1>8. \A i \in DOMAIN source : Superseded(i) => Superseded(i)'
  BY <1>6 DEF Superseded
<1>9. Len(source') <= MaxRows
  BY <1>1, <1>3
<1>10. late \subseteq late' /\ late' \subseteq late \cup DOMAIN source'
  BY <1>1
<1> QED
  BY <1>3, <1>5, <1>6, <1>7, <1>8, <1>9, <1>10

LEMMA InitHasTypes == Init => TypeInv
<1> SUFFICES ASSUME Init PROVE TypeInv
  OBVIOUS
<1> USE DEF Init
<1>1. source \in Seq(Cursors) /\ rows \in Seq(DOMAIN source)
      /\ handed \in Seq(DOMAIN source) /\ Len(rows) = 0
  BY EmptySeq DEF Init
<1>2. pos \in 0..Len(rows)
  BY <1>1
<1>3. TypeOK
  BY <1>1, <1>2 DEF TypeOK, Watermarks
<1> QED
  BY <1>3 DEF TypeInv, NothingLoaded

LEMMA StepKeepsTypes == TypeInv /\ [Next]_vars => TypeInv'
<1> SUFFICES ASSUME TypeInv, [Next]_vars PROVE TypeInv'
  OBVIOUS
<1> USE DEF TypeInv, TypeOK, NothingLoaded
<1>1. CASE AppCommit
  <2>1. /\ DOMAIN source \subseteq DOMAIN source' /\ source' \in Seq(Cursors)
        /\ late' \subseteq DOMAIN source'
    BY <1>1, SourceGrows
  <2>2. rows \in Seq(DOMAIN source') /\ handed \in Seq(DOMAIN source')
    BY <2>1, SeqMonotonic
  <2> QED
    BY <1>1, <2>1, <2>2 DEF AppCommit, pluginVars, engineVars
<1>2. CASE Configure
  BY <1>2 DEF Configure, engineVars, appVars
<1>3. CASE ResumeFrom
  BY <1>3 DEF ResumeFrom, engineVars, appVars
<1>4. CASE NextBatch
  <2> DEFINE r == rows'
  <2>1. /\ rows' \in Seq(DOMAIN source) /\ pos \in 0..Len(rows')
        /\ loaded' = TRUE /\ pos < Len(rows')
    BY <1>4, LoadedRows DEF NextBatch
  <2>2. Watermark(Chunk(rows', pos)) \in Watermarks
    BY <2>1, WatermarkType
  <2>3. /\ Chunk(rows', pos) \in Seq(DOMAIN source)
        /\ NextPos(rows', pos) \in pos+1..Len(rows')
    BY <2>1, ChunkContinues
  <2>4. handed \o Chunk(rows', pos) \in Seq(DOMAIN source)
    BY <2>3, ConcatProperties
  <2>5. NextPos(rows', pos) \in 0..Len(rows')
    <3>1. Len(rows') \in Nat
      BY <2>1, LenProperties
    <3> QED
      BY <2>1, <2>3, <3>1
  <2>6. /\ last' = Watermark(Chunk(rows', pos))
        /\ handed' = handed \o Chunk(rows', pos)
        /\ pos' = NextPos(rows', pos)
        /\ UNCHANGED <<appVars, pc, conn, resume, engineVars, faults>>
    BY <1>4 DEF NextBatch
  <2> QED
    BY <2>1, <2>2, <2>4, <2>5, <2>6 DEF engineVars, appVars
<1>5. CASE Exhausted
  <2>1. rows' \in Seq(DOMAIN source) /\ pos \in 0..Len(rows') /\ loaded' = TRUE
    BY <1>5, LoadedRows DEF Exhausted
  <2> QED
    BY <1>5, <2>1 DEF Exhausted, engineVars, appVars
<1>6. CASE Land \/ LandUnanswered
  <2>1. Handed \subseteq DOMAIN source
    BY LenProperties, ElementOfSeq DEF Handed
  <2> QED
    BY <1>6, <2>1 DEF Land, LandUnanswered, pluginVars, appVars
<1>7. CASE Persist
  BY <1>7 DEF Persist, CurrentWatermark, pluginVars, appVars
<1>8. CASE Exit \/ Crash
  <2>1. /\ UNCHANGED <<appVars, persisted, landed, again>>
        /\ unsaved' \in SUBSET DOMAIN source /\ faults' \in Nat
    <3>1. Handed \subseteq DOMAIN source
      BY LenProperties, ElementOfSeq DEF Handed
    <3> QED
      BY <1>8, <3>1 DEF Exit, Crash, engineVars, appVars
  <2>2. Gone
    BY <1>8 DEF Exit, Crash
  <2>3. <<>> \in Seq(DOMAIN source) /\ 0 \in 0..Len(<<>>)
    BY EmptySeq
  <2> QED
    BY <2>1, <2>2, <2>3 DEF Gone, Watermarks, appVars
<1>9. CASE NextBatchFails
  <2>1. CASE ~loaded /\ UNCHANGED <<loaded, rows, last>>
    BY <1>9, <2>1 DEF NextBatchFails, engineVars, appVars
  <2>2. CASE EnsureLoaded /\ pos < Len(rows') /\ last' = Watermark(Chunk(rows', pos))
    <3>1. rows' \in Seq(DOMAIN source) /\ pos \in 0..Len(rows') /\ loaded' = TRUE
      BY <2>2, LoadedRows
    <3>2. last' \in Watermarks
      BY <2>2, <3>1, WatermarkType
    <3> QED
      BY <1>9, <3>1, <3>2 DEF NextBatchFails, engineVars, appVars
  <2> QED
    BY <1>9, <2>1, <2>2 DEF NextBatchFails
<1>10. CASE Cancel
  <2>1. faults' \in Nat
    BY <1>10 DEF Cancel
  <2>2. /\ UNCHANGED <<appVars, resume, loaded, rows, pos, last, handed>>
        /\ UNCHANGED engineVars /\ pc' = "over" /\ conn' = FALSE
    BY <1>10 DEF Cancel
  <2> QED
    BY <2>1, <2>2 DEF engineVars, appVars
<1>11. CASE UNCHANGED vars
  BY <1>11 DEF vars, pluginVars, engineVars, appVars
<1> QED
  BY <1>1, <1>2, <1>3, <1>4, <1>5, <1>6, <1>7, <1>8, <1>9, <1>10, <1>11
     DEF Next, Run

LEMMA TypesHold == Spec => []TypeInv
<1>1. Init => TypeInv
  BY InitHasTypes
<1>2. TypeInv /\ [Next]_vars => TypeInv'
  BY StepKeepsTypes
<1> QED
  BY <1>1, <1>2, PTL DEF Spec

(* Type correctness of the source plugin, run after run. *)
THEOREM TypeCorrect == Spec => []TypeOK
<1>1. TypeInv => TypeOK
  BY DEF TypeInv
<1> QED
  BY <1>1, TypesHold, PTL

---------------------------------------------------------------------------
(* The batches.  Nothing is loaded before the first next_batch, and all is *)
(* handed out after the last.                                              *)

PhaseInv ==
    /\ pc \in {"off", "configured"} => ~loaded
    /\ pc \in {"exhausted", "landed"} => loaded

BatchInv == TypeInv /\ PhaseInv /\ BatchesArePrefix

LEMMA StepKeepsBatches == BatchInv /\ [Next]_vars => BatchInv'
<1> SUFFICES ASSUME BatchInv, [Next]_vars PROVE BatchInv'
  OBVIOUS
<1> USE DEF BatchInv
<1>0. TypeInv'
  BY StepKeepsTypes
<1>1. CASE AppCommit \/ UNCHANGED vars
  <2>1. UNCHANGED <<pc, pluginVars, handed>>
    BY <1>1 DEF AppCommit, vars
  <2> QED
    BY <1>0, <2>1 DEF pluginVars, PhaseInv, BatchesArePrefix
<1>2. CASE Configure
  BY <1>0, <1>2 DEF Configure, PhaseInv, BatchesArePrefix
<1>3. CASE ResumeFrom
  BY <1>0, <1>3 DEF ResumeFrom, PhaseInv, BatchesArePrefix
<1>4. ASSUME EnsureLoaded PROVE handed = SubSeq(rows', 1, pos)
  <2>1. CASE loaded
    BY <1>4, <2>1, LoadedRows DEF BatchesArePrefix
  <2>2. CASE ~loaded
    <3>1. pos = 0 /\ rows = <<>>
      BY <1>4, <2>2, LoadedRows DEF TypeInv, NothingLoaded
    <3>2. SubSeq(rows, 1, 0) = <<>> /\ SubSeq(rows', 1, 0) = <<>>
      BY SubSeqEmpty
    <3> QED
      BY <3>1, <3>2 DEF BatchesArePrefix
  <2> QED
    BY <2>1, <2>2
<1>5. CASE NextBatch
  <2>1. /\ pc' = "reading" /\ loaded' = TRUE
        /\ pos' = NextPos(rows', pos)
        /\ handed' = handed \o Chunk(rows', pos)
    BY <1>5 DEF NextBatch, EnsureLoaded
  <2>2. handed = SubSeq(rows', 1, pos)
    BY <1>4, <1>5 DEF NextBatch
  <2>3. rows' \in Seq(DOMAIN source) /\ pos \in 0..Len(rows') /\ pos < Len(rows')
    BY <1>5, LoadedRows DEF NextBatch
  <2>4. handed' = SubSeq(rows', 1, pos')
    BY <2>1, <2>2, <2>3, ChunkContinues
  <2> QED
    BY <1>0, <2>1, <2>4 DEF PhaseInv, BatchesArePrefix
<1>6. CASE Exhausted
  <2>1. /\ pc' = "exhausted" /\ loaded' = TRUE /\ pos' = pos /\ handed' = handed
        /\ pos >= Len(rows')
    BY <1>6 DEF Exhausted, EnsureLoaded
  <2>2. handed = SubSeq(rows', 1, pos)
    BY <1>4, <1>6 DEF Exhausted
  <2>3. rows' \in Seq(DOMAIN source) /\ pos \in 0..Len(rows')
    BY <1>6, LoadedRows DEF Exhausted
  <2>4. Len(rows') \in Nat
    BY <2>3, LenProperties
  <2>5. pos = Len(rows')
    BY <2>1, <2>3, <2>4
  <2>6. handed = rows'
    BY <2>2, <2>3, <2>5, SubSeqFull
  <2> QED
    BY <1>0, <2>1, <2>2, <2>6 DEF PhaseInv, BatchesArePrefix
<1>7. CASE Land \/ LandUnanswered
  BY <1>0, <1>7 DEF Land, LandUnanswered, pluginVars, PhaseInv, BatchesArePrefix
<1>8. CASE Persist
  BY <1>0, <1>8 DEF Persist, pluginVars, PhaseInv, BatchesArePrefix
<1>9. CASE Exit \/ Crash
  <2>1. Gone
    BY <1>9 DEF Exit, Crash
  <2>2. SubSeq(<<>>, 1, 0) = <<>>
    BY SubSeqEmpty
  <2> QED
    BY <1>0, <2>1, <2>2 DEF Gone, PhaseInv, BatchesArePrefix
<1>10. CASE NextBatchFails
  <2>1. pc' = "failed" /\ pos' = pos /\ handed' = handed
    BY <1>10 DEF NextBatchFails
  <2>2. handed = SubSeq(rows', 1, pos)
    BY <1>4, <1>10 DEF NextBatchFails, BatchesArePrefix
  <2> QED
    BY <1>0, <2>1, <2>2 DEF PhaseInv, BatchesArePrefix
<1>11. CASE Cancel
  BY <1>0, <1>11 DEF Cancel, PhaseInv, BatchesArePrefix
<1> QED
  BY <1>1, <1>2, <1>3, <1>5, <1>6, <1>7, <1>8, <1>9, <1>10, <1>11 DEF Next, Run

LEMMA InitBatches == Init => BatchInv
<1> SUFFICES ASSUME Init PROVE BatchInv
  OBVIOUS
<1>1. TypeInv
  BY InitHasTypes
<1>2. SubSeq(<<>>, 1, 0) = <<>>
  BY SubSeqEmpty
<1>3. PhaseInv /\ BatchesArePrefix
  BY <1>2 DEF Init, PhaseInv, BatchesArePrefix
<1> QED
  BY <1>1, <1>3 DEF BatchInv

LEMMA BatchesHold == Spec => []BatchInv
<1>1. Init => BatchInv
  BY InitBatches
<1>2. BatchInv /\ [Next]_vars => BatchInv'
  BY StepKeepsBatches
<1> QED
  BY <1>1, <1>2, PTL DEF Spec

(* The batches of a run are the result of its query, cut into pieces: no   *)
(* row is handed out twice or left out, for every batch_size.              *)
THEOREM BatchesAreTheResult == Spec => []BatchesArePrefix
<1>1. BatchInv => BatchesArePrefix
  BY DEF BatchInv
<1> QED
  BY <1>1, BatchesHold, PTL

---------------------------------------------------------------------------
(* No row is skipped.  The persisted watermark says nothing of a row until *)
(* the run that brought it is over; what carries over from the query to    *)
(* that moment is                                                          *)
(*   QueryInv      a row that is not in the buffer is at or below the      *)
(*                 bound, has no cursor, is superseded or late, or is      *)
(*                 above all of the buffer;                                *)
(*   WatermarkInv  a watermark is the text of a row that is there, and     *)
(*                 last that of a row of the buffer.                       *)

InRows(i) == \E k \in DOMAIN rows : rows[k] = i

AboveRows(i) ==
    \A k \in DOMAIN rows : HasCursor(rows[k]) => source[i] > source[rows[k]]

QueryInv ==
    loaded => \A i \in DOMAIN source \ late :
        \/ InRows(i)
        \/ ~HasCursor(i)
        \/ Superseded(i)
        \/ Bound # NoValue /\ source[i] <= Bound
        \/ AboveRows(i)

WatermarkInv ==
    /\ last # NoValue => \E k \in DOMAIN rows :
            HasCursor(rows[k]) /\ last <= source[rows[k]]
    /\ persisted # NoValue => \E j \in DOMAIN source :
            HasCursor(j) /\ persisted <= source[j]

RunInv ==
    /\ pc \in {"reading", "exhausted", "landed"} => resume = persisted
    /\ pc = "landed" => Handed \subseteq landed

SkipInv == BatchInv /\ QueryInv /\ WatermarkInv /\ RunInv /\ NoRowSkipped

(* A row that the query does not find is at or below its bound. *)
LEMMA QueryFinds ==
    ASSUME SkipInv, EnsureLoaded, ~loaded, NEW i \in DOMAIN source
    PROVE  \/ \E k \in DOMAIN rows' : rows'[k] = i
           \/ ~HasCursor(i)
           \/ Superseded(i)
           \/ Bound # NoValue /\ source[i] <= Bound
<1>0. /\ rows' \in Results
      /\ source \in Seq(Cursors) /\ resume \in Watermarks
  BY LoadedRows DEF SkipInv, BatchInv, TypeInv, TypeOK
<1>1. CASE i \in Selected
  BY <1>0, <1>1, ResultsAreRows
<1>2. CASE i \notin Selected /\ HasCursor(i) /\ ~Superseded(i)
  <2>1. Bound # NoValue /\ ~(source[i] > Bound)
    BY <1>2 DEF Selected, PassesBound
  <2>2. Bound \in Nat /\ source[i] \in Nat
    BY <1>0, <1>2, <2>1, BoundType, CursorIsNumber DEF Watermarks
  <2> QED
    BY <2>1, <2>2
<1> QED
  BY <1>1, <1>2

(* The query, whenever it runs, establishes QueryInv. *)
LEMMA QueryRuns ==
    ASSUME SkipInv, EnsureLoaded, UNCHANGED <<source, late, resume>>
    PROVE  QueryInv'
<1>1. CASE loaded
  <2>1. rows' = rows
    BY <1>1, LoadedRows DEF SkipInv, BatchInv
  <2> QED
    BY <1>1, <2>1 DEF SkipInv, QueryInv, InRows, AboveRows, HasCursor, Superseded, Bound
<1>2. CASE ~loaded
  BY <1>2, QueryFinds DEF QueryInv, InRows, HasCursor, Superseded, Bound
<1> QED
  BY <1>1, <1>2

(* The watermark moves to the text of a row that is in the buffer. *)
LEMMA WatermarkMoves ==
    ASSUME SkipInv, EnsureLoaded, pos < Len(rows'), UNCHANGED source,
           last' = Watermark(Chunk(rows', pos))
    PROVE  last' # NoValue => \E k \in DOMAIN rows' :
                HasCursor(rows'[k]) /\ last' <= source[rows'[k]]
<1> USE DEF SkipInv, BatchInv
<1> DEFINE e == NextPos(rows', pos)
<1>1. /\ rows' \in Seq(DOMAIN source) /\ pos \in 0..Len(rows')
      /\ loaded => rows' = rows
      /\ ~loaded => last = NoValue
      /\ source \in Seq(Cursors) /\ last \in Watermarks
  BY LoadedRows DEF TypeInv, TypeOK
<1>2. /\ rows'[e] \in DOMAIN source
      /\ last' = IF HasCursor(rows'[e]) THEN Text(source[rows'[e]]) ELSE last
  BY <1>1, WatermarkType
<1>3. e \in DOMAIN rows'
  <2>1. e \in pos+1..Len(rows') /\ Len(rows') \in Nat /\ DOMAIN rows' = 1..Len(rows')
    BY <1>1, ChunkContinues, LenProperties
  <2> QED
    BY <1>1, <2>1
<1>4. CASE HasCursor(rows'[e])
  <2>1. last' <= source[rows'[e]]
    BY <1>1, <1>2, <1>4, CursorIsNumber, TextIsBelow
  <2> QED
    BY <1>3, <1>4, <2>1
<1>5. CASE ~HasCursor(rows'[e])
  BY <1>1, <1>2, <1>5 DEF WatermarkInv
<1> QED
  BY <1>4, <1>5

(* An application commit is above all that was read, and all watermarks. *)
LEMMA CommitIsAbove ==
    ASSUME SkipInv, AppCommit
    PROVE  QueryInv' /\ WatermarkInv' /\ RunInv' /\ NoRowSkipped'
<1> USE DEF SkipInv, BatchInv, TypeInv, TypeOK
<1>1. /\ source' \in Seq(Cursors)
      /\ DOMAIN source \subseteq DOMAIN source'
      /\ \A i \in DOMAIN source : source'[i] = source[i]
      /\ late \subseteq late'
      /\ \A i \in DOMAIN source : Superseded(i) => Superseded(i)'
      /\ \A i \in (DOMAIN source' \ DOMAIN source) \ late' : \A j \in DOMAIN source :
            source'[i] # NullCursor /\ HasCursor(j) => source'[i] > source[j]
  BY SourceGrows
<1>2. UNCHANGED <<pc, conn, resume, loaded, rows, pos, last, handed, persisted,
                  landed>>
  BY DEF AppCommit, pluginVars, engineVars
<1>3. \A k \in DOMAIN rows : rows[k] \in DOMAIN source
  BY LenProperties, ElementOfSeq
<1>4. ASSUME NEW i \in DOMAIN source
      PROVE  source'[i] = source[i] /\ HasCursor(i)' = HasCursor(i)
             /\ InRows(i)' = InRows(i)
  BY <1>1, <1>2 DEF HasCursor, InRows
<1>5. QueryInv'
  <2> SUFFICES ASSUME loaded, NEW i \in DOMAIN source' \ late'
               PROVE  \/ InRows(i)'
                      \/ ~HasCursor(i)'
                      \/ Superseded(i)'
                      \/ Bound # NoValue /\ source'[i] <= Bound
                      \/ AboveRows(i)'
    BY <1>2 DEF QueryInv, Bound
  <2>1. \A k \in DOMAIN rows : /\ HasCursor(rows[k])' = HasCursor(rows[k])
                               /\ source'[rows[k]] = source[rows[k]]
    BY <1>2, <1>3, <1>4 DEF HasCursor
  <2>2. CASE i \in DOMAIN source
    <3>1. AboveRows(i)' = AboveRows(i)
      BY <1>1, <1>2, <1>3, <2>1, <2>2 DEF AboveRows, HasCursor
    <3> QED
      BY <1>1, <1>4, <2>2, <3>1 DEF QueryInv
  <2>3. CASE i \notin DOMAIN source
    <3>1. \A k \in DOMAIN rows :
            source'[i] # NullCursor /\ HasCursor(rows[k]) => source'[i] > source[rows[k]]
      BY <1>1, <1>3, <2>3
    <3> QED
      BY <1>2, <2>1, <3>1 DEF AboveRows, HasCursor
  <2> QED
    BY <2>2, <2>3
<1>6. WatermarkInv'
  BY <1>1, <1>2, <1>3, <1>4 DEF WatermarkInv, HasCursor
<1>7. RunInv'
  BY <1>2 DEF RunInv, Handed
<1>8. NoRowSkipped'
  <2> SUFFICES ASSUME NEW i \in DOMAIN source' \ late', source'[i] # NullCursor,
                      persisted # NoValue, source'[i] <= persisted,
                      InitialValue # NoValue => source'[i] > InitialValue
               PROVE  i \in landed \/ Superseded(i)'
    BY <1>2 DEF NoRowSkipped, Wanted, HasCursor
  <2>1. CASE i \in DOMAIN source
    BY <1>1, <2>1 DEF NoRowSkipped, Wanted, HasCursor
  <2>2. CASE i \notin DOMAIN source
    <3>1. PICK j \in DOMAIN source : HasCursor(j) /\ persisted <= source[j]
      BY DEF WatermarkInv
    <3>2. source'[i] > source[j]
      BY <1>1, <2>2, <3>1
    <3>3. source[j] \in Nat /\ persisted \in Nat
      BY <3>1, CursorIsNumber DEF Watermarks
    <3>4. source'[i] \in Nat
      <4>1. source'[i] \in Cursors
        BY <1>1, LenProperties, ElementOfSeq
      <4> QED
        BY <4>1, CursorsAssumption
    <3> QED
      BY <3>1, <3>2, <3>3, <3>4
  <2> QED
    BY <2>1, <2>2
<1> QED
  BY <1>5, <1>6, <1>7, <1>8

(* The step that persists the watermark: every row at or below it was in   *)
(* the buffer, or was landed by an earlier run.                            *)
LEMMA PersistSkipsNothing ==
    ASSUME SkipInv, Persist
    PROVE  WatermarkInv' /\ NoRowSkipped'
<1> USE DEF SkipInv, BatchInv, TypeInv, TypeOK
<1>1. /\ pc = "landed" /\ loaded /\ handed = rows /\ resume = persisted
      /\ Handed \subseteq landed
      /\ persisted' = IF last # NoValue THEN last ELSE persisted
      /\ UNCHANGED <<source, late, loaded, rows, last, landed>>
  BY DEF Persist, CurrentWatermark, appVars, pluginVars, PhaseInv, BatchesArePrefix, RunInv
<1>2. CASE last = NoValue
  BY <1>1, <1>2 DEF WatermarkInv, NoRowSkipped, Wanted, HasCursor, Superseded
<1>3. CASE last # NoValue
  <2>1. PICK k \in DOMAIN rows : HasCursor(rows[k]) /\ last <= source[rows[k]]
    BY <1>3 DEF WatermarkInv
  <2>2. rows[k] \in DOMAIN source
    BY LenProperties, ElementOfSeq
  <2>3. source[rows[k]] \in Nat /\ last \in Nat
    BY <1>3, <2>1, <2>2, CursorIsNumber DEF Watermarks
  <2>4. WatermarkInv'
    BY <1>1, <1>3, <2>1, <2>2 DEF WatermarkInv, HasCursor
  <2>5. ASSUME NEW i \in DOMAIN source \ late, HasCursor(i), source[i] <= last,
               InitialValue # NoValue => source[i] > InitialValue
        PROVE  i \in landed \/ Superseded(i)
    <3>1. source[i] \in Nat
      BY <2>5, CursorIsNumber
    <3>2. CASE InRows(i)
      BY <1>1, <3>2 DEF InRows, Handed
    <3>3. CASE Bound # NoValue /\ source[i] <= Bound
      <4>1. CASE resume # NoValue
        BY <1>1, <2>5, <3>3, <4>1 DEF Bound, NoRowSkipped, Wanted
      <4>2. CASE resume = NoValue
        BY <2>5, <3>1, <3>3, <4>2, InitialAssumption DEF Bound
      <4> QED
        BY <4>1, <4>2
    <3>4. CASE AboveRows(i)
      <4>1. source[i] > source[rows[k]]
        BY <2>1, <3>4 DEF AboveRows
      <4> QED
        BY <2>1, <2>3, <2>5, <3>1, <4>1
    <3> QED
      BY <1>1, <2>5, <3>2, <3>3, <3>4 DEF QueryInv
  <2>6. NoRowSkipped'
    BY <1>1, <1>3, <2>5 DEF NoRowSkipped, Wanted, HasCursor, Superseded
  <2> QED
    BY <2>4, <2>6
<1> QED
  BY <1>2, <1>3

LEMMA StepSkipsNothing == SkipInv /\ [Next]_vars => SkipInv'
<1> SUFFICES ASSUME SkipInv, [Next]_vars PROVE SkipInv'
  OBVIOUS
<1>0. BatchInv'
  BY StepKeepsBatches DEF SkipInv
<1>1. CASE AppCommit
  BY <1>0, <1>1, CommitIsAbove DEF SkipInv
<1>2. CASE Configure
  <2>1. UNCHANGED <<source, late, resume, loaded, rows, last, persisted, landed, handed>>
        /\ pc' = "configured"
    BY <1>2 DEF Configure, engineVars, appVars
  <2> QED
    BY <1>0, <2>1 DEF SkipInv, QueryInv, WatermarkInv, RunInv, NoRowSkipped, Wanted, Superseded, InRows,
                      AboveRows, HasCursor, Bound
<1>3. CASE ResumeFrom
  <2>1. UNCHANGED <<source, late, loaded, rows, last, persisted, landed>>
        /\ pc' = "reading" /\ resume' = persisted /\ ~loaded
    BY <1>3 DEF ResumeFrom, engineVars, appVars, SkipInv, BatchInv, PhaseInv
  <2> QED
    BY <1>0, <2>1 DEF SkipInv, QueryInv, WatermarkInv, RunInv, NoRowSkipped, Wanted, Superseded, HasCursor
<1>4. ASSUME UNCHANGED <<source, late, persisted, landed>>
      PROVE  /\ NoRowSkipped'
             /\ persisted' # NoValue => \E j \in DOMAIN source' :
                    HasCursor(j)' /\ persisted' <= source'[j]
  BY <1>4 DEF SkipInv, WatermarkInv, NoRowSkipped, Wanted, Superseded, HasCursor
<1>5. CASE NextBatch
  <2>1. /\ EnsureLoaded /\ pos < Len(rows') /\ last' = Watermark(Chunk(rows', pos))
        /\ UNCHANGED <<source, late, resume, persisted, landed>>
        /\ pc = "reading" /\ pc' = pc
    BY <1>5 DEF NextBatch, engineVars, appVars
  <2>2. QueryInv'
    BY <2>1, QueryRuns
  <2>3. WatermarkInv'
    BY <1>4, <2>1, WatermarkMoves DEF WatermarkInv, HasCursor
  <2> QED
    BY <1>0, <1>4, <2>1, <2>2, <2>3 DEF SkipInv, RunInv
<1>6. ASSUME EnsureLoaded, UNCHANGED <<source, late, last, persisted>>
      PROVE  WatermarkInv'
  <2>1. last # NoValue => rows' = rows
    BY <1>6, LoadedRows DEF SkipInv, BatchInv
  <2> QED
    BY <1>6, <2>1 DEF SkipInv, WatermarkInv, HasCursor
<1>7. CASE Exhausted
  <2>1. /\ EnsureLoaded
        /\ UNCHANGED <<source, late, resume, last, persisted, landed>>
        /\ pc = "reading" /\ pc' = "exhausted"
    BY <1>7 DEF Exhausted, engineVars, appVars
  <2>2. QueryInv'
    BY <2>1, QueryRuns
  <2> QED
    BY <1>0, <1>4, <1>6, <2>1, <2>2 DEF SkipInv, RunInv
<1>8. CASE Land \/ LandUnanswered
  <2>1. UNCHANGED <<source, late, resume, loaded, rows, last, handed, persisted>>
        /\ pc = "exhausted" /\ pc' \in {"landed", "failed"} /\ landed' = landed \cup Handed
    BY <1>8 DEF Land, LandUnanswered, appVars, pluginVars
  <2> QED
    BY <1>0, <2>1 DEF SkipInv, QueryInv, WatermarkInv, RunInv, NoRowSkipped, Wanted, Superseded, InRows,
                      AboveRows, HasCursor, Bound, Handed
<1>9. CASE Persist
  <2>1. UNCHANGED <<source, late, resume, loaded, rows>> /\ pc' = "over"
    BY <1>9 DEF Persist, appVars, pluginVars
  <2>2. QueryInv' /\ RunInv'
    BY <2>1 DEF SkipInv, QueryInv, RunInv, Superseded, InRows, AboveRows, HasCursor, Bound
  <2> QED
    BY <1>0, <1>9, <2>2, PersistSkipsNothing DEF SkipInv
<1>10. CASE Exit \/ Crash
  <2>1. Gone /\ UNCHANGED <<source, late, persisted, landed>>
    BY <1>10 DEF Exit, Crash, engineVars, appVars
  <2> QED
    BY <1>0, <1>4, <2>1 DEF SkipInv, QueryInv, WatermarkInv, RunInv, Superseded, Gone
<1>11. CASE NextBatchFails
  <2>1. UNCHANGED <<source, late, resume, persisted, landed>> /\ pc' = "failed"
    BY <1>11 DEF NextBatchFails, engineVars, appVars
  <2>2. CASE UNCHANGED <<loaded, rows, last>>
    BY <1>0, <1>4, <2>1, <2>2 DEF SkipInv, QueryInv, WatermarkInv, RunInv, Superseded, InRows,
                                  AboveRows, HasCursor, Bound
  <2>3. CASE /\ EnsureLoaded /\ pos < Len(rows')
             /\ last' = Watermark(Chunk(rows', pos))
    <3>1. QueryInv'
      BY <2>1, <2>3, QueryRuns
    <3>2. WatermarkInv'
      BY <1>4, <2>1, <2>3, WatermarkMoves DEF WatermarkInv, HasCursor
    <3> QED
      BY <1>0, <1>4, <2>1, <3>1, <3>2 DEF SkipInv, RunInv
  <2> QED
    BY <1>11, <2>2, <2>3 DEF NextBatchFails
<1>12. CASE Cancel \/ UNCHANGED vars
  <2>1. /\ UNCHANGED <<source, late, resume, loaded, rows, last, handed, persisted, landed>>
        /\ pc' = "over" \/ pc' = pc
    BY <1>12 DEF Cancel, vars, pluginVars, engineVars, appVars
  <2> QED
    BY <1>0, <1>4, <2>1 DEF SkipInv, QueryInv, WatermarkInv, RunInv, Superseded, InRows, AboveRows,
                            HasCursor, Bound, Handed
<1> QED
  BY <1>1, <1>2, <1>3, <1>5, <1>7, <1>8, <1>9, <1>10, <1>11, <1>12 DEF Next, Run

LEMMA InitSkips == Init => SkipInv
<1> SUFFICES ASSUME Init PROVE SkipInv
  OBVIOUS
<1>1. BatchInv
  BY InitBatches
<1>2. QueryInv /\ WatermarkInv /\ RunInv /\ NoRowSkipped
  BY DEF Init, QueryInv, WatermarkInv, RunInv, NoRowSkipped
<1> QED
  BY <1>1, <1>2 DEF SkipInv

(* The persisted watermark never passes over a row that is not durable,    *)
(* whatever the precision of its text, and however runs fail, crash and    *)
(* interleave with the application's commits.                              *)
THEOREM SkipsNothing == Spec => []NoRowSkipped
<1>1. Init => SkipInv
  BY InitSkips
<1>2. SkipInv /\ [Next]_vars => SkipInv'
  BY StepSkipsNothing
<1>3. SkipInv => NoRowSkipped
  BY DEF SkipInv
<1> QED
  BY <1>1, <1>2, <1>3, PTL DEF Spec

(* A step that runs the query finds all that is still to be read: what it  *)
(* leaves out is at or below the persisted watermark, and NoRowSkipped.    *)
LEMMA QueryStepFinds ==
    ASSUME SkipInv, Next
    PROVE  ~loaded /\ loaded' =>
             \A i \in DOMAIN source \ late :
                Wanted(i) => \/ i \in landed \/ Superseded(i)
                             \/ \E k \in DOMAIN rows' : rows'[k] = i
<1>1. ASSUME ~loaded, loaded' PROVE EnsureLoaded /\ pc = "reading"
  <2>1. CASE NextBatch \/ Exhausted
    BY <2>1 DEF NextBatch, Exhausted
  <2>2. CASE NextBatchFails
    <3>1. loaded' # loaded
      BY <1>1
    <3> QED
      BY <2>2, <3>1 DEF NextBatchFails
  <2>3. CASE \/ AppCommit \/ Configure \/ ResumeFrom \/ Land \/ Persist
             \/ LandUnanswered \/ Cancel
    <3>1. loaded' = loaded
      BY <2>3 DEF AppCommit, Configure, ResumeFrom, Land, Persist, LandUnanswered,
                  Cancel, pluginVars
    <3> QED
      BY <1>1, <3>1
  <2>4. CASE Exit \/ Crash
    BY <1>1, <2>4 DEF Exit, Crash, Gone
  <2> QED
    BY <2>1, <2>2, <2>3, <2>4 DEF Next, Run
<1>2. ASSUME ~loaded, loaded', NEW i \in DOMAIN source \ late, Wanted(i)
      PROVE  \/ i \in landed \/ Superseded(i)
             \/ \E k \in DOMAIN rows' : rows'[k] = i
  <2>1. EnsureLoaded /\ resume = persisted
    BY <1>1, <1>2 DEF SkipInv, RunInv
  <2>2. HasCursor(i) /\ (InitialValue # NoValue => source[i] > InitialValue)
    BY <1>2 DEF Wanted
  <2>3. CASE Bound # NoValue /\ source[i] <= Bound
    <3>1. source[i] \in Nat
      BY <1>2, <2>2, CursorIsNumber DEF SkipInv, BatchInv, TypeInv, TypeOK
    <3>2. persisted # NoValue /\ source[i] <= persisted
      BY <2>1, <2>2, <2>3, <3>1, InitialAssumption DEF Bound
    <3> QED
      BY <1>2, <3>2 DEF SkipInv, NoRowSkipped
  <2> QED
    BY <1>2, <2>1, <2>2, <2>3, QueryFinds
<1> QED
  BY <1>2

(* Whatever became of the runs before it, the query of a run finds every   *)
(* row that is committed by then, wanted, and not durable yet.             *)
THEOREM QueryMissesNothing == Spec => QueryFindsTheRest
<1>1. SkipInv /\ [Next]_vars =>
        [~loaded /\ loaded' =>
            \A i \in DOMAIN source \ late :
                Wanted(i) => \/ i \in landed \/ Superseded(i)
                             \/ \E k \in DOMAIN rows' : rows'[k] = i]_vars
  BY QueryStepFinds
<1>2. Spec => []SkipInv
  BY InitSkips, StepSkipsNothing, PTL DEF Spec
<1> QED
  BY <1>1, <1>2, PTL DEF Spec, QueryFindsTheRest
=============================================================================
