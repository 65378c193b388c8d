-------------------------- MODULE WatermarkProofs --------------------------
(***************************************************************************)
(* Further proofs about OracleSource: the order of watermarks within a run *)
(* and from run to run.                                                    *)
(***************************************************************************)
EXTENDS OracleSourceProofs

(* The query's ORDER BY ranks cursors as `>` compares them, and none is    *)
(* NULL: rows without a cursor would come last and hide the highest.       *)
SortedAsCompared ==
    /\ NullCursor \notin Cursors
    /\ \A c, d \in Cursors : SortRank[c] <= SortRank[d] => c <= d

(* A cursor that is not below a text has a text that is not below it. *)
LEMMA TextFollows ==
    ASSUME NEW b \in Nat, NEW c \in Nat, c >= Text(b)
    PROVE  Text(c) >= Text(b)
<1> DEFINE p == b \div Tick
           q == c \div Tick
<1>1. Tick \in Nat /\ Tick > 0
  BY TickAssumption
<1>2. /\ p \in Nat /\ q \in Nat
      /\ c = Tick * q + (c % Tick) /\ c % Tick \in 0..Tick-1
  BY <1>1, SMT
<1>3. Text(b) = p * Tick /\ Text(c) = q * Tick
  BY DEF Text
<1> HIDE DEF p, q
<1>4. CASE q >= p
  <2>1. PICK d \in Nat : q = p + d
    <3>1. q - p \in Nat /\ q = p + (q - p)
      BY <1>2, <1>4
    <3> QED
      BY <3>1
  <2>2. q * Tick = p * Tick + d * Tick /\ d * Tick \in Nat /\ p * Tick \in Nat
    BY <1>1, <1>2, <2>1, Z3
  <2> QED
    BY <1>3, <2>2
<1>5. CASE q < p
  <2>1. PICK d \in Nat : p = q + 1 + d
    <3>1. p - q - 1 \in Nat /\ p = q + 1 + (p - q - 1)
      BY <1>2, <1>5
    <3> QED
      BY <3>1
  <2>2. /\ p * Tick = Tick * q + Tick + d * Tick
        /\ d * Tick \in Nat /\ Tick * q \in Nat
    BY <1>1, <1>2, <2>1, Z3
  <2>3. c < p * Tick
    BY <1>1, <1>2, <2>2
  <2> QED
    BY <1>2, <1>3, <2>3, <2>2, <1>1
<1> QED
  BY <1>2, <1>4, <1>5

---------------------------------------------------------------------------
(* Watermarks never move back.  A run that resumes reads only rows above   *)
(* the watermark it resumed from, which is itself a text: their texts are  *)
(* not below it.                                                           *)

IsText(w) == w # NoValue => \E c \in Nat : w = Text(c)

RowsAboveResume ==
    resume # NoValue =>
        \A k \in DOMAIN rows : HasCursor(rows[k]) /\ source[rows[k]] > resume

ForwardInv ==
    /\ IsText(last) /\ IsText(resume) /\ IsText(persisted)
    /\ RowsAboveResume
    /\ resume # NoValue /\ last # NoValue => last >= resume

MoveInv == SkipInv /\ ForwardInv

(* What next_batch may buffer, and the watermark it may set from it. *)
LEMMA RowsStayAbove ==
    ASSUME MoveInv, EnsureLoaded, UNCHANGED <<source, resume>>
    PROVE  RowsAboveResume'
<1> USE DEF MoveInv, SkipInv, BatchInv
<1>1. CASE loaded
  BY <1>1 DEF EnsureLoaded, ForwardInv, RowsAboveResume, HasCursor
<1>2. CASE ~loaded /\ resume # NoValue
  <2>1. rows' \in Results
    BY <1>2, LoadedRows
  <2>2. \A k \in DOMAIN rows' : rows'[k] \in Selected
    BY <2>1 DEF Results
  <2>3. \A i \in Selected : HasCursor(i) /\ source[i] > resume
    BY <1>2 DEF Selected, PassesBound, Bound
  <2> QED
    BY <2>2, <2>3 DEF RowsAboveResume, HasCursor
<1> QED
  BY <1>1, <1>2 DEF RowsAboveResume

LEMMA WatermarkFollows ==
    ASSUME MoveInv, EnsureLoaded, pos < Len(rows'), UNCHANGED <<source, resume>>,
           last' = Watermark(Chunk(rows', pos))
    PROVE  IsText(last)' /\ (resume' # NoValue /\ last' # NoValue => last' >= resume')
<1> USE DEF MoveInv, SkipInv, BatchInv
<1> DEFINE i == rows'[NextPos(rows', pos)]
<1>1. /\ rows' \in Seq(DOMAIN source) /\ pos \in 0..Len(rows')
      /\ source \in Seq(Cursors) /\ last \in Watermarks
  BY LoadedRows DEF TypeInv, TypeOK
<1>2. i \in DOMAIN source /\ last' = IF HasCursor(i) THEN Text(source[i]) ELSE last
  BY <1>1, WatermarkType
<1>3. NextPos(rows', pos) \in DOMAIN rows'
  <2>1. NextPos(rows', pos) \in pos+1..Len(rows') /\ Len(rows') \in Nat
        /\ DOMAIN rows' = 1..Len(rows')
    BY <1>1, ChunkContinues, LenProperties
  <2> QED
    BY <1>1, <2>1
<1> HIDE DEF i
<1>4. CASE HasCursor(i)
  <2>1. source[i] \in Nat
    BY <1>1, <1>2, <1>4, CursorIsNumber
  <2>2. IsText(last)'
    BY <1>2, <1>4, <2>1 DEF IsText, Text
  <2>3. ASSUME resume # NoValue PROVE last' >= resume
    <3>1. source[i] > resume
      BY <1>3, <2>3, RowsStayAbove DEF RowsAboveResume, i
    <3>2. PICK c \in Nat : resume = Text(c)
      BY <2>3 DEF ForwardInv, IsText
    <3>3. Text(c) \in Nat
      BY TextIsBelow
    <3>4. source[i] >= Text(c)
      BY <2>1, <3>1, <3>2, <3>3
    <3> QED
      BY <1>2, <1>4, <2>1, <3>2, <3>4, TextFollows
  <2> QED
    BY <2>2, <2>3
<1>5. CASE ~HasCursor(i)
  BY <1>2, <1>5 DEF ForwardInv, IsText, Text
<1> QED
  BY <1>4, <1>5

LEMMA StepMovesForward ==
    MoveInv /\ [Next]_vars
        => MoveInv' /\ (persisted # NoValue => persisted' # NoValue /\ persisted' >= persisted)
<1> SUFFICES ASSUME MoveInv, [Next]_vars
             PROVE  /\ MoveInv'
                    /\ persisted # NoValue => persisted' # NoValue /\ persisted' >= persisted
  OBVIOUS
<1> USE DEF MoveInv
<1>0. SkipInv' /\ persisted \in Watermarks
  BY StepSkipsNothing DEF SkipInv, BatchInv, TypeInv, TypeOK
<1>00. persisted # NoValue => persisted >= persisted
  BY <1>0 DEF Watermarks
<1>1. CASE AppCommit
  <2>1. UNCHANGED <<resume, rows, last, persisted>>
    BY <1>1 DEF AppCommit, pluginVars, engineVars
  <2>2. \A k \in DOMAIN rows : rows[k] \in DOMAIN source /\ source'[rows[k]] = source[rows[k]]
    <3>1. source \in Seq(Cursors) /\ rows \in Seq(DOMAIN source)
      BY DEF SkipInv, BatchInv, TypeInv, TypeOK
    <3> QED
      BY <1>1, <3>1, SourceGrows, LenProperties, ElementOfSeq
  <2> QED
    BY <1>0, <1>00, <2>1, <2>2 DEF ForwardInv, IsText, Text, RowsAboveResume, HasCursor
<1>2. ASSUME UNCHANGED <<source, resume, rows, last, persisted>>
      PROVE  ForwardInv'
  BY <1>2 DEF ForwardInv, IsText, Text, RowsAboveResume, HasCursor
<1>3. CASE Configure \/ Land \/ LandUnanswered \/ Cancel \/ UNCHANGED vars
  <2>1. UNCHANGED <<source, resume, rows, last, persisted>>
    BY <1>3 DEF Configure, Land, LandUnanswered, Cancel, vars, appVars, pluginVars, engineVars
  <2> QED
    BY <1>0, <1>00, <1>2, <2>1
<1>4. CASE ResumeFrom
  <2>1. /\ UNCHANGED <<source, rows, last, persisted>> /\ resume' = persisted
        /\ ~loaded
    BY <1>4 DEF ResumeFrom, appVars, engineVars, SkipInv, BatchInv, PhaseInv
  <2>2. rows = <<>> /\ last = NoValue
    BY <2>1 DEF SkipInv, BatchInv, TypeInv, NothingLoaded
  <2> QED
    BY <1>0, <1>00, <2>1, <2>2, EmptySeq DEF ForwardInv, IsText, Text, RowsAboveResume
<1>5. CASE NextBatch
  <2>1. /\ EnsureLoaded /\ pos < Len(rows') /\ last' = Watermark(Chunk(rows', pos))
        /\ UNCHANGED <<source, resume, persisted>>
    BY <1>5 DEF NextBatch, engineVars, appVars
  <2>2. RowsAboveResume' /\ IsText(last)'
        /\ (resume' # NoValue /\ last' # NoValue => last' >= resume')
    BY <2>1, RowsStayAbove, WatermarkFollows
  <2>3. IsText(resume)' /\ IsText(persisted)'
    BY <2>1 DEF ForwardInv, IsText, Text
  <2> QED
    BY <1>0, <1>00, <2>1, <2>2, <2>3 DEF ForwardInv
<1>6. CASE Exhausted
  <2>1. EnsureLoaded /\ UNCHANGED <<source, resume, last, persisted>>
    BY <1>6 DEF Exhausted, engineVars, appVars
  <2>2. RowsAboveResume'
    BY <2>1, RowsStayAbove
  <2>3. IsText(resume)' /\ IsText(persisted)' /\ IsText(last)'
    BY <2>1 DEF ForwardInv, IsText, Text
  <2> QED
    BY <1>0, <1>00, <2>1, <2>2, <2>3 DEF ForwardInv
<1>7. CASE Persist
  <2>1. /\ UNCHANGED <<source, resume, rows, last>> /\ resume = persisted
        /\ persisted' = IF last # NoValue THEN last ELSE persisted
    BY <1>7 DEF Persist, CurrentWatermark, appVars, pluginVars, SkipInv, RunInv
  <2>2. ForwardInv'
    BY <2>1 DEF ForwardInv, IsText, Text, RowsAboveResume, HasCursor
  <2>3. persisted # NoValue => persisted' # NoValue /\ persisted' >= persisted
    BY <1>00, <2>1 DEF ForwardInv
  <2> QED
    BY <1>0, <2>2, <2>3
<1>8. CASE Exit \/ Crash
  <2>1. Gone /\ UNCHANGED <<source, persisted>>
    BY <1>8 DEF Exit, Crash, engineVars, appVars
  <2> QED
    BY <1>0, <1>00, <2>1, EmptySeq DEF Gone, ForwardInv, IsText, Text, RowsAboveResume
<1>9. CASE NextBatchFails
  <2>1. UNCHANGED <<source, resume, persisted>>
    BY <1>9 DEF NextBatchFails, engineVars, appVars
  <2>2. CASE UNCHANGED <<loaded, rows, last>>
    BY <1>0, <1>00, <1>2, <2>1, <2>2
  <2>3. CASE EnsureLoaded /\ pos < Len(rows') /\ last' = Watermark(Chunk(rows', pos))
    <3>1. RowsAboveResume' /\ IsText(last)'
          /\ (resume' # NoValue /\ last' # NoValue => last' >= resume')
      BY <2>1, <2>3, RowsStayAbove, WatermarkFollows
    <3>2. IsText(resume)' /\ IsText(persisted)'
      BY <2>1 DEF ForwardInv, IsText, Text
    <3> QED
      BY <1>0, <1>00, <2>1, <3>1, <3>2 DEF ForwardInv
  <2> QED
    BY <1>9, <2>2, <2>3 DEF NextBatchFails
<1> QED
  BY <1>1, <1>3, <1>4, <1>5, <1>6, <1>7, <1>8, <1>9 DEF Next, Run

LEMMA InitMoves == Init => MoveInv
<1> SUFFICES ASSUME Init PROVE MoveInv
  OBVIOUS
<1>1. ForwardInv
  BY EmptySeq DEF Init, ForwardInv, IsText, RowsAboveResume
<1> QED
  BY <1>1, InitSkips DEF MoveInv

LEMMA MovesForward == Spec => []MoveInv
  BY InitMoves, StepMovesForward, PTL DEF Spec

(* The persisted watermark never moves back, whatever the precision of its *)
(* text, also when a run that failed or crashed is repeated.               *)
THEOREM NeverBack == Spec => WatermarkNeverBack
<1>1. MoveInv /\ [Next]_vars
        => [persisted # NoValue => persisted' # NoValue /\ persisted' >= persisted]_vars
  BY StepMovesForward
<1> QED
  BY <1>1, MovesForward, PTL DEF Spec, WatermarkNeverBack

---------------------------------------------------------------------------
(* Within a run, the buffer is in ascending order, and the watermark is    *)
(* the text of the row that was handed out last.                           *)

SortedRows ==
    \A j, k \in DOMAIN rows : j < k => source[rows[j]] <= source[rows[k]]

LastHandedOut ==
    pc \in {"reading", "exhausted", "landed"} /\ pos > 0
        => last = Text(source[rows[pos]])

OrderInv == MoveInv /\ SortedRows /\ LastHandedOut

LEMMA AllHaveCursors ==
    ASSUME SortedAsCompared, source \in Seq(Cursors), NEW i \in DOMAIN source
    PROVE  HasCursor(i) /\ source[i] \in Cursors /\ source[i] \in Nat
<1>1. source[i] \in Cursors
  BY LenProperties, ElementOfSeq
<1>2. HasCursor(i)
  BY <1>1 DEF SortedAsCompared, HasCursor
<1> QED
  BY <1>1, <1>2, CursorIsNumber

(* The query sorts what it finds. *)
LEMMA RowsAreSorted ==
    ASSUME SortedAsCompared, OrderInv, EnsureLoaded, UNCHANGED source
    PROVE  SortedRows'
<1> USE DEF OrderInv, MoveInv, SkipInv, BatchInv
<1>1. CASE loaded
  BY <1>1 DEF EnsureLoaded, SortedRows
<1>2. CASE ~loaded
  <2>1. rows' \in Results /\ rows' \in Seq(DOMAIN source) /\ source \in Seq(Cursors)
    BY <1>2, LoadedRows DEF TypeInv, TypeOK
  <2> SUFFICES ASSUME NEW j \in DOMAIN rows', NEW k \in DOMAIN rows', j < k
               PROVE  source[rows'[j]] <= source[rows'[k]]
    BY DEF SortedRows
  <2>2. NotAfter(rows'[j], rows'[k])
    BY <2>1 DEF Results
  <2>3. rows'[j] \in DOMAIN source /\ rows'[k] \in DOMAIN source
    BY <2>1, LenProperties, ElementOfSeq
  <2>4. /\ HasCursor(rows'[k])
        /\ source[rows'[j]] \in Cursors /\ source[rows'[k]] \in Cursors
    BY <2>1, <2>3, AllHaveCursors
  <2> QED
    BY <2>2, <2>4 DEF NotAfter, SortedAsCompared
<1> QED
  BY <1>1, <1>2

LEMMA StepKeepsOrder ==
    ASSUME SortedAsCompared, OrderInv, [Next]_vars
    PROVE  OrderInv'
<1> USE DEF OrderInv
<1>0. MoveInv'
  BY StepMovesForward
<1>a. source \in Seq(Cursors) /\ rows \in Seq(DOMAIN source)
  BY DEF MoveInv, SkipInv, BatchInv, TypeInv, TypeOK
<1>b. ~loaded => rows = <<>> /\ pos = 0
  <2>1. ~loaded => rows = <<>> /\ pos \in 0..Len(rows)
    BY DEF MoveInv, SkipInv, BatchInv, TypeInv, TypeOK, NothingLoaded
  <2> QED
    BY <2>1, EmptySeq
<1>1. CASE AppCommit
  <2>1. UNCHANGED <<pc, rows, pos, last>>
    BY <1>1 DEF AppCommit, pluginVars
  <2>2. \A k \in DOMAIN rows : source'[rows[k]] = source[rows[k]]
    BY <1>1, <1>a, SourceGrows, LenProperties, ElementOfSeq
  <2>3. pos > 0 => pos \in DOMAIN rows
    <3>1. pos \in 0..Len(rows) /\ DOMAIN rows = 1..Len(rows) /\ Len(rows) \in Nat
      BY <1>a, LenProperties DEF MoveInv, SkipInv, BatchInv, TypeInv, TypeOK
    <3> QED
      BY <3>1
  <2> QED
    BY <1>0, <2>1, <2>2, <2>3 DEF SortedRows, LastHandedOut, Text
<1>2. CASE Configure
  BY <1>0, <1>2 DEF Configure, appVars, SortedRows, LastHandedOut
<1>3. CASE ResumeFrom
  <2>1. UNCHANGED <<source, rows, pos>> /\ ~loaded
    BY <1>3 DEF ResumeFrom, appVars, MoveInv, SkipInv, BatchInv, PhaseInv
  <2> QED
    BY <1>0, <1>b, <2>1 DEF SortedRows, LastHandedOut
<1>4. CASE NextBatch
  <2>1. /\ EnsureLoaded /\ pos < Len(rows') /\ last' = Watermark(Chunk(rows', pos))
        /\ UNCHANGED source /\ pos' = NextPos(rows', pos)
    BY <1>4 DEF NextBatch, appVars
  <2>2. rows' \in Seq(DOMAIN source) /\ pos \in 0..Len(rows') /\ last \in Watermarks
    BY <2>1, LoadedRows DEF MoveInv, SkipInv, BatchInv, TypeInv, TypeOK
  <2>3. /\ rows'[pos'] \in DOMAIN source
        /\ last' = IF HasCursor(rows'[pos']) THEN Text(source[rows'[pos']]) ELSE last
    BY <1>a, <2>1, <2>2, WatermarkType
  <2>4. last' = Text(source[rows'[pos']])
    BY <1>a, <2>3, AllHaveCursors
  <2> QED
    BY <1>0, <2>1, <2>4, RowsAreSorted DEF LastHandedOut, Text
<1>5. CASE Exhausted
  <2>1. EnsureLoaded /\ UNCHANGED <<source, pos, last>> /\ pc = "reading"
    BY <1>5 DEF Exhausted, appVars
  <2>2. loaded => rows' = rows
    BY <2>1 DEF EnsureLoaded
  <2> QED
    BY <1>0, <1>b, <2>1, <2>2, RowsAreSorted DEF LastHandedOut, Text
<1>6. CASE Land \/ LandUnanswered \/ Persist \/ Cancel \/ UNCHANGED vars
  <2>1. /\ UNCHANGED <<source, rows, pos, last>>
        /\ pc' \in {"reading", "exhausted", "landed"} =>
              pc \in {"reading", "exhausted", "landed"}
    BY <1>6 DEF Land, LandUnanswered, Persist, Cancel, vars, appVars, pluginVars
  <2> QED
    BY <1>0, <2>1 DEF SortedRows, LastHandedOut, Text
<1>7. CASE Exit \/ Crash
  <2>1. Gone
    BY <1>7 DEF Exit, Crash
  <2> QED
    BY <1>0, <2>1, EmptySeq DEF Gone, SortedRows, LastHandedOut
<1>8. CASE NextBatchFails
  <2>1. pc' = "failed" /\ UNCHANGED source
    BY <1>8 DEF NextBatchFails, appVars
  <2>2. SortedRows'
    <3>1. CASE UNCHANGED rows
      BY <2>1, <3>1 DEF SortedRows
    <3>2. CASE EnsureLoaded
      BY <2>1, <3>2, RowsAreSorted
    <3> QED
      BY <1>8, <3>1, <3>2 DEF NextBatchFails
  <2> QED
    BY <1>0, <2>1, <2>2 DEF LastHandedOut
<1> QED
  BY <1>1, <1>2, <1>3, <1>4, <1>5, <1>6, <1>7, <1>8 DEF Next, Run

LEMMA InitOrder == Init => OrderInv
<1> SUFFICES ASSUME Init PROVE OrderInv
  OBVIOUS
<1>1. SortedRows /\ LastHandedOut
  BY EmptySeq DEF Init, SortedRows, LastHandedOut
<1> QED
  BY <1>1, InitMoves DEF OrderInv

LEMMA OrderHolds == SortedAsCompared => (Spec => []OrderInv)
<1> SUFFICES ASSUME SortedAsCompared PROVE Spec => []OrderInv
  OBVIOUS
<1>1. Init => OrderInv
  BY InitOrder
<1>2. OrderInv /\ [Next]_vars => OrderInv'
  BY StepKeepsOrder
<1> QED
  BY <1>1, <1>2, PTL DEF Spec

(* What was handed out is at or below the last row that was. *)
LEMMA LastIsHighest ==
    ASSUME SortedAsCompared, OrderInv, pc \in {"reading", "exhausted", "landed"},
           NEW i \in Handed
    PROVE  /\ i \in DOMAIN source /\ source[i] \in Nat /\ HasCursor(i)
           /\ \E c \in Nat : last = Text(c) /\ source[i] <= c
<1> USE DEF OrderInv, MoveInv, SkipInv, BatchInv, TypeInv, TypeOK
<1>1. /\ rows \in Seq(DOMAIN source) /\ source \in Seq(Cursors)
      /\ pos \in 0..Len(rows) /\ Len(rows) \in Nat /\ DOMAIN rows = 1..Len(rows)
      /\ handed = SubSeq(rows, 1, pos)
  BY LenProperties DEF BatchesArePrefix
<1>2. /\ handed \in Seq(DOMAIN source) /\ Len(handed) = pos
      /\ \A k \in 1..pos : handed[k] = rows[k]
  <2>1. /\ SubSeq(rows, 1, pos) \in Seq(DOMAIN source)
        /\ Len(SubSeq(rows, 1, pos)) = IF 1 <= pos THEN pos - 1 + 1 ELSE 0
        /\ \A k \in 1..(pos - 1 + 1) : SubSeq(rows, 1, pos)[k] = rows[1 + k - 1]
    BY <1>1, SubSeqProperties
  <2>2. \A k \in 1..pos : k \in 1..(pos - 1 + 1) /\ 1 + k - 1 = k
    BY <1>1
  <2>3. Len(handed) = pos
    BY <1>1, <2>1
  <2> QED
    BY <1>1, <2>1, <2>2, <2>3
<1>3. PICK k \in 1..pos : i = rows[k]
  <2>1. DOMAIN handed = 1..pos
    BY <1>2, LenProperties
  <2> QED
    BY <1>2, <2>1 DEF Handed
<1>4. pos > 0 /\ k \in DOMAIN rows /\ pos \in DOMAIN rows /\ (k < pos \/ k = pos)
  BY <1>1, <1>3
<1>5. i \in DOMAIN source /\ rows[pos] \in DOMAIN source
  BY <1>1, <1>3, <1>4, ElementOfSeq
<1>6. /\ HasCursor(i) /\ source[i] \in Nat /\ source[rows[pos]] \in Nat
  BY <1>1, <1>5, AllHaveCursors
<1>7. source[i] <= source[rows[pos]]
  <2>1. CASE k < pos
    BY <1>3, <1>4, <2>1 DEF SortedRows
  <2>2. CASE k = pos
    BY <1>3, <1>6, <2>2
  <2> QED
    BY <1>4, <2>1, <2>2
<1>8. last = Text(source[rows[pos]])
  BY <1>4 DEF LastHandedOut
<1> QED
  BY <1>5, <1>6, <1>7, <1>8

(* The watermark of a run is at or above every row it has handed out, as   *)
(* the comment in next_batch claims, if the query's order is the order of  *)
(* the cursors and no cursor is NULL.                                      *)
THEOREM HighestIsLast == SortedAsCompared => (Spec => []WatermarkIsHighest)
<1> SUFFICES ASSUME SortedAsCompared PROVE Spec => []WatermarkIsHighest
  OBVIOUS
<1>1. OrderInv => WatermarkIsHighest
  <2> SUFFICES ASSUME OrderInv, pc = "reading", NEW i \in Handed
               PROVE  last # NoValue /\ Text(source[i]) <= last
    BY DEF WatermarkIsHighest
  <2>1. source[i] \in Nat
    BY LastIsHighest
  <2>2. PICK c \in Nat : last = Text(c) /\ source[i] <= c
    BY LastIsHighest
  <2>3. /\ Text(source[i]) \in Nat /\ Text(source[i]) <= source[i]
        /\ Text(c) \in Nat
    BY <2>1, TextIsBelow
  <2>4. Text(c) >= Text(source[i])
    BY <2>1, <2>2, <2>3, TextFollows
  <2> QED
    BY <2>2, <2>3, <2>4, CursorsAssumption
<1>2. Spec => []OrderInv
  BY OrderHolds
<1> QED
  BY <1>1, <1>2, PTL

---------------------------------------------------------------------------
(* From run to run.  A row that landed is at or below the persisted        *)
(* watermark, and no later query finds it, unless its run is not over, or  *)
(* ended before it persisted.                                              *)

LandedIsBelow ==
    \A i \in landed \ unsaved :
        \/ persisted # NoValue /\ source[i] <= persisted
        \/ pc = "landed" /\ i \in Handed

ReadInv == OrderInv /\ LandedIsBelow /\ ReadOnce

LEMMA TextIsExact == Tick = 1 => \A c \in Nat : Text(c) = c
  BY SMT DEF Text

(* A row that a run hands out was above the watermark it resumed from. *)
LEMMA HandedIsAbove ==
    ASSUME SortedAsCompared, OrderInv, pc \in {"exhausted", "landed"},
           persisted # NoValue, NEW i \in Handed
    PROVE  source[i] > persisted
<1> USE DEF OrderInv, MoveInv, SkipInv, BatchInv
<1>1. resume = persisted /\ handed = rows
  BY DEF RunInv, BatchesArePrefix
<1> QED
  BY <1>1 DEF ForwardInv, RowsAboveResume, Handed

(* The rows that a run lands again were landed by one that did not persist. *)
LEMMA RepeatsAreUnsaved ==
    ASSUME SortedAsCompared, ReadInv, pc = "exhausted"
    PROVE  landed \cap Handed \subseteq unsaved
<1> USE DEF ReadInv
<1> SUFFICES ASSUME NEW i \in landed, i \in Handed, i \notin unsaved PROVE FALSE
  OBVIOUS
<1>1. persisted # NoValue /\ source[i] <= persisted
  BY DEF LandedIsBelow
<1>2. source[i] > persisted
  BY <1>1, HandedIsAbove
<1>3. persisted \in Watermarks /\ source[i] \in Nat
  BY AllHaveCursors DEF OrderInv, MoveInv, SkipInv, BatchInv, TypeInv, TypeOK
<1> QED
  BY <1>1, <1>2, <1>3 DEF Watermarks

LEMMA StepReadsOnce ==
    ASSUME SortedAsCompared, Tick = 1, ReadInv, [Next]_vars
    PROVE  ReadInv'
<1> USE DEF ReadInv
<1>0. OrderInv'
  BY StepKeepsOrder
<1>a. /\ source \in Seq(Cursors) /\ handed \in Seq(DOMAIN source)
      /\ landed \subseteq DOMAIN source
      /\ persisted \in Watermarks /\ last \in Watermarks
      /\ \A i \in DOMAIN source : source[i] \in Nat
  <2>1. /\ source \in Seq(Cursors) /\ handed \in Seq(DOMAIN source)
        /\ landed \subseteq DOMAIN source
        /\ persisted \in Watermarks /\ last \in Watermarks
    BY DEF OrderInv, MoveInv, SkipInv, BatchInv, TypeInv, TypeOK
  <2> QED
    BY <2>1, AllHaveCursors
<1>1. CASE AppCommit
  <2>1. UNCHANGED <<pc, handed, persisted, landed, again, unsaved>>
    BY <1>1 DEF AppCommit, pluginVars, engineVars
  <2>2. \A i \in landed : source'[i] = source[i]
    BY <1>1, <1>a, SourceGrows
  <2> QED
    BY <1>0, <2>1, <2>2 DEF LandedIsBelow, ReadOnce, Handed
<1>2. CASE Configure \/ ResumeFrom \/ NextBatch \/ Exhausted \/ NextBatchFails
  <2>1. /\ UNCHANGED <<source, persisted, landed, again, unsaved>> /\ pc # "landed"
    BY <1>2 DEF Configure, ResumeFrom, NextBatch, Exhausted, NextBatchFails,
                appVars, engineVars
  <2> QED
    BY <1>0, <2>1 DEF LandedIsBelow, ReadOnce
<1>3. CASE Land
  <2>1. /\ pc = "exhausted" /\ pc' = "landed" /\ landed' = landed \cup Handed
        /\ again' = again \cup (landed \cap Handed)
        /\ UNCHANGED <<source, handed, persisted, unsaved>>
    BY <1>3 DEF Land, appVars
  <2> QED
    BY <1>0, <2>1, RepeatsAreUnsaved DEF LandedIsBelow, ReadOnce, Handed
<1>4. CASE LandUnanswered
  <2>1. /\ pc = "exhausted" /\ landed' = landed \cup Handed
        /\ again' = again \cup (landed \cap Handed) /\ unsaved' = unsaved \cup Handed
        /\ UNCHANGED <<source, handed, persisted>>
    BY <1>4 DEF LandUnanswered, appVars
  <2> QED
    BY <1>0, <2>1, RepeatsAreUnsaved DEF LandedIsBelow, ReadOnce, Handed
<1>5. CASE Persist
  <2>1. /\ pc = "landed"
        /\ persisted' = IF last # NoValue THEN last ELSE persisted
        /\ UNCHANGED <<source, landed, again, unsaved>>
    BY <1>5 DEF Persist, CurrentWatermark, appVars
  <2>2. persisted # NoValue => persisted' # NoValue /\ persisted' >= persisted
    BY StepMovesForward DEF OrderInv
  <2>3. ASSUME NEW i \in Handed
        PROVE  persisted' # NoValue /\ source[i] <= persisted'
    <3>1. PICK c \in Nat : last = Text(c) /\ source[i] <= c
      BY <2>1, LastIsHighest
    <3>2. last = c /\ last # NoValue
      BY <3>1, TextIsExact, CursorsAssumption
    <3> QED
      BY <2>1, <3>1, <3>2
  <2>4. persisted' \in Watermarks
    BY <1>a, <2>1
  <2>5. ASSUME NEW i \in landed, i \notin unsaved
        PROVE  persisted' # NoValue /\ source[i] <= persisted'
    <3>1. source[i] \in Nat
      BY <1>a
    <3>2. CASE i \in Handed
      BY <2>3, <3>2
    <3>3. CASE persisted # NoValue /\ source[i] <= persisted
      BY <1>a, <2>2, <2>4, <3>1, <3>3 DEF Watermarks
    <3> QED
      BY <2>5, <3>2, <3>3 DEF LandedIsBelow
  <2> QED
    BY <1>0, <2>1, <2>5 DEF LandedIsBelow, ReadOnce
<1>6. CASE Exit \/ Crash
  <2>1. /\ UNCHANGED <<source, persisted, landed, again>> /\ unsaved \subseteq unsaved'
        /\ pc = "landed" => Handed \subseteq unsaved'
    BY <1>6 DEF Exit, Crash, appVars, engineVars
  <2> QED
    BY <1>0, <2>1 DEF LandedIsBelow, ReadOnce
<1>7. CASE Cancel
  <2>1. UNCHANGED <<source, persisted, landed, again, unsaved>> /\ pc # "landed"
    BY <1>7 DEF Cancel, appVars, engineVars
  <2> QED
    BY <1>0, <2>1 DEF LandedIsBelow, ReadOnce
<1>8. CASE UNCHANGED vars
  <2>1. UNCHANGED <<source, pc, handed, persisted, landed, again, unsaved>>
    BY <1>8 DEF vars, appVars, engineVars
  <2> QED
    BY <1>0, <2>1 DEF LandedIsBelow, ReadOnce, Handed
<1> QED
  BY <1>1, <1>2, <1>3, <1>4, <1>5, <1>6, <1>7, <1>8 DEF Next, Run

(* With cursors that are rendered exactly, sorted as they are compared and *)
(* never NULL, a run reads strictly after the watermark: a row lands again *)
(* only if its run could not persist.                                      *)
THEOREM ReadsOnce == SortedAsCompared /\ Tick = 1 => (Spec => []ReadOnce)
<1> SUFFICES ASSUME SortedAsCompared, Tick = 1 PROVE Spec => []ReadOnce
  OBVIOUS
<1>1. Init => ReadInv
  <2> SUFFICES ASSUME Init PROVE ReadInv
    OBVIOUS
  <2>1. LandedIsBelow /\ ReadOnce
    BY DEF Init, LandedIsBelow, ReadOnce
  <2> QED
    BY <2>1, InitOrder DEF ReadInv
<1>2. ReadInv /\ [Next]_vars => ReadInv'
  BY StepReadsOnce
<1>3. ReadInv => ReadOnce
  BY DEF ReadInv
<1> QED
  BY <1>1, <1>2, <1>3, PTL DEF Spec
=============================================================================
