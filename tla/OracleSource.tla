--------------------------- MODULE OracleSource ---------------------------
(***************************************************************************)
(* OracleSourcePlugin (connector/src/source.rs): incremental reads of an   *)
(* Oracle query, run after run, while the application goes on committing   *)
(* rows.                                                                   *)
(*                                                                         *)
(* A run is a plugin process: configure, resume_from with the persisted    *)
(* watermark, then next_batch until it returns None.  The engine, outside  *)
(* this repository, asks current_watermark and persists it once the        *)
(* destination has made the rows of the run durable ("the core persists    *)
(* the high watermark and hands it back on the next run").                 *)
(*                                                                         *)
(* A version of a row is its position in the application's commit order;   *)
(* all that is known of it is its primary key and the value of             *)
(* cursor_column.  An UPDATE is a new version of the same key: the older   *)
(* one is not in the table any more, and no query sees it.                 *)
(***************************************************************************)
EXTENDS Naturals, FiniteSets, Sequences

CONSTANTS
    Cursors,        \* the values that cursor_column can have
    NullCursor,     \* NULL
    NoValue,        \* stands for a watermark that is not there (None)
    Tick,           \* TO_CHAR renders a cursor value down to a multiple of it
    InitialValue,   \* incremental.initial_value, or NoValue
    BatchSize,      \* batch_size, at least 1 after configure
    SortRank,       \* SortRank[c]: the place of c in an ORDER BY (NLS_SORT)
    RowKey,         \* RowKey[i]: the primary key of the i-th version
    InOrder,        \* the application commits its cursors in ascending order
    MaxRows,        \* bound: versions the application commits
    MaxFaults       \* bound: crashes, and runs that fail

ASSUME CursorsAssumption ==
    /\ Cursors \subseteq Nat \cup {NullCursor}
    /\ NullCursor \notin Nat
    /\ NoValue \notin Nat
ASSUME TickAssumption == Tick \in Nat \ {0}
ASSUME InitialAssumption == InitialValue \in Nat \cup {NoValue}
ASSUME BatchSizeAssumption == BatchSize \in Nat \ {0}

VARIABLES
    source,         \* the committed versions: source[i] is the cursor of i
    late,           \* those whose cursor was not above all committed before
    (* The plugin process: fields of OracleSourcePlugin. *)
    pc,             \* where the run stands
    conn,           \* conn is set
    resume,         \* resume_value, or NoValue
    loaded,         \* loaded
    rows,           \* rows, the buffered result of the query
    pos,            \* pos, how many of them were handed out
    last,           \* last_cursor_value, or NoValue
    (* The engine. *)
    handed,         \* the rows this run handed to the destination
    persisted,      \* the persisted watermark, or NoValue
    landed,         \* the rows that are durable in the destination
    (* History. *)
    again,          \* the rows that landed more than once
    unsaved,        \* the rows that landed in a run that did not persist
    faults

appVars == <<source, late>>
pluginVars == <<conn, resume, loaded, rows, pos, last>>
engineVars == <<persisted, landed, again, unsaved>>
vars == <<appVars, pc, pluginVars, handed, engineVars, faults>>

Init ==
    /\ source = <<>>
    /\ late = {}
    /\ pc = "off"
    /\ conn = FALSE
    /\ resume = NoValue
    /\ loaded = FALSE
    /\ rows = <<>>
    /\ pos = 0
    /\ last = NoValue
    /\ handed = <<>>
    /\ persisted = NoValue
    /\ landed = {}
    /\ again = {}
    /\ unsaved = {}
    /\ faults = 0

HasCursor(i) == source[i] # NullCursor

(* A later version of the same row is committed. *)
Superseded(i) == \E j \in DOMAIN source : j > i /\ RowKey[j] = RowKey[i]

---------------------------------------------------------------------------
(* The query. *)

(* Mutant: the rendered value is rounded up. *)
RoundedUp(c) == ((c + Tick - 1) \div Tick) * Tick

(* TO_CHAR(cursor): FF6 cuts a TIMESTAMP(9) down to microseconds. *)
Text(c) == (c \div Tick) * Tick

(* resume_value, or else initial_value. *)
Bound == IF resume # NoValue THEN resume ELSE InitialValue

(* Mutant: WHERE cursor >= bound. *)
FromBound(i) == Bound = NoValue \/ (HasCursor(i) /\ source[i] >= Bound)

(* WHERE cursor > bound: no NULL passes it; without a bound all rows do. *)
PassesBound(i) == Bound = NoValue \/ (HasCursor(i) /\ source[i] > Bound)

(* What the query finds in the table, as of the moment it starts. *)
Selected == {i \in DOMAIN source : ~Superseded(i) /\ PassesBound(i)}

(* ORDER BY cursor ASC puts NULLs last, and leaves ties in any order.  It  *)
(* sorts text by NLS_SORT, which is not the order in which > compares it.  *)
NotAfter(i, j) ==
    HasCursor(j) => HasCursor(i) /\ SortRank[source[i]] <= SortRank[source[j]]

Results ==
    {s \in [1..Cardinality(Selected) -> Selected] :
        /\ \A i \in Selected : \E k \in DOMAIN s : s[k] = i
        /\ \A j, k \in DOMAIN s : j < k => s[j] # s[k] /\ NotAfter(s[j], s[k])}

---------------------------------------------------------------------------
(* The cursor c is not above all that are committed: a transaction that    *)
(* took it from a sequence, or from the clock, commits after a later one.  *)
Behind(c) == c # NullCursor /\ \E i \in DOMAIN source : HasCursor(i) /\ c <= source[i]

(* The application commits a transaction that inserts or updates one or    *)
(* two rows.                                                               *)
AppCommit ==
    \E new \in {<<c>> : c \in Cursors} \cup {<<c, d>> : c, d \in Cursors} :
        /\ Len(source) + Len(new) <= MaxRows
        /\ InOrder => \A k \in DOMAIN new : ~Behind(new[k])
        /\ source' = source \o new
        /\ late' = late \cup {i \in DOMAIN source' \ DOMAIN source : Behind(source'[i])}
        /\ UNCHANGED <<pc, pluginVars, handed, engineVars, faults>>

---------------------------------------------------------------------------
(* The plugin. *)

(* The engine starts a process; configure connects and describes. *)
Configure ==
    /\ pc = "off"
    /\ pc' = "configured"
    /\ conn' = TRUE
    /\ UNCHANGED <<appVars, resume, loaded, rows, pos, last, handed, engineVars,
                   faults>>

ResumeFrom ==
    /\ pc = "configured"
    /\ pc' = "reading"
    /\ resume' = persisted
    /\ UNCHANGED <<appVars, conn, loaded, rows, pos, last, handed, engineVars,
                   faults>>

(* The first next_batch runs the query and buffers its whole result. *)
EnsureLoaded ==
    /\ conn \/ loaded
    /\ IF loaded THEN UNCHANGED rows ELSE rows' \in Results
    /\ loaded' = TRUE

(* Where the chunk that starts after the first p rows of r ends. *)
ChunkEnd(r, p) == IF p + BatchSize <= Len(r) THEN p + BatchSize ELSE Len(r)

(* Mutant: the chunk ends one row early, but pos moves past that row. *)
ShortChunk(r, p) ==
    SubSeq(r, p + 1, IF ChunkEnd(r, p) > p + 1 THEN ChunkEnd(r, p) - 1 ELSE p + 1)

(* Mutant: a chunk starts with the row that ended the one before. *)
OverlappingChunk(r, p) == SubSeq(r, IF p = 0 THEN 1 ELSE p, ChunkEnd(r, p))

Chunk(r, p) == SubSeq(r, p + 1, ChunkEnd(r, p))

(* Mutant: pos is moved by batch_size, also after a shorter chunk. *)
PosPastEnd(r, p) == p + BatchSize

NextPos(r, p) == ChunkEnd(r, p)

(* Mutant: the first row of the chunk is taken for the high watermark. *)
FirstOfChunk(chunk) ==
    IF HasCursor(chunk[1]) THEN Text(source[chunk[1]]) ELSE last

(* The watermark once the chunk is seen: its last row's, unless NULL. *)
Watermark(chunk) ==
    LET i == chunk[Len(chunk)] IN IF HasCursor(i) THEN Text(source[i]) ELSE last

(* next_batch hands out a chunk. *)
NextBatch ==
    /\ pc = "reading"
    /\ EnsureLoaded
    /\ pos < Len(rows')
    /\ LET chunk == Chunk(rows', pos)
       IN  /\ last' = Watermark(chunk)
           /\ handed' = handed \o chunk
    /\ pos' = NextPos(rows', pos)
    /\ UNCHANGED <<appVars, pc, conn, resume, engineVars, faults>>

(* Mutant: a chunk that would end the result is not handed out. *)
ExhaustedEarly ==
    /\ pc = "reading"
    /\ EnsureLoaded
    /\ pos + BatchSize >= Len(rows')
    /\ pc' = "exhausted"
    /\ UNCHANGED <<appVars, conn, resume, pos, last, handed, engineVars, faults>>

(* next_batch returns None. *)
Exhausted ==
    /\ pc = "reading"
    /\ EnsureLoaded
    /\ pos >= Len(rows')
    /\ pc' = "exhausted"
    /\ UNCHANGED <<appVars, conn, resume, pos, last, handed, engineVars, faults>>

(* next_batch fails: in the query, or, with the watermark of the chunk set *)
(* already, in building the RecordBatch.                                   *)
NextBatchFails ==
    /\ pc = "reading" /\ faults < MaxFaults
    /\ \/ ~loaded /\ UNCHANGED <<loaded, rows, last>>
       \/ /\ EnsureLoaded
          /\ pos < Len(rows')
          /\ last' = Watermark(Chunk(rows', pos))
    /\ pc' = "failed"
    /\ faults' = faults + 1
    /\ UNCHANGED <<appVars, conn, resume, pos, handed, engineVars>>

(* The engine gives the run up: an error here, or in the destination. *)
Cancel ==
    /\ \/ pc = "failed" /\ UNCHANGED faults
       \/ /\ pc \in {"configured", "reading", "exhausted"}
          /\ faults < MaxFaults /\ faults' = faults + 1
    /\ pc' = "over"
    /\ conn' = FALSE
    /\ UNCHANGED <<appVars, resume, loaded, rows, pos, last, handed, engineVars>>

(* Mutant: where there is no watermark, an empty one is handed back. *)
WatermarkOrEmpty == IF last = NoValue THEN 0 ELSE last

CurrentWatermark == last

---------------------------------------------------------------------------
(* The engine, external. *)

Handed == {handed[k] : k \in DOMAIN handed}

(* The destination has committed the rows of the run. *)
Land ==
    /\ pc = "exhausted"
    /\ pc' = "landed"
    /\ landed' = landed \cup Handed
    /\ again' = again \cup (landed \cap Handed)
    /\ UNCHANGED <<appVars, pluginVars, handed, persisted, unsaved, faults>>

(* It has committed them, but its answer is lost: the run has failed. *)
LandUnanswered ==
    /\ pc = "exhausted" /\ faults < MaxFaults
    /\ pc' = "failed"
    /\ landed' = landed \cup Handed
    /\ again' = again \cup (landed \cap Handed)
    /\ unsaved' = unsaved \cup Handed
    /\ faults' = faults + 1
    /\ UNCHANGED <<appVars, pluginVars, handed, persisted>>

(* The engine persists current_watermark, if there is one. *)
Persist ==
    /\ pc = "landed"
    /\ pc' = "over"
    /\ persisted' = IF CurrentWatermark # NoValue THEN CurrentWatermark ELSE persisted
    /\ UNCHANGED <<appVars, pluginVars, handed, landed, again, unsaved, faults>>

(* The process is gone, and all its fields with it. *)
Gone ==
    /\ pc' = "off"
    /\ conn' = FALSE
    /\ resume' = NoValue
    /\ loaded' = FALSE
    /\ rows' = <<>>
    /\ pos' = 0
    /\ last' = NoValue
    /\ handed' = <<>>

Exit ==
    /\ pc = "over"
    /\ Gone
    /\ UNCHANGED <<appVars, engineVars, faults>>

(* Plugin or engine die; after Land, without having persisted. *)
Crash ==
    /\ pc \notin {"off", "over"} /\ faults < MaxFaults
    /\ Gone
    /\ faults' = faults + 1
    /\ unsaved' = IF pc = "landed" THEN unsaved \cup Handed ELSE unsaved
    /\ UNCHANGED <<appVars, persisted, landed, again>>

Run ==
    \/ Configure
    \/ ResumeFrom
    \/ NextBatch
    \/ Exhausted
    \/ Land
    \/ Persist
    \/ Exit

Next == AppCommit \/ Run \/ NextBatchFails \/ LandUnanswered \/ Cancel \/ Crash

Spec == Init /\ [][Next]_vars

(* The engine is scheduled again and again, and finishes or gives up what  *)
(* it started; the application need not commit, and faults need not come.  *)
Fairness == WF_vars(Run) /\ WF_vars(pc = "failed" /\ Cancel)

FairSpec == Spec /\ Fairness

---------------------------------------------------------------------------
(* Properties. *)

Watermarks == Nat \cup {NoValue}

(* Every variable has its type; the buffer and what was handed out name    *)
(* rows that the application has committed.                                *)
TypeOK ==
    /\ source \in Seq(Cursors)
    /\ late \in SUBSET DOMAIN source
    /\ pc \in {"off", "configured", "reading", "exhausted", "landed", "failed",
               "over"}
    /\ conn \in BOOLEAN
    /\ resume \in Watermarks
    /\ loaded \in BOOLEAN
    /\ rows \in Seq(DOMAIN source)
    /\ pos \in 0..Len(rows)
    /\ last \in Watermarks
    /\ handed \in Seq(DOMAIN source)
    /\ persisted \in Watermarks
    /\ landed \in SUBSET DOMAIN source
    /\ again \in SUBSET DOMAIN source
    /\ unsaved \in SUBSET DOMAIN source
    /\ faults \in Nat

(* The batches of a run, put together, are the first pos rows of its one   *)
(* query, in order, none twice and none left out between two batches; and  *)
(* all of them once next_batch has returned None.                          *)
BatchesArePrefix ==
    /\ handed = SubSeq(rows, 1, pos)
    /\ pc \in {"exhausted", "landed"} => handed = rows

(* next_batch: "the last row of this chunk carries the largest cursor      *)
(* value seen so far".                                                     *)
WatermarkIsHighest ==
    pc = "reading" =>
        \A i \in Handed : HasCursor(i) => last # NoValue /\ Text(source[i]) <= last

(* Row i is above initial_value: the source is asked for it. *)
Wanted(i) == HasCursor(i) /\ (InitialValue # NoValue => source[i] > InitialValue)

(* No row is passed over: once the persisted watermark has reached a row,  *)
(* so that no later run selects it, the row is durable in the destination, *)
(* or a newer version has taken its place.  It holds however runs fail and *)
(* crash between batches, commit, and persisting, and whatever is          *)
(* committed meanwhile; but not of a row that is committed late, below a   *)
(* cursor that a run may have read.                                        *)
NoRowSkipped ==
    \A i \in DOMAIN source \ late :
        Wanted(i) /\ persisted # NoValue /\ source[i] <= persisted
            => i \in landed \/ Superseded(i)

(* The query of each run finds all that is still to be read: every row     *)
(* above initial_value that is committed by then and is not durable yet,   *)
(* whatever became of the runs before; again but for late rows.            *)
QueryFindsTheRest ==
    [][~loaded /\ loaded' =>
        \A i \in DOMAIN source \ late :
            Wanted(i) => \/ i \in landed \/ Superseded(i)
                         \/ \E k \in DOMAIN rows' : rows'[k] = i]_vars

(* IncrementalConfig: "resumes reading strictly after it".  A row lands    *)
(* again only if a run that brought it could not persist its watermark.    *)
ReadOnce == again \subseteq unsaved

(* The persisted watermark never moves back, also when a run that crashed  *)
(* is repeated.                                                            *)
WatermarkNeverBack ==
    [][persisted # NoValue => persisted' # NoValue /\ persisted' >= persisted]_vars

(* Every committed row above initial_value is read in the end, unless it   *)
(* was updated before that.                                                *)
EveryRowLands ==
    \A i \in 1..MaxRows :
        i \in DOMAIN source /\ Wanted(i) ~> i \in landed \/ Superseded(i)
=============================================================================
