--------------------------- MODULE ValueCrossing ---------------------------
(***************************************************************************)
(* How one value crosses from an Oracle column, or from another source     *)
(* plugin, into an Oracle column (connector/src/types.rs): rendered by     *)
(* TO_CHAR, fetched as a Cell, built into an Arrow column, bound as text,  *)
(* converted by TO_*, inserted, and merged from the staging table.         *)
(*                                                                         *)
(* A text is a sequence of pieces <<what it is, its value>>: a number is   *)
(* its digits around a decimal character, a timestamp its date and time    *)
(* of day, its fraction and its offset.  Types that the code treats alike  *)
(* have one name: RAW is also BLOB, CLOB also NCLOB and LONG, Float64 also *)
(* Float32 and Int64 also Int32.                                           *)
(***************************************************************************)
EXTENDS Integers, Sequences

CONSTANTS
    Paths,      \* <<type of the value, and of the target's column when it
                \* was described, of the staging column, of the target's>>
                \* (an atomic load: the last for the last but one)
    Values,     \* Values[t]: the values of type t
    Sessions,   \* what a client's environment may make of a session
    Words,      \* what a piece of a text holds that is not a number
    Micro,      \* the ticks of a fraction that make a microsecond
    NULL,
    Failed      \* an error, in the place of a value

VARIABLES
    path,
    value,      \* the value that is read
    reader,     \* the source's session: its decimal character and time zone
    writer,     \* the destination's
    pc,         \* where the value is
    at          \* what it is there
vars == <<path, value, reader, writer, pc, at>>

From == path[1]
Described == path[2]
Staging == path[3]
Into == path[4]

Zoned == {"TIMESTAMP_TZ", "TIMESTAMP_LTZ"}
Temporal == {"DATE", "TIMESTAMP"} \cup Zoned
Numeric == {"NUMBER", "BINARY_DOUBLE"}
Characters == {"VARCHAR2", "CLOB"}
ColumnTypes == Temporal \cup Numeric \cup Characters \cup {"RAW", "BOOLEAN"}

(* Decimal128 is any type that cell_to_bind refuses. *)
ArrowTypes == {"Int64", "Float64", "Boolean", "Utf8", "Binary", "Date32", "Timestamp",
               "TimestampUTC", "Decimal128"}

CutToMicro(fraction) == (fraction \div Micro) * Micro

Pieces ==
    ({"word", "byte", "point"} \X Words)
        \cup ({"time", "fraction", "part"} \X Nat)
        \cup ({"int", "offset", "signed"} \X Int)
Texts == Seq(Pieces)

(* A time before year 1 is negative. *)
Moments == [time : Int, fraction : Nat, offset : Int]
Numbers == [int : Int, part : Nat]

(* A DATE has no fraction, and Arrow's timestamps are bound in milli- or   *)
(* microseconds; only a TIMESTAMP WITH TIME ZONE has an offset of its own. *)
(* Oracle has no empty VARCHAR2.                                           *)
OfType(t) ==
    CASE t \in {"DATE", "Date32"} -> {m \in Moments : m.fraction = 0 /\ m.offset = 0}
      [] t \in {"TIMESTAMP", "TIMESTAMP_LTZ"} -> {m \in Moments : m.offset = 0}
      [] t = "TIMESTAMP_TZ" -> Moments
      [] t \in {"Timestamp", "TimestampUTC"} ->
            {m \in Moments : CutToMicro(m.fraction) = m.fraction /\ m.offset = 0}
      [] t \in Numeric \cup {"Float64"} -> Numbers
      [] t = "Int64" -> Int
      [] t \in {"BOOLEAN", "Boolean"} -> BOOLEAN
      [] t = "VARCHAR2" -> Texts \ {<<>>}
      [] OTHER -> Texts

ASSUME MicroAssumption == Micro \in Nat \ {0}
ASSUME WordsAssumption == {".", "TRUE", "FALSE"} \subseteq Words
ASSUME PathsAssumption ==
    \A p \in Paths : /\ p[1] \in ColumnTypes \cup ArrowTypes
                     /\ \A i \in 2..4 : p[i] \in ColumnTypes
ASSUME ValuesAssumption == \A p \in Paths : Values[p[1]] \subseteq OfType(p[1])
ASSUME SessionsAssumption == Sessions \subseteq [decimal : Words, zone : Int]
ASSUME NothingAssumption ==
    /\ NULL # Failed
    /\ \A nothing \in {NULL, Failed} :
          /\ nothing \notin Texts /\ nothing \notin Moments /\ nothing \notin Numbers
          /\ nothing \notin Int /\ nothing \notin BOOLEAN

(* Mutant: connect returns the session as the environment has made it. *)
Unpinned(session) == session

(* ALTER SESSION SET NLS_NUMERIC_CHARACTERS = '.,' *)
Pinned(session) == [session EXCEPT !.decimal = "."]

Init ==
    /\ path \in Paths
    /\ value \in Values[path[1]] \cup {NULL}
    /\ reader \in {Pinned(s) : s \in Sessions}
    /\ writer \in {Pinned(s) : s \in Sessions}
    /\ pc = IF From \in ColumnTypes THEN "column" ELSE "batch"
    /\ at = value

---------------------------------------------------------------------------
(* Texts. *)

(* Mutant: FMT_TIMESTAMP for the types with a time zone too. *)
FormatWithoutOffset(t) ==
    IF t = "DATE" THEN <<"time">> ELSE <<"time", "fraction">>

(* FMT_DATE, FMT_TIMESTAMP and FMT_TIMESTAMP_TZ. *)
FormatOf(t) ==
    CASE t = "DATE" -> <<"time">>
      [] t = "TIMESTAMP" -> <<"time", "fraction">>
      [] t \in Zoned -> <<"time", "fraction", "offset">>

(* TO_CHAR(v, format): YYYY has no era, and FF6 cuts to microseconds. *)
Rendered(v, format) ==
    [i \in DOMAIN format |->
        <<format[i],
          CASE format[i] = "time" -> IF v.time < 0 THEN -v.time ELSE v.time
            [] format[i] = "fraction" -> CutToMicro(v.fraction)
            [] format[i] = "offset" -> v.offset>>]

(* The text may end before the format does, but not go on after it, nor    *)
(* have more digits than FF6 takes.                                        *)
Fits(text, format) ==
    /\ Len(text) \in 1..Len(format)
    /\ \A i \in DOMAIN text :
          /\ text[i][1] = format[i]
          /\ format[i] = "fraction" => CutToMicro(text[i][2]) = text[i][2]

(* TO_DATE, TO_TIMESTAMP and TO_TIMESTAMP_TZ: the session's time zone is   *)
(* taken for an offset that is not in the text.                            *)
Parsed(text, format, session) ==
    IF Fits(text, format)
    THEN [time |-> text[1][2],
          fraction |-> IF Len(text) > 1 THEN text[2][2] ELSE 0,
          offset |-> IF Len(format) < 3 THEN 0
                     ELSE IF Len(text) = 3 THEN text[3][2] ELSE session.zone]
    ELSE Failed

NumberText(n, decimal) ==
    IF n.part = 0
    THEN <<<<"int", n.int>>>>
    ELSE <<<<"int", n.int>>, <<"point", decimal>>, <<"part", n.part>>>>

(* A text as a number, when it is one under that decimal character. *)
ToNumber(text, decimal) ==
    IF \/ Len(text) = 1 /\ text[1][1] = "int"
       \/ /\ Len(text) = 3
          /\ text[1][1] = "int" /\ text[2] = <<"point", decimal>> /\ text[3][1] = "part"
    THEN [int |-> text[1][2], part |-> IF Len(text) = 3 THEN text[3][2] ELSE 0]
    ELSE Failed

BooleanText(b) == <<<<"int", IF b THEN 1 ELSE 0>>>>

TrueText == {BooleanText(TRUE), <<<<"word", "TRUE">>>>}
FalseText == {BooleanText(FALSE), <<<<"word", "FALSE">>>>}

ToBoolean(text) ==
    IF text \in TrueText THEN TRUE ELSE IF text \in FalseText THEN FALSE ELSE Failed

---------------------------------------------------------------------------
(* The source. *)

(* A TIMESTAMP WITH LOCAL TIME ZONE is kept as an instant, and seen in the *)
(* session's time zone.                                                    *)
SeenIn(v, t, session) ==
    IF t = "TIMESTAMP_LTZ"
    THEN [v EXCEPT !.time = @ + session.zone, !.offset = session.zone]
    ELSE v

(* TO_CHAR of a CLOB is limited to 4000 bytes. *)
TooLong(text) == <<"word", "over 4000 bytes">> \in {text[i] : i \in DOMAIN text}

(* The projected column, fetched as text, or as bytes from a RAW. *)
CellOf(v, t, session) ==
    IF v = NULL THEN NULL
    ELSE CASE t \in Temporal -> Rendered(SeenIn(v, t, session), FormatOf(t))
           [] t \in Numeric -> NumberText(v, session.decimal)
           [] t = "BOOLEAN" -> <<<<"word", IF v THEN "TRUE" ELSE "FALSE">>>>
           [] t = "CLOB" -> IF v = <<>> THEN NULL ELSE IF TooLong(v) THEN Failed ELSE v
           [] OTHER -> v

OracleToArrow(t) ==
    CASE t = "BINARY_DOUBLE" -> "Float64"
      [] t = "RAW" -> "Binary"
      [] t = "BOOLEAN" -> "Boolean"
      [] t \in ArrowTypes -> t
      [] OTHER -> "Utf8"

(* build_column: Rust parses a float with a decimal point. *)
Built(cell, type) ==
    IF cell = NULL THEN NULL
    ELSE CASE type = "Float64" -> ToNumber(cell, ".")
           [] type = "Boolean" -> ToBoolean(cell)
           [] OTHER -> cell

---------------------------------------------------------------------------
(* The destination. *)

(* chrono writes a year before year 1 with a sign, which YYYY refuses. *)
ChronoText(v, format) ==
    IF v.time < 0 THEN <<<<"signed", v.time>>>> ELSE Rendered(v, format)

(* cell_to_bind: naive_utc() forgets that a timestamp had a time zone. *)
BindOf(v, type) ==
    IF v = NULL THEN NULL
    ELSE CASE type = "Int64" -> <<<<"int", v>>>>
           [] type = "Float64" -> NumberText(v, ".")
           [] type = "Boolean" -> BooleanText(v)
           [] type \in {"Utf8", "Binary"} -> v
           [] type = "Date32" -> ChronoText(v, FormatOf("DATE"))
           [] type \in {"Timestamp", "TimestampUTC"} -> ChronoText(v, FormatOf("TIMESTAMP"))
           [] OTHER -> Failed

(* The type of the expression that typed_expr wraps a bind in. *)
TypedExpr(t) ==
    CASE t \in Zoned -> "TIMESTAMP_TZ"
      [] t \in {"DATE", "TIMESTAMP"} -> t
      [] OTHER -> "text"

(* Oracle assigns an expression of type s to a column of type t. *)
Assigned(v, s, t, session) ==
    IF v \in {NULL, Failed} \/ s = t THEN v
    ELSE IF s = "text"
    THEN CASE t \in Numeric -> ToNumber(v, session.decimal)
           [] t = "BOOLEAN" -> ToBoolean(v)
           [] t \in Characters \cup {"RAW"} -> v
           [] t \in Temporal -> Failed
    ELSE LET w == SeenIn(v, s, session)
             offset == IF s \in Zoned THEN w.offset ELSE session.zone
         IN  CASE t = "DATE" -> [w EXCEPT !.fraction = 0, !.offset = 0]
               [] t = "TIMESTAMP" -> [w EXCEPT !.offset = 0]
               [] t = "TIMESTAMP_TZ" -> [w EXCEPT !.offset = offset]
               [] t = "TIMESTAMP_LTZ" -> [w EXCEPT !.time = @ - offset, !.offset = 0]

(* The bind in its TO_*, by the type that the target was described with;   *)
(* Oracle takes a text, or bytes, of no length for NULL.                   *)
Converted(bind, t, session) ==
    IF bind \in {NULL, <<>>} THEN NULL
    ELSE IF TypedExpr(t) = "text" THEN bind ELSE Parsed(bind, FormatOf(t), session)

---------------------------------------------------------------------------
(* The value goes on to the next place, or the load fails. *)
Moves(here, there, result) ==
    /\ pc = here
    /\ at' = result
    /\ pc' = IF result = Failed THEN "failed" ELSE there
    /\ UNCHANGED <<path, value, reader, writer>>

Fetch == Moves("column", "cell", CellOf(at, From, reader))

BuildColumn == Moves("cell", "batch", Built(at, OracleToArrow(From)))

CellToBind == Moves("batch", "bind", BindOf(at, OracleToArrow(From)))

Insert ==
    Moves("bind", "staged",
          Assigned(Converted(at, Described, writer), TypedExpr(Described), Staging, writer))

Merge == Moves("staged", "stored", Assigned(at, Staging, Into, writer))

Next == Fetch \/ BuildColumn \/ CellToBind \/ Insert \/ Merge

Spec == Init /\ [][Next]_vars

---------------------------------------------------------------------------
(* Properties. *)

(* What the texts can hold: whole microseconds of years after Christ, and  *)
(* texts that are neither empty nor over 4000 bytes.                       *)
Representable(v, t) ==
    \/ v = NULL
    \/ /\ t \in Temporal
       /\ SeenIn(v, t, reader).time >= 0 /\ CutToMicro(v.fraction) = v.fraction
    \/ t = "CLOB" /\ v # <<>> /\ ~TooLong(v)
    \/ t = "RAW" /\ v # <<>>
    \/ t \in Numeric \cup {"VARCHAR2", "BOOLEAN"}

(* "values cross as their canonical text so precision is never lost": a    *)
(* value read from a column and written to one of the same type is the     *)
(* same value, and does cross, whatever decimal character, and time zone,  *)
(* the environments of the two plugins have given their sessions.  The     *)
(* staging table on the way is no condition: prepare says that it "mirrors *)
(* the target's shape".                                                    *)
RoundTrip ==
    From = Into /\ Described = Into /\ Representable(value, From) =>
        pc # "failed" /\ (pc = "stored" => at = value)

(* Where SameMeaning is about the value: bytes go only into bytes, a       *)
(* timestamp in UTC into no column with a time zone, and no column changes *)
(* its type, except for a DATE that becomes a TIMESTAMP, or was one, after *)
(* it was described or after the staging table was made.                   *)
Supported(p) ==
    /\ \/ p[2] = p[4] /\ p[3] = p[4]
       \/ p[2] = "DATE" /\ {p[3], p[4]} \subseteq {"DATE", "TIMESTAMP"}
    /\ p[1] \in {"RAW", "Binary"} <=> p[4] = "RAW"
    /\ p[1] = "TimestampUTC" => p[4] \notin Zoned

AfterChrist(v, t) == t \in Temporal /\ v # NULL => SeenIn(v, t, reader).time >= 0

IsText(t) == t \in Characters \cup {"RAW", "Utf8", "Binary"}

Instant(v) == v.time - v.offset

SameTime(v, zoned, w, t) ==
    /\ CutToMicro(v.fraction) = w.fraction
    /\ IF zoned THEN Instant(v) = Instant(w) ELSE v.time = SeenIn(w, t, writer).time

(* The text w says what v of type s is. *)
SaysSame(v, s, w) ==
    CASE s \in Numeric \cup {"Float64"} -> w = NumberText(v, ".")
      [] s \in {"BOOLEAN", "Boolean"} -> w = BooleanText(v)
      [] s = "Int64" -> w = <<<<"int", v>>>>
      [] s \in Zoned ->
            LET m == Parsed(w, FormatOf(s), writer)
            IN  m # Failed /\ SameTime(v, TRUE, m, "TIMESTAMP_TZ")
      [] s = "Date32" -> w = ChronoText(v, FormatOf("DATE"))
      [] s \in {"Timestamp", "TimestampUTC"} -> w = ChronoText(v, FormatOf("TIMESTAMP"))
      [] s \in {"DATE", "TIMESTAMP"} -> w = Rendered(v, FormatOf(s))
      [] OTHER -> w = v

(* The text v says what w of type t is. *)
SaysWhatIs(v, w, t) ==
    CASE t \in Temporal ->
            LET m == Parsed(v, FormatOf("TIMESTAMP_TZ"), writer)
            IN  m # Failed /\ SameTime(m, t \in Zoned, w, t)
      [] t \in Numeric -> w = ToNumber(v, ".")
      [] t = "BOOLEAN" -> w = ToBoolean(v)
      [] OTHER -> w = v

(* Between columns of different types a value either fails the load, or    *)
(* means what it meant: the same number, the same text, the same instant   *)
(* where both have a time zone, the same time of day where one has none;   *)
(* and only NULL, and the empty text, become NULL.                         *)
SameMeaning ==
    pc = "stored" /\ AfterChrist(value, From) =>
        IF at = NULL THEN value = NULL \/ (IsText(From) /\ value = <<>>)
        ELSE /\ value # NULL
             /\ IF IsText(From) THEN SaysWhatIs(value, at, Into)
                ELSE CASE Into \in Temporal ->
                            SameTime(value, From \in Zoned \cup {"TimestampUTC"}, at, Into)
                       [] Into \in Numeric -> SaysSame(value, From, NumberText(at, "."))
                       [] Into = "BOOLEAN" -> SaysSame(value, From, BooleanText(at))
                       [] OTHER -> SaysSame(value, From, at)
=============================================================================
