-------------------------- MODULE MCValueCrossing --------------------------
(* Small instances of ValueCrossing for TLC: a microsecond is ten ticks. *)
EXTENDS ValueCrossing

AnyWord == STRING

(* Every environment of a session: the comma is that of NLS_LANG=GERMAN. *)
AnySession == [decimal : {".", ","}, zone : {-2, 0, 2}]

(* Before Christ, in some time zones only, and after. *)
Times == {-100, 1, 100}

Word == {<<<<"word", "abc">>>>}

(* Also numbers, truth values and times as texts, and texts that are empty *)
(* or long.                                                                *)
AnyText ==
    Word
    \cup {<<>>, <<<<"word", "over 4000 bytes">>>>}
    \cup {<<<<"int", 1>>>>, <<<<"word", "TRUE">>>>, <<<<"word", "FALSE">>>>}
    \cup {<<<<"int", 7>>, <<"point", d>>, <<"part", n>>>> : d \in {".", ","}, n \in {0, 5}}
    \cup {<<<<"time", 100>>>>, <<<<"signed", -100>>>>}
    \cup {<<<<"time", 100>>, <<"fraction", f>>>> : f \in {0, 30, 35}}
    \cup {<<<<"time", 100>>, <<"fraction", 30>>, <<"offset", o>>>> : o \in {-2, 5}}

ValuesWith(fractions, texts) ==
    [t \in ColumnTypes \cup ArrowTypes |->
        CASE t \in Temporal \cup {"Date32", "Timestamp", "TimestampUTC"} ->
                [time : Times, fraction : fractions, offset : {0, 5}] \cap OfType(t)
          [] t \in Numeric \cup {"Float64"} -> [int : {0, 1, 7}, part : {0, 5}]
          [] t \in {"BOOLEAN", "Boolean"} -> BOOLEAN
          [] t = "Int64" -> {0, 1, 7}
          [] t \in {"RAW", "Binary"} -> {<<>>, <<<<"byte", "x">>>>}
          [] t = "VARCHAR2" -> texts \ {<<>>}
          [] OTHER -> texts]

(* Microseconds, texts that are neither empty nor long. *)
Canonical == ValuesWith({0, 30}, Word)
(* Also nanoseconds, and any text. *)
AnyValue == ValuesWith({0, 30, 35}, AnyText)

AnyPath ==
    {p \in (ColumnTypes \cup ArrowTypes) \X ColumnTypes \X ColumnTypes \X ColumnTypes :
        Supported(p)}

(* The target's DATE became a TIMESTAMP after its staging table was made.  *)
StaleStaging == {<<"TIMESTAMP", "TIMESTAMP", "DATE", "TIMESTAMP">>}
=============================================================================
