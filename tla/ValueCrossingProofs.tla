------------------------ MODULE ValueCrossingProofs ------------------------
(***************************************************************************)
(* Proofs about ValueCrossing, for every set of values of the types, every *)
(* environment of the two sessions and every precision of a fraction.      *)
(***************************************************************************)
EXTENDS ValueCrossing, TLAPS

---------------------------------------------------------------------------
(* Texts of times. *)

(* A session as connect returns it. *)
PinnedSessions == {s \in [decimal : Words, zone : Int] : s.decimal = "."}

LEMMA Formats ==
    /\ FormatOf("DATE") = <<"time">>
    /\ FormatOf("TIMESTAMP") = <<"time", "fraction">>
    /\ \A t \in Zoned : FormatOf(t) = <<"time", "fraction", "offset">>
  BY DEF FormatOf, Zoned

LEMMA RenderedTime ==
    ASSUME NEW v \in Moments, v.time >= 0
    PROVE  Rendered(v, <<"time">>) = <<<<"time", v.time>>>>
<1>1. Rendered(v, <<"time">>) = [i \in 1..1 |-> <<"time", v.time>>]
  BY DEF Rendered, Moments
<1> QED
  BY <1>1

LEMMA RenderedStamp ==
    ASSUME NEW v \in Moments, v.time >= 0
    PROVE  Rendered(v, <<"time", "fraction">>) =
              <<<<"time", v.time>>, <<"fraction", CutToMicro(v.fraction)>>>>
<1> DEFINE w == Rendered(v, <<"time", "fraction">>)
<1>1. /\ w = [i \in 1..2 |-> w[i]]
      /\ w[1] = <<"time", v.time>>
      /\ w[2] = <<"fraction", CutToMicro(v.fraction)>>
  BY DEF Rendered, Moments
<1> QED
  BY <1>1

LEMMA RenderedZoned ==
    ASSUME NEW v \in Moments, v.time >= 0
    PROVE  Rendered(v, <<"time", "fraction", "offset">>) =
              <<<<"time", v.time>>, <<"fraction", CutToMicro(v.fraction)>>, <<"offset", v.offset>>>>
<1> DEFINE w == Rendered(v, <<"time", "fraction", "offset">>)
<1>1. /\ w = [i \in 1..3 |-> w[i]]
      /\ w[1] = <<"time", v.time>>
      /\ w[2] = <<"fraction", CutToMicro(v.fraction)>>
      /\ w[3] = <<"offset", v.offset>>
  BY DEF Rendered, Moments
<1> QED
  BY <1>1

LEMMA CutIsWhole ==
    ASSUME NEW n \in Nat
    PROVE  CutToMicro(n) \in Nat /\ CutToMicro(CutToMicro(n)) = CutToMicro(n)
<1> DEFINE q == n \div Micro
<1>1. Micro \in Nat /\ Micro > 0 /\ q \in Nat
  BY MicroAssumption
<1>2. q * Micro \in Nat
  BY <1>1
<1>3. (q * Micro) \div Micro = q
  BY <1>1
<1> QED
  BY <1>2, <1>3 DEF CutToMicro

(* A text that says the time is one of up to three pieces. *)
LEMMA FitsParts ==
    ASSUME NEW w \in Texts, Fits(w, <<"time", "fraction", "offset">>)
    PROVE  /\ Len(w) \in 1..3
           /\ w[1][1] = "time" /\ w[1][2] \in Nat
           /\ Len(w) > 1 => /\ w[2][1] = "fraction" /\ w[2][2] \in Nat
                            /\ CutToMicro(w[2][2]) = w[2][2]
           /\ Len(w) > 2 => w[3][1] = "offset" /\ w[3][2] \in Int
<1>1. /\ Len(w) \in 1..3
      /\ \A i \in DOMAIN w :
            /\ w[i][1] = <<"time", "fraction", "offset">>[i]
            /\ <<"time", "fraction", "offset">>[i] = "fraction" => CutToMicro(w[i][2]) = w[i][2]
  BY DEF Fits
<1>2. DOMAIN w = 1..Len(w) /\ \A i \in 1..Len(w) : w[i] \in Pieces
  BY DEF Texts
<1>3. 1 \in DOMAIN w /\ (Len(w) > 1 => 2 \in DOMAIN w) /\ (Len(w) > 2 => 3 \in DOMAIN w)
  BY <1>1, <1>2
<1>4. \A p \in Pieces : /\ p[1] \in {"time", "fraction"} => p[2] \in Nat
                        /\ p[1] = "offset" => p[2] \in Int
  BY DEF Pieces
<1> QED
  BY <1>1, <1>2, <1>3, <1>4

LEMMA FitsLength ==
    ASSUME NEW w
    PROVE  /\ Fits(w, <<"time">>) => Len(w) < 3
           /\ Fits(w, <<"time", "fraction">>) => Len(w) < 3
<1>1. Len(<<"time">>) = 1 /\ Len(<<"time", "fraction">>) = 2
  OBVIOUS
<1>2. \A format : Fits(w, format) => Len(w) \in 1..Len(format)
  BY DEF Fits
<1>3. \A n \in 1..1 \cup 1..2 : n < 3
  OBVIOUS
<1>4. Fits(w, <<"time">>) => Len(w) \in 1..1
  BY <1>1, <1>2
<1>5. Fits(w, <<"time", "fraction">>) => Len(w) \in 1..2
  BY <1>1, <1>2
<1> QED
  BY <1>3, <1>4, <1>5

LEMMA FitsAnyFormat ==
    ASSUME NEW w, NEW t \in Temporal, Fits(w, FormatOf(t))
    PROVE  Fits(w, <<"time", "fraction", "offset">>)
<1>1. CASE t = "DATE"
  BY <1>1, Formats DEF Fits
<1>2. CASE t = "TIMESTAMP"
  BY <1>2, Formats DEF Fits
<1>3. CASE t \in Zoned
  BY <1>3, Formats
<1> QED
  BY <1>1, <1>2, <1>3 DEF Temporal

(* Read by another format a text has the same time of day and fraction. *)
LEMMA ParsedParts ==
    ASSUME NEW w \in Texts, NEW t \in Temporal, NEW session \in PinnedSessions,
           Fits(w, FormatOf(t))
    PROVE  LET m == Parsed(w, FormatOf(t), session)
           IN  /\ m = [time |-> w[1][2],
                       fraction |-> IF Len(w) > 1 THEN w[2][2] ELSE 0,
                       offset |-> IF t \notin Zoned THEN 0
                                  ELSE IF Len(w) = 3 THEN w[3][2] ELSE session.zone]
               /\ m \in Moments /\ m.time >= 0
               /\ CutToMicro(m.fraction) = m.fraction
<1>1. Fits(w, <<"time", "fraction", "offset">>)
  BY FitsAnyFormat
<1>2. Len(FormatOf(t)) < 3 <=> t \notin Zoned
  <2>1. t \in Zoned => Len(FormatOf(t)) = 3
    BY Formats
  <2>2. t = "DATE" => Len(FormatOf(t)) = 1
    BY Formats
  <2>3. t = "TIMESTAMP" => Len(FormatOf(t)) = 2
    BY Formats
  <2> QED
    BY <2>1, <2>2, <2>3 DEF Temporal
<1>3. CutToMicro(0) = 0
  BY MicroAssumption DEF CutToMicro
<1>4. session.zone \in Int
  BY DEF PinnedSessions
<1> DEFINE fraction == IF Len(w) > 1 THEN w[2][2] ELSE 0
           offset == IF t \notin Zoned THEN 0 ELSE IF Len(w) = 3 THEN w[3][2] ELSE session.zone
<1>5. /\ Len(w) \in 1..3 /\ w[1][2] \in Nat
      /\ fraction \in Nat /\ CutToMicro(fraction) = fraction
      /\ offset \in Int
  BY <1>1, <1>3, <1>4, FitsParts
<1>6. Parsed(w, FormatOf(t), session) =
          [time |-> w[1][2], fraction |-> fraction, offset |-> offset]
  <2>1. Parsed(w, FormatOf(t), session) =
            [time |-> w[1][2], fraction |-> fraction,
             offset |-> IF Len(FormatOf(t)) < 3 THEN 0
                        ELSE IF Len(w) = 3 THEN w[3][2] ELSE session.zone]
    BY DEF Parsed
  <2> QED
    BY <1>2, <2>1
<1> HIDE DEF fraction, offset
<1>7. [time |-> w[1][2], fraction |-> fraction, offset |-> offset] \in Moments
  BY <1>5 DEF Moments
<1> QED
  BY <1>5, <1>6, <1>7 DEF fraction, offset

(* The texts of times as lists of their pieces. *)
LEMMA TimeTexts ==
    ASSUME NEW n \in Nat, NEW f \in Nat, NEW o \in Int
    PROVE  /\ <<<<"time", n>>>> \in Texts
           /\ <<<<"time", n>>, <<"fraction", f>>>> \in Texts
           /\ <<<<"time", n>>, <<"fraction", f>>, <<"offset", o>>>> \in Texts
<1>1. <<"time", n>> \in Pieces /\ <<"fraction", f>> \in Pieces /\ <<"offset", o>> \in Pieces
  BY DEF Pieces
<1> QED
  BY <1>1 DEF Texts

LEMMA FitsItsFormat ==
    ASSUME NEW n, NEW f, NEW o, CutToMicro(f) = f
    PROVE  /\ Fits(<<<<"time", n>>>>, <<"time">>)
           /\ Fits(<<<<"time", n>>, <<"fraction", f>>>>, <<"time", "fraction">>)
           /\ Fits(<<<<"time", n>>, <<"fraction", f>>, <<"offset", o>>>>,
                   <<"time", "fraction", "offset">>)
<1>1. Fits(<<<<"time", n>>>>, <<"time">>)
  BY DEF Fits
<1>2. Fits(<<<<"time", n>>, <<"fraction", f>>>>, <<"time", "fraction">>)
  <2> DEFINE w == <<<<"time", n>>, <<"fraction", f>>>>
             format == <<"time", "fraction">>
  <2>1. Len(w) = 2 /\ DOMAIN w = 1..2 /\ w[1][1] = "time" /\ w[2] = <<"fraction", f>>
    OBVIOUS
  <2>2. Len(format) = 2 /\ format[1] = "time" /\ format[2] = "fraction"
    OBVIOUS
  <2> HIDE DEF w, format
  <2>3. Fits(w, format)
    BY <2>1, <2>2 DEF Fits
  <2> QED
    BY <2>3 DEF w, format
<1>3. Fits(<<<<"time", n>>, <<"fraction", f>>, <<"offset", o>>>>, <<"time", "fraction", "offset">>)
  <2> DEFINE w == <<<<"time", n>>, <<"fraction", f>>, <<"offset", o>>>>
             format == <<"time", "fraction", "offset">>
  <2>1. /\ Len(w) = 3 /\ DOMAIN w = 1..3
        /\ w[1][1] = "time" /\ w[2] = <<"fraction", f>> /\ w[3][1] = "offset"
    OBVIOUS
  <2>2. Len(format) = 3 /\ format[1] = "time" /\ format[2] = "fraction" /\ format[3] = "offset"
    OBVIOUS
  <2> HIDE DEF w, format
  <2>3. Fits(w, format)
    BY <2>1, <2>2 DEF Fits
  <2> QED
    BY <2>3 DEF w, format
<1> QED
  BY <1>1, <1>2, <1>3

(* What TO_CHAR gives, of a time after Christ. *)
LEMMA RenderedText ==
    ASSUME NEW v \in Moments, v.time >= 0, NEW t \in Temporal
    PROVE  LET w == Rendered(v, FormatOf(t))
           IN  /\ w \in Texts
               /\ Len(w) = Len(FormatOf(t))
               /\ w[1] = <<"time", v.time>>
               /\ Len(w) > 1 => w[2] = <<"fraction", CutToMicro(v.fraction)>>
               /\ Len(w) > 2 => w[3] = <<"offset", v.offset>>
               /\ Fits(w, FormatOf(t))
<1> DEFINE w == Rendered(v, FormatOf(t))
<1>1. /\ v.time \in Nat /\ CutToMicro(v.fraction) \in Nat /\ v.offset \in Int
      /\ CutToMicro(CutToMicro(v.fraction)) = CutToMicro(v.fraction)
  BY CutIsWhole DEF Moments
<1>2. CASE t = "DATE"
  <2>1. FormatOf(t) = <<"time">> /\ w = <<<<"time", v.time>>>>
    BY <1>2, Formats, RenderedTime
  <2>2. w \in Texts
    BY <1>1, <2>1, TimeTexts
  <2>3. Fits(w, FormatOf(t))
    BY <1>1, <2>1, FitsItsFormat
  <2> QED
    BY <2>1, <2>2, <2>3
<1>3. CASE t = "TIMESTAMP"
  <2>1. /\ FormatOf(t) = <<"time", "fraction">>
        /\ w = <<<<"time", v.time>>, <<"fraction", CutToMicro(v.fraction)>>>>
    BY <1>3, Formats, RenderedStamp
  <2>2. w \in Texts
    BY <1>1, <2>1, TimeTexts
  <2>3. Fits(w, FormatOf(t))
    BY <1>1, <2>1, FitsItsFormat
  <2> QED
    BY <2>1, <2>2, <2>3
<1>4. CASE t \in Zoned
  <2>1. /\ FormatOf(t) = <<"time", "fraction", "offset">>
        /\ w = <<<<"time", v.time>>, <<"fraction", CutToMicro(v.fraction)>>, <<"offset", v.offset>>>>
    BY <1>4, Formats, RenderedZoned
  <2>2. w \in Texts
    BY <1>1, <2>1, TimeTexts
  <2>3. Fits(w, FormatOf(t))
    BY <1>1, <2>1, FitsItsFormat
  <2> QED
    BY <2>1, <2>2, <2>3
<1> QED
  BY <1>2, <1>3, <1>4 DEF Temporal

---------------------------------------------------------------------------
(* Texts of numbers and of truth values. *)

LEMMA NumberAsText ==
    ASSUME NEW n \in Numbers
    PROVE  LET w == NumberText(n, ".")
           IN  /\ w \in Texts /\ w # <<>>
               /\ w[1] = <<"int", n.int>>
               /\ ToNumber(w, ".") = n
<1>1. n = [int |-> n.int, part |-> n.part] /\ n.int \in Int /\ n.part \in Nat
  BY DEF Numbers
<1>2. /\ <<"int", n.int>> \in Pieces /\ <<"point", ".">> \in Pieces
      /\ <<"part", n.part>> \in Pieces
  BY <1>1, WordsAssumption DEF Pieces
<1>3. CASE n.part = 0
  <2>1. NumberText(n, ".") = <<<<"int", n.int>>>>
    BY <1>3 DEF NumberText
  <2>2. ToNumber(<<<<"int", n.int>>>>, ".") = [int |-> n.int, part |-> 0]
    BY DEF ToNumber
  <2>3. <<<<"int", n.int>>>> \in Texts
    BY <1>2 DEF Texts
  <2>4. n = [int |-> n.int, part |-> 0]
    BY <1>1, <1>3
  <2> QED
    BY <2>1, <2>2, <2>3, <2>4
<1>4. CASE n.part # 0
  <2> DEFINE w == <<<<"int", n.int>>, <<"point", ".">>, <<"part", n.part>>>>
  <2>1. NumberText(n, ".") = w
    BY <1>4 DEF NumberText
  <2>2. ToNumber(w, ".") = [int |-> n.int, part |-> n.part]
    BY DEF ToNumber
  <2>3. w \in Texts
    BY <1>2 DEF Texts
  <2>4. w # <<>> /\ w[1] = <<"int", n.int>>
    OBVIOUS
  <2> HIDE DEF w
  <2> QED
    BY <1>1, <2>1, <2>2, <2>3, <2>4
<1> QED
  BY <1>3, <1>4

LEMMA IntAsText ==
    ASSUME NEW n \in Int
    PROVE  <<<<"int", n>>>> \in Texts
<1>1. <<"int", n>> \in Pieces
  BY DEF Pieces
<1> QED
  BY <1>1 DEF Texts

LEMMA NumberIsTyped ==
    ASSUME NEW w \in Texts, NEW d, ToNumber(w, d) # Failed
    PROVE  ToNumber(w, d) \in Numbers /\ w[1][1] = "int"
<1>1. /\ Len(w) \in {1, 3} /\ w[1][1] = "int"
      /\ Len(w) = 3 => w[3][1] = "part"
      /\ ToNumber(w, d) = [int |-> w[1][2], part |-> IF Len(w) = 3 THEN w[3][2] ELSE 0]
  BY DEF ToNumber
<1>2. w[1] \in Pieces /\ (Len(w) = 3 => w[3] \in Pieces)
  BY <1>1 DEF Texts
<1>3. \A p \in Pieces : (p[1] = "int" => p[2] \in Int) /\ (p[1] = "part" => p[2] \in Nat)
  BY DEF Pieces
<1> QED
  BY <1>1, <1>2, <1>3 DEF Numbers

LEMMA BooleanAsText ==
    /\ \A b \in BOOLEAN : ToBoolean(BooleanText(b)) = b
    /\ \A b \in BOOLEAN : ToBoolean(<<<<"word", IF b THEN "TRUE" ELSE "FALSE">>>>) = b
<1> USE DEF ToBoolean, BooleanText, TrueText, FalseText
<1>1. ToBoolean(BooleanText(TRUE)) = TRUE /\ ToBoolean(<<<<"word", "TRUE">>>>) = TRUE
  OBVIOUS
<1>2. ToBoolean(BooleanText(FALSE)) = FALSE /\ ToBoolean(<<<<"word", "FALSE">>>>) = FALSE
  OBVIOUS
<1> HIDE DEF ToBoolean, BooleanText, TrueText, FalseText
<1> QED
  BY <1>1, <1>2

LEMMA BooleanIsTyped ==
    ASSUME NEW w, ToBoolean(w) # Failed
    PROVE  /\ ToBoolean(w) \in BOOLEAN
           /\ w[1] \in {<<"int", 0>>, <<"int", 1>>, <<"word", "TRUE">>, <<"word", "FALSE">>}
           /\ w[1][1] = "int" => w = BooleanText(ToBoolean(w))
<1>1. CASE w \in TrueText
  <2>1. ToBoolean(w) = TRUE
    BY <1>1 DEF ToBoolean
  <2>2. w = BooleanText(TRUE) \/ w = <<<<"word", "TRUE">>>>
    BY <1>1 DEF TrueText
  <2>3. BooleanText(TRUE)[1] = <<"int", 1>>
    BY DEF BooleanText
  <2>4. CASE w = BooleanText(TRUE)
    BY <2>1, <2>3, <2>4
  <2>5. CASE w = <<<<"word", "TRUE">>>>
    <3>1. w[1] = <<"word", "TRUE">> /\ w[1][1] # "int"
      BY <2>5
    <3> QED
      BY <2>1, <3>1
  <2> QED
    BY <2>2, <2>4, <2>5
<1>2. CASE w \in FalseText /\ w \notin TrueText
  <2>1. ToBoolean(w) = FALSE
    BY <1>2 DEF ToBoolean
  <2>2. w = BooleanText(FALSE) \/ w = <<<<"word", "FALSE">>>>
    BY <1>2 DEF FalseText
  <2>3. BooleanText(FALSE)[1] = <<"int", 0>>
    BY DEF BooleanText
  <2>4. CASE w = BooleanText(FALSE)
    BY <2>1, <2>3, <2>4
  <2>5. CASE w = <<<<"word", "FALSE">>>>
    <3>1. w[1] = <<"word", "FALSE">> /\ w[1][1] # "int"
      BY <2>5
    <3> QED
      BY <2>1, <3>1
  <2> QED
    BY <2>2, <2>4, <2>5
<1> QED
  BY <1>1, <1>2 DEF ToBoolean

---------------------------------------------------------------------------
(* What a value is at each place on its way. *)

Cell == CellOf(value, From, reader)
Column == IF From \in ColumnTypes THEN Built(Cell, OracleToArrow(From)) ELSE value
Bind == BindOf(Column, OracleToArrow(From))
Staged == Assigned(Converted(Bind, Described, writer), TypedExpr(Described), Staging, writer)
Stored == Assigned(Staged, Staging, Into, writer)

TypeInv ==
    /\ path \in Paths
    /\ value \in OfType(From) \cup {NULL}
    /\ reader \in PinnedSessions /\ writer \in PinnedSessions

(* The text that is bound for a value v of type s. *)
TextOf(v, s) ==
    CASE s \in Numeric \cup {"Float64"} -> NumberText(v, ".")
      [] s \in {"BOOLEAN", "Boolean"} -> BooleanText(v)
      [] s = "Int64" -> <<<<"int", v>>>>
      [] s \in Temporal -> Rendered(SeenIn(v, s, reader), FormatOf(s))
      [] s = "Date32" -> ChronoText(v, FormatOf("DATE"))
      [] s \in {"Timestamp", "TimestampUTC"} -> ChronoText(v, FormatOf("TIMESTAMP"))
      [] OTHER -> v

LEMMA TypesOfPath ==
    ASSUME TypeInv
    PROVE  /\ From \in ColumnTypes \cup ArrowTypes
           /\ Described \in ColumnTypes /\ Staging \in ColumnTypes /\ Into \in ColumnTypes
  BY PathsAssumption DEF TypeInv, From, Described, Staging, Into

LEMMA NothingIsNoValue ==
    /\ NULL # Failed
    /\ \A w \in Texts : w # NULL /\ w # Failed
    /\ \A m \in Moments : m # NULL /\ m # Failed
    /\ \A n \in Numbers : n # NULL /\ n # Failed
    /\ \A n \in Int : n # NULL /\ n # Failed
    /\ \A b \in BOOLEAN : b # NULL /\ b # Failed
  BY NothingAssumption

LEMMA SeenIsMoment ==
    ASSUME NEW t \in Temporal, NEW v \in OfType(t), NEW session \in PinnedSessions
    PROVE  /\ v \in Moments
           /\ SeenIn(v, t, session) \in Moments
           /\ SeenIn(v, t, session) =
                IF t = "TIMESTAMP_LTZ"
                THEN [time |-> v.time + session.zone, fraction |-> v.fraction, offset |-> session.zone]
                ELSE v
<1>1. v \in Moments
  <2>1. CASE t = "DATE"
    BY <2>1 DEF OfType, Numeric
  <2>2. CASE t \in {"TIMESTAMP", "TIMESTAMP_LTZ"}
    BY <2>2 DEF OfType, Numeric
  <2>3. CASE t = "TIMESTAMP_TZ"
    BY <2>3 DEF OfType, Numeric
  <2> QED
    BY <2>1, <2>2, <2>3 DEF Temporal, Zoned
<1>2. v.time \in Int /\ v.fraction \in Nat /\ session.zone \in Int
  BY <1>1 DEF Moments, PinnedSessions
<1>3. CASE t = "TIMESTAMP_LTZ"
  <2>1. SeenIn(v, t, session) =
            [time |-> v.time + session.zone, fraction |-> v.fraction, offset |-> session.zone]
    BY <1>1, <1>3 DEF SeenIn, Moments
  <2> QED
    BY <1>1, <1>2, <1>3, <2>1 DEF Moments
<1>4. CASE t # "TIMESTAMP_LTZ"
  BY <1>1, <1>4 DEF SeenIn
<1> QED
  BY <1>3, <1>4

(* NULL is bound as NULL. *)
LEMMA NullBinds ==
    ASSUME TypeInv, value = NULL
    PROVE  (From \in ColumnTypes => Cell = NULL) /\ Column = NULL /\ Bind = NULL
  BY DEF Cell, Column, Bind, CellOf, Built, BindOf

(* A value that a column has is fetched as its text, or as its bytes. *)
LEMMA TemporalBinds ==
    ASSUME TypeInv, value # NULL, From \in Temporal, AfterChrist(value, From)
    PROVE  Cell # Failed /\ Column # Failed /\ Bind = TextOf(value, From) /\ Bind \in Texts
<1> DEFINE m == SeenIn(value, From, reader)
           w == Rendered(m, FormatOf(From))
<1>1. m \in Moments /\ m.time >= 0
  BY SeenIsMoment DEF TypeInv, AfterChrist
<1>2. w \in Texts
  BY <1>1, RenderedText
<1>3. w # NULL /\ w # Failed
  BY <1>2, NothingIsNoValue
<1>4. Cell = w /\ TextOf(value, From) = w
  BY DEF Cell, CellOf, TextOf, Temporal, Zoned, Numeric
<1>5. From \in ColumnTypes /\ OracleToArrow(From) = "Utf8"
  BY DEF OracleToArrow, ArrowTypes, ColumnTypes, Temporal, Zoned
<1> HIDE DEF w
<1>6. Column = w
  BY <1>3, <1>4, <1>5 DEF Column, Built
<1>7. Bind = w
  BY <1>3, <1>5, <1>6 DEF Bind, BindOf
<1> QED
  BY <1>2, <1>3, <1>4, <1>6, <1>7

LEMMA NumericBinds ==
    ASSUME TypeInv, value # NULL, From \in Numeric
    PROVE  /\ Cell # Failed /\ Column # Failed /\ Bind = TextOf(value, From) /\ Bind \in Texts
           /\ value \in Numbers
<1> DEFINE w == NumberText(value, ".")
<1>1. value \in Numbers
  BY DEF TypeInv, OfType, Numeric
<1>2. w \in Texts /\ ToNumber(w, ".") = value
  BY <1>1, NumberAsText
<1>3. w # NULL /\ w # Failed /\ value # Failed
  BY <1>1, <1>2, NothingIsNoValue
<1>4. Cell = w /\ TextOf(value, From) = w
  BY DEF Cell, CellOf, TextOf, TypeInv, PinnedSessions, Temporal, Zoned, Numeric
<1>5. From \in ColumnTypes
  BY DEF ColumnTypes
<1> HIDE DEF w
<1>6. CASE From = "NUMBER"
  <2>1. OracleToArrow(From) = "Utf8"
    BY <1>5, <1>6 DEF OracleToArrow, ArrowTypes
  <2>2. Column = w
    BY <1>3, <1>4, <1>5, <2>1 DEF Column, Built
  <2>3. Bind = w
    BY <1>3, <2>1, <2>2 DEF Bind, BindOf
  <2> QED
    BY <1>1, <1>2, <1>3, <1>4, <2>2, <2>3
<1>7. CASE From = "BINARY_DOUBLE"
  <2>1. OracleToArrow(From) = "Float64"
    BY <1>7 DEF OracleToArrow, ArrowTypes
  <2>2. Column = value
    BY <1>2, <1>3, <1>4, <1>5, <2>1 DEF Column, Built
  <2>3. Bind = w
    BY <2>1, <2>2 DEF Bind, BindOf, w
  <2> QED
    BY <1>1, <1>2, <1>3, <1>4, <2>2, <2>3
<1> QED
  BY <1>6, <1>7 DEF Numeric

LEMMA BooleanBinds ==
    ASSUME TypeInv, value # NULL, From = "BOOLEAN"
    PROVE  /\ Cell # Failed /\ Column # Failed /\ Bind = TextOf(value, From) /\ Bind \in Texts
           /\ value \in BOOLEAN
<1> DEFINE w == <<<<"word", IF value THEN "TRUE" ELSE "FALSE">>>>
<1>1. value \in BOOLEAN
  BY DEF TypeInv, OfType, Numeric
<1>2. w \in Texts
  <2>1. (IF value THEN "TRUE" ELSE "FALSE") \in Words
    BY WordsAssumption
  <2>2. <<"word", IF value THEN "TRUE" ELSE "FALSE">> \in Pieces
    BY <2>1 DEF Pieces
  <2> QED
    BY <2>2 DEF Texts
<1>3. w # NULL /\ w # Failed /\ value # Failed
  BY <1>1, <1>2, NothingIsNoValue
<1>4. Cell = w /\ TextOf(value, From) = BooleanText(value)
  BY DEF Cell, CellOf, TextOf, Temporal, Zoned, Numeric
<1>5. From \in ColumnTypes /\ OracleToArrow(From) = "Boolean"
  BY DEF OracleToArrow, ArrowTypes, ColumnTypes
<1>6. ToBoolean(w) = value
  BY <1>1, BooleanAsText
<1> HIDE DEF w
<1>7. Column = value
  BY <1>3, <1>4, <1>5, <1>6 DEF Column, Built
<1>8. Bind = BooleanText(value)
  BY <1>5, <1>7 DEF Bind, BindOf
<1>9. BooleanText(value) \in Texts
  BY <1>1, IntAsText DEF BooleanText
<1> QED
  BY <1>1, <1>3, <1>4, <1>7, <1>8, <1>9

LEMMA TextIsText ==
    ASSUME TypeInv, value # NULL, IsText(From)
    PROVE  value \in Texts /\ value # Failed /\ TextOf(value, From) = value
<1>1. value \in Texts
  <2>1. CASE From = "VARCHAR2"
    BY <2>1 DEF TypeInv, OfType, Numeric
  <2>2. CASE From # "VARCHAR2"
    BY <2>2 DEF TypeInv, OfType, Numeric, IsText, Characters
  <2> QED
    BY <2>1, <2>2
<1> QED
  BY <1>1, NothingIsNoValue DEF TextOf, IsText, Characters, Numeric, Temporal, Zoned

LEMMA TextBinds ==
    ASSUME TypeInv, value # NULL, IsText(From)
    PROVE  \/ /\ From \in ColumnTypes => Cell = value
              /\ Column = value /\ Bind = value
           \/ From = "CLOB" /\ value = <<>> /\ Cell = NULL /\ Column = NULL /\ Bind = NULL
           \/ From = "CLOB" /\ TooLong(value) /\ Cell = Failed
<1>1. CASE From \in {"VARCHAR2", "RAW"}
  <2>1. Cell = value
    BY <1>1 DEF Cell, CellOf, Temporal, Zoned, Numeric
  <2>2. From \in ColumnTypes /\ OracleToArrow(From) \in {"Utf8", "Binary"}
    BY <1>1 DEF ColumnTypes, Characters, OracleToArrow, ArrowTypes
  <2> QED
    BY <2>1, <2>2 DEF Column, Built, Bind, BindOf
<1>2. CASE From = "CLOB"
  <2>1. Cell = IF value = <<>> THEN NULL ELSE IF TooLong(value) THEN Failed ELSE value
    BY <1>2 DEF Cell, CellOf, Temporal, Zoned, Numeric
  <2>2. From \in ColumnTypes /\ OracleToArrow(From) = "Utf8"
    BY <1>2 DEF ColumnTypes, Characters, OracleToArrow, ArrowTypes
  <2> QED
    BY <1>2, <2>1, <2>2 DEF Column, Built, Bind, BindOf
<1>3. CASE From \in {"Utf8", "Binary"}
  <2>1. From \notin ColumnTypes /\ OracleToArrow(From) = From
    BY <1>3 DEF ColumnTypes, Characters, Temporal, Zoned, Numeric, OracleToArrow, ArrowTypes
  <2> QED
    BY <1>3, <2>1 DEF Column, Bind, BindOf
<1> QED
  BY <1>1, <1>2, <1>3 DEF IsText, Characters

(* chrono's text of a time: refused by every format, or as TO_CHAR's.      *)
LEMMA ChronoAsText ==
    ASSUME NEW v \in Moments, NEW t \in {"DATE", "TIMESTAMP"}
    PROVE  /\ ChronoText(v, FormatOf(t)) \in Texts
           /\ IF v.time < 0 THEN ChronoText(v, FormatOf(t)) = <<<<"signed", v.time>>>>
              ELSE ChronoText(v, FormatOf(t)) = Rendered(v, FormatOf(t))
<1>1. v.time \in Int
  BY DEF Moments
<1>2. CASE v.time < 0
  <2>1. <<"signed", v.time>> \in Pieces
    BY <1>1 DEF Pieces
  <2>2. <<<<"signed", v.time>>>> \in Texts
    BY <2>1 DEF Texts
  <2> QED
    BY <1>2, <2>2 DEF ChronoText
<1>3. CASE ~(v.time < 0)
  <2>1. Rendered(v, FormatOf(t)) \in Texts
    BY <1>1, <1>3, RenderedText DEF Temporal
  <2> QED
    BY <1>3, <2>1 DEF ChronoText
<1> QED
  BY <1>2, <1>3

LEMMA ArrowIsTyped ==
    ASSUME TypeInv, value # NULL
    PROVE  /\ From = "Int64" => value \in Int
           /\ From = "Float64" => value \in Numbers
           /\ From = "Boolean" => value \in BOOLEAN
           /\ From = "Date32" => value \in Moments /\ value.fraction = 0 /\ value.offset = 0
           /\ From \in {"Timestamp", "TimestampUTC"} =>
                 value \in Moments /\ CutToMicro(value.fraction) = value.fraction /\ value.offset = 0
<1>1. CASE From \in {"Int64", "Float64", "Boolean"}
  BY <1>1 DEF TypeInv, OfType, Numeric
<1>2. CASE From = "Date32"
  BY <1>2 DEF TypeInv, OfType, Numeric
<1>3. CASE From \in {"Timestamp", "TimestampUTC"}
  BY <1>3 DEF TypeInv, OfType, Numeric
<1> QED
  BY <1>1, <1>2, <1>3

LEMMA ArrowBinds ==
    ASSUME TypeInv, value # NULL, From \in ArrowTypes \ {"Utf8", "Binary"}, Bind # Failed
    PROVE  Bind = TextOf(value, From) /\ Bind \in Texts /\ From # "Decimal128"
<1>1. From \notin ColumnTypes /\ OracleToArrow(From) = From
  BY DEF ColumnTypes, Characters, Temporal, Zoned, Numeric, OracleToArrow, ArrowTypes
<1>2. Bind = BindOf(value, From)
  BY <1>1 DEF Bind, Column
<1>3. CASE From = "Int64"
  <2>1. Bind = <<<<"int", value>>>> /\ TextOf(value, From) = <<<<"int", value>>>>
    BY <1>2, <1>3 DEF BindOf, TextOf, Numeric, Temporal, Zoned
  <2> QED
    BY <1>3, <2>1, ArrowIsTyped, IntAsText
<1>4. CASE From = "Float64"
  <2>1. Bind = NumberText(value, ".") /\ TextOf(value, From) = NumberText(value, ".")
    BY <1>2, <1>4 DEF BindOf, TextOf, Numeric, Temporal, Zoned
  <2> QED
    BY <1>4, <2>1, ArrowIsTyped, NumberAsText
<1>5. CASE From = "Boolean"
  <2>1. Bind = BooleanText(value) /\ TextOf(value, From) = BooleanText(value)
    BY <1>2, <1>5 DEF BindOf, TextOf, Numeric, Temporal, Zoned
  <2>2. BooleanText(value) \in Texts
    BY IntAsText DEF BooleanText
  <2> QED
    BY <1>5, <2>1, <2>2
<1>6. CASE From = "Date32"
  <2>1. Bind = ChronoText(value, FormatOf("DATE")) /\ TextOf(value, From) = Bind
    BY <1>2, <1>6 DEF BindOf, TextOf, Numeric, Temporal, Zoned
  <2> QED
    BY <1>6, <2>1, ArrowIsTyped, ChronoAsText
<1>7. CASE From \in {"Timestamp", "TimestampUTC"}
  <2>1. Bind = ChronoText(value, FormatOf("TIMESTAMP")) /\ TextOf(value, From) = Bind
    BY <1>2, <1>7 DEF BindOf, TextOf, Numeric, Temporal, Zoned
  <2> QED
    BY <1>7, <2>1, ArrowIsTyped, ChronoAsText
<1>8. CASE From = "Decimal128"
  BY <1>2, <1>8 DEF BindOf
<1> QED
  BY <1>3, <1>4, <1>5, <1>6, <1>7, <1>8 DEF ArrowTypes

(* However it gets there: a value is bound as its text, or as NULL when it *)
(* is a CLOB of no length.                                                 *)
LEMMA ValueBinds ==
    ASSUME TypeInv, value # NULL, AfterChrist(value, From), Bind # Failed,
           From \in ColumnTypes => Cell # Failed
    PROVE  \/ Bind = TextOf(value, From) /\ Bind \in Texts
           \/ From = "CLOB" /\ value = <<>> /\ Bind = NULL
<1>1. CASE From \in Temporal
  BY <1>1, TemporalBinds
<1>2. CASE From \in Numeric
  BY <1>2, NumericBinds
<1>3. CASE From = "BOOLEAN"
  BY <1>3, BooleanBinds
<1>4. CASE IsText(From)
  <2>1. From = "CLOB" => From \in ColumnTypes
    BY DEF ColumnTypes, Characters
  <2> QED
    BY <1>4, <2>1, TextBinds, TextIsText
<1>5. CASE From \in ArrowTypes \ {"Utf8", "Binary"}
  BY <1>5, ArrowBinds
<1> QED
  BY <1>1, <1>2, <1>3, <1>4, <1>5, TypesOfPath DEF ColumnTypes, IsText

---------------------------------------------------------------------------
(* What becomes of a bind. *)

(* What a column of type t keeps of a time. *)
Kept(m, t) ==
    [time |-> IF t = "TIMESTAMP_LTZ" THEN m.time - m.offset ELSE m.time,
     fraction |-> m.fraction,
     offset |-> IF t = "TIMESTAMP_TZ" THEN m.offset ELSE 0]

LEMMA NothingArrives ==
    ASSUME Bind \in {NULL, <<>>}
    PROVE  Staged = NULL /\ Stored = NULL
  BY DEF Staged, Stored, Converted, Assigned

LEMMA Mirrored ==
    ASSUME TypeInv, Supported(path), ~(Into = Described /\ Staging = Into)
    PROVE  Described = "DATE" /\ {Staging, Into} \subseteq {"DATE", "TIMESTAMP"}
  BY DEF Supported, Described, Staging, Into

(* A text that is not converted as a time. *)
LEMMA TextArrives ==
    ASSUME TypeInv, Supported(path), Bind \in Texts, Bind # <<>>, Into \notin Temporal
    PROVE  /\ Staged = Stored
           /\ Stored = CASE Into \in Numeric -> ToNumber(Bind, ".")
                         [] Into = "BOOLEAN" -> ToBoolean(Bind)
                         [] OTHER -> Bind
<1>1. Described = Into /\ Staging = Into
  BY Mirrored DEF Temporal
<1>2. Into \in Numeric \cup Characters \cup {"RAW", "BOOLEAN"}
  BY TypesOfPath DEF ColumnTypes
<1>3. TypedExpr(Described) = "text"
  BY <1>1 DEF TypedExpr, Temporal, Zoned
<1>4. Bind # NULL /\ Bind # Failed
  BY NothingIsNoValue
<1>5. Converted(Bind, Described, writer) = Bind
  BY <1>3, <1>4 DEF Converted
<1>6. writer.decimal = "." /\ Into # "text"
  BY <1>2 DEF TypeInv, PinnedSessions, Numeric, Characters
<1>7. Staged = CASE Into \in Numeric -> ToNumber(Bind, ".")
                 [] Into = "BOOLEAN" -> ToBoolean(Bind)
                 [] OTHER -> Bind
  BY <1>1, <1>2, <1>3, <1>4, <1>5, <1>6 DEF Staged, Assigned, Numeric, Characters
<1>8. Stored = Staged
  BY <1>1 DEF Stored, Assigned
<1> QED
  BY <1>7, <1>8

(* A text that is converted as a time. *)
LEMMA TimeArrives ==
    ASSUME TypeInv, Supported(path), Bind \in Texts, Bind # <<>>, Into \in Temporal
    PROVE  IF Fits(Bind, FormatOf(Described))
           THEN LET m == Parsed(Bind, FormatOf("TIMESTAMP_TZ"), writer)
                IN  /\ m \in Moments /\ Fits(Bind, FormatOf("TIMESTAMP_TZ"))
                    /\ Staged \in Moments
                    /\ Stored = Kept(m, Into)
                    /\ Into \notin Zoned => Len(Bind) < 3
           ELSE Staged = Failed
<1>1. /\ Described \in Temporal
      /\ Into \in Zoned <=> Described \in Zoned
      /\ TypedExpr(Described) # "text"
  BY Mirrored DEF TypedExpr, Temporal, Zoned
<1>2. Bind # NULL /\ Bind # Failed
  BY NothingIsNoValue
<1> DEFINE m0 == Parsed(Bind, FormatOf(Described), writer)
           m == Parsed(Bind, FormatOf("TIMESTAMP_TZ"), writer)
<1>3. Converted(Bind, Described, writer) = m0
  BY <1>1, <1>2 DEF Converted
<1>4. CASE ~Fits(Bind, FormatOf(Described))
  <2>1. m0 = Failed
    BY <1>4 DEF Parsed
  <2> QED
    BY <1>3, <1>4, <2>1 DEF Staged, Assigned
<1>5. CASE Fits(Bind, FormatOf(Described))
  <2>1. /\ writer \in PinnedSessions /\ "TIMESTAMP_TZ" \in Zoned
        /\ "TIMESTAMP_TZ" \in Temporal
    BY DEF TypeInv, Zoned, Temporal
  <2>2. Fits(Bind, FormatOf("TIMESTAMP_TZ"))
    BY <1>1, <1>5, <2>1, FitsAnyFormat, Formats
  <2> DEFINE time == Bind[1][2]
             fraction == IF Len(Bind) > 1 THEN Bind[2][2] ELSE 0
             offset == IF Len(Bind) = 3 THEN Bind[3][2] ELSE writer.zone
  <2>3. /\ m0 = [time |-> time, fraction |-> fraction,
                 offset |-> IF Described \notin Zoned THEN 0 ELSE offset]
        /\ m0 \in Moments
    BY <1>1, <1>5, <2>1, ParsedParts
  <2>4. /\ m = [time |-> time, fraction |-> fraction, offset |-> offset]
        /\ m \in Moments
    BY <2>1, <2>2, ParsedParts
  <2>5. Into \notin Zoned => Len(Bind) < 3
    <3>1. CASE Described = "DATE"
      <4>1. Fits(Bind, <<"time">>)
        BY <1>5, <3>1, Formats
      <4> QED
        BY <4>1, FitsLength
    <3>2. CASE Described = "TIMESTAMP"
      <4>1. Fits(Bind, <<"time", "fraction">>)
        BY <1>5, <3>2, Formats
      <4> QED
        BY <4>1, FitsLength
    <3> QED
      BY <1>1, <3>1, <3>2 DEF Temporal
  <2>6. Described = "DATE" => fraction = 0
    BY <1>5, Formats DEF Fits
  <2>7. m0 # NULL /\ m0 # Failed
    BY <2>3, NothingIsNoValue
  <2> HIDE DEF m0, m, time, fraction, offset
  <2>8. Staged = Assigned(m0, TypedExpr(Described), Staging, writer)
    BY <1>3 DEF Staged
  <2>9. Staged \in Moments /\ Stored = Kept(m, Into)
    <3>1. CASE Described \in {"DATE", "TIMESTAMP", "TIMESTAMP_TZ"} /\ Staging = Described /\ Into = Described
      <4>1. TypedExpr(Described) = Described
        BY <3>1 DEF TypedExpr, Zoned
      <4>2. Staged = m0 /\ Stored = m0
        BY <2>8, <3>1, <4>1 DEF Stored, Assigned
      <4>3. m0 = Kept(m, Into)
        BY <2>3, <2>4, <3>1 DEF Kept, Zoned
      <4> QED
        BY <2>3, <4>2, <4>3
    <3>2. CASE Described = "TIMESTAMP_LTZ" /\ Staging = Described /\ Into = Described
      <4>1. TypedExpr(Described) = "TIMESTAMP_TZ"
        BY <3>2 DEF TypedExpr, Zoned
      <4>2. Staged = [m0 EXCEPT !.time = @ - m0.offset, !.offset = 0]
        BY <2>7, <2>8, <3>2, <4>1 DEF Assigned, SeenIn, Zoned
      <4>3. m0 = m
        BY <2>3, <2>4, <3>2 DEF Zoned
      <4>4. Staged = Kept(m, Into) /\ Staged \in Moments
        <5>1. time \in Int /\ fraction \in Nat /\ offset \in Int
          BY <2>4 DEF Moments
        <5>2. Staged = [time |-> time - offset, fraction |-> fraction, offset |-> 0]
          BY <2>4, <4>2, <4>3
        <5>3. Kept(m, Into) = [time |-> time - offset, fraction |-> fraction, offset |-> 0]
          BY <2>4, <3>2 DEF Kept
        <5> QED
          BY <5>1, <5>2, <5>3 DEF Moments
      <4>5. Stored = Staged
        BY <3>2 DEF Stored, Assigned
      <4> QED
        BY <4>4, <4>5
    <3>3. CASE Described = "DATE" /\ {Staging, Into} \subseteq {"DATE", "TIMESTAMP"}
      <4>1. TypedExpr(Described) = "DATE"
        BY <3>3 DEF TypedExpr, Zoned
      <4>2. m0 = [time |-> time, fraction |-> 0, offset |-> 0]
        BY <2>3, <2>6, <3>3 DEF Zoned
      <4>3. \A s, t \in {"DATE", "TIMESTAMP"} : Assigned(m0, s, t, writer) = m0
        BY <4>2 DEF Assigned, SeenIn
      <4>4. Staged = m0 /\ Stored = m0
        BY <2>8, <3>3, <4>1, <4>3 DEF Stored
      <4>5. m0 = Kept(m, Into)
        BY <2>3, <2>4, <3>3 DEF Kept, Zoned
      <4> QED
        BY <2>3, <4>4, <4>5
    <3> QED
      BY <1>1, <3>1, <3>2, <3>3, Mirrored DEF Temporal, Zoned
  <2> QED
    BY <1>5, <2>2, <2>4, <2>5, <2>9 DEF m
<1> QED
  BY <1>4, <1>5

---------------------------------------------------------------------------
(* What arrives says what was read. *)

LEMMA RenderedParsed ==
    ASSUME NEW v \in Moments, v.time >= 0, NEW t \in Temporal, NEW session \in PinnedSessions
    PROVE  LET w == Rendered(v, FormatOf(t))
           IN  /\ Parsed(w, FormatOf("TIMESTAMP_TZ"), session) =
                      [time |-> v.time,
                       fraction |-> IF t = "DATE" THEN 0 ELSE CutToMicro(v.fraction),
                       offset |-> IF t \in Zoned THEN v.offset ELSE session.zone]
               /\ IF t \in Zoned THEN Len(w) = 3 ELSE Len(w) < 3
<1> DEFINE w == Rendered(v, FormatOf(t))
<1>1. /\ w \in Texts /\ Fits(w, FormatOf(t)) /\ Len(w) = Len(FormatOf(t))
      /\ w[1] = <<"time", v.time>>
      /\ Len(w) > 1 => w[2] = <<"fraction", CutToMicro(v.fraction)>>
      /\ Len(w) > 2 => w[3] = <<"offset", v.offset>>
  BY RenderedText
<1>2. "TIMESTAMP_TZ" \in Zoned /\ "TIMESTAMP_TZ" \in Temporal
  BY DEF Zoned, Temporal
<1>3. Fits(w, FormatOf("TIMESTAMP_TZ"))
  BY <1>1, <1>2, FitsAnyFormat, Formats
<1> HIDE DEF w
<1>4. Parsed(w, FormatOf("TIMESTAMP_TZ"), session) =
          [time |-> w[1][2], fraction |-> IF Len(w) > 1 THEN w[2][2] ELSE 0,
           offset |-> IF Len(w) = 3 THEN w[3][2] ELSE session.zone]
  BY <1>1, <1>2, <1>3, ParsedParts
<1>5. CASE t = "DATE"
  <2>1. Len(w) = 1
    BY <1>1, <1>5, Formats
  <2> QED
    BY <1>1, <1>4, <1>5, <2>1 DEF w, Zoned
<1>6. CASE t = "TIMESTAMP"
  <2>1. Len(w) = 2
    BY <1>1, <1>6, Formats
  <2>2. Parsed(w, FormatOf("TIMESTAMP_TZ"), session) =
            [time |-> v.time, fraction |-> CutToMicro(v.fraction), offset |-> session.zone]
    BY <1>1, <1>4, <2>1
  <2>3. t # "DATE" /\ t \notin Zoned /\ Len(w) < 3
    BY <1>6, <2>1 DEF Zoned
  <2> QED
    BY <2>2, <2>3 DEF w
<1>7. CASE t \in Zoned
  <2>1. FormatOf(t) = <<"time", "fraction", "offset">>
    BY <1>7, Formats
  <2>2. Len(w) = 3
    BY <1>1, <2>1
  <2>3. Parsed(w, FormatOf("TIMESTAMP_TZ"), session) =
            [time |-> v.time, fraction |-> CutToMicro(v.fraction), offset |-> v.offset]
    BY <1>1, <1>4, <2>2
  <2> QED
    BY <1>7, <2>2, <2>3 DEF w, Zoned
<1> QED
  BY <1>5, <1>6, <1>7 DEF Temporal

(* The text of a time is that of the same time. *)
LEMMA TimeIsSaid ==
    ASSUME TypeInv, value # NULL, AfterChrist(value, From), Bind = TextOf(value, From),
           From \in Temporal \cup {"Date32", "Timestamp", "TimestampUTC"},
           Fits(Bind, FormatOf("TIMESTAMP_TZ"))
    PROVE  LET m == Parsed(Bind, FormatOf("TIMESTAMP_TZ"), writer)
           IN  /\ value \in Moments
               /\ m.fraction = CutToMicro(value.fraction)
               /\ IF From \in Zoned THEN Len(Bind) = 3 /\ m.time - m.offset = Instant(value)
                  ELSE /\ m.time = value.time /\ m.offset = writer.zone
                       /\ From = "TimestampUTC" => value.offset = 0
<1> DEFINE m == Parsed(Bind, FormatOf("TIMESTAMP_TZ"), writer)
<1>1. CutToMicro(0) = 0
  BY MicroAssumption DEF CutToMicro
<1>2. CASE From \in Temporal
  <2> DEFINE v == SeenIn(value, From, reader)
  <2>1. /\ v \in Moments /\ v.time >= 0 /\ value \in Moments
        /\ v = IF From = "TIMESTAMP_LTZ"
               THEN [time |-> value.time + reader.zone, fraction |-> value.fraction,
                     offset |-> reader.zone]
               ELSE value
    BY <1>2, SeenIsMoment DEF TypeInv, AfterChrist
  <2>2. Bind = Rendered(v, FormatOf(From))
    BY <1>2 DEF TextOf, Temporal, Zoned, Numeric
  <2>3. /\ m = [time |-> v.time, fraction |-> IF From = "DATE" THEN 0 ELSE CutToMicro(v.fraction),
                offset |-> IF From \in Zoned THEN v.offset ELSE writer.zone]
        /\ From \in Zoned => Len(Bind) = 3
    BY <1>2, <2>1, <2>2, RenderedParsed DEF TypeInv
  <2>4. /\ From = "DATE" => value.fraction = 0
        /\ From = "TIMESTAMP_LTZ" => value.offset = 0
    <3>1. CASE From = "DATE"
      BY <3>1 DEF TypeInv, OfType, Numeric
    <3>2. CASE From = "TIMESTAMP_LTZ"
      BY <3>2 DEF TypeInv, OfType, Numeric
    <3> QED
      BY <3>1, <3>2
  <2>5. m.fraction = CutToMicro(value.fraction)
    BY <1>1, <2>1, <2>3, <2>4
  <2>6. CASE From \in Zoned
    <3>1. /\ value.time \in Int /\ reader.zone \in Int /\ value.offset \in Int
      BY <2>1 DEF Moments, TypeInv, PinnedSessions
    <3> QED
      BY <2>1, <2>3, <2>4, <2>5, <2>6, <3>1 DEF Instant
  <2>7. CASE From \notin Zoned
    <3>1. v = value
      BY <2>1, <2>7 DEF Zoned
    <3>2. From # "TimestampUTC"
      BY <1>2 DEF Temporal, Zoned
    <3> HIDE DEF v, m
    <3> QED
      BY <2>1, <2>3, <2>5, <2>7, <3>1, <3>2 DEF m
  <2> QED
    BY <2>6, <2>7
<1>3. CASE From \in {"Date32", "Timestamp", "TimestampUTC"}
  <2> DEFINE t == IF From = "Date32" THEN "DATE" ELSE "TIMESTAMP"
  <2>1. /\ value \in Moments
        /\ From = "Date32" => value.fraction = 0
        /\ From = "TimestampUTC" => value.offset = 0
    BY <1>3, ArrowIsTyped
  <2>2. Bind = ChronoText(value, FormatOf(t))
    BY <1>3 DEF TextOf, Temporal, Zoned, Numeric
  <2>3. t \in {"DATE", "TIMESTAMP"} /\ t \in Temporal /\ t \notin Zoned
    BY DEF Temporal, Zoned
  <2>4. Bind[1][1] = "time"
    <3>1. Fits(Bind, <<"time", "fraction", "offset">>)
      BY Formats DEF Zoned
    <3>2. Bind \in Texts
      BY <2>1, <2>2, <2>3, ChronoAsText
    <3> QED
      BY <3>1, <3>2, FitsParts
  <2>5. ~(value.time < 0)
    <3> SUFFICES ASSUME value.time < 0 PROVE FALSE
      OBVIOUS
    <3>1. Bind = <<<<"signed", value.time>>>>
      BY <2>1, <2>2, <2>3, ChronoAsText
    <3> QED
      BY <2>4, <3>1
  <2>6. value.time >= 0 /\ Bind = Rendered(value, FormatOf(t))
    BY <2>1, <2>2, <2>3, <2>5, ChronoAsText DEF Moments
  <2>7. m = [time |-> value.time, fraction |-> IF t = "DATE" THEN 0 ELSE CutToMicro(value.fraction),
             offset |-> writer.zone]
    BY <2>1, <2>3, <2>6, RenderedParsed DEF TypeInv
  <2>8. From \notin Zoned
    BY <1>3 DEF Zoned
  <2> QED
    BY <1>1, <1>3, <2>1, <2>7, <2>8
<1> QED
  BY <1>2, <1>3

Counts == Numeric \cup {"Float64", "Int64", "BOOLEAN", "Boolean"}
Times == Temporal \cup {"Date32", "Timestamp", "TimestampUTC"}

LEMMA AnyType ==
    ASSUME TypeInv
    PROVE  IsText(From) \/ From \in Counts \/ From \in Times \/ From = "Decimal128"
  BY TypesOfPath DEF IsText, Counts, Times, ColumnTypes, ArrowTypes

(* No text of a number is one of a time. *)
LEMMA FirstPiece ==
    ASSUME TypeInv, value # NULL, AfterChrist(value, From)
    PROVE  /\ From \in Counts => /\ TextOf(value, From) # <<>>
                                 /\ TextOf(value, From)[1][1] = "int"
           /\ From \in Times => /\ TextOf(value, From) # <<>>
                                /\ TextOf(value, From)[1][1] \in {"time", "signed"}
<1>1. CASE From \in Numeric \cup {"Float64"}
  <2>1. value \in Numbers /\ TextOf(value, From) = NumberText(value, ".")
    BY <1>1, NumericBinds, ArrowIsTyped DEF TextOf, Numeric, Temporal, Zoned
  <2> QED
    BY <1>1, <2>1, NumberAsText DEF Times, Temporal, Zoned, Numeric
<1>2. CASE From \in {"BOOLEAN", "Boolean"}
  <2>1. TextOf(value, From) = BooleanText(value)
    BY <1>2 DEF TextOf, Numeric, Temporal, Zoned
  <2> QED
    BY <1>2, <2>1 DEF BooleanText, Times, Temporal, Zoned
<1>3. CASE From = "Int64"
  <2>1. TextOf(value, From) = <<<<"int", value>>>>
    BY <1>3 DEF TextOf, Numeric, Temporal, Zoned
  <2> QED
    BY <1>3, <2>1 DEF Times, Temporal, Zoned
<1>4. CASE From \in Temporal
  <2> DEFINE v == SeenIn(value, From, reader)
  <2>1. v \in Moments /\ v.time >= 0
    BY <1>4, SeenIsMoment DEF TypeInv, AfterChrist
  <2>2. TextOf(value, From) = Rendered(v, FormatOf(From))
    BY <1>4 DEF TextOf, Temporal, Zoned, Numeric
  <2>3. TextOf(value, From)[1] = <<"time", v.time>> /\ Len(TextOf(value, From)) # 0
    BY <1>4, <2>1, <2>2, RenderedText, Formats DEF Temporal
  <2> QED
    BY <1>4, <2>3 DEF Counts, Temporal, Zoned, Numeric
<1>5. CASE From \in {"Date32", "Timestamp", "TimestampUTC"}
  <2> DEFINE t == IF From = "Date32" THEN "DATE" ELSE "TIMESTAMP"
  <2>1. value \in Moments
    BY <1>5, ArrowIsTyped
  <2>2. TextOf(value, From) = ChronoText(value, FormatOf(t))
    BY <1>5 DEF TextOf, Temporal, Zoned, Numeric
  <2>3. t \in {"DATE", "TIMESTAMP"} /\ t \in Temporal
    BY DEF Temporal
  <2>4. CASE value.time < 0
    <3>1. TextOf(value, From) = <<<<"signed", value.time>>>>
      BY <2>1, <2>2, <2>3, <2>4, ChronoAsText
    <3> QED
      BY <1>5, <3>1 DEF Counts, Numeric
  <2>5. CASE ~(value.time < 0)
    <3>1. TextOf(value, From) = Rendered(value, FormatOf(t)) /\ value.time >= 0
      BY <2>1, <2>2, <2>3, <2>5, ChronoAsText DEF Moments
    <3>2. TextOf(value, From)[1] = <<"time", value.time>> /\ Len(TextOf(value, From)) # 0
      BY <2>1, <2>3, <3>1, RenderedText, Formats
    <3> QED
      BY <1>5, <3>2 DEF Counts, Numeric
  <2> QED
    BY <2>4, <2>5
<1> QED
  BY <1>1, <1>2, <1>3, <1>4, <1>5 DEF Counts, Times

(* A time that arrives is the same. *)
LEMMA TimeIsKept ==
    ASSUME TypeInv, Supported(path), value # NULL, AfterChrist(value, From),
           Bind \in Texts, Bind # <<>>, Into \in Temporal, Staged # Failed
    PROVE  /\ Stored \in Moments
           /\ Bind = value /\ IsText(From) => SaysWhatIs(value, Stored, Into)
           /\ Bind = TextOf(value, From) /\ ~IsText(From) /\ From # "Decimal128" =>
                 SameTime(value, From \in Zoned \cup {"TimestampUTC"}, Stored, Into)
<1> DEFINE m == Parsed(Bind, FormatOf("TIMESTAMP_TZ"), writer)
<1>1. /\ m \in Moments /\ Fits(Bind, FormatOf("TIMESTAMP_TZ"))
      /\ Stored = Kept(m, Into)
      /\ Into \notin Zoned => Len(Bind) < 3
  BY TimeArrives
<1>2. /\ m.time \in Int /\ m.fraction \in Nat /\ m.offset \in Int /\ writer.zone \in Int
      /\ m # Failed
  BY <1>1, NothingIsNoValue DEF Moments, TypeInv, PinnedSessions
<1>3. Stored = [time |-> IF Into = "TIMESTAMP_LTZ" THEN m.time - m.offset ELSE m.time,
                fraction |-> m.fraction,
                offset |-> IF Into = "TIMESTAMP_TZ" THEN m.offset ELSE 0]
  BY <1>1 DEF Kept
<1>4. Stored \in Moments
  BY <1>2, <1>3 DEF Moments
<1>5. SeenIn(Stored, Into, writer).time =
          IF Into = "TIMESTAMP_LTZ" THEN (m.time - m.offset) + writer.zone ELSE m.time
  BY <1>3 DEF SeenIn
<1>6. ASSUME Bind = value, IsText(From)
      PROVE  SaysWhatIs(value, Stored, Into)
  <2>1. CutToMicro(m.fraction) = m.fraction
    BY <1>1, ParsedParts DEF TypeInv, Temporal, Zoned
  <2>2. CASE Into \in Zoned
    <3>1. Instant(m) = Instant(Stored)
      BY <1>2, <1>3, <2>2 DEF Instant, Zoned
    <3> QED
      BY <1>2, <1>3, <1>6, <2>1, <2>2, <3>1 DEF SaysWhatIs, SameTime, Numeric, Temporal, Zoned
  <2>3. CASE Into \notin Zoned
    <3>1. m.time = SeenIn(Stored, Into, writer).time
      BY <1>5, <2>3 DEF Zoned
    <3> QED
      BY <1>2, <1>3, <1>6, <2>1, <2>3, <3>1 DEF SaysWhatIs, SameTime, Numeric, Temporal, Zoned
  <2> QED
    BY <2>2, <2>3
<1>7. ASSUME Bind = TextOf(value, From), ~IsText(From), From # "Decimal128"
      PROVE  SameTime(value, From \in Zoned \cup {"TimestampUTC"}, Stored, Into)
  <2>1. From \in Times
    <3>1. Fits(Bind, <<"time", "fraction", "offset">>)
      BY <1>1, Formats DEF Zoned
    <3>2. Bind[1][1] = "time"
      BY <3>1, FitsParts
    <3> QED
      BY <1>7, <3>2, FirstPiece, AnyType
  <2>2. /\ value \in Moments
        /\ m.fraction = CutToMicro(value.fraction)
        /\ IF From \in Zoned THEN Len(Bind) = 3 /\ m.time - m.offset = Instant(value)
           ELSE /\ m.time = value.time /\ m.offset = writer.zone
                /\ From = "TimestampUTC" => value.offset = 0
    BY <1>1, <1>7, <2>1, TimeIsSaid DEF Times
  <2>3. Stored.fraction = CutToMicro(value.fraction)
    BY <1>3, <2>2
  <2>4. CASE From \in Zoned
    <3>1. Into \in Zoned
      <4>1. Len(Bind) = 3
        BY <2>2, <2>4
      <4>2. ~(Len(Bind) < 3)
        BY <4>1
      <4> QED
        BY <1>1, <4>2
    <3>2. Instant(Stored) = m.time - m.offset
      BY <1>2, <1>3, <3>1 DEF Instant, Zoned
    <3> QED
      BY <2>2, <2>3, <2>4, <3>2 DEF SameTime
  <2>5. CASE From = "TimestampUTC"
    <3>1. Into \notin Zoned
      BY <2>5 DEF Supported, From, Into
    <3>2. From \notin Zoned
      BY <2>5 DEF Zoned
    <3>3. Stored.time = value.time /\ Stored.offset = 0 /\ value.offset = 0
      BY <1>3, <2>2, <2>5, <3>1, <3>2 DEF Zoned
    <3> QED
      BY <2>3, <2>5, <3>3 DEF SameTime, Instant
  <2>6. CASE From \notin Zoned \cup {"TimestampUTC"}
    <3>1. m.time = value.time /\ m.offset = writer.zone
      BY <2>2, <2>6
    <3>2. SeenIn(Stored, Into, writer).time = value.time
      BY <1>2, <1>5, <3>1
    <3> QED
      BY <2>3, <2>6, <3>2 DEF SameTime
  <2> QED
    BY <2>4, <2>5, <2>6
<1> QED
  BY <1>4, <1>6, <1>7

LEMMA TextSaysSame ==
    ASSUME TypeInv, value # NULL, AfterChrist(value, From), Bind = TextOf(value, From),
           ~IsText(From), From # "Decimal128"
    PROVE  SaysSame(value, From, Bind)
<1>1. CASE From \in Counts
  BY <1>1 DEF SaysSame, TextOf, Counts, Numeric, Temporal, Zoned
<1>2. CASE From \in {"Date32", "Timestamp", "TimestampUTC"}
  BY <1>2 DEF SaysSame, TextOf, Numeric, Temporal, Zoned
<1>3. CASE From \in {"DATE", "TIMESTAMP"}
  <2>1. SeenIn(value, From, reader) = value
    BY <1>3 DEF SeenIn
  <2> QED
    BY <1>3, <2>1 DEF SaysSame, TextOf, Numeric, Temporal, Zoned
<1>4. CASE From \in Zoned
  <2> DEFINE v == SeenIn(value, From, reader)
             m == Parsed(Bind, FormatOf("TIMESTAMP_TZ"), writer)
  <2>1. /\ From \in Temporal /\ From \in Times
        /\ "TIMESTAMP_TZ" \in Zoned /\ "TIMESTAMP_TZ" \in Temporal
    BY <1>4 DEF Temporal, Zoned, Times
  <2>2. v \in Moments /\ v.time >= 0
    BY <2>1, SeenIsMoment DEF TypeInv, AfterChrist
  <2>3. Bind = Rendered(v, FormatOf(From))
    BY <1>4 DEF TextOf, Temporal, Zoned, Numeric
  <2>4. FormatOf(From) = FormatOf("TIMESTAMP_TZ")
    BY <1>4, <2>1, Formats
  <2>5. Bind \in Texts /\ Fits(Bind, FormatOf("TIMESTAMP_TZ"))
    BY <2>1, <2>2, <2>3, <2>4, RenderedText
  <2>6. m \in Moments /\ CutToMicro(m.fraction) = m.fraction
    BY <2>1, <2>5, ParsedParts DEF TypeInv
  <2>7. m.fraction = CutToMicro(value.fraction) /\ Instant(m) = Instant(value)
    BY <1>4, <2>1, <2>5, TimeIsSaid DEF Times, Instant
  <2>8. m # Failed /\ SameTime(value, TRUE, m, "TIMESTAMP_TZ")
    BY <2>6, <2>7, NothingIsNoValue DEF SameTime
  <2> HIDE DEF m
  <2>9. m = Parsed(Bind, FormatOf(From), writer)
    BY <2>4 DEF m
  <2> QED
    BY <1>4, <2>8, <2>9 DEF SaysSame, Numeric, Zoned
<1> QED
  BY <1>1, <1>2, <1>3, <1>4, AnyType DEF Times, Temporal

(* A text, a number or a truth value that arrives says the same. *)
LEMMA TextIsKept ==
    ASSUME TypeInv, Supported(path), value # NULL, AfterChrist(value, From),
           Bind \in Texts, Bind # <<>>, Into \notin Temporal, Stored # Failed
    PROVE  /\ Stored # NULL
           /\ Bind = value /\ IsText(From) => SaysWhatIs(value, Stored, Into)
           /\ Bind = TextOf(value, From) /\ ~IsText(From) /\ From # "Decimal128" =>
                 CASE Into \in Numeric -> SaysSame(value, From, NumberText(Stored, "."))
                   [] Into = "BOOLEAN" -> SaysSame(value, From, BooleanText(Stored))
                   [] OTHER -> SaysSame(value, From, Stored)
<1>1. Stored = CASE Into \in Numeric -> ToNumber(Bind, ".")
                 [] Into = "BOOLEAN" -> ToBoolean(Bind)
                 [] OTHER -> Bind
  BY TextArrives
<1>2. ASSUME Bind = value, IsText(From)
      PROVE  SaysWhatIs(value, Stored, Into)
  BY <1>1, <1>2 DEF SaysWhatIs
<1>3. CASE Into \in Numeric
  <2>1. Stored = ToNumber(Bind, ".")
    BY <1>1, <1>3 DEF Numeric
  <2>2. Stored \in Numbers /\ Bind[1][1] = "int"
    BY <2>1, NumberIsTyped
  <2>3. Stored # NULL
    BY <2>2, NothingIsNoValue
  <2>4. ASSUME Bind = TextOf(value, From), ~IsText(From), From # "Decimal128"
        PROVE  SaysSame(value, From, NumberText(Stored, "."))
    <3>1. From \in Counts
      BY <2>2, <2>4, FirstPiece, AnyType
    <3>2. SaysSame(value, From, Bind)
      BY <2>4, TextSaysSame
    <3>3. NumberText(Stored, ".") = Bind
      <4>1. CASE From \in Numeric \cup {"Float64"}
        <5>1. value \in Numbers /\ Bind = NumberText(value, ".")
          BY <2>4, <4>1, NumericBinds, ArrowIsTyped DEF TextOf, Numeric, Temporal, Zoned
        <5>2. Stored = value
          BY <2>1, <5>1, NumberAsText
        <5> QED
          BY <5>1, <5>2
      <4>2. CASE From \in {"Int64", "BOOLEAN", "Boolean"}
        <5> DEFINE n == IF From = "Int64" THEN value ELSE IF value THEN 1 ELSE 0
        <5>1. Bind = <<<<"int", n>>>>
          BY <2>4, <4>2 DEF TextOf, BooleanText, Numeric, Temporal, Zoned
        <5> HIDE DEF n
        <5>2. Stored = [int |-> n, part |-> 0]
          BY <2>1, <5>1 DEF ToNumber
        <5> QED
          BY <5>1, <5>2 DEF NumberText
      <4> QED
        BY <3>1, <4>1, <4>2 DEF Counts
    <3> QED
      BY <3>2, <3>3
  <2> QED
    BY <1>2, <1>3, <2>3, <2>4 DEF Numeric
<1>4. CASE Into = "BOOLEAN"
  <2>1. Stored = ToBoolean(Bind)
    BY <1>1, <1>4 DEF Numeric
  <2>2. Stored \in BOOLEAN
    BY <2>1, BooleanIsTyped
  <2>3. Stored # NULL
    BY <2>2, NothingIsNoValue
  <2>4. ASSUME Bind = TextOf(value, From), ~IsText(From), From # "Decimal128"
        PROVE  SaysSame(value, From, BooleanText(Stored))
    <3>1. Bind[1][1] \in {"int", "word"}
      BY <2>1, BooleanIsTyped
    <3>2. Bind[1][1] = "int"
      BY <2>4, <3>1, FirstPiece, AnyType
    <3>3. BooleanText(Stored) = Bind
      BY <2>1, <3>2, BooleanIsTyped
    <3> QED
      BY <2>4, <3>3, TextSaysSame
  <2> QED
    BY <1>2, <1>4, <2>3, <2>4 DEF Numeric
<1>5. CASE Into \notin Numeric \cup {"BOOLEAN"}
  <2>1. Stored = Bind
    BY <1>1, <1>5
  <2>2. Stored # NULL
    BY <2>1, NothingIsNoValue
  <2> QED
    BY <1>2, <1>5, <2>1, <2>2, TextSaysSame
<1> QED
  BY <1>3, <1>4, <1>5

---------------------------------------------------------------------------
(* The inductive invariant: where a value is says what it is. *)

PlaceInv ==
    /\ pc \in {"column", "cell", "batch", "bind", "staged", "stored", "failed"}
    /\ pc \in {"column", "cell"} => From \in ColumnTypes
    /\ pc = "column" => at = value
    /\ pc = "cell" => at = Cell
    /\ pc = "batch" => at = Column
    /\ pc = "bind" => at = Bind
    /\ pc = "staged" => at = Staged
    /\ pc = "stored" => at = Stored

(* No place that the value has passed had failed; where it has failed, one *)
(* did.                                                                    *)
PassedInv ==
    /\ pc \in {"cell", "batch", "bind", "staged", "stored"} /\ From \in ColumnTypes =>
            Cell # Failed
    /\ pc \in {"bind", "staged", "stored"} => Bind # Failed
    /\ pc \in {"staged", "stored"} => Staged # Failed
    /\ pc = "stored" => Stored # Failed
    /\ pc = "failed" =>
            \/ From \in ColumnTypes /\ Cell = Failed
            \/ Failed \in {Column, Bind, Staged, Stored}

CrossInv == TypeInv /\ PlaceInv /\ PassedInv

LEMMA InitCrosses == Init => CrossInv
<1> SUFFICES ASSUME Init PROVE CrossInv
  OBVIOUS
<1>1. TypeInv
  <2>1. \A s \in Sessions : Pinned(s) \in PinnedSessions
    BY SessionsAssumption, WordsAssumption DEF Pinned, PinnedSessions
  <2>2. value \in OfType(From) \cup {NULL}
    BY ValuesAssumption DEF Init, From
  <2> QED
    BY <2>1, <2>2 DEF Init, TypeInv
<1>2. PlaceInv /\ PassedInv
  BY DEF Init, PlaceInv, PassedInv, Column
<1> QED
  BY <1>1, <1>2 DEF CrossInv

LEMMA StepCrosses == CrossInv /\ [Next]_vars => CrossInv'
<1> SUFFICES ASSUME CrossInv, [Next]_vars PROVE CrossInv'
  OBVIOUS
<1> USE DEF CrossInv, PlaceInv, PassedInv
<1>1. UNCHANGED <<path, value, reader, writer>>
  BY DEF Next, Fetch, BuildColumn, CellToBind, Insert, Merge, Moves, vars
<1>2. /\ TypeInv' /\ UNCHANGED <<From, Described, Staging, Into>>
      /\ UNCHANGED <<Cell, Column, Bind, Staged, Stored>>
  BY <1>1 DEF TypeInv, From, Described, Staging, Into, Cell, Column, Bind, Staged, Stored
<1>3. CASE Fetch
  <2>1. pc = "column" /\ at' = Cell /\ pc' = IF Cell = Failed THEN "failed" ELSE "cell"
    BY <1>3 DEF Fetch, Moves, Cell
  <2> QED
    BY <1>2, <2>1
<1>4. CASE BuildColumn
  <2>1. pc = "cell" /\ at' = Column /\ pc' = IF Column = Failed THEN "failed" ELSE "batch"
    BY <1>4 DEF BuildColumn, Moves, Column
  <2> QED
    BY <1>2, <2>1
<1>5. CASE CellToBind
  <2>1. pc = "batch" /\ at' = Bind /\ pc' = IF Bind = Failed THEN "failed" ELSE "bind"
    BY <1>5 DEF CellToBind, Moves, Bind
  <2> QED
    BY <1>2, <2>1
<1>6. CASE Insert
  <2>1. pc = "bind" /\ at' = Staged /\ pc' = IF Staged = Failed THEN "failed" ELSE "staged"
    BY <1>6 DEF Insert, Moves, Staged
  <2> QED
    BY <1>2, <2>1
<1>7. CASE Merge
  <2>1. pc = "staged" /\ at' = Stored /\ pc' = IF Stored = Failed THEN "failed" ELSE "stored"
    BY <1>7 DEF Merge, Moves, Stored
  <2> QED
    BY <1>2, <2>1
<1>8. CASE UNCHANGED vars
  BY <1>2, <1>8 DEF vars
<1> QED
  BY <1>3, <1>4, <1>5, <1>6, <1>7, <1>8 DEF Next

LEMMA Crosses == Spec => []CrossInv
  BY InitCrosses, StepCrosses, PTL DEF Spec

---------------------------------------------------------------------------
(* A column of the same type gives the value back. *)

SameColumn == From = Into /\ Described = Into /\ Staging = Into

LEMMA SameIsSupported ==
    ASSUME TypeInv, SameColumn
    PROVE  Supported(path)
  BY TypesOfPath DEF SameColumn, Supported, From, Described, Staging, Into,
                     ColumnTypes, Temporal, Zoned, Numeric, Characters

LEMMA TimeComesBack ==
    ASSUME TypeInv, SameColumn, value # NULL, From \in Temporal,
           Representable(value, From)
    PROVE  Failed \notin {Cell, Column, Bind, Staged, Stored} /\ Stored = value
<1> DEFINE v == SeenIn(value, From, reader)
           m == Parsed(Bind, FormatOf("TIMESTAMP_TZ"), writer)
<1>1. v.time >= 0 /\ CutToMicro(value.fraction) = value.fraction
  BY DEF Representable, Temporal, Zoned, Numeric
<1>2. AfterChrist(value, From)
  BY <1>1 DEF AfterChrist
<1>3. /\ v \in Moments /\ value \in Moments
      /\ v = IF From = "TIMESTAMP_LTZ"
             THEN [time |-> value.time + reader.zone, fraction |-> value.fraction,
                   offset |-> reader.zone]
             ELSE value
  BY SeenIsMoment DEF TypeInv
<1>4. Cell # Failed /\ Column # Failed /\ Bind = TextOf(value, From) /\ Bind \in Texts
  BY <1>2, TemporalBinds
<1>5. Bind = Rendered(v, FormatOf(From))
  BY <1>4 DEF TextOf, Temporal, Zoned, Numeric
<1>6. Bind # <<>> /\ Bind # Failed
  BY <1>2, <1>4, FirstPiece, NothingIsNoValue DEF Times
<1>7. Fits(Bind, FormatOf(Described))
  BY <1>1, <1>3, <1>5, RenderedText DEF SameColumn
<1>8. Staged \in Moments /\ Stored = Kept(m, Into)
  BY <1>4, <1>6, <1>7, SameIsSupported, TimeArrives DEF SameColumn
<1>9. m = [time |-> v.time, fraction |-> IF From = "DATE" THEN 0 ELSE CutToMicro(v.fraction),
           offset |-> IF From \in Zoned THEN v.offset ELSE writer.zone]
  BY <1>1, <1>3, <1>5, RenderedParsed DEF TypeInv
<1>10. Stored = value
  <2>1. /\ value = [time |-> value.time, fraction |-> value.fraction, offset |-> value.offset]
        /\ value.time \in Int /\ reader.zone \in Int
    BY <1>3 DEF Moments, TypeInv, PinnedSessions
  <2>2. CASE From = "DATE"
    <3>1. value.fraction = 0 /\ value.offset = 0
      BY <2>2 DEF TypeInv, OfType, Numeric
    <3>2. m.time = value.time /\ m.fraction = 0
      BY <1>3, <1>9, <2>2
    <3>3. Stored = [time |-> m.time, fraction |-> m.fraction, offset |-> 0]
      BY <1>8, <2>2 DEF Kept, SameColumn
    <3> QED
      BY <2>1, <3>1, <3>2, <3>3
  <2>3. CASE From = "TIMESTAMP"
    <3>1. value.offset = 0
      BY <2>3 DEF TypeInv, OfType, Numeric
    <3>2. m.time = value.time /\ m.fraction = value.fraction
      BY <1>1, <1>3, <1>9, <2>3
    <3>3. Stored = [time |-> m.time, fraction |-> m.fraction, offset |-> 0]
      BY <1>8, <2>3 DEF Kept, SameColumn
    <3> QED
      BY <2>1, <3>1, <3>2, <3>3
  <2>4. CASE From = "TIMESTAMP_TZ"
    <3>1. m.time = value.time /\ m.fraction = value.fraction /\ m.offset = value.offset
      BY <1>1, <1>3, <1>9, <2>4 DEF Zoned
    <3>2. Stored = [time |-> m.time, fraction |-> m.fraction, offset |-> m.offset]
      BY <1>8, <2>4 DEF Kept, SameColumn
    <3> QED
      BY <2>1, <3>1, <3>2
  <2>5. CASE From = "TIMESTAMP_LTZ"
    <3>1. value.offset = 0
      BY <2>5 DEF TypeInv, OfType, Numeric
    <3>2. /\ m.time = value.time + reader.zone /\ m.fraction = value.fraction
          /\ m.offset = reader.zone
      BY <1>1, <1>3, <1>9, <2>5 DEF Zoned
    <3>3. Stored = [time |-> m.time - m.offset, fraction |-> m.fraction, offset |-> 0]
      BY <1>8, <2>5 DEF Kept, SameColumn
    <3>4. m.time - m.offset = value.time
      BY <2>1, <3>2
    <3> QED
      BY <2>1, <3>1, <3>2, <3>3, <3>4
  <2> QED
    BY <2>2, <2>3, <2>4, <2>5 DEF Temporal, Zoned
<1> QED
  BY <1>3, <1>4, <1>6, <1>8, <1>10, NothingIsNoValue

LEMMA ValueComesBack ==
    ASSUME TypeInv, SameColumn, Representable(value, From)
    PROVE  Failed \notin {Cell, Column, Bind, Staged, Stored} /\ Stored = value
<1>1. From \in ColumnTypes /\ Supported(path)
  BY SameIsSupported, TypesOfPath DEF SameColumn
<1>2. CASE value = NULL
  BY <1>1, <1>2, NullBinds, NothingArrives, NothingIsNoValue
<1>3. CASE value # NULL /\ From \in Temporal
  BY <1>3, TimeComesBack
<1>4. CASE value # NULL /\ From \in Numeric
  <2>1. /\ Cell # Failed /\ Column # Failed /\ Bind \in Texts
        /\ Bind = NumberText(value, ".") /\ value \in Numbers
    BY <1>4, NumericBinds DEF TextOf, Numeric, Temporal, Zoned
  <2>2. Bind # <<>> /\ Bind # Failed /\ ToNumber(Bind, ".") = value
    BY <2>1, NumberAsText, NothingIsNoValue
  <2>3. Into \notin Temporal /\ Into \in Numeric /\ Into # "BOOLEAN"
    BY <1>4 DEF SameColumn, Temporal, Zoned, Numeric
  <2>4. Staged = value /\ Stored = value
    BY <1>1, <2>1, <2>2, <2>3, TextArrives
  <2> QED
    BY <2>1, <2>2, <2>4, NothingIsNoValue
<1>5. CASE value # NULL /\ From = "BOOLEAN"
  <2>1. /\ Cell # Failed /\ Column # Failed /\ Bind \in Texts
        /\ Bind = BooleanText(value) /\ value \in BOOLEAN
    BY <1>5, BooleanBinds DEF TextOf, Numeric, Temporal, Zoned
  <2>2. Bind # <<>> /\ Bind # Failed /\ ToBoolean(Bind) = value
    BY <2>1, BooleanAsText, NothingIsNoValue DEF BooleanText
  <2>3. Into \notin Temporal /\ Into = "BOOLEAN" /\ Into \notin Numeric
    BY <1>5 DEF SameColumn, Temporal, Zoned, Numeric
  <2>4. Staged = value /\ Stored = value
    BY <1>1, <2>1, <2>2, <2>3, TextArrives
  <2> QED
    BY <2>1, <2>2, <2>4, NothingIsNoValue
<1>6. CASE value # NULL /\ From \in Characters \cup {"RAW"}
  <2>1. value \in Texts /\ value # Failed
    BY <1>6, TextIsText DEF IsText
  <2>2. value # <<>> /\ (From = "CLOB" => ~TooLong(value))
    <3>1. From = "VARCHAR2" => value # <<>>
      BY <1>6 DEF TypeInv, OfType, Numeric
    <3>2. From \in {"CLOB", "RAW"} => value # <<>> /\ (From = "CLOB" => ~TooLong(value))
      BY <1>6 DEF Representable, Temporal, Zoned, Numeric
    <3> QED
      BY <1>6, <3>1, <3>2 DEF Characters
  <2>3. Cell = value /\ Column = value /\ Bind = value
    BY <1>1, <1>6, <2>2, TextBinds DEF IsText
  <2>4. Into \notin Temporal \cup Numeric \cup {"BOOLEAN"}
    BY <1>6 DEF SameColumn, Temporal, Zoned, Numeric, Characters
  <2>5. Staged = value /\ Stored = value
    BY <1>1, <2>1, <2>2, <2>3, <2>4, TextArrives
  <2> QED
    BY <2>1, <2>3, <2>5
<1> QED
  BY <1>1, <1>2, <1>3, <1>4, <1>5, <1>6 DEF ColumnTypes

---------------------------------------------------------------------------
(* The theorems. *)

(* Where the columns keep their types a value is either refused, or stored *)
(* as what it was: the same number, text, instant or time of day.          *)
THEOREM MeaningIsKept ==
    (\A p \in Paths : Supported(p)) => (Spec => []SameMeaning)
<1> SUFFICES ASSUME \A p \in Paths : Supported(p) PROVE Spec => []SameMeaning
  OBVIOUS
<1>1. CrossInv => SameMeaning
  <2> SUFFICES ASSUME CrossInv, pc = "stored", AfterChrist(value, From)
               PROVE  IF at = NULL THEN value = NULL \/ (IsText(From) /\ value = <<>>)
                      ELSE /\ value # NULL
                           /\ IF IsText(From) THEN SaysWhatIs(value, at, Into)
                              ELSE CASE Into \in Temporal ->
                                          SameTime(value, From \in Zoned \cup {"TimestampUTC"}, at, Into)
                                     [] Into \in Numeric -> SaysSame(value, From, NumberText(at, "."))
                                     [] Into = "BOOLEAN" -> SaysSame(value, From, BooleanText(at))
                                     [] OTHER -> SaysSame(value, From, at)
    BY DEF SameMeaning
  <2>1. /\ TypeInv /\ at = Stored /\ Supported(path)
        /\ From \in ColumnTypes => Cell # Failed
        /\ Bind # Failed /\ Staged # Failed /\ Stored # Failed
    BY DEF CrossInv, PlaceInv, PassedInv, TypeInv
  <2>2. CASE value = NULL
    BY <2>1, <2>2, NullBinds, NothingArrives
  <2>3. CASE value # NULL
    <3>1. CASE From = "CLOB" /\ value = <<>> /\ Bind = NULL
      BY <2>1, <3>1, NothingArrives DEF IsText, Characters
    <3>2. CASE Bind = TextOf(value, From) /\ Bind \in Texts
      <4>1. IsText(From) => Bind = value
        BY <2>1, <2>3, <3>2, TextIsText
      <4>2. From # "Decimal128"
        BY <2>1, <2>3, ArrowBinds DEF ArrowTypes
      <4>3. CASE Bind = <<>>
        <5>1. at = NULL
          BY <2>1, <4>3, NothingArrives
        <5>2. IsText(From)
          BY <2>1, <2>3, <3>2, <4>2, <4>3, FirstPiece, AnyType
        <5> QED
          BY <4>1, <4>3, <5>1, <5>2
      <4>4. CASE Bind # <<>> /\ Into \in Temporal
        <5>1. /\ Stored \in Moments
              /\ IsText(From) => SaysWhatIs(value, Stored, Into)
              /\ ~IsText(From) =>
                    SameTime(value, From \in Zoned \cup {"TimestampUTC"}, Stored, Into)
          BY <2>1, <2>3, <3>2, <4>1, <4>2, <4>4, TimeIsKept
        <5>2. at # NULL
          BY <2>1, <5>1, NothingIsNoValue
        <5>3. Into \notin Numeric /\ Into # "BOOLEAN"
          BY <4>4 DEF Numeric, Temporal, Zoned
        <5> QED
          BY <2>1, <2>3, <4>4, <5>1, <5>2, <5>3
      <4>5. CASE Bind # <<>> /\ Into \notin Temporal
        <5>1. /\ Stored # NULL
              /\ IsText(From) => SaysWhatIs(value, Stored, Into)
              /\ ~IsText(From) =>
                    CASE Into \in Numeric -> SaysSame(value, From, NumberText(Stored, "."))
                      [] Into = "BOOLEAN" -> SaysSame(value, From, BooleanText(Stored))
                      [] OTHER -> SaysSame(value, From, Stored)
          BY <2>1, <2>3, <3>2, <4>1, <4>2, <4>5, TextIsKept
        <5>2. Into = "BOOLEAN" => Into \notin Numeric
          BY DEF Numeric
        <5> QED
          BY <2>1, <2>3, <4>5, <5>1, <5>2
      <4> QED
        BY <4>3, <4>4, <4>5
    <3> QED
      BY <2>1, <2>3, <3>1, <3>2, ValueBinds
  <2> QED
    BY <2>2, <2>3
<1> QED
  BY <1>1, Crosses, PTL

(* Where the staging table mirrors the target, as prepare says it does, a  *)
(* value that the texts can hold crosses to a column of its own type and   *)
(* is the same there, in all environments of the two sessions.             *)
THEOREM ValuesRoundTrip ==
    (\A p \in Paths : p[1] = p[4] /\ p[2] = p[4] => p[3] = p[4]) => (Spec => []RoundTrip)
<1> SUFFICES ASSUME \A p \in Paths : p[1] = p[4] /\ p[2] = p[4] => p[3] = p[4]
             PROVE  Spec => []RoundTrip
  OBVIOUS
<1>1. CrossInv => RoundTrip
  <2> SUFFICES ASSUME CrossInv, From = Into, Described = Into, Representable(value, From)
               PROVE  pc # "failed" /\ (pc = "stored" => at = value)
    BY DEF RoundTrip
  <2>1. TypeInv /\ SameColumn
    BY DEF CrossInv, TypeInv, SameColumn, From, Described, Staging, Into
  <2>2. Failed \notin {Cell, Column, Bind, Staged, Stored} /\ Stored = value
    BY <2>1, ValueComesBack
  <2> QED
    BY <2>2 DEF CrossInv, PlaceInv, PassedInv
<1> QED
  BY <1>1, Crosses, PTL
=============================================================================
