----------------------- MODULE MCOracleDestination ------------------------
(* Small instances of OracleDestination for TLC.                           *)
EXTENDS OracleDestination, TLC

CONSTANTS a, b,             \* two loads
          a1, a2, b1, b2,   \* rows: a1 and a2 share the key ka, b1 and b2 kb
          n1,               \* a row whose key is NULL
          ka, kb            \* keys

MCKeyOf == a1 :> ka @@ a2 :> ka @@ b1 :> kb @@ b2 :> kb @@ n1 :> NullKey
MCKeyOfRows == [r \in Rows |-> MCKeyOf[r]]

EmptyTable == [r \in Rows |-> 0]

(* The table already holds the first row of each key. *)
HalfFull == [r \in Rows |-> IF r \in {a1} THEN 1 ELSE 0]

OneStaged == a :> "staged_merge"
TwoAtomic == a :> "atomic" @@ b :> "atomic"
TwoStaged == a :> "staged_merge" @@ b :> "staged_merge"

(* An update, an insert, and a row without a key. *)
UpdateAndInsert == a :> <<a2, b1, n1>>
(* Two loads that bring the same keys, in opposite order, and one of them   *)
(* a row without a key.                                                    *)
Crossing == a :> <<a1, b1>> @@ b :> <<b2, a2, n1>>
=============================================================================
