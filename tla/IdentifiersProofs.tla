------------------------- MODULE IdentifiersProofs -------------------------
(***************************************************************************)
(* Proofs about Identifiers, for every set of names with its upper-case    *)
(* forms, every query, target and incoming schema, and every setting of    *)
(* cursor_column and merge_key.                                            *)
(***************************************************************************)
EXTENDS Identifiers, WellFoundedInduction, TLAPS

---------------------------------------------------------------------------
(* Names. *)

(* quote_ident and fold_ident agree, give a name, and change it at most    *)
(* once; a name and what it is folded to have one upper-case form.         *)
LEMMA Folding ==
    ASSUME NEW n \in Names
    PROVE  /\ FoldIdent(n) = QuoteIdent(n)
           /\ QuoteIdent(n) \in Names
           /\ QuoteIdent(QuoteIdent(n)) = QuoteIdent(n)
           /\ Upper[QuoteIdent(n)] = Upper[n]
  BY NamesAssumption DEF FoldIdent, QuoteIdent

(* The columns of a sequence of names are names. *)
LEMMA NameSetType ==
    ASSUME NEW s \in Seq(Names)
    PROVE  /\ NameSet(s) \subseteq Names
           /\ \A i \in DOMAIN s : s[i] \in Names
  BY DEF NameSet

(* A set of numbers that is not empty has a least one. *)
LEMMA LeastNumber ==
    ASSUME NEW T \in SUBSET Nat, T # {}
    PROVE  \E x \in T : \A y \in T : x <= y
<1>1. PICK x \in T : \A y \in T : ~ (<<y, x>> \in OpToRel(<, Nat))
  BY NatLessThanWellFounded, WFMin
<1>2. \A y \in T : ~(y < x)
  BY <1>1 DEF OpToRel
<1> QED
  BY <1>2

(* PositionOf finds a column that matches, if there is one. *)
LEMMA PositionMatches ==
    ASSUME NEW s \in Seq(Names), NEW n \in Names,
           \E i \in DOMAIN s : FoldIdent(s[i]) = FoldIdent(n)
    PROVE  /\ PositionOf(n, s) \in DOMAIN s
           /\ PositionOf(n, s) # 0
           /\ FoldIdent(s[PositionOf(n, s)]) = FoldIdent(n)
<1> DEFINE found == {i \in DOMAIN s : FoldIdent(s[i]) = FoldIdent(n)}
<1>1. found # {} /\ found \subseteq Nat /\ 0 \notin found
  OBVIOUS
<1>2. \E i \in found : \A j \in found : i <= j
  BY <1>1, LeastNumber
<1>3. PositionOf(n, s) = CHOOSE i \in found : \A j \in found : i <= j
  BY <1>1 DEF PositionOf
<1>4. PositionOf(n, s) \in found
  BY <1>2, <1>3
<1> QED
  BY <1>1, <1>4

---------------------------------------------------------------------------
(* The invariant: what each step has computed stays as it was computed,    *)
(* and a statement that Oracle has run was acceptable.                     *)

SourceBuilt ==
    /\ columns = query
    /\ selected = [i \in DOMAIN query |-> QuoteIdent(query[i])]
    /\ cursorAt = IF cursor = NoName THEN 0 ELSE PositionOf(cursor, query)

TypesKnown == types = [u \in {Upper[c] : c \in NameSet(target)} |-> LastNamed(u, target)]

LoadBuilt ==
    /\ KeysPresent
    /\ binds = [i \in DOMAIN columns |-> BindExpr(columns[i])]
    /\ joined = {QuoteIdent(k) : k \in key}
    /\ updated = IF key = {} THEN {}
                 ELSE {QuoteIdent(c) : c \in {d \in NameSet(columns) : ~IsKey(d)}}

GivenType ==
    /\ query \in Seq(Names) /\ target \in Seq(Names) /\ columns \in Seq(Names)
    /\ cursor \in Names \cup {NoName}
    /\ key \in SUBSET Names

IInv ==
    /\ GivenType
    /\ pc = "configured" \/ selected # <<>> => SourceBuilt
    /\ pc = "read" /\ selected # <<>> => QueryAccepted
    /\ pc \in {"prepared", "built", "written"} => TypesKnown
    /\ pc \in {"built", "written"} => LoadBuilt
    /\ pc = "written" => InsertAccepted

LEMMA InitHolds == Init => IInv
<1> SUFFICES ASSUME Init PROVE IInv
  OBVIOUS
<1>1. GivenType
  <2>1. columns \in Seq(Names)
    <3>1. CASE columns = <<>>
      BY <3>1
    <3>2. CASE columns \in Foreign
      BY <3>2, ColumnsAssumption
    <3> QED
      BY <3>1, <3>2 DEF Init
  <2> QED
    BY <2>1, ColumnsAssumption DEF Init, GivenType
<1> QED
  BY <1>1 DEF Init, IInv

LEMMA NextKeeps == IInv /\ [Next]_vars => IInv'
<1> SUFFICES ASSUME IInv, [Next]_vars PROVE IInv'
  OBVIOUS
<1>1. CASE Configure
  <2>1. SourceBuilt'
    BY <1>1 DEF Configure, given, SourceBuilt
  <2> QED
    BY <1>1, <2>1 DEF Configure, given, IInv, GivenType
<1>2. CASE LoadRows
  <2>1. SourceBuilt => SourceBuilt'
    BY <1>2 DEF LoadRows, given, SourceBuilt
  <2>2. QueryAccepted => QueryAccepted'
    BY <1>2 DEF LoadRows, given, QueryAccepted
  <2> QED
    BY <1>2, <2>1, <2>2 DEF LoadRows, given, IInv, GivenType
<1>3. CASE Prepare
  <2>1. SourceBuilt => SourceBuilt'
    BY <1>3 DEF Prepare, given, SourceBuilt
  <2>2. TypesKnown'
    BY <1>3 DEF Prepare, given, TypesKnown
  <2> QED
    BY <1>3, <2>1, <2>2 DEF Prepare, given, IInv, GivenType
<1>4. CASE StatementsBuilt
  <2>1. SourceBuilt => SourceBuilt'
    BY <1>4 DEF StatementsBuilt, given, SourceBuilt
  <2>2. TypesKnown'
    BY <1>4 DEF StatementsBuilt, given, TypesKnown, IInv
  <2>3. pc' = "built" => LoadBuilt'
    BY <1>4 DEF StatementsBuilt, given, LoadBuilt, KeysPresent, BindExpr, IsKey
  <2> QED
    BY <1>4, <2>1, <2>2, <2>3 DEF StatementsBuilt, given, IInv, GivenType
<1>5. CASE Insert
  <2>1. SourceBuilt => SourceBuilt'
    BY <1>5 DEF Insert, given, SourceBuilt
  <2>2. TypesKnown'
    BY <1>5 DEF Insert, given, TypesKnown, IInv
  <2>3. LoadBuilt'
    BY <1>5 DEF Insert, given, LoadBuilt, KeysPresent, BindExpr, IsKey, IInv
  <2>4. InsertAccepted => InsertAccepted'
    BY <1>5 DEF Insert, given, InsertAccepted
  <2> QED
    BY <1>5, <2>1, <2>2, <2>3, <2>4 DEF Insert, given, IInv, GivenType
<1>6. CASE UNCHANGED vars
  <2>1. SourceBuilt => SourceBuilt'
    BY <1>6 DEF vars, given, SourceBuilt
  <2>2. TypesKnown => TypesKnown'
    BY <1>6 DEF vars, given, TypesKnown
  <2>3. LoadBuilt => LoadBuilt'
    BY <1>6 DEF vars, given, LoadBuilt, KeysPresent, BindExpr, IsKey
  <2>4. (InsertAccepted => InsertAccepted') /\ (QueryAccepted => QueryAccepted')
    BY <1>6 DEF vars, given, InsertAccepted, QueryAccepted
  <2> QED
    BY <1>6, <2>1, <2>2, <2>3, <2>4 DEF vars, given, IInv, GivenType
<1> QED
  BY <1>1, <1>2, <1>3, <1>4, <1>5, <1>6 DEF Next

LEMMA Invariance == Spec => []IInv
  BY InitHolds, NextKeeps, PTL DEF Spec

---------------------------------------------------------------------------
(* Theorems. *)

(* The cursor that the query compares and orders by is the column that the *)
(* watermark is read from: by the names alone, no accepted query can leave *)
(* current_watermark unset, or set from another column.                    *)
THEOREM CursorFound == Spec => []CursorIsTheWatermark
<1>1. IInv => CursorIsTheWatermark
  <2> SUFFICES ASSUME IInv, pc = "read", selected # <<>>, cursor # NoName
               PROVE  /\ cursorAt # 0
                      /\ selected[cursorAt] = QuoteIdent(cursor)
                      /\ NoTwins(query) => query[cursorAt] = QuoteIdent(cursor)
    BY DEF CursorIsTheWatermark
  <2>1. SourceBuilt /\ QueryAccepted /\ cursor \in Names /\ query \in Seq(Names)
    BY DEF IInv, GivenType
  <2>2. PICK k \in DOMAIN query : query[k] = QuoteIdent(cursor)
    BY <2>1 DEF QueryAccepted, NameSet
  <2>3. \A i \in DOMAIN query : query[i] \in Names
    BY <2>1, NameSetType
  <2>4. FoldIdent(query[k]) = FoldIdent(cursor)
    BY <2>1, <2>2, <2>3, Folding
  <2>5. /\ cursorAt \in DOMAIN query
        /\ cursorAt # 0
        /\ FoldIdent(query[cursorAt]) = FoldIdent(cursor)
    BY <2>1, <2>4, PositionMatches DEF SourceBuilt
  <2>6. selected[cursorAt] = QuoteIdent(cursor)
    BY <2>1, <2>3, <2>5, Folding DEF SourceBuilt
  <2>7. ASSUME NoTwins(query) PROVE query[cursorAt] = QuoteIdent(cursor)
    <3>1. QuoteIdent(query[cursorAt]) = QuoteIdent(query[k])
      BY <2>1, <2>3, <2>4, <2>5, Folding
    <3>2. Upper[query[cursorAt]] = Upper[query[k]]
      BY <3>1, <2>3, <2>5, Folding
    <3> QED
      BY <3>2, <2>2, <2>5, <2>7 DEF NoTwins
  <2> QED
    BY <2>5, <2>6, <2>7
<1> QED
  BY <1>1, Invariance, PTL

(* Each bind is wrapped in the conversion of the column it is inserted     *)
(* into, whatever case its name came in.                                   *)
THEOREM BindsFit == Spec => []BindsFitTheirColumns
<1>1. IInv => BindsFitTheirColumns
  <2> SUFFICES ASSUME IInv, pc = "written", NoTwins(target), NEW i \in DOMAIN columns
               PROVE  binds[i] = QuoteIdent(columns[i])
    BY DEF BindsFitTheirColumns
  <2> DEFINE c == columns[i]
  <2>1. TypesKnown /\ LoadBuilt /\ InsertAccepted /\ c \in Names /\ target \in Seq(Names)
    BY NameSetType DEF IInv, GivenType
  <2>2. PICK k \in DOMAIN target : target[k] = QuoteIdent(c)
    BY <2>1 DEF InsertAccepted, NameSet
  <2>3. Upper[target[k]] = Upper[c]
    BY <2>1, <2>2, Folding
  <2> DEFINE found == {j \in DOMAIN target : Upper[target[j]] = Upper[c]}
  <2>4. found = {k} /\ k \in Nat
    BY <2>1, <2>3 DEF NoTwins
  <2>5. (CHOOSE j \in found : \A l \in found : l <= j) = k
    BY <2>4
  <2>6. LastNamed(Upper[c], target) = QuoteIdent(c)
    BY <2>2, <2>5 DEF LastNamed
  <2>7. Upper[c] \in {Upper[d] : d \in NameSet(target)}
    BY <2>2, <2>3 DEF NameSet
  <2>8. BindExpr(c) = QuoteIdent(c)
    BY <2>1, <2>6, <2>7 DEF BindExpr, TypesKnown
  <2> QED
    BY <2>1, <2>8 DEF LoadBuilt
<1> QED
  BY <1>1, Invariance, PTL

(* A MERGE that reaches Oracle never updates a column of its ON clause,    *)
(* and joins only on columns that were staged.                             *)
THEOREM MergeFormed == Spec => []MergeWellFormed
<1>1. IInv => MergeWellFormed
  <2> SUFFICES ASSUME IInv, pc = "written", key # {}
               PROVE  /\ joined \cap updated = {}
                      /\ joined \cup updated = {QuoteIdent(c) : c \in NameSet(columns)}
    BY DEF MergeWellFormed
  <2>1. LoadBuilt /\ key \subseteq Names /\ NameSet(columns) \subseteq Names
    BY NameSetType DEF IInv, GivenType
  <2>2. \A c \in NameSet(columns) : IsKey(c) <=> \E k \in key : QuoteIdent(k) = QuoteIdent(c)
    BY <2>1, Folding DEF IsKey
  <2>3. \A k \in key : \E c \in NameSet(columns) : QuoteIdent(c) = QuoteIdent(k)
    BY <2>1, Folding DEF LoadBuilt, KeysPresent
  <2>4. /\ joined = {QuoteIdent(k) : k \in key}
        /\ updated = {QuoteIdent(c) : c \in {d \in NameSet(columns) : ~IsKey(d)}}
    BY <2>1 DEF LoadBuilt
  <2>5. joined \cap updated = {}
    BY <2>2, <2>4
  <2>6. joined \cup updated = {QuoteIdent(c) : c \in NameSet(columns)}
    BY <2>2, <2>3, <2>4
  <2> QED
    BY <2>5, <2>6
<1> QED
  BY <1>1, Invariance, PTL
=============================================================================
