---------------------------- MODULE Identifiers ----------------------------
(***************************************************************************)
(* How the plugins match the names of columns (connector/src/types.rs:     *)
(* quote_ident, fold_ident): the source selects the columns it described,  *)
(* and finds its cursor among them; the destination, which gets columns    *)
(* from any source plugin, finds their types in the target and builds the  *)
(* INSERT and the MERGE.                                                   *)
(*                                                                         *)
(* Oracle itself resolves a quoted name as it is written.  A name here is  *)
(* a value of which only two things are known: its upper-case form, and    *)
(* whether it is simple (letters, digits, _ $ #).                          *)
(***************************************************************************)
EXTENDS Naturals, Sequences

CONSTANTS
    Names,
    Upper,      \* Upper[n]: n in upper case
    Simple,     \* the names that need no quotes
    NoName,     \* no cursor_column
    Queries,    \* the columns of the source's query, in order
    Foreign,    \* the columns that another source plugin may bring
    Targets,    \* the columns of the target table
    Cursors,    \* the settings of cursor_column
    Keys        \* the settings of merge_key

ASSUME NamesAssumption ==
    /\ Upper \in [Names -> Names]
    /\ Simple \subseteq Names
    /\ NoName \notin Names
    /\ \A n \in Names : /\ Upper[Upper[n]] = Upper[n]
                        /\ n \in Simple <=> Upper[n] \in Simple
ASSUME ColumnsAssumption ==
    /\ Queries \cup Foreign \cup Targets \subseteq Seq(Names)
    /\ Cursors \subseteq Names \cup {NoName}
    /\ Keys \subseteq SUBSET Names

VARIABLES
    query, cursor, target, key,     \* catalogs and settings
    pc,
    selected,   \* the columns of the projected SELECT, as Oracle sees them
    cursorAt,   \* cursor_idx, and where cursor_type comes from; 0: not found
    columns,    \* the fields of the Arrow schema
    types,      \* target_types: the column under each upper-case name
    binds,      \* the column whose type each bind is converted to
    joined,     \* the columns of the ON clause
    updated     \* the columns of WHEN MATCHED THEN UPDATE SET

given == <<query, cursor, target, key>>
vars == <<given, pc, selected, cursorAt, columns, types, binds, joined, updated>>

NameSet(s) == {s[i] : i \in DOMAIN s}

Init ==
    /\ query \in Queries
    /\ cursor \in Cursors
    /\ target \in Targets
    /\ key \in Keys
    /\ \/ pc = "off" /\ columns = <<>>
       \/ pc = "read" /\ columns \in Foreign
    /\ selected = <<>>
    /\ cursorAt = 0
    /\ types = <<>>
    /\ binds = <<>>
    /\ joined = {}
    /\ updated = {}

---------------------------------------------------------------------------
(* The column that the quoted identifier of n names. *)
QuoteIdent(n) == IF n \in Simple THEN Upper[n] ELSE n

(* Mutant: names are compared as they are written. *)
AsWritten(n) == n

(* What two names are compared by. *)
FoldIdent(n) == IF n \in Simple THEN Upper[n] ELSE n

(* The first column that matches n, or 0. *)
PositionOf(n, s) ==
    LET found == {i \in DOMAIN s : FoldIdent(s[i]) = FoldIdent(n)}
    IN  IF found = {} THEN 0 ELSE CHOOSE i \in found : \A j \in found : i <= j

---------------------------------------------------------------------------
(* The source: configure, and the query of the first next_batch. *)

Configure ==
    /\ pc = "off"
    /\ pc' = "configured"
    /\ columns' = query
    /\ selected' = [i \in DOMAIN query |-> QuoteIdent(query[i])]
    /\ cursorAt' = IF cursor = NoName THEN 0 ELSE PositionOf(cursor, query)
    /\ UNCHANGED <<given, types, binds, joined, updated>>

(* ORA-00904: a column of the SELECT, WHERE or ORDER BY is not there. *)
QueryAccepted ==
    /\ NameSet(selected) \subseteq NameSet(query)
    /\ cursor # NoName => QuoteIdent(cursor) \in NameSet(query)

LoadRows ==
    /\ pc = "configured"
    /\ pc' = IF QueryAccepted THEN "read" ELSE "failed"
    /\ UNCHANGED <<given, selected, cursorAt, columns, types, binds, joined, updated>>

---------------------------------------------------------------------------
(* The destination: prepare, and the first write_batch. *)

(* The last of the columns of s with that upper-case name. *)
LastNamed(u, s) ==
    LET found == {i \in DOMAIN s : Upper[s[i]] = u}
    IN  s[CHOOSE i \in found : \A j \in found : j <= i]

(* The HashMap keeps the last of the types that are put under one name. *)
Prepare ==
    /\ pc = "read"
    /\ pc' = "prepared"
    /\ types' = [u \in {Upper[c] : c \in NameSet(target)} |-> LastNamed(u, target)]
    /\ UNCHANGED <<given, selected, cursorAt, columns, binds, joined, updated>>

(* Mutant: the type is looked up by the name as it came. *)
TypedAsWritten(c) == IF c \in DOMAIN types THEN types[c] ELSE NoName

(* bind_expr: the column whose type is taken for c, if there is one. *)
BindExpr(c) == IF Upper[c] \in DOMAIN types THEN types[Upper[c]] ELSE NoName

(* Mutant: a column is a key if its name is in merge_key as it is written. *)
KeyAsWritten(c) == c \in key

IsKey(c) == \E k \in key : FoldIdent(k) = FoldIdent(c)

KeysPresent ==
    \A k \in key : \E c \in NameSet(columns) : FoldIdent(c) = FoldIdent(k)

(* Mode atomic has no merge_key. *)
StatementsBuilt ==
    /\ pc = "prepared"
    /\ binds' = [i \in DOMAIN columns |-> BindExpr(columns[i])]
    /\ IF KeysPresent
       THEN /\ pc' = "built"
            /\ joined' = {QuoteIdent(k) : k \in key}
            /\ updated' = IF key = {} THEN {}
                          ELSE {QuoteIdent(c) : c \in {d \in NameSet(columns) : ~IsKey(d)}}
       ELSE pc' = "failed" /\ UNCHANGED <<joined, updated>>
    /\ UNCHANGED <<given, selected, cursorAt, columns, types>>

(* ORA-00904, ORA-00957: a column is not in the target, or is there twice. *)
InsertAccepted ==
    /\ \A c \in NameSet(columns) : QuoteIdent(c) \in NameSet(target)
    /\ \A i, j \in DOMAIN columns :
            QuoteIdent(columns[i]) = QuoteIdent(columns[j]) => i = j

Insert ==
    /\ pc = "built"
    /\ pc' = IF InsertAccepted THEN "written" ELSE "failed"
    /\ UNCHANGED <<given, selected, cursorAt, columns, types, binds, joined, updated>>

Next == Configure \/ LoadRows \/ Prepare \/ StatementsBuilt \/ Insert

Spec == Init /\ [][Next]_vars

---------------------------------------------------------------------------
(* Properties. *)

(* No two columns differ in case only. *)
NoTwins(s) == \A i, j \in DOMAIN s : Upper[s[i]] = Upper[s[j]] => i = j

(* The column that the query compares and orders by is the one that the    *)
(* watermark is taken from, and whose type the bound is converted to: no   *)
(* query that Oracle accepts leaves the watermark behind for ever.         *)
CursorIsTheWatermark ==
    pc = "read" /\ selected # <<>> /\ cursor # NoName =>
        /\ cursorAt # 0
        /\ selected[cursorAt] = QuoteIdent(cursor)
        /\ NoTwins(query) => query[cursorAt] = QuoteIdent(cursor)

(* Every value is converted to the type of the very column that it is      *)
(* inserted into, whatever case its name came in.                          *)
BindsFitTheirColumns ==
    pc = "written" /\ NoTwins(target) =>
        \A i \in DOMAIN columns : binds[i] = QuoteIdent(columns[i])

(* A MERGE that is sent to Oracle is well formed: it joins on columns that *)
(* the staging table was given, updates none of them (ORA-38104), and      *)
(* every other column is updated.                                          *)
MergeWellFormed ==
    pc = "written" /\ key # {} =>
        /\ joined \cap updated = {}
        /\ joined \cup updated = {QuoteIdent(c) : c \in NameSet(columns)}
=============================================================================
