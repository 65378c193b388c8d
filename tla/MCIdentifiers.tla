--------------------------- MODULE MCIdentifiers ---------------------------
(* Small instances of Identifiers for TLC. *)
EXTENDS Identifiers

SomeNames == {"id", "ID", "ts", "TS", "a b", "A B"}
UpperCase ==
    [n \in SomeNames |-> CASE n \in {"id", "ID"} -> "ID"
                           [] n \in {"ts", "TS"} -> "TS"
                           [] n \in {"a b", "A B"} -> "A B"]
Letters == {"id", "ID", "ts", "TS"}

(* All tables of one or two columns: also those that were created with     *)
(* quoted names in lower case, or in two cases.                            *)
AnyTable ==
    {<<n>> : n \in SomeNames}
        \cup {s \in SomeNames \X SomeNames : s[1] # s[2]}

AnyCursor == {"id", "ID", "a b", NoName}
AnyKey == {{}, {"id"}, {"ID", "ts"}, {"a b"}}
=============================================================================
