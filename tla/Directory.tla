----------------------------- MODULE Directory -----------------------------
(***************************************************************************)
(* What a catalog promises: a directory of tables with their columns and   *)
(* of indexes with their key columns.  Every change is a single step that  *)
(* is never undone; stopping and opening the database again is no step at  *)
(* all.  An index is created for a table that exists, over columns it has, *)
(* and stays until it is dropped itself.                                   *)
(***************************************************************************)
CONSTANTS TableName, IndexName, Column

VARIABLES
  tables,   \* table name -> its columns
  indexes   \* <<table name, index name>> -> key columns

Init == tables = [t \in {} |-> {}] /\ indexes = [k \in {} |-> {}]

CreateTable(t, schema) ==
  /\ t \notin DOMAIN tables
  /\ tables' = [x \in DOMAIN tables \union {t} |->
                  IF x = t THEN schema ELSE tables[x]]
  /\ UNCHANGED indexes

DropTable(t) ==
  /\ t \in DOMAIN tables
  /\ tables' = [x \in DOMAIN tables \ {t} |-> tables[x]]
  /\ UNCHANGED indexes

CreateIndex(t, i, keys) ==
  /\ t \in DOMAIN tables
  /\ keys \subseteq tables[t]
  /\ <<t, i>> \notin DOMAIN indexes
  /\ indexes' = [x \in DOMAIN indexes \union {<<t, i>>} |->
                   IF x = <<t, i>> THEN keys ELSE indexes[x]]
  /\ UNCHANGED tables

DropIndex(t, i) ==
  /\ <<t, i>> \in DOMAIN indexes
  /\ indexes' = [x \in DOMAIN indexes \ {<<t, i>>} |-> indexes[x]]
  /\ UNCHANGED tables

Next ==
  \E t \in TableName :
    \/ \E schema \in SUBSET Column : CreateTable(t, schema)
    \/ DropTable(t)
    \/ \E i \in IndexName :
         DropIndex(t, i) \/ \E keys \in SUBSET Column : CreateIndex(t, i, keys)

Spec == Init /\ [][Next]_<<tables, indexes>>
=============================================================================
