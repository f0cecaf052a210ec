------------------------------- MODULE Engine -------------------------------
(***************************************************************************)
(* The statements on the rows of one table, as ExecuteEngine carries them  *)
(* out on the table heap and on the table's indexes: INSERT, DELETE,       *)
(* UPDATE, CREATE INDEX, DROP INDEX, and the search of a WHERE clause.     *)
(*                                                                         *)
(* The columns are integers, so that rows are never null and never move.   *)
(* The heap is its rows by row id (Table), in the order of pages and slots *)
(* in which an iterator comes to them; an index is its entries by key      *)
(* (BPlusTree).  Statements run one after the other; a statement is taken  *)
(* row by row.                                                             *)
(***************************************************************************)
EXTENDS Integers, Sequences, Maps

CONSTANTS
  Rid,       \* row ids: bound on the rows of the table
  FirstPage, \* the row ids of the first page of the heap
  Value,     \* the values of a column
  Base,      \* the values of a byte
  Width,     \* the bytes of an integer
  Column,
  Unique,    \* the columns declared as unique
  Index,     \* names of indexes
  Keys,      \* the key columns of an index, in order
  Declared,  \* the indexes that CREATE TABLE makes
  Inserted,  \* bound: the rows of INSERT
  Where,     \* bound: the WHERE clauses of DELETE and UPDATE
  SetList    \* bound: the SET lists of UPDATE, pairs of a column and a value

Row == [Column -> Value]
Op == {"=", "<>", "<", "<=", ">", ">="}
Condition == [op : Op, col : Column, val : Value]
AnyClause == {[conn |-> "all"]}
               \union [conn : {"one"}, left : Condition]
               \union [conn : {"and", "or"}, left : Condition, right : Condition]

ASSUME NumbersAssumption ==
  Rid \subseteq Nat /\ Value \subseteq Int /\ Base \in Nat \ {0} /\ Width \in Nat \ {0}
ASSUME FirstPageAssumption ==
  FirstPage \subseteq Rid /\ \A r \in FirstPage, s \in Rid \ FirstPage : r < s
ASSUME IndexAssumption == Declared \subseteq Index /\ Keys \in [Index -> Seq(Column) \ {<<>>}]
ASSUME StatementAssumption ==
  Inserted \subseteq Row /\ Where \subseteq AnyClause
  /\ SetList \subseteq Seq(Column \X Value) \ {<<>>}

VARIABLES
  rows,      \* the table heap: row id -> row
  live,      \* the indexes the table has
  entries,   \* index -> key -> row id
  complete,  \* history: the indexes that were there while the table was empty
  stmt       \* the statement under way: its SET list, whether it walks the heap or
             \* goes through the rows its WHERE clause has found, the row it is at

vars == <<rows, live, entries, complete, stmt>>

Idle == [op |-> "idle", sets |-> <<>>, walk |-> FALSE, targets |-> {}, at |-> 0]

\* The fields of a row that make its key in an index.
KeyOf(i, row) == [j \in DOMAIN Keys[i] |-> row[Keys[i][j]]]

\* ScanKey.
Contains(i, row) == KeyOf(i, row) \in DOMAIN entries[i]

First(S) == CHOOSE r \in S : \A s \in S : r <= s
Last(S) == CHOOSE r \in S : \A s \in S : s <= r

-----------------------------------------------------------------------------
(***************************************************************************)
(* ExecuteCompareOperator and ExecuteConnector.                            *)
(***************************************************************************)
Holds(op, x, v) ==
  CASE op = "="  -> x = v
    [] op = "<>" -> x # v
    [] op = "<"  -> x < v
    [] op = "<=" -> x <= v
    [] op = ">"  -> x > v
    [] op = ">=" -> x >= v

\* The rows an iterator comes to: Begin looks for a row in the first page only
\* and is at the end if there is none.
Seen == IF FirstPage \intersect DOMAIN rows = {} THEN {} ELSE DOMAIN rows

Matching(c) == {r \in DOMAIN rows : Holds(c.op, rows[r][c.col], c.val)}

HeapCompare(c) == Seen \intersect Matching(c)

\* The comparator of the index goes by the bytes of an integer, the lowest first,
\* and compares them as signed chars.
Byte(v, j) ==
  LET b == (v \div Base ^ j) % Base IN IF 2 * b >= Base THEN b - Base ELSE b

Before(v, w) ==
  \E j \in 0 .. Width - 1 :
    /\ Byte(v, j) < Byte(w, j)
    /\ \A k \in 0 .. j - 1 : Byte(v, k) = Byte(w, k)

\* From Begin up to End, which stands on an entry: the last one of the leaf that
\* holds the last key of the root page.  That is the last entry of all if the root
\* is a leaf or its children are, and an earlier one in a higher tree.
Visited(i, end) == {k \in DOMAIN entries[i] : Before(k[1], end[1])}

Equal(i, v) == {entries[i][k] : k \in DOMAIN entries[i] \intersect {<<v>>}}

\* Faulty variant: the rows of all entries that are visited.
IndexCompareUnfiltered(i, c, end) ==
  IF c.op = "=" THEN Equal(i, c.val) ELSE {entries[i][k] : k \in Visited(i, end)}

IndexCompare(i, c, end) ==
  CASE c.op = "="  -> Equal(i, c.val)
    [] c.op = "<>" -> {entries[i][k] : k \in Visited(i, end)} \ Equal(i, c.val)
    [] OTHER -> {entries[i][k] : k \in {l \in Visited(i, end) : Holds(c.op, l[1], c.val)}}

\* The indexes whose only key is the column; the first the map yields is taken.
Usable(col) == {i \in live : Keys[i] = <<col>>}

\* Where End can stand; it is undefined for an empty index and not asked for "=".
Ends(i, c) == IF c.op = "=" THEN {<<c.val>>} ELSE DOMAIN entries[i]

\* The results a comparison can have.
Results(c) ==
  IF Usable(c.col) = {} THEN {HeapCompare(c)}
  ELSE UNION {{IndexCompare(i, c, end) : end \in Ends(i, c)} : i \in Usable(c.col)}

\* The merge of "or" reads *iter_2 as long as iter_1 is not at its end.
OrDefined(A, B) == A = {} \/ (B # {} /\ Last(A) <= Last(B))

Answers(w) ==
  CASE w.conn = "one" -> Results(w.left)
    [] w.conn = "and" -> {A \intersect B : A \in Results(w.left), B \in Results(w.right)}
    [] w.conn = "or"  -> {p[1] \union p[2] : p \in
         {q \in Results(w.left) \X Results(w.right) : OrDefined(q[1], q[2])}}

-----------------------------------------------------------------------------
\* CREATE TABLE has made the declared indexes.
Init ==
  /\ rows = EmptyMap
  /\ live = Declared
  /\ entries = [i \in Index |-> EmptyMap]
  /\ complete = Declared
  /\ stmt = Idle

\* All rows have the same size, so the heap puts a row into the first slot
\* that is free.
FreeSlot == First(Rid \ DOMAIN rows)

\* Some index has the key of the row already.
Refused(row) == \E i \in live : Contains(i, row)

\* INSERT: where an index refuses the row, nothing is changed.
Insert(row) ==
  /\ stmt = Idle
  /\ DOMAIN rows # Rid
  /\ ~Refused(row)
  /\ rows' = Emplace(rows, FreeSlot, row)
  /\ entries' = [i \in Index |->
                   IF i \in live THEN Emplace(entries[i], KeyOf(i, row), FreeSlot)
                   ELSE entries[i]]
  /\ UNCHANGED <<live, complete, stmt>>

\* DELETE and UPDATE find their rows first, or walk the heap if there is no WHERE
\* clause.
Start(op, w, sets) ==
  /\ stmt = Idle
  /\ \/ /\ w.conn = "all"
        /\ Seen # {}
        /\ stmt' = [op |-> op, sets |-> sets, walk |-> TRUE, targets |-> {},
                    at |-> First(Seen)]
     \/ /\ w.conn # "all"
        /\ \E A \in Answers(w) \ {{}} :
             stmt' = [op |-> op, sets |-> sets, walk |-> FALSE, targets |-> A,
                      at |-> First(A)]
  /\ UNCHANGED <<rows, live, entries, complete>>

StartDelete(w) == Start("delete", w, <<>>)
StartUpdate(w, sets) == Start("update", w, sets)

\* Faulty variant: the iterator ends with the page it is in.
AheadInPage ==
  {r \in IF stmt.walk THEN DOMAIN rows ELSE stmt.targets :
     r > stmt.at /\ (r \in FirstPage <=> stmt.at \in FirstPage)}

\* The rows after the one the statement is at: in the heap as it is now, or among
\* those it has found.
Ahead == {r \in IF stmt.walk THEN DOMAIN rows ELSE stmt.targets : r > stmt.at}

\* On to the next row, or to the next assignment and again to the first row.
Done ==
  IF Ahead # {} THEN [stmt EXCEPT !.at = First(Ahead)]
  ELSE IF Len(stmt.sets) > 1
  THEN [stmt EXCEPT !.sets = Tail(@),
                    !.at = First(IF stmt.walk THEN Seen ELSE stmt.targets)]
  ELSE Idle

DeleteRow ==
  /\ stmt.op = "delete"
  /\ LET rid == stmt.at
     IN  /\ entries' = [i \in Index |->
                          IF i \in live THEN Erase(entries[i], KeyOf(i, rows[rid]))
                          ELSE entries[i]]
         /\ rows' = Erase(rows, rid)
         /\ stmt' = Done
  /\ complete' = IF DOMAIN rows' = {} THEN live ELSE complete
  /\ UNCHANGED live

Assigned(row) == [row EXCEPT ![Head(stmt.sets)[1]] = Head(stmt.sets)[2]]

\* Faulty variant: no index is asked.
DuplicateNever(row) == FALSE

\* Only the indexes whose first key is the assigned column are asked; the row
\* that is updated counts too.
Duplicate(row) ==
  \E i \in live : Keys[i][1] = Head(stmt.sets)[1] /\ Contains(i, row)

\* Faulty variant: the entry of the old key stays.
UpdateRowKeepsOld ==
  /\ stmt.op = "update"
  /\ LET rid == stmt.at
         old == rows[rid]
         new == Assigned(old)
     IN  /\ ~Duplicate(new)
         /\ entries' = [i \in Index |->
                          IF i \in live THEN Emplace(entries[i], KeyOf(i, new), rid)
                          ELSE entries[i]]
         /\ rows' = [rows EXCEPT ![rid] = new]
         /\ stmt' = Done
  /\ UNCHANGED <<live, complete>>

UpdateRow ==
  /\ stmt.op = "update"
  /\ LET rid == stmt.at
         old == rows[rid]
         new == Assigned(old)
     IN  /\ ~Duplicate(new)
         /\ entries' = [i \in Index |->
                          IF i \in live
                          THEN Emplace(Erase(entries[i], KeyOf(i, old)), KeyOf(i, new), rid)
                          ELSE entries[i]]
         /\ rows' = [rows EXCEPT ![rid] = new]
         /\ stmt' = Done
  /\ UNCHANGED <<live, complete>>

\* A duplicate ends the statement; the rows before it stay updated.
UpdateStops ==
  /\ stmt.op = "update"
  /\ Duplicate(Assigned(rows[stmt.at]))
  /\ stmt' = Idle
  /\ UNCHANGED <<rows, live, entries, complete>>

\* CREATE INDEX: the rows that are there are not put into the index.
CreateIndex(i) ==
  /\ stmt = Idle
  /\ i \notin live
  /\ \E j \in DOMAIN Keys[i] : Keys[i][j] \in Unique
  /\ live' = live \union {i}
  /\ complete' = IF DOMAIN rows = {} THEN complete \union {i} ELSE complete
  /\ UNCHANGED <<rows, entries, stmt>>

DropIndex(i) ==
  /\ stmt = Idle
  /\ i \in live
  /\ live' = live \ {i}
  /\ entries' = [entries EXCEPT ![i] = EmptyMap]
  /\ complete' = complete \ {i}
  /\ UNCHANGED <<rows, stmt>>

Step == DeleteRow \/ UpdateRow \/ UpdateStops

Next ==
  \/ \E row \in Inserted : Insert(row)
  \/ \E w \in Where : StartDelete(w) \/ \E sets \in SetList : StartUpdate(w, sets)
  \/ Step
  \/ \E i \in Index : CreateIndex(i) \/ DropIndex(i)

Spec == Init /\ [][Next]_vars

-----------------------------------------------------------------------------
TypeOK ==
  /\ rows \in [DOMAIN rows -> Row] /\ DOMAIN rows \subseteq Rid
  /\ live \subseteq Index /\ complete \subseteq live
  /\ DOMAIN entries = Index
  /\ stmt.targets \subseteq Rid
  /\ stmt # Idle => stmt.op \in {"delete", "update"} /\ stmt.at \in DOMAIN rows

\* Every entry of every index leads to a row that is there and has that key,
\* also in the middle of a statement and for an index that was created late;
\* so no key is refused as a duplicate whose row is gone.
EntriesSound ==
  TypeOK /\ \A i \in Index : \A k \in DOMAIN entries[i] :
    /\ i \in live
    /\ entries[i][k] \in DOMAIN rows
    /\ KeyOf(i, rows[entries[i][k]]) = k

Single(i) == Len(Keys[i]) = 1

\* An index on one column that was created before the rows has them all, each
\* under a key of its own: the column is unique, after any mix of inserts and
\* of updates that stopped half way.
EntriesComplete ==
  \A i \in complete : Single(i) =>
    \A r \in DOMAIN rows :
      Contains(i, rows[r]) /\ entries[i][KeyOf(i, rows[r])] = r

\* A comparison yields only rows for which it holds, by whichever index and
\* wherever End stands; and "=" leaves out none of them, if the indexes of the
\* column were created before the rows.
QuerySound ==
  stmt = Idle => \A c \in Condition : \A A \in Results(c) :
    /\ A \subseteq Matching(c)
    /\ (c.op = "=" /\ Usable(c.col) # {} /\ Usable(c.col) \subseteq complete)
         => A = Matching(c)

\* A DELETE without a WHERE clause that has come to a row takes away all of them,
\* although it deletes the rows under the iterator it walks the heap with, and
\* with them all those of the first page.
DeleteEmpties ==
  [][(stmt.op = "delete" /\ stmt.walk /\ stmt' = Idle) => DOMAIN rows' = {}]_vars

=============================================================================
