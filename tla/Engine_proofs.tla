---------------------------- MODULE Engine_proofs ---------------------------
(***************************************************************************)
(* Proofs about the statements on rows, for any table, any indexes and any *)
(* WHERE clauses and SET lists.                                            *)
(*                                                                         *)
(* EngineInv is the inductive invariant.  That the indexes lead to rows    *)
(* (EntriesSound) is not inductive alone: DELETE and UPDATE go on with the *)
(* rows that their search has found or that the iterator comes to, so      *)
(* these must still be there, and what the search finds is right only      *)
(* because the entries are.                                                *)
(***************************************************************************)
EXTENDS Engine, WellFoundedInduction, TLAPS

Statements ==
  [op : {"idle", "delete", "update"}, sets : Seq(Column \X Value),
   walk : BOOLEAN, targets : SUBSET Rid, at : Rid \union {0}]

\* Statement s goes on in a table with the row ids R: the row it is at is there,
\* and so are those it has still to do.  UPDATE comes back to all its rows for the
\* next assignment.  DELETE has no assignments; on its walk through the heap it
\* leaves no row behind.
GoesOn(s, R) ==
  /\ s \in Statements
  /\ s.op = "idle" => s = Idle
  /\ s.op # "idle" => s.at \in R
  /\ s.op = "delete" => s.sets = <<>>
  /\ s.op = "update" => /\ s.sets # <<>>
                        /\ s.targets \subseteq R
                        /\ s.walk => FirstPage \intersect R # {}
                        /\ ~s.walk => s.targets # {}
  /\ ~s.walk => {r \in s.targets : r > s.at} \subseteq R
  /\ s.walk /\ s.op = "delete" => \A r \in R : r >= s.at

StatementSafe == GoesOn(stmt, DOMAIN rows)

EngineInv == EntriesSound /\ EntriesComplete /\ StatementSafe

-----------------------------------------------------------------------------
\* The first of a set of row ids is one of them, and none is before it.
LEMMA FirstIn ==
  ASSUME NEW S, S \subseteq Nat, S # {}
  PROVE  First(S) \in S /\ \A s \in S : First(S) <= s
<1> DEFINE R == {ss \in Nat \X Nat : ss[1] < ss[2]}
<1>1. IsWellFoundedOn(R, Nat)
  BY NatLessThanWellFounded, Zenon DEF OpToRel
<1>2. PICK x \in S : \A y \in S : ~(<<y, x>> \in R)
  <2> HIDE DEF R
  <2>1. QED
    BY <1>1, WFMin, Zenon
<1>3. \A y, z \in Nat : y < z => <<y, z>> \in R
  OBVIOUS
<1> HIDE DEF R
<1>4. ASSUME NEW y \in S PROVE x <= y
  <2>1. x \in Nat /\ y \in Nat
    OBVIOUS
  <2>2. ~(y < x)
    BY <1>2, <1>3, <2>1, Zenon
  <2>3. QED
    BY <2>1, <2>2
<1>5. QED
  BY <1>4 DEF First

\* The key of a row in an index on one column.
LEMMA SingleKey ==
  ASSUME NEW i \in Index, Single(i), NEW row, NEW other
  PROVE  /\ Keys[i][1] \in Column /\ Keys[i] = <<Keys[i][1]>>
         /\ KeyOf(i, row) = <<row[Keys[i][1]]>>
         /\ KeyOf(i, row) = KeyOf(i, other) <=> row[Keys[i][1]] = other[Keys[i][1]]
<1>1. Keys[i] \in Seq(Column) /\ Len(Keys[i]) = 1 /\ DOMAIN Keys[i] = 1 .. 1
  BY IndexAssumption DEF Single
<1>2. Keys[i][1] \in Column /\ Keys[i] = <<Keys[i][1]>>
  BY <1>1
<1>3. \A x : KeyOf(i, x) = <<x[Keys[i][1]]>>
  <2> TAKE x
  <2> DEFINE c == x[Keys[i][1]]
  <2>1. KeyOf(i, x) = [j \in 1 .. 1 |-> c]
    BY <1>1 DEF KeyOf
  <2> HIDE DEF c
  <2>2. [j \in 1 .. 1 |-> c] = <<c>>
    OBVIOUS
  <2>3. QED
    BY <2>1, <2>2 DEF c
<1>4. QED
  BY <1>2, <1>3

-----------------------------------------------------------------------------
(***************************************************************************)
(* What a comparison returns.                                              *)
(***************************************************************************)

\* An index that a comparison can use holds a row exactly under its value.
LEMMA UsableIndex ==
  ASSUME EntriesSound, NEW col \in Column, NEW i \in Usable(col)
  PROVE  /\ i \in Index /\ i \in live /\ Single(i) /\ Keys[i][1] = col
         /\ \A row : KeyOf(i, row) = <<row[col]>>
         /\ \A k \in DOMAIN entries[i] :
              /\ entries[i][k] \in DOMAIN rows
              /\ k = <<rows[entries[i][k]][col]>>
              /\ k[1] = rows[entries[i][k]][col]
<1>1. i \in Index /\ i \in live /\ Keys[i] = <<col>>
  BY DEF Usable, EntriesSound, TypeOK
<1>2. Single(i) /\ Keys[i][1] = col
  BY <1>1 DEF Single
<1>3. \A row : KeyOf(i, row) = <<row[col]>>
  BY <1>1, <1>2, SingleKey
<1>4. ASSUME NEW k \in DOMAIN entries[i]
      PROVE  /\ entries[i][k] \in DOMAIN rows
             /\ k = <<rows[entries[i][k]][col]>>
             /\ k[1] = rows[entries[i][k]][col]
  <2>1. entries[i][k] \in DOMAIN rows /\ KeyOf(i, rows[entries[i][k]]) = k
    BY <1>1 DEF EntriesSound
  <2>2. k = <<rows[entries[i][k]][col]>>
    BY <1>3, <2>1
  <2>3. <<rows[entries[i][k]][col]>>[1] = rows[entries[i][k]][col]
    OBVIOUS
  <2>4. QED
    BY <2>1, <2>2, <2>3
<1>5. QED
  BY <1>1, <1>2, <1>3, <1>4

\* A result is that of the heap or that of an index on the column.
LEMMA ResultCases ==
  ASSUME NEW c, NEW A \in Results(c)
  PROVE  \/ Usable(c.col) = {} /\ A = HeapCompare(c)
         \/ \E i \in Usable(c.col) : \E end : A = IndexCompare(i, c, end)
BY DEF Results

\* A search yields rows that satisfy its comparison.
LEMMA SoundResults ==
  ASSUME EntriesSound, NEW c \in Condition, NEW A \in Results(c)
  PROVE  A \subseteq Matching(c)
<1>1. CASE Usable(c.col) = {} /\ A = HeapCompare(c)
  BY <1>1 DEF HeapCompare
<1>2. ASSUME NEW i \in Usable(c.col), NEW end, A = IndexCompare(i, c, end), NEW r \in A
      PROVE  r \in Matching(c)
  <2>1. /\ \A k \in DOMAIN entries[i] :
             /\ entries[i][k] \in DOMAIN rows
             /\ k = <<rows[entries[i][k]][c.col]>>
             /\ k[1] = rows[entries[i][k]][c.col]
        /\ c.op \in Op
    BY UsableIndex DEF Condition
  <2>2. CASE c.op = "="
    <3>1. PICK k \in DOMAIN entries[i] : k = <<c.val>> /\ r = entries[i][k]
      BY <1>2, <2>2 DEF IndexCompare, Equal
    <3>2. k[1] = c.val
      BY <3>1
    <3>3. r \in DOMAIN rows /\ rows[r][c.col] = c.val
      BY <2>1, <3>1, <3>2
    <3>4. QED
      BY <2>2, <3>3 DEF Matching, Holds
  <2>3. CASE c.op = "<>"
    <3>1. PICK k \in DOMAIN entries[i] : r = entries[i][k] /\ r \notin Equal(i, c.val)
      BY <1>2, <2>3 DEF IndexCompare, Visited
    <3>2. k # <<c.val>>
      BY <3>1 DEF Equal
    <3>3. r \in DOMAIN rows /\ rows[r][c.col] # c.val
      BY <2>1, <3>1, <3>2
    <3>4. QED
      BY <2>3, <3>3 DEF Matching, Holds
  <2>4. CASE c.op \notin {"=", "<>"}
    <3>1. A = {entries[i][k] : k \in {l \in Visited(i, end) : Holds(c.op, l[1], c.val)}}
      BY <1>2, <2>4 DEF IndexCompare
    <3>2. PICK k \in DOMAIN entries[i] : r = entries[i][k] /\ Holds(c.op, k[1], c.val)
      BY <1>2, <3>1 DEF Visited
    <3>3. QED
      BY <2>1, <3>2 DEF Matching
  <2>5. QED
    BY <2>2, <2>3, <2>4
<1>3. QED
  BY <1>1, <1>2, ResultCases

\* A search for equal values by an index that has all rows finds them.
LEMMA CompleteResults ==
  ASSUME EntriesSound, EntriesComplete, NEW c \in Condition, NEW A \in Results(c),
         c.op = "=", Usable(c.col) # {}, Usable(c.col) \subseteq complete
  PROVE  Matching(c) \subseteq A
<1>1. PICK i \in Usable(c.col) : \E end : A = IndexCompare(i, c, end)
  BY ResultCases
<1>2. A = Equal(i, c.val)
  BY <1>1 DEF IndexCompare
<1>3. /\ c.col \in Column /\ i \in Index /\ i \in complete /\ Single(i)
      /\ \A row : KeyOf(i, row) = <<row[c.col]>>
  BY <1>1, UsableIndex DEF Condition
<1>4. SUFFICES ASSUME NEW r \in Matching(c) PROVE r \in A
  OBVIOUS
<1>5. r \in DOMAIN rows /\ rows[r][c.col] = c.val
  BY DEF Matching, Holds
<1>6. KeyOf(i, rows[r]) \in DOMAIN entries[i] /\ entries[i][KeyOf(i, rows[r])] = r
  BY <1>3, <1>5 DEF EntriesComplete, Contains
<1>7. KeyOf(i, rows[r]) = <<c.val>>
  BY <1>3, <1>5
<1>8. QED
  BY <1>2, <1>6, <1>7 DEF Equal

\* A WHERE clause finds rows that are there.
LEMMA AnswersAreRows ==
  ASSUME EntriesSound, NEW w \in AnyClause, w.conn # "all", NEW A \in Answers(w)
  PROVE  A \subseteq DOMAIN rows
<1>1. \A c \in Condition : \A B \in Results(c) : B \subseteq DOMAIN rows
  BY SoundResults DEF Matching
<1>2. CASE w = [conn |-> "all"]
  BY <1>2
<1>3. CASE w \in [conn : {"one"}, left : Condition]
  <2>1. w.conn = "one" /\ w.left \in Condition
    BY <1>3
  <2>2. A \in Results(w.left)
    BY <2>1 DEF Answers
  <2>3. QED
    BY <1>1, <2>1, <2>2
<1>4. CASE w \in [conn : {"and", "or"}, left : Condition, right : Condition]
  <2>1. w.conn \in {"and", "or"} /\ w.left \in Condition /\ w.right \in Condition
    BY <1>4
  <2>2. CASE w.conn = "and"
    <3>1. \E B \in Results(w.left), C \in Results(w.right) : A = B \intersect C
      BY <2>2 DEF Answers
    <3>2. QED
      BY <1>1, <2>1, <3>1
  <2>3. CASE w.conn = "or"
    <3>1. PICK q \in Results(w.left) \X Results(w.right) : A = q[1] \union q[2]
      BY <2>3 DEF Answers
    <3>2. q[1] \in Results(w.left) /\ q[2] \in Results(w.right)
      BY <3>1
    <3>3. QED
      BY <1>1, <2>1, <3>1, <3>2
  <2>4. QED
    BY <2>1, <2>2, <2>3
<1>5. QED
  BY <1>2, <1>3, <1>4 DEF AnyClause

-----------------------------------------------------------------------------
(***************************************************************************)
(* The steps.                                                              *)
(***************************************************************************)
\* The statement's part of the type invariant.
LEMMA StatementTyped ==
  ASSUME NEW s, NEW R, GoesOn(s, R)
  PROVE  /\ s.targets \subseteq Rid
         /\ s # Idle => s.op \in {"delete", "update"} /\ s.at \in R
BY DEF GoesOn, Statements

\* Between two statements there is nothing to go on with.
LEMMA IdleGoesOn ==
  ASSUME NEW R PROVE GoesOn(Idle, R)
<1>1. /\ Idle.op = "idle" /\ Idle.sets = <<>> /\ Idle.walk = FALSE
      /\ Idle.targets = {} /\ Idle.at = 0 /\ Idle \in Statements
  BY DEF Idle, Statements
<1> HIDE DEF Idle
<1>2. QED
  BY <1>1 DEF GoesOn

\* The invariant holds at first.
LEMMA InitEngineInv == Init => EngineInv
<1> SUFFICES ASSUME Init PROVE EngineInv
  OBVIOUS
<1>1. /\ DOMAIN rows = {} /\ rows = [x \in {} |-> x] /\ live = Declared
      /\ DOMAIN entries = Index /\ \A i \in Index : DOMAIN entries[i] = {}
      /\ complete = Declared /\ stmt = Idle
  BY DEF Init, EmptyMap
<1>2. StatementSafe
  BY <1>1, IdleGoesOn DEF StatementSafe
<1>3. TypeOK
  BY <1>1, <1>2, StatementTyped, IndexAssumption DEF TypeOK, StatementSafe
<1>4. EntriesSound /\ EntriesComplete
  BY <1>1, <1>3 DEF EntriesSound, EntriesComplete
<1>5. QED
  BY <1>2, <1>4 DEF EngineInv

\* INSERT: the row gets a slot that is free and a key that is new.
LEMMA InsertStep ==
  ASSUME EngineInv, NEW row \in Inserted, Insert(row)
  PROVE  EngineInv'
<1> DEFINE rid == FreeSlot
<1>1. /\ TypeOK /\ stmt = Idle /\ row \in Row
      /\ live' = live /\ complete' = complete /\ stmt' = stmt
      /\ \A i \in live : KeyOf(i, row) \notin DOMAIN entries[i]
  BY StatementAssumption DEF EngineInv, EntriesSound, Insert, Refused, Contains
<1>2. rid \in Rid /\ rid \notin DOMAIN rows
  <2>1. Rid \ DOMAIN rows \subseteq Nat /\ Rid \ DOMAIN rows # {}
    BY <1>1, NumbersAssumption DEF TypeOK, Insert
  <2>2. QED
    BY <2>1, FirstIn DEF FreeSlot
<1>3. /\ rows' = Emplace(rows, rid, row)
      /\ entries' = [i \in Index |->
                       IF i \in live THEN Emplace(entries[i], KeyOf(i, row), rid)
                       ELSE entries[i]]
  BY DEF Insert
<1> HIDE DEF rid
<1>4. /\ DOMAIN rows' = DOMAIN rows \union {rid} /\ rows'[rid] = row
      /\ \A r \in DOMAIN rows : rows'[r] = rows[r]
      /\ rows' \in [DOMAIN rows' -> Row]
  <2>1. rows' = [x \in DOMAIN rows \union {rid} |-> IF x \in DOMAIN rows THEN rows[x] ELSE row]
    BY <1>3 DEF Emplace
  <2>2. QED
    BY <1>1, <1>2, <2>1 DEF TypeOK
<1>5. /\ DOMAIN entries' = Index
      /\ \A i \in Index \ live : entries'[i] = entries[i]
      /\ \A i \in Index \intersect live :
           /\ DOMAIN entries'[i] = DOMAIN entries[i] \union {KeyOf(i, row)}
           /\ entries'[i][KeyOf(i, row)] = rid
           /\ \A k \in DOMAIN entries[i] : entries'[i][k] = entries[i][k]
  <2>1. \A i \in Index \intersect live :
          entries'[i] = Emplace(entries[i], KeyOf(i, row), rid)
    BY <1>3
  <2>2. QED
    BY <1>1, <1>3, <2>1 DEF Emplace
<1>6. TypeOK'
  <2>1. DOMAIN rows' \subseteq Rid
    BY <1>1, <1>2, <1>4 DEF TypeOK
  <2>2. QED
    BY <1>1, <1>4, <1>5, <2>1 DEF TypeOK
<1>7. EntriesSound'
  <2>1. SUFFICES ASSUME NEW i \in Index, NEW k \in DOMAIN entries'[i]
                 PROVE  /\ i \in live
                        /\ entries'[i][k] \in DOMAIN rows'
                        /\ KeyOf(i, rows'[entries'[i][k]]) = k
    BY <1>1, <1>6 DEF EntriesSound, KeyOf
  <2>2. CASE k \in DOMAIN entries[i]
    <3>1. /\ i \in live /\ entries[i][k] \in DOMAIN rows
          /\ KeyOf(i, rows[entries[i][k]]) = k
      BY <2>2 DEF EngineInv, EntriesSound
    <3>2. QED
      BY <1>4, <1>5, <2>2, <3>1
  <2>3. CASE k \notin DOMAIN entries[i]
    <3>1. i \in live /\ k = KeyOf(i, row)
      BY <1>5, <2>1, <2>3
    <3>2. QED
      BY <1>4, <1>5, <3>1
  <2>4. QED
    BY <2>2, <2>3
<1>8. EntriesComplete'
  <2>1. SUFFICES ASSUME NEW i \in complete', Single(i), NEW r \in DOMAIN rows'
                 PROVE  /\ KeyOf(i, rows'[r]) \in DOMAIN entries'[i]
                        /\ entries'[i][KeyOf(i, rows'[r])] = r
    BY DEF EntriesComplete, Contains, KeyOf
  <2>2. i \in complete /\ i \in Index /\ i \in live
    BY <1>1 DEF TypeOK
  <2>3. CASE r = rid
    BY <1>4, <1>5, <2>2, <2>3
  <2>4. CASE r \in DOMAIN rows
    <3>1. KeyOf(i, rows[r]) \in DOMAIN entries[i] /\ entries[i][KeyOf(i, rows[r])] = r
      BY <2>1, <2>2, <2>4 DEF EngineInv, EntriesComplete, Contains
    <3>2. QED
      BY <1>4, <1>5, <2>2, <2>4, <3>1
  <2>5. QED
    BY <1>4, <2>1, <2>3, <2>4
<1>9. StatementSafe'
  <2>1. GoesOn(stmt', DOMAIN rows')
    BY <1>1, IdleGoesOn
  <2>2. QED
    BY <2>1 DEF StatementSafe
<1>10. QED
  BY <1>7, <1>8, <1>9 DEF EngineInv

\* A step that leaves rows and entries alone.
LEMMA SameRows ==
  ASSUME EngineInv, rows' = rows, live' = live, entries' = entries,
         complete' = complete, TypeOK'
  PROVE  EntriesSound' /\ EntriesComplete'
BY DEF EngineInv, EntriesSound, EntriesComplete, Contains, KeyOf

\* DELETE and UPDATE start with the rows that are found, or with the first one of
\* the heap.
LEMMA StartStep ==
  ASSUME EngineInv, NEW w \in Where, NEW op \in {"delete", "update"}, NEW sets,
         sets \in Seq(Column \X Value), op = "delete" <=> sets = <<>>, Start(op, w, sets)
  PROVE  EngineInv'
<1>1. /\ rows' = rows /\ live' = live /\ entries' = entries /\ complete' = complete
      /\ TypeOK /\ DOMAIN rows \subseteq Rid
  BY DEF Start, EngineInv, EntriesSound, TypeOK
<1>2. GoesOn(stmt', DOMAIN rows)
  <2>1. CASE w.conn = "all"
    <3> DEFINE at == First(Seen)
    <3>1. Seen # {} /\ Seen = DOMAIN rows /\ FirstPage \intersect DOMAIN rows # {}
      BY <2>1 DEF Start, Seen
    <3>2. stmt' = [op |-> op, sets |-> sets, walk |-> TRUE, targets |-> {}, at |-> at]
      BY <2>1 DEF Start
    <3>3. at \in DOMAIN rows /\ (\A r \in DOMAIN rows : at <= r) /\ DOMAIN rows \subseteq Nat
      BY <1>1, <3>1, FirstIn, NumbersAssumption
    <3> HIDE DEF at
    <3>4. at \in Rid /\ at \in Nat /\ \A r \in DOMAIN rows : r >= at
      BY <1>1, <3>3
    <3>5. /\ stmt' \in Statements /\ stmt'.op = op /\ stmt'.sets = sets
          /\ stmt'.walk = TRUE /\ stmt'.targets = {} /\ stmt'.at = at
      BY <3>2, <3>4 DEF Statements
    <3>6. QED
      BY <3>1, <3>3, <3>4, <3>5 DEF GoesOn
  <2>2. CASE w.conn # "all"
    <3>1. PICK A \in Answers(w) \ {{}} :
            stmt' = [op |-> op, sets |-> sets, walk |-> FALSE, targets |-> A, at |-> First(A)]
      BY <2>2 DEF Start
    <3> DEFINE at == First(A)
    <3>2. A \subseteq DOMAIN rows /\ A # {}
      BY <2>2, <3>1, AnswersAreRows, StatementAssumption DEF EngineInv
    <3>3. at \in A
      BY <1>1, <3>2, FirstIn, NumbersAssumption
    <3>4. stmt' = [op |-> op, sets |-> sets, walk |-> FALSE, targets |-> A, at |-> at]
      BY <3>1
    <3> HIDE DEF at
    <3>5. /\ stmt' \in Statements /\ stmt'.op = op /\ stmt'.sets = sets
          /\ stmt'.walk = FALSE /\ stmt'.targets = A /\ stmt'.at = at
      BY <1>1, <3>2, <3>3, <3>4 DEF Statements
    <3>6. QED
      BY <3>2, <3>3, <3>5 DEF GoesOn
  <2>3. QED
    BY <2>1, <2>2
<1>3. TypeOK'
  BY <1>1, <1>2, StatementTyped DEF TypeOK
<1>4. StatementSafe'
  BY <1>1, <1>2 DEF StatementSafe
<1>5. QED
  BY <1>1, <1>3, <1>4, SameRows DEF EngineInv

\* CREATE INDEX, DROP INDEX and an UPDATE that stops.
LEMMA CreateIndexStep ==
  ASSUME EngineInv, NEW i \in Index, CreateIndex(i)
  PROVE  EngineInv'
<1>1. /\ rows' = rows /\ entries' = entries /\ stmt' = stmt /\ TypeOK
      /\ live' = live \union {i}
      /\ complete' = IF DOMAIN rows = {} THEN complete \union {i} ELSE complete
  BY DEF CreateIndex, EngineInv, EntriesSound
<1>2. TypeOK'
  BY <1>1 DEF TypeOK
<1>3. EntriesSound'
  BY <1>1, <1>2 DEF EngineInv, EntriesSound, KeyOf
<1>4. EntriesComplete'
  BY <1>1 DEF EngineInv, EntriesComplete, Contains, KeyOf
<1>5. StatementSafe'
  BY <1>1 DEF EngineInv, StatementSafe
<1>6. QED
  BY <1>3, <1>4, <1>5 DEF EngineInv

\* DROP INDEX.
LEMMA DropIndexStep ==
  ASSUME EngineInv, NEW i \in Index, DropIndex(i)
  PROVE  EngineInv'
<1>1. /\ rows' = rows /\ stmt' = stmt /\ TypeOK
      /\ live' = live \ {i} /\ complete' = complete \ {i}
      /\ DOMAIN entries' = Index /\ DOMAIN entries'[i] = {}
      /\ \A j \in Index \ {i} : entries'[j] = entries[j]
  BY DEF DropIndex, EngineInv, EntriesSound, TypeOK, EmptyMap
<1>2. TypeOK'
  BY <1>1 DEF TypeOK
<1>3. EntriesSound'
  <2>1. SUFFICES ASSUME NEW j \in Index, NEW k \in DOMAIN entries'[j]
                 PROVE  /\ j \in live'
                        /\ entries'[j][k] \in DOMAIN rows
                        /\ KeyOf(j, rows[entries'[j][k]]) = k
    BY <1>1, <1>2 DEF EntriesSound, KeyOf
  <2>2. j # i
    BY <1>1, <2>1
  <2>3. QED
    BY <1>1, <2>1, <2>2 DEF EngineInv, EntriesSound
<1>4. EntriesComplete'
  <2>1. SUFFICES ASSUME NEW j \in complete', Single(j), NEW r \in DOMAIN rows
                 PROVE  /\ KeyOf(j, rows[r]) \in DOMAIN entries'[j]
                        /\ entries'[j][KeyOf(j, rows[r])] = r
    BY <1>1 DEF EntriesComplete, Contains, KeyOf
  <2>2. j \in complete /\ j \in Index \ {i}
    BY <1>1, <2>1 DEF TypeOK
  <2>3. QED
    BY <1>1, <2>1, <2>2 DEF EngineInv, EntriesComplete, Contains
<1>5. StatementSafe'
  BY <1>1 DEF EngineInv, StatementSafe
<1>6. QED
  BY <1>3, <1>4, <1>5 DEF EngineInv

\* An UPDATE that stops at a duplicate.
LEMMA UpdateStopsStep ==
  ASSUME EngineInv, UpdateStops
  PROVE  EngineInv'
<1>1. /\ rows' = rows /\ live' = live /\ entries' = entries /\ complete' = complete
      /\ stmt' = Idle /\ TypeOK
  BY DEF UpdateStops, EngineInv, EntriesSound
<1>2. GoesOn(stmt', DOMAIN rows)
  BY <1>1, IdleGoesOn
<1>3. TypeOK'
  BY <1>1, <1>2, StatementTyped DEF TypeOK
<1>4. StatementSafe'
  BY <1>1, <1>2 DEF StatementSafe
<1>5. QED
  BY <1>1, <1>3, <1>4, SameRows DEF EngineInv

\* What is left of a statement after a row; R are the rows that stay.
LEMMA DoneStep ==
  ASSUME EngineInv, stmt # Idle, NEW R,
         stmt.op = "delete" => R = DOMAIN rows \ {stmt.at},
         stmt.op = "update" => R = DOMAIN rows
  PROVE  GoesOn(Done, R)
<1> DEFINE s == Done
           a == stmt.at
<1>1. /\ stmt \in Statements /\ stmt.op \in {"delete", "update"}
      /\ a \in DOMAIN rows /\ DOMAIN rows \subseteq Rid /\ stmt.targets \subseteq Rid
      /\ a \in Nat /\ Rid \subseteq Nat
  BY NumbersAssumption DEF EngineInv, EntriesSound, TypeOK, StatementSafe, GoesOn
<1>2. /\ stmt.op = "delete" => stmt.sets = <<>>
      /\ stmt.op = "update" => /\ stmt.sets # <<>>
                               /\ stmt.targets \subseteq DOMAIN rows
                               /\ stmt.walk => FirstPage \intersect DOMAIN rows # {}
                               /\ ~stmt.walk => stmt.targets # {}
      /\ ~stmt.walk => {r \in stmt.targets : r > a} \subseteq DOMAIN rows
      /\ stmt.walk /\ stmt.op = "delete" => \A r \in DOMAIN rows : r >= a
  BY DEF EngineInv, StatementSafe, GoesOn
<1>3. R \subseteq DOMAIN rows /\ DOMAIN rows \ {a} \subseteq R
  BY <1>1
<1>4. CASE Ahead # {}
  <2> DEFINE b == First(Ahead)
  <2>1. Ahead \subseteq Rid /\ \A r \in Ahead : r > a /\ r \in DOMAIN rows
    <3>1. CASE stmt.walk
      BY <1>1, <3>1 DEF Ahead
    <3>2. CASE ~stmt.walk
      BY <1>1, <1>2, <3>2 DEF Ahead
    <3>3. QED
      BY <3>1, <3>2
  <2>2. b \in Ahead /\ \A r \in Ahead : b <= r
    BY <1>1, <1>4, <2>1, FirstIn
  <2>3. s = [stmt EXCEPT !.at = b]
    BY <1>4 DEF Done
  <2> HIDE DEF b, s
  <2>4. b \in Rid /\ b \in Nat /\ b > a /\ b \in DOMAIN rows
    BY <1>1, <2>1, <2>2
  <2>5. /\ s \in Statements /\ s.op = stmt.op /\ s.sets = stmt.sets
        /\ s.walk = stmt.walk /\ s.targets = stmt.targets /\ s.at = b
    BY <1>1, <2>3, <2>4 DEF Statements
  <2>6. b \in R
    BY <1>1, <1>3, <2>4
  <2>7. ASSUME ~s.walk PROVE {r \in s.targets : r > b} \subseteq R
    <3>1. SUFFICES ASSUME NEW r \in stmt.targets, r > b PROVE r \in R
      BY <2>5
    <3>2. r \in Nat /\ r > a
      <4>1. r \in Nat
        BY <1>1, <3>1
      <4>2. QED
        BY <1>1, <2>4, <3>1, <4>1
    <3>3. r \in DOMAIN rows
      BY <1>2, <2>5, <2>7, <3>1, <3>2
    <3>4. QED
      BY <1>1, <1>3, <3>2, <3>3
  <2>8. ASSUME s.walk, s.op = "delete" PROVE \A r \in R : r >= b
    <3>1. SUFFICES ASSUME NEW r \in R PROVE r >= b
      OBVIOUS
    <3>2. r \in DOMAIN rows /\ r # a /\ r >= a /\ r \in Nat
      BY <1>1, <1>2, <2>5, <2>8, <3>1
    <3>3. r > a
      BY <1>1, <3>2
    <3>4. r \in Ahead
      BY <2>5, <2>8, <3>2, <3>3 DEF Ahead
    <3>5. b <= r
      BY <2>2, <3>4
    <3>6. QED
      BY <2>4, <3>2, <3>5
  <2>9. s.op = "update" => /\ s.sets # <<>>
                           /\ s.targets \subseteq R
                           /\ s.walk => FirstPage \intersect R # {}
                           /\ ~s.walk => s.targets # {}
    BY <1>2, <2>5
  <2>10. GoesOn(s, R)
    BY <1>1, <1>2, <2>5, <2>6, <2>7, <2>8, <2>9 DEF GoesOn
  <2>11. QED
    BY <2>10 DEF s
<1>5. CASE Ahead = {} /\ Len(stmt.sets) > 1
  <2> DEFINE B == IF stmt.walk THEN Seen ELSE stmt.targets
             b == First(B)
  <2>1. stmt.op = "update" /\ stmt.sets \in Seq(Column \X Value) /\ R = DOMAIN rows
    BY <1>1, <1>2, <1>5 DEF Statements
  <2>2. B # {} /\ B \subseteq DOMAIN rows
    BY <1>2, <2>1 DEF Seen
  <2>3. s = [stmt EXCEPT !.sets = Tail(@), !.at = b]
    BY <1>5 DEF Done
  <2> HIDE DEF B
  <2>4. b \in B
    BY <1>1, <2>2, FirstIn
  <2> HIDE DEF b, s
  <2>5. b \in Rid /\ b \in R
    BY <1>1, <2>1, <2>2, <2>4
  <2>6. Tail(stmt.sets) \in Seq(Column \X Value) /\ Tail(stmt.sets) # <<>>
    <3> DEFINE q == stmt.sets
    <3>1. q \in Seq(Column \X Value) /\ Len(q) > 1
      BY <1>5, <2>1
    <3> HIDE DEF q
    <3>2. Tail(q) \in Seq(Column \X Value) /\ Len(Tail(q)) = Len(q) - 1
      BY <3>1
    <3>3. Tail(q) # <<>>
      <4>1. Len(q) \in Nat /\ Len(<<>>) = 0
        BY <3>1
      <4>2. \A m, n \in Int : n > 1 /\ m = n - 1 => m # 0
        OBVIOUS
      <4>3. Len(Tail(q)) \in Int /\ Len(q) \in Int
        BY <3>2, <4>1
      <4>4. Len(Tail(q)) # 0
        BY <3>1, <3>2, <4>2, <4>3, Zenon
      <4>5. QED
        BY <4>1, <4>4
    <3>4. QED
      BY <3>2, <3>3 DEF q
  <2>7. /\ s \in Statements /\ s.op = stmt.op /\ s.sets = Tail(stmt.sets)
        /\ s.walk = stmt.walk /\ s.targets = stmt.targets /\ s.at = b
    BY <1>1, <2>3, <2>5, <2>6 DEF Statements
  <2>8. s.op = "update" /\ s.sets # <<>> /\ s.targets \subseteq R
        /\ (s.walk => FirstPage \intersect R # {}) /\ (~s.walk => s.targets # {})
    BY <1>2, <2>1, <2>6, <2>7
  <2>9. GoesOn(s, R)
    BY <2>5, <2>7, <2>8 DEF GoesOn
  <2>10. QED
    BY <2>9 DEF s
<1>6. CASE Ahead = {} /\ ~(Len(stmt.sets) > 1)
  BY <1>6, IdleGoesOn DEF Done
<1>7. QED
  BY <1>4, <1>5, <1>6

\* A DELETE takes away a row and its entries.
LEMMA DeleteRowStep ==
  ASSUME EngineInv, DeleteRow
  PROVE  EngineInv'
<1> DEFINE rid == stmt.at
<1>1. /\ TypeOK /\ StatementSafe /\ stmt.op = "delete" /\ stmt # Idle /\ live' = live
  BY DEF EngineInv, EntriesSound, DeleteRow, Idle
<1>2. rid \in DOMAIN rows
  BY <1>1 DEF TypeOK
<1>3. /\ rows' = Erase(rows, rid)
      /\ entries' = [i \in Index |->
                       IF i \in live THEN Erase(entries[i], KeyOf(i, rows[rid]))
                       ELSE entries[i]]
      /\ stmt' = Done
      /\ complete' = IF DOMAIN rows' = {} THEN live ELSE complete
  BY DEF DeleteRow
<1> HIDE DEF rid
<1>4. /\ DOMAIN rows' = DOMAIN rows \ {rid}
      /\ \A r \in DOMAIN rows \ {rid} : rows'[r] = rows[r]
      /\ rows' \in [DOMAIN rows' -> Row]
  <2>1. rows' = [x \in DOMAIN rows \ {rid} |-> rows[x]]
    BY <1>3 DEF Erase
  <2>2. QED
    BY <1>1, <2>1 DEF TypeOK
<1>5. /\ DOMAIN entries' = Index
      /\ \A i \in Index \ live : entries'[i] = entries[i]
      /\ \A i \in Index \intersect live :
           /\ DOMAIN entries'[i] = DOMAIN entries[i] \ {KeyOf(i, rows[rid])}
           /\ \A k \in DOMAIN entries'[i] : entries'[i][k] = entries[i][k]
  <2>1. \A i \in Index \intersect live :
          entries'[i] = Erase(entries[i], KeyOf(i, rows[rid]))
    BY <1>3
  <2>2. QED
    BY <1>3, <2>1 DEF Erase
<1>6. GoesOn(stmt', DOMAIN rows')
  <2>1. DOMAIN rows' = DOMAIN rows \ {stmt.at}
    BY <1>4 DEF rid
  <2>2. QED
    BY <1>1, <1>3, <2>1, DoneStep
<1>7. TypeOK'
  <2>1. complete' \subseteq live /\ DOMAIN rows' \subseteq Rid
    BY <1>1, <1>3, <1>4 DEF TypeOK
  <2>2. QED
    BY <1>1, <1>4, <1>5, <1>6, <2>1, StatementTyped DEF TypeOK
<1>8. EntriesSound'
  <2>1. SUFFICES ASSUME NEW i \in Index, NEW k \in DOMAIN entries'[i]
                 PROVE  /\ i \in live
                        /\ entries'[i][k] \in DOMAIN rows'
                        /\ KeyOf(i, rows'[entries'[i][k]]) = k
    BY <1>1, <1>7 DEF EntriesSound, KeyOf
  <2>2. k \in DOMAIN entries[i] /\ entries'[i][k] = entries[i][k]
    BY <1>5, <2>1
  <2>3. /\ i \in live /\ entries[i][k] \in DOMAIN rows
        /\ KeyOf(i, rows[entries[i][k]]) = k
    BY <2>2 DEF EngineInv, EntriesSound
  <2>4. entries[i][k] # rid
    BY <1>5, <2>1, <2>3
  <2>5. QED
    BY <1>4, <2>2, <2>3, <2>4
<1>9. EntriesComplete'
  <2>1. SUFFICES ASSUME NEW i \in complete', Single(i), NEW r \in DOMAIN rows'
                 PROVE  /\ KeyOf(i, rows'[r]) \in DOMAIN entries'[i]
                        /\ entries'[i][KeyOf(i, rows'[r])] = r
    BY DEF EntriesComplete, Contains, KeyOf
  <2>2. i \in complete /\ i \in Index /\ i \in live /\ r \in DOMAIN rows \ {rid}
    BY <1>1, <1>3, <1>4, <2>1 DEF TypeOK
  <2>3. /\ KeyOf(i, rows[r]) \in DOMAIN entries[i] /\ entries[i][KeyOf(i, rows[r])] = r
        /\ entries[i][KeyOf(i, rows[rid])] = rid
    BY <1>2, <2>1, <2>2 DEF EngineInv, EntriesComplete, Contains
  <2>4. KeyOf(i, rows[r]) # KeyOf(i, rows[rid])
    BY <2>2, <2>3
  <2>5. QED
    BY <1>4, <1>5, <2>2, <2>3, <2>4
<1>10. StatementSafe'
  BY <1>6 DEF StatementSafe
<1>11. QED
  BY <1>8, <1>9, <1>10 DEF EngineInv

\* UPDATE of one row: the entry moves to the new key, where an index that is
\* not asked for duplicates may have another row already.
LEMMA UpdateRowStep ==
  ASSUME EngineInv, UpdateRow
  PROVE  EngineInv'
<1> DEFINE rid == stmt.at
           old == rows[rid]
           new == Assigned(old)
<1>1. /\ TypeOK /\ StatementSafe /\ stmt.op = "update" /\ stmt # Idle
      /\ live' = live /\ complete' = complete
  BY DEF EngineInv, EntriesSound, UpdateRow, Idle
<1>2. rid \in DOMAIN rows /\ old \in Row
  BY <1>1 DEF TypeOK
<1>3. /\ rows' = [rows EXCEPT ![rid] = new]
      /\ entries' = [i \in Index |->
                       IF i \in live
                       THEN Emplace(Erase(entries[i], KeyOf(i, old)), KeyOf(i, new), rid)
                       ELSE entries[i]]
      /\ stmt' = Done /\ ~Duplicate(new)
  BY DEF UpdateRow
<1>4. PICK col \in Column, val \in Value :
        new = [old EXCEPT ![col] = val] /\ col = Head(stmt.sets)[1]
  <2>1. stmt.sets \in Seq(Column \X Value) /\ stmt.sets # <<>>
    BY <1>1 DEF StatementSafe, GoesOn, Statements
  <2>2. Head(stmt.sets) \in Column \X Value
    BY <2>1
  <2>3. Head(stmt.sets)[1] \in Column /\ Head(stmt.sets)[2] \in Value
    BY <2>2
  <2>4. QED
    BY <2>3 DEF Assigned
<1> HIDE DEF rid, old, new
<1>5. new \in Row /\ \A c \in Column \ {col} : new[c] = old[c]
  BY <1>2, <1>4 DEF Row
<1>6. /\ DOMAIN rows' = DOMAIN rows /\ rows'[rid] = new
      /\ \A r \in DOMAIN rows \ {rid} : rows'[r] = rows[r]
      /\ rows' \in [DOMAIN rows' -> Row]
  BY <1>1, <1>2, <1>3, <1>5 DEF TypeOK
<1>7. /\ DOMAIN entries' = Index
      /\ \A i \in Index \ live : entries'[i] = entries[i]
      /\ \A i \in Index \intersect live :
           /\ DOMAIN entries'[i] =
                (DOMAIN entries[i] \ {KeyOf(i, old)}) \union {KeyOf(i, new)}
           /\ \A k \in DOMAIN entries[i] \ {KeyOf(i, old)} : entries'[i][k] = entries[i][k]
           /\ KeyOf(i, new) \notin DOMAIN entries[i] \ {KeyOf(i, old)}
                => entries'[i][KeyOf(i, new)] = rid
  <2>1. SUFFICES ASSUME NEW i \in Index \intersect live
                 PROVE  /\ DOMAIN entries'[i] =
                             (DOMAIN entries[i] \ {KeyOf(i, old)}) \union {KeyOf(i, new)}
                        /\ \A k \in DOMAIN entries[i] \ {KeyOf(i, old)} :
                             entries'[i][k] = entries[i][k]
                        /\ KeyOf(i, new) \notin DOMAIN entries[i] \ {KeyOf(i, old)}
                             => entries'[i][KeyOf(i, new)] = rid
    BY <1>3
  <2> DEFINE e == Erase(entries[i], KeyOf(i, old))
  <2>2. entries'[i] = Emplace(e, KeyOf(i, new), rid)
    BY <1>3
  <2>3. DOMAIN e = DOMAIN entries[i] \ {KeyOf(i, old)} /\ \A k \in DOMAIN e : e[k] = entries[i][k]
    BY DEF Erase
  <2> HIDE DEF e
  <2>4. QED
    BY <2>2, <2>3 DEF Emplace
<1>8. GoesOn(stmt', DOMAIN rows')
  BY <1>1, <1>3, <1>6, DoneStep
<1>9. TypeOK'
  BY <1>1, <1>6, <1>7, <1>8, StatementTyped DEF TypeOK
<1>10. EntriesSound'
  <2>1. SUFFICES ASSUME NEW i \in Index, NEW k \in DOMAIN entries'[i]
                 PROVE  /\ i \in live
                        /\ entries'[i][k] \in DOMAIN rows'
                        /\ KeyOf(i, rows'[entries'[i][k]]) = k
    BY <1>1, <1>9 DEF EntriesSound, KeyOf
  <2>2. i \in live
    BY <1>7, <2>1 DEF EngineInv, EntriesSound
  <2>3. CASE k \in DOMAIN entries[i] \ {KeyOf(i, old)}
    <3>1. entries[i][k] \in DOMAIN rows /\ KeyOf(i, rows[entries[i][k]]) = k
      BY <2>3 DEF EngineInv, EntriesSound
    <3>2. entries[i][k] # rid
      BY <2>3, <3>1 DEF old
    <3>3. QED
      BY <1>6, <1>7, <2>2, <2>3, <3>1, <3>2
  <2>4. CASE k \notin DOMAIN entries[i] \ {KeyOf(i, old)}
    <3>1. k = KeyOf(i, new) /\ entries'[i][k] = rid
      BY <1>7, <2>1, <2>2, <2>4
    <3>2. QED
      BY <1>2, <1>6, <2>2, <3>1
  <2>5. QED
    BY <2>3, <2>4
<1>11. EntriesComplete'
  <2>1. SUFFICES ASSUME NEW i \in complete', Single(i), NEW r \in DOMAIN rows'
                 PROVE  /\ KeyOf(i, rows'[r]) \in DOMAIN entries'[i]
                        /\ entries'[i][KeyOf(i, rows'[r])] = r
    BY DEF EntriesComplete, Contains, KeyOf
  <2>2. i \in complete /\ i \in Index /\ i \in live
    BY <1>1, <2>1 DEF TypeOK
  <2>3. \A q \in DOMAIN rows :
          KeyOf(i, rows[q]) \in DOMAIN entries[i] /\ entries[i][KeyOf(i, rows[q])] = q
    BY <2>1, <2>2 DEF EngineInv, EntriesComplete, Contains
  <2>4. CASE r = rid
    <3>1. KeyOf(i, new) \notin DOMAIN entries[i] \ {KeyOf(i, old)}
      <4>1. CASE Keys[i][1] = col
        BY <1>3, <1>4, <2>2, <4>1 DEF Duplicate, Contains
      <4>2. CASE Keys[i][1] # col
        <5>1. new[Keys[i][1]] = old[Keys[i][1]]
          BY <1>5, <2>1, <2>2, <4>2, SingleKey
        <5>2. KeyOf(i, new) = KeyOf(i, old)
          BY <2>1, <2>2, <5>1, SingleKey
        <5>3. QED
          BY <5>2
      <4>3. QED
        BY <4>1, <4>2
    <3>2. QED
      BY <1>6, <1>7, <2>2, <2>4, <3>1
  <2>5. CASE r # rid
    <3>1. r \in DOMAIN rows /\ rows'[r] = rows[r]
      BY <1>6, <2>1, <2>5
    <3>2. KeyOf(i, rows[r]) \in DOMAIN entries[i] \ {KeyOf(i, old)}
      BY <1>2, <2>3, <2>5, <3>1 DEF old
    <3>3. QED
      BY <1>7, <2>2, <2>3, <3>1, <3>2
  <2>6. QED
    BY <2>4, <2>5
<1>12. StatementSafe'
  BY <1>8 DEF StatementSafe
<1>13. QED
  BY <1>10, <1>11, <1>12 DEF EngineInv

\* Every step preserves the invariant.
LEMMA NextEngineInv == EngineInv /\ [Next]_vars => EngineInv'
<1> SUFFICES ASSUME EngineInv, [Next]_vars PROVE EngineInv'
  OBVIOUS
<1>1. ASSUME NEW row \in Inserted, Insert(row) PROVE EngineInv'
  BY <1>1, InsertStep
<1>2. ASSUME NEW w \in Where, StartDelete(w) PROVE EngineInv'
  <2>1. <<>> \in Seq(Column \X Value) /\ Start("delete", w, <<>>)
    BY <1>2 DEF StartDelete
  <2>2. QED
    BY <2>1, StartStep
<1>3. ASSUME NEW w \in Where, NEW sets \in SetList, StartUpdate(w, sets) PROVE EngineInv'
  <2>1. sets \in Seq(Column \X Value) /\ sets # <<>>
    BY StatementAssumption
  <2>2. QED
    BY <1>3, <2>1, StartStep DEF StartUpdate
<1>4. CASE Step
  BY <1>4, DeleteRowStep, UpdateRowStep, UpdateStopsStep DEF Step
<1>5. ASSUME NEW i \in Index, CreateIndex(i) PROVE EngineInv'
  BY <1>5, CreateIndexStep
<1>6. ASSUME NEW i \in Index, DropIndex(i) PROVE EngineInv'
  BY <1>6, DropIndexStep
<1>7. CASE UNCHANGED vars
  <2>1. /\ rows' = rows /\ live' = live /\ entries' = entries
        /\ complete' = complete /\ stmt' = stmt
    BY <1>7 DEF vars
  <2>2. TypeOK'
    BY <2>1 DEF EngineInv, EntriesSound, TypeOK
  <2>3. StatementSafe'
    BY <2>1 DEF EngineInv, StatementSafe
  <2>4. QED
    BY <2>1, <2>2, <2>3, SameRows DEF EngineInv
<1>8. QED
  BY <1>1, <1>2, <1>3, <1>4, <1>5, <1>6, <1>7 DEF Next

\* The inductive invariant holds in every state, for any table and indexes.
THEOREM EngineInductive == Spec => []EngineInv
<1>1. QED
  BY InitEngineInv, NextEngineInv, PTL DEF Spec

\* No entry of an index is left behind by a DELETE or an UPDATE, also in the
\* middle of the loops of ExecuteDelete and ExecuteUpdate: each leads to a row
\* that has its key.
THEOREM NoStaleEntry == Spec => []EntriesSound
<1>1. EngineInv => EntriesSound
  BY DEF EngineInv
<1>2. QED
  BY <1>1, EngineInductive, PTL

\* No row is lost from an index on one column that was there before it, and no
\* two rows share a key of it: the check for duplicates of ExecuteUpdate is
\* enough, although it looks at the first key column of an index only.
THEOREM UniqueColumnsStayUnique == Spec => []EntriesComplete
<1>1. EngineInv => EntriesComplete
  BY DEF EngineInv
<1>2. QED
  BY <1>1, EngineInductive, PTL

\* ExecuteCompareOperator yields no row for which the comparison fails, wherever
\* End stands, and for "=" by complete indexes all for which it holds.
THEOREM SearchesAreSound == Spec => []QuerySound
<1>1. EngineInv => QuerySound
  BY SoundResults, CompleteResults DEF EngineInv, QuerySound
<1>2. QED
  BY <1>1, EngineInductive, PTL

\* ExecuteDelete without a WHERE clause deletes the row under its iterator and goes
\* on from there; for any number of rows and pages it ends with an empty table.
THEOREM DeleteWithoutWhere == Spec => DeleteEmpties
<1>1. ASSUME EngineInv, [Next]_vars, stmt.op = "delete", stmt.walk, stmt' = Idle
      PROVE  DOMAIN rows' = {}
  <2>1. stmt # Idle /\ Idle.op = "idle"
    BY <1>1 DEF Idle
  <2>2. DeleteRow
    <3>1. Next
      BY <1>1, <2>1 DEF vars
    <3>2. ~UpdateRow /\ ~UpdateStops
      BY <1>1 DEF UpdateRow, UpdateStops
    <3>3. QED
      BY <2>1, <3>1, <3>2
      DEF Next, Step, Insert, StartDelete, StartUpdate, Start, CreateIndex, DropIndex
  <2>3. rows' = Erase(rows, stmt.at) /\ stmt' = Done
    BY <2>2 DEF DeleteRow
  <2>4. DOMAIN rows' = DOMAIN rows \ {stmt.at}
    BY <2>3 DEF Erase
  <2>5. /\ stmt \in Statements /\ stmt.sets = <<>>
        /\ \A r \in DOMAIN rows : r >= stmt.at /\ r \in Nat
        /\ stmt.at \in Nat
    BY <1>1, <2>1, NumbersAssumption
    DEF EngineInv, EntriesSound, TypeOK, StatementSafe, GoesOn
  <2>6. Ahead = {}
    <3>1. SUFFICES ASSUME Ahead # {} PROVE FALSE
      OBVIOUS
    <3>2. Done = [stmt EXCEPT !.at = First(Ahead)]
      BY <3>1 DEF Done
    <3>3. Done.op = stmt.op
      BY <2>5, <3>2 DEF Statements
    <3>4. QED
      BY <1>1, <2>1, <2>3, <3>3
  <2>7. \A r \in DOMAIN rows : ~(r > stmt.at)
    BY <1>1, <2>6 DEF Ahead
  <2>8. QED
    BY <2>4, <2>5, <2>7
<1>2. EngineInv /\ [Next]_vars =>
        [(stmt.op = "delete" /\ stmt.walk /\ stmt' = Idle) => DOMAIN rows' = {}]_vars
  BY <1>1
<1>3. QED
  BY <1>2, EngineInductive, PTL DEF Spec, DeleteEmpties

=============================================================================
