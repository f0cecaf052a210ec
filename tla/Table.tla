------------------------------- MODULE Table -------------------------------
(***************************************************************************)
(* What a table promises: rows under row ids.  A row is marked before it   *)
(* is deleted for good, and the mark can be taken back.  An update keeps   *)
(* the row id or gives the row a new one.                                  *)
(***************************************************************************)

CONSTANTS Rid, Row

VARIABLES
  rows,    \* the row of every id in use
  marked   \* the ids whose rows are marked as deleted

vars == <<rows, marked>>

Put(f, id, r) == [x \in DOMAIN f \union {id} |-> IF x = id THEN r ELSE f[x]]
Without(f, id) == [x \in DOMAIN f \ {id} |-> f[x]]

Init == DOMAIN rows = {} /\ marked = {}

Insert(id, r) ==
  /\ UNCHANGED marked
  /\ rows' = Put(rows, id, r)

Mark(id) ==
  /\ marked' = marked \union {id}
  /\ UNCHANGED rows

Rollback(id) ==
  /\ marked' = marked \ {id}
  /\ UNCHANGED rows

Delete(id) ==
  /\ marked' = marked \ {id}
  /\ rows' = Without(rows, id)

Update(id, r) ==
  /\ UNCHANGED marked
  /\ rows' = Put(rows, id, r)

Move(id, r, new) ==
  /\ UNCHANGED marked
  /\ rows' = Put(Without(rows, id), new, r)

Next ==
  \/ \E id \in DOMAIN rows : Mark(id) \/ Rollback(id) \/ Delete(id)
  \/ \E id \in Rid \ DOMAIN rows, r \in Row : Insert(id, r)
  \/ \E id \in DOMAIN rows \ marked, r \in Row :
       \/ Update(id, r)
       \/ \E new \in Rid \ DOMAIN rows : Move(id, r, new)

Spec == Init /\ [][Next]_vars

=============================================================================
