----------------------------- MODULE MCEngine -----------------------------
(* A table of two columns: a is unique, b the primary key, so that both have *)
(* an index; t_a can be dropped and created again, both is created later.    *)
EXTENDS Engine

MCKeys == [PRIMARY |-> <<"b">>, t_a |-> <<"a">>, both |-> <<"b", "a">>]

ARow(x, y) == [a |-> x, b |-> y]
MCInserted == {ARow(0, 0), ARow(0, 4), ARow(2, 2), ARow(4, 4)}

One(c, o, v) == [conn |-> "one", left |-> [op |-> o, col |-> c, val |-> v]]
Two(k, c, d) == [conn |-> k, left |-> c.left, right |-> d.left]

MCWhere ==
  {[conn |-> "all"], One("b", "<>", 0),
   Two("and", One("a", "<", 4), One("b", "<=", 2)),
   Two("or", One("a", "=", 0), One("b", ">", 0))}

MCSetList == {<< <<"a", 4>> >>, << <<"b", 2>>, <<"a", 2>> >>}
=============================================================================
