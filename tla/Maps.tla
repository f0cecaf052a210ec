------------------------------- MODULE Maps -------------------------------
(***************************************************************************)
(* The maps of the standard library, as functions over the keys they hold. *)
(***************************************************************************)

EmptyMap == [x \in {} |-> x]

\* emplace leaves a key that is there alone.
Emplace(f, k, v) ==
  [x \in DOMAIN f \union {k} |-> IF x \in DOMAIN f THEN f[x] ELSE v]

\* erase does nothing where the key is not there.
Erase(f, k) == [x \in DOMAIN f \ {k} |-> f[x]]

=============================================================================
