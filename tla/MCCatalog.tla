----------------------------- MODULE MCCatalog -----------------------------
(* The catalog for TLC: few names, columns, ids and pages.                  *)
EXTENDS Catalog, TLC

Symmetric == Permutations(TableName) \union Permutations(Column)
=============================================================================
