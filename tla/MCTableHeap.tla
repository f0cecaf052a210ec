---------------------------- MODULE MCTableHeap ----------------------------
(* The table heap for TLC: small pages, rows of different sizes.            *)
EXTENDS TableHeap, TLC
=============================================================================
