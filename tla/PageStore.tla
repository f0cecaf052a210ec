----------------------------- MODULE PageStore -----------------------------
(***************************************************************************)
(* What a page store promises its callers: how many owners each page has   *)
(* and the bytes it holds.  A page is handed out only while nobody uses it *)
(* and written only while somebody does, and no step touches two pages.    *)
(*                                                                         *)
(* Two components of MiniSQL implement this module: DiskManager (the file, *)
(* across crashes and restarts) and BufferPool (the cache on top of it).   *)
(***************************************************************************)

CONSTANTS
  Page,   \* the page ids the store can hand out
  Data,   \* what a page can hold
  Zero    \* a page of zero bytes

VARIABLES
  owners,   \* how many callers were handed the page and have not freed it
  content   \* the bytes of every page

vars == <<owners, content>>

Init ==
  /\ owners = [p \in Page |-> 0]
  /\ content = [p \in Page |-> Zero]

\* A page that nobody uses is handed out; what it holds is not specified.
Allocate(p) ==
  /\ owners[p] = 0
  /\ owners' = [owners EXCEPT ![p] = 1]
  /\ \E d \in Data : content' = [content EXCEPT ![p] = d]

\* A page is given back; what it holds is not specified any more.
Free(p) ==
  /\ owners' = [owners EXCEPT ![p] = 0]
  /\ \E d \in Data : content' = [content EXCEPT ![p] = d]

Write(p, d) ==
  /\ owners[p] # 0
  /\ content' = [content EXCEPT ![p] = d]
  /\ UNCHANGED owners

Next ==
  \E p \in Page :
    \/ Allocate(p)
    \/ Free(p)
    \/ \E d \in Data : Write(p, d)

Spec == Init /\ [][Next]_vars

=============================================================================
