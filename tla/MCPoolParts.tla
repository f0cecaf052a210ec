---------------------------- MODULE MCPoolParts ----------------------------
(***************************************************************************)
(* The parts under the buffer pool for TLC: the disk manager, the replacer *)
(* with its history, and the latch of a page.  They share no state, so a   *)
(* behaviour is one of a single part, and the others stay as they begin.   *)
(***************************************************************************)
EXTENDS DiskManager, LRUHistory, RWLatch

VARIABLE part

PartsInit ==
  /\ part \in {"disk", "replacer", "latch"}
  /\ Init /\ HInit /\ LatchInit

PartsNext ==
  /\ \/ part = "disk" /\ Next /\ UNCHANGED <<hvars, latchVars>>
     \/ part = "replacer" /\ HNext /\ UNCHANGED <<vars, latchVars>>
     \/ part = "latch" /\ LatchNext /\ UNCHANGED <<vars, hvars>>
  /\ UNCHANGED part

\* The fairness of the latch asks for nothing while no thread is inside.
PartsSpec ==
  PartsInit /\ [][PartsNext]_<<part, vars, hvars, latchVars>> /\ LatchFairness
=============================================================================
