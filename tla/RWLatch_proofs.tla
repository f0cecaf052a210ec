--------------------------- MODULE RWLatch_proofs --------------------------
(***************************************************************************)
(* The safety of the reader-writer latch for any number of threads.        *)
(***************************************************************************)
EXTENDS RWLatch, FiniteSetTheorems, TLAPS

\* The sets of the state are finite, and their cardinality is a number that
\* is zero only for the empty set.
LEMMA FiniteReaders ==
  ASSUME NEW S \in SUBSET Thread
  PROVE  /\ IsFiniteSet(S)
         /\ Cardinality(S) \in Nat
         /\ Cardinality(S) <= Cardinality(Thread)
         /\ Cardinality(S) = 0 <=> S = {}
<1>1. IsFiniteSet(S) /\ Cardinality(S) <= Cardinality(Thread)
  BY ThreadAssumption, FS_Subset
<1>2. QED
  BY <1>1, FS_CardinalityType, FS_EmptySet

\* The readers of the next state, when one thread starts or stops reading.
LEMMA ReadersChange ==
  ASSUME NEW S \in SUBSET Thread, NEW t \in Thread
  PROVE  /\ t \notin S => Cardinality(S \union {t}) = Cardinality(S) + 1
         /\ t \in S => Cardinality(S \ {t}) = Cardinality(S) - 1
BY FiniteReaders, FS_AddElement, FS_RemoveElement

\* The invariant holds at first.
LEMMA InitIInv == LatchInit => IInv
<1> SUFFICES ASSUME LatchInit PROVE IInv
  OBVIOUS
<1>1. Readers = {} /\ Writers = {} /\ OnReader = {} /\ OnWriter = {}
  BY DEF LatchInit, Readers, Writers, OnReader, OnWriter
<1>2. Cardinality(Readers) = 0 /\ Cardinality(Thread) \in Nat
  BY <1>1, FiniteReaders, FS_EmptySet
<1>3. LatchTypeOK
  <2>1. reader_count_ \in 0 .. Cardinality(Thread)
    BY <1>2 DEF LatchInit
  <2>2. writer_entered_ \in BOOLEAN /\ pc \in [Thread -> PCs]
    BY Zenon DEF LatchInit, PCs
  <2>3. QED
    BY <2>1, <2>2 DEF LatchTypeOK
<1>4. QED
  BY <1>1, <1>2, <1>3 DEF LatchInit, IInv, CountsAgree, MutualExclusion, NoLostWakeup

\* RLock.
LEMMA RLockIInv ==
  ASSUME IInv, NEW t \in Thread, RLock(t)
  PROVE  IInv'
<1> USE DEF IInv, LatchTypeOK, PCs
<1>1. Cardinality(Thread) \in Nat
  BY FiniteReaders
<1>2. Readers \in SUBSET Thread /\ t \notin Readers
  BY DEF Readers, RLock
<1>3. CASE writer_entered_ \/ reader_count_ = MAX_READERS
  <2>1. writer_entered_
    BY <1>1, <1>3, MaxReadersAssumption
  <2>2. /\ pc' = [pc EXCEPT ![t] = "rwait"]
        /\ UNCHANGED <<reader_count_, writer_entered_>>
    BY <1>3 DEF RLock
  <2>3. Readers' = Readers /\ Writers' = Writers /\ OnWriter' = OnWriter
    BY <2>2 DEF Readers, Writers, OnWriter, RLock
  <2>4. LatchTypeOK'
    BY <2>2
  <2>5. MutualExclusion'
    BY <2>2 DEF MutualExclusion, RLock
  <2>6. CountsAgree' /\ NoLostWakeup'
    BY <2>1, <2>2, <2>3 DEF CountsAgree, NoLostWakeup
  <2>7. QED
    BY <2>4, <2>5, <2>6
<1>4. CASE ~(writer_entered_ \/ reader_count_ = MAX_READERS)
  <2>1. /\ pc' = [pc EXCEPT ![t] = "reading"]
        /\ reader_count_' = reader_count_ + 1
        /\ UNCHANGED writer_entered_
    BY <1>4 DEF RLock
  <2>2. /\ Readers' = Readers \union {t}
        /\ Writers' = Writers
        /\ OnWriter' = OnWriter
        /\ OnReader' \subseteq OnReader
    BY <2>1 DEF Readers, Writers, OnWriter, OnReader, RLock
  <2>3. Writers = {}
    BY <1>4 DEF CountsAgree
  <2>4. reader_count_' = Cardinality(Readers')
    BY <1>2, <2>1, <2>2, ReadersChange DEF CountsAgree
  <2>5. CountsAgree'
    BY <2>1, <2>2, <2>3, <2>4 DEF CountsAgree
  <2>6. Cardinality(Readers') <= Cardinality(Thread) /\ Cardinality(Readers') \in Nat
    BY <1>2, <2>2, FiniteReaders
  <2>7. LatchTypeOK'
    BY <1>1, <2>1, <2>4, <2>6
  <2>8. MutualExclusion'
    BY <2>1, <2>3 DEF MutualExclusion, Writers, RLock
  <2>9. NoLostWakeup'
    BY <2>2, <2>3 DEF NoLostWakeup, OnWriter, Writers
  <2>10. QED
    BY <2>5, <2>7, <2>8, <2>9
<1>5. QED
  BY <1>3, <1>4

\* WLock, up to setting the flag.
LEMMA WLockIInv ==
  ASSUME IInv, NEW t \in Thread, WLock(t)
  PROVE  IInv'
<1> USE DEF IInv, LatchTypeOK, PCs
<1>1. Readers' = Readers
  BY DEF Readers, WLock
<1>2. reader_count_' = reader_count_
  BY DEF WLock
<1>3. CASE writer_entered_
  <2>1. pc' = [pc EXCEPT ![t] = "wwait"] /\ UNCHANGED writer_entered_
    BY <1>3 DEF WLock
  <2>2. Writers' = Writers /\ OnWriter' = OnWriter
    BY <2>1 DEF Writers, OnWriter, WLock
  <2>3. MutualExclusion'
    BY <2>1 DEF MutualExclusion
  <2>4. QED
    BY <1>1, <1>2, <1>3, <2>1, <2>2, <2>3 DEF CountsAgree, NoLostWakeup
<1>4. CASE ~writer_entered_
  <2>1. /\ pc' = [pc EXCEPT ![t] = IF reader_count_ > 0 THEN "wdrain"
                                   ELSE "writing"]
        /\ writer_entered_' = TRUE
    BY <1>4 DEF WLock
  <2>2. Writers = {}
    BY <1>4 DEF CountsAgree
  <2>3. Writers' = {t}
    BY <2>1, <2>2 DEF Writers
  <2>4. reader_count_ > 0 <=> Readers # {}
    BY FiniteReaders DEF CountsAgree, Readers
  <2>5. CountsAgree' /\ LatchTypeOK'
    BY <1>1, <1>2, <2>1, <2>3 DEF CountsAgree
  <2>6. MutualExclusion'
    BY <2>1, <2>2, <2>4 DEF MutualExclusion, Writers, Readers
  <2>7. OnWriter' # {} => reader_count_ > 0
    BY <2>1, <2>2 DEF OnWriter, Writers
  <2>8. NoLostWakeup'
    BY <1>1, <2>3, <2>4, <2>7 DEF NoLostWakeup
  <2>9. QED
    BY <2>5, <2>6, <2>8
<1>5. QED
  BY <1>3, <1>4

\* WLock, while readers leave.
LEMMA WDrainIInv ==
  ASSUME IInv, NEW t \in Thread, WDrain(t)
  PROVE  IInv'
<1> USE DEF IInv, LatchTypeOK, PCs
<1>1. /\ pc' = [pc EXCEPT ![t] = IF reader_count_ > 0 THEN "wdrain" ELSE "writing"]
      /\ pc[t] = "wdrainwoken"
      /\ UNCHANGED <<writer_entered_, reader_count_>>
  BY DEF WDrain
<1>2. Readers' = Readers /\ Writers' = Writers /\ OnReader' = OnReader
  BY <1>1 DEF Readers, Writers, OnReader
<1>3. reader_count_ > 0 <=> Readers # {}
  BY FiniteReaders DEF CountsAgree, Readers
<1>4. \A u \in Thread : u # t => pc[u] \notin {"wdrain", "writing"}
  BY <1>1 DEF CountsAgree, Writers
<1>5. MutualExclusion'
  BY <1>1, <1>3, <1>4 DEF MutualExclusion, Readers
<1>6. OnWriter' # {} => reader_count_ > 0
  BY <1>1, <1>4 DEF OnWriter
<1>7. QED
  BY <1>1, <1>2, <1>3, <1>5, <1>6 DEF CountsAgree, NoLostWakeup

\* WUnlock.
LEMMA WUnlockIInv ==
  ASSUME IInv, NEW t \in Thread, WUnlock(t)
  PROVE  IInv'
<1> USE DEF IInv, LatchTypeOK, PCs
<1>1. Writers = {t}
  BY DEF CountsAgree, Writers, WUnlock
<1>2. /\ writer_entered_' = FALSE
      /\ reader_count_' = reader_count_
      /\ pc' = [u \in Thread |-> IF u = t THEN "idle"
                                 ELSE IF u \in OnReader THEN Woken(pc[u])
                                 ELSE pc[u]]
  BY DEF WUnlock
<1>3. \A u \in Thread : pc'[u] \in PCs \ {"rwait", "wwait", "wdrain", "wdrainwoken", "writing"}
  BY <1>1, <1>2 DEF OnReader, Woken, Writers
<1>4. \A u \in Thread : pc'[u] = "reading" <=> pc[u] = "reading"
  BY <1>2 DEF OnReader, Woken, WUnlock
<1>5. Readers' = Readers /\ Writers' = {} /\ OnReader' = {} /\ OnWriter' = {}
  BY <1>3, <1>4 DEF Readers, Writers, OnReader, OnWriter
<1>6. MutualExclusion'
  BY <1>3 DEF MutualExclusion
<1>7. LatchTypeOK'
  BY <1>2, <1>3
<1>8. QED
  BY <1>2, <1>5, <1>6, <1>7 DEF CountsAgree, NoLostWakeup

\* RUnlock.
LEMMA RUnlockIInv ==
  ASSUME IInv, NEW t \in Thread, RUnlock(t)
  PROVE  IInv'
<1> USE DEF IInv, LatchTypeOK, PCs
<1>1. pc[t] = "reading" /\ reader_count_' = reader_count_ - 1 /\ UNCHANGED writer_entered_
  BY DEF RUnlock
<1>2. Readers \in SUBSET Thread /\ t \in Readers
  BY <1>1 DEF Readers
<1>3. reader_count_ \in Nat \ {0} /\ reader_count_ <= Cardinality(Thread)
      /\ Cardinality(Thread) \in Nat
  BY <1>2, FiniteReaders DEF CountsAgree
<1>4. reader_count_' # MAX_READERS - 1
  BY <1>1, <1>3, MaxReadersAssumption
<1> DEFINE told == IF writer_entered_ /\ reader_count_' = 0 THEN OnWriter ELSE {}
<1>5. NotifyOneAndLeave(t, told)
  BY <1>4 DEF RUnlock
<1>6. told \subseteq OnWriter /\ OnWriter \subseteq Writers
  BY DEF OnWriter, Writers
<1>7. PICK woken \in SUBSET told :
        /\ pc' = [u \in Thread |-> IF u = t THEN "idle"
                                   ELSE IF u \in woken THEN "wdrainwoken"
                                   ELSE pc[u]]
        /\ told # {} => woken = told
  <2>1. CASE told = {}
    <3>1. pc' = [pc EXCEPT ![t] = "idle"]
      BY <1>5, <2>1 DEF NotifyOneAndLeave
    <3>2. WITNESS {} \in SUBSET told
    <3>3. QED
      BY <2>1, <3>1
  <2>2. CASE told # {}
    <3>1. PICK u \in told : pc' = [pc EXCEPT ![t] = "idle", ![u] = Woken(pc[u])]
      BY <1>5, <2>2 DEF NotifyOneAndLeave
    <3>2. told = {u} /\ u \in Thread /\ u # t /\ Woken(pc[u]) = "wdrainwoken"
      BY <1>1, <1>6 DEF CountsAgree, OnWriter, Woken
    <3>3. WITNESS {u} \in SUBSET told
    <3>4. QED
      BY <3>1, <3>2
  <2>3. QED
    BY <2>1, <2>2
<1>8. /\ Readers' = Readers \ {t}
      /\ Writers' = Writers
      /\ OnReader' = OnReader
      /\ OnWriter' = OnWriter \ woken
  BY <1>1, <1>6, <1>7 DEF Readers, Writers, OnReader, OnWriter
<1>9. reader_count_' = Cardinality(Readers')
  BY <1>1, <1>2, <1>8, ReadersChange DEF CountsAgree
<1>10. CountsAgree'
  BY <1>1, <1>8, <1>9 DEF CountsAgree
<1>11. LatchTypeOK'
  BY <1>1, <1>3, <1>7
<1>12. MutualExclusion'
  BY <1>1, <1>7 DEF MutualExclusion
<1>13. OnReader' # {} => Writers' # {}
  BY <1>8 DEF NoLostWakeup
<1>14. OnWriter' # {} => Readers' # {}
  <2>1. SUFFICES ASSUME OnWriter' # {} PROVE reader_count_' # 0
    BY <1>2, <1>8, <1>9, FiniteReaders
  <2>2. writer_entered_
    BY <1>6, <1>8, <2>1 DEF CountsAgree
  <2>3. QED
    BY <1>7, <1>8, <2>1, <2>2
<1>15. QED
  BY <1>10, <1>11, <1>12, <1>13, <1>14 DEF NoLostWakeup

\* A wait that returns for no reason.
LEMMA SpuriousWakeupIInv ==
  ASSUME IInv, NEW t \in Thread, SpuriousWakeup(t)
  PROVE  IInv'
<1> USE DEF IInv, LatchTypeOK, PCs
<1>1. /\ pc[t] \in {"rwait", "wwait", "wdrain"}
      /\ pc' = [pc EXCEPT ![t] = Woken(pc[t])]
      /\ UNCHANGED <<writer_entered_, reader_count_>>
  BY DEF SpuriousWakeup
<1>2. /\ Readers' = Readers
      /\ Writers' = Writers
      /\ OnReader' \subseteq OnReader
      /\ OnWriter' \subseteq OnWriter
  BY <1>1 DEF Readers, Writers, OnReader, OnWriter, Woken
<1>3. LatchTypeOK' /\ MutualExclusion'
  BY <1>1 DEF MutualExclusion, Woken
<1>4. QED
  BY <1>1, <1>2, <1>3 DEF CountsAgree, NoLostWakeup

\* The inductive invariant: the flag and the count agree with what the
\* threads do, a writer is alone, and no thread sleeps without somebody who
\* will notify it.
THEOREM LatchInvariant == LatchSpec => []IInv
<1>1. LatchInit => IInv
  BY InitIInv
<1>2. IInv /\ [LatchNext]_latchVars => IInv'
  <2>1. SUFFICES ASSUME IInv, [LatchNext]_latchVars PROVE IInv'
    OBVIOUS
  <2>2. CASE UNCHANGED latchVars
    BY <2>1, <2>2 DEF latchVars, IInv, LatchTypeOK, CountsAgree, MutualExclusion,
       NoLostWakeup, Readers, Writers, OnReader, OnWriter
  <2>3. CASE LatchNext
    <3>1. PICK t \in Thread :
            \/ RLock(t) \/ RUnlock(t) \/ WLock(t) \/ WDrain(t) \/ WUnlock(t)
            \/ SpuriousWakeup(t)
      BY <2>3 DEF LatchNext
    <3>2. QED
      BY <2>1, <3>1, RLockIInv, RUnlockIInv, WLockIInv, WDrainIInv, WUnlockIInv,
         SpuriousWakeupIInv
  <2>4. QED
    BY <2>1, <2>2, <2>3
<1>3. QED
  BY <1>1, <1>2, PTL DEF LatchSpec

\* reader_count_ counts the readers and writer_entered_ is set while one writer
\* is inside, whatever RLock, RUnlock, WLock and WUnlock of other threads did
\* while it slept.
THEOREM LatchCountsAgree == LatchSpec => []CountsAgree
<1>1. IInv => CountsAgree
  BY DEF IInv
<1>2. QED
  BY <1>1, LatchInvariant, PTL

\* RLock, WLock and their wake-ups never let a writer share the latch, for
\* any number of threads.
THEOREM LatchMutualExclusion == LatchSpec => []MutualExclusion
<1>1. IInv => MutualExclusion
  BY DEF IInv
<1>2. QED
  BY <1>1, LatchInvariant, PTL

\* RUnlock and WUnlock notify everybody they must, for any number of threads
\* that is less than MAX_READERS.
THEOREM LatchNoLostWakeup == LatchSpec => []NoLostWakeup
<1>1. IInv => NoLostWakeup
  BY DEF IInv
<1>2. QED
  BY <1>1, LatchInvariant, PTL

=============================================================================
