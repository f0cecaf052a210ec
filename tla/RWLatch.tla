------------------------------ MODULE RWLatch ------------------------------
(***************************************************************************)
(* ReaderWriterLatch, the latch every Page carries: a mutex, a count of    *)
(* readers, a flag for the writer and two condition variables.             *)
(*                                                                         *)
(* A thread holds mutex_ from one wait to the next, so the code between    *)
(* two waits is one step.  pc says where a thread is:                      *)
(*   idle        outside the latch                                         *)
(*   rwait       asleep on reader_ in RLock                                *)
(*   wwait       asleep on reader_ in WLock, waiting for another writer    *)
(*   wdrain      asleep on writer_ in WLock, waiting for the readers       *)
(*   rwoken, wwoken, wdrainwoken                                           *)
(*               notified, or woken for no reason; about to test the       *)
(*               condition of its loop again                               *)
(*   reading, writing                                                      *)
(*               holding the latch                                         *)
(***************************************************************************)
EXTENDS Integers, FiniteSets

CONSTANTS
  Thread,
  MAX_READERS   \* UINT_MAX in the code

ASSUME ThreadAssumption == IsFiniteSet(Thread)
ASSUME MaxReadersAssumption ==
  MAX_READERS \in Nat /\ MAX_READERS > Cardinality(Thread)

VARIABLES
  writer_entered_,
  reader_count_,
  pc

latchVars == <<writer_entered_, reader_count_, pc>>

Woken(state) ==
  IF state = "rwait" THEN "rwoken"
  ELSE IF state = "wwait" THEN "wwoken"
  ELSE "wdrainwoken"

OnReader == {t \in Thread : pc[t] \in {"rwait", "wwait"}}
OnWriter == {t \in Thread : pc[t] = "wdrain"}

-----------------------------------------------------------------------------
LatchInit ==
  /\ writer_entered_ = FALSE
  /\ reader_count_ = 0
  /\ pc = [t \in Thread |-> "idle"]

\* Faulty variant: a reader does not wait for a writer that drains readers.
RLockPastDrain(t) ==
  /\ pc[t] \in {"idle", "rwoken"}
  /\ IF (writer_entered_ /\ OnWriter = {}) \/ reader_count_ = MAX_READERS
     THEN /\ pc' = [pc EXCEPT ![t] = "rwait"]
          /\ UNCHANGED reader_count_
     ELSE /\ pc' = [pc EXCEPT ![t] = "reading"]
          /\ reader_count_' = reader_count_ + 1
  /\ UNCHANGED writer_entered_

RLock(t) ==
  /\ pc[t] \in {"idle", "rwoken"}
  /\ IF writer_entered_ \/ reader_count_ = MAX_READERS
     THEN /\ pc' = [pc EXCEPT ![t] = "rwait"]
          /\ UNCHANGED reader_count_
     ELSE /\ pc' = [pc EXCEPT ![t] = "reading"]
          /\ reader_count_' = reader_count_ + 1
  /\ UNCHANGED writer_entered_

\* Faulty variant: the readers are not waited for.
WLockNoDrain(t) ==
  /\ pc[t] \in {"idle", "wwoken"}
  /\ IF writer_entered_
     THEN /\ pc' = [pc EXCEPT ![t] = "wwait"]
          /\ UNCHANGED writer_entered_
     ELSE /\ pc' = [pc EXCEPT ![t] = "writing"]
          /\ writer_entered_' = TRUE
  /\ UNCHANGED reader_count_

WLock(t) ==
  /\ pc[t] \in {"idle", "wwoken"}
  /\ IF writer_entered_
     THEN /\ pc' = [pc EXCEPT ![t] = "wwait"]
          /\ UNCHANGED writer_entered_
     ELSE /\ pc' = [pc EXCEPT ![t] = IF reader_count_ > 0 THEN "wdrain"
                                     ELSE "writing"]
          /\ writer_entered_' = TRUE
  /\ UNCHANGED reader_count_

\* The second loop of WLock, after a wake-up.
WDrain(t) ==
  /\ pc[t] = "wdrainwoken"
  /\ pc' = [pc EXCEPT ![t] = IF reader_count_ > 0 THEN "wdrain" ELSE "writing"]
  /\ UNCHANGED <<writer_entered_, reader_count_>>

\* Faulty variant: one thread is notified where all must be.
WUnlockNotifyOne(t) ==
  /\ pc[t] = "writing"
  /\ writer_entered_' = FALSE
  /\ \/ /\ OnReader = {}
        /\ pc' = [pc EXCEPT ![t] = "idle"]
     \/ \E u \in OnReader :
          pc' = [pc EXCEPT ![t] = "idle", ![u] = Woken(pc[u])]
  /\ UNCHANGED reader_count_

\* Faulty variant: the flag is left set.
WUnlockUncleared(t) ==
  /\ pc[t] = "writing"
  /\ pc' = [u \in Thread |-> IF u = t THEN "idle"
                             ELSE IF u \in OnReader THEN Woken(pc[u])
                             ELSE pc[u]]
  /\ UNCHANGED <<writer_entered_, reader_count_>>

WUnlock(t) ==
  /\ pc[t] = "writing"
  /\ writer_entered_' = FALSE
  /\ pc' = [u \in Thread |-> IF u = t THEN "idle"
                             ELSE IF u \in OnReader THEN Woken(pc[u])
                             ELSE pc[u]]
  /\ UNCHANGED reader_count_

\* notify_one on the threads of S, by thread t which then leaves the latch.
NotifyOneAndLeave(t, S) ==
  \/ /\ S = {}
     /\ pc' = [pc EXCEPT ![t] = "idle"]
  \/ \E u \in S : pc' = [pc EXCEPT ![t] = "idle", ![u] = Woken(pc[u])]

\* Faulty variant: the last reader tells nobody.
RUnlockSilent(t) ==
  /\ pc[t] = "reading"
  /\ reader_count_' = reader_count_ - 1
  /\ pc' = [pc EXCEPT ![t] = "idle"]
  /\ UNCHANGED writer_entered_

RUnlock(t) ==
  /\ pc[t] = "reading"
  /\ reader_count_' = reader_count_ - 1
  /\ LET told == IF writer_entered_
                 THEN IF reader_count_' = 0 THEN OnWriter ELSE {}
                 ELSE IF reader_count_' = MAX_READERS - 1 THEN OnReader ELSE {}
     IN  NotifyOneAndLeave(t, told)
  /\ UNCHANGED writer_entered_

\* A wait may return without a notification.
SpuriousWakeup(t) ==
  /\ pc[t] \in {"rwait", "wwait", "wdrain"}
  /\ pc' = [pc EXCEPT ![t] = Woken(pc[t])]
  /\ UNCHANGED <<writer_entered_, reader_count_>>

LatchNext ==
  \E t \in Thread :
    \/ RLock(t) \/ RUnlock(t)
    \/ WLock(t) \/ WDrain(t) \/ WUnlock(t)
    \/ SpuriousWakeup(t)

LatchSpec == LatchInit /\ [][LatchNext]_latchVars

\* A thread that is awake inside the latch runs, and a holder lets go.  A
\* thread outside need not ask for the latch, and nothing is assumed of
\* spurious wake-ups.
LatchFairness ==
  \A t \in Thread :
    /\ WF_latchVars(pc[t] # "idle" /\ RLock(t))
    /\ WF_latchVars(pc[t] # "idle" /\ WLock(t))
    /\ WF_latchVars(WDrain(t))
    /\ WF_latchVars(RUnlock(t))
    /\ WF_latchVars(WUnlock(t))

LatchFairSpec == LatchSpec /\ LatchFairness

-----------------------------------------------------------------------------
PCs == {"idle", "rwait", "wwait", "wdrain", "rwoken", "wwoken", "wdrainwoken",
        "reading", "writing"}

LatchTypeOK ==
  /\ writer_entered_ \in BOOLEAN
  /\ reader_count_ \in 0 .. Cardinality(Thread)
  /\ pc \in [Thread -> PCs]

Readers == {t \in Thread : pc[t] = "reading"}
Writers == {t \in Thread : pc[t] \in {"wdrain", "wdrainwoken", "writing"}}

\* A writer holds the latch alone.
MutualExclusion ==
  \A t, u \in Thread :
    (t # u /\ pc[t] = "writing") => pc[u] \notin {"reading", "writing"}

\* No wake-up is lost: a thread asleep on reader_ waits for a writer that is
\* still inside, and a writer asleep on writer_ for readers that are.
NoLostWakeup ==
  /\ OnReader # {} => Writers # {}
  /\ OnWriter # {} => Readers # {}

\* The flag and the count say what the threads do; together with the two
\* invariants above this is inductive.
CountsAgree ==
  /\ reader_count_ = Cardinality(Readers)
  /\ writer_entered_ <=> Writers # {}
  /\ \A t, u \in Writers : t = u

IInv == LatchTypeOK /\ CountsAgree /\ MutualExclusion /\ NoLostWakeup

\* A writer that has entered gets the latch, whatever readers ask for it.
WriterDrains ==
  \A t \in Thread : pc[t] = "wdrain" ~> pc[t] = "writing"

\* Whoever falls asleep in the latch is woken: the writer or the readers it
\* waits for notify it when they leave.
SleepersAreWoken ==
  \A t \in Thread :
    pc[t] \in {"rwait", "wwait", "wdrain"}
      ~> pc[t] \notin {"rwait", "wwait", "wdrain"}

=============================================================================
