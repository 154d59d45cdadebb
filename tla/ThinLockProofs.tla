---------------------------- MODULE ThinLockProofs ----------------------------
(***************************************************************************)
(* Proofs about ThinLock, for every finite set of threads.                 *)
(*                                                                         *)
(* IInv holds initially and survives every action: one lemma per action,   *)
(* one step per part.  The safety properties and the refinement follow.    *)
(***************************************************************************)
EXTENDS ThinLock, FiniteSetTheorems, TLAPS

(* Sleepers can be counted.                                                *)
LEMMA SleepersFinite ==
  ASSUME TypeOK PROVE IsFiniteSet(asleep) /\ Cardinality(asleep) \in Nat
BY ThreadAssumption, FS_Subset, FS_CardinalityType DEF TypeOK

(* While anybody sleeps, susp is positive.                                 *)
LEMMA SleeperIsCounted ==
  ASSUME TypeOK, SleepersCounted, asleep # {} PROVE susp >= 1
<1>1. Cardinality(asleep) # 0
  BY SleepersFinite, FS_EmptySet
<1> QED
  BY <1>1, SleepersFinite DEF SleepersCounted, TypeOK

(* One sleeper more, counted.                                              *)
LEMMA SleeperMore ==
  ASSUME TypeOK, NEW t \in Thread \ asleep
  PROVE  Cardinality(asleep \cup {t}) = Cardinality(asleep) + 1
BY SleepersFinite, FS_AddElement

(* One sleeper less, counted.                                              *)
LEMMA SleeperLess ==
  ASSUME TypeOK, NEW t \in asleep
  PROVE  Cardinality(asleep \ {t}) = Cardinality(asleep) - 1
BY SleepersFinite, FS_RemoveElement

(* The lock starts free, with nobody near it.                              *)
LEMMA InitIInv == ASSUME Init PROVE IInv
<1>1. TypeOK
  <2>1. pc \in [Thread -> Pcs] /\ taken \in [Thread -> {"null", "lock"}]
    BY DEF Init, Pcs
  <2>2. me \in [Thread -> BOOLEAN] /\ spurious \in 0..MaxSpurious
    BY SpuriousAssumption DEF Init
  <2>3. owner \in Thread \cup {NoThread} /\ waitBit \in BOOLEAN
    BY DEF Init
  <2>4. fat \in {"null", "busy", "lock"} /\ susp \in Int
    BY DEF Init
  <2>5. asleep \subseteq Thread /\ passed \subseteq Thread
    BY DEF Init
  <2> QED
    BY <2>1, <2>2, <2>3, <2>4, <2>5 DEF TypeOK
<1>2. OwnerPart /\ SleepPart /\ MarkPart /\ BitPart
  BY ThreadAssumption DEF Init, OwnerPart, SleepPart, MarkPart, BitPart, Giving, Going
<1>3. SleepersCounted /\ WakeupOwed
  BY DEF Init, SleepersCounted, WakeupOwed
<1> QED
  BY <1>1, <1>2, <1>3 DEF IInv

(***************************************************************************)
(* Every action preserves IInv.                                            *)
(***************************************************************************)
(* js_Lock takes a free lock.                                               *)
LEMMA LockFastIInv ==
  ASSUME IInv, NEW t \in Thread, LockFast(t) PROVE IInv'
<1> USE ThreadAssumption DEF IInv
<1>1. TypeOK'
  BY SpuriousAssumption DEF TypeOK, Pcs, Unlocking, Swaps, LockFast, GoTo, Giving, Going, word, fatLock
<1>2. OwnerPart' /\ SleepPart'
  BY DEF TypeOK, OwnerPart, SleepPart, LockFast, GoTo, Giving, Going, word, fatLock
<1>3. MarkPart'
  BY DEF TypeOK, OwnerPart, SleepPart, MarkPart, LockFast, GoTo, Giving, Going, word, fatLock
<1>4. BitPart'
  BY DEF TypeOK, OwnerPart, SleepPart, BitPart, LockFast, GoTo, Giving, Going, word, fatLock
<1>5. SleepersCounted'
  BY DEF TypeOK, MarkPart, SleepPart, SleepersCounted, LockFast, GoTo, Giving, Going, word, fatLock
<1>6. WakeupOwed'
  BY DEF TypeOK, OwnerPart, SleepPart, BitPart, MarkPart, SleepersCounted, WakeupOwed, Minds, Unlocking, LockFast, GoTo, Giving, Going, word, fatLock
<1> QED
  BY <1>1, <1>2, <1>3, <1>4, <1>5, <1>6

(* js_Lock finds the lock taken.                                            *)
LEMMA LockSlowIInv ==
  ASSUME IInv, NEW t \in Thread, LockSlow(t) PROVE IInv'
<1> USE ThreadAssumption DEF IInv
<1>1. TypeOK'
  BY SpuriousAssumption DEF TypeOK, Pcs, Unlocking, Swaps, LockSlow, GoTo, Giving, Going, word, fatLock
<1>2. OwnerPart' /\ SleepPart'
  BY DEF TypeOK, OwnerPart, SleepPart, LockSlow, GoTo, Giving, Going, word, fatLock
<1>3. MarkPart'
  BY DEF TypeOK, OwnerPart, SleepPart, MarkPart, LockSlow, GoTo, Giving, Going, word, fatLock
<1>4. BitPart'
  BY DEF TypeOK, OwnerPart, SleepPart, BitPart, LockSlow, GoTo, Giving, Going, word, fatLock
<1>5. SleepersCounted'
  BY DEF TypeOK, MarkPart, SleepPart, SleepersCounted, LockSlow, GoTo, Giving, Going, word, fatLock
<1>6. WakeupOwed'
  BY DEF TypeOK, OwnerPart, SleepPart, BitPart, MarkPart, SleepersCounted, WakeupOwed, Minds, Unlocking, LockSlow, GoTo, Giving, Going, word, fatLock
<1> QED
  BY <1>1, <1>2, <1>3, <1>4, <1>5, <1>6

(* js_Enqueue sets the wait bit.                                            *)
LEMMA EnqueueMarkIInv ==
  ASSUME IInv, NEW t \in Thread, EnqueueMark(t) PROVE IInv'
<1> USE ThreadAssumption DEF IInv
<1>1. TypeOK'
  BY SpuriousAssumption DEF TypeOK, Pcs, Unlocking, Swaps, EnqueueMark, GoTo, Giving, Going, word, fatLock
<1>2. OwnerPart' /\ SleepPart'
  BY DEF TypeOK, OwnerPart, SleepPart, EnqueueMark, GoTo, Giving, Going, word, fatLock
<1>3. MarkPart'
  BY DEF TypeOK, OwnerPart, SleepPart, MarkPart, EnqueueMark, GoTo, Giving, Going, word, fatLock
<1>4. BitPart'
  BY DEF TypeOK, OwnerPart, SleepPart, BitPart, EnqueueMark, GoTo, Giving, Going, word, fatLock
<1>5. SleepersCounted'
  BY DEF TypeOK, MarkPart, SleepPart, SleepersCounted, EnqueueMark, GoTo, Giving, Going, word, fatLock
<1>6. WakeupOwed'
  BY DEF TypeOK, OwnerPart, SleepPart, BitPart, MarkPart, SleepersCounted, WakeupOwed, Minds, Unlocking, EnqueueMark, GoTo, Giving, Going, word, fatLock
<1> QED
  BY <1>1, <1>2, <1>3, <1>4, <1>5, <1>6

(* js_Enqueue takes the free lock.                                          *)
LEMMA EnqueueTakeIInv ==
  ASSUME IInv, NEW t \in Thread, EnqueueTake(t) PROVE IInv'
<1> USE ThreadAssumption DEF IInv
<1>1. TypeOK'
  BY SpuriousAssumption DEF TypeOK, Pcs, Unlocking, Swaps, EnqueueTake, GoTo, Giving, Going, word, fatLock
<1>2. OwnerPart' /\ SleepPart'
  BY DEF TypeOK, OwnerPart, SleepPart, EnqueueTake, GoTo, Giving, Going, word, fatLock
<1>3. MarkPart'
  BY DEF TypeOK, OwnerPart, SleepPart, MarkPart, EnqueueTake, GoTo, Giving, Going, word, fatLock
<1>4. BitPart'
  BY DEF TypeOK, OwnerPart, SleepPart, BitPart, EnqueueTake, GoTo, Giving, Going, word, fatLock
<1>5. SleepersCounted'
  BY DEF TypeOK, MarkPart, SleepPart, SleepersCounted, EnqueueTake, GoTo, Giving, Going, word, fatLock
<1>6. WakeupOwed'
  BY DEF TypeOK, OwnerPart, SleepPart, BitPart, MarkPart, SleepersCounted, WakeupOwed, Minds, Unlocking, EnqueueTake, GoTo, Giving, Going, word, fatLock
<1> QED
  BY <1>1, <1>2, <1>3, <1>4, <1>5, <1>6

(* The busy mark is swapped in.                                             *)
LEMMA SwapIInv ==
  ASSUME IInv, NEW t \in Thread, Swap(t) PROVE IInv'
<1> USE ThreadAssumption DEF IInv
<1>1. TypeOK'
  BY SpuriousAssumption DEF TypeOK, Pcs, Unlocking, Swaps, Swap, GoTo, Giving, Going, word, fatLock
<1>2. OwnerPart' /\ SleepPart'
  BY DEF TypeOK, OwnerPart, SleepPart, Swap, GoTo, Giving, Going, word, fatLock, Swaps
<1>3. MarkPart'
  BY DEF TypeOK, OwnerPart, SleepPart, MarkPart, Swap, GoTo, Giving, Going, word, fatLock, Swaps
<1>4. BitPart'
  BY DEF TypeOK, OwnerPart, SleepPart, BitPart, Swap, GoTo, Giving, Going, word, fatLock, Swaps
<1>5. SleepersCounted'
  BY DEF TypeOK, MarkPart, SleepPart, SleepersCounted, Swap, GoTo, Giving, Going, word, fatLock, Swaps
<1>6. WakeupOwed'
  BY DEF TypeOK, OwnerPart, SleepPart, BitPart, MarkPart, SleepersCounted, WakeupOwed, Minds, Unlocking, Swap, GoTo, Giving, Going, word, fatLock, Swaps
<1> QED
  BY <1>1, <1>2, <1>3, <1>4, <1>5, <1>6

(* js_Enqueue gives p->fat back.                                            *)
LEMMA FatStoreIInv ==
  ASSUME IInv, NEW t \in Thread, FatStore(t) PROVE IInv'
<1> USE ThreadAssumption DEF IInv
<1>1. TypeOK'
  BY SpuriousAssumption DEF TypeOK, Pcs, Unlocking, Swaps, FatStore, GoTo, Giving, Going, word, fatLock
<1>2. OwnerPart' /\ SleepPart'
  BY DEF TypeOK, OwnerPart, SleepPart, FatStore, GoTo, Giving, Going, word, fatLock
<1>3. MarkPart'
  BY DEF TypeOK, OwnerPart, SleepPart, MarkPart, FatStore, GoTo, Giving, Going, word, fatLock
<1>4. BitPart'
  BY DEF TypeOK, OwnerPart, SleepPart, BitPart, FatStore, GoTo, Giving, Going, word, fatLock
<1>5. SleepersCounted'
  BY DEF TypeOK, MarkPart, SleepPart, SleepersCounted, FatStore, GoTo, Giving, Going, word, fatLock
<1>6. WakeupOwed'
  BY DEF TypeOK, OwnerPart, SleepPart, BitPart, MarkPart, SleepersCounted, WakeupOwed, Minds, Unlocking, FatStore, GoTo, Giving, Going, word, fatLock
<1> QED
  BY <1>1, <1>2, <1>3, <1>4, <1>5, <1>6

(* js_SuspendThread finds no fat lock.                                      *)
LEMMA SuspendNoneIInv ==
  ASSUME IInv, NEW t \in Thread, SuspendNone(t) PROVE IInv'
<1> USE ThreadAssumption DEF IInv
<1>1. TypeOK'
  BY SpuriousAssumption DEF TypeOK, Pcs, Unlocking, Swaps, SuspendNone, GoTo, Giving, Going, word, fatLock
<1>2. OwnerPart' /\ SleepPart'
  BY DEF TypeOK, OwnerPart, SleepPart, SuspendNone, GoTo, Giving, Going, word, fatLock
<1>3. MarkPart'
  BY DEF TypeOK, OwnerPart, SleepPart, MarkPart, SuspendNone, GoTo, Giving, Going, word, fatLock
<1>4. BitPart'
  BY DEF TypeOK, OwnerPart, SleepPart, BitPart, SuspendNone, GoTo, Giving, Going, word, fatLock
<1>5. SleepersCounted'
  BY DEF TypeOK, MarkPart, SleepPart, SleepersCounted, SuspendNone, GoTo, Giving, Going, word, fatLock
<1>6. WakeupOwed'
  BY DEF TypeOK, OwnerPart, SleepPart, BitPart, MarkPart, SleepersCounted, WakeupOwed, Minds, Unlocking, SuspendNone, GoTo, Giving, Going, word, fatLock
<1> QED
  BY <1>1, <1>2, <1>3, <1>4, <1>5, <1>6

(* js_SuspendThread counts the thread, which sleeps or goes on.             *)
LEMMA SuspendIInv ==
  ASSUME IInv, NEW t \in Thread, Suspend(t) PROVE IInv'
<1> USE ThreadAssumption DEF IInv
<1>1. TypeOK'
  BY SpuriousAssumption DEF TypeOK, Pcs, Unlocking, Swaps, Suspend, GoTo, Giving, Going, word, fatLock
<1>2. OwnerPart' /\ SleepPart'
  BY DEF TypeOK, OwnerPart, SleepPart, Suspend, GoTo, Giving, Going, word, fatLock
<1>3. MarkPart'
  BY DEF TypeOK, OwnerPart, SleepPart, MarkPart, Suspend, GoTo, Giving, Going, word, fatLock
<1>4. BitPart'
  BY DEF TypeOK, OwnerPart, SleepPart, BitPart, Suspend, GoTo, Giving, Going, word, fatLock
<1>5. SleepersCounted'
  <2>1. CASE susp + 1 < 1
    BY <2>1, SleeperIsCounted DEF TypeOK, SleepersCounted, Suspend
  <2>2. CASE ~(susp + 1 < 1)
    <3>1. t \notin asleep
      BY DEF SleepPart, Suspend
    <3>2. asleep' = asleep \cup {t} /\ susp' = susp + 1 /\ fat' = "lock"
      BY <2>2 DEF Suspend
    <3>3. Cardinality(asleep') = Cardinality(asleep) + 1
      BY <3>1, <3>2, SleeperMore
    <3>4. Cardinality(asleep) <= susp
      <4>1. CASE asleep = {}
        BY <2>2, <4>1, FS_EmptySet DEF TypeOK
      <4>2. CASE asleep # {}
        BY <4>2 DEF SleepersCounted
      <4> QED
        BY <4>1, <4>2
    <3> QED
      BY <3>2, <3>3, <3>4, SleepersFinite DEF SleepersCounted, TypeOK
  <2> QED
    BY <2>1, <2>2
<1>6. WakeupOwed'
  BY DEF TypeOK, OwnerPart, SleepPart, BitPart, MarkPart, SleepersCounted, WakeupOwed, Minds, Unlocking, Suspend, GoTo, Giving, Going, word, fatLock
<1> QED
  BY <1>1, <1>2, <1>3, <1>4, <1>5, <1>6

(* A notified thread goes on.                                               *)
LEMMA WakeIInv ==
  ASSUME IInv, NEW t \in Thread, Wake(t) PROVE IInv'
<1> USE ThreadAssumption DEF IInv
<1>1. TypeOK'
  BY SpuriousAssumption DEF TypeOK, Pcs, Unlocking, Swaps, Wake, GoTo, Giving, Going, word, fatLock
<1>2. OwnerPart' /\ SleepPart'
  BY DEF TypeOK, OwnerPart, SleepPart, Wake, GoTo, Giving, Going, word, fatLock
<1>3. MarkPart'
  BY DEF TypeOK, OwnerPart, SleepPart, MarkPart, Wake, GoTo, Giving, Going, word, fatLock
<1>4. BitPart'
  BY DEF TypeOK, OwnerPart, SleepPart, BitPart, Wake, GoTo, Giving, Going, word, fatLock
<1>5. SleepersCounted'
  BY DEF TypeOK, MarkPart, SleepPart, SleepersCounted, Wake, GoTo, Giving, Going, word, fatLock
<1>6. WakeupOwed'
  BY DEF TypeOK, OwnerPart, SleepPart, BitPart, MarkPart, SleepersCounted, WakeupOwed, Minds, Unlocking, Wake, GoTo, Giving, Going, word, fatLock
<1> QED
  BY <1>1, <1>2, <1>3, <1>4, <1>5, <1>6

(* A wait ends by itself.                                                   *)
LEMMA WakeSpuriousIInv ==
  ASSUME IInv, NEW t \in Thread, WakeSpurious(t) PROVE IInv'
<1> USE ThreadAssumption DEF IInv
<1>1. TypeOK'
  BY SpuriousAssumption DEF TypeOK, Pcs, Unlocking, Swaps, WakeSpurious, GoTo, Giving, Going, word, fatLock
<1>2. OwnerPart' /\ SleepPart'
  BY DEF TypeOK, OwnerPart, SleepPart, WakeSpurious, GoTo, Giving, Going, word, fatLock
<1>3. MarkPart'
  BY DEF TypeOK, OwnerPart, SleepPart, MarkPart, WakeSpurious, GoTo, Giving, Going, word, fatLock
<1>4. BitPart'
  BY DEF TypeOK, OwnerPart, SleepPart, BitPart, WakeSpurious, GoTo, Giving, Going, word, fatLock
<1>5. SleepersCounted'
  <2>1. t \in asleep /\ asleep' = asleep \ {t}
    BY DEF WakeSpurious
  <2>2. Cardinality(asleep') = Cardinality(asleep) - 1
    BY <2>1, SleeperLess
  <2> QED
    BY <2>1, <2>2, SleepersFinite DEF TypeOK, SleepersCounted, WakeSpurious
<1>6. WakeupOwed'
  BY DEF TypeOK, OwnerPart, SleepPart, BitPart, MarkPart, SleepersCounted, WakeupOwed, Minds, Unlocking, WakeSpurious, GoTo, Giving, Going, word, fatLock
<1> QED
  BY <1>1, <1>2, <1>3, <1>4, <1>5, <1>6

(* emptyFatlock finds no fat lock.                                          *)
LEMMA EmptyNoneIInv ==
  ASSUME IInv, NEW t \in Thread, EmptyNone(t) PROVE IInv'
<1> USE ThreadAssumption DEF IInv
<1>1. TypeOK'
  BY SpuriousAssumption DEF TypeOK, Pcs, Unlocking, Swaps, EmptyNone, GoTo, Giving, Going, word, fatLock
<1>2. OwnerPart' /\ SleepPart'
  BY DEF TypeOK, OwnerPart, SleepPart, EmptyNone, GoTo, Giving, Going, word, fatLock
<1>3. MarkPart'
  BY DEF TypeOK, OwnerPart, SleepPart, MarkPart, EmptyNone, GoTo, Giving, Going, word, fatLock
<1>4. BitPart'
  BY DEF TypeOK, OwnerPart, SleepPart, BitPart, EmptyNone, GoTo, Giving, Going, word, fatLock
<1>5. SleepersCounted'
  BY DEF TypeOK, MarkPart, SleepPart, SleepersCounted, EmptyNone, GoTo, Giving, Going, word, fatLock
<1>6. WakeupOwed'
  BY DEF TypeOK, OwnerPart, SleepPart, BitPart, MarkPart, SleepersCounted, WakeupOwed, Minds, Unlocking, EmptyNone, GoTo, Giving, Going, word, fatLock
<1> QED
  BY <1>1, <1>2, <1>3, <1>4, <1>5, <1>6

(* emptyFatlock keeps the fat lock, or lets it go.                          *)
LEMMA EmptyFatlockIInv ==
  ASSUME IInv, NEW t \in Thread, EmptyFatlock(t) PROVE IInv'
<1> USE ThreadAssumption DEF IInv
<1>1. TypeOK'
  BY SpuriousAssumption DEF TypeOK, Pcs, Unlocking, Swaps, EmptyFatlock, GoTo, Giving, Going, word, fatLock
<1>2. OwnerPart' /\ SleepPart'
  BY DEF TypeOK, OwnerPart, SleepPart, EmptyFatlock, GoTo, Giving, Going, word, fatLock
<1>3. MarkPart'
  BY DEF TypeOK, OwnerPart, SleepPart, MarkPart, EmptyFatlock, GoTo, Giving, Going, word, fatLock
<1>4. BitPart'
  BY DEF TypeOK, OwnerPart, SleepPart, BitPart, EmptyFatlock, GoTo, Giving, Going, word, fatLock
<1>5. SleepersCounted'
  <2>1. asleep # {} => susp >= 1
    BY SleeperIsCounted
  <2> QED
    BY <2>1 DEF TypeOK, SleepersCounted, EmptyFatlock
<1>6. WakeupOwed'
  <2>1. asleep # {} => susp >= 1
    BY SleeperIsCounted
  <2> QED
    BY <2>1 DEF TypeOK, SleepPart, WakeupOwed, Minds, Unlocking, Going,
      EmptyFatlock, GoTo, word, fatLock
<1> QED
  BY <1>1, <1>2, <1>3, <1>4, <1>5, <1>6

(* js_Unlock without a wait bit.                                            *)
LEMMA UnlockFastIInv ==
  ASSUME IInv, NEW t \in Thread, UnlockFast(t) PROVE IInv'
<1> USE ThreadAssumption DEF IInv
<1>1. TypeOK'
  BY SpuriousAssumption DEF TypeOK, Pcs, Unlocking, Swaps, UnlockFast, GoTo, Giving, Going, word, fatLock
<1>2. OwnerPart' /\ SleepPart'
  BY DEF TypeOK, OwnerPart, SleepPart, UnlockFast, GoTo, Giving, Going, word, fatLock
<1>3. MarkPart'
  BY DEF TypeOK, OwnerPart, SleepPart, MarkPart, UnlockFast, GoTo, Giving, Going, word, fatLock
<1>4. BitPart'
  BY DEF TypeOK, OwnerPart, SleepPart, BitPart, UnlockFast, GoTo, Giving, Going, word, fatLock
<1>5. SleepersCounted'
  BY DEF TypeOK, MarkPart, SleepPart, SleepersCounted, UnlockFast, GoTo, Giving, Going, word, fatLock
<1>6. WakeupOwed'
  BY DEF TypeOK, OwnerPart, SleepPart, BitPart, MarkPart, SleepersCounted, WakeupOwed, Minds, Unlocking, UnlockFast, GoTo, Giving, Going, word, fatLock
<1> QED
  BY <1>1, <1>2, <1>3, <1>4, <1>5, <1>6

(* js_Dequeue releases the lock.                                            *)
LEMMA DequeueIInv ==
  ASSUME IInv, NEW t \in Thread, Dequeue(t) PROVE IInv'
<1> USE ThreadAssumption DEF IInv
<1>1. TypeOK'
  BY SpuriousAssumption DEF TypeOK, Pcs, Unlocking, Swaps, Dequeue, GoTo, Giving, Going, word, fatLock
<1>2. OwnerPart' /\ SleepPart'
  BY DEF TypeOK, OwnerPart, SleepPart, Dequeue, GoTo, Giving, Going, word, fatLock
<1>3. MarkPart'
  BY DEF TypeOK, OwnerPart, SleepPart, MarkPart, Dequeue, GoTo, Giving, Going, word, fatLock
<1>4. BitPart'
  BY DEF TypeOK, OwnerPart, SleepPart, BitPart, Dequeue, GoTo, Giving, Going, word, fatLock
<1>5. SleepersCounted'
  BY DEF TypeOK, MarkPart, SleepPart, SleepersCounted, Dequeue, GoTo, Giving, Going, word, fatLock
<1>6. WakeupOwed'
  BY DEF TypeOK, OwnerPart, SleepPart, BitPart, MarkPart, SleepersCounted, WakeupOwed, Minds, Unlocking, Dequeue, GoTo, Giving, Going, word, fatLock
<1> QED
  BY <1>1, <1>2, <1>3, <1>4, <1>5, <1>6

(* js_ResumeThread finds no fat lock.                                       *)
LEMMA ResumeNoneIInv ==
  ASSUME IInv, NEW t \in Thread, ResumeNone(t) PROVE IInv'
<1> USE ThreadAssumption DEF IInv
<1>1. TypeOK'
  BY SpuriousAssumption DEF TypeOK, Pcs, Unlocking, Swaps, ResumeNone, GoTo, Giving, Going, word, fatLock
<1>2. OwnerPart' /\ SleepPart'
  BY DEF TypeOK, OwnerPart, SleepPart, ResumeNone, GoTo, Giving, Going, word, fatLock
<1>3. MarkPart'
  BY DEF TypeOK, OwnerPart, SleepPart, MarkPart, ResumeNone, GoTo, Giving, Going, word, fatLock
<1>4. BitPart'
  BY DEF TypeOK, OwnerPart, SleepPart, BitPart, ResumeNone, GoTo, Giving, Going, word, fatLock
<1>5. SleepersCounted'
  BY DEF TypeOK, MarkPart, SleepPart, SleepersCounted, ResumeNone, GoTo, Giving, Going, word, fatLock
<1>6. WakeupOwed'
  BY DEF TypeOK, OwnerPart, SleepPart, BitPart, MarkPart, SleepersCounted, WakeupOwed, Minds, Unlocking, ResumeNone, GoTo, Giving, Going, word, fatLock
<1> QED
  BY <1>1, <1>2, <1>3, <1>4, <1>5, <1>6

(* js_ResumeThread takes one off the count and notifies.                    *)
LEMMA ResumeIInv ==
  ASSUME IInv, NEW t \in Thread, Resume(t) PROVE IInv'
<1> USE ThreadAssumption DEF IInv
<1>1. TypeOK'
  BY SpuriousAssumption DEF TypeOK, Pcs, Unlocking, Swaps, Resume, GoTo, Giving, Going, word, fatLock
<1>2. OwnerPart' /\ SleepPart'
  BY DEF TypeOK, OwnerPart, SleepPart, Resume, GoTo, Giving, Going, word, fatLock
<1>3. MarkPart'
  BY DEF TypeOK, OwnerPart, SleepPart, MarkPart, Resume, GoTo, Giving, Going, word, fatLock
<1>4. BitPart'
  BY DEF TypeOK, OwnerPart, SleepPart, BitPart, Resume, GoTo, Giving, Going, word, fatLock
<1>5. SleepersCounted'
  <2>1. CASE asleep = {}
    BY <2>1 DEF SleepersCounted, Resume
  <2>2. CASE asleep # {}
    <3>1. susp >= 1
      BY <2>2, SleeperIsCounted
    <3>2. PICK u \in asleep : asleep' = asleep \ {u}
      BY <2>2, <3>1 DEF Resume, TypeOK
    <3>3. Cardinality(asleep') = Cardinality(asleep) - 1
      BY <3>2, SleeperLess
    <3> QED
      BY <2>2, <3>3, SleepersFinite DEF TypeOK, SleepersCounted, Resume
  <2> QED
    BY <2>1, <2>2
<1>6. WakeupOwed'
  <2>1. CASE asleep = {}
    BY <2>1 DEF WakeupOwed, Resume
  <2>2. CASE asleep # {}
    <3>1. susp >= 1
      BY <2>2, SleeperIsCounted
    <3>2. PICK u \in asleep : asleep' = asleep \ {u}
      BY <2>2, <3>1 DEF Resume, TypeOK
    <3>3. u \in Thread /\ u # t /\ pc'[u] = "asleep" /\ u \notin asleep'
      BY <3>2 DEF TypeOK, SleepPart, Resume, GoTo
    <3> QED
      BY <3>3 DEF WakeupOwed, Minds
  <2> QED
    BY <2>1, <2>2
<1> QED
  BY <1>1, <1>2, <1>3, <1>4, <1>5, <1>6

(* A step that changes nothing.                                            *)
LEMMA StutterIInv == ASSUME IInv, UNCHANGED vars PROVE IInv'
BY DEF IInv, vars, TypeOK, OwnerPart, SleepPart, MarkPart, BitPart, SleepersCounted,
       WakeupOwed, Minds

(* IInv is an invariant of the thin lock.                                  *)
THEOREM IInvAlways == Spec => []IInv
<1>1. ASSUME IInv, [Next]_vars PROVE IInv'
  <2>1. CASE UNCHANGED vars
    BY <1>1, <2>1, StutterIInv
  <2>2. ASSUME NEW t \in Thread,
               \/ LockFast(t) \/ LockSlow(t) \/ EnqueueMark(t) \/ EnqueueTake(t)
               \/ Swap(t) \/ FatStore(t)
               \/ SuspendNone(t) \/ Suspend(t) \/ Wake(t) \/ WakeSpurious(t)
               \/ EmptyNone(t) \/ EmptyFatlock(t)
               \/ UnlockFast(t) \/ Dequeue(t) \/ ResumeNone(t) \/ Resume(t)
        PROVE  IInv'
    BY <1>1, <2>2, LockFastIInv, LockSlowIInv, EnqueueMarkIInv, EnqueueTakeIInv, SwapIInv,
       FatStoreIInv, SuspendNoneIInv, SuspendIInv, WakeIInv, WakeSpuriousIInv, EmptyNoneIInv,
       EmptyFatlockIInv, UnlockFastIInv, DequeueIInv, ResumeNoneIInv, ResumeIInv
  <2> QED
    BY <1>1, <2>1, <2>2 DEF Next
<1> QED
  BY <1>1, InitIInv, PTL DEF Spec

(* Every variable keeps its type: no swap ever returns the busy mark.      *)
THEOREM TypeCorrect == Spec => []TypeOK
<1>1. IInv => TypeOK
  BY DEF IInv
<1> QED
  BY <1>1, IInvAlways, PTL

(* The fat lock does not go under a sleeper: every sleeper is counted.     *)
THEOREM SleepersAlwaysCounted == Spec => []SleepersCounted
<1>1. IInv => SleepersCounted
  BY DEF IInv
<1> QED
  BY <1>1, IInvAlways, PTL

(* A sleeper is owed a wake-up, unless its wait bit was used up before it  *)
(* had been counted.                                                       *)
THEOREM WakeupAlwaysOwed == Spec => []WakeupOwed
<1>1. IInv => WakeupOwed
  BY DEF IInv
<1> QED
  BY <1>1, IInvAlways, PTL

(* A thin lock is a lock: every step is one of AbstractLock or a stutter.  *)
THEOREM ThinLockImplements == Spec => LockContract
<1> DEFINE Inside == {t \in Thread : pc[t] = "held"}
<1>1. ASSUME Init PROVE Lock!Init
  BY <1>1 DEF Init, Lock!Init
<1>2. ASSUME IInv, [Next]_vars PROVE [Lock!Next]_Inside
  <2>1. CASE UNCHANGED vars
    BY <2>1 DEF vars
  <2>2. ASSUME NEW t \in Thread, LockFast(t) \/ EnqueueTake(t) PROVE Lock!Acquire(t)
    <3>1. Inside = {}
      BY <1>2, <2>2, ThreadAssumption DEF IInv, OwnerPart, LockFast, EnqueueTake
    <3>2. Inside' = {t}
      BY <1>2, <2>2, <3>1 DEF IInv, TypeOK, LockFast, EnqueueTake, GoTo
    <3> QED
      BY <3>1, <3>2 DEF Lock!Acquire
  <2>3. ASSUME NEW t \in Thread, UnlockFast(t) \/ Dequeue(t) PROVE Lock!Release(t)
    <3>1. Inside = {t}
      BY <1>2, <2>3 DEF IInv, OwnerPart, UnlockFast, Dequeue
    <3>2. Inside' = {}
      BY <1>2, <2>3, <3>1 DEF IInv, TypeOK, UnlockFast, Dequeue, GoTo
    <3> QED
      BY <3>1, <3>2 DEF Lock!Release
  <2>4. ASSUME NEW t \in Thread,
               \/ LockSlow(t) \/ EnqueueMark(t) \/ Swap(t) \/ FatStore(t)
               \/ SuspendNone(t) \/ Suspend(t) \/ Wake(t) \/ WakeSpurious(t)
               \/ EmptyNone(t) \/ EmptyFatlock(t) \/ ResumeNone(t) \/ Resume(t)
        PROVE  Inside' = Inside
    BY <1>2, <2>4 DEF IInv, TypeOK, LockSlow, EnqueueMark, Swap, Swaps, FatStore,
       SuspendNone, Suspend, Wake, WakeSpurious, EmptyNone, EmptyFatlock, ResumeNone,
       Resume, GoTo
  <2> QED
    BY <1>2, <2>1, <2>2, <2>3, <2>4 DEF Next, Lock!Next
<1> QED
  BY <1>1, <1>2, IInvAlways, PTL DEF Spec, LockContract, Lock!Spec
================================================================================
