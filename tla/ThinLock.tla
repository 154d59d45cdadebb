------------------------------- MODULE ThinLock --------------------------------
(***************************************************************************)
(* Thin locks of the JavaScript engine (js/src/jslock.c), as Windows,      *)
(* Solaris and AIX builds have them: the lock is a word with its owner's   *)
(* identity and a wait bit.  On contention a fat lock with a condition     *)
(* variable is hung on p->fat, on which contenders sleep; the last one to  *)
(* wake takes it off again.                                                *)
(*                                                                         *)
(* Each thread locks and unlocks one lock p.  A compare-and-swap is one    *)
(* step, and so is what is done under the fat lock's slock, which nobody   *)
(* keeps across steps.  p->fat is taken by swapping in the busy mark 1 and *)
(* given back by storing a pointer; those are two steps.                   *)
(***************************************************************************)
EXTENDS Integers, FiniteSets

CONSTANTS Thread, NoThread,
          MaxSpurious \* bound on waits that end by themselves

ASSUME ThreadAssumption == IsFiniteSet(Thread) /\ NoThread \notin Thread
ASSUME SpuriousAssumption == MaxSpurious \in Nat

VARIABLES
  owner,    \* p->owner without its wait bit
  waitBit,  \* the wait bit of p->owner
  fat,      \* p->fat: NULL, the busy mark, or a fat lock
  susp,     \* susp of p's fat lock
  asleep,   \* threads in PR_WaitCondVar on its condition variable
  pc,       \* where each thread is
  taken,    \* what the swap of the busy mark has given the thread
  me,       \* wait bit of the argument me in js_Enqueue
  passed,   \* threads that set a wait bit which has since been used up,
            \* before they were counted as sleepers
  spurious  \* waits that have ended by themselves

vars == <<owner, waitBit, fat, susp, asleep, pc, taken, me, passed, spurious>>

Init ==
  /\ owner = NoThread /\ waitBit = FALSE
  /\ fat = "null" /\ susp = 0 /\ asleep = {}
  /\ pc = [t \in Thread |-> "idle"]
  /\ taken = [t \in Thread |-> "null"] /\ me = [t \in Thread |-> FALSE]
  /\ passed = {} /\ spurious = 0

GoTo(t, to) == pc' = [pc EXCEPT ![t] = to]
word == <<owner, waitBit>>
fatLock == <<fat, susp, asleep>>

--------------------------------------------------------------------------------
(* js_Lock: the compare-and-swap with 0, and js_Enqueue when it fails.     *)
LockFast(t) ==
  /\ pc[t] = "idle" /\ owner = NoThread
  /\ owner' = t /\ waitBit' = FALSE
  /\ GoTo(t, "held")
  /\ UNCHANGED <<fatLock, taken, me, passed, spurious>>

LockSlow(t) ==
  /\ pc[t] = "idle" /\ owner # NoThread
  /\ me' = [me EXCEPT ![t] = FALSE] /\ GoTo(t, "enqueue")
  /\ UNCHANGED <<word, fatLock, taken, passed, spurious>>

(* js_Enqueue's loop: set the owner's wait bit, or take the free lock.  A  *)
(* round in which both compare-and-swaps fail changes nothing.             *)
EnqueueMark(t) ==
  /\ pc[t] = "enqueue" /\ owner # NoThread
  /\ waitBit' = TRUE /\ passed' = passed \ {t}
  /\ GoTo(t, "fatten")
  /\ UNCHANGED <<owner, fatLock, taken, me, spurious>>

(* Mutants: the wait bit is not kept for those still asleep; the word is   *)
(* stored without looking whether it is free.                              *)
EnqueueTakeBare(t) ==
  /\ pc[t] = "enqueue" /\ owner = NoThread
  /\ owner' = t /\ waitBit' = FALSE
  /\ GoTo(t, "held")
  /\ UNCHANGED <<fatLock, taken, me, passed, spurious>>

EnqueueTakeBlind(t) ==
  /\ pc[t] = "enqueue"
  /\ owner' = t /\ waitBit' = me[t]
  /\ GoTo(t, "held")
  /\ UNCHANGED <<fatLock, taken, me, passed, spurious>>

EnqueueTake(t) ==
  /\ pc[t] = "enqueue" /\ owner = NoThread
  /\ owner' = t /\ waitBit' = me[t]
  /\ GoTo(t, "held")
  /\ UNCHANGED <<fatLock, taken, me, passed, spurious>>

(* The busy wait on p->fat, in four places: swap in the mark 1.            *)
Swaps == [fatten |-> "fatstore", suspend |-> "suspending",
          empty |-> "emptying", resume |-> "resuming"]

Swap(t) ==
  /\ pc[t] \in DOMAIN Swaps /\ fat # "busy"
  /\ taken' = [taken EXCEPT ![t] = fat] /\ fat' = "busy"
  /\ GoTo(t, Swaps[pc[t]])
  /\ UNCHANGED <<word, susp, asleep, me, passed, spurious>>

(* js_Enqueue makes a fat lock when there is none, and gives p->fat back.  *)
FatStore(t) ==
  /\ pc[t] = "fatstore"
  /\ susp' = IF taken[t] = "null" THEN 0 ELSE susp
  /\ fat' = "lock" /\ GoTo(t, "suspend")
  /\ UNCHANGED <<word, asleep, taken, me, passed, spurious>>

--------------------------------------------------------------------------------
(* js_SuspendThread: without a fat lock it returns and leaves the mark.    *)
SuspendNone(t) ==
  /\ pc[t] = "suspending" /\ taken[t] = "null"
  /\ GoTo(t, "empty")
  /\ UNCHANGED <<word, fatLock, taken, me, passed, spurious>>

(* Otherwise, under slock, it gives p->fat back, counts itself, and sleeps *)
(* unless a wake-up has been banked.                                       *)
Suspend(t) ==
  /\ pc[t] = "suspending" /\ taken[t] = "lock"
  /\ fat' = "lock" /\ susp' = susp + 1
  /\ IF susp + 1 < 1
     THEN GoTo(t, "empty") /\ UNCHANGED asleep
     ELSE GoTo(t, "asleep") /\ asleep' = asleep \cup {t}
  /\ UNCHANGED <<word, taken, me, passed, spurious>>

Wake(t) ==
  /\ pc[t] = "asleep" /\ t \notin asleep
  /\ GoTo(t, "empty")
  /\ UNCHANGED <<word, fatLock, taken, me, passed, spurious>>

(* The wait ends without a notification; its status is not a failure.      *)
WakeSpurious(t) ==
  /\ t \in asleep /\ spurious < MaxSpurious
  /\ asleep' = asleep \ {t} /\ spurious' = spurious + 1
  /\ UNCHANGED <<word, fat, susp, pc, taken, me, passed>>

(* emptyFatlock: under slock, the fat lock is taken off and let go when    *)
(* nobody is counted on it.                                                *)
EmptyNone(t) ==
  /\ pc[t] = "emptying" /\ taken[t] = "null"
  /\ fat' = "null" /\ me' = [me EXCEPT ![t] = FALSE]
  /\ GoTo(t, "enqueue")
  /\ UNCHANGED <<word, susp, asleep, taken, passed, spurious>>

(* Mutant: the count is compared with the wrong bound.                     *)
EmptyFatlockOffByOne(t) ==
  /\ pc[t] = "emptying" /\ taken[t] = "lock"
  /\ fat' = IF susp <= 1 THEN "null" ELSE "lock"
  /\ susp' = IF susp <= 1 THEN -1 ELSE susp
  /\ me' = [me EXCEPT ![t] = susp > 1]
  /\ GoTo(t, "enqueue")
  /\ UNCHANGED <<word, asleep, taken, passed, spurious>>

EmptyFatlock(t) ==
  /\ pc[t] = "emptying" /\ taken[t] = "lock"
  /\ fat' = IF susp < 1 THEN "null" ELSE "lock"
  /\ susp' = IF susp < 1 THEN -1 ELSE susp
  /\ me' = [me EXCEPT ![t] = susp >= 1]
  /\ GoTo(t, "enqueue")
  /\ UNCHANGED <<word, asleep, taken, passed, spurious>>

--------------------------------------------------------------------------------
(* Between setting the wait bit and being counted in susp.                 *)
Going == {"fatten", "fatstore", "suspend", "suspending"}

(* js_Unlock: the compare-and-swap of me with 0; js_Dequeue when the wait  *)
(* bit is set.                                                             *)
UnlockFast(t) ==
  /\ pc[t] = "held" /\ ~waitBit
  /\ owner' = NoThread /\ GoTo(t, "idle")
  /\ UNCHANGED <<waitBit, fatLock, taken, me, passed, spurious>>

Dequeue(t) ==
  /\ pc[t] = "held" /\ waitBit
  /\ owner' = NoThread /\ waitBit' = FALSE
  /\ passed' = passed \cup {u \in Thread : pc[u] \in Going}
  /\ GoTo(t, "resume")
  /\ UNCHANGED <<fatLock, taken, me, spurious>>

(* js_ResumeThread: without a fat lock it returns and leaves the mark.     *)
ResumeNone(t) ==
  /\ pc[t] = "resuming" /\ taken[t] = "null"
  /\ GoTo(t, "idle")
  /\ UNCHANGED <<word, fatLock, taken, me, passed, spurious>>

(* Mutant: one wake-up too many is banked, and the sleeper left alone.     *)
ResumeSilent(t) ==
  /\ pc[t] = "resuming" /\ taken[t] = "lock"
  /\ fat' = "lock" /\ susp' = susp - 1
  /\ GoTo(t, "idle")
  /\ asleep' \in IF susp - 1 <= 0 \/ asleep = {} THEN {asleep}
                 ELSE {asleep \ {u} : u \in asleep}
  /\ UNCHANGED <<word, taken, me, passed, spurious>>

(* Otherwise, under slock, it takes one off the count, and wakes a sleeper *)
(* unless there was none to count.                                         *)
Resume(t) ==
  /\ pc[t] = "resuming" /\ taken[t] = "lock"
  /\ fat' = "lock" /\ susp' = susp - 1
  /\ GoTo(t, "idle")
  /\ asleep' \in IF susp - 1 < 0 \/ asleep = {} THEN {asleep}
                 ELSE {asleep \ {u} : u \in asleep}
  /\ UNCHANGED <<word, taken, me, passed, spurious>>

Next ==
  \E t \in Thread :
    \/ LockFast(t) \/ LockSlow(t) \/ EnqueueMark(t) \/ EnqueueTake(t)
    \/ Swap(t) \/ FatStore(t)
    \/ SuspendNone(t) \/ Suspend(t) \/ Wake(t) \/ WakeSpurious(t)
    \/ EmptyNone(t) \/ EmptyFatlock(t)
    \/ UnlockFast(t) \/ Dequeue(t) \/ ResumeNone(t) \/ Resume(t)

(* Every thread in one of the routines goes on, and holders unlock; nobody *)
(* is obliged to lock, and nothing ends a wait but a notification.         *)
Routine(t) ==
  \/ EnqueueMark(t) \/ EnqueueTake(t) \/ Swap(t) \/ FatStore(t)
  \/ SuspendNone(t) \/ Suspend(t) \/ Wake(t) \/ EmptyNone(t) \/ EmptyFatlock(t)
  \/ UnlockFast(t) \/ Dequeue(t) \/ ResumeNone(t) \/ Resume(t)

Fairness == \A t \in Thread : WF_vars(Routine(t))
Spec == Init /\ [][Next]_vars /\ Fairness

--------------------------------------------------------------------------------
Giving == {"fatstore", "suspending", "emptying", "resuming"}
Pcs == {"idle", "enqueue", "held", "asleep"} \cup DOMAIN Swaps \cup Giving
Unlocking == {"resume", "resuming"}
Wanting == {t \in Thread : pc[t] \notin {"idle", "held"} \cup Unlocking}

(* Every variable has its type.                                            *)
TypeOK ==
  /\ owner \in Thread \cup {NoThread} /\ waitBit \in BOOLEAN
  /\ fat \in {"null", "busy", "lock"} /\ susp \in Int /\ asleep \subseteq Thread
  /\ pc \in [Thread -> Pcs] /\ taken \in [Thread -> {"null", "lock"}]
  /\ me \in [Thread -> BOOLEAN] /\ passed \subseteq Thread
  /\ spurious \in 0..MaxSpurious

(* JS_LOCK and JS_UNLOCK keep a thread alone in between.                   *)
Lock == INSTANCE AbstractLock WITH inside <- {t \in Thread : pc[t] = "held"}
LockContract == Lock!Spec

(* The fat lock that threads sleep on is p's, or in the hands of a thread  *)
(* that gives it back: susp counts every sleeper, so emptyFatlock does not *)
(* let the structure go under one, which nothing could wake any more.      *)
SleepersCounted ==
  asleep # {} =>
    /\ Cardinality(asleep) <= susp
    /\ fat = "lock" \/ \E t \in Thread : pc[t] \in Giving /\ taken[t] = "lock"

(* The parts of the inductive invariant.  The owner is who is between      *)
(* JS_LOCK and JS_UNLOCK; one thread at most has the busy mark in hand;    *)
(* who has set a wait bit that has not been used finds it still there.     *)
OwnerPart == \A t \in Thread : pc[t] = "held" <=> owner = t
SleepPart == \A t \in asleep : pc[t] = "asleep"
MarkPart ==
  \A t \in Thread : pc[t] \in Giving =>
    /\ fat = "busy"
    /\ \A u \in Thread : pc[u] \in Giving => u = t
BitPart ==
  \A t \in Thread : pc[t] \in Going /\ t \notin passed => owner # NoThread /\ waitBit

(* A thread that sleeps is owed a wake-up: the owner has the wait bit, or  *)
(* another thread is on its way to notify, to count the sleepers, or back  *)
(* to set the bit.  The exception is a thread whose wait bit was used up   *)
(* by a release before it had been counted as a sleeper.                   *)
Minds(t) ==
  \/ pc[t] \in Unlocking \cup Going \cup {"asleep", "empty", "emptying"} /\ t \notin asleep
  \/ pc[t] = "enqueue" /\ me[t]
WakeupOwed ==
  asleep # {} =>
    \/ owner # NoThread /\ waitBit
    \/ \E t \in Thread : Minds(t)
    \/ asleep \cap passed # {}

IInv ==
  /\ TypeOK /\ OwnerPart /\ SleepPart /\ MarkPart /\ BitPart
  /\ SleepersCounted /\ WakeupOwed

(* The busy mark is there and nobody is accessing the pointer.             *)
Orphaned == fat = "busy" /\ \A t \in Thread : pc[t] \notin Giving

(* While threads want the lock, one of them gets it, also when all others  *)
(* have gone away.  There are two ways only in which this fails: the busy  *)
(* mark is left behind, after which everybody spins; or a thread sleeps    *)
(* whose wait bit was used up before it had been counted.                  *)
SomeoneGetsIt ==
  Wanting # {} ~>
    \/ \E t \in Thread : pc[t] = "held"
    \/ Orphaned \/ asleep \cap passed # {}
================================================================================
