------------------------------- MODULE PtMonitor -------------------------------
(***************************************************************************)
(* PRLock, PRCondVar and PRMonitor as nsprpub/pr/src/pthreads/ptsynch.c    *)
(* builds them from one pthread mutex and one pthread condition variable,  *)
(* and PR_Interrupt (ptthread.c), which reaches into a wait from outside.  *)
(*                                                                         *)
(* Notifications are deferred: PR_Notify only records in lock.notified how *)
(* often the condition variable is to be signalled; pt_PostNotifies copies *)
(* the record when the lock is given up, unlocks the mutex and signals     *)
(* AFTERWARDS, holding nothing but the reference count notify_pending on   *)
(* the condition variable.  PR_DestroyMonitor may run meanwhile.           *)
(***************************************************************************)
EXTENDS Integers, FiniteSets

CONSTANTS Thread,       \* the threads that use the monitor
          NoThread,     \* the zero thread handle
          Interrupters, \* the threads that may call PR_Interrupt
          MaxDepth,     \* bound on re-entries of the monitor
          MaxNotify     \* bound on PR_Notify calls within one ownership

ASSUME ThreadAssumption ==
  /\ IsFiniteSet(Thread) /\ NoThread \notin Thread
  /\ Interrupters \subseteq Thread
(* PR_Wait saves the 32-bit entryCount in a PRInt16: deeper nesting than   *)
(* this comes back from a wait as another number.                          *)
ASSUME DepthAssumption == MaxDepth \in 1..32767
ASSUME NotifyAssumption == MaxNotify \in Nat \ {0}

VARIABLES
  alive,         \* the PRMonitor has not been freed
  cvAlive,       \* its PRCondVar has not been freed
  mutex,         \* holder of lock.mutex; lock.owner is written only by that
                 \* holder and always names it
  owner,         \* mon->owner, read without the lock by PR_EnterMonitor
  entryCount,    \* mon->entryCount
  times,         \* lock.notified's count for the condition variable:
                 \* 0 no entry, -1 broadcast, n > 0 signals
  notifyPending, \* cvar->notify_pending
  cvWaiters,     \* threads blocked in pthread_cond_wait
  pc,            \* where each thread is in these routines
  saved,         \* PR_Wait's saved_entries
  post,          \* pt_PostNotifies's private copy of `times`
  aborted,       \* PT_THREAD_ABORTED in thread->state
  waitingOn,     \* thread->waiting is not NULL
  target         \* the thread a PR_Interrupt in progress is aimed at

vars == <<alive, cvAlive, mutex, owner, entryCount, times, notifyPending,
          cvWaiters, pc, saved, post, aborted, waitingOn, target>>

Broadcast == -1

(* A thread that has begun PR_Wait and not yet left it.                    *)
WaitPcs == {"setwait", "postw", "block", "cwait"}
(* A thread inside pt_PostNotifies.                                        *)
PostPcs == {"post", "postw"}
IntrPcs == {"intr", "intrcast"}
Pcs == {"idle", "busy", "lock", "post"} \cup WaitPcs \cup IntrPcs

(* saved_entries is a PRInt16: two's complement truncation of entryCount.  *)
ToInt16(n) == ((n + 32768) % 65536) - 32768

(***************************************************************************)
(* PR_NewMonitor: a zeroed PRMonitor and PRCondVar.                        *)
(***************************************************************************)
Init ==
  /\ alive = TRUE /\ cvAlive = TRUE
  /\ mutex = NoThread /\ owner = NoThread /\ entryCount = 0
  /\ times = 0 /\ notifyPending = 0 /\ cvWaiters = {}
  /\ pc = [t \in Thread |-> "idle"]
  /\ saved = [t \in Thread |-> 0]
  /\ post = [t \in Thread |-> 0]
  /\ aborted = [t \in Thread |-> FALSE]
  /\ waitingOn = [t \in Thread |-> FALSE]
  /\ target = [t \in Thread |-> NoThread]

(* A client makes a new monitor once the last one is gone entirely, and no *)
(* PR_Interrupt still holds a pointer into the freed condition variable.   *)
NewMonitor ==
  /\ ~alive /\ ~cvAlive
  /\ \A t \in Thread : pc[t] \in {"idle", "intr"}
  /\ alive' = TRUE /\ cvAlive' = TRUE /\ notifyPending' = 0
  /\ UNCHANGED <<mutex, owner, entryCount, times, cvWaiters, pc, saved, post,
                 aborted, waitingOn, target>>

GoTo(t, to) == pc' = [pc EXCEPT ![t] = to]

(***************************************************************************)
(* PR_EnterMonitor                                                         *)
(***************************************************************************)
(* The calling thread owns the mutex: mark the monitor as its own.         *)
Own(t) ==
  /\ mutex' = t /\ owner' = t
  /\ entryCount' = entryCount + 1
  /\ GoTo(t, "idle")

monitorUnused == <<alive, cvAlive, times, notifyPending, cvWaiters, saved, post,
                   aborted, waitingOn, target>>

EnterFree(t) ==
  /\ alive /\ pc[t] = "idle" /\ mutex = NoThread
  /\ Own(t)
  /\ UNCHANGED monitorUnused

(* pthread_mutex_trylock said busy: "somebody has it locked - is it me?"   *)
EnterBusy(t) ==
  /\ alive /\ pc[t] = "idle" /\ mutex # NoThread
  /\ owner = t => entryCount < MaxDepth
  /\ GoTo(t, "busy")
  /\ UNCHANGED <<mutex, owner, entryCount>> /\ UNCHANGED monitorUnused

EnterAgain(t) ==
  /\ pc[t] = "busy" /\ owner = t
  /\ entryCount' = entryCount + 1
  /\ GoTo(t, "idle")
  /\ UNCHANGED <<mutex, owner>> /\ UNCHANGED monitorUnused

EnterOther(t) ==
  /\ pc[t] = "busy" /\ owner # t
  /\ GoTo(t, "lock")
  /\ UNCHANGED <<mutex, owner, entryCount>> /\ UNCHANGED monitorUnused

EnterLock(t) ==
  /\ pc[t] = "lock" /\ mutex = NoThread
  /\ Own(t)
  /\ UNCHANGED monitorUnused

(***************************************************************************)
(* PR_ExitMonitor, PR_Unlock and the first half of pt_PostNotifies.  The   *)
(* call by a thread that is not inside returns PR_FAILURE and does nothing.*)
(***************************************************************************)
ExitNested(t) ==
  /\ pc[t] = "idle" /\ owner = t /\ entryCount > 1
  /\ entryCount' = entryCount - 1
  /\ UNCHANGED <<mutex, owner, pc>> /\ UNCHANGED monitorUnused

ExitLast(t) ==
  /\ pc[t] = "idle" /\ owner = t /\ entryCount = 1
  /\ entryCount' = 0 /\ owner' = NoThread
  /\ times' = 0
  /\ post' = [post EXCEPT ![t] = times]
  /\ mutex' = NoThread
  /\ GoTo(t, IF times = 0 THEN "idle" ELSE "post")
  /\ UNCHANGED <<alive, cvAlive, notifyPending, cvWaiters, saved, aborted,
                 waitingOn, target>>

(***************************************************************************)
(* The loop of pt_PostNotifies: signal or broadcast, then drop the         *)
(* reference.  A signal wakes one thread that waits NOW, if there is one.  *)
(***************************************************************************)
AfterPost(t) == IF pc[t] = "post" THEN "idle" ELSE "block"

PostNotify(t) ==
  /\ pc[t] \in PostPcs /\ post[t] # 0
  /\ \/ /\ post[t] = Broadcast
        /\ cvWaiters' = {}
        /\ post' = [post EXCEPT ![t] = 0]
     \/ /\ post[t] > 0
        /\ IF cvWaiters = {} THEN cvWaiters' = {}
           ELSE \E u \in cvWaiters : cvWaiters' = cvWaiters \ {u}
        /\ post' = [post EXCEPT ![t] = @ - 1]
  /\ UNCHANGED <<alive, cvAlive, mutex, owner, entryCount, times, notifyPending,
                 pc, saved, aborted, waitingOn, target>>

(* Drop the reference.  PR_AtomicDecrement below zero means that the       *)
(* monitor has been destroyed meanwhile, and PR_DestroyCondVar was left to *)
(* the last notifier.                                                      *)
PostDone(t) ==
  /\ pc[t] \in PostPcs /\ post[t] = 0 /\ notifyPending > 0
  /\ notifyPending' = notifyPending - 1
  /\ GoTo(t, AfterPost(t))
  /\ UNCHANGED <<alive, cvAlive, mutex, owner, entryCount, times, cvWaiters,
                 saved, post, aborted, waitingOn, target>>

(* Mutant: the last notifier forgets PR_DestroyCondVar.                    *)
PostLastNoFree(t) ==
  /\ pc[t] \in PostPcs /\ post[t] = 0 /\ notifyPending <= 0
  /\ notifyPending' = notifyPending - 1
  /\ GoTo(t, AfterPost(t))
  /\ UNCHANGED <<alive, cvAlive, mutex, owner, entryCount, times, cvWaiters,
                 saved, post, aborted, waitingOn, target>>

PostLast(t) ==
  /\ pc[t] \in PostPcs /\ post[t] = 0 /\ notifyPending <= 0
  /\ notifyPending' = notifyPending - 2
  /\ cvAlive' = FALSE
  /\ GoTo(t, AfterPost(t))
  /\ UNCHANGED <<alive, mutex, owner, entryCount, times, cvWaiters, saved, post,
                 aborted, waitingOn, target>>

(***************************************************************************)
(* PR_Wait and PR_WaitCondVar                                              *)
(***************************************************************************)
(* An interrupt that is already pending ends the call at once.             *)
WaitAborted(t) ==
  /\ pc[t] = "idle" /\ owner = t /\ aborted[t]
  /\ aborted' = [aborted EXCEPT ![t] = FALSE]
  /\ entryCount' = ToInt16(entryCount)
  /\ UNCHANGED <<alive, cvAlive, mutex, owner, times, notifyPending, cvWaiters,
                 pc, saved, post, waitingOn, target>>

(* Mutant: the waiting thread stays the owner.                             *)
WaitBeginKeepOwner(t) ==
  /\ pc[t] = "idle" /\ owner = t /\ ~aborted[t]
  /\ saved' = [saved EXCEPT ![t] = ToInt16(entryCount)]
  /\ entryCount' = 0
  /\ GoTo(t, "setwait")
  /\ UNCHANGED <<alive, cvAlive, mutex, owner, times, notifyPending, cvWaiters,
                 post, aborted, waitingOn, target>>

WaitBegin(t) ==
  /\ pc[t] = "idle" /\ owner = t /\ ~aborted[t]
  /\ saved' = [saved EXCEPT ![t] = ToInt16(entryCount)]
  /\ entryCount' = 0 /\ owner' = NoThread
  /\ GoTo(t, "setwait")
  /\ UNCHANGED <<alive, cvAlive, mutex, times, notifyPending, cvWaiters, post,
                 aborted, waitingOn, target>>

(* thred->waiting = cvar; recorded notifications go out before the wait.   *)
WaitSet(t) ==
  /\ pc[t] = "setwait"
  /\ waitingOn' = [waitingOn EXCEPT ![t] = TRUE]
  /\ times' = 0
  /\ post' = [post EXCEPT ![t] = times]
  /\ GoTo(t, IF times = 0 THEN "block" ELSE "postw")
  /\ UNCHANGED <<alive, cvAlive, mutex, owner, entryCount, notifyPending,
                 cvWaiters, saved, aborted, target>>

(* pthread_cond_wait releases the mutex and blocks in one step.            *)
WaitBlock(t) ==
  /\ pc[t] = "block"
  /\ mutex' = NoThread
  /\ cvWaiters' = cvWaiters \cup {t}
  /\ GoTo(t, "cwait")
  /\ UNCHANGED <<alive, cvAlive, owner, entryCount, times, notifyPending, saved,
                 post, aborted, waitingOn, target>>

(* pt_TimedWait's deadline, or a wake-up pthread_cond_wait may make up.    *)
WaitTimeout(t) ==
  /\ t \in cvWaiters
  /\ cvWaiters' = cvWaiters \ {t}
  /\ UNCHANGED <<alive, cvAlive, mutex, owner, entryCount, times, notifyPending,
                 pc, saved, post, aborted, waitingOn, target>>

(* Mutant: the thread comes back with one entry.                           *)
WaitReturnOnce(t) ==
  /\ pc[t] = "cwait" /\ t \notin cvWaiters /\ mutex = NoThread
  /\ mutex' = t /\ owner' = t /\ entryCount' = 1
  /\ saved' = [saved EXCEPT ![t] = 0]
  /\ waitingOn' = [waitingOn EXCEPT ![t] = FALSE]
  /\ aborted' = [aborted EXCEPT ![t] = FALSE]
  /\ GoTo(t, "idle")
  /\ UNCHANGED <<alive, cvAlive, times, notifyPending, cvWaiters, post, target>>

WaitReturn(t) ==
  /\ pc[t] = "cwait" /\ t \notin cvWaiters /\ mutex = NoThread
  /\ mutex' = t /\ owner' = t /\ entryCount' = saved[t]
  /\ saved' = [saved EXCEPT ![t] = 0]
  /\ waitingOn' = [waitingOn EXCEPT ![t] = FALSE]
  /\ aborted' = [aborted EXCEPT ![t] = FALSE]
  /\ GoTo(t, "idle")
  /\ UNCHANGED <<alive, cvAlive, times, notifyPending, cvWaiters, post, target>>

(***************************************************************************)
(* PR_Notify and PR_NotifyAll: pt_PostNotifyToCvar                         *)
(***************************************************************************)
(* Mutant: no reference is taken on the condition variable.                *)
RecordNotifyUncounted(t, new) ==
  /\ pc[t] = "idle" /\ owner = t
  /\ times' = new
  /\ UNCHANGED <<alive, cvAlive, mutex, owner, entryCount, notifyPending,
                 cvWaiters, pc, saved, post, aborted, waitingOn, target>>

RecordNotify(t, new) ==
  /\ pc[t] = "idle" /\ owner = t
  /\ times' = new
  /\ notifyPending' = IF times = 0 THEN notifyPending + 1 ELSE notifyPending
  /\ UNCHANGED <<alive, cvAlive, mutex, owner, entryCount, cvWaiters, pc, saved,
                 post, aborted, waitingOn, target>>

(* Mutant: a notify after a broadcast records one signal.                  *)
NotifyForgetsBroadcast(t) ==
  /\ times < MaxNotify
  /\ RecordNotify(t, IF times = Broadcast THEN 1 ELSE times + 1)

Notify(t) ==
  /\ times < MaxNotify
  /\ RecordNotify(t, IF times = Broadcast THEN Broadcast ELSE times + 1)

NotifyAll(t) == RecordNotify(t, Broadcast)

(***************************************************************************)
(* PR_DestroyMonitor.  Its contract: no thread waits, the lock is free.    *)
(* A thread that has unlocked the mutex but not yet signalled may remain.  *)
(***************************************************************************)
DestroyMonitor(t) ==
  /\ alive /\ pc[t] = "idle" /\ mutex = NoThread
  /\ \A u \in Thread : pc[u] \in {"idle", "post"} \cup IntrPcs
  /\ alive' = FALSE
  /\ notifyPending' = notifyPending - 1
  /\ cvAlive' = IF notifyPending > 0 THEN cvAlive ELSE FALSE
  /\ UNCHANGED <<mutex, owner, entryCount, times, cvWaiters, pc, saved, post,
                 aborted, waitingOn, target>>

(***************************************************************************)
(* PR_Interrupt(u): set the flag, read u's `waiting`, broadcast -- three   *)
(* unsynchronised steps -- and PR_ClearInterrupt.                          *)
(***************************************************************************)
InterruptFlag(t, u) ==
  /\ t \in Interrupters /\ pc[t] = "idle"
  /\ aborted' = [aborted EXCEPT ![u] = TRUE]
  /\ target' = [target EXCEPT ![t] = u]
  /\ GoTo(t, "intr")
  /\ UNCHANGED <<alive, cvAlive, mutex, owner, entryCount, times, notifyPending,
                 cvWaiters, saved, post, waitingOn>>

InterruptRead(t) ==
  /\ pc[t] = "intr"
  /\ GoTo(t, IF waitingOn[target[t]] THEN "intrcast" ELSE "idle")
  /\ target' = [target EXCEPT ![t] = NoThread]
  /\ UNCHANGED <<alive, cvAlive, mutex, owner, entryCount, times, notifyPending,
                 cvWaiters, saved, post, aborted, waitingOn>>

(* By now the condition variable may be gone: the broadcast then goes to   *)
(* freed memory and reaches nobody.                                        *)
InterruptCast(t) ==
  /\ pc[t] = "intrcast"
  /\ cvWaiters' = {}
  /\ GoTo(t, "idle")
  /\ UNCHANGED <<alive, cvAlive, mutex, owner, entryCount, times, notifyPending,
                 saved, post, aborted, waitingOn, target>>

ClearInterrupt(t) ==
  /\ pc[t] = "idle" /\ aborted[t]
  /\ aborted' = [aborted EXCEPT ![t] = FALSE]
  /\ UNCHANGED <<alive, cvAlive, mutex, owner, entryCount, times, notifyPending,
                 cvWaiters, pc, saved, post, waitingOn, target>>

(***************************************************************************)
(* What a thread inside one of these routines does next: no choice of the  *)
(* client, the thread runs on by itself.                                   *)
(***************************************************************************)
Running(t) ==
  \/ EnterAgain(t) \/ EnterOther(t)
  \/ PostNotify(t) \/ PostDone(t) \/ PostLast(t)
  \/ WaitSet(t) \/ WaitBlock(t)
  \/ InterruptRead(t) \/ InterruptCast(t)

Next ==
  \/ \E t \in Thread :
       \/ EnterFree(t) \/ EnterBusy(t) \/ EnterLock(t)
       \/ ExitNested(t) \/ ExitLast(t)
       \/ WaitAborted(t) \/ WaitBegin(t) \/ WaitTimeout(t) \/ WaitReturn(t)
       \/ Notify(t) \/ NotifyAll(t)
       \/ DestroyMonitor(t)
       \/ \E u \in Thread : InterruptFlag(t, u)
       \/ ClearInterrupt(t)
       \/ Running(t)
  \/ NewMonitor

Spec == Init /\ [][Next]_vars

(***************************************************************************)
(* Fairness: the kernel runs every thread that is not blocked; a mutex     *)
(* that is released over and over is granted to each contender in the end; *)
(* a client leaves a monitor it has entered.  Nothing makes a wait end.    *)
(***************************************************************************)
Fairness ==
  \A t \in Thread :
    /\ WF_vars(Running(t)) /\ SF_vars(EnterLock(t) \/ WaitReturn(t))
    /\ SF_vars(ExitNested(t)) /\ SF_vars(ExitLast(t))

FairSpec == Spec /\ Fairness

--------------------------------------------------------------------------------
MonitorTypes ==
  /\ alive \in BOOLEAN /\ cvAlive \in BOOLEAN
  /\ mutex \in Thread \cup {NoThread} /\ owner \in Thread \cup {NoThread}
  /\ entryCount \in 0..MaxDepth
  /\ times \in Int /\ Broadcast <= times
  /\ notifyPending \in Int
  /\ cvWaiters \subseteq Thread
ThreadTypes ==
  /\ pc \in [Thread -> Pcs]
  /\ saved \in [Thread -> 0..MaxDepth]
  /\ post \in [Thread -> Int]
  /\ aborted \in [Thread -> BOOLEAN] /\ waitingOn \in [Thread -> BOOLEAN]
  /\ target \in [Thread -> Thread \cup {NoThread}]
(* Every variable has its type; the entry count never leaves its range,    *)
(* whichever way PR_EnterMonitor, PR_ExitMonitor and PR_Wait interleave.   *)
TypeOK == MonitorTypes /\ ThreadTypes

(* What the PR_ASSERTs of PR_Lock, PR_EnterMonitor, PR_ExitMonitor,        *)
(* PR_WaitCondVar and PR_Wait demand: the named owner really has the mutex *)
(* and a positive count, and whoever gets the mutex finds no owner, no     *)
(* entries and no notification left over from the thread before it.        *)
MonitorConsistent ==
  /\ owner # NoThread => mutex = owner /\ entryCount > 0
  /\ mutex = NoThread => owner = NoThread /\ entryCount = 0 /\ times = 0

(* pt_PostNotifies signals without the lock: notify_pending keeps the      *)
(* condition variable from being freed under a thread that still has to    *)
(* signal it, though PR_DestroyMonitor may already have returned.          *)
NotifierHoldsCv ==
  /\ \A t \in Thread : pc[t] \in PostPcs => cvAlive
  /\ times # 0 => cvAlive

(* ... and the deferral never leaks it: once the monitor is gone and the   *)
(* last late notifier has finished, the condition variable is gone too.    *)
CvReclaimed ==
  (~alive /\ \A t \in Thread : pc[t] \notin PostPcs) => ~cvAlive

(***************************************************************************)
(* The inductive invariant behind the two.  A thread has the mutex exactly *)
(* while it owns the monitor or stands in PR_Wait before it blocks;        *)
(* recorded notifications belong to such a thread; and notify_pending      *)
(* counts the notifiers still to signal, the entry in lock.notified, and   *)
(* minus one for a PR_DestroyMonitor that has been made.                   *)
(***************************************************************************)
HoldPcs == {"setwait", "postw", "block"}
Posters == {t \in Thread : pc[t] \in PostPcs}
LockPart == \A t \in Thread : mutex = t <=> (owner = t \/ pc[t] \in HoldPcs)
OwnerPart ==
  /\ owner = NoThread <=> entryCount = 0
  /\ \A t \in Thread : owner = t =>
       /\ pc[t] \in {"idle", "busy"} \cup IntrPcs
       /\ pc[t] = "busy" => entryCount < MaxDepth
NotifyPart ==
  times # 0 => owner # NoThread \/ \E t \in Thread : pc[t] = "setwait"
WaitPart ==
  /\ \A t \in Thread : pc[t] \in WaitPcs => saved[t] > 0
  /\ \A t \in cvWaiters : pc[t] = "cwait"
InterruptPart == \A t \in Thread : pc[t] = "intr" => target[t] \in Thread
AlivePart ==
  ~alive => /\ mutex = NoThread
            /\ \A t \in Thread : pc[t] \in {"idle", "post"} \cup IntrPcs
Refs == Cardinality(Posters) + (IF times = 0 THEN 0 ELSE 1)
                             - (IF alive THEN 0 ELSE 1)
CvPart ==
  /\ cvAlive <=> (alive \/ Posters # {})
  /\ cvAlive => notifyPending = Refs
IInv == /\ TypeOK /\ LockPart /\ OwnerPart /\ NotifyPart /\ WaitPart
        /\ InterruptPart /\ AlivePart /\ CvPart

(* PtMonitor implements the monitor that prmon.h promises: exclusion,      *)
(* re-entry, and a wait that gives the monitor up entirely and regains it  *)
(* "with the same entry count as before the wait began".                   *)
InWait == {t \in Thread : pc[t] \in WaitPcs}
Depths == [t \in Thread |-> IF pc[t] \in WaitPcs THEN saved[t]
                            ELSE IF owner = t THEN entryCount ELSE 0]
Promise == INSTANCE AbstractMonitor
             WITH holder <- owner, depth <- Depths, waiting <- InWait
MonitorContract == Promise!ASpec

(* prmon.h on PR_NotifyAll: "All of threads waiting on the condition are   *)
(* scheduled to reenter the monitor".  The broadcast is only recorded, and *)
(* sent after the unlock or before a wait; no thread that was waiting when *)
(* it was recorded is left behind.                                         *)
BroadcastWakes ==
  \A t \in Thread :
    (times = Broadcast /\ t \in cvWaiters) ~> t \notin cvWaiters
================================================================================
