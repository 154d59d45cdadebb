---------------------------- MODULE AbstractMonitor ----------------------------
(***************************************************************************)
(* What nsprpub/pr/include/prmon.h promises of a PRMonitor: a re-entrant   *)
(* lock with one built-in condition variable.  A waiting thread has left   *)
(* the monitor completely and comes back with the entry count it left      *)
(* with.  Why a wait ends (a notification, a timeout, an interrupt) is not *)
(* part of this contract: prmon.h lets a wait end for each of these        *)
(* reasons, so callers must re-test their condition.                       *)
(***************************************************************************)
EXTENDS Naturals

CONSTANTS Thread,    \* the threads that use the monitor
          NoThread   \* "nobody": pthread's zero thread handle

VARIABLES alive,     \* the monitor exists (PR_NewMonitor .. PR_DestroyMonitor)
          holder,    \* the thread inside the monitor, or NoThread
          depth,     \* entries each thread has made and not yet left
          waiting    \* the threads inside PR_Wait

avars == <<alive, holder, depth, waiting>>

AInit ==
  /\ alive = TRUE
  /\ holder = NoThread
  /\ depth = [t \in Thread |-> 0]
  /\ waiting = {}

AEnter(t) ==
  /\ alive /\ t \notin waiting
  /\ holder \in {NoThread, t}
  /\ holder' = t
  /\ depth' = [depth EXCEPT ![t] = @ + 1]
  /\ UNCHANGED <<alive, waiting>>

AExit(t) ==
  /\ alive /\ holder = t
  /\ depth' = [depth EXCEPT ![t] = @ - 1]
  /\ holder' = IF depth[t] = 1 THEN NoThread ELSE t
  /\ UNCHANGED <<alive, waiting>>

AWait(t) ==
  /\ alive /\ holder = t
  /\ holder' = NoThread
  /\ waiting' = waiting \cup {t}
  /\ UNCHANGED <<alive, depth>>

AResume(t) ==
  /\ alive /\ t \in waiting /\ holder = NoThread
  /\ holder' = t
  /\ waiting' = waiting \ {t}
  /\ UNCHANGED <<alive, depth>>

ADestroy ==
  /\ alive /\ holder = NoThread /\ waiting = {}
  /\ alive' = FALSE
  /\ UNCHANGED <<holder, depth, waiting>>

ANew ==
  /\ ~alive
  /\ alive' = TRUE
  /\ UNCHANGED <<holder, depth, waiting>>

ANext ==
  \/ \E t \in Thread : AEnter(t) \/ AExit(t) \/ AWait(t) \/ AResume(t)
  \/ ADestroy
  \/ ANew

ASpec == AInit /\ [][ANext]_avars
================================================================================
