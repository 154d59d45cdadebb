---------------------------- MODULE PtMonitorProofs ----------------------------
(***************************************************************************)
(* Proofs about PtMonitor, for every finite set of threads and all bounds. *)
(*                                                                         *)
(* IInv is shown to hold initially and to survive every action, one lemma  *)
(* per action and in it one step per part of IInv; the safety properties   *)
(* follow from IInv, and so does the step simulation behind                *)
(* MonitorContract.                                                        *)
(***************************************************************************)
EXTENDS PtMonitor, FiniteSetTheorems, TLAPS

(* What the proofs need to know of the bound on nesting.                   *)
LEMMA MaxDepthNat == MaxDepth \in Nat /\ MaxDepth >= 1
  BY DepthAssumption

(* A PRInt16 holds every entry count the bound allows.                     *)
LEMMA Int16Exact == ASSUME NEW n \in 0..MaxDepth PROVE ToInt16(n) = n
  BY DepthAssumption DEF ToInt16

(* The late notifiers can be counted.                                      *)
LEMMA PostersFinite == IsFiniteSet(Posters) /\ Cardinality(Posters) \in Nat
<1>1. Posters \subseteq Thread
  BY DEF Posters
<1> QED
  BY <1>1, ThreadAssumption, FS_Subset, FS_CardinalityType

(* A thread that begins pt_PostNotifies adds one to the late notifiers.    *)
LEMMA OneMorePoster ==
  ASSUME NEW t \in Thread, t \notin Posters, Posters' = Posters \cup {t}
  PROVE  Cardinality(Posters') = Cardinality(Posters) + 1
  BY PostersFinite, FS_AddElement

(* A thread that ends it takes one away, and the last leaves none.         *)
LEMMA OneLessPoster ==
  ASSUME NEW t \in Thread, t \in Posters, Posters' = Posters \ {t}
  PROVE  /\ Cardinality(Posters) > 0
         /\ Cardinality(Posters') = Cardinality(Posters) - 1
         /\ Posters' = {} <=> Cardinality(Posters) = 1
<1>1. /\ IsFiniteSet(Posters')
      /\ Cardinality(Posters') = Cardinality(Posters) - 1
  BY PostersFinite, FS_RemoveElement
<1>2. Cardinality(Posters') \in Nat
  BY <1>1, FS_CardinalityType
<1>3. Posters' = {} <=> Cardinality(Posters') = 0
  BY <1>1, FS_EmptySet
<1>4. Cardinality(Posters) \in Nat
  BY PostersFinite
<1> QED
  BY <1>1, <1>2, <1>3, <1>4

(* While the mutex is free no notification is on record.                   *)
LEMMA FreeMeansFlushed ==
  ASSUME IInv, mutex = NoThread
  PROVE  owner = NoThread /\ entryCount = 0 /\ times = 0
<1>1. MonitorTypes /\ LockPart /\ OwnerPart /\ NotifyPart
  BY DEF IInv, TypeOK
<1>2. owner = NoThread
  BY <1>1, ThreadAssumption DEF MonitorTypes, LockPart
<1>3. \A t \in Thread : pc[t] # "setwait"
  BY <1>1, ThreadAssumption DEF LockPart, HoldPcs
<1> QED
  BY <1>1, <1>2, <1>3 DEF OwnerPart, NotifyPart

(* Steps that neither begin nor end pt_PostNotifies, record nothing and    *)
(* free nothing keep the reference count right.                            *)
LEMMA CvPartFrame ==
  ASSUME CvPart, Posters' = Posters,
         UNCHANGED <<alive, cvAlive, times, notifyPending>>
  PROVE  CvPart'
  BY DEF CvPart, Refs

(* PR_NewMonitor leaves the monitor in a good state.                       *)
LEMMA InitIInv == ASSUME Init PROVE IInv
<1>1. TypeOK
  BY MaxDepthNat DEF Init, TypeOK, MonitorTypes, ThreadTypes, Pcs, Broadcast
<1>2. LockPart /\ OwnerPart /\ NotifyPart
  BY ThreadAssumption DEF Init, LockPart, OwnerPart, NotifyPart, HoldPcs
<1>3. WaitPart /\ InterruptPart /\ AlivePart
  BY DEF Init, WaitPart, InterruptPart, AlivePart, WaitPcs
<1>4. Posters = {}
  BY DEF Init, Posters, PostPcs
<1>5. CvPart
  BY <1>4, FS_EmptySet DEF Init, CvPart, Refs
<1> QED
  BY <1>1, <1>2, <1>3, <1>5 DEF IInv

(***************************************************************************)
(* Every action preserves IInv.                                            *)
(***************************************************************************)
(* The try-lock of PR_EnterMonitor succeeds.                               *)
LEMMA EnterFreeIInv ==
  ASSUME IInv, NEW t \in Thread, EnterFree(t)
  PROVE  IInv'
<1>0. /\ MonitorTypes /\ ThreadTypes /\ LockPart /\ OwnerPart /\ NotifyPart
      /\ WaitPart /\ InterruptPart /\ AlivePart /\ CvPart
  BY DEF IInv, TypeOK
<1>1. pc \in [Thread -> Pcs]
  BY <1>0 DEF ThreadTypes
<1>2. MonitorTypes'
  <2>1. entryCount = 0
    BY FreeMeansFlushed DEF EnterFree
  <2> QED
    BY <1>0, <2>1, MaxDepthNat
       DEF MonitorTypes, EnterFree, Own, GoTo, monitorUnused
<1>3. ThreadTypes'
  BY <1>0, <1>1 DEF ThreadTypes, Pcs, WaitPcs, IntrPcs, EnterFree, Own, GoTo,
     monitorUnused
<1>4. LockPart'
  BY <1>0, <1>1, ThreadAssumption DEF LockPart, OwnerPart, HoldPcs, EnterFree,
     Own, GoTo, monitorUnused
<1>5. OwnerPart'
  BY <1>0, <1>1, MaxDepthNat, ThreadAssumption DEF MonitorTypes, OwnerPart,
     LockPart, HoldPcs, IntrPcs, EnterFree, Own, GoTo, monitorUnused
<1>6. NotifyPart'
  BY <1>0, <1>1, ThreadAssumption DEF NotifyPart, LockPart, EnterFree, Own,
     GoTo, monitorUnused
<1>7. WaitPart'
  BY <1>0, <1>1 DEF WaitPart, WaitPcs, EnterFree, Own, GoTo, monitorUnused
<1>8. InterruptPart'
  BY <1>0, <1>1 DEF InterruptPart, EnterFree, Own, GoTo, monitorUnused
<1>9. AlivePart'
  BY <1>0, <1>1 DEF AlivePart, IntrPcs, EnterFree, Own, GoTo, monitorUnused
<1>10. Posters' = Posters
  BY <1>0, <1>1 DEF Posters, PostPcs, EnterFree, Own, GoTo, monitorUnused
<1>11. CvPart'
  BY <1>0, <1>10, CvPartFrame DEF EnterFree, Own, GoTo, monitorUnused
<1> QED
  BY <1>2, <1>3, <1>4, <1>5, <1>6, <1>7, <1>8, <1>9, <1>11 DEF IInv, TypeOK

(* The try-lock finds the mutex taken.                                     *)
LEMMA EnterBusyIInv ==
  ASSUME IInv, NEW t \in Thread, EnterBusy(t)
  PROVE  IInv'
<1>0. /\ MonitorTypes /\ ThreadTypes /\ LockPart /\ OwnerPart /\ NotifyPart
      /\ WaitPart /\ InterruptPart /\ AlivePart /\ CvPart
  BY DEF IInv, TypeOK
<1>1. pc \in [Thread -> Pcs]
  BY <1>0 DEF ThreadTypes
<1>2. MonitorTypes'
  BY <1>0, <1>1 DEF MonitorTypes, EnterBusy, GoTo, monitorUnused
<1>3. ThreadTypes'
  BY <1>0, <1>1 DEF ThreadTypes, Pcs, WaitPcs, IntrPcs, EnterBusy, GoTo,
     monitorUnused
<1>4. LockPart' /\ OwnerPart' /\ NotifyPart'
  BY <1>0, <1>1, ThreadAssumption DEF LockPart, OwnerPart, NotifyPart,
     HoldPcs, IntrPcs, EnterBusy, GoTo, monitorUnused
<1>5. WaitPart' /\ InterruptPart' /\ AlivePart'
  BY <1>0, <1>1 DEF WaitPart, InterruptPart, AlivePart, WaitPcs, IntrPcs,
     EnterBusy, GoTo, monitorUnused
<1>6. Posters' = Posters
  BY <1>0, <1>1 DEF Posters, PostPcs, EnterBusy, GoTo, monitorUnused
<1>7. CvPart'
  BY <1>0, <1>6, CvPartFrame DEF EnterBusy, GoTo, monitorUnused
<1> QED
  BY <1>2, <1>3, <1>4, <1>5, <1>7 DEF IInv, TypeOK

(* The owner enters again without the mutex call.                          *)
LEMMA EnterAgainIInv ==
  ASSUME IInv, NEW t \in Thread, EnterAgain(t)
  PROVE  IInv'
<1>0. /\ MonitorTypes /\ ThreadTypes /\ LockPart /\ OwnerPart /\ NotifyPart
      /\ WaitPart /\ InterruptPart /\ AlivePart /\ CvPart
  BY DEF IInv, TypeOK
<1>1. pc \in [Thread -> Pcs]
  BY <1>0 DEF ThreadTypes
<1>2. MonitorTypes'
  BY <1>0, <1>1, MaxDepthNat DEF MonitorTypes, OwnerPart, EnterAgain, GoTo,
     monitorUnused
<1>3. ThreadTypes'
  BY <1>0, <1>1 DEF ThreadTypes, Pcs, WaitPcs, IntrPcs, EnterAgain, GoTo,
     monitorUnused
<1>4. LockPart'
  BY <1>0, <1>1, ThreadAssumption DEF LockPart, OwnerPart, HoldPcs,
     EnterAgain, GoTo, monitorUnused
<1>5. OwnerPart'
  BY <1>0, <1>1, MaxDepthNat, ThreadAssumption DEF MonitorTypes, OwnerPart,
     LockPart, HoldPcs, IntrPcs, EnterAgain, GoTo, monitorUnused
<1>6. NotifyPart'
  BY <1>0, <1>1, ThreadAssumption DEF NotifyPart, LockPart, EnterAgain, GoTo,
     monitorUnused
<1>7. WaitPart'
  BY <1>0, <1>1 DEF WaitPart, WaitPcs, EnterAgain, GoTo, monitorUnused
<1>8. InterruptPart'
  BY <1>0, <1>1 DEF InterruptPart, EnterAgain, GoTo, monitorUnused
<1>9. AlivePart'
  BY <1>0, <1>1 DEF AlivePart, IntrPcs, EnterAgain, GoTo, monitorUnused
<1>10. Posters' = Posters
  BY <1>0, <1>1 DEF Posters, PostPcs, EnterAgain, GoTo, monitorUnused
<1>11. CvPart'
  BY <1>0, <1>10, CvPartFrame DEF EnterAgain, GoTo, monitorUnused
<1> QED
  BY <1>2, <1>3, <1>4, <1>5, <1>6, <1>7, <1>8, <1>9, <1>11 DEF IInv, TypeOK

(* Another thread owns it: PR_EnterMonitor goes on to PR_Lock.             *)
LEMMA EnterOtherIInv ==
  ASSUME IInv, NEW t \in Thread, EnterOther(t)
  PROVE  IInv'
<1>0. /\ MonitorTypes /\ ThreadTypes /\ LockPart /\ OwnerPart /\ NotifyPart
      /\ WaitPart /\ InterruptPart /\ AlivePart /\ CvPart
  BY DEF IInv, TypeOK
<1>1. pc \in [Thread -> Pcs]
  BY <1>0 DEF ThreadTypes
<1>2. MonitorTypes'
  BY <1>0, <1>1 DEF MonitorTypes, EnterOther, GoTo, monitorUnused
<1>3. ThreadTypes'
  BY <1>0, <1>1 DEF ThreadTypes, Pcs, WaitPcs, IntrPcs, EnterOther, GoTo,
     monitorUnused
<1>4. LockPart' /\ OwnerPart' /\ NotifyPart'
  BY <1>0, <1>1, ThreadAssumption DEF LockPart, OwnerPart, NotifyPart,
     HoldPcs, IntrPcs, EnterOther, GoTo, monitorUnused
<1>5. WaitPart' /\ InterruptPart' /\ AlivePart'
  BY <1>0, <1>1 DEF WaitPart, InterruptPart, AlivePart, WaitPcs, IntrPcs,
     EnterOther, GoTo, monitorUnused
<1>6. Posters' = Posters
  BY <1>0, <1>1 DEF Posters, PostPcs, EnterOther, GoTo, monitorUnused
<1>7. CvPart'
  BY <1>0, <1>6, CvPartFrame DEF EnterOther, GoTo, monitorUnused
<1> QED
  BY <1>2, <1>3, <1>4, <1>5, <1>7 DEF IInv, TypeOK

(* PR_Lock gets the mutex.                                                 *)
LEMMA EnterLockIInv ==
  ASSUME IInv, NEW t \in Thread, EnterLock(t)
  PROVE  IInv'
<1>0. /\ MonitorTypes /\ ThreadTypes /\ LockPart /\ OwnerPart /\ NotifyPart
      /\ WaitPart /\ InterruptPart /\ AlivePart /\ CvPart
  BY DEF IInv, TypeOK
<1>1. pc \in [Thread -> Pcs]
  BY <1>0 DEF ThreadTypes
<1>2. MonitorTypes'
  <2>1. entryCount = 0
    BY FreeMeansFlushed DEF EnterLock
  <2> QED
    BY <1>0, <2>1, MaxDepthNat
       DEF MonitorTypes, EnterLock, Own, GoTo, monitorUnused
<1>3. ThreadTypes'
  BY <1>0, <1>1 DEF ThreadTypes, Pcs, WaitPcs, IntrPcs, EnterLock, Own, GoTo,
     monitorUnused
<1>4. LockPart'
  BY <1>0, <1>1, ThreadAssumption DEF LockPart, OwnerPart, HoldPcs, EnterLock,
     Own, GoTo, monitorUnused
<1>5. OwnerPart'
  BY <1>0, <1>1, MaxDepthNat, ThreadAssumption DEF MonitorTypes, OwnerPart,
     LockPart, HoldPcs, IntrPcs, EnterLock, Own, GoTo, monitorUnused
<1>6. NotifyPart'
  BY <1>0, <1>1, ThreadAssumption DEF NotifyPart, LockPart, EnterLock, Own,
     GoTo, monitorUnused
<1>7. WaitPart'
  BY <1>0, <1>1 DEF WaitPart, WaitPcs, EnterLock, Own, GoTo, monitorUnused
<1>8. InterruptPart'
  BY <1>0, <1>1 DEF InterruptPart, EnterLock, Own, GoTo, monitorUnused
<1>9. AlivePart'
  BY <1>0, <1>1 DEF AlivePart, IntrPcs, EnterLock, Own, GoTo, monitorUnused
<1>10. Posters' = Posters
  BY <1>0, <1>1 DEF Posters, PostPcs, EnterLock, Own, GoTo, monitorUnused
<1>11. CvPart'
  BY <1>0, <1>10, CvPartFrame DEF EnterLock, Own, GoTo, monitorUnused
<1> QED
  BY <1>2, <1>3, <1>4, <1>5, <1>6, <1>7, <1>8, <1>9, <1>11 DEF IInv, TypeOK

(* A nested PR_ExitMonitor.                                                *)
LEMMA ExitNestedIInv ==
  ASSUME IInv, NEW t \in Thread, ExitNested(t)
  PROVE  IInv'
<1>0. /\ MonitorTypes /\ ThreadTypes /\ LockPart /\ OwnerPart /\ NotifyPart
      /\ WaitPart /\ InterruptPart /\ AlivePart /\ CvPart
  BY DEF IInv, TypeOK
<1>1. pc \in [Thread -> Pcs]
  BY <1>0 DEF ThreadTypes
<1>2. MonitorTypes'
  BY <1>0, <1>1, MaxDepthNat DEF MonitorTypes, ExitNested, monitorUnused
<1>3. ThreadTypes'
  BY <1>0, <1>1 DEF ThreadTypes, Pcs, WaitPcs, IntrPcs, ExitNested,
     monitorUnused
<1>4. LockPart' /\ OwnerPart' /\ NotifyPart'
  BY <1>0, <1>1, ThreadAssumption DEF LockPart, OwnerPart, NotifyPart,
     HoldPcs, IntrPcs, ExitNested, monitorUnused
<1>5. WaitPart' /\ InterruptPart' /\ AlivePart'
  BY <1>0, <1>1 DEF WaitPart, InterruptPart, AlivePart, WaitPcs, IntrPcs,
     ExitNested, monitorUnused
<1>6. Posters' = Posters
  BY <1>0, <1>1 DEF Posters, PostPcs, ExitNested, monitorUnused
<1>7. CvPart'
  BY <1>0, <1>6, CvPartFrame DEF ExitNested, monitorUnused
<1> QED
  BY <1>2, <1>3, <1>4, <1>5, <1>7 DEF IInv, TypeOK

(* The last PR_ExitMonitor flushes the record into `post` and unlocks.     *)
LEMMA ExitLastIInv ==
  ASSUME IInv, NEW t \in Thread, ExitLast(t)
  PROVE  IInv'
<1>0. /\ MonitorTypes /\ ThreadTypes /\ LockPart /\ OwnerPart /\ NotifyPart
      /\ WaitPart /\ InterruptPart /\ AlivePart /\ CvPart
  BY DEF IInv, TypeOK
<1>1. pc \in [Thread -> Pcs]
  BY <1>0 DEF ThreadTypes
<1>2. MonitorTypes'
  <2>1. CASE times = 0
    BY <1>0, <1>1, <2>1, MaxDepthNat DEF MonitorTypes, Broadcast, ExitLast,
       GoTo
  <2>2. CASE times # 0
    BY <1>0, <1>1, <2>2, MaxDepthNat DEF MonitorTypes, Broadcast, ExitLast,
       GoTo
  <2> QED
    BY <2>1, <2>2
<1>3. ThreadTypes'
  <2>1. CASE times = 0
    BY <1>0, <1>1, <2>1 DEF MonitorTypes, ThreadTypes, Pcs, ExitLast, GoTo
  <2>2. CASE times # 0
    BY <1>0, <1>1, <2>2 DEF MonitorTypes, ThreadTypes, Pcs, ExitLast, GoTo
  <2> QED
    BY <2>1, <2>2
<1>4. LockPart'
  <2>1. CASE times = 0
    BY <1>0, <1>1, <2>1, ThreadAssumption DEF LockPart, OwnerPart, HoldPcs,
       ExitLast, GoTo
  <2>2. CASE times # 0
    BY <1>0, <1>1, <2>2, ThreadAssumption DEF LockPart, OwnerPart, HoldPcs,
       ExitLast, GoTo
  <2> QED
    BY <2>1, <2>2
<1>5. OwnerPart'
  <2>1. CASE times = 0
    BY <1>0, <1>1, <2>1, MaxDepthNat, ThreadAssumption DEF MonitorTypes,
       OwnerPart, LockPart, HoldPcs, IntrPcs, ExitLast, GoTo
  <2>2. CASE times # 0
    BY <1>0, <1>1, <2>2, MaxDepthNat, ThreadAssumption DEF MonitorTypes,
       OwnerPart, LockPart, HoldPcs, IntrPcs, ExitLast, GoTo
  <2> QED
    BY <2>1, <2>2
<1>6. NotifyPart'
  <2>1. CASE times = 0
    BY <1>0, <1>1, <2>1, ThreadAssumption DEF NotifyPart, LockPart, ExitLast,
       GoTo
  <2>2. CASE times # 0
    BY <1>0, <1>1, <2>2, ThreadAssumption DEF NotifyPart, LockPart, ExitLast,
       GoTo
  <2> QED
    BY <2>1, <2>2
<1>7. WaitPart'
  <2>1. CASE times = 0
    BY <1>0, <1>1, <2>1 DEF WaitPart, WaitPcs, ExitLast, GoTo
  <2>2. CASE times # 0
    BY <1>0, <1>1, <2>2 DEF WaitPart, WaitPcs, ExitLast, GoTo
  <2> QED
    BY <2>1, <2>2
<1>8. InterruptPart'
  <2>1. CASE times = 0
    BY <1>0, <1>1, <2>1 DEF InterruptPart, ExitLast, GoTo
  <2>2. CASE times # 0
    BY <1>0, <1>1, <2>2 DEF InterruptPart, ExitLast, GoTo
  <2> QED
    BY <2>1, <2>2
<1>9. AlivePart'
  <2>1. CASE times = 0
    BY <1>0, <1>1, <2>1 DEF AlivePart, IntrPcs, ExitLast, GoTo
  <2>2. CASE times # 0
    BY <1>0, <1>1, <2>2 DEF AlivePart, IntrPcs, ExitLast, GoTo
  <2> QED
    BY <2>1, <2>2
<1>10. CvPart'
  <2>1. CASE times = 0
    <3>1. Posters' = Posters
      BY <1>0, <1>1, <2>1 DEF Posters, PostPcs, ExitLast, GoTo
    <3> QED
      BY <1>0, <2>1, <3>1, CvPartFrame DEF ExitLast
  <2>2. CASE times # 0
    <3>1. t \notin Posters /\ Posters' = Posters \cup {t}
      BY <1>0, <1>1, <2>2 DEF Posters, PostPcs, ExitLast, GoTo
    <3>2. Cardinality(Posters') = Cardinality(Posters) + 1
      BY <3>1, OneMorePoster
    <3>3. cvAlive' <=> (alive' \/ Posters' # {})
      BY <1>0, <3>1, ThreadAssumption
         DEF CvPart, AlivePart, LockPart, HoldPcs, ExitLast
    <3>4. cvAlive' => notifyPending' = Refs'
      BY <1>0, <2>2, <3>2, PostersFinite DEF CvPart, Refs, ExitLast
    <3> QED
      BY <3>3, <3>4 DEF CvPart
  <2> QED
    BY <2>1, <2>2
<1> QED
  BY <1>2, <1>3, <1>4, <1>5, <1>6, <1>7, <1>8, <1>9, <1>10 DEF IInv, TypeOK

(* One signal or broadcast of pt_PostNotifies.                             *)
LEMMA PostNotifyIInv ==
  ASSUME IInv, NEW t \in Thread, PostNotify(t)
  PROVE  IInv'
<1>0. /\ MonitorTypes /\ ThreadTypes /\ LockPart /\ OwnerPart /\ NotifyPart
      /\ WaitPart /\ InterruptPart /\ AlivePart /\ CvPart
  BY DEF IInv, TypeOK
<1>1. pc \in [Thread -> Pcs]
  BY <1>0 DEF ThreadTypes
<1>2. MonitorTypes'
  BY <1>0, <1>1 DEF MonitorTypes, PostNotify
<1>3. ThreadTypes'
  BY <1>0, <1>1 DEF ThreadTypes, Pcs, WaitPcs, IntrPcs, PostNotify
<1>4. LockPart' /\ OwnerPart' /\ NotifyPart'
  BY <1>0, <1>1, ThreadAssumption DEF LockPart, OwnerPart, NotifyPart,
     HoldPcs, IntrPcs, PostNotify
<1>5. WaitPart' /\ InterruptPart' /\ AlivePart'
  BY <1>0, <1>1 DEF WaitPart, InterruptPart, AlivePart, WaitPcs, IntrPcs,
     PostNotify
<1>6. Posters' = Posters
  BY <1>0, <1>1 DEF Posters, PostPcs, PostNotify
<1>7. CvPart'
  BY <1>0, <1>6, CvPartFrame DEF PostNotify
<1> QED
  BY <1>2, <1>3, <1>4, <1>5, <1>7 DEF IInv, TypeOK

(* A notifier drops its reference and others remain.                       *)
LEMMA PostDoneIInv ==
  ASSUME IInv, NEW t \in Thread, PostDone(t)
  PROVE  IInv'
<1>0. /\ MonitorTypes /\ ThreadTypes /\ LockPart /\ OwnerPart /\ NotifyPart
      /\ WaitPart /\ InterruptPart /\ AlivePart /\ CvPart
  BY DEF IInv, TypeOK
<1>1. pc \in [Thread -> Pcs]
  BY <1>0 DEF ThreadTypes
<1>2. MonitorTypes'
  BY <1>0, <1>1 DEF MonitorTypes, PostDone, GoTo
<1>3. ThreadTypes'
  <2>1. CASE pc[t] = "post"
    BY <1>0, <1>1, <2>1 DEF ThreadTypes, Pcs, WaitPcs, IntrPcs, PostDone,
       GoTo, AfterPost
  <2>2. CASE pc[t] = "postw"
    BY <1>0, <1>1, <2>2 DEF ThreadTypes, Pcs, WaitPcs, IntrPcs, PostDone,
       GoTo, AfterPost
  <2> QED
    BY <2>1, <2>2 DEF PostDone, PostPcs
<1>4. LockPart'
  <2>1. CASE pc[t] = "post"
    BY <1>0, <1>1, <2>1, ThreadAssumption DEF LockPart, OwnerPart, HoldPcs,
       PostDone, GoTo, AfterPost
  <2>2. CASE pc[t] = "postw"
    BY <1>0, <1>1, <2>2, ThreadAssumption DEF LockPart, OwnerPart, HoldPcs,
       PostDone, GoTo, AfterPost
  <2> QED
    BY <2>1, <2>2 DEF PostDone, PostPcs
<1>5. OwnerPart'
  <2>1. CASE pc[t] = "post"
    BY <1>0, <1>1, <2>1, MaxDepthNat, ThreadAssumption DEF MonitorTypes,
       OwnerPart, LockPart, HoldPcs, IntrPcs, PostDone, GoTo, AfterPost
  <2>2. CASE pc[t] = "postw"
    BY <1>0, <1>1, <2>2, MaxDepthNat, ThreadAssumption DEF MonitorTypes,
       OwnerPart, LockPart, HoldPcs, IntrPcs, PostDone, GoTo, AfterPost
  <2> QED
    BY <2>1, <2>2 DEF PostDone, PostPcs
<1>6. NotifyPart'
  <2>1. CASE pc[t] = "post"
    BY <1>0, <1>1, <2>1, ThreadAssumption DEF NotifyPart, LockPart, PostDone,
       GoTo, AfterPost
  <2>2. CASE pc[t] = "postw"
    BY <1>0, <1>1, <2>2, ThreadAssumption DEF NotifyPart, LockPart, PostDone,
       GoTo, AfterPost
  <2> QED
    BY <2>1, <2>2 DEF PostDone, PostPcs
<1>7. WaitPart'
  <2>1. CASE pc[t] = "post"
    BY <1>0, <1>1, <2>1 DEF WaitPart, WaitPcs, PostDone, GoTo, AfterPost
  <2>2. CASE pc[t] = "postw"
    BY <1>0, <1>1, <2>2 DEF WaitPart, WaitPcs, PostDone, GoTo, AfterPost
  <2> QED
    BY <2>1, <2>2 DEF PostDone, PostPcs
<1>8. InterruptPart'
  <2>1. CASE pc[t] = "post"
    BY <1>0, <1>1, <2>1 DEF InterruptPart, PostDone, GoTo, AfterPost
  <2>2. CASE pc[t] = "postw"
    BY <1>0, <1>1, <2>2 DEF InterruptPart, PostDone, GoTo, AfterPost
  <2> QED
    BY <2>1, <2>2 DEF PostDone, PostPcs
<1>9. AlivePart'
  <2>1. CASE pc[t] = "post"
    BY <1>0, <1>1, <2>1 DEF AlivePart, IntrPcs, PostDone, GoTo, AfterPost
  <2>2. CASE pc[t] = "postw"
    BY <1>0, <1>1, <2>2 DEF AlivePart, IntrPcs, PostDone, GoTo, AfterPost
  <2> QED
    BY <2>1, <2>2 DEF PostDone, PostPcs
<1>10. t \in Posters /\ Posters' = Posters \ {t}
  <2>1. CASE pc[t] = "post"
    BY <1>1, <2>1 DEF Posters, PostPcs, PostDone, GoTo, AfterPost
  <2>2. CASE pc[t] = "postw"
    BY <1>1, <2>2 DEF Posters, PostPcs, PostDone, GoTo, AfterPost
  <2> QED
    BY <2>1, <2>2 DEF PostDone, PostPcs
<1>11. Cardinality(Posters) > 0
  BY <1>10, OneLessPoster
<1>12. Cardinality(Posters') = Cardinality(Posters) - 1
  BY <1>10, OneLessPoster
<1>13. Posters' = {} <=> Cardinality(Posters) = 1
  BY <1>10, OneLessPoster
<1>14. ~alive => times = 0
  BY <1>0, FreeMeansFlushed DEF AlivePart
<1>15. CvPart'
  <2>1. cvAlive
    BY <1>0, <1>10 DEF CvPart
  <2>2. notifyPending = Refs
    BY <1>0, <2>1 DEF CvPart
  <2>3. CASE alive
    <3>1. notifyPending' = Refs'
      BY <1>12, <2>2, <2>3, PostersFinite DEF Refs, PostDone
    <3> QED
      BY <2>1, <2>3, <3>1 DEF CvPart, PostDone
  <2>4. CASE ~alive
    <3>1. notifyPending = Cardinality(Posters) - 1
      BY <1>14, <2>2, <2>4, PostersFinite DEF Refs
    <3>2. notifyPending' = Refs'
      BY <1>12, <1>14, <2>4, <3>1, PostersFinite DEF Refs, PostDone
    <3>3. Cardinality(Posters) # 1
      BY <3>1, PostersFinite DEF PostDone
    <3> QED
      BY <1>13, <2>1, <3>2, <3>3 DEF CvPart, PostDone
  <2> QED
    BY <2>3, <2>4
<1> QED
  BY <1>2, <1>3, <1>4, <1>5, <1>6, <1>7, <1>8, <1>9, <1>15 DEF IInv, TypeOK

(* The notifier that finds the count exhausted frees the cv.               *)
LEMMA PostLastIInv ==
  ASSUME IInv, NEW t \in Thread, PostLast(t)
  PROVE  IInv'
<1>0. /\ MonitorTypes /\ ThreadTypes /\ LockPart /\ OwnerPart /\ NotifyPart
      /\ WaitPart /\ InterruptPart /\ AlivePart /\ CvPart
  BY DEF IInv, TypeOK
<1>1. pc \in [Thread -> Pcs]
  BY <1>0 DEF ThreadTypes
<1>2. MonitorTypes'
  <2>1. cvAlive' = FALSE /\ notifyPending' \in Int
    BY <1>0 DEF MonitorTypes, PostLast
  <2> QED
    BY <1>0, <2>1 DEF MonitorTypes, PostLast
<1>3. ThreadTypes'
  <2>1. CASE pc[t] = "post"
    BY <1>0, <1>1, <2>1 DEF ThreadTypes, Pcs, WaitPcs, IntrPcs, PostLast,
       GoTo, AfterPost
  <2>2. CASE pc[t] = "postw"
    BY <1>0, <1>1, <2>2 DEF ThreadTypes, Pcs, WaitPcs, IntrPcs, PostLast,
       GoTo, AfterPost
  <2> QED
    BY <2>1, <2>2 DEF PostLast, PostPcs
<1>4. LockPart'
  <2>1. CASE pc[t] = "post"
    BY <1>0, <1>1, <2>1, ThreadAssumption DEF LockPart, OwnerPart, HoldPcs,
       PostLast, GoTo, AfterPost
  <2>2. CASE pc[t] = "postw"
    BY <1>0, <1>1, <2>2, ThreadAssumption DEF LockPart, OwnerPart, HoldPcs,
       PostLast, GoTo, AfterPost
  <2> QED
    BY <2>1, <2>2 DEF PostLast, PostPcs
<1>5. OwnerPart'
  <2>1. CASE pc[t] = "post"
    BY <1>0, <1>1, <2>1, MaxDepthNat, ThreadAssumption DEF MonitorTypes,
       OwnerPart, LockPart, HoldPcs, IntrPcs, PostLast, GoTo, AfterPost
  <2>2. CASE pc[t] = "postw"
    BY <1>0, <1>1, <2>2, MaxDepthNat, ThreadAssumption DEF MonitorTypes,
       OwnerPart, LockPart, HoldPcs, IntrPcs, PostLast, GoTo, AfterPost
  <2> QED
    BY <2>1, <2>2 DEF PostLast, PostPcs
<1>6. NotifyPart'
  <2>1. CASE pc[t] = "post"
    BY <1>0, <1>1, <2>1, ThreadAssumption DEF NotifyPart, LockPart, PostLast,
       GoTo, AfterPost
  <2>2. CASE pc[t] = "postw"
    BY <1>0, <1>1, <2>2, ThreadAssumption DEF NotifyPart, LockPart, PostLast,
       GoTo, AfterPost
  <2> QED
    BY <2>1, <2>2 DEF PostLast, PostPcs
<1>7. WaitPart'
  <2>1. CASE pc[t] = "post"
    BY <1>0, <1>1, <2>1 DEF WaitPart, WaitPcs, PostLast, GoTo, AfterPost
  <2>2. CASE pc[t] = "postw"
    BY <1>0, <1>1, <2>2 DEF WaitPart, WaitPcs, PostLast, GoTo, AfterPost
  <2> QED
    BY <2>1, <2>2 DEF PostLast, PostPcs
<1>8. InterruptPart'
  <2>1. CASE pc[t] = "post"
    BY <1>0, <1>1, <2>1 DEF InterruptPart, PostLast, GoTo, AfterPost
  <2>2. CASE pc[t] = "postw"
    BY <1>0, <1>1, <2>2 DEF InterruptPart, PostLast, GoTo, AfterPost
  <2> QED
    BY <2>1, <2>2 DEF PostLast, PostPcs
<1>9. AlivePart'
  <2>1. CASE pc[t] = "post"
    BY <1>0, <1>1, <2>1 DEF AlivePart, IntrPcs, PostLast, GoTo, AfterPost
  <2>2. CASE pc[t] = "postw"
    BY <1>0, <1>1, <2>2 DEF AlivePart, IntrPcs, PostLast, GoTo, AfterPost
  <2> QED
    BY <2>1, <2>2 DEF PostLast, PostPcs
<1>10. t \in Posters /\ Posters' = Posters \ {t}
  <2>1. CASE pc[t] = "post"
    BY <1>1, <2>1 DEF Posters, PostPcs, PostLast, GoTo, AfterPost
  <2>2. CASE pc[t] = "postw"
    BY <1>1, <2>2 DEF Posters, PostPcs, PostLast, GoTo, AfterPost
  <2> QED
    BY <2>1, <2>2 DEF PostLast, PostPcs
<1>11. Cardinality(Posters) > 0
  BY <1>10, OneLessPoster
<1>12. Cardinality(Posters') = Cardinality(Posters) - 1
  BY <1>10, OneLessPoster
<1>13. Posters' = {} <=> Cardinality(Posters) = 1
  BY <1>10, OneLessPoster
<1>14. ~alive => times = 0
  BY <1>0, FreeMeansFlushed DEF AlivePart
<1>15. CvPart'
  <2>1. cvAlive
    BY <1>0, <1>10 DEF CvPart
  <2>2. notifyPending = Refs
    BY <1>0, <2>1 DEF CvPart
  <2>3. CASE alive
    <3>1. notifyPending >= Cardinality(Posters)
      BY <2>2, <2>3, PostersFinite DEF Refs
    <3>2. FALSE
      BY <1>0, <1>11, <3>1, PostersFinite DEF MonitorTypes, PostLast
    <3> QED
      BY <3>2
  <2>4. CASE ~alive
    <3>1. notifyPending = Cardinality(Posters) - 1
      BY <1>14, <2>2, <2>4, PostersFinite DEF Refs
    <3>2. Cardinality(Posters) = 1
      BY <1>11, <3>1, PostersFinite DEF PostLast
    <3> QED
      BY <1>13, <2>4, <3>2 DEF CvPart, PostLast
  <2> QED
    BY <2>3, <2>4
<1> QED
  BY <1>2, <1>3, <1>4, <1>5, <1>6, <1>7, <1>8, <1>9, <1>15 DEF IInv, TypeOK

(* PR_Wait with an interrupt pending returns at once.                      *)
LEMMA WaitAbortedIInv ==
  ASSUME IInv, NEW t \in Thread, WaitAborted(t)
  PROVE  IInv'
<1>0. /\ MonitorTypes /\ ThreadTypes /\ LockPart /\ OwnerPart /\ NotifyPart
      /\ WaitPart /\ InterruptPart /\ AlivePart /\ CvPart
  BY DEF IInv, TypeOK
<1>1. pc \in [Thread -> Pcs]
  BY <1>0 DEF ThreadTypes
<1>2. MonitorTypes'
  BY <1>0, <1>1, Int16Exact DEF MonitorTypes, WaitAborted
<1>3. ThreadTypes'
  BY <1>0, <1>1 DEF ThreadTypes, Pcs, WaitPcs, IntrPcs, WaitAborted
<1>4. LockPart'
  BY <1>0, <1>1, ThreadAssumption DEF LockPart, OwnerPart, HoldPcs,
     WaitAborted
<1>5. OwnerPart'
  BY <1>0, <1>1, Int16Exact DEF MonitorTypes, OwnerPart, IntrPcs, WaitAborted
<1>6. NotifyPart'
  BY <1>0, <1>1, ThreadAssumption DEF NotifyPart, LockPart, WaitAborted
<1>7. WaitPart'
  BY <1>0, <1>1 DEF WaitPart, WaitPcs, WaitAborted
<1>8. InterruptPart'
  BY <1>0, <1>1 DEF InterruptPart, WaitAborted
<1>9. AlivePart'
  BY <1>0, <1>1 DEF AlivePart, IntrPcs, WaitAborted
<1>10. Posters' = Posters
  BY <1>0, <1>1 DEF Posters, PostPcs, WaitAborted
<1>11. CvPart'
  BY <1>0, <1>10, CvPartFrame DEF WaitAborted
<1> QED
  BY <1>2, <1>3, <1>4, <1>5, <1>6, <1>7, <1>8, <1>9, <1>11 DEF IInv, TypeOK

(* PR_Wait puts the entry count away.                                      *)
LEMMA WaitBeginIInv ==
  ASSUME IInv, NEW t \in Thread, WaitBegin(t)
  PROVE  IInv'
<1>0. /\ MonitorTypes /\ ThreadTypes /\ LockPart /\ OwnerPart /\ NotifyPart
      /\ WaitPart /\ InterruptPart /\ AlivePart /\ CvPart
  BY DEF IInv, TypeOK
<1>1. pc \in [Thread -> Pcs]
  BY <1>0 DEF ThreadTypes
<1>2. MonitorTypes'
  BY <1>0, <1>1, MaxDepthNat DEF MonitorTypes, WaitBegin, GoTo
<1>3. ThreadTypes'
  BY <1>0, <1>1, Int16Exact DEF MonitorTypes, ThreadTypes, Pcs, WaitPcs,
     WaitBegin, GoTo
<1>4. LockPart'
  BY <1>0, <1>1, ThreadAssumption DEF LockPart, OwnerPart, HoldPcs, WaitBegin,
     GoTo
<1>5. OwnerPart'
  BY <1>0, <1>1, MaxDepthNat, ThreadAssumption DEF MonitorTypes, OwnerPart,
     LockPart, HoldPcs, IntrPcs, WaitBegin, GoTo
<1>6. NotifyPart'
  BY <1>0, <1>1, ThreadAssumption DEF NotifyPart, LockPart, WaitBegin, GoTo
<1>7. WaitPart'
  BY <1>0, <1>1, Int16Exact, ThreadAssumption DEF MonitorTypes, ThreadTypes,
     OwnerPart, WaitPart, WaitPcs, WaitBegin, GoTo
<1>8. InterruptPart'
  BY <1>0, <1>1 DEF InterruptPart, WaitBegin, GoTo
<1>9. AlivePart'
  BY <1>0, <1>1, ThreadAssumption DEF AlivePart, LockPart, WaitBegin, GoTo
<1>10. Posters' = Posters
  BY <1>0, <1>1 DEF Posters, PostPcs, WaitBegin, GoTo
<1>11. CvPart'
  BY <1>0, <1>10, CvPartFrame DEF WaitBegin, GoTo
<1> QED
  BY <1>2, <1>3, <1>4, <1>5, <1>6, <1>7, <1>8, <1>9, <1>11 DEF IInv, TypeOK

(* PR_WaitCondVar flushes the record while it holds the mutex.             *)
LEMMA WaitSetIInv ==
  ASSUME IInv, NEW t \in Thread, WaitSet(t)
  PROVE  IInv'
<1>0. /\ MonitorTypes /\ ThreadTypes /\ LockPart /\ OwnerPart /\ NotifyPart
      /\ WaitPart /\ InterruptPart /\ AlivePart /\ CvPart
  BY DEF IInv, TypeOK
<1>1. pc \in [Thread -> Pcs]
  BY <1>0 DEF ThreadTypes
<1>2. MonitorTypes'
  <2>1. CASE times = 0
    BY <1>0, <1>1, <2>1 DEF MonitorTypes, Broadcast, WaitSet, GoTo
  <2>2. CASE times # 0
    BY <1>0, <1>1, <2>2 DEF MonitorTypes, Broadcast, WaitSet, GoTo
  <2> QED
    BY <2>1, <2>2
<1>3. ThreadTypes'
  <2>1. CASE times = 0
    BY <1>0, <1>1, <2>1 DEF MonitorTypes, ThreadTypes, Pcs, WaitPcs, WaitSet,
       GoTo
  <2>2. CASE times # 0
    BY <1>0, <1>1, <2>2 DEF MonitorTypes, ThreadTypes, Pcs, WaitPcs, WaitSet,
       GoTo
  <2> QED
    BY <2>1, <2>2
<1>4. LockPart'
  <2>1. CASE times = 0
    BY <1>0, <1>1, <2>1, ThreadAssumption DEF LockPart, OwnerPart, HoldPcs,
       WaitSet, GoTo
  <2>2. CASE times # 0
    BY <1>0, <1>1, <2>2, ThreadAssumption DEF LockPart, OwnerPart, HoldPcs,
       WaitSet, GoTo
  <2> QED
    BY <2>1, <2>2
<1>5. OwnerPart'
  <2>1. CASE times = 0
    BY <1>0, <1>1, <2>1, MaxDepthNat, ThreadAssumption DEF MonitorTypes,
       OwnerPart, LockPart, HoldPcs, IntrPcs, WaitSet, GoTo
  <2>2. CASE times # 0
    BY <1>0, <1>1, <2>2, MaxDepthNat, ThreadAssumption DEF MonitorTypes,
       OwnerPart, LockPart, HoldPcs, IntrPcs, WaitSet, GoTo
  <2> QED
    BY <2>1, <2>2
<1>6. NotifyPart'
  <2>1. CASE times = 0
    BY <1>0, <1>1, <2>1, ThreadAssumption DEF NotifyPart, LockPart, WaitSet,
       GoTo
  <2>2. CASE times # 0
    BY <1>0, <1>1, <2>2, ThreadAssumption DEF NotifyPart, LockPart, WaitSet,
       GoTo
  <2> QED
    BY <2>1, <2>2
<1>7. WaitPart'
  <2>1. CASE times = 0
    BY <1>0, <1>1, <2>1 DEF WaitPart, WaitPcs, WaitSet, GoTo
  <2>2. CASE times # 0
    BY <1>0, <1>1, <2>2 DEF WaitPart, WaitPcs, WaitSet, GoTo
  <2> QED
    BY <2>1, <2>2
<1>8. InterruptPart'
  <2>1. CASE times = 0
    BY <1>0, <1>1, <2>1 DEF InterruptPart, WaitSet, GoTo
  <2>2. CASE times # 0
    BY <1>0, <1>1, <2>2 DEF InterruptPart, WaitSet, GoTo
  <2> QED
    BY <2>1, <2>2
<1>9. AlivePart'
  <2>1. CASE times = 0
    BY <1>0, <1>1, <2>1 DEF AlivePart, IntrPcs, WaitSet, GoTo
  <2>2. CASE times # 0
    BY <1>0, <1>1, <2>2 DEF AlivePart, IntrPcs, WaitSet, GoTo
  <2> QED
    BY <2>1, <2>2
<1>10. CvPart'
  <2>1. CASE times = 0
    <3>1. Posters' = Posters
      BY <1>0, <1>1, <2>1 DEF Posters, PostPcs, WaitSet, GoTo
    <3> QED
      BY <1>0, <2>1, <3>1, CvPartFrame DEF WaitSet
  <2>2. CASE times # 0
    <3>1. t \notin Posters /\ Posters' = Posters \cup {t}
      BY <1>0, <1>1, <2>2 DEF Posters, PostPcs, WaitSet, GoTo
    <3>2. Cardinality(Posters') = Cardinality(Posters) + 1
      BY <3>1, OneMorePoster
    <3>3. cvAlive' <=> (alive' \/ Posters' # {})
      BY <1>0, <3>1, ThreadAssumption
         DEF CvPart, AlivePart, LockPart, HoldPcs, WaitSet
    <3>4. cvAlive' => notifyPending' = Refs'
      BY <1>0, <2>2, <3>2, PostersFinite DEF CvPart, Refs, WaitSet
    <3> QED
      BY <3>3, <3>4 DEF CvPart
  <2> QED
    BY <2>1, <2>2
<1> QED
  BY <1>2, <1>3, <1>4, <1>5, <1>6, <1>7, <1>8, <1>9, <1>10 DEF IInv, TypeOK

(* pthread_cond_wait gives the mutex up.                                   *)
LEMMA WaitBlockIInv ==
  ASSUME IInv, NEW t \in Thread, WaitBlock(t)
  PROVE  IInv'
<1>0. /\ MonitorTypes /\ ThreadTypes /\ LockPart /\ OwnerPart /\ NotifyPart
      /\ WaitPart /\ InterruptPart /\ AlivePart /\ CvPart
  BY DEF IInv, TypeOK
<1>1. pc \in [Thread -> Pcs]
  BY <1>0 DEF ThreadTypes
<1>2. MonitorTypes'
  BY <1>0, <1>1 DEF MonitorTypes, WaitBlock, GoTo
<1>3. ThreadTypes'
  BY <1>0, <1>1 DEF ThreadTypes, Pcs, WaitPcs, IntrPcs, WaitBlock, GoTo
<1>4. LockPart'
  BY <1>0, <1>1, ThreadAssumption DEF LockPart, OwnerPart, HoldPcs, IntrPcs,
     WaitBlock, GoTo
<1>5. OwnerPart'
  BY <1>0, <1>1, MaxDepthNat, ThreadAssumption DEF MonitorTypes, OwnerPart,
     LockPart, HoldPcs, IntrPcs, WaitBlock, GoTo
<1>6. NotifyPart'
  BY <1>0, <1>1, ThreadAssumption DEF NotifyPart, LockPart, WaitBlock, GoTo
<1>7. WaitPart'
  BY <1>0, <1>1 DEF WaitPart, WaitPcs, WaitBlock, GoTo
<1>8. InterruptPart'
  BY <1>0, <1>1 DEF InterruptPart, WaitBlock, GoTo
<1>9. AlivePart'
  BY <1>0, <1>1 DEF AlivePart, IntrPcs, WaitBlock, GoTo
<1>10. Posters' = Posters
  BY <1>0, <1>1 DEF Posters, PostPcs, WaitBlock, GoTo
<1>11. CvPart'
  BY <1>0, <1>10, CvPartFrame DEF WaitBlock, GoTo
<1> QED
  BY <1>2, <1>3, <1>4, <1>5, <1>6, <1>7, <1>8, <1>9, <1>11 DEF IInv, TypeOK

(* A wait ends by itself.                                                  *)
LEMMA WaitTimeoutIInv ==
  ASSUME IInv, NEW t \in Thread, WaitTimeout(t)
  PROVE  IInv'
<1>0. /\ MonitorTypes /\ ThreadTypes /\ LockPart /\ OwnerPart /\ NotifyPart
      /\ WaitPart /\ InterruptPart /\ AlivePart /\ CvPart
  BY DEF IInv, TypeOK
<1>1. pc \in [Thread -> Pcs]
  BY <1>0 DEF ThreadTypes
<1>2. MonitorTypes'
  BY <1>0, <1>1 DEF MonitorTypes, WaitTimeout
<1>3. ThreadTypes'
  BY <1>0, <1>1 DEF ThreadTypes, Pcs, WaitPcs, IntrPcs, WaitTimeout
<1>4. LockPart' /\ OwnerPart' /\ NotifyPart'
  BY <1>0, <1>1, ThreadAssumption DEF LockPart, OwnerPart, NotifyPart,
     HoldPcs, IntrPcs, WaitTimeout
<1>5. WaitPart' /\ InterruptPart' /\ AlivePart'
  BY <1>0, <1>1 DEF WaitPart, InterruptPart, AlivePart, WaitPcs, IntrPcs,
     WaitTimeout
<1>6. Posters' = Posters
  BY <1>0, <1>1 DEF Posters, PostPcs, WaitTimeout
<1>7. CvPart'
  BY <1>0, <1>6, CvPartFrame DEF WaitTimeout
<1> QED
  BY <1>2, <1>3, <1>4, <1>5, <1>7 DEF IInv, TypeOK

(* pthread_cond_wait returns; PR_Wait restores owner and count.            *)
LEMMA WaitReturnIInv ==
  ASSUME IInv, NEW t \in Thread, WaitReturn(t)
  PROVE  IInv'
<1>0. /\ MonitorTypes /\ ThreadTypes /\ LockPart /\ OwnerPart /\ NotifyPart
      /\ WaitPart /\ InterruptPart /\ AlivePart /\ CvPart
  BY DEF IInv, TypeOK
<1>1. pc \in [Thread -> Pcs]
  BY <1>0 DEF ThreadTypes
<1>2. MonitorTypes'
  BY <1>0, <1>1 DEF MonitorTypes, ThreadTypes, WaitReturn, GoTo
<1>3. ThreadTypes'
  BY <1>0, <1>1, MaxDepthNat DEF ThreadTypes, Pcs, WaitReturn, GoTo
<1>4. LockPart'
  BY <1>0, <1>1, ThreadAssumption DEF LockPart, OwnerPart, HoldPcs,
     WaitReturn, GoTo
<1>5. OwnerPart'
  BY <1>0, <1>1, ThreadAssumption, MaxDepthNat DEF MonitorTypes, ThreadTypes,
     OwnerPart, LockPart, WaitPart, WaitPcs, WaitReturn, GoTo
<1>6. NotifyPart'
  BY <1>0, <1>1, ThreadAssumption DEF NotifyPart, LockPart, WaitReturn, GoTo
<1>7. WaitPart'
  BY <1>0, <1>1 DEF WaitPart, WaitPcs, WaitReturn, GoTo
<1>8. InterruptPart'
  BY <1>0, <1>1 DEF InterruptPart, WaitReturn, GoTo
<1>9. AlivePart'
  BY <1>0, <1>1 DEF AlivePart, IntrPcs, WaitReturn, GoTo
<1>10. Posters' = Posters
  BY <1>0, <1>1 DEF Posters, PostPcs, WaitReturn, GoTo
<1>11. CvPart'
  BY <1>0, <1>10, CvPartFrame DEF WaitReturn, GoTo
<1> QED
  BY <1>2, <1>3, <1>4, <1>5, <1>6, <1>7, <1>8, <1>9, <1>11 DEF IInv, TypeOK

(* PR_Notify records one more signal.                                      *)
LEMMA NotifyIInv ==
  ASSUME IInv, NEW t \in Thread, Notify(t)
  PROVE  IInv'
<1>0. /\ MonitorTypes /\ ThreadTypes /\ LockPart /\ OwnerPart /\ NotifyPart
      /\ WaitPart /\ InterruptPart /\ AlivePart /\ CvPart
  BY DEF IInv, TypeOK
<1>1. pc \in [Thread -> Pcs]
  BY <1>0 DEF ThreadTypes
<1>2. MonitorTypes'
  <2>1. CASE times = 0
    BY <1>0, <1>1, <2>1 DEF MonitorTypes, Broadcast, Notify, RecordNotify
  <2>2. CASE times # 0
    BY <1>0, <1>1, <2>2 DEF MonitorTypes, Broadcast, Notify, RecordNotify
  <2> QED
    BY <2>1, <2>2
<1>3. ThreadTypes'
  BY <1>0, <1>1 DEF ThreadTypes, Pcs, WaitPcs, IntrPcs, Notify, RecordNotify
<1>4. LockPart'
  BY <1>0, <1>1, ThreadAssumption DEF LockPart, OwnerPart, HoldPcs, Notify,
     RecordNotify
<1>5. OwnerPart'
  BY <1>0, <1>1, MaxDepthNat, ThreadAssumption DEF MonitorTypes, OwnerPart,
     LockPart, HoldPcs, IntrPcs, Notify, RecordNotify
<1>6. NotifyPart'
  <2>1. CASE times = 0
    BY <1>0, <1>1, <2>1, ThreadAssumption DEF NotifyPart, LockPart, Notify,
       RecordNotify
  <2>2. CASE times # 0
    BY <1>0, <1>1, <2>2, ThreadAssumption DEF NotifyPart, LockPart, Notify,
       RecordNotify
  <2> QED
    BY <2>1, <2>2
<1>7. WaitPart'
  BY <1>0, <1>1 DEF WaitPart, WaitPcs, Notify, RecordNotify
<1>8. InterruptPart'
  BY <1>0, <1>1 DEF InterruptPart, Notify, RecordNotify
<1>9. AlivePart'
  BY <1>0, <1>1 DEF AlivePart, IntrPcs, Notify, RecordNotify
<1>10. Posters' = Posters
  BY DEF Posters, Notify, RecordNotify
<1>11. CvPart'
  <2>1. CASE times = 0
    BY <1>0, <1>10, <2>1, PostersFinite
       DEF MonitorTypes, CvPart, Refs, Broadcast, Notify, RecordNotify
  <2>2. CASE times # 0
    BY <1>0, <1>10, <2>2, PostersFinite
       DEF MonitorTypes, CvPart, Refs, Broadcast, Notify, RecordNotify
  <2> QED
    BY <2>1, <2>2
<1> QED
  BY <1>2, <1>3, <1>4, <1>5, <1>6, <1>7, <1>8, <1>9, <1>11 DEF IInv, TypeOK

(* PR_NotifyAll records a broadcast.                                       *)
LEMMA NotifyAllIInv ==
  ASSUME IInv, NEW t \in Thread, NotifyAll(t)
  PROVE  IInv'
<1>0. /\ MonitorTypes /\ ThreadTypes /\ LockPart /\ OwnerPart /\ NotifyPart
      /\ WaitPart /\ InterruptPart /\ AlivePart /\ CvPart
  BY DEF IInv, TypeOK
<1>1. pc \in [Thread -> Pcs]
  BY <1>0 DEF ThreadTypes
<1>2. MonitorTypes'
  <2>1. CASE times = 0
    BY <1>0, <1>1, <2>1 DEF MonitorTypes, Broadcast, NotifyAll, RecordNotify
  <2>2. CASE times # 0
    BY <1>0, <1>1, <2>2 DEF MonitorTypes, Broadcast, NotifyAll, RecordNotify
  <2> QED
    BY <2>1, <2>2
<1>3. ThreadTypes'
  BY <1>0, <1>1 DEF ThreadTypes, Pcs, WaitPcs, IntrPcs, NotifyAll,
     RecordNotify
<1>4. LockPart'
  BY <1>0, <1>1, ThreadAssumption DEF LockPart, OwnerPart, HoldPcs, NotifyAll,
     RecordNotify
<1>5. OwnerPart'
  BY <1>0, <1>1, MaxDepthNat, ThreadAssumption DEF MonitorTypes, OwnerPart,
     LockPart, HoldPcs, IntrPcs, NotifyAll, RecordNotify
<1>6. NotifyPart'
  <2>1. CASE times = 0
    BY <1>0, <1>1, <2>1, ThreadAssumption DEF NotifyPart, LockPart, NotifyAll,
       RecordNotify
  <2>2. CASE times # 0
    BY <1>0, <1>1, <2>2, ThreadAssumption DEF NotifyPart, LockPart, NotifyAll,
       RecordNotify
  <2> QED
    BY <2>1, <2>2
<1>7. WaitPart'
  BY <1>0, <1>1 DEF WaitPart, WaitPcs, NotifyAll, RecordNotify
<1>8. InterruptPart'
  BY <1>0, <1>1 DEF InterruptPart, NotifyAll, RecordNotify
<1>9. AlivePart'
  BY <1>0, <1>1 DEF AlivePart, IntrPcs, NotifyAll, RecordNotify
<1>10. Posters' = Posters
  BY DEF Posters, NotifyAll, RecordNotify
<1>11. CvPart'
  <2>1. CASE times = 0
    BY <1>0, <1>10, <2>1, PostersFinite
       DEF MonitorTypes, CvPart, Refs, Broadcast, NotifyAll, RecordNotify
  <2>2. CASE times # 0
    BY <1>0, <1>10, <2>2, PostersFinite
       DEF MonitorTypes, CvPart, Refs, Broadcast, NotifyAll, RecordNotify
  <2> QED
    BY <2>1, <2>2
<1> QED
  BY <1>2, <1>3, <1>4, <1>5, <1>6, <1>7, <1>8, <1>9, <1>11 DEF IInv, TypeOK

(* PR_DestroyMonitor drops the monitor's own reference to the cv.          *)
LEMMA DestroyMonitorIInv ==
  ASSUME IInv, NEW t \in Thread, DestroyMonitor(t)
  PROVE  IInv'
<1>0. /\ MonitorTypes /\ ThreadTypes /\ LockPart /\ OwnerPart /\ NotifyPart
      /\ WaitPart /\ InterruptPart /\ AlivePart /\ CvPart
  BY DEF IInv, TypeOK
<1>1. pc \in [Thread -> Pcs]
  BY <1>0 DEF ThreadTypes
<1>2. MonitorTypes'
  <2>1. alive' \in BOOLEAN /\ cvAlive' \in BOOLEAN
    BY <1>0 DEF MonitorTypes, DestroyMonitor
  <2>2. notifyPending' \in Int
    BY <1>0 DEF MonitorTypes, DestroyMonitor
  <2> QED
    BY <1>0, <2>1, <2>2 DEF MonitorTypes, DestroyMonitor
<1>3. ThreadTypes'
  BY <1>0, <1>1 DEF ThreadTypes, Pcs, WaitPcs, IntrPcs, DestroyMonitor
<1>4. LockPart' /\ OwnerPart' /\ NotifyPart'
  BY <1>0, <1>1, ThreadAssumption DEF LockPart, OwnerPart, NotifyPart,
     HoldPcs, IntrPcs, DestroyMonitor
<1>5. WaitPart' /\ InterruptPart' /\ AlivePart'
  BY <1>0, <1>1 DEF WaitPart, InterruptPart, AlivePart, WaitPcs, IntrPcs,
     DestroyMonitor
<1>6. Posters' = Posters
  BY DEF Posters, DestroyMonitor
<1>7. times = 0
  BY FreeMeansFlushed DEF DestroyMonitor
<1>8. Posters = {} <=> Cardinality(Posters) = 0
  BY PostersFinite, FS_EmptySet
<1>9. CvPart'
  <2>1. cvAlive /\ notifyPending = Cardinality(Posters)
    BY <1>0, <1>7, PostersFinite DEF CvPart, Refs, DestroyMonitor
  <2>2. CASE notifyPending > 0
    BY <1>6, <1>7, <1>8, <2>1, <2>2, PostersFinite
       DEF CvPart, Refs, DestroyMonitor
  <2>3. CASE notifyPending = 0
    BY <1>6, <1>8, <2>1, <2>3 DEF CvPart, DestroyMonitor
  <2> QED
    BY <2>1, <2>2, <2>3, PostersFinite
<1> QED
  BY <1>2, <1>3, <1>4, <1>5, <1>9 DEF IInv, TypeOK

(* PR_Interrupt raises the flag.                                           *)
LEMMA InterruptFlagIInv ==
  ASSUME IInv, NEW t \in Thread, NEW u \in Thread, InterruptFlag(t, u)
  PROVE  IInv'
<1>0. /\ MonitorTypes /\ ThreadTypes /\ LockPart /\ OwnerPart /\ NotifyPart
      /\ WaitPart /\ InterruptPart /\ AlivePart /\ CvPart
  BY DEF IInv, TypeOK
<1>1. pc \in [Thread -> Pcs]
  BY <1>0 DEF ThreadTypes
<1>2. MonitorTypes'
  BY <1>0, <1>1 DEF MonitorTypes, InterruptFlag, GoTo
<1>3. ThreadTypes'
  BY <1>0, <1>1 DEF ThreadTypes, Pcs, WaitPcs, IntrPcs, InterruptFlag, GoTo
<1>4. LockPart'
  BY <1>0, <1>1, ThreadAssumption DEF LockPart, OwnerPart, HoldPcs,
     InterruptFlag, GoTo
<1>5. OwnerPart'
  BY <1>0, <1>1, MaxDepthNat, ThreadAssumption DEF MonitorTypes, OwnerPart,
     LockPart, HoldPcs, IntrPcs, InterruptFlag, GoTo
<1>6. NotifyPart'
  BY <1>0, <1>1, ThreadAssumption DEF NotifyPart, LockPart, InterruptFlag,
     GoTo
<1>7. WaitPart'
  BY <1>0, <1>1 DEF WaitPart, WaitPcs, InterruptFlag, GoTo
<1>8. InterruptPart'
  BY <1>0, <1>1 DEF ThreadTypes, InterruptPart, InterruptFlag, GoTo
<1>9. AlivePart'
  BY <1>0, <1>1 DEF AlivePart, IntrPcs, InterruptFlag, GoTo
<1>10. Posters' = Posters
  BY <1>0, <1>1 DEF Posters, PostPcs, InterruptFlag, GoTo
<1>11. CvPart'
  BY <1>0, <1>10, CvPartFrame DEF InterruptFlag, GoTo
<1> QED
  BY <1>2, <1>3, <1>4, <1>5, <1>6, <1>7, <1>8, <1>9, <1>11 DEF IInv, TypeOK

(* PR_Interrupt reads the target's `waiting`.                              *)
LEMMA InterruptReadIInv ==
  ASSUME IInv, NEW t \in Thread, InterruptRead(t)
  PROVE  IInv'
<1>0. /\ MonitorTypes /\ ThreadTypes /\ LockPart /\ OwnerPart /\ NotifyPart
      /\ WaitPart /\ InterruptPart /\ AlivePart /\ CvPart
  BY DEF IInv, TypeOK
<1>1. pc \in [Thread -> Pcs]
  BY <1>0 DEF ThreadTypes
<1>2. MonitorTypes'
  BY <1>0, <1>1 DEF MonitorTypes, InterruptRead, GoTo
<1>3. ThreadTypes'
  BY <1>0, <1>1 DEF ThreadTypes, Pcs, WaitPcs, IntrPcs, InterruptRead, GoTo
<1>4. LockPart' /\ OwnerPart' /\ NotifyPart'
  BY <1>0, <1>1, ThreadAssumption DEF LockPart, OwnerPart, NotifyPart,
     HoldPcs, IntrPcs, InterruptRead, GoTo
<1>5. WaitPart' /\ InterruptPart' /\ AlivePart'
  BY <1>0, <1>1 DEF WaitPart, InterruptPart, AlivePart, WaitPcs, IntrPcs,
     InterruptRead, GoTo
<1>6. Posters' = Posters
  BY <1>0, <1>1 DEF Posters, PostPcs, InterruptRead, GoTo
<1>7. CvPart'
  BY <1>0, <1>6, CvPartFrame DEF InterruptRead, GoTo
<1> QED
  BY <1>2, <1>3, <1>4, <1>5, <1>7 DEF IInv, TypeOK

(* PR_Interrupt broadcasts.                                                *)
LEMMA InterruptCastIInv ==
  ASSUME IInv, NEW t \in Thread, InterruptCast(t)
  PROVE  IInv'
<1>0. /\ MonitorTypes /\ ThreadTypes /\ LockPart /\ OwnerPart /\ NotifyPart
      /\ WaitPart /\ InterruptPart /\ AlivePart /\ CvPart
  BY DEF IInv, TypeOK
<1>1. pc \in [Thread -> Pcs]
  BY <1>0 DEF ThreadTypes
<1>2. MonitorTypes'
  BY <1>0, <1>1 DEF MonitorTypes, InterruptCast, GoTo
<1>3. ThreadTypes'
  BY <1>0, <1>1 DEF ThreadTypes, Pcs, WaitPcs, IntrPcs, InterruptCast, GoTo
<1>4. LockPart' /\ OwnerPart' /\ NotifyPart'
  BY <1>0, <1>1, ThreadAssumption DEF LockPart, OwnerPart, NotifyPart,
     HoldPcs, IntrPcs, InterruptCast, GoTo
<1>5. WaitPart' /\ InterruptPart' /\ AlivePart'
  BY <1>0, <1>1 DEF WaitPart, InterruptPart, AlivePart, WaitPcs, IntrPcs,
     InterruptCast, GoTo
<1>6. Posters' = Posters
  BY <1>0, <1>1 DEF Posters, PostPcs, InterruptCast, GoTo
<1>7. CvPart'
  BY <1>0, <1>6, CvPartFrame DEF InterruptCast, GoTo
<1> QED
  BY <1>2, <1>3, <1>4, <1>5, <1>7 DEF IInv, TypeOK

(* PR_ClearInterrupt.                                                      *)
LEMMA ClearInterruptIInv ==
  ASSUME IInv, NEW t \in Thread, ClearInterrupt(t)
  PROVE  IInv'
<1>0. /\ MonitorTypes /\ ThreadTypes /\ LockPart /\ OwnerPart /\ NotifyPart
      /\ WaitPart /\ InterruptPart /\ AlivePart /\ CvPart
  BY DEF IInv, TypeOK
<1>1. pc \in [Thread -> Pcs]
  BY <1>0 DEF ThreadTypes
<1>2. MonitorTypes'
  BY <1>0, <1>1 DEF MonitorTypes, ClearInterrupt
<1>3. ThreadTypes'
  BY <1>0, <1>1 DEF ThreadTypes, Pcs, WaitPcs, IntrPcs, ClearInterrupt
<1>4. LockPart' /\ OwnerPart' /\ NotifyPart'
  BY <1>0, <1>1, ThreadAssumption DEF LockPart, OwnerPart, NotifyPart,
     HoldPcs, IntrPcs, ClearInterrupt
<1>5. WaitPart' /\ InterruptPart' /\ AlivePart'
  BY <1>0, <1>1 DEF WaitPart, InterruptPart, AlivePart, WaitPcs, IntrPcs,
     ClearInterrupt
<1>6. Posters' = Posters
  BY <1>0, <1>1 DEF Posters, PostPcs, ClearInterrupt
<1>7. CvPart'
  BY <1>0, <1>6, CvPartFrame DEF ClearInterrupt
<1> QED
  BY <1>2, <1>3, <1>4, <1>5, <1>7 DEF IInv, TypeOK

(* PR_NewMonitor.                                                          *)
LEMMA NewMonitorIInv ==
  ASSUME IInv, NewMonitor
  PROVE  IInv'
<1>0. /\ MonitorTypes /\ ThreadTypes /\ LockPart /\ OwnerPart /\ NotifyPart
      /\ WaitPart /\ InterruptPart /\ AlivePart /\ CvPart
  BY DEF IInv, TypeOK
<1>1. pc \in [Thread -> Pcs]
  BY <1>0 DEF ThreadTypes
<1>2. MonitorTypes'
  BY <1>0, <1>1 DEF MonitorTypes, NewMonitor
<1>3. ThreadTypes'
  BY <1>0, <1>1 DEF ThreadTypes, Pcs, WaitPcs, IntrPcs, NewMonitor
<1>4. LockPart' /\ OwnerPart' /\ NotifyPart'
  BY <1>0, <1>1, ThreadAssumption DEF LockPart, OwnerPart, NotifyPart,
     HoldPcs, IntrPcs, NewMonitor
<1>5. WaitPart' /\ InterruptPart' /\ AlivePart'
  BY <1>0, <1>1 DEF WaitPart, InterruptPart, AlivePart, WaitPcs, IntrPcs,
     NewMonitor
<1>6. Posters' = {}
  BY DEF Posters, PostPcs, NewMonitor
<1>7. times = 0
  BY <1>0, FreeMeansFlushed DEF AlivePart, NewMonitor
<1>8. CvPart'
  BY <1>6, <1>7, FS_EmptySet DEF CvPart, Refs, NewMonitor
<1> QED
  BY <1>2, <1>3, <1>4, <1>5, <1>8 DEF IInv, TypeOK

(* So every step preserves IInv.                                            *)
LEMMA NextIInv == ASSUME IInv, [Next]_vars PROVE IInv'
<1>1. CASE NewMonitor
  BY <1>1, NewMonitorIInv
<1>2. ASSUME NEW t \in Thread, Running(t) PROVE IInv'
  BY <1>2, EnterAgainIInv, EnterOtherIInv, PostNotifyIInv, PostDoneIInv,
     PostLastIInv, WaitSetIInv, WaitBlockIInv, InterruptReadIInv,
     InterruptCastIInv DEF Running
<1>3. ASSUME NEW t \in Thread, NEW u \in Thread, InterruptFlag(t, u) PROVE IInv'
  BY <1>3, InterruptFlagIInv
<1>4. ASSUME NEW t \in Thread,
             \/ EnterFree(t) \/ EnterBusy(t) \/ EnterLock(t)
             \/ ExitNested(t) \/ ExitLast(t)
      PROVE IInv'
  BY <1>4, EnterFreeIInv, EnterBusyIInv, EnterLockIInv, ExitNestedIInv,
     ExitLastIInv
<1>5. ASSUME NEW t \in Thread,
             \/ WaitAborted(t) \/ WaitBegin(t) \/ WaitTimeout(t) \/ WaitReturn(t)
             \/ Notify(t) \/ NotifyAll(t) \/ DestroyMonitor(t) \/ ClearInterrupt(t)
      PROVE IInv'
  BY <1>5, WaitAbortedIInv, WaitBeginIInv, WaitTimeoutIInv, WaitReturnIInv,
     NotifyIInv, NotifyAllIInv, DestroyMonitorIInv, ClearInterruptIInv
<1>6. CASE UNCHANGED vars
  <2>1. Posters' = Posters
    BY <1>6 DEF vars, Posters
  <2>2. TypeOK'
    BY <1>6 DEF vars, IInv, TypeOK, MonitorTypes, ThreadTypes
  <2>3. LockPart' /\ OwnerPart' /\ NotifyPart'
    BY <1>6 DEF vars, IInv, LockPart, OwnerPart, NotifyPart
  <2>4. WaitPart' /\ InterruptPart' /\ AlivePart'
    BY <1>6 DEF vars, IInv, WaitPart, InterruptPart, AlivePart
  <2>5. CvPart'
    BY <1>6, <2>1, CvPartFrame DEF vars, IInv
  <2> QED
    BY <2>2, <2>3, <2>4, <2>5 DEF IInv
<1> QED
  BY <1>1, <1>2, <1>3, <1>4, <1>5, <1>6 DEF Next

(* IInv holds in every reachable state of ptsynch.c's monitors.            *)
THEOREM IInvAlways == Spec => []IInv
  BY InitIInv, NextIInv, PTL DEF Spec

(* The variables keep their types: in particular no interleaving of        *)
(* PR_EnterMonitor, PR_ExitMonitor and PR_Wait drives entryCount below     *)
(* zero or past the deepest nesting.                                       *)
THEOREM TypeCorrect == Spec => []TypeOK
<1>1. IInv => TypeOK
  BY DEF IInv
<1> QED
  BY <1>1, IInvAlways, PTL

(* The PR_ASSERTs of ptsynch.c on the owner, the entry count and the empty *)
(* notification record hold whenever they are reached.                     *)
THEOREM MonitorAlwaysConsistent == Spec => []MonitorConsistent
<1>1. ASSUME IInv PROVE MonitorConsistent
  <2>1. owner # NoThread => mutex = owner /\ entryCount > 0
    BY <1>1 DEF IInv, TypeOK, MonitorTypes, LockPart, OwnerPart
  <2>2. mutex = NoThread => owner = NoThread /\ entryCount = 0 /\ times = 0
    BY <1>1, FreeMeansFlushed
  <2> QED
    BY <2>1, <2>2 DEF MonitorConsistent
<1> QED
  BY <1>1, IInvAlways, PTL

(* pt_PostNotifies never signals a condition variable that has been freed. *)
THEOREM NotifierAlwaysHoldsCv == Spec => []NotifierHoldsCv
<1>1. ASSUME IInv PROVE NotifierHoldsCv
  <2>1. \A t \in Thread : pc[t] \in PostPcs => cvAlive
    BY <1>1 DEF IInv, CvPart, Posters
  <2>2. times # 0 => alive
    BY <1>1, FreeMeansFlushed DEF IInv, AlivePart
  <2>3. times # 0 => cvAlive
    BY <1>1, <2>2 DEF IInv, CvPart
  <2> QED
    BY <2>1, <2>3 DEF NotifierHoldsCv
<1> QED
  BY <1>1, IInvAlways, PTL

(* No interleaving of PR_DestroyMonitor with late notifiers leaks the      *)
(* condition variable.                                                     *)
THEOREM CvAlwaysReclaimed == Spec => []CvReclaimed
<1>1. ASSUME IInv PROVE CvReclaimed
  BY <1>1 DEF IInv, CvPart, Posters, CvReclaimed
<1> QED
  BY <1>1, IInvAlways, PTL

(***************************************************************************)
(* Refinement: each step of PtMonitor is a step of AbstractMonitor or      *)
(* leaves the abstract state alone.                                        *)
(***************************************************************************)
(* Steps that neither take nor give up the monitor.                        *)
LEMMA StutterSimulates ==
  ASSUME IInv, UNCHANGED <<alive, owner, entryCount, saved>>,
         \A t \in Thread : pc'[t] \in WaitPcs <=> pc[t] \in WaitPcs
  PROVE  UNCHANGED Promise!avars
<1>1. InWait' = InWait
  BY DEF InWait
<1>2. Depths' = Depths
  BY DEF Depths
<1> QED
  BY <1>1, <1>2 DEF Promise!avars

(* PR_EnterMonitor, whichever of its three ways in succeeds.               *)
LEMMA EnterSimulates ==
  ASSUME IInv, NEW t \in Thread, EnterFree(t) \/ EnterAgain(t) \/ EnterLock(t)
  PROVE  Promise!AEnter(t)
<1>1. pc \in [Thread -> Pcs] /\ entryCount \in Nat /\ OwnerPart /\ AlivePart
  BY MaxDepthNat DEF IInv, TypeOK, MonitorTypes, ThreadTypes
<1>2. mutex = NoThread => owner = NoThread /\ entryCount = 0
  BY FreeMeansFlushed
<1>3. /\ pc[t] \notin WaitPcs /\ pc' = [pc EXCEPT ![t] = "idle"]
      /\ owner \in {NoThread, t}
      /\ owner = NoThread => entryCount = 0
      /\ owner' = t /\ entryCount' = entryCount + 1
      /\ UNCHANGED <<alive, saved>>
  BY <1>2, ThreadAssumption
     DEF EnterFree, EnterAgain, EnterLock, Own, GoTo, monitorUnused, WaitPcs
<1>4. alive
  BY <1>1 DEF AlivePart, IntrPcs, EnterFree, EnterAgain, EnterLock
<1>5. InWait' = InWait /\ t \notin InWait
  BY <1>1, <1>3 DEF InWait, WaitPcs
<1>6. Depths' = [Depths EXCEPT ![t] = @ + 1]
  <2>1. Depths'[t] = Depths[t] + 1
    BY <1>1, <1>3, ThreadAssumption DEF Depths, WaitPcs
  <2>2. \A u \in Thread \ {t} : Depths'[u] = Depths[u]
    BY <1>1, <1>3, ThreadAssumption DEF Depths
  <2> QED
    BY <2>1, <2>2 DEF Depths
<1> QED
  BY <1>3, <1>4, <1>5, <1>6 DEF Promise!AEnter

(* PR_ExitMonitor, nested and last.                                        *)
LEMMA ExitSimulates ==
  ASSUME IInv, NEW t \in Thread, ExitNested(t) \/ ExitLast(t)
  PROVE  Promise!AExit(t)
<1>1. /\ pc \in [Thread -> Pcs] /\ entryCount \in Nat
      /\ LockPart /\ OwnerPart /\ AlivePart
  BY MaxDepthNat DEF IInv, TypeOK, MonitorTypes, ThreadTypes
<1>2. /\ pc[t] = "idle" /\ owner = t /\ entryCount' = entryCount - 1
      /\ owner' = IF entryCount = 1 THEN NoThread ELSE t
      /\ UNCHANGED <<alive, saved>>
  BY <1>1 DEF ExitNested, ExitLast, monitorUnused
<1>3. pc' = pc \/ \E to \in {"idle", "post"} : pc' = [pc EXCEPT ![t] = to]
  BY DEF ExitNested, ExitLast, GoTo
<1>4. \A u \in Thread : pc'[u] \in WaitPcs <=> pc[u] \in WaitPcs
  BY <1>1, <1>2, <1>3 DEF WaitPcs
<1>5. alive
  BY <1>1, <1>2, ThreadAssumption DEF AlivePart, LockPart
<1>6. InWait' = InWait
  BY <1>4 DEF InWait
<1>7. Depths[t] = entryCount
  BY <1>2 DEF Depths, WaitPcs
<1>8. Depths' = [Depths EXCEPT ![t] = @ - 1]
  <2>1. Depths'[t] = Depths[t] - 1
    BY <1>1, <1>2, <1>4, <1>7, ThreadAssumption DEF Depths, WaitPcs
  <2>2. \A u \in Thread \ {t} : Depths'[u] = Depths[u]
    BY <1>2, <1>4, ThreadAssumption DEF Depths
  <2> QED
    BY <2>1, <2>2 DEF Depths
<1> QED
  BY <1>2, <1>5, <1>6, <1>7, <1>8 DEF Promise!AExit

(* PR_Wait gives the monitor up with its entry count put away ...          *)
LEMMA WaitSimulates ==
  ASSUME IInv, NEW t \in Thread, WaitBegin(t) PROVE Promise!AWait(t)
<1>1. /\ pc \in [Thread -> Pcs] /\ saved \in [Thread -> 0..MaxDepth]
      /\ LockPart /\ AlivePart
  BY DEF IInv, TypeOK, ThreadTypes
<1>2. ToInt16(entryCount) = entryCount
  BY Int16Exact DEF IInv, TypeOK, MonitorTypes
<1>3. alive
  BY <1>1, ThreadAssumption DEF AlivePart, LockPart, WaitBegin
<1>4. InWait' = InWait \cup {t}
  BY <1>1 DEF InWait, WaitBegin, GoTo, WaitPcs
<1>5. Depths' = Depths
  <2>1. Depths'[t] = Depths[t]
    BY <1>1, <1>2 DEF Depths, WaitBegin, GoTo, WaitPcs
  <2>2. \A u \in Thread \ {t} : Depths'[u] = Depths[u]
    BY <1>1, ThreadAssumption DEF Depths, WaitBegin, GoTo
  <2> QED
    BY <2>1, <2>2 DEF Depths
<1> QED
  BY <1>3, <1>4, <1>5 DEF Promise!AWait, WaitBegin

(* ... and comes back with it.                                             *)
LEMMA ResumeSimulates ==
  ASSUME IInv, NEW t \in Thread, WaitReturn(t) PROVE Promise!AResume(t)
<1>1. pc \in [Thread -> Pcs] /\ saved \in [Thread -> 0..MaxDepth] /\ AlivePart
  BY DEF IInv, TypeOK, ThreadTypes
<1>2. owner = NoThread
  BY FreeMeansFlushed DEF WaitReturn
<1>3. alive
  BY <1>1 DEF AlivePart, IntrPcs, WaitReturn
<1>4. t \in InWait /\ InWait' = InWait \ {t}
  BY <1>1 DEF InWait, WaitReturn, GoTo, WaitPcs
<1>5. Depths' = Depths
  <2>1. Depths'[t] = Depths[t]
    BY <1>1 DEF Depths, WaitReturn, GoTo, WaitPcs
  <2>2. \A u \in Thread \ {t} : Depths'[u] = Depths[u]
    BY <1>1, <1>2, ThreadAssumption DEF Depths, WaitReturn, GoTo
  <2> QED
    BY <2>1, <2>2 DEF Depths
<1> QED
  BY <1>2, <1>3, <1>4, <1>5 DEF Promise!AResume, WaitReturn

(* PR_DestroyMonitor and PR_NewMonitor.                                    *)
LEMMA LifeSimulates ==
  ASSUME IInv, (\E t \in Thread : DestroyMonitor(t)) \/ NewMonitor
  PROVE  Promise!ADestroy \/ Promise!ANew
<1>1. pc' = pc /\ UNCHANGED <<owner, entryCount, saved>>
  BY DEF DestroyMonitor, NewMonitor
<1>2. InWait' = InWait /\ Depths' = Depths
  BY <1>1 DEF InWait, Depths
<1>3. CASE \E t \in Thread : DestroyMonitor(t)
  <2>1. owner = NoThread
    BY <1>3, FreeMeansFlushed DEF DestroyMonitor
  <2>2. InWait = {}
    BY <1>3 DEF InWait, WaitPcs, IntrPcs, DestroyMonitor
  <2> QED
    BY <1>1, <1>2, <1>3, <2>1, <2>2 DEF Promise!ADestroy, DestroyMonitor
<1>4. CASE NewMonitor
  BY <1>1, <1>2, <1>4 DEF Promise!ANew, NewMonitor
<1> QED
  BY <1>3, <1>4

(* Every other action moves no thread into or out of the monitor or a wait.*)
LEMMA OtherSimulates ==
  ASSUME IInv, NEW t \in Thread, NEW u \in Thread,
         \/ EnterBusy(t) \/ EnterOther(t)
         \/ PostNotify(t) \/ PostDone(t) \/ PostLast(t)
         \/ WaitAborted(t) \/ WaitSet(t) \/ WaitBlock(t) \/ WaitTimeout(t)
         \/ Notify(t) \/ NotifyAll(t)
         \/ InterruptFlag(t, u) \/ InterruptRead(t) \/ InterruptCast(t)
         \/ ClearInterrupt(t)
  PROVE  UNCHANGED Promise!avars
<1>1. pc \in [Thread -> Pcs]
  BY DEF IInv, TypeOK, ThreadTypes
<1>2. ToInt16(entryCount) = entryCount
  BY Int16Exact DEF IInv, TypeOK, MonitorTypes
<1>3. UNCHANGED <<alive, owner, entryCount, saved>>
  BY <1>2
     DEF EnterBusy, EnterOther, PostNotify, PostDone, PostLast, WaitAborted,
     WaitSet, WaitBlock, WaitTimeout, Notify, NotifyAll, RecordNotify,
     InterruptFlag, InterruptRead, InterruptCast, ClearInterrupt, monitorUnused
<1>4. \A v \in Thread : pc'[v] \in WaitPcs <=> pc[v] \in WaitPcs
  <2>1. CASE EnterBusy(t) \/ EnterOther(t) \/ InterruptFlag(t, u)
    BY <1>1, <2>1 DEF EnterBusy, EnterOther, InterruptFlag, GoTo, WaitPcs
  <2>2. CASE PostDone(t) \/ PostLast(t)
    <3>1. CASE pc[t] = "post"
      BY <1>1, <2>2, <3>1 DEF PostDone, PostLast, AfterPost, GoTo, WaitPcs
    <3>2. CASE pc[t] = "postw"
      BY <1>1, <2>2, <3>2 DEF PostDone, PostLast, AfterPost, GoTo, WaitPcs
    <3> QED
      BY <2>2, <3>1, <3>2 DEF PostDone, PostLast, PostPcs
  <2>3. CASE WaitSet(t) \/ WaitBlock(t)
    BY <1>1, <2>3 DEF WaitSet, WaitBlock, GoTo, WaitPcs
  <2>4. CASE InterruptRead(t) \/ InterruptCast(t)
    BY <1>1, <2>4 DEF InterruptRead, InterruptCast, GoTo, WaitPcs
  <2>5. CASE \/ PostNotify(t) \/ WaitAborted(t) \/ WaitTimeout(t)
             \/ Notify(t) \/ NotifyAll(t) \/ ClearInterrupt(t)
    BY <2>5 DEF PostNotify, WaitAborted, WaitTimeout, Notify, NotifyAll,
       RecordNotify, ClearInterrupt
  <2> QED
    BY <2>1, <2>2, <2>3, <2>4, <2>5
<1> QED
  BY <1>3, <1>4, StutterSimulates

(* The cases together.                                                     *)
LEMMA StepSimulates ==
  ASSUME IInv, [Next]_vars PROVE [Promise!ANext]_(Promise!avars)
<1>1. CASE NewMonitor
  BY <1>1, LifeSimulates DEF Promise!ANext
<1>2. CASE UNCHANGED vars
  BY <1>2, StutterSimulates DEF vars
<1>3. ASSUME NEW t \in Thread, NEW u \in Thread,
             \/ EnterFree(t) \/ EnterBusy(t) \/ EnterLock(t)
             \/ ExitNested(t) \/ ExitLast(t)
             \/ WaitAborted(t) \/ WaitBegin(t) \/ WaitTimeout(t) \/ WaitReturn(t)
             \/ Notify(t) \/ NotifyAll(t) \/ DestroyMonitor(t)
             \/ InterruptFlag(t, u) \/ ClearInterrupt(t) \/ Running(t)
      PROVE  [Promise!ANext]_(Promise!avars)
  <2>1. CASE EnterFree(t) \/ EnterAgain(t) \/ EnterLock(t)
    BY <2>1, EnterSimulates DEF Promise!ANext
  <2>2. CASE ExitNested(t) \/ ExitLast(t)
    BY <2>2, ExitSimulates DEF Promise!ANext
  <2>3. CASE WaitBegin(t)
    BY <2>3, WaitSimulates DEF Promise!ANext
  <2>4. CASE WaitReturn(t)
    BY <2>4, ResumeSimulates DEF Promise!ANext
  <2>5. CASE DestroyMonitor(t)
    BY <2>5, LifeSimulates DEF Promise!ANext
  <2> QED
    BY <1>3, <2>1, <2>2, <2>3, <2>4, <2>5, OtherSimulates DEF Running
<1> QED
  BY <1>1, <1>2, <1>3 DEF Next

(* The pthread monitor, with its unlocked owner test, deferred signals,    *)
(* timeouts and interrupts, implements the monitor of prmon.h.             *)
THEOREM PtMonitorImplements == Spec => MonitorContract
<1>1. ASSUME Init PROVE Promise!AInit
  <2>1. InWait = {}
    BY <1>1 DEF Init, InWait, WaitPcs
  <2>2. Depths = [t \in Thread |-> 0]
    BY <1>1, ThreadAssumption DEF Init, Depths, WaitPcs
  <2> QED
    BY <1>1, <2>1, <2>2 DEF Init, Promise!AInit
<1> QED
  BY <1>1, IInvAlways, StepSimulates, PTL
     DEF Spec, MonitorContract, Promise!ASpec

================================================================================
