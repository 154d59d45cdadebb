---------------------------- MODULE JsRequestProofs ----------------------------
(***************************************************************************)
(* Proofs about JsRequest, for every finite set of threads and all bounds. *)
(*                                                                         *)
(* IInv holds initially and survives every action: one lemma per action,   *)
(* and in it one step per part of IInv.  The safety properties follow.     *)
(***************************************************************************)
EXTENDS JsRequest, FiniteSetTheorems, TLAPS

(* What the proofs need to know of the bounds.                             *)
LEMMA Bounds ==
  /\ MaxDepth \in Nat /\ MaxDepth >= 1 /\ MaxLevel \in Nat /\ MaxLevel >= 1
  BY RequestAssumption

(* The running requests can be counted.                                    *)
LEMMA ActiveFinite == IsFiniteSet(Active) /\ Cardinality(Active) \in Nat
<1>1. Active \subseteq Thread
  BY DEF Active
<1> QED
  BY <1>1, RequestAssumption, FS_Subset, FS_CardinalityType

(* A count of zero means that no request runs, and only that.              *)
LEMMA NoneActive ==
  ASSUME CountsRequests PROVE requestCount = 0 <=> Active = {}
  BY ActiveFinite, FS_EmptySet DEF CountsRequests

(* One more running request, counted.                                      *)
LEMMA CountMore ==
  ASSUME CountsRequests, NEW t, t \notin Active, Active' = Active \cup {t},
         requestCount' = requestCount + 1
  PROVE  CountsRequests'
  BY ActiveFinite, FS_AddElement DEF CountsRequests

(* One running request less, counted; there was one to count.              *)
LEMMA CountLess ==
  ASSUME CountsRequests, NEW t \in Active, Active' = Active \ {t},
         requestCount' = requestCount - 1
  PROVE  CountsRequests' /\ requestCount' \in Nat
<1>1. /\ IsFiniteSet(Active')
      /\ Cardinality(Active') = Cardinality(Active) - 1
  BY ActiveFinite, FS_RemoveElement
<1>2. Cardinality(Active') \in Nat
  BY <1>1, FS_CardinalityType
<1> QED
  BY <1>1, <1>2 DEF CountsRequests

(* The same requests run, and the count is the same.                       *)
LEMMA CountSame ==
  ASSUME CountsRequests, Active' = Active, requestCount' = requestCount
  PROVE  CountsRequests'
  BY DEF CountsRequests

(* The runtime starts without requests and without a collector.            *)
LEMMA InitIInv == ASSUME Init PROVE IInv
<1>1. TypeOK
  <2>1. depth \in [Thread -> 0..MaxDepth] /\ gcLevel \in 0..MaxLevel
    BY Bounds DEF Init
  <2>2. gcPoke \in BOOLEAN /\ marked \in [Thread -> BOOLEAN]
    BY DEF Init
  <2>3. loaded \in [Thread -> Int] /\ requestCount \in Nat
    BY DEF Init
  <2> QED
    BY <2>1, <2>2, <2>3 DEF Init, TypeOK, Pcs
<1>2. Active = {} /\ Collector = {}
  BY DEF Init, Active, Collector, CollectorPcs
<1>3. CountsRequests
  BY <1>2, FS_EmptySet DEF Init, CountsRequests
<1>4. CollectorPart
  BY <1>2 DEF Init, CollectorPart
<1>5. PhasePart /\ BeginPart /\ JoinPart
  BY DEF Init, PhasePart, BeginPart, JoinPart
<1> QED
  BY <1>1, <1>3, <1>4, <1>5 DEF IInv

(* Steps that change only who waits for what, or gcPoke.                   *)
LEMMA FrameIInv ==
  ASSUME IInv, TypeOK', UNCHANGED <<gcLevel, requestCount, depth, pc, marked>>
  PROVE  IInv'
<1>1. Active' = Active /\ Collector' = Collector
  BY DEF Active, Collector
<1> QED
  BY <1>1 DEF IInv, CountsRequests, CollectorPart, PhasePart, BeginPart, JoinPart

(***************************************************************************)
(* Every action preserves IInv.                                            *)
(***************************************************************************)
(* gcPoke is set.                                                          *)
LEMMA PokeIInv ==
  ASSUME IInv, NEW t \in Thread, Poke(t) PROVE IInv'
<1>1. TypeOK'
  BY DEF IInv, TypeOK, Poke
<1> QED
  BY <1>1, FrameIInv DEF Poke

(* A thread waits to begin a request.                                      *)
LEMMA BeginWaitIInv ==
  ASSUME IInv, NEW t \in Thread, BeginWait(t) PROVE IInv'
<1>1. TypeOK'
  BY DEF IInv, TypeOK, BeginWait
<1> QED
  BY <1>1, FrameIInv DEF BeginWait

(* A thread waits again for another's collection.                          *)
LEMMA JoinWaitIInv ==
  ASSUME IInv, NEW t \in Thread, JoinWait(t) PROVE IInv'
<1>1. TypeOK'
  BY DEF IInv, TypeOK, JoinWait
<1> QED
  BY <1>1, FrameIInv DEF JoinWait

(* The collector waits again for the requests.                             *)
LEMMA AwaitAgainIInv ==
  ASSUME IInv, NEW t \in Thread, AwaitAgain(t) PROVE IInv'
<1>1. TypeOK'
  BY DEF IInv, TypeOK, AwaitAgain
<1> QED
  BY <1>1, FrameIInv DEF AwaitAgain

(* A wait ends by itself.                                                  *)
LEMMA SpuriousIInv ==
  ASSUME IInv, NEW t \in Thread, Spurious(t) PROVE IInv'
<1>1. TypeOK'
  BY DEF IInv, TypeOK, Spurious
<1> QED
  BY <1>1, FrameIInv DEF Spurious

(* JS_BeginRequest within a request.                                       *)
LEMMA BeginNestedIInv ==
  ASSUME IInv, NEW t \in Thread, BeginNested(t) PROVE IInv'
<1>1. /\ TypeOK /\ CountsRequests /\ CollectorPart /\ PhasePart
      /\ BeginPart /\ JoinPart
  BY DEF IInv
<1>2. pc \in [Thread -> Pcs] /\ depth \in [Thread -> 0..MaxDepth]
  BY <1>1 DEF TypeOK
<1>3. Active' = Active
  BY <1>1, <1>2 DEF BeginPart, Active, Inactive, CollectorPcs, BeginNested, rt
<1>4. CountsRequests' /\ requestCount' \in Nat
  BY <1>1, <1>3, CountSame DEF TypeOK, BeginNested, rt
<1>5. TypeOK'
  BY <1>1, <1>2, <1>4, Bounds
     DEF TypeOK, Pcs, CollectorPcs, BeginNested, rt
<1>6. CollectorPart'
  <2>1. Collector' = Collector
    BY <1>2 DEF Collector, CollectorPcs, BeginNested, rt
  <2> QED
    BY <1>1, <2>1 DEF TypeOK, CollectorPart, BeginNested, rt
<1>7. PhasePart'
  BY <1>1, <1>2 DEF PhasePart, BeginNested, rt
<1>8. BeginPart'
  BY <1>1, <1>2 DEF BeginPart, BeginNested, rt
<1>9. JoinPart'
  BY <1>1, <1>2 DEF TypeOK, JoinPart, BeginNested, rt
<1> QED
  BY <1>4, <1>5, <1>6, <1>7, <1>8, <1>9 DEF IInv

(* JS_BeginRequest is called.                                              *)
LEMMA BeginCallIInv ==
  ASSUME IInv, NEW t \in Thread, BeginCall(t) PROVE IInv'
<1>1. /\ TypeOK /\ CountsRequests /\ CollectorPart /\ PhasePart
      /\ BeginPart /\ JoinPart
  BY DEF IInv
<1>2. pc \in [Thread -> Pcs] /\ depth \in [Thread -> 0..MaxDepth]
  BY <1>1 DEF TypeOK
<1>3. Active' = Active
  BY <1>1, <1>2 DEF BeginPart, Active, Inactive, CollectorPcs, BeginCall, GoTo, rt
<1>4. CountsRequests' /\ requestCount' \in Nat
  BY <1>1, <1>3, CountSame DEF TypeOK, BeginCall, GoTo, rt
<1>5. TypeOK'
  BY <1>1, <1>2, <1>4, Bounds
     DEF TypeOK, Pcs, CollectorPcs, BeginCall, GoTo, rt
<1>6. CollectorPart'
  <2>1. Collector' = Collector
    BY <1>2 DEF Collector, CollectorPcs, BeginCall, GoTo, rt
  <2> QED
    BY <1>1, <2>1 DEF TypeOK, CollectorPart, BeginCall, GoTo, rt
<1>7. PhasePart'
  BY <1>1, <1>2 DEF PhasePart, BeginCall, GoTo, rt
<1>8. BeginPart'
  BY <1>1, <1>2 DEF BeginPart, BeginCall, GoTo, rt
<1>9. JoinPart'
  BY <1>1, <1>2 DEF TypeOK, JoinPart, BeginCall, GoTo, rt
<1> QED
  BY <1>4, <1>5, <1>6, <1>7, <1>8, <1>9 DEF IInv

(* It counts the request: nobody collects.                                 *)
LEMMA BeginEnterIInv ==
  ASSUME IInv, NEW t \in Thread, BeginEnter(t) PROVE IInv'
<1>1. /\ TypeOK /\ CountsRequests /\ CollectorPart /\ PhasePart
      /\ BeginPart /\ JoinPart
  BY DEF IInv
<1>2. pc \in [Thread -> Pcs] /\ depth \in [Thread -> 0..MaxDepth]
  BY <1>1 DEF TypeOK
<1>3. \A u \in Thread : pc[u] \notin CollectorPcs
  BY <1>1 DEF TypeOK, CollectorPart, Collector, BeginEnter, GoTo
<1>4. t \notin Active /\ Active' = Active \cup {t}
  BY <1>1, <1>2 DEF BeginPart, Active, Inactive, CollectorPcs, BeginEnter, GoTo
<1>5. CountsRequests' /\ requestCount' \in Nat
  BY <1>1, <1>4, CountMore DEF TypeOK, BeginEnter, GoTo
<1>6. TypeOK'
  BY <1>1, <1>2, <1>5, Bounds
     DEF TypeOK, Pcs, CollectorPcs, BeginPart, BeginEnter, GoTo
<1>7. CollectorPart'
  <2>1. Collector' = Collector
    BY <1>2 DEF Collector, CollectorPcs, BeginEnter, GoTo
  <2> QED
    BY <1>1, <2>1 DEF TypeOK, CollectorPart, BeginEnter, GoTo
<1>8. PhasePart'
  BY <1>1, <1>2, <1>3 DEF PhasePart, CollectorPcs, BeginEnter, GoTo
<1>9. BeginPart'
  BY <1>1, <1>2 DEF BeginPart, BeginEnter, GoTo
<1>10. JoinPart'
  BY <1>1, <1>2 DEF TypeOK, JoinPart, BeginEnter, GoTo
<1> QED
  BY <1>5, <1>6, <1>7, <1>8, <1>9, <1>10 DEF IInv

(* JS_EndRequest within a request.                                         *)
LEMMA EndNestedIInv ==
  ASSUME IInv, NEW t \in Thread, EndNested(t) PROVE IInv'
<1>1. /\ TypeOK /\ CountsRequests /\ CollectorPart /\ PhasePart
      /\ BeginPart /\ JoinPart
  BY DEF IInv
<1>2. pc \in [Thread -> Pcs] /\ depth \in [Thread -> 0..MaxDepth]
  BY <1>1 DEF TypeOK
<1>3. Active' = Active
  BY <1>1, <1>2 DEF BeginPart, Active, Inactive, CollectorPcs, EndNested, rt
<1>4. CountsRequests' /\ requestCount' \in Nat
  BY <1>1, <1>3, CountSame DEF TypeOK, EndNested, rt
<1>5. TypeOK'
  BY <1>1, <1>2, <1>4, Bounds
     DEF TypeOK, Pcs, CollectorPcs, EndNested, rt
<1>6. CollectorPart'
  <2>1. Collector' = Collector
    BY <1>2 DEF Collector, CollectorPcs, EndNested, rt
  <2> QED
    BY <1>1, <2>1 DEF TypeOK, CollectorPart, EndNested, rt
<1>7. PhasePart'
  BY <1>1, <1>2 DEF PhasePart, EndNested, rt
<1>8. BeginPart'
  BY <1>1, <1>2 DEF BeginPart, EndNested, rt
<1>9. JoinPart'
  BY <1>1, <1>2 DEF TypeOK, JoinPart, EndNested, rt
<1> QED
  BY <1>4, <1>5, <1>6, <1>7, <1>8, <1>9 DEF IInv

(* JS_EndRequest of the last request: one request less.                    *)
LEMMA EndLastIInv ==
  ASSUME IInv, NEW t \in Thread, EndLast(t) PROVE IInv'
<1>1. /\ TypeOK /\ CountsRequests /\ CollectorPart /\ PhasePart
      /\ BeginPart /\ JoinPart
  BY DEF IInv
<1>2. pc \in [Thread -> Pcs] /\ depth \in [Thread -> 0..MaxDepth]
  BY <1>1 DEF TypeOK
<1>3. t \in Active /\ Active' = Active \ {t}
  BY <1>1, <1>2 DEF Active, Inactive, CollectorPcs, EndLast
<1>4. \A u \in Thread : pc[u] \notin {"mark", "final"}
  BY <1>1, <1>3, NoneActive DEF PhasePart
<1>5. CountsRequests' /\ requestCount' \in Nat
  BY <1>1, <1>3, CountLess DEF TypeOK, EndLast
<1>6. TypeOK'
  BY <1>1, <1>2, <1>5, Bounds
     DEF TypeOK, Pcs, CollectorPcs, EndLast, AfterNotify
<1>7. CollectorPart'
  <2>1. Collector' = Collector
    BY <1>2 DEF Collector, CollectorPcs, EndLast
  <2> QED
    BY <1>1, <2>1 DEF TypeOK, CollectorPart, EndLast
<1>8. PhasePart'
  BY <1>1, <1>2, <1>4 DEF PhasePart, EndLast
<1>9. BeginPart'
  BY <1>1, <1>2 DEF BeginPart, EndLast
<1>10. JoinPart'
  BY <1>1, <1>2 DEF TypeOK, JoinPart, EndLast
<1> QED
  BY <1>5, <1>6, <1>7, <1>8, <1>9, <1>10 DEF IInv

(* A thread joins the collection of another.                               *)
LEMMA GcJoinIInv ==
  ASSUME IInv, NEW t \in Thread, GcJoin(t) PROVE IInv'
<1>1. /\ TypeOK /\ CountsRequests /\ CollectorPart /\ PhasePart
      /\ BeginPart /\ JoinPart
  BY DEF IInv
<1>2. pc \in [Thread -> Pcs] /\ depth \in [Thread -> 0..MaxDepth]
  BY <1>1 DEF TypeOK
<1>3. Active' = Active \ {t}
  BY <1>1, <1>2 DEF Active, Inactive, CollectorPcs, GcJoin, GoTo, GcCall
<1>4. CountsRequests' /\ requestCount' \in Nat
  <2>1. CASE depth[t] > 0
    <3>1. t \in Active
      BY <1>2, <2>1 DEF Active, Inactive, CollectorPcs, GcJoin, GoTo, GcCall, Others
    <3> QED
      BY <1>1, <1>3, <2>1, <3>1, CountLess DEF GcJoin, GoTo, GcCall, Others
  <2>2. CASE ~(depth[t] > 0)
    <3>1. Active' = Active
      BY <1>3, <2>2 DEF Active
    <3> QED
      BY <1>1, <2>2, <3>1, CountSame DEF TypeOK, GcJoin, GoTo, GcCall, Others
  <2> QED
    BY <2>1, <2>2
<1>5. \A u \in Thread : pc[u] \in {"mark", "final"} => Others(t) = 0 /\ depth[t] = 0
  <2> SUFFICES ASSUME NEW u \in Thread, pc[u] \in {"mark", "final"}
               PROVE  Others(t) = 0 /\ depth[t] = 0
    OBVIOUS
  <2>1. requestCount = 0 /\ Active = {}
    BY <1>1, NoneActive DEF PhasePart
  <2>2. ~(depth[t] > 0)
    BY <2>1 DEF Active, Inactive, CollectorPcs, GcJoin, GcCall
  <2> QED
    BY <1>2, <2>1, <2>2 DEF Others
<1>6. depth[t] > 0 => \E u \in Thread : u # t /\ pc[u] = "await"
  BY <1>1, <1>5 DEF TypeOK, CollectorPart, Collector, CollectorPcs, GcJoin, GcCall
<1>7. TypeOK'
  BY <1>1, <1>2, <1>4, Bounds
     DEF TypeOK, Pcs, CollectorPcs, GcJoin, GoTo, GcCall, Others, AfterNotify
<1>8. CollectorPart'
  <2>1. Collector' = Collector
    BY <1>2 DEF Collector, CollectorPcs, GcJoin, GoTo, GcCall
  <2> QED
    BY <1>1, <2>1 DEF TypeOK, CollectorPart, GcJoin, GoTo, GcCall
<1>9. PhasePart'
  BY <1>1, <1>2, <1>5 DEF PhasePart, GcJoin, GoTo, GcCall, Others
<1>10. BeginPart'
  BY <1>1, <1>2 DEF BeginPart, GcJoin, GoTo, GcCall
<1>11. JoinPart'
  BY <1>1, <1>2, <1>6 DEF TypeOK, JoinPart, GcJoin, GoTo, GcCall
<1> QED
  BY <1>4, <1>7, <1>8, <1>9, <1>10, <1>11 DEF IInv

(* The collection is over for a thread that joined it.                     *)
LEMMA JoinReturnIInv ==
  ASSUME IInv, NEW t \in Thread, JoinReturn(t) PROVE IInv'
<1>1. /\ TypeOK /\ CountsRequests /\ CollectorPart /\ PhasePart
      /\ BeginPart /\ JoinPart
  BY DEF IInv
<1>2. pc \in [Thread -> Pcs] /\ depth \in [Thread -> 0..MaxDepth]
  BY <1>1 DEF TypeOK
<1>3. \A u \in Thread : pc[u] \notin CollectorPcs
  BY <1>1 DEF TypeOK, CollectorPart, Collector, JoinReturn, GoTo
<1>4. Active' = IF depth[t] > 0 THEN Active \cup {t} ELSE Active
  BY <1>1, <1>2 DEF Active, Inactive, CollectorPcs, JoinReturn, GoTo
<1>5. CountsRequests' /\ requestCount' \in Nat
  <2>1. t \notin Active
    BY DEF Active, Inactive, CollectorPcs, JoinReturn, GoTo, WithMine
  <2>2. CASE depth[t] > 0
    BY <1>1, <1>4, <2>1, <2>2, CountMore DEF TypeOK, JoinReturn, GoTo, WithMine
  <2>3. CASE ~(depth[t] > 0)
    BY <1>1, <1>4, <2>3, CountSame DEF TypeOK, JoinReturn, GoTo, WithMine
  <2> QED
    BY <2>2, <2>3
<1>6. TypeOK'
  BY <1>1, <1>2, <1>5, Bounds
     DEF TypeOK, Pcs, CollectorPcs, JoinReturn, GoTo, WithMine
<1>7. CollectorPart'
  <2>1. Collector' = Collector
    BY <1>2 DEF Collector, CollectorPcs, JoinReturn, GoTo
  <2> QED
    BY <1>1, <2>1 DEF TypeOK, CollectorPart, JoinReturn, GoTo
<1>8. PhasePart'
  BY <1>1, <1>2, <1>3 DEF PhasePart, CollectorPcs, JoinReturn, GoTo, WithMine
<1>9. BeginPart'
  BY <1>1, <1>2 DEF BeginPart, JoinReturn, GoTo
<1>10. JoinPart'
  BY <1>1, <1>2 DEF TypeOK, JoinPart, JoinReturn, GoTo
<1> QED
  BY <1>5, <1>6, <1>7, <1>8, <1>9, <1>10 DEF IInv

(* A thread becomes the collector: there was none.                         *)
LEMMA GcStartIInv ==
  ASSUME IInv, NEW t \in Thread, GcStart(t) PROVE IInv'
<1>1. /\ TypeOK /\ CountsRequests /\ CollectorPart /\ PhasePart
      /\ BeginPart /\ JoinPart
  BY DEF IInv
<1>2. pc \in [Thread -> Pcs] /\ depth \in [Thread -> 0..MaxDepth]
  BY <1>1 DEF TypeOK
<1>3. \A u \in Thread : pc[u] \notin CollectorPcs
  BY <1>1 DEF TypeOK, CollectorPart, Collector, GcStart, GoTo, GcCall
<1>4. Active' = Active \ {t}
  BY <1>1, <1>2 DEF Active, Inactive, CollectorPcs, GcStart, GoTo, GcCall
<1>5. CountsRequests' /\ requestCount' \in Nat
  <2>1. CASE depth[t] > 0
    <3>1. t \in Active
      BY <1>2, <2>1 DEF Active, Inactive, CollectorPcs, GcStart, GoTo, GcCall, Others
    <3> QED
      BY <1>1, <1>4, <2>1, <3>1, CountLess DEF GcStart, GoTo, GcCall, Others
  <2>2. CASE ~(depth[t] > 0)
    <3>1. Active' = Active
      BY <1>4, <2>2 DEF Active
    <3> QED
      BY <1>1, <2>2, <3>1, CountSame DEF TypeOK, GcStart, GoTo, GcCall, Others
  <2> QED
    BY <2>1, <2>2
<1>6. TypeOK'
  <2>1. gcLevel' \in 0..MaxLevel
    BY <1>1, Bounds DEF TypeOK, GcStart
  <2>2. gcPoke' \in BOOLEAN /\ marked' \in [Thread -> BOOLEAN]
    BY <1>1 DEF TypeOK, GcStart, GcCall
  <2>3. requestDone' \subseteq Thread
    BY <1>1 DEF TypeOK, GcStart, AfterNotify
  <2>4. pc' \in [Thread -> Pcs]
    BY <1>2 DEF Pcs, CollectorPcs, GcStart, GoTo
  <2> QED
    BY <1>1, <1>5, <2>1, <2>2, <2>3, <2>4 DEF TypeOK, GcStart, GcCall
<1>7. CollectorPart'
  <2>1. Collector' = Collector \cup {t}
    BY <1>2 DEF Collector, CollectorPcs, GcStart, GoTo, GcCall
  <2>2. Collector = {}
    BY <1>1 DEF TypeOK, CollectorPart, GcStart, GoTo, GcCall
  <2> QED
    BY <2>1, <2>2 DEF CollectorPart, GcStart, GoTo, GcCall
<1>8. PhasePart'
  BY <1>1, <1>2, <1>3 DEF PhasePart, CollectorPcs, GcStart, GoTo, GcCall, Others
<1>9. BeginPart'
  BY <1>1, <1>2 DEF BeginPart, GcStart, GoTo, GcCall
<1>10. JoinPart'
  BY <1>1, <1>2, <1>3 DEF TypeOK, JoinPart, GcStart, GoTo, GcCall
<1> QED
  BY <1>5, <1>6, <1>7, <1>8, <1>9, <1>10 DEF IInv

(* The mark phase begins: no request is counted.                           *)
LEMMA MarkIInv ==
  ASSUME IInv, NEW t \in Thread, Mark(t) PROVE IInv'
<1>1. /\ TypeOK /\ CountsRequests /\ CollectorPart /\ PhasePart
      /\ BeginPart /\ JoinPart
  BY DEF IInv
<1>2. pc \in [Thread -> Pcs] /\ depth \in [Thread -> 0..MaxDepth]
  BY <1>1 DEF TypeOK
<1>3. Active' = Active
  BY <1>1, <1>2 DEF BeginPart, Active, Inactive, CollectorPcs, Mark, GoTo
<1>4. CountsRequests' /\ requestCount' \in Nat
  BY <1>1, <1>3, CountSame DEF TypeOK, Mark, GoTo
<1>5. TypeOK'
  BY <1>1, <1>2, <1>4, Bounds
     DEF TypeOK, Pcs, CollectorPcs, Mark, GoTo
<1>6. CollectorPart'
  <2>1. Collector' = Collector
    BY <1>2 DEF Collector, CollectorPcs, Mark, GoTo
  <2>2. t \in Collector
    BY DEF Collector, CollectorPcs, Mark, GoTo
  <2> QED
    BY <1>1, <2>1, <2>2 DEF TypeOK, CollectorPart, Mark, GoTo
<1>7. PhasePart'
  BY <1>1, <1>2 DEF PhasePart, Mark, GoTo
<1>8. BeginPart'
  BY <1>1, <1>2 DEF BeginPart, Mark, GoTo
<1>9. JoinPart'
  BY <1>1, <1>2 DEF TypeOK, JoinPart, Mark, GoTo
<1> QED
  BY <1>4, <1>5, <1>6, <1>7, <1>8, <1>9 DEF IInv

(* The finalizers run.                                                     *)
LEMMA FinalizeIInv ==
  ASSUME IInv, NEW t \in Thread, Finalize(t) PROVE IInv'
<1>1. /\ TypeOK /\ CountsRequests /\ CollectorPart /\ PhasePart
      /\ BeginPart /\ JoinPart
  BY DEF IInv
<1>2. pc \in [Thread -> Pcs] /\ depth \in [Thread -> 0..MaxDepth]
  BY <1>1 DEF TypeOK
<1>3. Active' = Active
  BY <1>1, <1>2 DEF BeginPart, Active, Inactive, CollectorPcs, Finalize, GoTo
<1>4. CountsRequests' /\ requestCount' \in Nat
  BY <1>1, <1>3, CountSame DEF TypeOK, Finalize, GoTo
<1>5. TypeOK'
  BY <1>1, <1>2, <1>4, Bounds
     DEF TypeOK, Pcs, CollectorPcs, Finalize, GoTo
<1>6. CollectorPart'
  <2>1. Collector' = Collector
    BY <1>2 DEF Collector, CollectorPcs, Finalize, GoTo
  <2>2. t \in Collector
    BY DEF Collector, CollectorPcs, Finalize, GoTo
  <2> QED
    BY <1>1, <2>1, <2>2 DEF TypeOK, CollectorPart, Finalize, GoTo
<1>7. PhasePart'
  BY <1>1, <1>2 DEF PhasePart, Finalize, GoTo
<1>8. BeginPart'
  BY <1>1, <1>2 DEF BeginPart, Finalize, GoTo
<1>9. JoinPart'
  BY <1>1, <1>2 DEF TypeOK, JoinPart, Finalize, GoTo
<1> QED
  BY <1>4, <1>5, <1>6, <1>7, <1>8, <1>9 DEF IInv

(* A finalizer asks for another collection.                                *)
LEMMA GcNestedIInv ==
  ASSUME IInv, NEW t \in Thread, GcNested(t) PROVE IInv'
<1>1. /\ TypeOK /\ CountsRequests /\ CollectorPart /\ PhasePart
      /\ BeginPart /\ JoinPart
  BY DEF IInv
<1>2. pc \in [Thread -> Pcs] /\ depth \in [Thread -> 0..MaxDepth]
  BY <1>1 DEF TypeOK
<1>3. Active' = Active
  BY <1>1, <1>2 DEF BeginPart, Active, Inactive, CollectorPcs, GcNested
<1>4. CountsRequests' /\ requestCount' \in Nat
  BY <1>1, <1>3, CountSame DEF TypeOK, GcNested
<1>5. TypeOK'
  <2>1. gcLevel' \in 0..MaxLevel
    BY <1>1, Bounds DEF TypeOK, GcNested
  <2>2. gcPoke' \in BOOLEAN /\ marked' \in [Thread -> BOOLEAN]
    BY <1>1 DEF TypeOK, GcNested, GcCall
  <2>3. requestDone' \subseteq Thread
    BY <1>1 DEF TypeOK, GcNested, AfterNotify
  <2>4. pc' \in [Thread -> Pcs]
    BY <1>2 DEF Pcs, CollectorPcs, GcNested
  <2> QED
    BY <1>1, <1>4, <2>1, <2>2, <2>3, <2>4 DEF TypeOK, GcNested, GcCall
<1>6. CollectorPart'
  <2>1. Collector' = Collector
    BY <1>2 DEF Collector, CollectorPcs, GcNested
  <2>2. t \in Collector
    BY DEF Collector, CollectorPcs, GcNested
  <2> QED
    BY <1>1, <2>1, <2>2 DEF TypeOK, CollectorPart, GcNested
<1>7. PhasePart'
  BY <1>1, <1>2 DEF PhasePart, GcNested
<1>8. BeginPart'
  BY <1>1, <1>2 DEF BeginPart, GcNested
<1>9. JoinPart'
  BY <1>1, <1>2 DEF TypeOK, JoinPart, GcNested
<1> QED
  BY <1>4, <1>5, <1>6, <1>7, <1>8, <1>9 DEF IInv

(* The collector starts again.                                             *)
LEMMA RestartIInv ==
  ASSUME IInv, NEW t \in Thread, Restart(t) PROVE IInv'
<1>1. /\ TypeOK /\ CountsRequests /\ CollectorPart /\ PhasePart
      /\ BeginPart /\ JoinPart
  BY DEF IInv
<1>2. pc \in [Thread -> Pcs] /\ depth \in [Thread -> 0..MaxDepth]
  BY <1>1 DEF TypeOK
<1>3. Active' = Active
  BY <1>1, <1>2 DEF BeginPart, Active, Inactive, CollectorPcs, Restart, GoTo, AtEnd
<1>4. CountsRequests' /\ requestCount' \in Nat
  BY <1>1, <1>3, CountSame DEF TypeOK, Restart, GoTo, AtEnd
<1>5. TypeOK'
  BY <1>1, <1>2, <1>4, Bounds
     DEF TypeOK, Pcs, CollectorPcs, Restart, GoTo, AtEnd
<1>6. CollectorPart'
  <2>1. Collector' = Collector
    BY <1>2 DEF Collector, CollectorPcs, Restart, GoTo, AtEnd
  <2>2. t \in Collector
    BY DEF Collector, CollectorPcs, Restart, GoTo, AtEnd
  <2> QED
    BY <1>1, <2>1, <2>2 DEF TypeOK, CollectorPart, Restart, GoTo, AtEnd
<1>7. PhasePart'
  BY <1>1, <1>2 DEF PhasePart, Restart, GoTo, AtEnd
<1>8. BeginPart'
  BY <1>1, <1>2 DEF BeginPart, Restart, GoTo, AtEnd
<1>9. JoinPart'
  BY <1>1, <1>2 DEF TypeOK, JoinPart, Restart, GoTo, AtEnd
<1> QED
  BY <1>4, <1>5, <1>6, <1>7, <1>8, <1>9 DEF IInv

(* The collection is done.                                                 *)
LEMMA GcEndIInv ==
  ASSUME IInv, NEW t \in Thread, GcEnd(t) PROVE IInv'
<1>1. /\ TypeOK /\ CountsRequests /\ CollectorPart /\ PhasePart
      /\ BeginPart /\ JoinPart
  BY DEF IInv
<1>2. pc \in [Thread -> Pcs] /\ depth \in [Thread -> 0..MaxDepth]
  BY <1>1 DEF TypeOK
<1>3. \A u \in Thread \ {t} : pc[u] \notin CollectorPcs
  BY <1>1 DEF CollectorPart, Collector, CollectorPcs, GcEnd, GoTo, AtEnd
<1>4. Active' = IF depth[t] > 0 THEN Active \cup {t} ELSE Active
  BY <1>1, <1>2 DEF Active, Inactive, CollectorPcs, GcEnd, GoTo, AtEnd
<1>5. CountsRequests' /\ requestCount' \in Nat
  <2>1. t \notin Active
    BY DEF Active, Inactive, CollectorPcs, GcEnd, GoTo, AtEnd, WithMine
  <2>2. CASE depth[t] > 0
    BY <1>1, <1>4, <2>1, <2>2, CountMore DEF TypeOK, GcEnd, GoTo, AtEnd, WithMine
  <2>3. CASE ~(depth[t] > 0)
    BY <1>1, <1>4, <2>3, CountSame DEF TypeOK, GcEnd, GoTo, AtEnd, WithMine
  <2> QED
    BY <2>2, <2>3
<1>6. TypeOK'
  BY <1>1, <1>2, <1>5, Bounds
     DEF TypeOK, Pcs, CollectorPcs, GcEnd, GoTo, AtEnd, WithMine
<1>7. CollectorPart'
  <2>1. Collector' = Collector \ {t}
    BY <1>2 DEF Collector, CollectorPcs, GcEnd, GoTo, AtEnd
  <2>2. t \in Collector
    BY DEF Collector, CollectorPcs, GcEnd, GoTo, AtEnd
  <2>3. Collector' = {}
    BY <1>1, <2>1, <2>2 DEF CollectorPart
  <2> QED
    BY <2>3 DEF CollectorPart, GcEnd, GoTo, AtEnd
<1>8. PhasePart'
  BY <1>1, <1>2, <1>3 DEF PhasePart, CollectorPcs, GcEnd, GoTo, AtEnd, WithMine
<1>9. BeginPart'
  BY <1>1, <1>2 DEF BeginPart, GcEnd, GoTo, AtEnd
<1>10. JoinPart'
  BY <1>1, <1>2, <1>3 DEF TypeOK, JoinPart, GcEnd, GoTo, AtEnd
<1> QED
  BY <1>5, <1>6, <1>7, <1>8, <1>9, <1>10 DEF IInv

(***************************************************************************)
(* The theorems.                                                           *)
(***************************************************************************)
(* Every step, stuttering included, preserves the invariant.               *)
LEMMA NextIInv == ASSUME IInv, [Next]_vars PROVE IInv'
<1>1. CASE UNCHANGED vars
  <2>1. TypeOK'
    BY <1>1 DEF IInv, TypeOK, vars, rt
  <2> QED
    BY <1>1, <2>1, FrameIInv DEF vars, rt
<1>2. ASSUME NEW t \in Thread, Poke(t) \/ BeginNested(t) \/ BeginCall(t) \/ BeginWait(t)
             \/ BeginEnter(t) \/ EndNested(t) \/ EndLast(t)
      PROVE  IInv'
  BY <1>2, PokeIInv, BeginNestedIInv, BeginCallIInv, BeginWaitIInv, BeginEnterIInv,
     EndNestedIInv, EndLastIInv
<1>3. ASSUME NEW t \in Thread, GcJoin(t) \/ JoinWait(t) \/ JoinReturn(t) \/ Spurious(t)
      PROVE  IInv'
  BY <1>3, GcJoinIInv, JoinWaitIInv, JoinReturnIInv, SpuriousIInv
<1>4. ASSUME NEW t \in Thread, GcStart(t) \/ AwaitAgain(t) \/ Mark(t) \/ Finalize(t)
             \/ GcNested(t) \/ Restart(t) \/ GcEnd(t)
      PROVE  IInv'
  BY <1>4, GcStartIInv, AwaitAgainIInv, MarkIInv, FinalizeIInv, GcNestedIInv,
     RestartIInv, GcEndIInv
<1> QED
  BY <1>1, <1>2, <1>3, <1>4 DEF Next

(* IInv is an invariant.                                                   *)
THEOREM IInvAlways == Spec => []IInv
<1> QED
  BY InitIInv, NextIInv, PTL DEF Spec

(* Every variable keeps its type; the count of requests never drops below  *)
(* zero.                                                                   *)
THEOREM TypeCorrect == Spec => []TypeOK
<1>1. IInv => TypeOK
  BY DEF IInv
<1> QED
  BY <1>1, IInvAlways, PTL

(* rt->requestCount is the number of threads with a running request.       *)
THEOREM RequestsAlwaysCounted == Spec => []CountsRequests
<1>1. IInv => CountsRequests
  BY DEF IInv
<1> QED
  BY <1>1, IInvAlways, PTL

(* A collector is alone from the mark phase on: no request runs, and there *)
(* is no other collector.                                                  *)
THEOREM CollectorAlwaysAlone == Spec => []CollectsAlone
<1>1. ASSUME IInv PROVE CollectsAlone
  <2> SUFFICES ASSUME NEW t \in Thread, pc[t] \in {"mark", "final"}
               PROVE  /\ Active = {}
                      /\ \A u \in Thread \ {t} : pc[u] \notin CollectorPcs
    BY DEF CollectsAlone
  <2>1. Active = {}
    BY <1>1, NoneActive DEF IInv, PhasePart
  <2>2. \A u \in Thread \ {t} : pc[u] \notin CollectorPcs
    BY <1>1 DEF IInv, CollectorPart, Collector, CollectorPcs
  <2> QED
    BY <2>1, <2>2
<1> QED
  BY <1>1, IInvAlways, PTL

(* A thread in a request that joined a collection returns from js_GC only  *)
(* after a mark phase that began after its call.                           *)
THEOREM JoinedAlwaysMarked == Spec => JoinedCollectionMarks
<1> DEFINE Returns(t) == pc[t] = "join" /\ pc'[t] = "idle" /\ depth[t] > 0
<1>1. ASSUME IInv, [Next]_vars PROVE [\A t \in Thread : Returns(t) => marked[t]]_vars
  <2> SUFFICES ASSUME Next, NEW t \in Thread, Returns(t) PROVE marked[t]
    BY <1>1
  <2>1. JoinReturn(t)
    <3>1. pc \in [Thread -> Pcs]
      BY <1>1 DEF IInv, TypeOK
    <3>2. PICK u \in Thread :
            \/ Poke(u) \/ BeginNested(u) \/ BeginCall(u) \/ BeginWait(u) \/ BeginEnter(u)
            \/ EndNested(u) \/ EndLast(u) \/ GcJoin(u) \/ JoinWait(u) \/ JoinReturn(u)
            \/ GcStart(u) \/ AwaitAgain(u) \/ Mark(u) \/ Finalize(u) \/ GcNested(u)
            \/ Restart(u) \/ GcEnd(u) \/ Spurious(u)
      BY DEF Next
    <3>3. u = t
      BY <3>1, <3>2 DEF Poke, BeginNested, BeginCall, BeginWait, BeginEnter, EndNested,
         EndLast, GcJoin, JoinWait, JoinReturn, GcStart, AwaitAgain, Mark, Finalize,
         GcNested, Restart, GcEnd, Spurious, GoTo
    <3> QED
      BY <3>1, <3>2, <3>3 DEF Poke, BeginNested, BeginCall, BeginWait, BeginEnter,
         EndNested, EndLast, GcJoin, GcCall, JoinWait, GcStart, AwaitAgain, Mark, Finalize,
         GcNested, AtEnd, Restart, GcEnd, Spurious
  <2>2. \A u \in Thread : pc[u] # "await"
    BY <1>1, <2>1 DEF IInv, CollectorPart, Collector, CollectorPcs, JoinReturn
  <2> QED
    BY <1>1, <2>2 DEF IInv, JoinPart
<1> QED
  BY <1>1, IInvAlways, PTL DEF Spec, JoinedCollectionMarks
================================================================================
