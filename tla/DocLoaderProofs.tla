---------------------------- MODULE DocLoaderProofs ----------------------------
(***************************************************************************)
(* Proofs about DocLoader, for any finite set of loaders with any parents, *)
(* any finite set of loads, and notifications nested to any depth.         *)
(***************************************************************************)
EXTENDS DocLoader, FiniteSetTheorems, SequenceTheorems, TLAPS

--------------------------------------------------------------------------------
(* The inductive invariant.                                                *)

Notice(A) == [op : {"starting", "endURL", "endDoc"}, at : A, load : Load]

(* A load is in the list of a loader before the network works on it; the   *)
(* one that a loader is about to start is in its list, and waits for that  *)
(* notification only.                                                      *)
Starts(i) == stack[i].op = "starting"
LoadsPart ==
  /\ \A x \in Load : owner[x] # None => x \in tried
  /\ \A x \in running : owner[x] # None
StartsPart ==
  \A i \in DOMAIN stack : Starts(i) =>
    /\ owner[stack[i].load] = stack[i].at /\ stack[i].load \notin running
    /\ \A j \in DOMAIN stack : Starts(j) /\ stack[j].load = stack[i].load => i = j

(* When notification f returns, loader l will be asked whether it has      *)
(* ended, or a loader between them is busy.                                *)
Comes(f, l) ==
  \/ f.op = "endURL" /\ f.load \in Foreground /\ l \in Above[f.at]
  \/ f.op = "endDoc" /\ l \in Above[f.at] \ {f.at}
Awaited(l) == \E i \in DOMAIN stack : Comes(stack[i], l)
ReportPart ==
  \A l \in begun : IsBusy(l) \/ processed[l] \/ Overlapped(l) \/ Awaited(l)

IInv == TypeOK /\ LoadsPart /\ StartsPart /\ CountsMatch /\ ReportPart

--------------------------------------------------------------------------------
(* The loaders above a loader.                                             *)

LEMMA AboveSelf == \A l \in Loader : l \in Above[l]
  BY DEF Above

LEMMA AboveRoot == Above[Root] = {Root}
<1>1. Root \in Loader /\ {Root} \in SUBSET Loader /\ UpTo({Root})
  BY TreeAssumption DEF UpTo
<1>2. \A k \in Above[Root] : k \in {Root}
  BY <1>1 DEF Above
<1> QED
  BY <1>1, <1>2, AboveSelf

(* IsBusy goes down the lists of children; Above goes up the same edges.   *)
LEMMA AboveParent ==
  ASSUME NEW l \in Loader \ {Root}
  PROVE  Above[l] = {l} \cup Above[Parent[l]]
<1>1. Parent[l] \in Loader
  BY TreeAssumption
<1> DEFINE T == {l} \cup Above[Parent[l]]
<1>2. T \in SUBSET Loader /\ l \in T
  BY <1>1 DEF Above
<1>3. UpTo(T)
  <2> SUFFICES ASSUME NEW k \in T \ {Root} PROVE Parent[k] \in T
    BY DEF UpTo
  <2>1. CASE k = l
    BY <1>1, <2>1, AboveSelf
  <2>2. CASE k \in Above[Parent[l]]
    <3>1. k \in Loader /\ Parent[k] \in Loader
      BY <2>2, TreeAssumption DEF Above
    <3>2. ASSUME NEW S \in SUBSET Loader, Parent[l] \in S, UpTo(S) PROVE Parent[k] \in S
      BY <2>2, <3>2 DEF Above, UpTo
    <3>3. Parent[k] \in Above[Parent[l]]
      BY <1>1, <3>1, <3>2 DEF Above
    <3> QED
      BY <3>3
  <2> QED
    BY <2>1, <2>2
<1>4. Above[l] \subseteq T
  <2> HIDE DEF T
  <2> QED
    BY <1>2, <1>3 DEF Above
<1>5. ASSUME NEW k \in T PROVE k \in Above[l]
  <2>1. CASE k = l
    BY <2>1, AboveSelf
  <2>2. CASE k \in Above[Parent[l]]
    <3>1. ASSUME NEW S \in SUBSET Loader, l \in S, UpTo(S) PROVE k \in S
      <4>1. Parent[l] \in S
        BY <3>1 DEF UpTo
      <4> QED
        BY <2>2, <3>1, <4>1 DEF Above
    <3> QED
      BY <1>1, <2>2, <3>1 DEF Above
  <2> QED
    BY <2>1, <2>2
<1> QED
  BY <1>4, <1>5

LEMMA AboveAbove ==
  ASSUME NEW j \in Loader, NEW k \in Above[j], NEW l \in Above[k]
  PROVE  l \in Above[j]
<1>1. k \in Loader
  BY DEF Above
<1>2. l \in Loader /\ \A S \in SUBSET Loader : j \in S /\ UpTo(S) => l \in S
  BY <1>1 DEF Above
<1> QED
  BY <1>2 DEF Above

(* Who is above a busy loader is busy.                                     *)
LEMMA BusyAbove ==
  ASSUME alive \subseteq Loader, NEW k, IsBusy(k), NEW l \in Above[k]
  PROVE  IsBusy(l)
<1>1. PICK j \in Below(k) : fg[j] # 0
  BY DEF IsBusy
<1>2. j \in Below(l)
  BY <1>1, AboveAbove DEF Below
<1> QED
  BY <1>1, <1>2 DEF IsBusy

--------------------------------------------------------------------------------
(* The notifications in progress.                                          *)

LEMMA Retyped ==
  ASSUME NEW S, NEW s \in Seq(S), NEW T, \A i \in DOMAIN s : s[i] \in T
  PROVE  s \in Seq(T)
<1>1. Len(s) \in Nat /\ s = [i \in 1..Len(s) |-> s[i]] /\ DOMAIN s = 1..Len(s)
  OBVIOUS
<1>2. s \in [1..Len(s) -> T]
  BY <1>1
<1> QED
  BY <1>1, <1>2, SeqDef

LEMMA Pushed ==
  ASSUME NEW S, NEW s \in Seq(S), NEW f \in S
  PROVE  /\ <<f>> \o s \in Seq(S) /\ (<<f>> \o s)[1] = f
         /\ \A i \in DOMAIN s : i + 1 \in DOMAIN (<<f>> \o s) /\ (<<f>> \o s)[i + 1] = s[i]
         /\ \A i \in DOMAIN (<<f>> \o s) :
              i = 1 \/ (i - 1 \in DOMAIN s /\ (<<f>> \o s)[i] = s[i - 1])
         /\ 1 \in DOMAIN (<<f>> \o s) /\ \A i \in DOMAIN s : i \in Nat /\ i >= 1
<1> DEFINE q == <<f>>
<1>1. q \in Seq(S) /\ Len(q) = 1 /\ q[1] = f
  OBVIOUS
<1> HIDE DEF q
<1>2. /\ q \o s \in Seq(S) /\ Len(q \o s) = Len(q) + Len(s)
      /\ \A i \in 1..(Len(q) + Len(s)) :
           (q \o s)[i] = IF i <= Len(q) THEN q[i] ELSE s[i - Len(q)]
  BY <1>1, ConcatProperties
<1>3. Len(s) \in Nat /\ DOMAIN s = 1..Len(s) /\ DOMAIN (q \o s) = 1..(Len(s) + 1)
  BY <1>1, <1>2
<1>4. (q \o s)[1] = f /\ \A i \in 1..Len(s) : (q \o s)[i + 1] = s[i]
  BY <1>1, <1>2, <1>3
<1>5. \A i \in DOMAIN (q \o s) : i = 1 \/ (i - 1 \in DOMAIN s /\ (q \o s)[i] = s[i - 1])
  BY <1>1, <1>2, <1>3
<1> QED
  BY <1>2, <1>3, <1>4, <1>5 DEF q

LEMMA Popped ==
  ASSUME NEW S, NEW s \in Seq(S), s # <<>>
  PROVE  /\ Head(s) \in S /\ Tail(s) \in Seq(S) /\ Head(s) = s[1] /\ 1 \in DOMAIN s
         /\ \A i \in DOMAIN Tail(s) : i + 1 \in DOMAIN s /\ Tail(s)[i] = s[i + 1]
                                      /\ i + 1 # 1 /\ i \in Nat
         /\ \A i \in DOMAIN s : i = 1 \/ (i - 1 \in DOMAIN Tail(s) /\ s[i] = Tail(s)[i - 1])
  OBVIOUS

LEMMA StackType ==
  ASSUME TypeOK
  PROVE  stack \in Seq(Notice(alive)) /\ \A i \in DOMAIN stack : stack[i] \in Notice(alive)
<1>1. stack \in Seq(Notice(alive))
  BY Zenon DEF TypeOK, Notice
<1> DEFINE N == Notice(alive)
<1> HIDE DEF N
<1>2. stack \in Seq(N)
  BY <1>1 DEF N
<1>3. \A i \in DOMAIN stack : stack[i] \in N
  BY <1>2
<1> QED
  BY <1>1, <1>3 DEF N

LEMMA CallBegins ==
  ASSUME TypeOK, NEW f \in Notice(alive), stack' = <<f>> \o stack
  PROVE  /\ stack' \in Seq(Notice(alive))
         /\ \A l : (Awaited(l) => Awaited(l)') /\ (Comes(f, l) => Awaited(l)')
<1>1. stack \in Seq(Notice(alive))
  BY StackType
<1>2. /\ stack' \in Seq(Notice(alive)) /\ stack'[1] = f /\ 1 \in DOMAIN stack'
      /\ \A i \in DOMAIN stack : i + 1 \in DOMAIN stack' /\ stack'[i + 1] = stack[i]
  BY <1>1, Pushed
<1> QED
  BY <1>2 DEF Awaited

LEMMA CallReturns ==
  ASSUME TypeOK, stack # <<>>, Return
  PROVE  /\ stack' \in Seq(Notice(alive)) /\ Top \in Notice(alive)
         /\ \A l : Awaited(l) => Awaited(l)' \/ Comes(Top, l)
<1>1. stack \in Seq(Notice(alive))
  BY StackType
<1>2. /\ stack' \in Seq(Notice(alive)) /\ Top \in Notice(alive) /\ Top = stack[1]
      /\ \A i \in DOMAIN stack : i = 1 \/ (i - 1 \in DOMAIN stack' /\ stack[i] = stack'[i - 1])
  BY <1>1, Popped DEF Return, Top
<1> QED
  BY <1>2 DEF Awaited

LEMMA CallReplaced ==
  ASSUME TypeOK, stack # <<>>, NEW f \in Notice(alive), stack' = <<f>> \o Tail(stack)
  PROVE  /\ stack' \in Seq(Notice(alive)) /\ Top \in Notice(alive) /\ Top = stack[1]
         /\ stack'[1] = f
         /\ \A i \in DOMAIN stack' : i \in DOMAIN stack /\ (i # 1 => stack'[i] = stack[i])
         /\ \A l : /\ Awaited(l) => Awaited(l)' \/ Comes(Top, l)
                   /\ Comes(f, l) => Awaited(l)'
<1> DEFINE s == Tail(stack)
<1>1. stack \in Seq(Notice(alive))
  BY StackType
<1>2. /\ s \in Seq(Notice(alive)) /\ Top \in Notice(alive) /\ Top = stack[1]
      /\ 1 \in DOMAIN stack
      /\ \A i \in DOMAIN s : i + 1 \in DOMAIN stack /\ s[i] = stack[i + 1] /\ i \in Nat
      /\ \A i \in DOMAIN stack : i = 1 \/ (i - 1 \in DOMAIN s /\ stack[i] = s[i - 1])
  BY <1>1, Popped DEF Top
<1> HIDE DEF s
<1>3. /\ stack' \in Seq(Notice(alive)) /\ stack'[1] = f /\ 1 \in DOMAIN stack'
      /\ \A i \in DOMAIN s : i + 1 \in DOMAIN stack' /\ stack'[i + 1] = s[i]
      /\ \A i \in DOMAIN stack' : i = 1 \/ (i - 1 \in DOMAIN s /\ stack'[i] = s[i - 1])
  <2> DEFINE N == Notice(alive)
             t == <<f>> \o s
  <2>1. stack' = t
    BY DEF s
  <2>2. s \in Seq(N) /\ f \in N
    BY <1>2
  <2> HIDE DEF N
  <2>3. /\ t \in Seq(N) /\ t[1] = f /\ 1 \in DOMAIN t
        /\ \A i \in DOMAIN s : i + 1 \in DOMAIN t /\ t[i + 1] = s[i]
        /\ \A i \in DOMAIN t : i = 1 \/ (i - 1 \in DOMAIN s /\ t[i] = s[i - 1])
    BY <2>2, Pushed
  <2> HIDE DEF t
  <2> QED
    BY <2>1, <2>3 DEF N
<1>4. /\ \A i \in DOMAIN stack : i \in Nat
      /\ \A i \in DOMAIN stack' : i \in Nat
  BY <1>1, <1>3
<1>5. ASSUME NEW i \in DOMAIN stack'
      PROVE  i \in DOMAIN stack /\ (i # 1 => stack'[i] = stack[i])
  <2>1. CASE i = 1
    BY <1>2, <2>1
  <2>2. CASE i # 1
    <3>1. i - 1 \in DOMAIN s /\ stack'[i] = s[i - 1] /\ (i - 1) + 1 = i
      BY <1>3, <1>4, <2>2
    <3> QED
      BY <1>2, <3>1
  <2> QED
    BY <2>1, <2>2
<1>6. ASSUME NEW i \in DOMAIN stack, i # 1
      PROVE  i \in DOMAIN stack' /\ stack'[i] = stack[i]
  <2>1. i - 1 \in DOMAIN s /\ stack[i] = s[i - 1] /\ (i - 1) + 1 = i
    BY <1>2, <1>4, <1>6
  <2> QED
    BY <1>3, <2>1
<1>7. \A l : Awaited(l) => Awaited(l)' \/ Comes(Top, l)
  BY <1>2, <1>6 DEF Awaited
<1>8. \A l : Comes(f, l) => Awaited(l)'
  BY <1>3 DEF Awaited
<1> QED
  BY <1>2, <1>3, <1>5, <1>7, <1>8

--------------------------------------------------------------------------------
(* The loads in a loader's list.                                           *)

LEMMA PendingFinite ==
  \A l : /\ IsFiniteSet(Pending(l)) /\ IsFiniteSet(Pending(l) \ Background)
         /\ Cardinality(Pending(l)) \in Nat /\ Cardinality(Pending(l) \ Background) \in Nat
<1> SUFFICES ASSUME NEW l
             PROVE  /\ IsFiniteSet(Pending(l)) /\ IsFiniteSet(Pending(l) \ Background)
                    /\ Cardinality(Pending(l)) \in Nat
                    /\ Cardinality(Pending(l) \ Background) \in Nat
  OBVIOUS
<1>1. Pending(l) \in SUBSET Load /\ Pending(l) \ Background \in SUBSET Load
  BY DEF Pending
<1>2. IsFiniteSet(Pending(l)) /\ IsFiniteSet(Pending(l) \ Background)
  BY <1>1, FS_Subset, LoadAssumption
<1> QED
  BY <1>2, FS_CardinalityType

LEMMA PendingGains ==
  ASSUME TypeOK, NEW x \in Load, owner[x] = None, NEW l \in Loader,
         owner' = [owner EXCEPT ![x] = l]
  PROVE  /\ Cardinality(Pending(l)') = Cardinality(Pending(l)) + 1
         /\ Cardinality(Pending(l)' \ Background)
              = Cardinality(Pending(l) \ Background) + IF x \in Background THEN 0 ELSE 1
         /\ \A k \in Loader \ {l} : Pending(k)' = Pending(k)
<1>1. \A y \in Load : owner'[y] = IF y = x THEN l ELSE owner[y]
  BY DEF TypeOK
<1>2. /\ Pending(l)' = Pending(l) \cup {x} /\ x \notin Pending(l)
      /\ \A k \in Loader \ {l} : Pending(k)' = Pending(k)
  BY <1>1, LoadAssumption DEF Pending
<1>3. Cardinality(Pending(l) \cup {x}) = Cardinality(Pending(l)) + 1
  BY <1>2, PendingFinite, FS_AddElement
<1>4. CASE x \in Background
  <2>1. Pending(l)' \ Background = Pending(l) \ Background
    BY <1>2, <1>4
  <2>2. Cardinality(Pending(l) \ Background) \in Nat
    BY PendingFinite
  <2>3. Cardinality(Pending(l)') = Cardinality(Pending(l)) + 1
    BY <1>2, <1>3
  <2>4. Cardinality(Pending(l)' \ Background) = Cardinality(Pending(l) \ Background)
    BY <2>1
  <2> QED
    BY <1>2, <1>4, <2>2, <2>3, <2>4
<1>5. CASE x \notin Background
  <2>1. Pending(l)' \ Background = (Pending(l) \ Background) \cup {x}
    BY <1>2, <1>5
  <2>2. Cardinality((Pending(l) \ Background) \cup {x})
          = Cardinality(Pending(l) \ Background) + 1
    BY <1>2, PendingFinite, FS_AddElement
  <2>3. Cardinality(Pending(l)') = Cardinality(Pending(l)) + 1
    BY <1>2, <1>3
  <2>4. Cardinality(Pending(l)' \ Background) = Cardinality(Pending(l) \ Background) + 1
    BY <2>1, <2>2
  <2> QED
    BY <1>2, <1>5, <2>3, <2>4
<1> QED
  BY <1>4, <1>5

LEMMA PendingLoses ==
  ASSUME TypeOK, NEW x \in Load, NEW l \in Loader, owner[x] = l,
         owner' = [owner EXCEPT ![x] = None]
  PROVE  /\ Cardinality(Pending(l)') = Cardinality(Pending(l)) - 1
         /\ Cardinality(Pending(l)' \ Background)
              = Cardinality(Pending(l) \ Background) - IF x \in Background THEN 0 ELSE 1
         /\ \A k \in Loader \ {l} : Pending(k)' = Pending(k)
<1>1. \A y \in Load : owner'[y] = IF y = x THEN None ELSE owner[y]
  BY DEF TypeOK
<1>2. /\ Pending(l)' = Pending(l) \ {x} /\ x \in Pending(l)
      /\ \A k \in Loader \ {l} : Pending(k)' = Pending(k)
  BY <1>1, LoadAssumption DEF Pending
<1>3. Cardinality(Pending(l) \ {x}) = Cardinality(Pending(l)) - 1
  BY <1>2, PendingFinite, FS_RemoveElement
<1>4. CASE x \in Background
  <2>1. Pending(l)' \ Background = Pending(l) \ Background
    BY <1>2, <1>4
  <2>2. Cardinality(Pending(l) \ Background) \in Nat
    BY PendingFinite
  <2>3. Cardinality(Pending(l)') = Cardinality(Pending(l)) - 1
    BY <1>2, <1>3
  <2>4. Cardinality(Pending(l)' \ Background) = Cardinality(Pending(l) \ Background)
    BY <2>1
  <2> QED
    BY <1>2, <1>4, <2>2, <2>3, <2>4
<1>5. CASE x \notin Background
  <2>1. Pending(l)' \ Background = (Pending(l) \ Background) \ {x}
    BY <1>2
  <2>2. Cardinality((Pending(l) \ Background) \ {x})
          = Cardinality(Pending(l) \ Background) - 1
    BY <1>2, <1>5, PendingFinite, FS_RemoveElement
  <2>3. Cardinality(Pending(l)') = Cardinality(Pending(l)) - 1
    BY <1>2, <1>3
  <2>4. Cardinality(Pending(l)' \ Background) = Cardinality(Pending(l) \ Background) - 1
    BY <2>1, <2>2
  <2> QED
    BY <1>2, <1>5, <2>3, <2>4
<1> QED
  BY <1>4, <1>5

(* A loader that has nothing pending is idle, unless its counts were reset.*)
LEMMA IdleCount ==
  ASSUME CountsMatch, NEW l \in alive \ overlapped
  PROVE  /\ fg[l] \in Nat /\ (Pending(l) = {} => fg[l] = 0 /\ total[l] = 0)
         /\ (fg[l] = 0 => Pending(l) \subseteq Background)
<1>1. fg[l] = Cardinality(Pending(l) \ Background) /\ total[l] = Cardinality(Pending(l))
  BY DEF CountsMatch
<1>2. Cardinality(Pending(l) \ Background) = 0 <=> Pending(l) \ Background = {}
  BY PendingFinite, FS_EmptySet
<1>3. Cardinality({}) = 0
  BY FS_EmptySet
<1>4. Pending(l) = {} => Pending(l) \ Background = {}
  OBVIOUS
<1> QED
  BY <1>1, <1>2, <1>3, <1>4, PendingFinite

--------------------------------------------------------------------------------
LEMMA InitIInv == Init => IInv
<1> SUFFICES ASSUME Init PROVE IInv
  OBVIOUS
<1>1. TypeOK
  BY TreeAssumption, LoadAssumption DEF Init, TypeOK
<1>2. LoadsPart /\ StartsPart
  BY DEF Init, LoadsPart, StartsPart
<1>3. CountsMatch
  <2>1. \A l \in alive : Pending(l) = {}
    BY TreeAssumption, LoadAssumption DEF Init, Pending
  <2>2. \A l \in alive : Pending(l) \ Background = {}
    BY <2>1
  <2>3. \A l \in alive : fg[l] = 0 /\ total[l] = 0
    BY TreeAssumption DEF Init
  <2> QED
    BY <2>1, <2>2, <2>3, FS_EmptySet DEF CountsMatch
<1>4. ReportPart
  BY DEF Init, ReportPart
<1> QED
  BY <1>1, <1>2, <1>3, <1>4 DEF IInv

(* Loaders come and go without a report: a new one has nothing to do, and  *)
(* one that goes has nothing pending.                                      *)
LEMMA CreateDocumentLoaderIInv ==
  ASSUME IInv, NEW l \in Loader \ {Root}, CreateDocumentLoader(l)
  PROVE  IInv'
<1>0. TypeOK /\ LoadsPart /\ StartsPart /\ CountsMatch /\ ReportPart
  BY DEF IInv
<1>1. /\ l \notin alive /\ Parent[l] \in alive /\ alive' = alive \cup {l}
      /\ fg' = [fg EXCEPT ![l] = 0] /\ total' = [total EXCEPT ![l] = 0]
      /\ processed' = [processed EXCEPT ![l] = FALSE]
      /\ UNCHANGED <<owner, tried, running, stack, begun, overlapped, failed>>
  BY DEF CreateDocumentLoader
<1>2. TypeOK'
  <2>1. \A k \in alive' \ {Root} : Parent[k] \in alive'
    BY <1>0, <1>1 DEF TypeOK
  <2>2. owner' \in [Load -> alive' \cup {None}]
    BY <1>0, <1>1 DEF TypeOK
  <2>3. stack' \in Seq(Notice(alive'))
    <3>1. \A i \in DOMAIN stack : stack[i] \in Notice(alive')
      BY <1>0, <1>1, StackType DEF Notice
    <3>2. stack \in Seq(Notice(alive'))
      BY <1>0, <3>1, StackType, Retyped
    <3> QED
      BY <1>1, <3>2
  <2>4. /\ fg' \in [Loader -> Int] /\ total' \in [Loader -> Int]
        /\ processed' \in [Loader -> BOOLEAN]
    BY <1>0, <1>1 DEF TypeOK
  <2> QED
    BY <1>0, <1>1, <2>1, <2>2, <2>3, <2>4 DEF TypeOK, Notice
<1>3. LoadsPart' /\ StartsPart'
  BY <1>0, <1>1 DEF LoadsPart, StartsPart, Starts
<1>4. CountsMatch'
  <2>1. \A k : Pending(k)' = Pending(k)
    BY <1>1 DEF Pending
  <2>2. Pending(l) = {} /\ Pending(l) \ Background = {}
    BY <1>0, <1>1, LoadAssumption DEF TypeOK, Pending
  <2>3. fg'[l] = Cardinality(Pending(l) \ Background) /\ total'[l] = Cardinality(Pending(l))
    BY <1>0, <1>1, <2>2, FS_EmptySet DEF TypeOK
  <2>4. \A k \in alive : fg'[k] = fg[k] /\ total'[k] = total[k]
    BY <1>0, <1>1 DEF TypeOK
  <2> QED
    BY <1>0, <1>1, <2>1, <2>3, <2>4 DEF CountsMatch
<1>5. ReportPart'
  <2>1. ASSUME NEW k \in begun, IsBusy(k) PROVE IsBusy(k)'
    <3>1. PICK j \in Below(k) : fg[j] # 0
      BY <2>1 DEF IsBusy
    <3>2. j \in Below(k)' /\ fg'[j] # 0
      BY <1>0, <1>1, <3>1 DEF TypeOK, Below
    <3> QED
      BY <3>2 DEF IsBusy
  <2>2. \A k \in begun : /\ Overlapped(k)' <=> Overlapped(k)
                         /\ Awaited(k)' <=> Awaited(k)
                         /\ processed'[k] = processed[k]
    BY <1>0, <1>1 DEF TypeOK, Overlapped, Awaited
  <2> QED
    BY <1>0, <1>1, <2>1, <2>2 DEF ReportPart
<1> QED
  BY <1>2, <1>3, <1>4, <1>5 DEF IInv

LEMMA DestroyIInv ==
  ASSUME IInv, NEW l \in Loader \ {Root}, Destroy(l)
  PROVE  IInv'
<1>0. TypeOK /\ LoadsPart /\ StartsPart /\ CountsMatch /\ ReportPart
  BY DEF IInv
<1>1. /\ l \in alive \ {Root} /\ Below(l) = {l} /\ Pending(l) = {}
      /\ \A i \in DOMAIN stack : stack[i].at # l
      /\ alive' = alive \ {l} /\ begun' = begun \ {l}
      /\ UNCHANGED <<owner, tried, running, fg, total, processed, stack, overlapped, failed>>
  BY DEF Destroy, Deleted
<1>2. TypeOK'
  <2>1. ASSUME NEW k \in alive' \ {Root} PROVE Parent[k] \in alive'
    <3>1. k \in Loader \ {Root} /\ k \in alive /\ k # l /\ Parent[k] \in alive
      BY <1>0, <1>1 DEF TypeOK
    <3>2. Parent[k] = l => k \in Below(l)
      BY <1>1, <3>1, AboveParent, AboveSelf DEF Below
    <3> QED
      BY <1>1, <3>1, <3>2
  <2>2. owner' \in [Load -> alive' \cup {None}]
    BY <1>0, <1>1 DEF TypeOK, Pending
  <2>3. stack' \in Seq(Notice(alive'))
    <3>1. \A i \in DOMAIN stack : stack[i] \in Notice(alive')
      BY <1>0, <1>1, StackType DEF Notice
    <3>2. stack \in Seq(Notice(alive'))
      BY <1>0, <3>1, StackType, Retyped
    <3> QED
      BY <1>1, <3>2
  <2> QED
    BY <1>0, <1>1, <2>1, <2>2, <2>3 DEF TypeOK, Notice
<1>3. LoadsPart' /\ StartsPart'
  BY <1>0, <1>1 DEF LoadsPart, StartsPart, Starts
<1>4. CountsMatch'
  <2>1. \A k : Pending(k)' = Pending(k)
    BY <1>1 DEF Pending
  <2> QED
    BY <1>0, <1>1, <2>1 DEF CountsMatch
<1>5. ReportPart'
  <2>1. ASSUME NEW k \in begun, IsBusy(k) PROVE IsBusy(k)' \/ Overlapped(k)
    <3>1. PICK j \in Below(k) : fg[j] # 0
      BY <2>1 DEF IsBusy
    <3>2. CASE j # l
      BY <1>1, <3>1, <3>2 DEF IsBusy, Below
    <3>3. CASE j = l
      <4>1. l \in overlapped /\ k \in Above[l]
        BY <1>0, <1>1, <3>1, <3>3, IdleCount DEF Below
      <4> QED
        BY <4>1 DEF Overlapped
    <3> QED
      BY <3>2, <3>3
  <2>2. \A k : /\ Overlapped(k)' <=> Overlapped(k)
               /\ Awaited(k)' <=> Awaited(k)
    BY <1>1 DEF Overlapped, Awaited
  <2> QED
    BY <1>0, <1>1, <2>1, <2>2 DEF ReportPart
<1> QED
  BY <1>2, <1>3, <1>4, <1>5 DEF IInv

(* A document is asked for.  Its load waits in the starting notification;  *)
(* the loader is busy with it unless it is in the background.              *)
LEMMA LoadDocumentIInv ==
  ASSUME IInv, NEW l \in Loader \ {Root}, NEW x \in Load, LoadDocument(l, x)
  PROVE  IInv'
<1>0. TypeOK /\ LoadsPart /\ StartsPart /\ CountsMatch /\ ReportPart
  BY DEF IInv
<1>1. /\ l \in alive \ {Root} /\ x \notin tried
      /\ tried' = tried \cup {x} /\ owner' = [owner EXCEPT ![x] = l]
      /\ processed' = [processed EXCEPT ![l] = FALSE]
      /\ fg' = IF x \in Background THEN fg ELSE [fg EXCEPT ![l] = 1]
      /\ total' = [total EXCEPT ![l] = 1]
      /\ begun' = IF x \in Background THEN begun \ {l} ELSE begun \cup {l}
      /\ overlapped' = overlapped \cup {k \in {l} : Pending(k) # {}}
      /\ stack' = <<Call("starting", l, x)>> \o stack
      /\ UNCHANGED <<alive, running, failed>>
  BY DEF LoadDocument
<1>2. owner[x] = None /\ l # None /\ l \in Loader
  BY <1>0, <1>1, LoadAssumption DEF LoadsPart
<1> DEFINE f == Call("starting", l, x)
<1>3. f \in Notice(alive) /\ f.op = "starting" /\ f.at = l /\ f.load = x
  BY <1>1 DEF Call, Notice
<1>4. stack' = <<f>> \o stack
  BY <1>1
<1> HIDE DEF f
<1>5. stack' \in Seq(Notice(alive)) /\ \A k : Awaited(k) => Awaited(k)'
  BY <1>0, <1>3, <1>4, CallBegins
<1>6. TypeOK'
  <2>1. /\ owner' \in [Load -> alive \cup {None}] /\ processed' \in [Loader -> BOOLEAN]
        /\ total' \in [Loader -> Int]
    BY <1>0, <1>1 DEF TypeOK
  <2>2. fg' \in [Loader -> Int]
    BY <1>0, <1>1 DEF TypeOK
  <2>3. begun' \subseteq alive /\ overlapped' \subseteq Loader
    BY <1>0, <1>1 DEF TypeOK
  <2> QED
    BY <1>0, <1>1, <1>5, <2>1, <2>2, <2>3 DEF TypeOK, Notice
<1>7. LoadsPart'
  BY <1>0, <1>1, <1>2 DEF TypeOK, LoadsPart
<1>8. StartsPart'
  <2> DEFINE m(i) == i - 1
  <2>1. /\ stack'[1] = f
        /\ \A i \in DOMAIN stack' :
             i \in Nat /\ (i = 1 \/ (m(i) \in DOMAIN stack /\ stack'[i] = stack[m(i)]))
    <3>1. stack \in Seq(Notice(alive)) /\ \A i \in DOMAIN stack' : i \in Nat
      BY <1>0, <1>5, StackType
    <3> QED
      BY <1>3, <1>4, <3>1, Pushed
  <2>2. \A i, j \in Nat : m(i) = m(j) => i = j
    OBVIOUS
  <2> HIDE DEF m
  <2>3. ASSUME NEW i \in DOMAIN stack, Starts(i)
        PROVE  stack[i].load \in Load /\ stack[i].load # x
    <3>1. stack[i].load \in Load /\ owner[stack[i].load] \in alive
      BY <1>0, <2>3, StackType DEF StartsPart, Notice
    <3> QED
      BY <1>0, <1>2, <3>1, LoadAssumption DEF TypeOK
  <2>4. x \notin running /\ owner'[x] = l /\ \A y \in Load \ {x} : owner'[y] = owner[y]
    BY <1>0, <1>1 DEF TypeOK
  <2>5. ASSUME NEW i \in DOMAIN stack', Starts(i)'
        PROVE  /\ owner'[stack'[i].load] = stack'[i].at /\ stack'[i].load \notin running'
               /\ \A j \in DOMAIN stack' : Starts(j)' /\ stack'[j].load = stack'[i].load => i = j
    <3>1. CASE i = 1
      <4>1. ASSUME NEW j \in DOMAIN stack', Starts(j)', stack'[j].load = x, j # 1 PROVE FALSE
        BY <2>1, <2>3, <4>1 DEF Starts
      <4> QED
        BY <1>1, <1>3, <2>1, <2>4, <3>1, <4>1
    <3>2. CASE i # 1
      <4>1. m(i) \in DOMAIN stack /\ stack'[i] = stack[m(i)] /\ Starts(m(i))
        BY <2>1, <2>5, <3>2 DEF Starts
      <4>2. /\ owner'[stack'[i].load] = stack'[i].at /\ stack'[i].load \notin running
        BY <1>0, <2>3, <2>4, <4>1 DEF StartsPart
      <4>3. ASSUME NEW j \in DOMAIN stack', Starts(j)', stack'[j].load = stack'[i].load
            PROVE  i = j
        <5>1. j # 1
          BY <1>3, <2>1, <2>3, <4>1, <4>3
        <5>2. m(j) \in DOMAIN stack /\ stack'[j] = stack[m(j)] /\ Starts(m(j))
          BY <2>1, <4>3, <5>1 DEF Starts
        <5>3. m(i) = m(j)
          BY <1>0, <4>1, <4>3, <5>2 DEF StartsPart
        <5> QED
          BY <2>1, <2>2, <5>3
      <4> QED
        BY <1>1, <4>2, <4>3
    <3> QED
      BY <3>1, <3>2
  <2> QED
    BY <2>5 DEF StartsPart
<1>9. CountsMatch'
  <2>1. /\ Cardinality(Pending(l)') = Cardinality(Pending(l)) + 1
        /\ Cardinality(Pending(l)' \ Background)
             = Cardinality(Pending(l) \ Background) + IF x \in Background THEN 0 ELSE 1
        /\ \A k \in Loader \ {l} : Pending(k)' = Pending(k)
    BY <1>0, <1>1, <1>2, PendingGains
  <2>2. ASSUME l \notin overlapped'
        PROVE  fg'[l] = Cardinality(Pending(l)' \ Background) /\ total'[l] = Cardinality(Pending(l)')
    <3>1. Pending(l) = {} /\ l \notin overlapped
      BY <1>1, <2>2
    <3>2. Pending(l) \ Background = {}
      BY <3>1
    <3>3. /\ Cardinality(Pending(l)') = 1
          /\ Cardinality(Pending(l)' \ Background) = IF x \in Background THEN 0 ELSE 1
      BY <2>1, <3>1, <3>2, FS_EmptySet
    <3>4. fg[l] = 0
      BY <1>0, <1>1, <3>1, IdleCount
    <3> QED
      BY <1>0, <1>1, <1>2, <3>3, <3>4 DEF TypeOK
  <2>3. \A k \in alive \ {l} : fg'[k] = fg[k] /\ total'[k] = total[k] /\ k \in Loader
    BY <1>0, <1>1 DEF TypeOK
  <2>4. ASSUME NEW k \in alive' \ overlapped'
        PROVE  /\ fg'[k] = Cardinality(Pending(k)' \ Background)
               /\ total'[k] = Cardinality(Pending(k)')
    <3>1. CASE k = l
      BY <2>2, <2>4, <3>1
    <3>2. CASE k # l
      <4>1. /\ fg[k] = Cardinality(Pending(k) \ Background)
            /\ total[k] = Cardinality(Pending(k))
        BY <1>0, <1>1, <2>4 DEF CountsMatch
      <4> QED
        BY <1>1, <2>1, <2>3, <2>4, <3>2, <4>1
    <3> QED
      BY <3>1, <3>2
  <2> QED
    BY <2>4 DEF CountsMatch
<1>10. ReportPart'
  <2>1. ASSUME NEW k, IsBusy(k) PROVE IsBusy(k)'
    <3>1. PICK j \in Below(k) : fg[j] # 0
      BY <2>1 DEF IsBusy
    <3>2. fg'[j] # 0
      BY <1>0, <1>1, <3>1 DEF TypeOK, Below
    <3> QED
      BY <1>1, <3>1, <3>2 DEF IsBusy, Below
  <2>2. ASSUME l \in begun' PROVE IsBusy(l)'
    <3>1. x \notin Background
      BY <1>1, <2>2
    <3>2. fg'[l] = 1 /\ l \in Below(l)'
      BY <1>0, <1>1, <1>2, <3>1, AboveSelf DEF TypeOK, Below
    <3> QED
      BY <3>2 DEF IsBusy
  <2>3. \A k \in begun' \ {l} : k \in begun /\ processed'[k] = processed[k]
    BY <1>0, <1>1 DEF TypeOK
  <2>4. \A k : Overlapped(k) => Overlapped(k)'
    BY <1>1 DEF Overlapped
  <2> QED
    BY <1>0, <1>5, <2>1, <2>2, <2>3, <2>4 DEF ReportPart
<1> QED
  BY <1>6, <1>7, <1>8, <1>9, <1>10 DEF IInv

LEMMA OpenStreamIInv ==
  ASSUME IInv, NEW l \in Loader \ {Root}, NEW x \in Load, OpenStream(l, x)
  PROVE  IInv'
<1>0. TypeOK /\ LoadsPart /\ StartsPart /\ CountsMatch /\ ReportPart
  BY DEF IInv
<1>1. /\ l \in alive \ {Root} /\ x \notin tried
      /\ tried' = tried \cup {x} /\ owner' = [owner EXCEPT ![x] = l]
      /\ running' \in {running, running \cup {x}} /\ failed' \in 0..MaxFailed
      /\ fg' = IF x \in Background THEN fg ELSE [fg EXCEPT ![l] = @ + 1]
      /\ total' = [total EXCEPT ![l] = @ + 1]
      /\ UNCHANGED <<alive, processed, stack, begun, overlapped>>
  BY <1>0, LoadAssumption DEF OpenStream, Opening, NetOpens, TypeOK
<1>2. owner[x] = None /\ l # None /\ l \in Loader
  BY <1>0, <1>1, LoadAssumption DEF LoadsPart
<1>3. TypeOK'
  <2>1. owner' \in [Load -> alive \cup {None}] /\ total' \in [Loader -> Int]
    BY <1>0, <1>1 DEF TypeOK
  <2>2. fg' \in [Loader -> Int]
    BY <1>0, <1>1 DEF TypeOK
  <2>3. running' \subseteq tried'
    BY <1>0, <1>1 DEF TypeOK
  <2> QED
    BY <1>0, <1>1, <2>1, <2>2, <2>3 DEF TypeOK
<1>4. owner'[x] = l /\ \A y \in Load \ {x} : owner'[y] = owner[y]
  BY <1>0, <1>1 DEF TypeOK
<1>5. LoadsPart'
  BY <1>0, <1>1, <1>2, <1>4 DEF TypeOK, LoadsPart
<1>6. StartsPart'
  <2>1. ASSUME NEW i \in DOMAIN stack, Starts(i)
        PROVE  stack[i].load \in Load /\ stack[i].load # x
    <3>1. stack[i].load \in Load /\ owner[stack[i].load] \in alive
      BY <1>0, <2>1, StackType DEF StartsPart, Notice
    <3> QED
      BY <1>0, <1>2, <3>1, LoadAssumption DEF TypeOK
  <2> QED
    BY <1>0, <1>1, <1>4, <2>1 DEF StartsPart, Starts
<1>7. CountsMatch'
  <2>1. /\ Cardinality(Pending(l)') = Cardinality(Pending(l)) + 1
        /\ Cardinality(Pending(l)' \ Background)
             = Cardinality(Pending(l) \ Background) + IF x \in Background THEN 0 ELSE 1
        /\ \A k \in Loader \ {l} : Pending(k)' = Pending(k)
    BY <1>0, <1>1, <1>2, PendingGains
  <2>2. ASSUME l \notin overlapped'
        PROVE  fg'[l] = Cardinality(Pending(l)' \ Background) /\ total'[l] = Cardinality(Pending(l)')
    <3>1. fg[l] = Cardinality(Pending(l) \ Background) /\ total[l] = Cardinality(Pending(l))
      BY <1>0, <1>1, <2>2 DEF CountsMatch
    <3>2. total'[l] = total[l] + 1 /\ fg'[l] = fg[l] + IF x \in Background THEN 0 ELSE 1
      BY <1>0, <1>1, <1>2 DEF TypeOK
    <3> QED
      BY <2>1, <3>1, <3>2
  <2>3. \A k \in alive \ {l} : fg'[k] = fg[k] /\ total'[k] = total[k] /\ k \in Loader
    BY <1>0, <1>1 DEF TypeOK
  <2>4. ASSUME NEW k \in alive' \ overlapped'
        PROVE  /\ fg'[k] = Cardinality(Pending(k)' \ Background)
               /\ total'[k] = Cardinality(Pending(k)')
    <3>1. CASE k = l
      BY <2>2, <2>4, <3>1
    <3>2. CASE k # l
      <4>1. /\ fg[k] = Cardinality(Pending(k) \ Background)
            /\ total[k] = Cardinality(Pending(k))
        BY <1>0, <1>1, <2>4 DEF CountsMatch
      <4> QED
        BY <1>1, <2>1, <2>3, <2>4, <3>2, <4>1
    <3> QED
      BY <3>1, <3>2
  <2> QED
    BY <2>4 DEF CountsMatch
<1>8. ReportPart'
  <2>1. ASSUME NEW k, IsBusy(k) PROVE IsBusy(k)' \/ Overlapped(k)
    <3>1. PICK j \in Below(k) : fg[j] # 0
      BY <2>1 DEF IsBusy
    <3>2. CASE fg'[j] # 0
      BY <1>1, <3>1, <3>2 DEF IsBusy, Below
    <3>3. CASE fg'[j] = 0
      <4>1. j = l /\ fg[l] + 1 = 0
        BY <1>0, <1>1, <3>1, <3>3 DEF TypeOK, Below
      <4>2. l \in overlapped
        BY <1>0, <1>1, <4>1, IdleCount
      <4> QED
        BY <3>1, <4>1, <4>2 DEF Overlapped, Below
    <3> QED
      BY <3>2, <3>3
  <2>2. \A k : /\ Overlapped(k)' <=> Overlapped(k)
               /\ Awaited(k)' <=> Awaited(k)
    BY <1>1 DEF Overlapped, Awaited
  <2> QED
    BY <1>0, <1>1, <2>1, <2>2 DEF ReportPart
<1> QED
  BY <1>3, <1>5, <1>6, <1>7, <1>8 DEF IInv

(* A load ends, within whatever notification: what it ends is told when    *)
(* the notification of its end returns.                                    *)
LEMMA LoadURLCompleteIInv ==
  ASSUME IInv, NEW x \in Load, LoadURLComplete(x)
  PROVE  IInv'
<1>0. TypeOK /\ LoadsPart /\ StartsPart /\ CountsMatch /\ ReportPart
  BY DEF IInv
<1>1. PICK l : l = owner[x]
  OBVIOUS
<1>2. /\ x \in running
      /\ running' = running \ {x} /\ owner' = [owner EXCEPT ![x] = None]
      /\ fg' = IF x \in Background THEN fg ELSE [fg EXCEPT ![l] = @ - 1]
      /\ total' = [total EXCEPT ![l] = @ - 1]
      /\ stack' = <<Call("endURL", l, x)>> \o stack
      /\ UNCHANGED <<alive, tried, processed, begun, overlapped, failed>>
  BY <1>1 DEF LoadURLComplete
<1>3. l \in alive /\ l \in Loader /\ l # None
  BY <1>0, <1>1, <1>2 DEF TypeOK, LoadsPart
<1> DEFINE f == Call("endURL", l, x)
<1>4. f \in Notice(alive) /\ f.op = "endURL" /\ f.at = l /\ f.load = x
  BY <1>3 DEF Call, Notice
<1>5. stack' = <<f>> \o stack
  BY <1>2
<1> HIDE DEF f
<1>6. stack' \in Seq(Notice(alive)) /\ \A k : /\ Awaited(k) => Awaited(k)'
                                              /\ Comes(f, k) => Awaited(k)'
  BY <1>0, <1>4, <1>5, CallBegins
<1>7. owner'[x] = None /\ \A y \in Load \ {x} : owner'[y] = owner[y]
  BY <1>0, <1>2 DEF TypeOK
<1>8. TypeOK'
  <2>1. owner' \in [Load -> alive \cup {None}] /\ total' \in [Loader -> Int]
    BY <1>0, <1>2, <1>3 DEF TypeOK
  <2>2. fg' \in [Loader -> Int]
    BY <1>0, <1>2, <1>3 DEF TypeOK
  <2> QED
    BY <1>0, <1>2, <1>6, <2>1, <2>2 DEF TypeOK, Notice
<1>9. LoadsPart'
  BY <1>0, <1>2, <1>7 DEF TypeOK, LoadsPart
<1>10. StartsPart'
  <2> DEFINE m(i) == i - 1
  <2>1. /\ stack'[1] = f
        /\ \A i \in DOMAIN stack' :
             i \in Nat /\ (i = 1 \/ (m(i) \in DOMAIN stack /\ stack'[i] = stack[m(i)]))
    <3>1. stack \in Seq(Notice(alive)) /\ \A i \in DOMAIN stack' : i \in Nat
      BY <1>0, <1>6, StackType
    <3> QED
      BY <1>4, <1>5, <3>1, Pushed
  <2>2. \A i, j \in Nat : m(i) = m(j) => i = j
    OBVIOUS
  <2> HIDE DEF m
  <2>3. ASSUME NEW i \in DOMAIN stack', Starts(i)'
        PROVE  m(i) \in DOMAIN stack /\ stack'[i] = stack[m(i)] /\ Starts(m(i))
    BY <1>4, <2>1, <2>3 DEF Starts
  <2>4. ASSUME NEW i \in DOMAIN stack', Starts(i)'
        PROVE  /\ owner'[stack'[i].load] = stack'[i].at /\ stack'[i].load \notin running'
               /\ \A j \in DOMAIN stack' : Starts(j)' /\ stack'[j].load = stack'[i].load => i = j
    <3>1. /\ owner[stack'[i].load] = stack'[i].at /\ stack'[i].load \notin running
          /\ stack'[i].load \in Load
      BY <1>0, <2>3, <2>4, StackType DEF StartsPart, Notice
    <3>2. ASSUME NEW j \in DOMAIN stack', Starts(j)', stack'[j].load = stack'[i].load
          PROVE  m(i) = m(j)
      BY <1>0, <2>3, <2>4, <3>2 DEF StartsPart
    <3>3. \A j \in DOMAIN stack' : Starts(j)' /\ stack'[j].load = stack'[i].load => i = j
      BY <2>1, <2>2, <3>2
    <3> QED
      BY <1>2, <1>7, <3>1, <3>3
  <2> QED
    BY <2>4 DEF StartsPart
<1>11. CountsMatch'
  <2>1. /\ Cardinality(Pending(l)') = Cardinality(Pending(l)) - 1
        /\ Cardinality(Pending(l)' \ Background)
             = Cardinality(Pending(l) \ Background) - IF x \in Background THEN 0 ELSE 1
        /\ \A k \in Loader \ {l} : Pending(k)' = Pending(k)
    BY <1>0, <1>1, <1>2, <1>3, PendingLoses
  <2>2. ASSUME l \notin overlapped'
        PROVE  fg'[l] = Cardinality(Pending(l)' \ Background) /\ total'[l] = Cardinality(Pending(l)')
    <3>1. fg[l] = Cardinality(Pending(l) \ Background) /\ total[l] = Cardinality(Pending(l))
      BY <1>0, <1>2, <1>3, <2>2 DEF CountsMatch
    <3>2. /\ total'[l] = total[l] - 1 /\ fg'[l] = fg[l] - IF x \in Background THEN 0 ELSE 1
          /\ fg[l] \in Int
      BY <1>0, <1>2, <1>3 DEF TypeOK
    <3> QED
      BY <2>1, <3>1, <3>2
  <2>3. \A k \in alive \ {l} : fg'[k] = fg[k] /\ total'[k] = total[k] /\ k \in Loader
    BY <1>0, <1>2, <1>3 DEF TypeOK
  <2>4. ASSUME NEW k \in alive' \ overlapped'
        PROVE  /\ fg'[k] = Cardinality(Pending(k)' \ Background)
               /\ total'[k] = Cardinality(Pending(k)')
    <3>1. CASE k = l
      BY <2>2, <2>4, <3>1
    <3>2. CASE k # l
      <4>1. /\ fg[k] = Cardinality(Pending(k) \ Background)
            /\ total[k] = Cardinality(Pending(k))
        BY <1>0, <1>2, <2>4 DEF CountsMatch
      <4> QED
        BY <1>2, <2>1, <2>3, <2>4, <3>2, <4>1
    <3> QED
      BY <3>1, <3>2
  <2> QED
    BY <2>4 DEF CountsMatch
<1>12. ReportPart'
  <2>1. ASSUME NEW k, IsBusy(k) PROVE IsBusy(k)' \/ Awaited(k)'
    <3>1. PICK j \in Below(k) : fg[j] # 0
      BY <2>1 DEF IsBusy
    <3>2. CASE fg'[j] # 0
      BY <1>2, <3>1, <3>2 DEF IsBusy, Below
    <3>3. CASE fg'[j] = 0
      <4>1. j = l /\ x \in Foreground
        BY <1>0, <1>2, <3>1, <3>3 DEF TypeOK, Below, Foreground
      <4>2. Comes(f, k)
        BY <1>4, <3>1, <4>1 DEF Comes, Below
      <4> QED
        BY <1>6, <4>2
    <3> QED
      BY <3>2, <3>3
  <2>2. \A k : Overlapped(k)' <=> Overlapped(k)
    BY <1>2 DEF Overlapped
  <2> QED
    BY <1>0, <1>2, <1>6, <2>1, <2>2 DEF ReportPart
<1> QED
  BY <1>8, <1>9, <1>10, <1>11, <1>12 DEF IInv

LEMMA BindIInv == ASSUME IInv, Bind PROVE IInv'
<1>0. TypeOK /\ LoadsPart /\ StartsPart /\ CountsMatch /\ ReportPart
  BY DEF IInv
<1>1. /\ stack # <<>> /\ Top.op = "starting" /\ Return
      /\ running' \in {running, running \cup {Top.load}} /\ failed' \in 0..MaxFailed
      /\ UNCHANGED <<alive, owner, tried, fg, total, processed, begun, overlapped>>
  BY <1>0, LoadAssumption DEF Bind, Doing, NetOpens, TypeOK
<1>2. /\ stack' \in Seq(Notice(alive)) /\ Top \in Notice(alive)
      /\ \A k : Awaited(k) => Awaited(k)' \/ Comes(Top, k)
  BY <1>0, <1>1, CallReturns
<1> DEFINE m(i) == i + 1
<1>3. /\ Top = stack[1] /\ 1 \in DOMAIN stack
      /\ \A i \in DOMAIN stack' :
           i \in Nat /\ m(i) # 1 /\ m(i) \in DOMAIN stack /\ stack'[i] = stack[m(i)]
  <2>1. stack \in Seq(Notice(alive))
    BY <1>0, StackType
  <2> QED
    BY <1>1, <2>1, Popped DEF Return, Top
<1>4. \A i, j \in Nat : m(i) = m(j) => i = j
  OBVIOUS
<1> HIDE DEF m
<1>5. Top.load \in Load /\ owner[Top.load] \in alive /\ owner[Top.load] # None
  <2>1. owner[Top.load] = Top.at
    BY <1>0, <1>1, <1>3 DEF StartsPart, Starts
  <2> QED
    BY <1>0, <1>2, <2>1, LoadAssumption DEF Notice, TypeOK
<1>6. TypeOK' /\ LoadsPart'
  BY <1>0, <1>1, <1>2, <1>5 DEF TypeOK, LoadsPart, Notice
<1>7. StartsPart'
  <2>1. ASSUME NEW i \in DOMAIN stack', Starts(i)'
        PROVE  /\ owner'[stack'[i].load] = stack'[i].at /\ stack'[i].load \notin running'
               /\ \A j \in DOMAIN stack' : Starts(j)' /\ stack'[j].load = stack'[i].load => i = j
    <3>1. m(i) \in DOMAIN stack /\ stack'[i] = stack[m(i)] /\ Starts(m(i)) /\ m(i) # 1
      BY <1>3, <2>1 DEF Starts
    <3>2. owner[stack'[i].load] = stack'[i].at /\ stack'[i].load \notin running
      BY <1>0, <3>1 DEF StartsPart
    <3>3. stack'[i].load # Top.load
      BY <1>0, <1>1, <1>3, <3>1 DEF StartsPart, Starts
    <3>4. ASSUME NEW j \in DOMAIN stack', Starts(j)', stack'[j].load = stack'[i].load
          PROVE  i = j
      <4>1. m(j) \in DOMAIN stack /\ stack'[j] = stack[m(j)] /\ Starts(m(j))
        BY <1>3, <3>4 DEF Starts
      <4>2. m(i) = m(j)
        BY <1>0, <3>1, <3>4, <4>1 DEF StartsPart
      <4> QED
        BY <1>3, <1>4, <4>2
    <3> QED
      BY <1>1, <3>2, <3>3, <3>4
  <2> QED
    BY <2>1 DEF StartsPart
<1>8. CountsMatch'
  BY <1>0, <1>1 DEF CountsMatch, Pending
<1>9. ReportPart'
  <2>1. \A k : /\ IsBusy(k)' <=> IsBusy(k)
               /\ Overlapped(k)' <=> Overlapped(k)
               /\ ~Comes(Top, k)
    BY <1>1 DEF IsBusy, Below, Overlapped, Comes
  <2> QED
    BY <1>0, <1>1, <1>2, <2>1 DEF ReportPart
<1> QED
  BY <1>6, <1>7, <1>8, <1>9 DEF IInv

--------------------------------------------------------------------------------
(* The end of a document.                                                  *)

(* Loader p is idle and reports its end; the loaders that the call at the  *)
(* top was to look at are p and those above it.                            *)
LEMMA EndReports ==
  ASSUME IInv, stack # <<>>, NEW p \in alive, NEW x \in Load,
         FireOnEndDocumentLoad(p, x),
         UNCHANGED <<alive, owner, tried, running, fg, total, begun, overlapped, failed>>,
         \A k \in begun : Comes(Top, k) => k \in Above[p]
  PROVE  IInv'
<1>0. TypeOK /\ LoadsPart /\ StartsPart /\ CountsMatch /\ ReportPart
  BY DEF IInv
<1> DEFINE f == Call("endDoc", p, x)
<1>1. stack' = <<f>> \o Tail(stack) /\ processed' = [processed EXCEPT ![p] = TRUE]
  BY DEF FireOnEndDocumentLoad
<1>2. f \in Notice(alive) /\ f.op = "endDoc" /\ f.at = p
  BY DEF Call, Notice
<1> HIDE DEF f
<1>3. /\ stack' \in Seq(Notice(alive)) /\ stack'[1] = f
      /\ \A i \in DOMAIN stack' : i \in DOMAIN stack /\ (i # 1 => stack'[i] = stack[i])
      /\ \A k : /\ Awaited(k) => Awaited(k)' \/ Comes(Top, k)
                /\ Comes(f, k) => Awaited(k)'
  BY <1>0, <1>1, <1>2, CallReplaced
<1>4. TypeOK' /\ LoadsPart'
  <2>1. processed' \in [Loader -> BOOLEAN]
    BY <1>0, <1>1 DEF TypeOK
  <2> QED
    BY <1>0, <1>3, <2>1 DEF TypeOK, LoadsPart, Notice
<1>5. StartsPart'
  <2>1. \A i \in DOMAIN stack' :
          Starts(i)' => i \in DOMAIN stack /\ stack'[i] = stack[i] /\ Starts(i)
    BY <1>2, <1>3 DEF Starts
  <2> QED
    BY <1>0, <2>1 DEF StartsPart
<1>6. CountsMatch'
  BY <1>0 DEF CountsMatch, Pending
<1>7. ReportPart'
  <2>1. \A k : (IsBusy(k)' <=> IsBusy(k)) /\ (Overlapped(k)' <=> Overlapped(k))
    BY DEF IsBusy, Below, Overlapped
  <2>2. \A k \in begun : processed[k] => processed'[k]
    BY <1>0, <1>1 DEF TypeOK
  <2>3. ASSUME NEW k \in begun, Comes(Top, k) PROVE processed'[k] \/ Awaited(k)'
    <3>1. CASE k = p
      BY <1>0, <1>1, <3>1 DEF TypeOK
    <3>2. CASE k # p
      <4>1. Comes(f, k)
        BY <1>2, <2>3, <3>2 DEF Comes
      <4> QED
        BY <1>3, <4>1
    <3> QED
      BY <3>1, <3>2
  <2> QED
    BY <1>0, <1>3, <2>1, <2>2, <2>3 DEF ReportPart
<1> QED
  BY <1>4, <1>5, <1>6, <1>7 DEF IInv

(* The call at the top returns, and whoever it was to look at is busy.     *)
LEMMA EndReturns ==
  ASSUME IInv, stack # <<>>, Return, UNCHANGED processed,
         UNCHANGED <<alive, owner, tried, running, fg, total, begun, overlapped, failed>>,
         \A k \in begun : Comes(Top, k) => IsBusy(k)
  PROVE  IInv'
<1>0. TypeOK /\ LoadsPart /\ StartsPart /\ CountsMatch /\ ReportPart
  BY DEF IInv
<1>1. /\ stack' \in Seq(Notice(alive))
      /\ \A k : Awaited(k) => Awaited(k)' \/ Comes(Top, k)
  BY <1>0, CallReturns
<1>2. TypeOK' /\ LoadsPart'
  BY <1>0, <1>1 DEF TypeOK, LoadsPart, Notice
<1>3. StartsPart'
  <2> DEFINE m(i) == i + 1
  <2>1. \A i \in DOMAIN stack' : i \in Nat /\ m(i) \in DOMAIN stack /\ stack'[i] = stack[m(i)]
    <3>1. stack \in Seq(Notice(alive))
      BY <1>0, StackType
    <3> QED
      BY <3>1, Popped DEF Return
  <2>2. \A i, j \in Nat : m(i) = m(j) => i = j
    OBVIOUS
  <2> HIDE DEF m
  <2> QED
    BY <1>0, <2>1, <2>2 DEF StartsPart, Starts
<1>4. CountsMatch'
  BY <1>0 DEF CountsMatch, Pending
<1>5. ReportPart'
  <2>1. \A k : (IsBusy(k)' <=> IsBusy(k)) /\ (Overlapped(k)' <=> Overlapped(k))
    BY DEF IsBusy, Below, Overlapped
  <2> QED
    BY <1>0, <1>1, <2>1 DEF ReportPart
<1> QED
  BY <1>2, <1>3, <1>4, <1>5 DEF IInv

LEMMA EndURLReturnsIInv == ASSUME IInv, EndURLReturns PROVE IInv'
<1>1. /\ stack # <<>> /\ Top.op = "endURL"
      /\ UNCHANGED <<alive, owner, tried, running, fg, total, begun, overlapped, failed>>
  BY DEF EndURLReturns, Doing
<1>2. Top \in Notice(alive)
  <2>1. stack \in Seq(Notice(alive))
    BY StackType DEF IInv
  <2> QED
    BY <1>1, <2>1, Popped DEF Top
<1>3. CASE Top.load \in Foreground /\ ~IsBusy(Top.at)
  <2>1. FireOnEndDocumentLoad(Top.at, Top.load)
    BY <1>3 DEF EndURLReturns
  <2>2. PICK p \in alive, x \in Load : p = Top.at /\ x = Top.load
    BY <1>2 DEF Notice
  <2>3. \A k \in begun : Comes(Top, k) => k \in Above[p]
    BY <1>1, <2>2 DEF Comes
  <2>4. FireOnEndDocumentLoad(p, x)
    BY <2>1, <2>2
  <2> QED
    BY <1>1, <2>3, <2>4, EndReports
<1>4. CASE ~(Top.load \in Foreground /\ ~IsBusy(Top.at))
  <2>1. Return /\ UNCHANGED processed
    BY <1>4 DEF EndURLReturns
  <2>2. ASSUME NEW k \in begun, Comes(Top, k) PROVE IsBusy(k)
    <3>1. IsBusy(Top.at) /\ k \in Above[Top.at]
      BY <1>1, <1>4, <2>2 DEF Comes
    <3> QED
      BY <3>1, BusyAbove DEF IInv, TypeOK
  <2> QED
    BY <1>1, <2>1, <2>2, EndReturns
<1> QED
  BY <1>3, <1>4

LEMMA EndDocReturnsIInv == ASSUME IInv, EndDocReturns PROVE IInv'
<1>1. /\ stack # <<>> /\ Top.op = "endDoc"
      /\ UNCHANGED <<alive, owner, tried, running, fg, total, begun, overlapped, failed>>
  BY DEF EndDocReturns, Doing
<1>2. Top \in Notice(alive) /\ Top.at \in Loader
  <2>1. stack \in Seq(Notice(alive))
    BY StackType DEF IInv
  <2>2. Top \in Notice(alive) /\ alive \subseteq Loader
    BY <1>1, <2>1, Popped DEF Top, IInv, TypeOK
  <2> QED
    BY <2>2 DEF Notice
<1>3. CASE Top.at # Root /\ ~IsBusy(Parent[Top.at])
  <2>1. FireOnEndDocumentLoad(Parent[Top.at], Top.load)
    BY <1>3 DEF EndDocReturns
  <2>2. PICK p \in alive, x \in Load : p = Parent[Top.at] /\ x = Top.load
    BY <1>2, <1>3 DEF Notice, IInv, TypeOK
  <2>3. \A k \in begun : Comes(Top, k) => k \in Above[p]
    BY <1>1, <1>2, <1>3, <2>2, AboveParent DEF Comes
  <2>4. FireOnEndDocumentLoad(p, x)
    BY <2>1, <2>2
  <2> QED
    BY <1>1, <2>3, <2>4, EndReports
<1>4. CASE ~(Top.at # Root /\ ~IsBusy(Parent[Top.at]))
  <2>1. Return /\ UNCHANGED processed
    BY <1>4 DEF EndDocReturns
  <2>2. ASSUME NEW k \in begun, Comes(Top, k) PROVE IsBusy(k)
    <3>1. k \in Above[Top.at] /\ k # Top.at
      BY <1>1, <2>2 DEF Comes
    <3>2. Top.at # Root
      BY <3>1, AboveRoot
    <3>3. IsBusy(Parent[Top.at]) /\ k \in Above[Parent[Top.at]]
      BY <1>2, <1>4, <3>1, <3>2, AboveParent
    <3> QED
      BY <3>3, BusyAbove DEF IInv, TypeOK
  <2> QED
    BY <1>1, <2>1, <2>2, EndReturns
<1> QED
  BY <1>3, <1>4

--------------------------------------------------------------------------------
LEMMA NextIInv == IInv /\ [Next]_vars => IInv'
<1> SUFFICES ASSUME IInv, [Next]_vars PROVE IInv'
  OBVIOUS
<1>1. ASSUME UNCHANGED vars PROVE IInv'
  <2>1. /\ UNCHANGED <<alive, owner, tried, running, fg, total, processed, stack>>
        /\ UNCHANGED <<begun, overlapped, failed>>
    BY <1>1 DEF vars
  <2>2. TypeOK' /\ LoadsPart'
    BY <2>1 DEF IInv, TypeOK, LoadsPart
  <2>3. StartsPart' /\ CountsMatch'
    BY <2>1 DEF IInv, StartsPart, Starts, CountsMatch, Pending
  <2>4. \A l : /\ IsBusy(l)' <=> IsBusy(l)
               /\ Overlapped(l)' <=> Overlapped(l)
               /\ Awaited(l)' <=> Awaited(l)
    BY <2>1 DEF IsBusy, Below, Overlapped, Awaited
  <2>5. ReportPart'
    BY <2>1, <2>4 DEF IInv, ReportPart
  <2> QED
    BY <2>2, <2>3, <2>5 DEF IInv
<1>2. ASSUME Client PROVE IInv'
  BY <1>2, CreateDocumentLoaderIInv, DestroyIInv, LoadDocumentIInv, OpenStreamIInv,
     LoadURLCompleteIInv
  DEF Client
<1>3. ASSUME Notification PROVE IInv'
  BY <1>3, BindIInv, EndURLReturnsIInv, EndDocReturnsIInv DEF Notification
<1> QED
  BY <1>1, <1>2, <1>3 DEF Next

(* IInv holds for every tree of loaders and any clients.                   *)
THEOREM IInvAlways == Spec => []IInv
  BY InitIInv, NextIInv, PTL DEF Spec

(* The variables keep their types: in particular no load and no            *)
(* notification is left with a loader that has gone, and no loader is left *)
(* without the one above it.                                               *)
THEOREM TypeCorrect == Spec => []TypeOK
<1>1. IInv => TypeOK
  BY DEF IInv
<1> QED
  BY <1>1, IInvAlways, PTL

(* mForegroundURLs and mTotalURLs are what is in m_LoadingDocsList, unless *)
(* a document was asked for over pending loads.                            *)
THEOREM CountsAlwaysMatch == Spec => []CountsMatch
<1>1. IInv => CountsMatch
  BY DEF IInv
<1> QED
  BY <1>1, IInvAlways, PTL

(* A container is told of the end of its document: no loader comes to rest *)
(* with all below it and has not reported, in any nesting of the           *)
(* notifications.                                                          *)
THEOREM EndAlwaysReported == Spec => []EndReported
<1>1. ASSUME IInv, stack = <<>>, NEW l \in begun
      PROVE  IsBusy(l) \/ processed[l] \/ Overlapped(l)
  <2>1. ~Awaited(l)
    BY <1>1 DEF Awaited
  <2> QED
    BY <1>1, <2>1 DEF IInv, ReportPart
<1>2. IInv => EndReported
  BY <1>1 DEF EndReported
<1> QED
  BY <1>2, IInvAlways, PTL

(* A container is told so only when nothing in the foreground is loading   *)
(* for the document or for a frame in it.                                  *)
LEMMA IdleLoads ==
  ASSUME CountsMatch, NEW p, ~IsBusy(p), ~Overlapped(p)
  PROVE  ~Loading(p)
<1> SUFFICES ASSUME NEW k \in Below(p), Pending(k) \ Background # {} PROVE FALSE
  BY DEF Loading
<1>1. k \in alive \ overlapped /\ fg[k] = 0
  BY DEF Below, Overlapped, IsBusy
<1> QED
  BY <1>1, IdleCount

THEOREM AlwaysToldWhenLoaded == Spec => ToldWhenLoaded
<1> DEFINE Told == \A l \in Loader : ~processed[l] /\ processed'[l] =>
                                       ~Loading(l)' \/ Overlapped(l)
<1>1. ASSUME IInv, NEW p, NEW x, ~IsBusy(p), FireOnEndDocumentLoad(p, x),
             UNCHANGED <<alive, owner, fg>>
      PROVE  Told
  <2>1. \A l \in Loader : ~processed[l] /\ processed'[l] => l = p
    BY <1>1 DEF FireOnEndDocumentLoad, IInv, TypeOK
  <2>2. Loading(p)' <=> Loading(p)
    BY <1>1 DEF Loading, Below, Pending
  <2>3. ~Loading(p) \/ Overlapped(p)
    BY <1>1, IdleLoads DEF IInv
  <2> QED
    BY <2>1, <2>2, <2>3
<1>2. ASSUME IInv, EndURLReturns PROVE Told
  <2>1. CASE Top.load \in Foreground /\ ~IsBusy(Top.at)
    <3>1. PICK p, x : p = Top.at /\ x = Top.load
      OBVIOUS
    <3>2. ~IsBusy(p) /\ FireOnEndDocumentLoad(p, x) /\ UNCHANGED <<alive, owner, fg>>
      BY <1>2, <2>1, <3>1 DEF EndURLReturns
    <3> QED
      BY <1>1, <1>2, <3>2
  <2>2. CASE ~(Top.load \in Foreground /\ ~IsBusy(Top.at))
    BY <1>2, <2>2 DEF EndURLReturns
  <2> QED
    BY <2>1, <2>2
<1>3. ASSUME IInv, EndDocReturns PROVE Told
  <2>1. CASE Top.at # Root /\ ~IsBusy(Parent[Top.at])
    <3>1. PICK p, x : p = Parent[Top.at] /\ x = Top.load
      OBVIOUS
    <3>2. ~IsBusy(p) /\ FireOnEndDocumentLoad(p, x) /\ UNCHANGED <<alive, owner, fg>>
      BY <1>3, <2>1, <3>1 DEF EndDocReturns
    <3> QED
      BY <1>1, <1>3, <3>2
  <2>2. CASE ~(Top.at # Root /\ ~IsBusy(Parent[Top.at]))
    BY <1>3, <2>2 DEF EndDocReturns
  <2> QED
    BY <2>1, <2>2
<1>4. ASSUME IInv, Client \/ Bind PROVE Told
  <2>1. UNCHANGED processed \/ \E l \in Loader : processed' = [processed EXCEPT ![l] = FALSE]
    BY <1>4
    DEF Client, Bind, CreateDocumentLoader, Destroy, Deleted, LoadDocument, OpenStream, Opening,
        LoadURLComplete
  <2>2. \A l \in Loader : processed'[l] => processed[l]
    BY <1>4, <2>1 DEF IInv, TypeOK
  <2> QED
    BY <2>2
<1>5. IInv /\ [Next]_vars => [Told]_vars
  BY <1>2, <1>3, <1>4 DEF Next, Notification
<1> QED
  BY <1>5, IInvAlways, PTL DEF Spec, ToldWhenLoaded
================================================================================
