---------------------------- MODULE CMonCacheProofs ----------------------------
(***************************************************************************)
(* Proofs about CMonCache, for any finite set of threads, any set of       *)
(* addresses and all bounds.                                               *)
(*                                                                         *)
(* IInv holds initially and survives every action, one lemma per action    *)
(* and in it one step per part; the safety properties of the runs follow.  *)
(***************************************************************************)
EXTENDS CMonCache, FiniteSetTheorems, TLAPS

--------------------------------------------------------------------------------
(* The inductive invariant.                                                *)

(* An entry is bound to an address exactly while it is counted; it is then *)
(* in the chain its address hashes to now, and the only one for it.        *)
TablePart ==
  /\ \A e \in Entry :
       IF address[e] = 0
       THEN bucket[e] = NoBucket /\ count[e] = 0
       ELSE e <= made /\ bucket[e] = Hash(address[e], log) /\ count[e] > 0
  /\ \A e, f \in Entry : address[e] = address[f] /\ address[e] # 0 => e = f

(* The entry that a call has fetched is still bound to the call's address. *)
CallPart ==
  \A t \in Thread :
    IF pc[t] = "idle" THEN mon[t] = 0 /\ call[t] = 0
    ELSE mon[t] \in Entry /\ call[t] # 0 /\ address[mon[t]] = call[t]

(* Who is about to wait or to notify is inside; who waits has left, and    *)
(* has entries to come back with.                                          *)
HolderPart ==
  /\ \A e \in Entry : holder[e] = NoThread <=> depth[e] = 0
  /\ \A t \in Thread :
       pc[t] \in {"towait", "tonotify", "tonotifyall"} => holder[mon[t]] = t
  /\ \A t \in Thread : Waiting(t) => holder[mon[t]] # t
  /\ \A t \in Thread : saved[t] > 0 <=> Waiting(t)

(* The free list has no repetition and holds what is not bound.            *)
Items(s) == {s[i] : i \in DOMAIN s}
NoRepeat(s) == \A i, j \in DOMAIN s : s[i] = s[j] => i = j
FreePart ==
  /\ numFree = Len(free) /\ NoRepeat(free)
  /\ \A e \in Entry : e \in Items(free) <=> e <= made /\ address[e] = 0

IInv == TypeOK /\ TablePart /\ CallPart /\ HolderPart /\ CountsUses /\ FreePart

--------------------------------------------------------------------------------
(* Lemmas about the operators of the model.                                *)

(* Powers of two are positive: they count the subsets of 1..n.             *)
LEMMA PowerPositive == ASSUME NEW n \in Nat PROVE 2^n \in Nat \ {0}
<1>1. IsFiniteSet(1..n) /\ Cardinality(1..n) = n
  BY FS_Interval
<1>2. IsFiniteSet(SUBSET (1..n)) /\ Cardinality(SUBSET (1..n)) = 2^n
  BY <1>1, FS_SUBSET
<1>3. SUBSET (1..n) # {}
  OBVIOUS
<1> QED
  BY <1>2, <1>3, FS_CardinalityType, FS_EmptySet

(* HASH yields a bucket of the table.                                      *)
LEMMA HashInTable ==
  ASSUME NEW a \in Nat, NEW size \in Nat
  PROVE  Hash(a, size) \in 0..(2^size - 1) /\ Hash(a, size) # NoBucket
<1>1. 2^size \in Nat \ {0}
  BY PowerPositive
<1>2. \A m \in Nat \ {0} : a % m \in 0..(m - 1)
  OBVIOUS
<1>3. Hash(a, size) \in 0..(2^size - 1)
  BY <1>1, <1>2 DEF Hash
<1> QED
  BY <1>1, <1>3 DEF NoBucket

(* Pairs <<t, i>> with i in 1..w[t], for one thread and for a set of them. *)
Pairs(t, w) == {t} \X (1..w[t])
AllPairs(U, w) == UNION {Pairs(t, w) : t \in U}

LEMMA PairsCounted ==
  ASSUME NEW t, NEW w, w[t] \in Nat
  PROVE  IsFiniteSet(Pairs(t, w)) /\ Cardinality(Pairs(t, w)) = w[t]
<1>1. IsFiniteSet(1..w[t]) /\ Cardinality(1..w[t]) = w[t]
  BY FS_Interval, SMTT(30)
<1>2. IsFiniteSet({t}) /\ Cardinality({t}) = 1
  BY FS_Singleton
<1>3. /\ IsFiniteSet({t} \X (1..w[t]))
      /\ Cardinality({t} \X (1..w[t])) = Cardinality({t}) * Cardinality(1..w[t])
  BY <1>1, <1>2, FS_Product
<1> QED
  BY <1>1, <1>2, <1>3 DEF Pairs

LEMMA AllPairsFinite ==
  ASSUME NEW U, IsFiniteSet(U), NEW w, \A t \in U : w[t] \in Nat
  PROVE  IsFiniteSet(AllPairs(U, w))
<1> DEFINE f == [t \in U |-> Pairs(t, w)]
           T == {Pairs(t, w) : t \in U}
<1>1. f \in Surjection(U, T)
  BY DEF Surjection
<1>2. IsFiniteSet(T)
  BY <1>1, FS_Surjection
<1>3. \A P \in T : IsFiniteSet(P)
  BY PairsCounted
<1> QED
  BY <1>2, <1>3, FS_UNION DEF AllPairs

(* A sum is a number, it is the sum without t plus what t adds, and it     *)
(* depends on w at the members of the set only.                            *)
LEMMA TotalSplit ==
  ASSUME NEW U, IsFiniteSet(U), NEW w, \A u \in U : w[u] \in Nat, NEW t
  PROVE  /\ Total(U \ {t}, w) \in Nat
         /\ Total(U, w) = Total(U \ {t}, w) + IF t \in U THEN w[t] ELSE 0
<1>1. IsFiniteSet(U \ {t})
  BY FS_RemoveElement
<1>2. IsFiniteSet(AllPairs(U \ {t}, w))
  BY <1>1, AllPairsFinite
<1>3. Total(U \ {t}, w) \in Nat
  BY <1>2, FS_CardinalityType DEF Total, AllPairs, Pairs
<1>4. CASE t \notin U
  <2>1. U \ {t} = U
    BY <1>4
  <2>2. Total(U \ {t}, w) = Total(U, w)
    BY <2>1, Zenon
  <2> QED
    BY <1>3, <1>4, <2>2
<1>5. CASE t \in U
  <2>1. IsFiniteSet(Pairs(t, w)) /\ Cardinality(Pairs(t, w)) = w[t]
    BY <1>5, PairsCounted
  <2>2. AllPairs(U \ {t}, w) \cap Pairs(t, w) = {}
    BY DEF AllPairs, Pairs
  <2>3. AllPairs(U, w) = AllPairs(U \ {t}, w) \cup Pairs(t, w)
    BY <1>5 DEF AllPairs
  <2>4. Cardinality(AllPairs(U \ {t}, w) \cap Pairs(t, w)) = 0
    BY <2>2, FS_EmptySet, Zenon
  <2>5. Cardinality(AllPairs(U \ {t}, w) \cup Pairs(t, w))
          = Cardinality(AllPairs(U \ {t}, w)) + Cardinality(Pairs(t, w)) - 0
    BY <1>2, <2>1, <2>4, FS_Union
  <2>6. Total(U, w) = Cardinality(AllPairs(U \ {t}, w) \cup Pairs(t, w))
    BY <2>3, Zenon DEF Total, AllPairs, Pairs
  <2>7. Total(U \ {t}, w) = Cardinality(AllPairs(U \ {t}, w))
    BY DEF Total, AllPairs, Pairs
  <2> QED
    BY <1>3, <1>5, <2>1, <2>5, <2>6, <2>7
<1> QED
  BY <1>3, <1>4, <1>5

LEMMA TotalSame ==
  ASSUME NEW U, NEW w, NEW v, \A t \in U : w[t] = v[t]
  PROVE  Total(U, w) = Total(U, v)
<1>1. {{t} \X (1..w[t]) : t \in U} = {{t} \X (1..v[t]) : t \in U}
  OBVIOUS
<1> QED
  BY <1>1 DEF Total

LEMMA TotalEmpty == ASSUME NEW w PROVE Total({}, w) = 0
<1>1. UNION {{t} \X (1..w[t]) : t \in {}} = {}
  OBVIOUS
<1> QED
  BY <1>1, FS_EmptySet, Zenon DEF Total

(* What thread t owes entry e.                                             *)
Share(e, t) == IF t \in Using(e) THEN Owes[t] ELSE 0

(* A sum is what t owes and what the others do.                            *)
LEMMA UsesSplit ==
  ASSUME NEW U \in SUBSET Thread, NEW w \in [Thread -> Nat], NEW t \in Thread
  PROVE  /\ Total(U \ {t}, w) \in Nat
         /\ Total(U, w) = Total(U \ {t}, w) + IF t \in U THEN w[t] ELSE 0
<1>1. IsFiniteSet(U) /\ \A u \in U : w[u] \in Nat
  BY CacheAssumption, FS_Subset
<1> QED
  BY <1>1, TotalSplit

(* A step in which only t changes what is owed keeps the count right if    *)
(* the count changes by what t enters and owes.                            *)
LEMMA CountStep ==
  ASSUME TypeOK, TypeOK', NEW e \in Entry, NEW t \in Thread,
         count[e] = depth[e] + Total(Using(e), Owes),
         \A u \in Thread \ {t} :
           /\ u \in Using(e)' <=> u \in Using(e)
           /\ Owes'[u] = Owes[u],
         count'[e] - depth'[e] - Share(e, t)' = count[e] - depth[e] - Share(e, t)
  PROVE  count'[e] = depth'[e] + Total(Using(e), Owes)'
<1>1. Using(e) \in SUBSET Thread /\ Using(e)' \in SUBSET Thread
  BY DEF Using
<1>2. Owes \in [Thread -> Nat] /\ Owes' \in [Thread -> Nat]
  BY DEF Owes, TypeOK
<1>3. Using(e)' \ {t} = Using(e) \ {t}
  BY <1>1
<1>4. \A u \in Using(e) \ {t} : Owes'[u] = Owes[u]
  BY <1>1
<1>5. Total(Using(e) \ {t}, Owes') = Total(Using(e) \ {t}, Owes)
  BY <1>4, TotalSame
<1>6. Total(Using(e)' \ {t}, Owes') = Total(Using(e) \ {t}, Owes)
  BY <1>3, <1>5, Zenon
<1>7. /\ Total(Using(e) \ {t}, Owes) \in Nat
      /\ Total(Using(e), Owes) = Total(Using(e) \ {t}, Owes) + Share(e, t)
  BY <1>1, <1>2, UsesSplit DEF Share
<1>8. Total(Using(e)', Owes') = Total(Using(e)' \ {t}, Owes') + Share(e, t)'
  <2>1. Total(Using(e)', Owes')
          = Total(Using(e)' \ {t}, Owes') + IF t \in Using(e)' THEN Owes'[t] ELSE 0
    BY <1>1, <1>2, UsesSplit
  <2> QED
    BY <2>1 DEF Share
<1>9. Share(e, t) \in Nat /\ Share(e, t)' \in Nat
  BY <1>2 DEF Share
<1>10. /\ count[e] \in Int /\ depth[e] \in Int
       /\ count'[e] \in Int /\ depth'[e] \in Int
  BY DEF TypeOK
<1> QED
  BY <1>6, <1>7, <1>8, <1>9, <1>10

(* Lists without repetition: the free list's operations.                   *)

LEMMA ConcatItems ==
  ASSUME NEW S, NEW s \in Seq(S), NEW u \in Seq(S),
         NoRepeat(s), NoRepeat(u), \A x \in Items(s) : x \notin Items(u)
  PROVE  /\ s \o u \in Seq(S) /\ Len(s \o u) = Len(s) + Len(u)
         /\ NoRepeat(s \o u) /\ Items(s \o u) = Items(s) \cup Items(u)
<1>1. s \o u \in Seq(S) /\ Len(s \o u) = Len(s) + Len(u)
  OBVIOUS
<1>2. /\ DOMAIN s = 1..Len(s) /\ DOMAIN u = 1..Len(u)
      /\ Len(s) \in Nat /\ Len(u) \in Nat
      /\ DOMAIN (s \o u) = 1..(Len(s) + Len(u))
  BY <1>1
<1>3. \A i \in DOMAIN (s \o u) :
        (s \o u)[i] = IF i <= Len(s) THEN s[i] ELSE u[i - Len(s)]
  BY <1>2
<1>4. NoRepeat(s \o u)
  <2> SUFFICES ASSUME NEW i \in DOMAIN (s \o u), NEW j \in DOMAIN (s \o u),
                      (s \o u)[i] = (s \o u)[j]
               PROVE  i = j
    BY DEF NoRepeat
  <2>1. CASE i <= Len(s) /\ j <= Len(s)
    BY <1>2, <1>3, <2>1 DEF NoRepeat
  <2>2. CASE i > Len(s) /\ j > Len(s)
    <3>1. u[i - Len(s)] = u[j - Len(s)]
      BY <1>2, <1>3, <2>2
    <3>2. i - Len(s) \in DOMAIN u /\ j - Len(s) \in DOMAIN u
      BY <1>2, <2>2
    <3> QED
      BY <1>2, <3>1, <3>2 DEF NoRepeat
  <2>3. CASE i <= Len(s) /\ j > Len(s)
    <3>1. s[i] = u[j - Len(s)] /\ i \in DOMAIN s /\ j - Len(s) \in DOMAIN u
      BY <1>2, <1>3, <2>3
    <3> QED
      BY <3>1 DEF Items
  <2>4. CASE i > Len(s) /\ j <= Len(s)
    <3>1. s[j] = u[i - Len(s)] /\ j \in DOMAIN s /\ i - Len(s) \in DOMAIN u
      BY <1>2, <1>3, <2>4
    <3> QED
      BY <3>1 DEF Items
  <2> QED
    BY <1>2, <2>1, <2>2, <2>3, <2>4
<1>5. Items(s \o u) \subseteq Items(s) \cup Items(u)
  BY <1>2, <1>3 DEF Items
<1>6. Items(s) \subseteq Items(s \o u)
  BY <1>2, <1>3 DEF Items
<1>7. Items(u) \subseteq Items(s \o u)
  <2> SUFFICES ASSUME NEW i \in DOMAIN u PROVE u[i] \in Items(s \o u)
    BY DEF Items
  <2>1. Len(s) + i \in DOMAIN (s \o u) /\ (s \o u)[Len(s) + i] = u[i]
    BY <1>2, <1>3
  <2> QED
    BY <2>1 DEF Items
<1> QED
  BY <1>1, <1>4, <1>5, <1>6, <1>7

LEMMA PushItem ==
  ASSUME NEW S, NEW s \in Seq(S), NoRepeat(s), NEW e \in S, e \notin Items(s)
  PROVE  /\ <<e>> \o s \in Seq(S) /\ Len(<<e>> \o s) = Len(s) + 1
         /\ NoRepeat(<<e>> \o s) /\ Items(<<e>> \o s) = Items(s) \cup {e}
<1>1. <<e>> \in Seq(S) /\ Len(<<e>>) = 1 /\ NoRepeat(<<e>>) /\ Items(<<e>>) = {e}
  BY DEF NoRepeat, Items
<1>2. \A x \in Items(<<e>>) : x \notin Items(s)
  BY <1>1, Zenon
<1>3. \A r, q \in Seq(S) :
        NoRepeat(r) /\ NoRepeat(q) /\ (\A x \in Items(r) : x \notin Items(q)) =>
          /\ r \o q \in Seq(S) /\ Len(r \o q) = Len(r) + Len(q)
          /\ NoRepeat(r \o q) /\ Items(r \o q) = Items(r) \cup Items(q)
  BY ConcatItems
<1>4. /\ <<e>> \o s \in Seq(S) /\ Len(<<e>> \o s) = Len(<<e>>) + Len(s)
      /\ NoRepeat(<<e>> \o s) /\ Items(<<e>> \o s) = Items(<<e>>) \cup Items(s)
  BY <1>1, <1>2, <1>3, Zenon
<1> QED
  BY <1>1, <1>4

LEMMA PopItem ==
  ASSUME NEW S, NEW s \in Seq(S), NoRepeat(s), Len(s) > 0
  PROVE  /\ Head(s) \in Items(s) /\ Tail(s) \in Seq(S)
         /\ Len(Tail(s)) = Len(s) - 1
         /\ NoRepeat(Tail(s)) /\ Items(Tail(s)) = Items(s) \ {Head(s)}
<1>1. /\ Tail(s) \in Seq(S) /\ Len(Tail(s)) = Len(s) - 1 /\ Len(s) \in Nat
      /\ DOMAIN s = 1..Len(s) /\ DOMAIN Tail(s) = 1..(Len(s) - 1)
      /\ Head(s) = s[1] /\ \A i \in 1..(Len(s) - 1) : Tail(s)[i] = s[i + 1]
  OBVIOUS
<1>2. NoRepeat(Tail(s))
  BY <1>1 DEF NoRepeat
<1>3. Head(s) \in Items(s)
  BY <1>1 DEF Items
<1>4. Items(Tail(s)) \subseteq Items(s) \ {Head(s)}
  <2> SUFFICES ASSUME NEW i \in 1..(Len(s) - 1)
               PROVE  s[i + 1] \in Items(s) /\ s[i + 1] # s[1]
    BY <1>1 DEF Items
  <2>1. i + 1 \in DOMAIN s /\ 1 \in DOMAIN s /\ i + 1 # 1
    BY <1>1
  <2> QED
    BY <2>1 DEF Items, NoRepeat
<1>5. Items(s) \ {Head(s)} \subseteq Items(Tail(s))
  <2> SUFFICES ASSUME NEW i \in DOMAIN s, s[i] # Head(s)
               PROVE  s[i] \in Items(Tail(s))
    BY DEF Items
  <2>1. i - 1 \in DOMAIN Tail(s) /\ Tail(s)[i - 1] = s[i]
    BY <1>1
  <2> QED
    BY <2>1 DEF Items
<1> QED
  BY <1>1, <1>2, <1>3, <1>4, <1>5

LEMMA StackItems ==
  ASSUME NEW lo \in Nat, NEW hi \in Nat, lo <= hi + 1
  PROVE  /\ Stack(lo, hi) \in Seq(lo..hi) /\ Len(Stack(lo, hi)) = hi - lo + 1
         /\ NoRepeat(Stack(lo, hi)) /\ Items(Stack(lo, hi)) = lo..hi
<1> DEFINE n == hi - lo + 1
<1>1. n \in Nat /\ Stack(lo, hi) = [i \in 1..n |-> lo + i - 1]
  BY DEF Stack
<1>2. \A i \in 1..n : lo + i - 1 \in lo..hi
  OBVIOUS
<1>3. Stack(lo, hi) \in Seq(lo..hi) /\ Len(Stack(lo, hi)) = n
  BY <1>1, <1>2
<1>4. NoRepeat(Stack(lo, hi))
  BY <1>1 DEF NoRepeat
<1>5. Items(Stack(lo, hi)) \subseteq lo..hi
  BY <1>1, <1>2 DEF Items
<1>6. lo..hi \subseteq Items(Stack(lo, hi))
  <2> SUFFICES ASSUME NEW e \in lo..hi PROVE e \in Items(Stack(lo, hi))
    OBVIOUS
  <2>1. e - lo + 1 \in 1..n /\ Stack(lo, hi)[e - lo + 1] = e
    BY <1>1
  <2> QED
    BY <1>1, <2>1 DEF Items
<1> QED
  BY <1>3, <1>4, <1>5, <1>6

LEMMA ItemsCounted ==
  ASSUME NEW S, NEW s \in Seq(S), NoRepeat(s)
  PROVE  IsFiniteSet(Items(s)) /\ Cardinality(Items(s)) = Len(s)
<1> DEFINE f == [i \in 1..Len(s) |-> s[i]]
<1>1. Len(s) \in Nat /\ DOMAIN s = 1..Len(s)
  OBVIOUS
<1>2. IsFiniteSet(1..Len(s)) /\ Cardinality(1..Len(s)) = Len(s)
  BY <1>1, FS_Interval
<1>3. f \in Surjection(1..Len(s), Items(s))
  BY <1>1 DEF Items, Surjection
<1>4. f \in Injection(1..Len(s), Items(s))
  <2>1. f \in [1..Len(s) -> Items(s)]
    BY <1>1 DEF Items
  <2>2. \A i, j \in 1..Len(s) : f[i] = f[j] => i = j
    BY <1>1 DEF NoRepeat
  <2> HIDE DEF f
  <2> QED
    BY <2>1, <2>2, Zenon DEF Injection, IsInjective
<1> QED
  BY <1>2, <1>3, <1>4, FS_Surjection

--------------------------------------------------------------------------------
(* The initial state.                                                      *)

LEMMA InitIInv == Init => IInv
<1> SUFFICES ASSUME Init PROVE IInv
  OBVIOUS
<1> USE DEF Init
<1>1. 2^InitLog \in Nat \ {0} /\ 2^InitLog <= MaxEntries /\ made = 2^InitLog
  BY CacheAssumption, PowerPositive
<1>2. made \in Entry /\ MaxEntries \in Nat /\ log \in Nat
  BY <1>1, CacheAssumption DEF Entry
<1>3. /\ free \in Seq(1..made) /\ Len(free) = made
      /\ NoRepeat(free) /\ Items(free) = 1..made
  <2>1. /\ Stack(1, made) \in Seq(1..made) /\ Len(Stack(1, made)) = made - 1 + 1
        /\ NoRepeat(Stack(1, made)) /\ Items(Stack(1, made)) = 1..made
    <3>1. 1 \in Nat /\ made \in Nat /\ 1 <= made + 1
      BY <1>1
    <3> HIDE DEF Init
    <3> QED
      BY <3>1, StackItems
  <2> QED
    BY <1>1, <2>1
<1>4. free \in Seq(Entry)
  BY <1>2, <1>3 DEF Entry
<1>5. TypeOK
  BY <1>1, <1>2, <1>3, <1>4, CacheAssumption DEF TypeOK, Pcs
<1>6. TablePart
  BY <1>2 DEF TablePart
<1>7. CallPart
  BY DEF CallPart
<1>8. HolderPart
  BY CacheAssumption DEF HolderPart, Waiting
<1>9. CountsUses
  <2> SUFFICES ASSUME NEW e \in Entry
               PROVE  count[e] = depth[e] + Total(Using(e), Owes)
    BY DEF CountsUses
  <2>1. Using(e) = {}
    BY DEF Using, Waiting
  <2>2. Total(Using(e), Owes) = 0
    BY <2>1, TotalEmpty, Zenon
  <2> QED
    BY <2>2
<1>10. FreePart
  BY <1>1, <1>3 DEF FreePart, Entry
<1> QED
  BY <1>5, <1>6, <1>7, <1>8, <1>9, <1>10 DEF IInv

--------------------------------------------------------------------------------
(* What the invariant says of lookups.                                     *)

(* The chain of an address holds every entry bound to it.                  *)
LEMMA BoundIs ==
  ASSUME IInv, NEW a \in Addr
  PROVE  /\ Bound(a) = {e \in Entry : address[e] = a}
         /\ Lookup(a) = {e \in Entry : address[e] = a}
         /\ \A e, f \in Entry : address[e] = a /\ address[f] = a => e = f
<1>1. a # 0 /\ made \in Entry /\ MaxEntries \in Nat
  BY CacheAssumption DEF IInv, TypeOK
<1>2. Bound(a) = {e \in Entry : address[e] = a}
  BY <1>1 DEF IInv, TablePart, Bound, Chain, Entry
<1>3. Lookup(a) = Bound(a)
  BY <1>1, <1>2 DEF IInv, TablePart, Lookup
<1> QED
  BY <1>1, <1>2, <1>3 DEF IInv, TablePart

(* The entry a call has fetched is one.                                    *)
LEMMA MonIs ==
  ASSUME IInv, NEW t \in Thread, pc[t] # "idle"
  PROVE  mon[t] \in Entry /\ call[t] \in Addr /\ address[mon[t]] = call[t]
  BY DEF IInv, CallPart, TypeOK

(* Nobody uses an entry that is not counted.                               *)
LEMMA UnboundUnused ==
  ASSUME IInv, NEW e \in Entry, address[e] = 0
  PROVE  /\ count[e] = 0 /\ depth[e] = 0 /\ holder[e] = NoThread
         /\ \A t \in Thread : mon[t] # e
<1>1. \A t \in Thread : mon[t] # e
  BY DEF IInv, CallPart, Entry
<1>2. Using(e) = {}
  BY <1>1 DEF Using
<1>3. Total(Using(e), Owes) = 0
  BY <1>2, TotalEmpty, Zenon
<1>4. count[e] = 0 /\ depth[e] \in Nat /\ count[e] = depth[e] + Total(Using(e), Owes)
  BY DEF IInv, TablePart, CountsUses, TypeOK
<1>5. depth[e] = 0
  BY <1>3, <1>4
<1> QED
  BY <1>1, <1>4, <1>5 DEF IInv, HolderPart

LEMMA ShareIs ==
  ASSUME NEW e, NEW t \in Thread
  PROVE  /\ Share(e, t) = IF mon[t] # e THEN 0
                          ELSE IF pc[t] = "entering" THEN 1
                          ELSE IF Waiting(t) THEN saved[t] ELSE 0
         /\ Share(e, t)' = IF mon'[t] # e THEN 0
                           ELSE IF pc'[t] = "entering" THEN 1
                           ELSE IF Waiting(t)' THEN saved'[t] ELSE 0
<1>1. Share(e, t) = IF mon[t] # e THEN 0
                    ELSE IF pc[t] = "entering" THEN 1
                    ELSE IF Waiting(t) THEN saved[t] ELSE 0
  BY DEF Share, Using, Owes
<1>2. Share(e, t)' = IF mon'[t] # e THEN 0
                     ELSE IF pc'[t] = "entering" THEN 1
                     ELSE IF Waiting(t)' THEN saved'[t] ELSE 0
  BY DEF Share, Using, Owes
<1> QED
  BY <1>1, <1>2

(* A step counts right if the others keep their part in it and, at every   *)
(* entry, the count moves with what t has entered and what it owes.        *)
LEMMA CountsStep ==
  ASSUME IInv, TypeOK', NEW t \in Thread,
         \A u \in Thread \ {t} :
           /\ mon'[u] = mon[u] /\ saved'[u] = saved[u]
           /\ pc'[u] = "entering" <=> pc[u] = "entering"
           /\ Waiting(u)' <=> Waiting(u),
         \A e \in Entry :
           count'[e] - depth'[e] - Share(e, t)' = count[e] - depth[e] - Share(e, t)
  PROVE  CountsUses'
<1> SUFFICES ASSUME NEW e \in Entry
             PROVE  count'[e] = depth'[e] + Total(Using(e), Owes)'
  BY DEF CountsUses
<1>1. TypeOK /\ count[e] = depth[e] + Total(Using(e), Owes)
  BY DEF IInv, CountsUses
<1>2. \A u \in Thread \ {t} : u \in Using(e)' <=> u \in Using(e)
  BY DEF Using
<1>3. \A u \in Thread \ {t} : Owes'[u] = Owes[u]
  BY DEF Owes
<1> QED
  BY <1>1, <1>2, <1>3, CountStep

--------------------------------------------------------------------------------
(* PR_CEnterMonitor.                                                       *)

(* A caller on its way in is counted at the entry it has fetched.          *)
LEMMA FetchIn ==
  ASSUME IInv, TypeOK', NEW t \in Thread, NEW a \in Addr, NEW e \in Entry,
         pc[t] = "idle", Fetch(t, a, e, "entering"),
         count' = [count EXCEPT ![e] = @ + 1]
  PROVE  HolderPart' /\ CountsUses'
<1> USE DEF Fetch
<1>1. /\ mon'[t] = e /\ pc'[t] = "entering"
      /\ \A u \in Thread \ {t} : mon'[u] = mon[u] /\ pc'[u] = pc[u]
  BY DEF IInv, TypeOK
<1>2. HolderPart'
  BY <1>1 DEF IInv, HolderPart, Waiting
<1>3. CountsUses'
  <2>1. \A f \in Entry : Share(f, t) = 0
    BY ShareIs DEF IInv, CallPart, Entry
  <2>2. \A f \in Entry : Share(f, t)' = IF f = e THEN 1 ELSE 0
    BY <1>1, ShareIs
  <2>3. \A f \in Entry : /\ count'[f] = count[f] + (IF f = e THEN 1 ELSE 0)
                         /\ depth'[f] = depth[f]
                         /\ count[f] \in Int /\ depth[f] \in Int
    BY SMTT(30) DEF IInv, TypeOK
  <2>4. \A f \in Entry : count'[f] - depth'[f] - Share(f, t)'
                           = count[f] - depth[f] - Share(f, t)
    BY <2>1, <2>2, <2>3
  <2>5. \A u \in Thread \ {t} :
          /\ mon'[u] = mon[u] /\ saved'[u] = saved[u]
          /\ pc'[u] = "entering" <=> pc[u] = "entering"
          /\ Waiting(u)' <=> Waiting(u)
    BY <1>1 DEF Waiting
  <2> QED
    BY <2>4, <2>5, CountsStep
<1> QED
  BY <1>2, <1>3

LEMMA CreateFoundIInv ==
  ASSUME IInv, NEW t \in Thread, NEW a \in Addr, CreateFound(t, a)
  PROVE  IInv'
<1>1. PICK e \in Entry : /\ address[e] = a
                         /\ count' = [count EXCEPT ![e] = @ + 1]
                         /\ Fetch(t, a, e, "entering")
  BY BoundIs DEF CreateFound
<1>2. /\ pc[t] = "idle"
      /\ UNCHANGED <<made, address, bucket, free, numFree, log, holder, depth, saved>>
      /\ call' = [call EXCEPT ![t] = a] /\ mon' = [mon EXCEPT ![t] = e]
      /\ pc' = [pc EXCEPT ![t] = "entering"]
  BY <1>1 DEF CreateFound, MayEnter, Fetch
<1>3. a # 0 /\ MaxEntries \in Nat /\ Entry \subseteq 0..MaxEntries
  BY CacheAssumption DEF Entry
<1>4. TypeOK'
  BY <1>1, <1>2, <1>3, SMTT(30) DEF IInv, TypeOK, Pcs
<1>5. TablePart'
  <2>1. \A f \in Entry : /\ address[f] # 0 => count[f] > 0
                         /\ address[f] = 0 => count[f] = 0
    BY DEF IInv, TablePart
  <2>2. \A f \in Entry : count'[f] = IF f = e THEN count[f] + 1 ELSE count[f]
    BY <1>2, <1>1 DEF IInv, TypeOK
  <2>3. \A f \in Entry : /\ address[f] # 0 => count'[f] > 0
                         /\ address[f] = 0 => count'[f] = 0
    BY <1>1, <1>3, <2>1, <2>2 DEF IInv, TypeOK
  <2> QED
    BY <1>2, <2>3 DEF IInv, TablePart, Hash
<1>6. CallPart'
  BY <1>1, <1>2, <1>3 DEF IInv, CallPart, TypeOK
<1>7. HolderPart' /\ CountsUses'
  BY <1>1, <1>2, <1>4, FetchIn
<1>8. FreePart'
  BY <1>2 DEF IInv, FreePart, NoRepeat, Items
<1> QED
  BY <1>4, <1>5, <1>6, <1>7, <1>8 DEF IInv

(* A new binding of a free entry e, in a table of 2^size chains that hashes *)
(* the others right.                                                       *)
LEMMA TakeParts ==
  ASSUME IInv, TypeOK', NEW t \in Thread, NEW a \in Addr, NEW e \in Entry,
         NEW table \in [Entry -> Int], NEW size \in Nat,
         pc[t] = "idle", Bound(a) = {}, address[e] = 0,
         Take(t, a, e, table, size), e <= made', made <= made', log' = size,
         \A f \in Entry : table[f] = IF address[f] = 0 THEN NoBucket
                                     ELSE Hash(address[f], size)
  PROVE  TablePart' /\ CallPart' /\ HolderPart' /\ CountsUses'
<1>1. a # 0 /\ made \in Nat /\ made' \in Nat /\ Entry \subseteq Nat
  BY CacheAssumption DEF IInv, TypeOK, Entry
<1>2. \A f \in Entry : address[f] # a
  BY BoundIs
<1>3. /\ address' = [address EXCEPT ![e] = a]
      /\ bucket' = [table EXCEPT ![e] = Hash(a, size)]
      /\ count' = [count EXCEPT ![e] = @ + 1]
      /\ call' = [call EXCEPT ![t] = a] /\ mon' = [mon EXCEPT ![t] = e]
      /\ pc' = [pc EXCEPT ![t] = "entering"]
      /\ Fetch(t, a, e, "entering")
  BY DEF Take, Fetch
<1>4. count[e] = 0 /\ \A u \in Thread : mon[u] # e
  BY UnboundUnused
<1>5. TablePart'
  <2>1. ASSUME NEW f \in Entry
        PROVE  IF address'[f] = 0
               THEN bucket'[f] = NoBucket /\ count'[f] = 0
               ELSE f <= made' /\ bucket'[f] = Hash(address'[f], log') /\ count'[f] > 0
    <3>1. CASE f = e
      BY <1>1, <1>3, <1>4, <3>1 DEF IInv, TypeOK
    <3>2. CASE f # e
      <4>1. /\ address'[f] = address[f] /\ bucket'[f] = table[f]
            /\ count'[f] = count[f]
        BY <1>3, <3>2 DEF IInv, TypeOK
      <4>2. CASE address[f] = 0
        BY <4>1, <4>2 DEF IInv, TablePart
      <4>3. CASE address[f] # 0
        <5>1. f <= made /\ count[f] > 0
          BY <4>3 DEF IInv, TablePart
        <5> QED
          BY <1>1, <4>1, <4>3, <5>1
      <4> QED
        BY <4>2, <4>3
    <3> QED
      BY <3>1, <3>2
  <2>2. \A f, g \in Entry : address'[f] = address'[g] /\ address'[f] # 0 => f = g
    BY <1>2, <1>3 DEF IInv, TablePart, TypeOK
  <2>3. \A f \in Entry :
          IF address'[f] = 0
          THEN bucket'[f] = NoBucket /\ count'[f] = 0
          ELSE f <= made' /\ bucket'[f] = Hash(address'[f], log') /\ count'[f] > 0
    BY <2>1
  <2>4. \A f \in Entry : Hash(address[f], log)' = Hash(address'[f], log')
    BY DEF Hash
  <2> QED
    BY <2>2, <2>3, <2>4 DEF TablePart, NoBucket
<1>6. CallPart'
  BY <1>1, <1>3, <1>4, ZenonT(30) DEF IInv, CallPart, TypeOK
<1>7. HolderPart' /\ CountsUses'
  BY <1>3, FetchIn
<1> QED
  BY <1>5, <1>6, <1>7

LEMMA CreateNewIInv ==
  ASSUME IInv, NEW t \in Thread, NEW a \in Addr, CreateNew(t, a)
  PROVE  IInv'
<1> DEFINE e == Head(free)
<1>1. /\ pc[t] = "idle" /\ Bound(a) = {} /\ numFree >= FREE_THRESHOLD
      /\ Take(t, a, e, bucket, log)
      /\ free' = Tail(free) /\ numFree' = numFree - 1
      /\ made' = made /\ log' = log
  BY DEF CreateNew, MayEnter
<1>2. /\ free \in Seq(Entry) /\ NoRepeat(free) /\ numFree = Len(free)
      /\ numFree \in Nat /\ numFree >= 1
  BY <1>1, CacheAssumption DEF IInv, TypeOK, FreePart
<1>3. /\ e \in Items(free) /\ Tail(free) \in Seq(Entry)
      /\ Len(Tail(free)) = Len(free) - 1
      /\ NoRepeat(Tail(free)) /\ Items(Tail(free)) = Items(free) \ {e}
  <2>1. Len(free) > 0
    BY <1>2
  <2> QED
    BY <1>2, <2>1, PopItem
<1>4. e \in Entry /\ e <= made /\ address[e] = 0
  <2>1. e \in Entry
    BY <1>2, <1>3 DEF Items
  <2> QED
    BY <1>3, <2>1 DEF IInv, FreePart
<1> HIDE DEF e
<1>5. /\ address' = [address EXCEPT ![e] = a]
      /\ bucket' = [bucket EXCEPT ![e] = Hash(a, log)]
      /\ count' = [count EXCEPT ![e] = @ + 1]
      /\ call' = [call EXCEPT ![t] = a] /\ mon' = [mon EXCEPT ![t] = e]
      /\ pc' = [pc EXCEPT ![t] = "entering"]
      /\ UNCHANGED <<holder, depth, saved>>
  BY <1>1 DEF Take, Fetch
<1>6. Hash(a, log) \in 0..(2^log - 1)
  BY CacheAssumption, HashInTable DEF IInv, TypeOK
<1>7. Entry \subseteq 0..MaxEntries /\ log \in Nat
  BY CacheAssumption DEF Entry, IInv, TypeOK
<1>8. TypeOK'
  <2>1. numFree' \in 0..made' /\ free' \in Seq(Entry)
    BY <1>1, <1>2, <1>3 DEF IInv, TypeOK, Entry
  <2>2. bucket' \in [Entry -> {NoBucket} \cup (0..(2^log' - 1))]
    BY <1>1, <1>5, <1>6 DEF IInv, TypeOK
  <2>3. /\ address' \in [Entry -> Addr \cup {0}] /\ count' \in [Entry -> Nat]
        /\ holder' \in [Entry -> Thread \cup {NoThread}]
        /\ depth' \in [Entry -> Nat] /\ saved' \in [Thread -> Nat]
    BY <1>4, <1>5 DEF IInv, TypeOK
  <2>4. /\ pc' \in [Thread -> Pcs] /\ call' \in [Thread -> Addr \cup {0}]
        /\ mon' \in [Thread -> 0..MaxEntries]
    BY <1>4, <1>5, <1>7 DEF IInv, TypeOK, Pcs
  <2> QED
    BY <1>1, <2>1, <2>2, <2>3, <2>4 DEF IInv, TypeOK
<1>9. TablePart' /\ CallPart' /\ HolderPart' /\ CountsUses'
  <2>1. bucket \in [Entry -> Int] /\ log \in Nat /\ log' = log
    <3>1. 2^log \in Nat
      BY <1>7, PowerPositive
    <3> QED
      BY <1>1, <1>7, <3>1 DEF IInv, TypeOK, NoBucket
  <2>2. \A f \in Entry : bucket[f] = IF address[f] = 0 THEN NoBucket
                                     ELSE Hash(address[f], log)
    BY DEF IInv, TablePart
  <2>3. e <= made' /\ made <= made'
    BY <1>1, <1>4 DEF IInv, TypeOK, Entry
  <2> QED
    BY <1>1, <1>4, <1>8, <2>1, <2>2, <2>3, TakeParts
<1>10. FreePart'
  <2>1. numFree' = Len(free') /\ NoRepeat(free')
    BY <1>1, <1>2, <1>3
  <2>2. \A f \in Entry : f \in Items(free') <=> f <= made' /\ address'[f] = 0
    <3>1. a # 0
      BY CacheAssumption
    <3>2. \A f \in Entry : f \in Items(free) <=> f <= made /\ address[f] = 0
      BY DEF IInv, FreePart
    <3>3. \A f \in Entry : address'[f] = IF f = e THEN a ELSE address[f]
      BY <1>5 DEF IInv, TypeOK
    <3> QED
      BY <1>1, <1>3, <3>1, <3>2, <3>3
  <2>3. FreePart' <=> /\ numFree' = Len(free') /\ NoRepeat(free')
                      /\ \A f \in Entry :
                           f \in Items(free') <=> f <= made' /\ address'[f] = 0
    BY DEF FreePart, NoRepeat, Items
  <2> QED
    BY <2>1, <2>2, <2>3
<1> QED
  BY <1>8, <1>9, <1>10 DEF IInv

LEMMA CreateExpandedIInv ==
  ASSUME IInv, NEW t \in Thread, NEW a \in Addr, CreateExpanded(t, a)
  PROVE  IInv'
<1>1. PICK added \in 1..2^(log + 1), grown \in BOOLEAN :
        LET size == IF grown THEN log + 1 ELSE log
            table == IF grown THEN Rehash(size) ELSE bucket
        IN /\ made + added <= MaxEntries
           /\ made' = made + added /\ log' = size
           /\ Take(t, a, made + 1, table, size)
           /\ free' = Stack(made + 2, made + added) \o free
           /\ numFree' = numFree + added - 1
  BY DEF CreateExpanded
<1> DEFINE size == IF grown THEN log + 1 ELSE log
           table == IF grown THEN Rehash(size) ELSE bucket
           e == made + 1
           fresh == Stack(made + 2, made + added)
<1>2. /\ made + added <= MaxEntries
      /\ made' = made + added /\ log' = size
      /\ Take(t, a, e, table, size)
      /\ free' = fresh \o free
      /\ numFree' = numFree + added - 1
  BY <1>1
<1>3. pc[t] = "idle" /\ Bound(a) = {}
  BY DEF CreateExpanded, MayEnter
<1>4. /\ made \in Nat \ {0} /\ made <= MaxEntries /\ MaxEntries \in Nat
      /\ log \in Nat /\ size \in Nat
      /\ Entry \subseteq 0..MaxEntries /\ Entry \subseteq Nat
  BY CacheAssumption DEF IInv, TypeOK, Entry
<1>5. added \in Nat \ {0}
  <2>1. 2^(log + 1) \in Nat
    BY <1>4, PowerPositive
  <2> QED
    BY <2>1
<1>6. e \in Entry /\ e <= made' /\ made <= made' /\ made' \in Entry
  BY <1>2, <1>4, <1>5 DEF Entry
<1>7. address[e] = 0
  BY <1>4, <1>6 DEF IInv, TablePart
<1>8. /\ table \in [Entry -> {NoBucket} \cup (0..(2^size - 1))]
      /\ \A f \in Entry : table[f] = IF address[f] = 0 THEN NoBucket
                                     ELSE Hash(address[f], size)
  <2>1. \A f \in Entry : bucket[f] = IF address[f] = 0 THEN NoBucket
                                     ELSE Hash(address[f], log)
    BY DEF IInv, TablePart
  <2>2. \A f \in Entry : address[f] \in Nat
    <3>1. Addr \cup {0} \subseteq Nat
      BY CacheAssumption
    <3> QED
      BY <3>1 DEF IInv, TypeOK
  <2>3. \A f \in Entry : bucket[f] = NoBucket <=> address[f] = 0
    BY <1>4, <2>1, <2>2, HashInTable
  <2>4. CASE grown
    <3>1. table = Rehash(size)
      BY <2>4
    <3>2. \A f \in Entry : Hash(address[f], size) \in 0..(2^size - 1)
      BY <1>4, <2>2, HashInTable
    <3> HIDE DEF size, table
    <3> QED
      BY <2>3, <3>1, <3>2 DEF Rehash
  <2>5. CASE ~grown
    BY <2>1, <2>5 DEF IInv, TypeOK
  <2> QED
    BY <2>4, <2>5
<1>9. /\ fresh \in Seq(Entry) /\ Len(fresh) = added - 1
      /\ NoRepeat(fresh) /\ Items(fresh) = (made + 2)..(made + added)
  <2> DEFINE lo == made + 2
             hi == made + added
  <2>1. /\ lo \in Nat /\ hi \in Nat /\ lo <= hi + 1
        /\ hi - lo + 1 = added - 1 /\ lo..hi \subseteq Entry
    BY <1>2, <1>4, <1>5 DEF Entry
  <2>2. fresh = Stack(lo, hi)
    OBVIOUS
  <2> HIDE DEF lo, hi, fresh
  <2>3. /\ Stack(lo, hi) \in Seq(lo..hi) /\ Len(Stack(lo, hi)) = hi - lo + 1
        /\ NoRepeat(Stack(lo, hi)) /\ Items(Stack(lo, hi)) = lo..hi
    BY <2>1, StackItems
  <2>4. /\ fresh \in Seq(Entry) /\ Len(fresh) = added - 1
        /\ NoRepeat(fresh) /\ Items(fresh) = lo..hi
    BY <2>1, <2>2, <2>3
  <2> QED
    BY <2>4 DEF lo, hi
<1> HIDE DEF size, table, e, fresh
<1>10. /\ fresh \o free \in Seq(Entry)
       /\ Len(fresh \o free) = Len(fresh) + Len(free)
       /\ NoRepeat(fresh \o free)
       /\ Items(fresh \o free) = Items(fresh) \cup Items(free)
  <2>1. free \in Seq(Entry) /\ NoRepeat(free)
    BY DEF IInv, TypeOK, FreePart
  <2>2. \A x \in Items(fresh) : x \notin Items(free)
    <3>1. \A x \in Items(fresh) : x \in Entry /\ x > made
      BY <1>2, <1>4, <1>5, <1>9 DEF Entry
    <3>2. \A x \in Entry : x \in Items(free) => x <= made
      BY DEF IInv, FreePart
    <3>3. \A x \in Entry : ~(x > made /\ x <= made)
      BY <1>4
    <3> QED
      BY <3>1, <3>2, <3>3
  <2>3. \A r, q \in Seq(Entry) :
          NoRepeat(r) /\ NoRepeat(q) /\ (\A x \in Items(r) : x \notin Items(q)) =>
            /\ r \o q \in Seq(Entry) /\ Len(r \o q) = Len(r) + Len(q)
            /\ NoRepeat(r \o q) /\ Items(r \o q) = Items(r) \cup Items(q)
    BY ConcatItems
  <2> QED
    BY <1>9, <2>1, <2>2, <2>3
<1>11. /\ address' = [address EXCEPT ![e] = a]
       /\ bucket' = [table EXCEPT ![e] = Hash(a, size)]
       /\ count' = [count EXCEPT ![e] = @ + 1]
       /\ call' = [call EXCEPT ![t] = a] /\ mon' = [mon EXCEPT ![t] = e]
       /\ pc' = [pc EXCEPT ![t] = "entering"]
       /\ UNCHANGED <<holder, depth, saved>>
  BY <1>2 DEF Take, Fetch
<1>12. TypeOK'
  <2>1. numFree' \in 0..made' /\ free' \in Seq(Entry)
    BY <1>2, <1>4, <1>5, <1>10 DEF IInv, TypeOK
  <2>2. bucket' \in [Entry -> {NoBucket} \cup (0..(2^log' - 1))]
    <3>1. Hash(a, size) \in 0..(2^size - 1)
      BY <1>4, CacheAssumption, HashInTable
    <3> QED
      BY <1>2, <1>6, <1>8, <1>11, <3>1
  <2>3. /\ address' \in [Entry -> Addr \cup {0}] /\ count' \in [Entry -> Nat]
        /\ holder' \in [Entry -> Thread \cup {NoThread}]
        /\ depth' \in [Entry -> Nat] /\ saved' \in [Thread -> Nat]
    BY <1>6, <1>11 DEF IInv, TypeOK
  <2>4. /\ pc' \in [Thread -> Pcs] /\ call' \in [Thread -> Addr \cup {0}]
        /\ mon' \in [Thread -> 0..MaxEntries]
    BY <1>4, <1>6, <1>11 DEF IInv, TypeOK, Pcs
  <2>5. log' \in Nat
    BY <1>2, <1>4
  <2> QED
    BY <1>6, <2>1, <2>2, <2>3, <2>4, <2>5 DEF TypeOK
<1>13. TablePart' /\ CallPart' /\ HolderPart' /\ CountsUses'
  <2>1. table \in [Entry -> Int]
    <3>1. 2^size \in Nat
      BY <1>4, PowerPositive
    <3> QED
      BY <1>8, <3>1 DEF NoBucket
  <2> QED
    BY <1>2, <1>3, <1>4, <1>6, <1>7, <1>8, <1>12, <2>1, TakeParts
<1>14. FreePart'
  <2>1. numFree' = Len(free') /\ NoRepeat(free')
    <3>1. numFree = Len(free) /\ Len(free) \in Nat
      BY DEF IInv, FreePart, TypeOK
    <3> QED
      BY <1>2, <1>5, <1>9, <1>10, <3>1
  <2>2. \A f \in Entry : f \in Items(free') <=> f <= made' /\ address'[f] = 0
    <3>1. a # 0
      BY CacheAssumption
    <3>2. \A f \in Entry : f \in Items(free) <=> f <= made /\ address[f] = 0
      BY DEF IInv, FreePart
    <3>3. \A f \in Entry : address'[f] = IF f = e THEN a ELSE address[f]
      BY <1>11 DEF IInv, TypeOK
    <3>4. \A f \in Entry : f > made => address[f] = 0
      BY <1>4 DEF IInv, TablePart
    <3>5. \A f \in Entry : f \in Items(free') <=>
            f \in Items(free) \/ (f >= made + 2 /\ f <= made + added)
      BY <1>2, <1>4, <1>5, <1>9, <1>10
    <3>6. e = made + 1
      BY DEF e
    <3> QED
      BY <1>2, <1>4, <1>5, <3>1, <3>2, <3>3, <3>4, <3>5, <3>6
  <2>3. FreePart' <=> /\ numFree' = Len(free') /\ NoRepeat(free')
                      /\ \A f \in Entry :
                           f \in Items(free') <=> f <= made' /\ address'[f] = 0
    BY DEF FreePart, NoRepeat, Items
  <2> QED
    BY <2>1, <2>2, <2>3
<1> QED
  BY <1>12, <1>13, <1>14 DEF IInv

(* PR_EnterMonitor of the entry: what was owed is now entered.             *)
LEMMA EnterMonitorIInv ==
  ASSUME IInv, NEW t \in Thread, EnterMonitor(t)
  PROVE  IInv'
<1> DEFINE m == mon[t]
<1>1. m \in Entry /\ pc[t] = "entering" /\ holder[m] \in {NoThread, t}
  BY MonIs DEF EnterMonitor
<1>2. /\ holder' = [holder EXCEPT ![m] = t]
      /\ depth' = [depth EXCEPT ![m] = @ + 1]
      /\ pc' = [pc EXCEPT ![t] = "idle"]
      /\ call' = [call EXCEPT ![t] = 0] /\ mon' = [mon EXCEPT ![t] = 0]
      /\ UNCHANGED <<made, address, bucket, count, free, numFree, log, saved>>
  BY DEF EnterMonitor, Done, cache
<1>3. /\ mon'[t] = 0 /\ pc'[t] = "idle"
      /\ \A u \in Thread \ {t} : mon'[u] = mon[u] /\ pc'[u] = pc[u]
  BY <1>2 DEF IInv, TypeOK
<1>4. MaxEntries \in Nat /\ t # NoThread
  BY CacheAssumption
<1>5. TypeOK'
  BY <1>1, <1>2, <1>4 DEF IInv, TypeOK, Pcs
<1>6. TablePart'
  BY <1>2 DEF IInv, TablePart, Hash
<1>7. CallPart'
  BY <1>2 DEF IInv, CallPart, TypeOK
<1>8. HolderPart'
  <2>1. \A e \in Entry : holder'[e] = NoThread <=> depth'[e] = 0
    BY <1>1, <1>2, <1>4 DEF IInv, HolderPart, TypeOK
  <2>2. ASSUME NEW u \in Thread,
               pc'[u] \in {"towait", "tonotify", "tonotifyall"}
        PROVE  holder'[mon'[u]] = u
    <3>1. u # t /\ mon'[u] = mon[u] /\ holder[mon[u]] = u
      BY <1>3, <2>2 DEF IInv, HolderPart
    <3>2. mon[u] # m
      BY <1>1, <1>4, <3>1, CacheAssumption
    <3> QED
      BY <1>2, <3>1, <3>2 DEF IInv, TypeOK
  <2>3. ASSUME NEW u \in Thread, Waiting(u)'
        PROVE  holder'[mon'[u]] # u
    <3>1. u # t /\ mon'[u] = mon[u] /\ holder[mon[u]] # u
      BY <1>3, <2>3 DEF IInv, HolderPart, Waiting
    <3> QED
      BY <1>1, <1>2, <3>1 DEF IInv, TypeOK
  <2>4. \A u \in Thread : saved'[u] > 0 <=> Waiting(u)'
    BY <1>1, <1>2, <1>3 DEF IInv, HolderPart, Waiting
  <2> QED
    BY <2>1, <2>2, <2>3, <2>4 DEF HolderPart
<1>9. CountsUses'
  <2>1. \A f \in Entry : Share(f, t) = IF f = m THEN 1 ELSE 0
    BY <1>1, ShareIs
  <2>2. \A f \in Entry : Share(f, t)' = 0
    BY <1>3, ShareIs DEF Entry
  <2>3. \A f \in Entry : /\ depth'[f] = depth[f] + (IF f = m THEN 1 ELSE 0)
                         /\ count'[f] = count[f]
                         /\ count[f] \in Int /\ depth[f] \in Int
    BY <1>2 DEF IInv, TypeOK
  <2>4. \A f \in Entry : count'[f] - depth'[f] - Share(f, t)'
                           = count[f] - depth[f] - Share(f, t)
    BY <2>1, <2>2, <2>3
  <2>5. \A u \in Thread \ {t} :
          /\ mon'[u] = mon[u] /\ saved'[u] = saved[u]
          /\ pc'[u] = "entering" <=> pc[u] = "entering"
          /\ Waiting(u)' <=> Waiting(u)
    BY <1>2, <1>3 DEF Waiting
  <2> QED
    BY <1>5, <2>4, <2>5, CountsStep
<1>10. FreePart'
  BY <1>2 DEF IInv, FreePart, NoRepeat, Items
<1> QED
  BY <1>5, <1>6, <1>7, <1>8, <1>9, <1>10 DEF IInv

--------------------------------------------------------------------------------
(* PR_CExitMonitor.                                                        *)

(* The caller is inside the one entry bound to its address; the count      *)
(* covers its entries and every call under way there.                      *)
LEMMA LeaveIs ==
  ASSUME IInv, NEW t \in Thread, NEW a \in Addr, NEW e \in Lookup(a),
         pc[t] = "idle", Inside(t, a)
  PROVE  /\ e \in Entry /\ address[e] = a /\ a # 0
         /\ holder[e] = t /\ t # NoThread /\ depth[e] \in Nat \ {0}
         /\ count[e] \in Nat /\ depth[e] <= count[e]
         /\ \A u \in Thread : mon[u] = e /\ pc[u] # "idle" =>
              Waiting(u) \/ pc[u] = "entering"
         /\ \A u \in Thread : mon[u] = e /\ (Waiting(u) \/ pc[u] = "entering") =>
              depth[e] + 1 <= count[e]
<1>1. e \in Entry /\ address[e] = a /\ holder[e] = t /\ a # 0 /\ t # NoThread
  BY BoundIs, CacheAssumption DEF Inside
<1>2. depth[e] \in Nat \ {0} /\ count[e] \in Nat
  BY <1>1 DEF IInv, TypeOK, HolderPart
<1>3. Using(e) \in SUBSET Thread /\ Owes \in [Thread -> Nat]
  BY DEF IInv, TypeOK, Using, Owes
<1>4. count[e] = depth[e] + Total(Using(e), Owes)
  BY <1>1 DEF IInv, CountsUses
<1>5. Total(Using(e), Owes) \in Nat
  <2>1. /\ Total(Using(e) \ {t}, Owes) \in Nat
        /\ Total(Using(e), Owes) = Total(Using(e) \ {t}, Owes) + Share(e, t)
    BY <1>3, UsesSplit DEF Share
  <2>2. Share(e, t) \in Nat
    BY <1>3 DEF Share
  <2> QED
    BY <2>1, <2>2
<1>6. ASSUME NEW u \in Thread, mon[u] = e, Waiting(u) \/ pc[u] = "entering"
      PROVE  depth[e] + 1 <= count[e]
  <2>1. u \in Using(e)
    BY <1>6 DEF Using
  <2>2. Owes[u] \in Nat /\ Owes[u] >= 1
    BY <1>6 DEF Owes, IInv, HolderPart, TypeOK
  <2>3. /\ Total(Using(e) \ {u}, Owes) \in Nat
        /\ Total(Using(e), Owes) = Total(Using(e) \ {u}, Owes) + Share(e, u)
    BY <1>3, UsesSplit DEF Share
  <2>4. Share(e, u) = Owes[u]
    BY <2>1 DEF Share
  <2> QED
    BY <1>2, <1>4, <2>2, <2>3, <2>4
<1>7. ASSUME NEW u \in Thread, mon[u] = e, pc[u] # "idle"
      PROVE  Waiting(u) \/ pc[u] = "entering"
  BY <1>1, <1>7 DEF IInv, HolderPart, TypeOK, Pcs, Waiting
<1> QED
  BY <1>1, <1>2, <1>4, <1>5, <1>6, <1>7

(* Leaving once keeps who is inside in order.                              *)
LEMMA LeaveParts ==
  ASSUME IInv, TypeOK', NEW t \in Thread, NEW e \in Entry,
         pc[t] = "idle", holder[e] = t, depth[e] \in Nat \ {0}, Leave(e),
         count' = [count EXCEPT ![e] = @ - 1]
  PROVE  HolderPart' /\ CountsUses'
<1>1. /\ depth' = [depth EXCEPT ![e] = @ - 1]
      /\ holder' = [holder EXCEPT ![e] = IF depth[e] = 1 THEN NoThread ELSE @]
      /\ UNCHANGED <<pc, call, mon, saved>>
  BY DEF Leave
<1>2. t # NoThread
  BY CacheAssumption
<1>3. HolderPart'
  <2>1. \A f \in Entry : holder'[f] = NoThread <=> depth'[f] = 0
    <3>1. \A f \in Entry \ {e} : holder'[f] = holder[f] /\ depth'[f] = depth[f]
      BY <1>1 DEF IInv, TypeOK
    <3>2. /\ holder'[e] = IF depth[e] = 1 THEN NoThread ELSE t
          /\ depth'[e] = depth[e] - 1
      BY <1>1 DEF IInv, TypeOK
    <3>3. holder'[e] = NoThread <=> depth'[e] = 0
      BY <1>2, <3>2
    <3> QED
      BY <3>1, <3>3 DEF IInv, HolderPart
  <2>2. ASSUME NEW u \in Thread,
               pc[u] \in {"towait", "tonotify", "tonotifyall"}
        PROVE  holder'[mon[u]] = u
    <3>1. u # t /\ holder[mon[u]] = u
      BY <2>2 DEF IInv, HolderPart
    <3> QED
      BY <1>1, <3>1, SMTT(30) DEF IInv, TypeOK
  <2>3. ASSUME NEW u \in Thread, Waiting(u)
        PROVE  holder'[mon[u]] # u
    <3>1. mon[u] \in Entry /\ holder[mon[u]] # u /\ u # NoThread
      BY <2>3, MonIs, CacheAssumption DEF IInv, HolderPart, Waiting
    <3> QED
      BY <1>1, <3>1 DEF IInv, TypeOK
  <2>4. \A u \in Thread : saved'[u] > 0 <=> Waiting(u)'
    BY <1>1 DEF IInv, HolderPart, Waiting
  <2> QED
    BY <1>1, <2>1, <2>2, <2>3, <2>4 DEF HolderPart, Waiting
<1>4. CountsUses'
  <2>1. \A f \in Entry : Share(f, t)' = Share(f, t)
    BY <1>1 DEF Share, Using, Owes, Waiting
  <2>2. \A f \in Entry :
          /\ count'[f] = IF f = e THEN count[f] - 1 ELSE count[f]
          /\ depth'[f] = IF f = e THEN depth[f] - 1 ELSE depth[f]
          /\ count[f] \in Int /\ depth[f] \in Int
    BY <1>1, SMTT(30) DEF IInv, TypeOK
  <2>3. \A f \in Entry : Share(f, t) \in Int
    BY ShareIs DEF IInv, TypeOK
  <2>4. \A f \in Entry : count'[f] - depth'[f] - Share(f, t)'
                           = count[f] - depth[f] - Share(f, t)
    BY <2>1, <2>2, <2>3
  <2>5. \A u \in Thread \ {t} :
          /\ mon'[u] = mon[u] /\ saved'[u] = saved[u]
          /\ pc'[u] = "entering" <=> pc[u] = "entering"
          /\ Waiting(u)' <=> Waiting(u)
    BY <1>1 DEF Waiting
  <2> QED
    BY <2>4, <2>5, CountsStep
<1> QED
  BY <1>3, <1>4

LEMMA CExitUsedIInv ==
  ASSUME IInv, NEW t \in Thread, NEW a \in Addr, CExitUsed(t, a)
  PROVE  IInv'
<1>1. /\ pc[t] = "idle" /\ Inside(t, a)
      /\ UNCHANGED <<address, bucket, free, numFree>>
  BY DEF CExitUsed
<1>2. PICK e \in Lookup(a) : /\ count[e] > 1 /\ Leave(e)
                             /\ count' = [count EXCEPT ![e] = @ - 1]
  BY DEF CExitUsed
<1>3. /\ e \in Entry /\ address[e] = a /\ a # 0 /\ holder[e] = t
      /\ depth[e] \in Nat \ {0} /\ count[e] \in Nat
  BY <1>1, LeaveIs
<1>4. /\ depth' = [depth EXCEPT ![e] = @ - 1]
      /\ holder' = [holder EXCEPT ![e] = IF depth[e] = 1 THEN NoThread ELSE @]
      /\ UNCHANGED <<made, log, pc, call, mon, saved>>
  BY <1>2 DEF Leave
<1>5. TypeOK'
  BY <1>1, <1>2, <1>3, <1>4 DEF IInv, TypeOK
<1>6. TablePart'
  <2>1. \A f \in Entry : /\ address[f] # 0 => count[f] > 0
                         /\ address[f] = 0 => count[f] = 0
    BY DEF IInv, TablePart
  <2>2. \A f \in Entry : count'[f] = IF f = e THEN count[f] - 1 ELSE count[f]
    BY <1>2, <1>3 DEF IInv, TypeOK
  <2>3. \A f \in Entry : /\ address[f] # 0 => count'[f] > 0
                         /\ address[f] = 0 => count'[f] = 0
    BY <1>2, <1>3, <2>1, <2>2 DEF IInv, TypeOK
  <2> QED
    BY <1>1, <1>4, <2>3 DEF IInv, TablePart, Hash
<1>7. CallPart'
  BY <1>1, <1>4 DEF IInv, CallPart
<1>8. HolderPart' /\ CountsUses'
  BY <1>1, <1>2, <1>3, <1>5, LeaveParts
<1>9. FreePart'
  BY <1>1, <1>4 DEF IInv, FreePart, NoRepeat, Items
<1> QED
  BY <1>5, <1>6, <1>7, <1>8, <1>9 DEF IInv

LEMMA CExitFreeIInv ==
  ASSUME IInv, NEW t \in Thread, NEW a \in Addr, CExitFree(t, a)
  PROVE  IInv'
<1>1. pc[t] = "idle" /\ Inside(t, a)
  BY DEF CExitFree
<1>2. PICK e \in Lookup(a) :
        /\ count[e] = 1 /\ Leave(e)
        /\ count' = [count EXCEPT ![e] = 0]
        /\ address' = [address EXCEPT ![e] = 0]
        /\ bucket' = [bucket EXCEPT ![e] = NoBucket]
        /\ free' = <<e>> \o free /\ numFree' = numFree + 1
  BY DEF CExitFree
<1>3. /\ e \in Entry /\ address[e] = a /\ a # 0 /\ holder[e] = t
      /\ depth[e] = 1
      /\ \A u \in Thread : mon[u] = e => pc[u] = "idle"
  <2>1. /\ e \in Entry /\ address[e] = a /\ a # 0 /\ holder[e] = t
        /\ depth[e] \in Nat \ {0} /\ depth[e] <= count[e]
        /\ \A u \in Thread : mon[u] = e /\ pc[u] # "idle" =>
             Waiting(u) \/ pc[u] = "entering"
        /\ \A u \in Thread : mon[u] = e /\ (Waiting(u) \/ pc[u] = "entering") =>
             depth[e] + 1 <= count[e]
    BY <1>1, LeaveIs
  <2>2. depth[e] = 1 /\ ~(depth[e] + 1 <= count[e])
    BY <1>2, <2>1
  <2> QED
    BY <2>1, <2>2
<1>4. /\ depth' = [depth EXCEPT ![e] = @ - 1]
      /\ holder' = [holder EXCEPT ![e] = IF depth[e] = 1 THEN NoThread ELSE @]
      /\ UNCHANGED <<made, log, pc, call, mon, saved>>
  BY <1>2 DEF Leave
<1>5. e <= made /\ e \notin Items(free)
  BY <1>3 DEF IInv, TablePart, FreePart
<1>6. /\ <<e>> \o free \in Seq(Entry) /\ Len(<<e>> \o free) = Len(free) + 1
      /\ NoRepeat(<<e>> \o free) /\ Items(<<e>> \o free) = Items(free) \cup {e}
  <2>1. free \in Seq(Entry) /\ NoRepeat(free)
    BY DEF IInv, TypeOK, FreePart
  <2> QED
    BY <1>3, <1>5, <2>1, PushItem
<1>7. numFree + 1 \in 0..made
  <2>1. IsFiniteSet(Items(free)) /\ Cardinality(Items(free)) = numFree
    BY ItemsCounted DEF IInv, TypeOK, FreePart
  <2>2. made \in Nat
    BY DEF IInv, TypeOK, Entry
  <2>3. IsFiniteSet(1..made) /\ Cardinality(1..made) = made
    BY <2>2, FS_Interval
  <2>4. e \in 1..made
    BY <1>3, <1>5, <2>2 DEF Entry
  <2>5. IsFiniteSet((1..made) \ {e}) /\ Cardinality((1..made) \ {e}) = made - 1
    BY <2>3, <2>4, FS_RemoveElement
  <2>6. Items(free) \in SUBSET ((1..made) \ {e})
    <3>1. Items(free) \subseteq Entry
      BY DEF IInv, TypeOK, Items
    <3> QED
      BY <1>5, <2>2, <3>1 DEF IInv, FreePart, Entry
  <2>7. Cardinality(Items(free)) <= Cardinality((1..made) \ {e})
    BY <2>5, <2>6, FS_Subset
  <2> QED
    BY <2>1, <2>2, <2>5, <2>7 DEF IInv, TypeOK
<1>8. TypeOK'
  <2>1. depth' \in [Entry -> Nat]
    BY <1>3, <1>4 DEF IInv, TypeOK
  <2>2. numFree' \in 0..made' /\ free' \in Seq(Entry)
    BY <1>2, <1>4, <1>6, <1>7
  <2> QED
    BY <1>2, <1>4, <2>1, <2>2 DEF IInv, TypeOK
<1>9. TablePart'
  BY <1>2, <1>4 DEF IInv, TablePart, TypeOK, Hash
<1>10. CallPart'
  BY <1>2, <1>3, <1>4 DEF IInv, CallPart, TypeOK
<1>11. HolderPart' /\ CountsUses'
  <2>1. count' = [count EXCEPT ![e] = @ - 1]
    BY <1>2
  <2>2. depth[e] \in Nat \ {0} /\ Leave(e)
    BY <1>2, <1>3
  <2> QED
    BY <1>1, <1>3, <1>8, <2>1, <2>2, LeaveParts
<1>12. FreePart'
  <2>1. numFree' = Len(free') /\ NoRepeat(free')
    BY <1>2, <1>6 DEF IInv, FreePart
  <2>2. \A f \in Entry : f \in Items(free') <=> f <= made' /\ address'[f] = 0
    BY <1>2, <1>4, <1>5, <1>6 DEF IInv, FreePart, TypeOK
  <2>3. FreePart' <=> /\ numFree' = Len(free') /\ NoRepeat(free')
                      /\ \A f \in Entry :
                           f \in Items(free') <=> f <= made' /\ address'[f] = 0
    BY DEF FreePart, NoRepeat, Items
  <2> QED
    BY <2>1, <2>2, <2>3
<1> QED
  BY <1>8, <1>9, <1>10, <1>11, <1>12 DEF IInv

--------------------------------------------------------------------------------
(* PR_CWait, PR_CNotify, PR_CNotifyAll.                                    *)

(* Steps that leave the table alone and, of the calls, change only t's.    *)
LEMMA TableKept ==
  ASSUME IInv, UNCHANGED cache
  PROVE  TablePart' /\ FreePart'
<1>1. UNCHANGED <<made, address, bucket, count, free, numFree, log>>
  BY DEF cache
<1>2. TablePart'
  BY <1>1 DEF IInv, TablePart, Hash
<1>3. FreePart'
  BY <1>1 DEF IInv, FreePart, NoRepeat, Items
<1> QED
  BY <1>2, <1>3

LEMMA CLookupIInv ==
  ASSUME IInv, NEW t \in Thread, NEW a \in Addr,
         NEW to \in {"towait", "tonotify", "tonotifyall"}, CLookup(t, a, to)
  PROVE  IInv'
<1>1. pc[t] = "idle" /\ Inside(t, a) /\ UNCHANGED cache
  BY DEF CLookup
<1>2. PICK e \in Lookup(a) : Fetch(t, a, e, to)
  BY DEF CLookup
<1>3. e \in Entry /\ address[e] = a /\ a # 0 /\ holder[e] = t
  BY <1>1, LeaveIs
<1>4. /\ call' = [call EXCEPT ![t] = a] /\ mon' = [mon EXCEPT ![t] = e]
      /\ pc' = [pc EXCEPT ![t] = to]
      /\ UNCHANGED <<holder, depth, saved>>
      /\ UNCHANGED <<made, address, bucket, count, free, numFree, log>>
  BY <1>1, <1>2 DEF Fetch, cache
<1>5. /\ mon'[t] = e /\ pc'[t] = to
      /\ \A u \in Thread \ {t} : mon'[u] = mon[u] /\ pc'[u] = pc[u]
  BY <1>4 DEF IInv, TypeOK
<1>6. Entry \subseteq 0..MaxEntries
  BY CacheAssumption DEF Entry
<1>7. TypeOK'
  BY <1>3, <1>4, <1>6 DEF IInv, TypeOK, Pcs
<1>8. TablePart' /\ FreePart'
  BY <1>1, TableKept
<1>9. CallPart'
  BY <1>3, <1>4, <1>5 DEF IInv, CallPart, TypeOK
<1>10. HolderPart'
  BY <1>1, <1>3, <1>4, <1>5 DEF IInv, HolderPart, Waiting
<1>11. CountsUses'
  <2>1. \A f \in Entry : Share(f, t) = 0 /\ Share(f, t)' = 0
    BY <1>1, <1>5, ShareIs DEF Waiting
  <2>2. \A f \in Entry : count'[f] - depth'[f] - Share(f, t)'
                           = count[f] - depth[f] - Share(f, t)
    BY <1>4, <2>1
  <2>3. \A u \in Thread \ {t} :
          /\ mon'[u] = mon[u] /\ saved'[u] = saved[u]
          /\ pc'[u] = "entering" <=> pc[u] = "entering"
          /\ Waiting(u)' <=> Waiting(u)
    BY <1>4, <1>5 DEF Waiting
  <2> QED
    BY <1>7, <2>2, <2>3, CountsStep
<1> QED
  BY <1>7, <1>8, <1>9, <1>10, <1>11 DEF IInv

LEMMA WaitIInv ==
  ASSUME IInv, NEW t \in Thread, Wait(t)
  PROVE  IInv'
<1> DEFINE m == mon[t]
<1>1. m \in Entry /\ pc[t] = "towait" /\ holder[m] = t /\ t # NoThread
  BY MonIs, CacheAssumption DEF Wait, IInv, HolderPart
<1>2. depth[m] \in Nat \ {0}
  BY <1>1 DEF IInv, HolderPart, TypeOK
<1>3. /\ saved' = [saved EXCEPT ![t] = depth[m]]
      /\ depth' = [depth EXCEPT ![m] = 0]
      /\ holder' = [holder EXCEPT ![m] = NoThread]
      /\ pc' = [pc EXCEPT ![t] = "waiting"]
      /\ UNCHANGED <<call, mon>> /\ UNCHANGED cache
      /\ UNCHANGED <<made, address, bucket, count, free, numFree, log>>
  BY DEF Wait, cache
<1>4. /\ pc'[t] = "waiting" /\ saved'[t] = depth[m]
      /\ \A u \in Thread \ {t} : saved'[u] = saved[u] /\ pc'[u] = pc[u]
  BY <1>3 DEF IInv, TypeOK
<1>5. TypeOK'
  BY <1>1, <1>2, <1>3 DEF IInv, TypeOK, Pcs
<1>6. TablePart' /\ FreePart'
  BY <1>3, TableKept
<1>7. CallPart'
  BY <1>1, <1>3 DEF IInv, CallPart, TypeOK
<1>8. HolderPart'
  <2>1. \A e \in Entry : holder'[e] = NoThread <=> depth'[e] = 0
    BY <1>3 DEF IInv, HolderPart, TypeOK
  <2>2. ASSUME NEW u \in Thread,
               pc'[u] \in {"towait", "tonotify", "tonotifyall"}
        PROVE  holder'[mon'[u]] = u
    <3>1. u # t /\ mon'[u] = mon[u] /\ holder[mon[u]] = u
      BY <1>3, <1>4, <2>2 DEF IInv, HolderPart
    <3> QED
      BY <1>1, <1>3, <3>1 DEF IInv, TypeOK
  <2>3. ASSUME NEW u \in Thread, Waiting(u)'
        PROVE  holder'[mon'[u]] # u
    <3>1. CASE u = t
      BY <1>1, <1>3, <3>1 DEF IInv, TypeOK
    <3>2. CASE u # t
      <4>1. Waiting(u) /\ holder[mon[u]] # u /\ u # NoThread
        BY <1>4, <2>3, <3>2, CacheAssumption DEF IInv, HolderPart, Waiting
      <4> QED
        BY <1>1, <1>3, <4>1 DEF IInv, TypeOK
    <3> QED
      BY <3>1, <3>2
  <2>4. \A u \in Thread : saved'[u] > 0 <=> Waiting(u)'
    BY <1>2, <1>4 DEF IInv, HolderPart, Waiting
  <2> QED
    BY <2>1, <2>2, <2>3, <2>4 DEF HolderPart
<1>9. CountsUses'
  <2>1. \A f \in Entry : Share(f, t) = 0
    BY <1>1, ShareIs DEF Waiting
  <2>2. \A f \in Entry : Share(f, t)' = IF f = m THEN depth[m] ELSE 0
    BY <1>3, <1>4, ShareIs DEF Waiting
  <2>3. \A f \in Entry : /\ depth'[f] = IF f = m THEN 0 ELSE depth[f]
                         /\ count'[f] = count[f]
                         /\ count[f] \in Int /\ depth[f] \in Int
    BY <1>3 DEF IInv, TypeOK
  <2>4. \A f \in Entry : count'[f] - depth'[f] - Share(f, t)'
                           = count[f] - depth[f] - Share(f, t)
    BY <2>1, <2>2, <2>3
  <2>5. \A u \in Thread \ {t} :
          /\ mon'[u] = mon[u] /\ saved'[u] = saved[u]
          /\ pc'[u] = "entering" <=> pc[u] = "entering"
          /\ Waiting(u)' <=> Waiting(u)
    BY <1>3, <1>4 DEF Waiting
  <2> QED
    BY <1>5, <2>4, <2>5, CountsStep
<1> QED
  BY <1>5, <1>6, <1>7, <1>8, <1>9 DEF IInv

(* A notifier returns, and some waits have ended.                          *)
LEMMA WakeIInv ==
  ASSUME IInv, NEW t \in Thread, pc[t] \in {"tonotify", "tonotifyall"},
         NEW woken, woken \subseteq WaitersOn(mon[t]), Wake(t, woken)
  PROVE  IInv'
<1>1. /\ pc' = [u \in Thread |-> IF u = t THEN "idle"
                                 ELSE IF u \in woken THEN "woken" ELSE pc[u]]
      /\ call' = [call EXCEPT ![t] = 0] /\ mon' = [mon EXCEPT ![t] = 0]
      /\ UNCHANGED <<holder, depth, saved>> /\ UNCHANGED cache
      /\ UNCHANGED <<made, address, bucket, count, free, numFree, log>>
  BY DEF Wake, Done, cache
<1>2. /\ mon'[t] = 0 /\ pc'[t] = "idle"
      /\ \A u \in Thread \ {t} :
           mon'[u] = mon[u] /\ pc'[u] = IF u \in woken THEN "woken" ELSE pc[u]
  BY <1>1 DEF IInv, TypeOK
<1>3. \A u \in woken : u \in Thread /\ pc[u] = "waiting"
  BY DEF WaitersOn
<1>4. \A u \in Thread \ {t} :
        /\ Waiting(u)' <=> Waiting(u)
        /\ ~Waiting(u) => pc'[u] = pc[u]
  BY <1>2, <1>3 DEF Waiting
<1>5. TypeOK'
  <2>1. MaxEntries \in Nat
    BY CacheAssumption
  <2> QED
    BY <1>1, <2>1 DEF IInv, TypeOK, Pcs
<1>6. TablePart' /\ FreePart'
  BY <1>1, TableKept
<1>7. CallPart'
  BY <1>1, <1>2, <1>3 DEF IInv, CallPart, TypeOK
<1>8. HolderPart'
  <2>1. \A u \in Thread : ~(u = t /\ Waiting(t))
    BY DEF Waiting
  <2>2. ASSUME NEW u \in Thread,
               pc'[u] \in {"towait", "tonotify", "tonotifyall"}
        PROVE  holder'[mon'[u]] = u
    BY <1>1, <1>2, <2>2 DEF IInv, HolderPart
  <2>3. ASSUME NEW u \in Thread, Waiting(u)'
        PROVE  holder'[mon'[u]] # u
    <3>1. u # t
      BY <1>2, <2>3 DEF Waiting
    <3> QED
      BY <1>1, <1>2, <1>4, <2>3, <3>1 DEF IInv, HolderPart
  <2>4. \A u \in Thread : saved'[u] > 0 <=> Waiting(u)'
    BY <1>1, <1>2, <1>4 DEF IInv, HolderPart, Waiting
  <2> QED
    BY <1>1, <2>2, <2>3, <2>4 DEF IInv, HolderPart
<1>9. CountsUses'
  <2>1. \A f \in Entry : Share(f, t) = 0 /\ Share(f, t)' = 0
    BY <1>2, ShareIs DEF Waiting
  <2>2. \A f \in Entry : count'[f] - depth'[f] - Share(f, t)'
                           = count[f] - depth[f] - Share(f, t)
    BY <1>1, <2>1
  <2>3. \A u \in Thread \ {t} :
          /\ mon'[u] = mon[u] /\ saved'[u] = saved[u]
          /\ pc'[u] = "entering" <=> pc[u] = "entering"
          /\ Waiting(u)' <=> Waiting(u)
    BY <1>1, <1>2, <1>3, <1>4
  <2> QED
    BY <1>5, <2>2, <2>3, CountsStep
<1> QED
  BY <1>5, <1>6, <1>7, <1>8, <1>9 DEF IInv

LEMMA WaitTimeoutIInv ==
  ASSUME IInv, NEW t \in Thread, WaitTimeout(t)
  PROVE  IInv'
<1>1. /\ pc[t] = "waiting" /\ pc' = [pc EXCEPT ![t] = "woken"]
      /\ UNCHANGED <<holder, depth, call, mon, saved>> /\ UNCHANGED cache
      /\ UNCHANGED <<made, address, bucket, count, free, numFree, log>>
  BY DEF WaitTimeout, cache
<1>2. /\ pc'[t] = "woken"
      /\ \A u \in Thread \ {t} : pc'[u] = pc[u]
  BY <1>1 DEF IInv, TypeOK
<1>3. \A u \in Thread : Waiting(u)' <=> Waiting(u)
  BY <1>1, <1>2 DEF Waiting
<1>4. TypeOK'
  BY <1>1 DEF IInv, TypeOK, Pcs
<1>5. TablePart' /\ FreePart'
  BY <1>1, TableKept
<1>6. CallPart'
  BY <1>1, <1>2 DEF IInv, CallPart
<1>7. HolderPart'
  BY <1>1, <1>2, <1>3 DEF IInv, HolderPart
<1>8. CountsUses'
  <2>1. \A f \in Entry : Share(f, t)' = Share(f, t)
    <3>1. \A f \in Entry :
            /\ Share(f, t) = IF mon[t] # f THEN 0 ELSE saved[t]
            /\ Share(f, t)' = IF mon'[t] # f THEN 0 ELSE saved'[t]
      BY <1>1, <1>2, ShareIs DEF Waiting
    <3> QED
      BY <1>1, <3>1
  <2>2. \A f \in Entry : count'[f] - depth'[f] - Share(f, t)'
                           = count[f] - depth[f] - Share(f, t)
    BY <1>1, <2>1
  <2>3. \A u \in Thread \ {t} :
          /\ mon'[u] = mon[u] /\ saved'[u] = saved[u]
          /\ pc'[u] = "entering" <=> pc[u] = "entering"
          /\ Waiting(u)' <=> Waiting(u)
    BY <1>1, <1>2, <1>3
  <2> QED
    BY <1>4, <2>2, <2>3, CountsStep
<1> QED
  BY <1>4, <1>5, <1>6, <1>7, <1>8 DEF IInv

LEMMA WaitReturnIInv ==
  ASSUME IInv, NEW t \in Thread, WaitReturn(t)
  PROVE  IInv'
<1> DEFINE m == mon[t]
<1>1. m \in Entry /\ pc[t] = "woken" /\ holder[m] = NoThread /\ t # NoThread
  BY MonIs, CacheAssumption DEF WaitReturn
<1>2. depth[m] = 0 /\ saved[t] \in Nat \ {0}
  BY <1>1 DEF IInv, HolderPart, TypeOK, Waiting
<1>3. /\ holder' = [holder EXCEPT ![m] = t]
      /\ depth' = [depth EXCEPT ![m] = saved[t]]
      /\ saved' = [saved EXCEPT ![t] = 0]
      /\ pc' = [pc EXCEPT ![t] = "idle"]
      /\ call' = [call EXCEPT ![t] = 0] /\ mon' = [mon EXCEPT ![t] = 0]
      /\ UNCHANGED cache
      /\ UNCHANGED <<made, address, bucket, count, free, numFree, log>>
  BY DEF WaitReturn, Done, cache
<1>4. /\ pc'[t] = "idle" /\ saved'[t] = 0 /\ mon'[t] = 0
      /\ \A u \in Thread \ {t} :
           saved'[u] = saved[u] /\ pc'[u] = pc[u] /\ mon'[u] = mon[u]
  BY <1>3 DEF IInv, TypeOK
<1>5. TypeOK'
  <2>1. MaxEntries \in Nat
    BY CacheAssumption
  <2> QED
    BY <1>1, <1>2, <1>3, <2>1 DEF IInv, TypeOK, Pcs
<1>6. TablePart' /\ FreePart'
  BY <1>3, TableKept
<1>7. CallPart'
  BY <1>3, <1>4 DEF IInv, CallPart, TypeOK
<1>8. HolderPart'
  <2>1. \A e \in Entry : holder'[e] = NoThread <=> depth'[e] = 0
    BY <1>1, <1>2, <1>3 DEF IInv, HolderPart, TypeOK
  <2>2. ASSUME NEW u \in Thread,
               pc'[u] \in {"towait", "tonotify", "tonotifyall"}
        PROVE  holder'[mon'[u]] = u
    <3>1. u # t /\ mon'[u] = mon[u] /\ holder[mon[u]] = u /\ u # NoThread
      BY <1>4, <2>2, CacheAssumption DEF IInv, HolderPart
    <3> QED
      BY <1>1, <1>3, <3>1 DEF IInv, TypeOK
  <2>3. ASSUME NEW u \in Thread, Waiting(u)'
        PROVE  holder'[mon'[u]] # u
    <3>1. u # t /\ Waiting(u) /\ mon'[u] = mon[u] /\ holder[mon[u]] # u
      BY <1>4, <2>3 DEF IInv, HolderPart, Waiting
    <3> QED
      BY <1>1, <1>3, <3>1 DEF IInv, TypeOK
  <2>4. \A u \in Thread : saved'[u] > 0 <=> Waiting(u)'
    BY <1>4 DEF IInv, HolderPart, Waiting
  <2> QED
    BY <2>1, <2>2, <2>3, <2>4 DEF HolderPart
<1>9. CountsUses'
  <2>1. \A f \in Entry : Share(f, t) = IF f = m THEN saved[t] ELSE 0
    BY <1>1, ShareIs DEF Waiting
  <2>2. \A f \in Entry : Share(f, t)' = 0
    BY <1>4, ShareIs DEF Waiting
  <2>3. \A f \in Entry : /\ depth'[f] = IF f = m THEN saved[t] ELSE depth[f]
                         /\ count'[f] = count[f]
                         /\ count[f] \in Int /\ depth[f] \in Int
    BY <1>3 DEF IInv, TypeOK
  <2>4. \A f \in Entry : count'[f] - depth'[f] - Share(f, t)'
                           = count[f] - depth[f] - Share(f, t)
    BY <1>2, <2>1, <2>2, <2>3
  <2>5. \A u \in Thread \ {t} :
          /\ mon'[u] = mon[u] /\ saved'[u] = saved[u]
          /\ pc'[u] = "entering" <=> pc[u] = "entering"
          /\ Waiting(u)' <=> Waiting(u)
    BY <1>4 DEF Waiting
  <2> QED
    BY <1>5, <2>4, <2>5, CountsStep
<1> QED
  BY <1>5, <1>6, <1>7, <1>8, <1>9 DEF IInv

--------------------------------------------------------------------------------
(* The theorems.                                                           *)

LEMMA NextIInv == ASSUME IInv, [Next]_vars PROVE IInv'
<1>1. CASE UNCHANGED vars
  <2>1. /\ UNCHANGED <<made, address, bucket, count, free, numFree, log>>
        /\ UNCHANGED <<holder, depth, pc, call, mon, saved>> /\ UNCHANGED cache
    BY <1>1 DEF vars, cache
  <2>2. TypeOK' /\ CallPart' /\ HolderPart'
    BY <2>1 DEF IInv, TypeOK, CallPart, HolderPart, Waiting
  <2>3. \A e \in Entry : Using(e)' = Using(e) /\ Owes' = Owes
    BY <2>1 DEF Using, Owes, Waiting
  <2>4. CountsUses'
    BY <2>1, <2>3 DEF IInv, CountsUses
  <2> QED
    BY <2>1, <2>2, <2>4, TableKept DEF IInv
<1>2. CASE Next
  <2> PICK t \in Thread :
        \/ \E a \in Addr :
             \/ CreateFound(t, a) \/ CreateNew(t, a) \/ CreateExpanded(t, a)
             \/ CExitUsed(t, a) \/ CExitFree(t, a)
             \/ CLookup(t, a, "towait")
             \/ CLookup(t, a, "tonotify") \/ CLookup(t, a, "tonotifyall")
        \/ EnterMonitor(t) \/ Wait(t) \/ Notify(t) \/ NotifyAll(t)
        \/ WaitTimeout(t) \/ WaitReturn(t)
    BY <1>2 DEF Next
  <2>1. ASSUME NEW a \in Addr,
               CreateFound(t, a) \/ CreateNew(t, a) \/ CreateExpanded(t, a)
        PROVE  IInv'
    BY <2>1, CreateFoundIInv, CreateNewIInv, CreateExpandedIInv
  <2>2. ASSUME NEW a \in Addr, CExitUsed(t, a) \/ CExitFree(t, a)
        PROVE  IInv'
    BY <2>2, CExitUsedIInv, CExitFreeIInv
  <2>3. ASSUME NEW a \in Addr,
               \/ CLookup(t, a, "towait")
               \/ CLookup(t, a, "tonotify") \/ CLookup(t, a, "tonotifyall")
        PROVE  IInv'
    BY <2>3, CLookupIInv
  <2>4. CASE Notify(t)
    <3>1. pc[t] = "tonotify"
      BY <2>4 DEF Notify
    <3>2. PICK woken \in SUBSET WaitersOn(mon[t]) : Wake(t, woken)
      BY <2>4 DEF Notify
    <3> QED
      BY <3>1, <3>2, WakeIInv
  <2>5. CASE NotifyAll(t)
    BY <2>5, WakeIInv DEF NotifyAll
  <2>6. CASE EnterMonitor(t) \/ Wait(t) \/ WaitTimeout(t) \/ WaitReturn(t)
    BY <2>6, EnterMonitorIInv, WaitIInv, WaitTimeoutIInv, WaitReturnIInv
  <2> QED
    BY <2>1, <2>2, <2>3, <2>4, <2>5, <2>6
<1> QED
  BY <1>1, <1>2

(* Every reachable state satisfies IInv, whatever the addresses and the    *)
(* threads, and however the cache has grown, recycled and rehashed.        *)
THEOREM IInvAlways == Spec => []IInv
  BY InitIInv, NextIInv, PTL DEF Spec

(* The variables of prcmon.c keep their types.                             *)
THEOREM TypeCorrect == Spec => []TypeOK
<1>1. IInv => TypeOK
  BY DEF IInv
<1> QED
  BY <1>1, IInvAlways, PTL

(* cacheEntryCount is what is entered and owed at the entry, for any       *)
(* number of threads: no entry is recycled under a call or a wait, and     *)
(* none stays bound when the last user has left.                           *)
THEOREM UsesAlwaysCounted == Spec => []CountsUses
<1>1. IInv => CountsUses
  BY DEF IInv
<1> QED
  BY <1>1, IInvAlways, PTL

(* Threads that use one address use one monitor, and it is the one that a  *)
(* lookup finds -- though PR_CEnterMonitor, PR_CWait and PR_CNotify use    *)
(* the monitor after they have dropped the cache lock.                     *)
THEOREM MonitorAlwaysSame == Spec => []SameMonitor
<1>1. ASSUME IInv PROVE SameMonitor
  <2>1. ASSUME NEW t \in Thread, pc[t] # "idle"
        PROVE  Lookup(call[t]) = {mon[t]}
    <3>1. mon[t] \in Entry /\ call[t] \in Addr /\ address[mon[t]] = call[t]
      BY <1>1, <2>1, MonIs
    <3> QED
      BY <1>1, <3>1, BoundIs
  <2>2. ASSUME NEW e \in Entry, holder[e] # NoThread
        PROVE  Lookup(address[e]) = {e}
    <3>1. address[e] \in Addr
      BY <1>1, <2>2, UnboundUnused DEF IInv, TypeOK
    <3> QED
      BY <1>1, <3>1, BoundIs
  <2> QED
    BY <2>1, <2>2 DEF SameMonitor
<1> QED
  BY <1>1, IInvAlways, PTL

(* No entry is lost or handed out twice, and num_free_entries is exact     *)
(* whenever it decides whether the cache grows.                            *)
THEOREM FreeListAlwaysSound == Spec => []FreeListSound
<1>1. ASSUME IInv PROVE FreeListSound
  <2>1. numFree = Len(free) /\ Cardinality(Items(free)) = Len(free)
    BY <1>1, ItemsCounted DEF IInv, TypeOK, FreePart
  <2>2. \A e \in 1..made : e \in Entry /\ e <= made
    BY <1>1, CacheAssumption DEF IInv, TypeOK, Entry
  <2>3. \A e \in 1..made : e \in Items(free) <=> address[e] = 0
    BY <1>1, <2>2 DEF IInv, FreePart
  <2>4. Items(free) \subseteq Entry
    BY <1>1 DEF IInv, TypeOK, Items
  <2>5. \A e \in Items(free) : count[e] = 0 /\ bucket[e] = NoBucket
    BY <1>1, <2>4 DEF IInv, FreePart, TablePart
  <2> QED
    BY <2>1, <2>3, <2>5 DEF FreeListSound, Items
<1> QED
  BY <1>1, IInvAlways, PTL

--------------------------------------------------------------------------------
(* The abstract monitor of each address.                                   *)

(* What an address shows of the entry bound to it, or of there being none. *)
ViewAt(a) ==
  /\ \A e \in Entry : address[e] = a =>
       /\ HolderOf(a) = holder[e]
       /\ WaitingFor(a) = {t \in Thread : Waiting(t) /\ mon[t] = e}
       /\ DepthAt(a) = [t \in Thread |->
            IF Waiting(t) /\ mon[t] = e THEN saved[t]
            ELSE IF holder[e] = t THEN depth[e] ELSE 0]
  /\ (\A e \in Entry : address[e] # a) =>
       /\ HolderOf(a) = NoThread /\ WaitingFor(a) = {}
       /\ DepthAt(a) = [t \in Thread |-> 0]

LEMMA Views == IInv => \A a \in Addr : ViewAt(a)
<1> SUFFICES ASSUME IInv, NEW a \in Addr PROVE ViewAt(a)
  OBVIOUS
<1>1. /\ Lookup(a) = {e \in Entry : address[e] = a}
      /\ \A e, f \in Entry : address[e] = a /\ address[f] = a => e = f
  BY BoundIs
<1>2. ASSUME NEW e \in Entry, address[e] = a
      PROVE  /\ HolderOf(a) = holder[e]
             /\ WaitingFor(a) = {t \in Thread : Waiting(t) /\ mon[t] = e}
             /\ DepthAt(a) = [t \in Thread |->
                  IF Waiting(t) /\ mon[t] = e THEN saved[t]
                  ELSE IF holder[e] = t THEN depth[e] ELSE 0]
  <2>1. Lookup(a) = {e}
    BY <1>1, <1>2
  <2>2. \A t \in Thread : Inside(t, a) <=> holder[e] = t
    BY <2>1 DEF Inside
  <2>3. holder[e] \in Thread \cup {NoThread} /\ NoThread \notin Thread
    BY CacheAssumption DEF IInv, TypeOK
  <2>4. HolderOf(a) = holder[e]
    <3> DEFINE in == {t \in Thread : Inside(t, a)}
    <3>1. HolderOf(a) = IF in = {} THEN NoThread ELSE CHOOSE t \in in : TRUE
      BY DEF HolderOf
    <3>2. CASE holder[e] = NoThread
      <4>1. in = {}
        BY <2>2, <2>3, <3>2
      <4> QED
        BY <3>1, <3>2, <4>1
    <3>3. CASE holder[e] # NoThread
      <4>1. in = {holder[e]}
        BY <2>2, <2>3, <3>3
      <4> QED
        BY <3>1, <4>1
    <3> QED
      BY <3>2, <3>3
  <2>5. ASSUME NEW t \in Thread
        PROVE  Waiting(t) /\ call[t] = a <=> Waiting(t) /\ mon[t] = e
    <3>1. Waiting(t) => mon[t] \in Entry /\ call[t] = address[mon[t]]
      BY MonIs DEF Waiting
    <3> QED
      BY <1>1, <1>2, <3>1
  <2>6. WaitingFor(a) = {t \in Thread : Waiting(t) /\ mon[t] = e}
    BY <2>5 DEF WaitingFor
  <2>7. (CHOOSE f \in Lookup(a) : TRUE) = e
    BY <2>1
  <2>8. DepthAt(a) = [t \in Thread |->
           IF Waiting(t) /\ mon[t] = e THEN saved[t]
           ELSE IF holder[e] = t THEN depth[e] ELSE 0]
    <3>1. \A t \in Thread : t \in WaitingFor(a) <=> Waiting(t) /\ mon[t] = e
      BY <2>6
    <3>2. depth[CHOOSE f \in Lookup(a) : TRUE] = depth[e]
      BY <2>7
    <3>3. DepthAt(a) = [t \in Thread |->
             IF t \in WaitingFor(a) THEN saved[t]
             ELSE IF Inside(t, a) THEN depth[e] ELSE 0]
      BY <3>2 DEF DepthAt
    <3> QED
      BY <2>2, <3>1, <3>3
  <2> QED
    BY <2>4, <2>6, <2>8
<1>3. ASSUME \A e \in Entry : address[e] # a
      PROVE  /\ HolderOf(a) = NoThread /\ WaitingFor(a) = {}
             /\ DepthAt(a) = [t \in Thread |-> 0]
  <2>1. Lookup(a) = {}
    BY <1>1, <1>3
  <2>2. \A t \in Thread : ~Inside(t, a)
    BY <2>1 DEF Inside
  <2>3. \A t \in Thread : ~(Waiting(t) /\ call[t] = a)
    BY <1>3, MonIs DEF Waiting
  <2>4. WaitingFor(a) = {}
    BY <2>3 DEF WaitingFor
  <2>5. {t \in Thread : Inside(t, a)} = {}
    BY <2>2
  <2>6. HolderOf(a) = NoThread
    BY <2>5 DEF HolderOf
  <2>7. DepthAt(a) = [t \in Thread |-> 0]
    BY <2>2, <2>4 DEF DepthAt
  <2> QED
    BY <2>4, <2>6, <2>7
<1> QED
  BY <1>2, <1>3 DEF ViewAt

LEMMA ViewsNext == IInv' => \A a \in Addr : ViewAt(a)'
<1>1. IInv' => (\A a \in Addr : ViewAt(a))'
  BY Views, PTL
<1> QED
  BY <1>1

(* A step shows nothing at b if whatever was bound to it is, with the same *)
(* people in it and waiting for it, and a new binding is of an entry that  *)
(* nobody is in.                                                           *)
LEMMA SameView ==
  ASSUME IInv, IInv', NEW b \in Addr,
         \A e \in Entry : address[e] = b =>
           address'[e] = b /\ holder'[e] = holder[e] /\ depth'[e] = depth[e],
         \A e \in Entry : address'[e] = b => \A u \in Thread :
           /\ Waiting(u)' /\ mon'[u] = e <=> Waiting(u) /\ mon[u] = e
           /\ Waiting(u) /\ mon[u] = e => saved'[u] = saved[u],
         \A e \in Entry : address'[e] = b /\ address[e] # b =>
           address[e] = 0 /\ holder'[e] = NoThread
  PROVE  UNCHANGED <<HolderOf(b), DepthAt(b), WaitingFor(b)>>
<1>1. ViewAt(b) /\ ViewAt(b)'
  BY Views, ViewsNext
<1>2. \A e \in Entry : address'[e] = b =>
        /\ HolderOf(b)' = holder'[e]
        /\ WaitingFor(b)' = {t \in Thread : Waiting(t)' /\ mon'[t] = e}
        /\ DepthAt(b)' = [t \in Thread |->
             IF Waiting(t)' /\ mon'[t] = e THEN saved'[t]
             ELSE IF holder'[e] = t THEN depth'[e] ELSE 0]
  BY <1>1 DEF ViewAt
<1>3. CASE \E e \in Entry : address[e] = b
  <2>1. PICK e \in Entry : address[e] = b
    BY <1>3
  <2>2. address'[e] = b /\ holder'[e] = holder[e] /\ depth'[e] = depth[e]
    BY <2>1
  <2>3. \A u \in Thread :
          /\ Waiting(u)' /\ mon'[u] = e <=> Waiting(u) /\ mon[u] = e
          /\ Waiting(u) /\ mon[u] = e => saved'[u] = saved[u]
    BY <2>2
  <2>4. /\ HolderOf(b) = holder[e]
        /\ WaitingFor(b) = {t \in Thread : Waiting(t) /\ mon[t] = e}
        /\ DepthAt(b) = [t \in Thread |->
             IF Waiting(t) /\ mon[t] = e THEN saved[t]
             ELSE IF holder[e] = t THEN depth[e] ELSE 0]
    BY <1>1, <2>1 DEF ViewAt
  <2>5. /\ HolderOf(b)' = holder'[e]
        /\ WaitingFor(b)' = {t \in Thread : Waiting(t)' /\ mon'[t] = e}
        /\ DepthAt(b)' = [t \in Thread |->
             IF Waiting(t)' /\ mon'[t] = e THEN saved'[t]
             ELSE IF holder'[e] = t THEN depth'[e] ELSE 0]
    BY <1>2, <2>2
  <2> QED
    BY <2>2, <2>3, <2>4, <2>5
<1>4. CASE \A e \in Entry : address[e] # b
  <2>1. /\ HolderOf(b) = NoThread /\ WaitingFor(b) = {}
        /\ DepthAt(b) = [t \in Thread |-> 0]
    BY <1>1, <1>4 DEF ViewAt
  <2>2. CASE \A e \in Entry : address'[e] # b
    BY <1>1, <2>1, <2>2 DEF ViewAt
  <2>3. CASE \E e \in Entry : address'[e] = b
    <3>1. PICK e \in Entry : address'[e] = b
      BY <2>3
    <3>2. address[e] = 0 /\ holder'[e] = NoThread
      BY <1>4, <3>1
    <3>3. \A u \in Thread : mon[u] # e
      BY <3>2, UnboundUnused
    <3>4. \A u \in Thread : ~(Waiting(u)' /\ mon'[u] = e)
      BY <3>1, <3>3
    <3>5. \A u \in Thread : holder'[e] # u
      BY <3>2, CacheAssumption
    <3>6. /\ HolderOf(b)' = holder'[e]
          /\ WaitingFor(b)' = {t \in Thread : Waiting(t)' /\ mon'[t] = e}
          /\ DepthAt(b)' = [t \in Thread |->
               IF Waiting(t)' /\ mon'[t] = e THEN saved'[t]
               ELSE IF holder'[e] = t THEN depth'[e] ELSE 0]
      BY <1>2, <3>1
    <3> QED
      BY <2>1, <3>2, <3>4, <3>5, <3>6
  <2> QED
    BY <2>2, <2>3
<1> QED
  BY <1>3, <1>4

(* Where the holder of e leaves, enters, waits or comes back, no other     *)
(* address sees it.                                                        *)
LEMMA OthersKept ==
  ASSUME IInv, IInv', NEW e \in Entry, address[e] # 0,
         NEW b \in Addr, b # address[e],
         \A f \in Entry \ {e} :
           address'[f] = address[f] /\ holder'[f] = holder[f] /\ depth'[f] = depth[f],
         address'[e] \in {0, address[e]},
         \A f \in Entry \ {e} : \A u \in Thread :
           /\ Waiting(u)' /\ mon'[u] = f <=> Waiting(u) /\ mon[u] = f
           /\ Waiting(u) /\ mon[u] = f => saved'[u] = saved[u]
  PROVE  UNCHANGED <<HolderOf(b), DepthAt(b), WaitingFor(b)>>
<1>1. b # 0 /\ address[e] # b /\ address'[e] # b
  BY CacheAssumption
<1>2. \A f \in Entry : address[f] = b =>
        address'[f] = b /\ holder'[f] = holder[f] /\ depth'[f] = depth[f]
  BY <1>1
<1>3. \A f \in Entry : address'[f] = b => \A u \in Thread :
        /\ Waiting(u)' /\ mon'[u] = f <=> Waiting(u) /\ mon[u] = f
        /\ Waiting(u) /\ mon[u] = f => saved'[u] = saved[u]
  BY <1>1
<1>4. \A f \in Entry : ~(address'[f] = b /\ address[f] # b)
  BY <1>1
<1> QED
  BY <1>2, <1>3, <1>4, SameView

ViewVars(a) == <<HolderOf(a), DepthAt(a), WaitingFor(a)>>

(* PR_CEnterMonitor's part under the cache lock shows nothing.             *)
LEMMA CreateView ==
  ASSUME IInv, IInv', NEW t \in Thread, NEW a \in Addr, NEW b \in Addr,
         CreateFound(t, a) \/ CreateNew(t, a) \/ CreateExpanded(t, a)
  PROVE  UNCHANGED ViewVars(b)
<1>1. PICK e \in Entry : /\ Fetch(t, a, e, "entering") /\ pc[t] = "idle"
                         /\ \/ address[e] = a /\ address' = address
                            \/ address[e] = 0 /\ address' = [address EXCEPT ![e] = a]
  <2>1. CASE CreateFound(t, a)
    BY <2>1, BoundIs DEF CreateFound, MayEnter
  <2>2. CASE CreateNew(t, a)
    <3>1. numFree = Len(free) /\ Len(free) > 0 /\ free \in Seq(Entry) /\ NoRepeat(free)
      BY <2>2, CacheAssumption DEF CreateNew, IInv, TypeOK, FreePart
    <3>2. Head(free) \in Items(free)
      BY <3>1, PopItem
    <3>3. Head(free) \in Entry /\ address[Head(free)] = 0
      BY <3>1, <3>2 DEF IInv, FreePart, Items
    <3> QED
      BY <2>2, <3>3 DEF CreateNew, Take, MayEnter
  <2>3. CASE CreateExpanded(t, a)
    <3>1. PICK added \in 1..2^(log + 1) :
            /\ made + added <= MaxEntries
            /\ \E size, table : Take(t, a, made + 1, table, size)
      BY <2>3 DEF CreateExpanded, IInv, TypeOK
    <3>2. made \in Nat /\ MaxEntries \in Nat /\ log + 1 \in Nat
      BY CacheAssumption DEF IInv, TypeOK, Entry
    <3>3. 2^(log + 1) \in Nat
      BY <3>2, PowerPositive
    <3>4. made + 1 \in Entry /\ ~(made + 1 <= made)
      BY <3>1, <3>2, <3>3 DEF Entry
    <3>5. address[made + 1] = 0
      BY <3>4 DEF IInv, TablePart
    <3> QED
      BY <2>3, <3>1, <3>4, <3>5 DEF CreateExpanded, Take, MayEnter
  <2> QED
    BY <2>1, <2>2, <2>3
<1>2. /\ mon'[t] = e /\ ~Waiting(t) /\ ~Waiting(t)'
      /\ \A u \in Thread \ {t} : mon'[u] = mon[u] /\ pc'[u] = pc[u]
      /\ UNCHANGED <<holder, depth, saved>>
  BY <1>1 DEF Fetch, IInv, TypeOK, Waiting
<1>3. \A u \in Thread, f \in Entry :
        Waiting(u)' /\ mon'[u] = f <=> Waiting(u) /\ mon[u] = f
  BY <1>2 DEF Waiting
<1>4. a # 0 /\ b # 0
  BY CacheAssumption
<1>5. \A f \in Entry : address[f] = b => address'[f] = b
  BY <1>1, <1>4 DEF IInv, TypeOK
<1>6. \A f \in Entry : address'[f] = b /\ address[f] # b =>
        address[f] = 0 /\ holder'[f] = NoThread
  BY <1>1, <1>2, UnboundUnused DEF IInv, TypeOK
<1> QED
  BY <1>2, <1>3, <1>5, <1>6, SameView DEF ViewVars

LEMMA EnterView ==
  ASSUME IInv, IInv', NEW t \in Thread, EnterMonitor(t), NEW b \in Addr
  PROVE  At(b)!ANext \/ UNCHANGED ViewVars(b)
<1> DEFINE m == mon[t]
<1>1. /\ m \in Entry /\ call[t] \in Addr /\ address[m] = call[t]
      /\ pc[t] = "entering" /\ holder[m] \in {NoThread, t} /\ address[m] # 0
      /\ t # NoThread
  BY MonIs, CacheAssumption DEF EnterMonitor
<1>2. /\ holder' = [holder EXCEPT ![m] = t]
      /\ depth' = [depth EXCEPT ![m] = @ + 1]
      /\ pc' = [pc EXCEPT ![t] = "idle"]
      /\ mon' = [mon EXCEPT ![t] = 0]
      /\ UNCHANGED <<address, saved>>
  BY DEF EnterMonitor, Done, cache
<1>3. \A u \in Thread :
        /\ Waiting(u)' <=> Waiting(u)
        /\ Waiting(u) => mon'[u] = mon[u]
  BY <1>1, <1>2 DEF IInv, TypeOK, Waiting
<1>4. CASE b = address[m]
  <2>1. ViewAt(b) /\ ViewAt(b)' /\ address'[m] = b
    BY <1>2, <1>4, Views, ViewsNext
  <2>2. /\ HolderOf(b) = holder[m]
        /\ WaitingFor(b) = {u \in Thread : Waiting(u) /\ mon[u] = m}
        /\ DepthAt(b) = [u \in Thread |->
             IF Waiting(u) /\ mon[u] = m THEN saved[u]
             ELSE IF holder[m] = u THEN depth[m] ELSE 0]
    BY <1>1, <1>4, <2>1 DEF ViewAt
  <2>3. /\ HolderOf(b)' = t
        /\ WaitingFor(b)' = {u \in Thread : Waiting(u)' /\ mon'[u] = m}
        /\ DepthAt(b)' = [u \in Thread |->
             IF Waiting(u)' /\ mon'[u] = m THEN saved'[u]
             ELSE IF t = u THEN depth[m] + 1 ELSE 0]
    <3>1. holder'[m] = t /\ depth'[m] = depth[m] + 1
      BY <1>1, <1>2 DEF IInv, TypeOK
    <3> QED
      BY <1>1, <2>1, <3>1 DEF ViewAt
  <2>4. holder[m] = NoThread => depth[m] = 0
    BY <1>1 DEF IInv, HolderPart
  <2>5. t \notin WaitingFor(b) /\ WaitingFor(b)' = WaitingFor(b)
    BY <1>1, <1>3, <2>2, <2>3 DEF Waiting
  <2>6. DepthAt(b)' = [DepthAt(b) EXCEPT ![t] = @ + 1]
    <3>1. /\ DepthAt(b)[t] = depth[m]
          /\ DepthAt(b)'[t] = depth[m] + 1
      BY <1>1, <1>3, <2>2, <2>3, <2>4 DEF Waiting
    <3>2. \A u \in Thread \ {t} : DepthAt(b)'[u] = DepthAt(b)[u]
      BY <1>1, <1>2, <1>3, <2>2, <2>3, CacheAssumption
    <3>3. /\ DepthAt(b) = [u \in Thread |-> DepthAt(b)[u]]
          /\ DepthAt(b)' = [u \in Thread |-> DepthAt(b)'[u]]
      BY <2>2, <2>3
    <3> QED
      BY <3>1, <3>2, <3>3
  <2> QED
    BY <1>1, <2>2, <2>3, <2>5, <2>6 DEF At!ANext, At!AEnter
<1>5. CASE b # address[m]
  <2>1. \A f \in Entry \ {m} :
          address'[f] = address[f] /\ holder'[f] = holder[f] /\ depth'[f] = depth[f]
    BY <1>2 DEF IInv, TypeOK
  <2>2. address'[m] \in {0, address[m]}
    BY <1>2
  <2>3. \A f \in Entry \ {m} : \A u \in Thread :
          /\ Waiting(u)' /\ mon'[u] = f <=> Waiting(u) /\ mon[u] = f
          /\ Waiting(u) /\ mon[u] = f => saved'[u] = saved[u]
    BY <1>2, <1>3
  <2> QED
    BY <1>1, <1>5, <2>1, <2>2, <2>3, OthersKept DEF ViewVars
<1> QED
  BY <1>4, <1>5

LEMMA LeaveView ==
  ASSUME IInv, IInv', NEW t \in Thread, NEW a \in Addr, NEW b \in Addr,
         CExitUsed(t, a) \/ CExitFree(t, a)
  PROVE  At(b)!ANext \/ UNCHANGED ViewVars(b)
<1>1. PICK e \in Lookup(a) :
        /\ pc[t] = "idle" /\ Inside(t, a) /\ Leave(e)
        /\ \/ count[e] > 1 /\ UNCHANGED address
           \/ count[e] = 1 /\ address' = [address EXCEPT ![e] = 0]
  BY DEF CExitUsed, CExitFree
<1>2. /\ e \in Entry /\ address[e] = a /\ a # 0 /\ holder[e] = t
      /\ t # NoThread /\ depth[e] \in Nat \ {0} /\ depth[e] <= count[e]
      /\ count[e] \in Nat
  BY <1>1, LeaveIs
<1>3. /\ depth' = [depth EXCEPT ![e] = @ - 1]
      /\ holder' = [holder EXCEPT ![e] = IF depth[e] = 1 THEN NoThread ELSE @]
      /\ UNCHANGED <<pc, mon, saved>>
      /\ \A u \in Thread : Waiting(u)' <=> Waiting(u)
  BY <1>1 DEF Leave, Waiting
<1>4. CASE b = a
  <2>1. ViewAt(b) /\ ViewAt(b)'
    BY Views, ViewsNext
  <2>2. /\ HolderOf(b) = t
        /\ WaitingFor(b) = {u \in Thread : Waiting(u) /\ mon[u] = e}
        /\ DepthAt(b) = [u \in Thread |->
             IF Waiting(u) /\ mon[u] = e THEN saved[u]
             ELSE IF t = u THEN depth[e] ELSE 0]
    BY <1>2, <1>4, <2>1 DEF ViewAt
  <2>3. ~Waiting(t)
    BY <1>1 DEF Waiting
  <2>4. /\ HolderOf(b)' = IF depth[e] = 1 THEN NoThread ELSE t
        /\ WaitingFor(b)' = {u \in Thread : Waiting(u) /\ mon[u] = e}
        /\ DepthAt(b)' = [u \in Thread |->
             IF Waiting(u) /\ mon[u] = e THEN saved[u]
             ELSE IF t = u THEN depth[e] - 1 ELSE 0]
    <3>1. /\ holder'[e] = IF depth[e] = 1 THEN NoThread ELSE t
          /\ depth'[e] = depth[e] - 1
      BY <1>2, <1>3 DEF IInv, TypeOK
    <3>2. CASE address'[e] = b
      <4>1. /\ HolderOf(b)' = holder'[e]
            /\ WaitingFor(b)' = {u \in Thread : Waiting(u)' /\ mon'[u] = e}
            /\ DepthAt(b)' = [u \in Thread |->
                 IF Waiting(u)' /\ mon'[u] = e THEN saved'[u]
                 ELSE IF holder'[e] = u THEN depth'[e] ELSE 0]
        BY <1>2, <2>1, <3>2 DEF ViewAt
      <4>2. \A u \in Thread :
              (IF holder'[e] = u THEN depth'[e] ELSE 0)
                = IF t = u THEN depth[e] - 1 ELSE 0
        BY <1>2, <3>1, CacheAssumption
      <4> QED
        BY <1>3, <3>1, <4>1, <4>2
    <3>3. CASE address'[e] # b
      <4>1. count[e] = 1 /\ address' = [address EXCEPT ![e] = 0] /\ depth[e] = 1
        BY <1>1, <1>2, <1>4, <3>3
      <4>2. \A u \in Thread : ~(mon[u] = e /\ Waiting(u))
        <5>1. \A u \in Thread : mon[u] = e /\ (Waiting(u) \/ pc[u] = "entering") =>
                depth[e] + 1 <= count[e]
          BY <1>1, LeaveIs
        <5> QED
          BY <4>1, <5>1
      <4>3. \A f \in Entry : address[f] = b => f = e
        BY <1>2, <1>4, BoundIs
      <4>4. \A f \in Entry : address'[f] # b
        BY <1>2, <1>4, <3>3, <4>1, <4>3 DEF IInv, TypeOK
      <4>5. /\ HolderOf(b)' = NoThread /\ WaitingFor(b)' = {}
            /\ DepthAt(b)' = [u \in Thread |-> 0]
        BY <2>1, <4>4 DEF ViewAt
      <4> QED
        BY <4>1, <4>2, <4>5
    <3> QED
      BY <3>2, <3>3
  <2>5. DepthAt(b)' = [DepthAt(b) EXCEPT ![t] = @ - 1]
    BY <1>2, <2>2, <2>3, <2>4
  <2>6. DepthAt(b)[t] = depth[e]
    BY <2>2, <2>3
  <2> QED
    BY <2>2, <2>4, <2>5, <2>6 DEF At!ANext, At!AExit
<1>5. CASE b # a
  <2>1. \A f \in Entry \ {e} :
          address'[f] = address[f] /\ holder'[f] = holder[f] /\ depth'[f] = depth[f]
    BY <1>1, <1>3 DEF IInv, TypeOK
  <2>2. address'[e] \in {0, address[e]}
    BY <1>1, <1>2 DEF IInv, TypeOK
  <2>3. \A f \in Entry \ {e} : \A u \in Thread :
          /\ Waiting(u)' /\ mon'[u] = f <=> Waiting(u) /\ mon[u] = f
          /\ Waiting(u) /\ mon[u] = f => saved'[u] = saved[u]
    BY <1>3
  <2> QED
    BY <1>2, <1>5, <2>1, <2>2, <2>3, OthersKept DEF ViewVars
<1> QED
  BY <1>4, <1>5

LEMMA WaitView ==
  ASSUME IInv, IInv', NEW t \in Thread, Wait(t), NEW b \in Addr
  PROVE  At(b)!ANext \/ UNCHANGED ViewVars(b)
<1> DEFINE m == mon[t]
<1>1. /\ m \in Entry /\ call[t] \in Addr /\ address[m] = call[t]
      /\ pc[t] = "towait" /\ holder[m] = t /\ address[m] # 0 /\ t # NoThread
  BY MonIs, CacheAssumption DEF Wait, IInv, HolderPart
<1>2. /\ saved' = [saved EXCEPT ![t] = depth[m]]
      /\ depth' = [depth EXCEPT ![m] = 0]
      /\ holder' = [holder EXCEPT ![m] = NoThread]
      /\ pc' = [pc EXCEPT ![t] = "waiting"]
      /\ UNCHANGED <<address, mon>>
  BY DEF Wait, cache
<1>3. /\ Waiting(t)' /\ ~Waiting(t) /\ saved'[t] = depth[m]
      /\ \A u \in Thread \ {t} :
           saved'[u] = saved[u] /\ (Waiting(u)' <=> Waiting(u))
  BY <1>1, <1>2 DEF IInv, TypeOK, Waiting
<1>4. CASE b = address[m]
  <2>1. ViewAt(b) /\ ViewAt(b)' /\ address'[m] = b
    BY <1>2, <1>4, Views, ViewsNext
  <2>2. /\ HolderOf(b) = t
        /\ WaitingFor(b) = {u \in Thread : Waiting(u) /\ mon[u] = m}
        /\ DepthAt(b) = [u \in Thread |->
             IF Waiting(u) /\ mon[u] = m THEN saved[u]
             ELSE IF t = u THEN depth[m] ELSE 0]
    BY <1>1, <1>4, <2>1 DEF ViewAt
  <2>3. /\ HolderOf(b)' = NoThread
        /\ WaitingFor(b)' = {u \in Thread : Waiting(u)' /\ mon[u] = m}
        /\ DepthAt(b)' = [u \in Thread |->
             IF Waiting(u)' /\ mon[u] = m THEN saved'[u]
             ELSE IF NoThread = u THEN 0 ELSE 0]
    <3>1. holder'[m] = NoThread /\ depth'[m] = 0 /\ mon' = mon
      BY <1>1, <1>2 DEF IInv, TypeOK
    <3> QED
      BY <1>1, <2>1, <3>1 DEF ViewAt
  <2>4. WaitingFor(b)' = WaitingFor(b) \cup {t}
    BY <1>3, <2>2, <2>3
  <2>5. DepthAt(b)' = DepthAt(b)
    BY <1>3, <2>2, <2>3
  <2> QED
    BY <2>2, <2>3, <2>4, <2>5 DEF At!ANext, At!AWait
<1>5. CASE b # address[m]
  <2>1. \A f \in Entry \ {m} :
          address'[f] = address[f] /\ holder'[f] = holder[f] /\ depth'[f] = depth[f]
    BY <1>2 DEF IInv, TypeOK
  <2>2. address'[m] \in {0, address[m]}
    BY <1>2
  <2>3. \A f \in Entry \ {m} : \A u \in Thread :
          /\ Waiting(u)' /\ mon'[u] = f <=> Waiting(u) /\ mon[u] = f
          /\ Waiting(u) /\ mon[u] = f => saved'[u] = saved[u]
    BY <1>2, <1>3
  <2> QED
    BY <1>1, <1>5, <2>1, <2>2, <2>3, OthersKept DEF ViewVars
<1> QED
  BY <1>4, <1>5

LEMMA WaitReturnView ==
  ASSUME IInv, IInv', NEW t \in Thread, WaitReturn(t), NEW b \in Addr
  PROVE  At(b)!ANext \/ UNCHANGED ViewVars(b)
<1> DEFINE m == mon[t]
<1>1. /\ m \in Entry /\ call[t] \in Addr /\ address[m] = call[t]
      /\ pc[t] = "woken" /\ holder[m] = NoThread /\ address[m] # 0
      /\ t # NoThread
  BY MonIs, CacheAssumption DEF WaitReturn
<1>2. /\ holder' = [holder EXCEPT ![m] = t]
      /\ depth' = [depth EXCEPT ![m] = saved[t]]
      /\ saved' = [saved EXCEPT ![t] = 0]
      /\ pc' = [pc EXCEPT ![t] = "idle"]
      /\ mon' = [mon EXCEPT ![t] = 0]
      /\ UNCHANGED address
  BY DEF WaitReturn, Done, cache
<1>3. /\ ~Waiting(t)' /\ Waiting(t)
      /\ \A u \in Thread \ {t} : /\ saved'[u] = saved[u] /\ mon'[u] = mon[u]
                                 /\ Waiting(u)' <=> Waiting(u)
  BY <1>1, <1>2 DEF IInv, TypeOK, Waiting
<1>4. CASE b = address[m]
  <2>1. ViewAt(b) /\ ViewAt(b)' /\ address'[m] = b
    BY <1>2, <1>4, Views, ViewsNext
  <2>2. /\ HolderOf(b) = NoThread
        /\ WaitingFor(b) = {u \in Thread : Waiting(u) /\ mon[u] = m}
        /\ DepthAt(b) = [u \in Thread |->
             IF Waiting(u) /\ mon[u] = m THEN saved[u]
             ELSE IF NoThread = u THEN depth[m] ELSE 0]
    BY <1>1, <1>4, <2>1 DEF ViewAt
  <2>3. /\ HolderOf(b)' = t
        /\ WaitingFor(b)' = {u \in Thread : Waiting(u)' /\ mon'[u] = m}
        /\ DepthAt(b)' = [u \in Thread |->
             IF Waiting(u)' /\ mon'[u] = m THEN saved'[u]
             ELSE IF t = u THEN saved[t] ELSE 0]
    <3>1. holder'[m] = t /\ depth'[m] = saved[t]
      BY <1>1, <1>2 DEF IInv, TypeOK
    <3> QED
      BY <1>1, <2>1, <3>1 DEF ViewAt
  <2>4. t \in WaitingFor(b) /\ WaitingFor(b)' = WaitingFor(b) \ {t}
    BY <1>3, <2>2, <2>3
  <2>5. DepthAt(b)' = DepthAt(b)
    <3>1. \A u \in Thread :
            (IF Waiting(u)' /\ mon'[u] = m THEN saved'[u]
             ELSE IF t = u THEN saved[t] ELSE 0)
              = IF Waiting(u) /\ mon[u] = m THEN saved[u]
                ELSE IF NoThread = u THEN depth[m] ELSE 0
      BY <1>3, CacheAssumption
    <3> QED
      BY <2>2, <2>3, <3>1
  <2> QED
    BY <2>2, <2>3, <2>4, <2>5 DEF At!ANext, At!AResume
<1>5. CASE b # address[m]
  <2>1. \A f \in Entry \ {m} :
          address'[f] = address[f] /\ holder'[f] = holder[f] /\ depth'[f] = depth[f]
    BY <1>2 DEF IInv, TypeOK
  <2>2. address'[m] \in {0, address[m]}
    BY <1>2
  <2>3. \A f \in Entry \ {m} : \A u \in Thread :
          /\ Waiting(u)' /\ mon'[u] = f <=> Waiting(u) /\ mon[u] = f
          /\ Waiting(u) /\ mon[u] = f => saved'[u] = saved[u]
    BY <1>2, <1>3
  <2> QED
    BY <1>1, <1>5, <2>1, <2>2, <2>3, OthersKept DEF ViewVars
<1> QED
  BY <1>4, <1>5

(* A lookup, a notification and the end of a wait show nothing.            *)
LEMMA QuietView ==
  ASSUME IInv, IInv', NEW b \in Addr,
         UNCHANGED <<address, holder, depth, saved>>,
         \A u \in Thread : /\ Waiting(u)' <=> Waiting(u)
                           /\ Waiting(u) => mon'[u] = mon[u]
  PROVE  UNCHANGED ViewVars(b)
<1>1. \A e \in Entry : address'[e] = b => \A u \in Thread :
        /\ Waiting(u)' /\ mon'[u] = e <=> Waiting(u) /\ mon[u] = e
        /\ Waiting(u) /\ mon[u] = e => saved'[u] = saved[u]
  OBVIOUS
<1> QED
  BY <1>1, SameView DEF ViewVars

LEMMA StepView ==
  ASSUME IInv, IInv', [Next]_vars, NEW b \in Addr
  PROVE  At(b)!ANext \/ UNCHANGED ViewVars(b)
<1>1. CASE UNCHANGED vars
  <2>1. UNCHANGED <<address, holder, depth, saved, pc, mon>>
    BY <1>1 DEF vars, cache
  <2> QED
    BY <2>1, QuietView DEF Waiting
<1>2. CASE Next
  <2> PICK t \in Thread :
        \/ \E a \in Addr :
             \/ CreateFound(t, a) \/ CreateNew(t, a) \/ CreateExpanded(t, a)
             \/ CExitUsed(t, a) \/ CExitFree(t, a)
             \/ CLookup(t, a, "towait")
             \/ CLookup(t, a, "tonotify") \/ CLookup(t, a, "tonotifyall")
        \/ EnterMonitor(t) \/ Wait(t) \/ Notify(t) \/ NotifyAll(t)
        \/ WaitTimeout(t) \/ WaitReturn(t)
    BY <1>2 DEF Next
  <2>1. ASSUME NEW a \in Addr,
               CreateFound(t, a) \/ CreateNew(t, a) \/ CreateExpanded(t, a)
        PROVE  UNCHANGED ViewVars(b)
    BY <2>1, CreateView
  <2>2. ASSUME NEW a \in Addr, CExitUsed(t, a) \/ CExitFree(t, a)
        PROVE  At(b)!ANext \/ UNCHANGED ViewVars(b)
    BY <2>2, LeaveView
  <2>3. ASSUME NEW a \in Addr, NEW to \in {"towait", "tonotify", "tonotifyall"},
               CLookup(t, a, to)
        PROVE  UNCHANGED ViewVars(b)
    <3>1. /\ pc[t] = "idle" /\ UNCHANGED <<address, holder, depth, saved>>
          /\ \E e \in Lookup(a) : mon' = [mon EXCEPT ![t] = e]
          /\ pc' = [pc EXCEPT ![t] = to]
      BY <2>3 DEF CLookup, Fetch, cache
    <3>2. \A u \in Thread : /\ Waiting(u)' <=> Waiting(u)
                            /\ Waiting(u) => mon'[u] = mon[u]
      BY <3>1 DEF IInv, TypeOK, Waiting
    <3> QED
      BY <3>1, <3>2, QuietView
  <2>4. CASE Notify(t) \/ NotifyAll(t)
    <3>1. PICK woken \in SUBSET WaitersOn(mon[t]) : Wake(t, woken)
      BY <2>4 DEF Notify, NotifyAll
    <3>2. pc[t] \in {"tonotify", "tonotifyall"}
      BY <2>4 DEF Notify, NotifyAll
    <3>3. /\ UNCHANGED <<address, holder, depth, saved>>
          /\ mon' = [mon EXCEPT ![t] = 0]
          /\ pc' = [u \in Thread |-> IF u = t THEN "idle"
                                     ELSE IF u \in woken THEN "woken" ELSE pc[u]]
      BY <3>1 DEF Wake, Done, cache
    <3>4. \A u \in woken : pc[u] = "waiting"
      BY DEF WaitersOn
    <3>5. \A u \in Thread : /\ Waiting(u)' <=> Waiting(u)
                            /\ Waiting(u) => mon'[u] = mon[u]
      BY <3>2, <3>3, <3>4 DEF IInv, TypeOK, Waiting
    <3> QED
      BY <3>3, <3>5, QuietView
  <2>5. CASE WaitTimeout(t)
    <3>1. /\ UNCHANGED <<address, holder, depth, saved, mon>>
          /\ pc[t] = "waiting" /\ pc' = [pc EXCEPT ![t] = "woken"]
      BY <2>5 DEF WaitTimeout, cache
    <3>2. \A u \in Thread : Waiting(u)' <=> Waiting(u)
      BY <3>1 DEF IInv, TypeOK, Waiting
    <3> QED
      BY <3>1, <3>2, QuietView
  <2>6. CASE EnterMonitor(t) \/ Wait(t) \/ WaitReturn(t)
    BY <2>6, EnterView, WaitView, WaitReturnView
  <2> QED
    BY <2>1, <2>2, <2>3, <2>4, <2>5, <2>6
<1> QED
  BY <1>1, <1>2

(* Through its address, a cached monitor is the monitor of prmon.h, while  *)
(* its entries are bound, recycled and rehashed: each step of prcmon.c is  *)
(* at every address a step of AbstractMonitor or none at all.              *)
THEOREM CachedMonitorImplements == Spec => CachedMonitorContract
<1>1. ASSUME IInv, IInv', [Next]_vars
      PROVE  \A a \in Addr : [At(a)!ANext]_<<HolderOf(a), DepthAt(a), WaitingFor(a)>>
  BY <1>1, StepView DEF ViewVars
<1>2. ASSUME Init, NEW a \in Addr PROVE At(a)!AInit
  <2>1. ViewAt(a)
    BY <1>2, InitIInv, Views
  <2>2. \A e \in Entry : address[e] # a
    BY <1>2, CacheAssumption DEF Init
  <2> QED
    BY <2>1, <2>2 DEF ViewAt, At!AInit
<1>3. Init => \A a \in Addr : At(a)!AInit
  BY <1>2
<1> QED
  BY <1>1, <1>3, IInvAlways, PTL DEF Spec, CachedMonitorContract
================================================================================
