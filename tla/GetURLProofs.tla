------------------------------ MODULE GetURLProofs ------------------------------
(***************************************************************************)
(* Proofs about GetURL, for any finite set of URLs, any windows and any    *)
(* limits the library can have.                                            *)
(*                                                                         *)
(* The library's lists and its nested calls are sequences; all that the    *)
(* properties say of them is how often something occurs.  Count says that, *)
(* its lemmas say how each operation on a sequence changes it, and IInv is *)
(* stated with it, so that the proof for an action is arithmetic.          *)
(***************************************************************************)
EXTENDS GetURL, FiniteSetTheorems, SequenceTheorems, WellFoundedInduction, TLAPS

--------------------------------------------------------------------------------
(* The inductive invariant.                                                *)

(* How many elements of s are in F, and whether x is.                      *)
Pos(s, F) == {i \in DOMAIN s : s[i] \in F}
Count(s, F) == Cardinality(Pos(s, F))
One(x, F) == IF x \in F THEN 1 ELSE 0

Ops == {"start", "init", "redo", "process", "decrement", "interrupt",
        "firstPass", "lastPass"} \cup DOMAIN Phase
Frame == [op : Ops, url : URL, next : SUBSET URL]

(* The calls in progress, by what they will do.                            *)
Uncounting(f) == f.op \in {"decrement", "interrupt"}
Looking(f) == f.op \in {"decrement", "interrupt", "preferred", "any"}
Starting(f, u) == f.op \in {"start", "interrupt"} /\ f.url = u
Handling(f, u) == f.op \in {"init", "process"} /\ f.url = u

InQueue(u) == Count(waiting, {u})
Uncounters == Count(stack, {f \in Frame : Uncounting(f)})
Lookers == Count(stack, {f \in Frame : Looking(f)})
Starters(u) == Count(stack, {f \in Frame : Starting(f, u)})
Handlers(u) == Count(stack, {f \in Frame : Handling(f, u)})

ExactPart == count = Cardinality(active) + Uncounters + leaked

PlacePart ==
  \A u \in URL : InQueue(u) + One(u, active) + Starters(u) + exits[u] = One(u, begun)

(* A handler has its entry to itself; connections belong to entries.       *)
EntryPart ==
  /\ connected \subseteq active
  /\ \A u \in URL : /\ Handlers(u) <= 1
                    /\ Handlers(u) = 1 => u \in active \cap busy

(* What calls point to is an entry, and no other handler waits for the one *)
(* that is tried again with FTP.                                           *)
Trusted(s, entries) ==
  \A i \in DOMAIN s :
    /\ s[i].next \subseteq entries
    /\ s[i].op = "redo" => /\ s[i].url \in entries
                           /\ \A j \in DOMAIN s : i < j => ~Handling(s[j], s[i].url)
PointPart == Trusted(stack, active)

(* Somebody will still look at a queue with URLs that may be released, or  *)
(* is known not to: a call in progress, or one that comes when an entry    *)
(* ends.                                                                   *)
Expected ==
  \/ active # {} \/ stranded \/ leaked >= MaxProcessing \/ Lookers > 0
  \/ \E u \in URL \ prefetch : Starters(u) > 0
QueuePart == (\E u \in URL \ prefetch : InQueue(u) > 0) => Expected

(* All of it holds until an entry is freed that a call still points to.    *)
Parts == ExactPart /\ PlacePart /\ EntryPart /\ PointPart /\ QueuePart
Sound == Typed /\ Parts
IInv == Typed /\ (dangling \/ Parts)

--------------------------------------------------------------------------------
(* Counting occurrences in sequences.                                      *)

LEMMA PosFinite ==
  ASSUME NEW S, NEW s \in Seq(S), NEW F
  PROVE  /\ IsFiniteSet(Pos(s, F)) /\ Count(s, F) \in Nat
         /\ Count(s, F) = 0 <=> \A i \in DOMAIN s : s[i] \notin F
<1>1. Len(s) \in Nat /\ DOMAIN s = 1..Len(s)
  OBVIOUS
<1>2. IsFiniteSet(1..Len(s))
  BY <1>1, FS_Interval
<1>3. Pos(s, F) \in SUBSET (1..Len(s))
  BY <1>1 DEF Pos
<1>4. IsFiniteSet(Pos(s, F))
  BY <1>2, <1>3, FS_Subset
<1>5. Count(s, F) \in Nat /\ (Count(s, F) = 0 <=> Pos(s, F) = {})
  BY <1>4, FS_CardinalityType, FS_EmptySet DEF Count
<1> QED
  BY <1>4, <1>5 DEF Pos

LEMMA ShiftedCardinality ==
  ASSUME NEW P \in SUBSET Nat, IsFiniteSet(P), NEW k \in Nat
  PROVE  /\ IsFiniteSet({k + i : i \in P})
         /\ Cardinality({k + i : i \in P}) = Cardinality(P)
<1> DEFINE Q == {k + i : i \in P}
           f == [i \in P |-> k + i]
<1>1. f \in Bijection(P, Q)
  <2>1. f \in [P -> Q]
    OBVIOUS
  <2>2. \A i, j \in P : f[i] = f[j] => i = j
    OBVIOUS
  <2>3. \A q \in Q : \E i \in P : f[i] = q
    OBVIOUS
  <2> HIDE DEF f, Q
  <2>4. f \in Injection(P, Q)
    BY <2>1, <2>2, Zenon DEF Injection, IsInjective
  <2>5. f \in Surjection(P, Q)
    BY <2>1, <2>3, Zenon DEF Surjection
  <2> QED
    BY <2>4, <2>5, Zenon DEF Bijection
<1> HIDE DEF f, Q
<1>2. ExistsBijection(P, Q)
  BY <1>1, Zenon DEF ExistsBijection
<1>3. IsFiniteSet(Q) /\ Cardinality(Q) = Cardinality(P)
  BY <1>2, FS_Bijection
<1> QED
  BY <1>3 DEF Q

LEMMA ConcatCount ==
  ASSUME NEW S, NEW a \in Seq(S), NEW b \in Seq(S), NEW F
  PROVE  a \o b \in Seq(S) /\ Count(a \o b, F) = Count(a, F) + Count(b, F)
<1> DEFINE c == a \o b
           P == Pos(b, F)
           Q == {Len(a) + i : i \in P}
<1>1. /\ c \in Seq(S) /\ Len(a) \in Nat /\ Len(b) \in Nat
      /\ DOMAIN a = 1..Len(a) /\ DOMAIN b = 1..Len(b) /\ DOMAIN c = 1..(Len(a) + Len(b))
      /\ \A i \in 1..Len(a) : c[i] = a[i]
      /\ \A i \in 1..Len(b) : c[Len(a) + i] = b[i]
  OBVIOUS
<1> HIDE DEF c
<1>2. /\ IsFiniteSet(Pos(a, F)) /\ IsFiniteSet(P)
      /\ Count(a, F) \in Nat /\ Count(b, F) \in Nat
  BY PosFinite
<1>3. P \in SUBSET Nat
  BY <1>1 DEF Pos
<1> HIDE DEF P
<1>4. IsFiniteSet(Q) /\ Cardinality(Q) = Cardinality(P)
  BY <1>1, <1>2, <1>3, ShiftedCardinality
<1>5. Pos(a, F) \cap Q = {}
  BY <1>1 DEF Pos, P
<1>6. Pos(c, F) \subseteq Pos(a, F) \cup Q
  <2> SUFFICES ASSUME NEW i \in 1..(Len(a) + Len(b)), c[i] \in F, i \notin Pos(a, F)
               PROVE  i \in Q
    BY <1>1 DEF Pos
  <2>1. i \notin 1..Len(a)
    BY <1>1 DEF Pos
  <2>2. PICK j \in 1..Len(b) : i = Len(a) + j
    <3>1. i - Len(a) \in 1..Len(b) /\ i = Len(a) + (i - Len(a))
      BY <1>1, <2>1
    <3> QED
      BY <3>1
  <2> QED
    BY <1>1, <2>2 DEF P, Pos
<1>7. Pos(a, F) \subseteq Pos(c, F)
  BY <1>1 DEF Pos
<1>8. Q \subseteq Pos(c, F)
  <2> SUFFICES ASSUME NEW j \in P PROVE Len(a) + j \in Pos(c, F)
    OBVIOUS
  <2>1. j \in 1..Len(b) /\ b[j] \in F
    BY <1>1 DEF P, Pos
  <2>2. Len(a) + j \in 1..(Len(a) + Len(b))
    BY <1>1, <2>1
  <2> QED
    BY <1>1, <2>1, <2>2 DEF Pos
<1>9. Pos(c, F) = Pos(a, F) \cup Q
  BY <1>6, <1>7, <1>8
<1> HIDE DEF Q
<1>10. Cardinality(Pos(a, F) \cap Q) = 0
  BY <1>5, FS_EmptySet, Zenon
<1>11. Cardinality(Pos(a, F) \cup Q) = Cardinality(Pos(a, F)) + Cardinality(Q) - 0
  BY <1>2, <1>4, <1>10, FS_Union
<1>12. Count(c, F) = Cardinality(Pos(a, F) \cup Q)
  BY <1>9, Zenon DEF Count
<1>13. Cardinality(Q) = Count(b, F) /\ Cardinality(Pos(a, F)) = Count(a, F)
  BY <1>4 DEF Count, P
<1> QED
  BY <1>1, <1>2, <1>11, <1>12, <1>13 DEF c

LEMMA SingleCount ==
  ASSUME NEW S, NEW x \in S, NEW F
  PROVE  <<x>> \in Seq(S) /\ Count(<<x>>, F) = One(x, F)
<1>1. <<x>> \in Seq(S) /\ DOMAIN <<x>> = {1} /\ <<x>>[1] = x
  OBVIOUS
<1>2. CASE x \in F
  <2>1. Pos(<<x>>, F) = {1}
    BY <1>1, <1>2 DEF Pos
  <2> QED
    BY <1>1, <1>2, <2>1, FS_Singleton DEF Count, One
<1>3. CASE x \notin F
  <2>1. Pos(<<x>>, F) = {}
    BY <1>1, <1>3 DEF Pos
  <2> QED
    BY <1>1, <1>3, <2>1, FS_EmptySet DEF Count, One
<1> QED
  BY <1>2, <1>3

LEMMA PushCount ==
  ASSUME NEW S, NEW s \in Seq(S), NEW x \in S, NEW F
  PROVE  <<x>> \o s \in Seq(S) /\ Count(<<x>> \o s, F) = Count(s, F) + One(x, F)
<1>1. <<x>> \in Seq(S) /\ Count(<<x>>, F) = One(x, F)
  BY SingleCount
<1> DEFINE y == <<x>>
<1>t. y \in Seq(S)
  BY <1>1
<1> HIDE DEF y
<1>c. y \o s \in Seq(S) /\ Count(y \o s, F) = Count(y, F) + Count(s, F)
  BY <1>t, ConcatCount
<1>2. <<x>> \o s \in Seq(S) /\ Count(<<x>> \o s, F) = Count(<<x>>, F) + Count(s, F)
  BY <1>c DEF y
<1>3. Count(s, F) \in Nat /\ One(x, F) \in Nat
  BY PosFinite DEF One
<1> QED
  BY <1>1, <1>2, <1>3

LEMMA AppendCount ==
  ASSUME NEW S, NEW s \in Seq(S), NEW x \in S, NEW F
  PROVE  Append(s, x) \in Seq(S) /\ Count(Append(s, x), F) = Count(s, F) + One(x, F)
<1>1. <<x>> \in Seq(S) /\ Count(<<x>>, F) = One(x, F)
  BY SingleCount
<1> DEFINE y == <<x>>
<1>t. y \in Seq(S)
  BY <1>1
<1> HIDE DEF y
<1>c. s \o y \in Seq(S) /\ Count(s \o y, F) = Count(s, F) + Count(y, F)
  BY <1>t, ConcatCount
<1>2. s \o <<x>> \in Seq(S) /\ Count(s \o <<x>>, F) = Count(s, F) + Count(<<x>>, F)
  BY <1>c DEF y
<1>3. Append(s, x) = s \o <<x>>
  OBVIOUS
<1> QED
  BY <1>1, <1>2, <1>3

LEMMA PopCount ==
  ASSUME NEW S, NEW s \in Seq(S), s # <<>>
  PROVE  /\ Head(s) \in S /\ Tail(s) \in Seq(S)
         /\ \A F : Count(s, F) = Count(Tail(s), F) + One(Head(s), F)
<1>1. Head(s) \in S /\ Tail(s) \in Seq(S) /\ s = <<Head(s)>> \o Tail(s)
  OBVIOUS
<1>2. \A F : Count(<<Head(s)>> \o Tail(s), F) = Count(Tail(s), F) + One(Head(s), F)
  BY <1>1, PushCount
<1> QED
  BY <1>1, <1>2, Zenon

LEMMA RemoveCount ==
  ASSUME NEW S, NEW s \in Seq(S), NEW k \in DOMAIN s
  PROVE  /\ s[k] \in S /\ RemoveAt(s, k) \in Seq(S)
         /\ \A F : Count(RemoveAt(s, k), F) = Count(s, F) - One(s[k], F)
<1> DEFINE l == SubSeq(s, 1, k - 1)
           r == SubSeq(s, k + 1, Len(s))
           m == l \o <<s[k]>>
<1>1. Len(s) \in Nat /\ k \in 1..Len(s) /\ s[k] \in S
  OBVIOUS
<1>2. l \in Seq(S) /\ r \in Seq(S)
  OBVIOUS
<1>3. s = m \o r
  <2>1. /\ Len(l) = k - 1 /\ \A i \in 1..(k - 1) : l[i] = s[i]
        /\ Len(r) = Len(s) - k /\ \A i \in 1..(Len(s) - k) : r[i] = s[k + i]
    BY <1>1
  <2> HIDE DEF l, r
  <2>2. /\ m \in Seq(S) /\ Len(m) = k /\ m[k] = s[k]
        /\ \A i \in 1..(k - 1) : m[i] = s[i]
    BY <1>1, <1>2, <2>1
  <2> HIDE DEF m
  <2>3. /\ m \o r \in Seq(S) /\ Len(m \o r) = Len(s)
        /\ \A i \in 1..Len(s) : (m \o r)[i] = IF i <= k THEN m[i] ELSE r[i - k]
    BY <1>1, <1>2, <2>1, <2>2
  <2>4. \A i \in 1..Len(s) : (m \o r)[i] = s[i]
    <3> SUFFICES ASSUME NEW i \in 1..Len(s) PROVE (m \o r)[i] = s[i]
      OBVIOUS
    <3>1. CASE i < k
      BY <1>1, <2>2, <2>3, <3>1, SMTT(30)
    <3>2. CASE i = k
      BY <1>1, <2>2, <2>3, <3>2, SMTT(30)
    <3>3. CASE i > k
      <4>1. PICK j \in 1..(Len(s) - k) : j = i - k /\ k + j = i
        BY <1>1, <3>3
      <4> QED
        BY <1>1, <2>1, <2>3, <3>3, <4>1, SMTT(30)
    <3>4. i < k \/ i = k \/ i > k
      BY <1>1, SMTT(30)
    <3> QED
      BY <3>1, <3>2, <3>3, <3>4
  <2>5. m \o r \in Seq(S) /\ s \in Seq(S) /\ Len(m \o r) = Len(s)
    BY <2>3
  <2> DEFINE w == m \o r
  <2> HIDE DEF w
  <2>6. w \in Seq(S) /\ Len(w) = Len(s) /\ \A i \in 1..Len(w) : w[i] = s[i]
    BY <2>4, <2>5 DEF w
  <2>7. w = s
    BY <2>6, SeqEqual
  <2> QED
    BY <2>7 DEF w
<1> HIDE DEF l, r
<1>4. RemoveAt(s, k) = l \o r
  BY DEF RemoveAt, l, r
<1>5. SUFFICES ASSUME NEW F PROVE Count(RemoveAt(s, k), F) = Count(s, F) - One(s[k], F)
  BY <1>1, <1>2, <1>4, ConcatProperties
<1>6. m \in Seq(S) /\ Count(m, F) = Count(l, F) + One(s[k], F)
  <2>1. m = Append(l, s[k])
    BY <1>2
  <2> QED
    BY <1>1, <1>2, <2>1, AppendCount, ZenonT(30)
<1> HIDE DEF m
<1>7. Count(m \o r, F) = Count(m, F) + Count(r, F)
  BY <1>2, <1>6, ConcatCount
<1>8. Count(l \o r, F) = Count(l, F) + Count(r, F)
  BY <1>2, ConcatCount
<1>9. Count(l, F) \in Nat /\ Count(r, F) \in Nat /\ One(s[k], F) \in Nat
  BY <1>2, PosFinite DEF One
<1>10. Count(s, F) = Count(m \o r, F)
  BY <1>3, Zenon
<1>11. Count(RemoveAt(s, k), F) = Count(l \o r, F)
  BY <1>4, Zenon
<1> QED
  BY <1>6, <1>7, <1>8, <1>9, <1>10, <1>11

(* Induction over the naturals, with a set in the place of a predicate.    *)
LEMMA LeastNatural ==
  ASSUME NEW N, N \subseteq Nat, N # {}
  PROVE  \E i \in N : \A j \in N : i <= j
<1>1. PICK i \in N : \A j \in N : <<j, i>> \notin OpToRel(<, Nat)
  BY WFMin, NatLessThanWellFounded, Zenon
<1>2. \A j \in N : ~(j < i)
  <2> SUFFICES ASSUME NEW j \in N, j < i PROVE FALSE
    OBVIOUS
  <2>1. j \in Nat /\ i \in Nat
    OBVIOUS
  <2> QED
    BY <1>1, <2>1, Zenon DEF OpToRel
<1> QED
  BY <1>2

LEMMA SetInduction ==
  ASSUME NEW N, 0 \in N, \A n \in N \cap Nat : n + 1 \in N
  PROVE  Nat \subseteq N
<1> SUFFICES ASSUME Nat \ N # {} PROVE FALSE
  OBVIOUS
<1>1. PICK i \in Nat \ N : \A j \in Nat \ N : i <= j
  BY LeastNatural
<1>2. i # 0 /\ i - 1 \in Nat
  BY <1>1
<1>3. i - 1 \in N
  BY <1>1, <1>2
<1>4. (i - 1) + 1 \in N
  BY <1>2, <1>3
<1> QED
  BY <1>1, <1>4

(* What net_AbortWaitingURL leaves: the URLs of s that are not in D, each  *)
(* as often as before.  Its pass is a function defined by recursion; that  *)
(* there is such a function, and what it is, is shown by induction.        *)
Sift(s, D, f, n) ==
  IF n = 0 THEN <<>> ELSE IF s[n] \in D THEN f[n - 1] ELSE Append(f[n - 1], s[n])

LEMMA SiftExists ==
  ASSUME NEW S, NEW s \in Seq(S), NEW D
  PROVE  \E f : f = [n \in 0..Len(s) |-> Sift(s, D, f, n)]
<1> DEFINE N == {m \in Nat : \E f : f = [n \in 0..m |-> Sift(s, D, f, n)]}
<1>1. 0 \in N
  <2> DEFINE f == [n \in 0..0 |-> <<>>]
  <2>1. f = [n \in 0..0 |-> Sift(s, D, f, n)]
    BY DEF Sift
  <2> QED
    BY <2>1
<1>2. ASSUME NEW m \in Nat, m \in N PROVE m + 1 \in N
  <2>1. PICK f : f = [n \in 0..m |-> Sift(s, D, f, n)]
    BY <1>2
  <2> DEFINE g == [n \in 0..(m + 1) |-> IF n <= m THEN f[n] ELSE Sift(s, D, f, n)]
  <2>2. \A n \in 0..m : g[n] = f[n] /\ f[n] = Sift(s, D, f, n)
    <3>1. \A n \in 0..m : f[n] = Sift(s, D, f, n)
      BY <2>1, Zenon
    <3>2. \A n \in 0..m : n \in 0..(m + 1) /\ n <= m
      OBVIOUS
    <3>3. \A n \in 0..m : g[n] = f[n]
      BY <3>2
    <3> QED
      BY <3>1, <3>3
  <2>3. \A n \in 0..(m + 1) : n # 0 => n - 1 \in 0..m
    OBVIOUS
  <2>4. \A n \in 0..(m + 1) : Sift(s, D, g, n) = Sift(s, D, f, n)
    <3> HIDE DEF g
    <3> QED
      BY <2>2, <2>3 DEF Sift
  <2>5. \A n \in 0..(m + 1) : g[n] = Sift(s, D, f, n)
    <3> SUFFICES ASSUME NEW n \in 0..(m + 1) PROVE g[n] = Sift(s, D, f, n)
      OBVIOUS
    <3>1. CASE n <= m
      <4>1. n \in 0..m
        BY <3>1
      <4> QED
        BY <2>2, <4>1, Zenon
    <3>2. CASE ~(n <= m)
      BY <3>2
    <3> QED
      BY <3>1, <3>2
  <2>6. g = [n \in 0..(m + 1) |-> Sift(s, D, g, n)]
    <3>1. g = [n \in 0..(m + 1) |-> g[n]]
      OBVIOUS
    <3> HIDE DEF g
    <3> QED
      BY <2>4, <2>5, <3>1
  <2> HIDE DEF g
  <2>7. m + 1 \in Nat
    OBVIOUS
  <2> QED
    BY <2>6, <2>7
<1>3. Nat \subseteq N
  <2> HIDE DEF N
  <2> QED
    BY <1>1, <1>2, SetInduction
<1>4. Len(s) \in Nat
  OBVIOUS
<1> QED
  BY <1>3, <1>4

LEMMA WithoutCount ==
  ASSUME NEW S, NEW s \in Seq(S), NEW D
  PROVE  /\ Without(s, D) \in Seq(S)
         /\ \A F : Count(Without(s, D), F) = Count(s, F \ D)
<1> DEFINE f == CHOOSE f : f = [n \in 0..Len(s) |-> Sift(s, D, f, n)]
<1>1. f = [n \in 0..Len(s) |-> Sift(s, D, f, n)]
  BY SiftExists, Zenon
<1>2. Without(s, D) = f[Len(s)]
  BY DEF Without, Sift
<1> HIDE DEF f
<1>3. /\ Len(s) \in Nat /\ DOMAIN s = 1..Len(s) /\ \A i \in 1..Len(s) : s[i] \in S
      /\ f[0] = <<>>
      /\ \A n \in 1..Len(s) : f[n] = IF s[n] \in D THEN f[n - 1] ELSE Append(f[n - 1], s[n])
  <2>1. \A n \in 0..Len(s) : f[n] = Sift(s, D, f, n)
    BY <1>1, Zenon
  <2>2. Len(s) \in Nat /\ DOMAIN s = 1..Len(s) /\ \A i \in 1..Len(s) : s[i] \in S
    OBVIOUS
  <2>3. 0 \in 0..Len(s) /\ \A n \in 1..Len(s) : n \in 0..Len(s) /\ n # 0
    BY <2>2
  <2> QED
    BY <2>1, <2>2, <2>3 DEF Sift
<1> DEFINE Upto(n, F) == {i \in 1..n : s[i] \in F \ D}
           N == {n \in Nat : n <= Len(s) =>
                   /\ f[n] \in Seq(S)
                   /\ \A F : IsFiniteSet(Upto(n, F)) /\ Count(f[n], F) = Cardinality(Upto(n, F))}
<1>4. 0 \in N
  <2>1. ASSUME NEW F PROVE Upto(0, F) = {} /\ Pos(<<>>, F) = {}
    BY DEF Pos
  <2>2. <<>> \in Seq(S)
    OBVIOUS
  <2> QED
    BY <1>3, <2>1, <2>2, FS_EmptySet DEF Count
<1>5. ASSUME NEW n \in Nat, n \in N PROVE n + 1 \in N
  <2> DEFINE m == n + 1
  <2> SUFFICES ASSUME m <= Len(s)
               PROVE  /\ f[m] \in Seq(S)
                      /\ \A F : IsFiniteSet(Upto(m, F)) /\ Count(f[m], F) = Cardinality(Upto(m, F))
    <3>1. m \in Nat
      OBVIOUS
    <3> HIDE DEF Upto
    <3> QED
      BY <3>1
  <2>1. n <= Len(s) /\ m \in 1..Len(s) /\ m - 1 = n /\ m \in Nat
    BY <1>3
  <2>2. /\ f[n] \in Seq(S)
        /\ \A F : IsFiniteSet(Upto(n, F)) /\ Count(f[n], F) = Cardinality(Upto(n, F))
    BY <1>5, <2>1
  <2>3. s[m] \in S /\ f[m] = IF s[m] \in D THEN f[n] ELSE Append(f[n], s[m])
    BY <1>3, <2>1
  <2>4. \A F : Upto(m, F) = IF s[m] \in F \ D THEN Upto(n, F) \cup {m} ELSE Upto(n, F)
    BY <2>1
  <2>5. \A F : m \notin Upto(n, F)
    BY <2>1
  <2> HIDE DEF m, Upto
  <2>6. CASE s[m] \in D
    <3>1. f[m] = f[n] /\ \A F : Upto(m, F) = Upto(n, F)
      BY <2>3, <2>4, <2>6
    <3> QED
      BY <2>2, <3>1, Zenon
  <2>7. CASE s[m] \notin D
    <3>1. f[m] = Append(f[n], s[m])
      BY <2>3, <2>7
    <3> DEFINE q == f[n]
               x == s[m]
    <3>2. q \in Seq(S) /\ x \in S
      BY <2>2, <2>3
    <3> HIDE DEF q, x
    <3>3. Append(q, x) \in Seq(S) /\ \A F : Count(Append(q, x), F) = Count(q, F) + One(x, F)
      BY <3>2, AppendCount
    <3>4. ASSUME NEW F
          PROVE  IsFiniteSet(Upto(m, F)) /\ Count(f[m], F) = Cardinality(Upto(m, F))
      <4>1. Count(f[m], F) = Cardinality(Upto(n, F)) + One(s[m], F)
        BY <2>2, <3>1, <3>3 DEF q, x
      <4>2. CASE s[m] \in F
        <5>1. Upto(m, F) = Upto(n, F) \cup {m}
          BY <2>4, <2>7, <4>2
        <5>2. /\ IsFiniteSet(Upto(n, F) \cup {m})
              /\ Cardinality(Upto(n, F) \cup {m}) = Cardinality(Upto(n, F)) + 1
          BY <2>2, <2>5, FS_AddElement
        <5> QED
          BY <4>1, <4>2, <5>1, <5>2 DEF One
      <4>3. CASE s[m] \notin F
        <5>1. Upto(m, F) = Upto(n, F)
          BY <2>4, <4>3
        <5>2. Cardinality(Upto(n, F)) \in Nat
          BY <2>2, FS_CardinalityType
        <5> QED
          BY <2>2, <4>1, <4>3, <5>1, <5>2 DEF One
      <4> QED
        BY <4>2, <4>3
    <3> QED
      BY <3>1, <3>3, <3>4 DEF q, x
  <2> QED
    BY <2>6, <2>7
<1>6. Nat \subseteq N
  <2> HIDE DEF N
  <2> QED
    BY <1>4, <1>5, SetInduction
<1>7. /\ f[Len(s)] \in Seq(S)
      /\ \A F : Count(f[Len(s)], F) = Cardinality(Upto(Len(s), F))
  <2>1. Len(s) \in N
    <3> HIDE DEF N
    <3> QED
      BY <1>3, <1>6
  <2> HIDE DEF Upto
  <2> QED
    BY <1>3, <2>1
<1>8. \A F : Upto(Len(s), F) = Pos(s, F \ D)
  BY <1>3 DEF Pos
<1> HIDE DEF Upto
<1>9. ASSUME NEW F PROVE Count(Without(s, D), F) = Count(s, F \ D)
  BY <1>2, <1>7, <1>8, Zenon DEF Count
<1> QED
  BY <1>2, <1>7, <1>9

--------------------------------------------------------------------------------
(* What a step does to the numbers in IInv.                                *)

Bit(b) == IF b THEN 1 ELSE 0

LEMMA FramesType == Frames = Seq(Frame)
  BY DEF Frames, Frame, Ops

LEMMA CountsNat ==
  ASSUME Typed
  PROVE  /\ Uncounters \in Nat /\ Lookers \in Nat
         /\ \A u : InQueue(u) \in Nat /\ Starters(u) \in Nat /\ Handlers(u) \in Nat
<1>1. stack \in Seq(Frame) /\ waiting \in Seq(URL)
  BY FramesType DEF Typed
<1>2. \A F : Count(stack, F) \in Nat /\ Count(waiting, F) \in Nat
  BY <1>1, PosFinite
<1> QED
  BY <1>2 DEF Uncounters, Lookers, InQueue, Starters, Handlers

(* A call changes the numbers by what it is.                               *)
LEMMA KindCounts ==
  ASSUME NEW f \in Frame
  PROVE  /\ One(f, {g \in Frame : Uncounting(g)}) = Bit(Uncounting(f))
         /\ One(f, {g \in Frame : Looking(g)}) = Bit(Looking(f))
         /\ \A u : /\ One(f, {g \in Frame : Starting(g, u)}) = Bit(Starting(f, u))
                   /\ One(f, {g \in Frame : Handling(g, u)}) = Bit(Handling(f, u))
  BY DEF One, Bit

LEMMA CallType == \A u \in URL : \A op \in Ops : CallOn(op, u) \in Frame
  BY DEF CallOn, Frame

LEMMA CheckKind ==
  ASSUME NEW u \in URL
  PROVE  /\ Check(u) \in Frame /\ Bit(Uncounting(Check(u))) = 1 /\ Bit(Looking(Check(u))) = 1
         /\ \A v : Bit(Starting(Check(u), v)) = 0 /\ Bit(Handling(Check(u), v)) = 0
  BY DEF Check, CallOn, Frame, Ops, Uncounting, Looking, Starting, Handling, Bit

LEMMA StartKind ==
  ASSUME NEW f, f.op = "start"
  PROVE  /\ Bit(Uncounting(f)) = 0 /\ Bit(Looking(f)) = 0
         /\ \A v : Bit(Starting(f, v)) = Bit(f.url = v) /\ Bit(Handling(f, v)) = 0
  BY DEF Uncounting, Looking, Starting, Handling, Bit

LEMMA HandlerKind ==
  ASSUME NEW f, f.op \in {"init", "redo", "process"}
  PROVE  /\ Bit(Uncounting(f)) = 0 /\ Bit(Looking(f)) = 0
         /\ \A v : /\ Bit(Starting(f, v)) = 0
                   /\ f.url # v \/ f.op = "redo" => Bit(Handling(f, v)) = 0
                   /\ f.url = v /\ f.op # "redo" => Bit(Handling(f, v)) = 1
  BY DEF Uncounting, Looking, Starting, Handling, Bit

LEMMA CallBegins ==
  ASSUME Typed, NEW f \in Frame, stack' = <<f>> \o stack
  PROVE  /\ stack' \in Frames
         /\ Uncounters' = Uncounters + Bit(Uncounting(f))
         /\ Lookers' = Lookers + Bit(Looking(f))
         /\ \A u : /\ Starters(u)' = Starters(u) + Bit(Starting(f, u))
                   /\ Handlers(u)' = Handlers(u) + Bit(Handling(f, u))
<1>1. stack \in Seq(Frame)
  BY FramesType DEF Typed
<1>2. stack' \in Seq(Frame) /\ \A F : Count(stack', F) = Count(stack, F) + One(f, F)
  BY <1>1, PushCount
<1> QED
  BY <1>2, KindCounts, FramesType DEF Uncounters, Lookers, Starters, Handlers

LEMMA CallReturns ==
  ASSUME Typed, stack # <<>>, stack' = Return
  PROVE  /\ stack' \in Frames /\ Head(stack) \in Frame
         /\ Uncounters' = Uncounters - Bit(Uncounting(Head(stack)))
         /\ Lookers' = Lookers - Bit(Looking(Head(stack)))
         /\ \A u : /\ Starters(u)' = Starters(u) - Bit(Starting(Head(stack), u))
                   /\ Handlers(u)' = Handlers(u) - Bit(Handling(Head(stack), u))
<1>1. stack \in Seq(Frame)
  BY FramesType DEF Typed
<1> DEFINE g == Head(stack)
<1>2. /\ g \in Frame /\ stack' \in Seq(Frame)
      /\ \A F : Count(stack, F) = Count(stack', F) + One(g, F)
  BY <1>1, PopCount DEF Return
<1>3. \A F : Count(stack', F) \in Nat
  BY <1>2, PosFinite
<1> HIDE DEF g
<1>4. \A F : Count(stack', F) = Count(stack, F) - One(g, F)
  BY <1>2, <1>3 DEF One
<1>5. /\ Uncounters' = Uncounters - Bit(Uncounting(g))
      /\ Lookers' = Lookers - Bit(Looking(g))
      /\ \A u : /\ Starters(u)' = Starters(u) - Bit(Starting(g, u))
                /\ Handlers(u)' = Handlers(u) - Bit(Handling(g, u))
  BY <1>2, <1>4, KindCounts DEF Uncounters, Lookers, Starters, Handlers
<1> QED
  BY <1>2, <1>5, FramesType DEF g

LEMMA CallReplaced ==
  ASSUME Typed, stack # <<>>, NEW f \in Frame, stack' = Top(f)
  PROVE  /\ stack' \in Frames /\ Head(stack) \in Frame
         /\ Uncounters' = Uncounters - Bit(Uncounting(Head(stack))) + Bit(Uncounting(f))
         /\ Lookers' = Lookers - Bit(Looking(Head(stack))) + Bit(Looking(f))
         /\ \A u : /\ Starters(u)' = Starters(u) - Bit(Starting(Head(stack), u))
                                     + Bit(Starting(f, u))
                   /\ Handlers(u)' = Handlers(u) - Bit(Handling(Head(stack), u))
                                     + Bit(Handling(f, u))
<1>1. stack \in Seq(Frame)
  BY FramesType DEF Typed
<1> DEFINE g == Head(stack)
           s == Tail(stack)
<1>2. /\ g \in Frame /\ s \in Seq(Frame)
      /\ \A F : Count(stack, F) = Count(s, F) + One(g, F)
  BY <1>1, PopCount
<1>3. stack' = <<f>> \o s
  BY DEF Top, Return
<1> HIDE DEF g, s
<1>4. stack' \in Seq(Frame) /\ \A F : Count(stack', F) = Count(s, F) + One(f, F)
  BY <1>2, <1>3, PushCount
<1>5. \A F : Count(s, F) \in Nat
  BY <1>2, PosFinite
<1>6. \A F : Count(stack', F) = Count(stack, F) - One(g, F) + One(f, F)
  BY <1>2, <1>4, <1>5 DEF One
<1>7. /\ Uncounters' = Uncounters - Bit(Uncounting(g)) + Bit(Uncounting(f))
      /\ Lookers' = Lookers - Bit(Looking(g)) + Bit(Looking(f))
      /\ \A u : /\ Starters(u)' = Starters(u) - Bit(Starting(g, u)) + Bit(Starting(f, u))
                /\ Handlers(u)' = Handlers(u) - Bit(Handling(g, u)) + Bit(Handling(f, u))
  BY <1>2, <1>6, KindCounts DEF Uncounters, Lookers, Starters, Handlers
<1> QED
  BY <1>2, <1>4, <1>7, FramesType DEF g

LEMMA CallReplacedByTwo ==
  ASSUME Typed, stack # <<>>, NEW f \in Frame, NEW h \in Frame,
         stack' = <<f>> \o (<<h>> \o Return)
  PROVE  /\ stack' \in Frames /\ Head(stack) \in Frame
         /\ Uncounters' = Uncounters - Bit(Uncounting(Head(stack)))
                          + Bit(Uncounting(f)) + Bit(Uncounting(h))
         /\ Lookers' = Lookers - Bit(Looking(Head(stack))) + Bit(Looking(f)) + Bit(Looking(h))
         /\ \A u : /\ Starters(u)' = Starters(u) - Bit(Starting(Head(stack), u))
                                     + Bit(Starting(f, u)) + Bit(Starting(h, u))
                   /\ Handlers(u)' = Handlers(u) - Bit(Handling(Head(stack), u))
                                     + Bit(Handling(f, u)) + Bit(Handling(h, u))
<1>1. stack \in Seq(Frame)
  BY FramesType DEF Typed
<1> DEFINE g == Head(stack)
           s == Tail(stack)
           r == <<h>> \o s
<1>2. /\ g \in Frame /\ s \in Seq(Frame)
      /\ \A F : Count(stack, F) = Count(s, F) + One(g, F)
  BY <1>1, PopCount
<1> HIDE DEF s
<1>3. r \in Seq(Frame) /\ \A F : Count(r, F) = Count(s, F) + One(h, F)
  BY <1>2, PushCount
<1>4. stack' = <<f>> \o r
  BY DEF Return, s
<1> HIDE DEF g, r
<1>5. stack' \in Seq(Frame) /\ \A F : Count(stack', F) = Count(r, F) + One(f, F)
  <2>1. r \in Seq(Frame)
    BY <1>3
  <2>2. <<f>> \o r \in Seq(Frame) /\ \A F : Count(<<f>> \o r, F) = Count(r, F) + One(f, F)
    BY <2>1, PushCount
  <2> QED
    BY <1>4, <2>2, Zenon
<1>6. \A F : Count(s, F) \in Nat
  BY <1>2, PosFinite
<1>7. \A F : Count(stack', F) = Count(stack, F) - One(g, F) + One(f, F) + One(h, F)
  <2> SUFFICES ASSUME NEW F
               PROVE  Count(stack', F) = Count(stack, F) - One(g, F) + One(f, F) + One(h, F)
    OBVIOUS
  <2>1. /\ Count(stack, F) = Count(s, F) + One(g, F) /\ Count(r, F) = Count(s, F) + One(h, F)
        /\ Count(stack', F) = Count(r, F) + One(f, F) /\ Count(s, F) \in Nat
    BY <1>2, <1>3, <1>5, <1>6
  <2>2. One(f, F) \in {0, 1} /\ One(g, F) \in {0, 1} /\ One(h, F) \in {0, 1}
    BY DEF One
  <2>3. Count(stack, F) - One(g, F) = Count(s, F)
    BY <2>1, <2>2
  <2>4. Count(r, F) + One(f, F) = Count(s, F) + One(f, F) + One(h, F)
    BY <2>1, <2>2
  <2> QED
    BY <2>1, <2>3, <2>4
<1>8. /\ Uncounters' = Uncounters - Bit(Uncounting(g)) + Bit(Uncounting(f)) + Bit(Uncounting(h))
      /\ Lookers' = Lookers - Bit(Looking(g)) + Bit(Looking(f)) + Bit(Looking(h))
  <2>1. /\ One(g, {x \in Frame : Uncounting(x)}) = Bit(Uncounting(g))
        /\ One(f, {x \in Frame : Uncounting(x)}) = Bit(Uncounting(f))
        /\ One(h, {x \in Frame : Uncounting(x)}) = Bit(Uncounting(h))
        /\ One(g, {x \in Frame : Looking(x)}) = Bit(Looking(g))
        /\ One(f, {x \in Frame : Looking(x)}) = Bit(Looking(f))
        /\ One(h, {x \in Frame : Looking(x)}) = Bit(Looking(h))
    BY <1>2, KindCounts
  <2> QED
    BY <1>7, <2>1 DEF Uncounters, Lookers
<1>9. ASSUME NEW u
      PROVE  /\ Starters(u)' = Starters(u) - Bit(Starting(g, u))
                                + Bit(Starting(f, u)) + Bit(Starting(h, u))
              /\ Handlers(u)' = Handlers(u) - Bit(Handling(g, u))
                                + Bit(Handling(f, u)) + Bit(Handling(h, u))
  <2>1. /\ One(g, {x \in Frame : Starting(x, u)}) = Bit(Starting(g, u))
        /\ One(f, {x \in Frame : Starting(x, u)}) = Bit(Starting(f, u))
        /\ One(h, {x \in Frame : Starting(x, u)}) = Bit(Starting(h, u))
        /\ One(g, {x \in Frame : Handling(x, u)}) = Bit(Handling(g, u))
        /\ One(f, {x \in Frame : Handling(x, u)}) = Bit(Handling(f, u))
        /\ One(h, {x \in Frame : Handling(x, u)}) = Bit(Handling(h, u))
    BY <1>2, KindCounts
  <2> QED
    BY <1>7, <2>1 DEF Starters, Handlers
<1> QED
  BY <1>2, <1>5, <1>8, <1>9, FramesType DEF g

LEMMA TwoCalls ==
  ASSUME NEW S, NEW f \in S, NEW h \in S, NEW s \in Seq(S)
  PROVE  <<f, h>> \o s = <<f>> \o (<<h>> \o s)
<1>2. <<f>> \in Seq(S) /\ <<h>> \in Seq(S)
  OBVIOUS
<1>1. <<f, h>> = <<f>> \o <<h>>
  <2>1. /\ Len(<<f, h>>) = 2 /\ <<f, h>>[1] = f /\ <<f, h>>[2] = h /\ <<f, h>> \in Seq(S)
        /\ Len(<<f>>) = 1 /\ Len(<<h>>) = 1 /\ <<f>>[1] = f /\ <<h>>[1] = h
    OBVIOUS
  <2> DEFINE p == <<f, h>>
             q == <<f>>
             r == <<h>>
  <2> HIDE DEF p, q, r
  <2>2. q \in Seq(S) /\ r \in Seq(S) /\ p \in Seq(S)
    BY <1>2, <2>1 DEF p, q, r
  <2>3. /\ q \o r \in Seq(S) /\ Len(q \o r) = Len(q) + Len(r)
        /\ \A i \in 1..(Len(q) + Len(r)) : (q \o r)[i] = IF i <= Len(q) THEN q[i] ELSE r[i - Len(q)]
    BY <2>2, ConcatProperties
  <2>4. Len(q) = 1 /\ Len(r) = 1 /\ Len(p) = 2 /\ q[1] = p[1] /\ r[1] = p[2]
    BY <2>1 DEF p, q, r
  <2>5. Len(q \o r) = Len(p) /\ \A i \in 1..Len(p) : p[i] = (q \o r)[i]
    <3>1. (q \o r)[1] = q[1] /\ (q \o r)[2] = r[1]
      BY <2>3, <2>4
    <3> QED
      BY <2>3, <2>4, <3>1
  <2>6. p = q \o r
    BY <2>2, <2>3, <2>5, SeqEqual
  <2> QED
    BY <2>6 DEF p, q, r
<1> QED
  BY <1>1, <1>2, ConcatAssociative

LEMMA StackKept ==
  ASSUME UNCHANGED stack
  PROVE  /\ Uncounters' = Uncounters /\ Lookers' = Lookers
         /\ \A u : Starters(u)' = Starters(u) /\ Handlers(u)' = Handlers(u)
  BY DEF Uncounters, Lookers, Starters, Handlers

(* The queue.                                                              *)
LEMMA QueueKept == ASSUME UNCHANGED waiting PROVE \A u : InQueue(u)' = InQueue(u)
  BY DEF InQueue

LEMMA QueuePushed ==
  ASSUME Typed, NEW u \in URL, waiting' = Pushed(u)
  PROVE  waiting' \in Seq(URL) /\ \A v : InQueue(v)' = InQueue(v) + Bit(v = u)
<1>1. waiting \in Seq(URL)
  BY DEF Typed
<1>2. waiting' \in Seq(URL) /\ \A F : Count(waiting', F) = Count(waiting, F) + One(u, F)
  <2>1. CASE u \in Image
    <3>1. waiting' = Append(waiting, u)
      BY <2>1 DEF Pushed
    <3> QED
      BY <1>1, <3>1, AppendCount
  <2>2. CASE u \notin Image
    <3>1. waiting' = <<u>> \o waiting
      BY <2>2 DEF Pushed
    <3> QED
      BY <1>1, <3>1, PushCount
  <2> QED
    BY <2>1, <2>2
<1> QED
  BY <1>2 DEF InQueue, One, Bit

LEMMA QueueMembers ==
  ASSUME Typed
  PROVE  /\ ToSet(waiting) \subseteq URL
         /\ \A u : u \in ToSet(waiting) <=> InQueue(u) > 0
<1>1. waiting \in Seq(URL) /\ DOMAIN waiting = 1..Len(waiting)
  BY DEF Typed
<1>2. \A u : /\ Count(waiting, {u}) \in Nat
             /\ Count(waiting, {u}) = 0 <=> \A i \in DOMAIN waiting : waiting[i] \notin {u}
  BY <1>1, PosFinite
<1>3. ToSet(waiting) \subseteq URL
  BY <1>1 DEF ToSet
<1>4. ASSUME NEW u PROVE u \in ToSet(waiting) <=> InQueue(u) > 0
  <2>1. u \in ToSet(waiting) <=> \E i \in DOMAIN waiting : waiting[i] = u
    BY <1>1 DEF ToSet
  <2>2. Count(waiting, {u}) = 0 <=> \A i \in DOMAIN waiting : waiting[i] # u
    BY <1>2
  <2>3. Count(waiting, {u}) \in Nat
    BY <1>2
  <2> QED
    BY <2>1, <2>2, <2>3 DEF InQueue
<1> QED
  BY <1>3, <1>4

(* The URL that net_CheckForWaitingURL releases is one it may release.     *)
LEMMA FirstReleasable ==
  ASSUME Typed, NEW op \in DOMAIN Phase, Running(op), Releasable(op) # {},
         NEW k, k = SelectInSeq(waiting, LAMBDA v : v \in Releasable(op))
  PROVE  k \in DOMAIN waiting /\ waiting[k] \in Releasable(op)
<1> DEFINE I == {i \in 1..Len(waiting) : waiting[i] \in Releasable(op)}
<1>1. waiting \in Seq(URL) /\ DOMAIN waiting = 1..Len(waiting) /\ Len(waiting) \in Nat
  BY DEF Typed
<1>2. Releasable(op) \subseteq ToSet(waiting)
  BY DEF Releasable, Phase
<1>3. I # {}
  <2>1. PICK u : u \in Releasable(op)
    OBVIOUS
  <2>2. PICK i \in DOMAIN waiting : waiting[i] = u
    BY <1>2, <2>1 DEF ToSet
  <2> QED
    BY <1>1, <2>1, <2>2
<1>4. I \subseteq Nat
  BY <1>1
<1>5. k = Min(I)
  BY <1>3 DEF SelectInSeq
<1> HIDE DEF I
<1>6. \E i \in I : \A j \in I : i <= j
  BY <1>3, <1>4, LeastNatural
<1>7. k \in I
  BY <1>5, <1>6, Zenon DEF Min
<1> QED
  BY <1>1, <1>7 DEF I

LEMMA QueueReleased ==
  ASSUME Typed, NEW k \in DOMAIN waiting, waiting' = RemoveAt(waiting, k)
  PROVE  /\ waiting' \in Seq(URL) /\ waiting[k] \in URL /\ InQueue(waiting[k]) > 0
         /\ \A v : InQueue(v)' = InQueue(v) - Bit(v = waiting[k])
<1>1. waiting \in Seq(URL)
  BY DEF Typed
<1>2. /\ waiting[k] \in URL /\ waiting' \in Seq(URL)
      /\ \A F : Count(waiting', F) = Count(waiting, F) - One(waiting[k], F)
  BY <1>1, RemoveCount
<1>3. waiting[k] \in ToSet(waiting)
  BY <1>1 DEF ToSet
<1>4. InQueue(waiting[k]) > 0
  BY <1>3, QueueMembers
<1>5. \A v : InQueue(v)' = InQueue(v) - Bit(v = waiting[k])
  BY <1>2 DEF InQueue, One, Bit
<1> QED
  BY <1>2, <1>4, <1>5

LEMMA QueueAborted ==
  ASSUME Typed, NEW D, waiting' = Without(waiting, D)
  PROVE  /\ waiting' \in Seq(URL)
         /\ \A v : InQueue(v)' = IF v \in D THEN 0 ELSE InQueue(v)
<1>1. waiting \in Seq(URL)
  BY DEF Typed
<1>2. waiting' \in Seq(URL) /\ \A F : Count(waiting', F) = Count(waiting, F \ D)
  BY <1>1, WithoutCount
<1>3. ASSUME NEW v PROVE InQueue(v)' = IF v \in D THEN 0 ELSE InQueue(v)
  <2>1. CASE v \in D
    <3>1. {v} \ D = {}
      BY <2>1
    <3>2. Count(waiting, {}) = 0
      BY <1>1, PosFinite
    <3>3. Count(waiting', {v}) = Count(waiting, {v} \ D)
      BY <1>2
    <3> QED
      BY <2>1, <3>1, <3>2, <3>3, Zenon DEF InQueue
  <2>2. CASE v \notin D
    <3>1. {v} \ D = {v}
      BY <2>2
    <3>2. Count(waiting', {v}) = Count(waiting, {v} \ D)
      BY <1>2
    <3> QED
      BY <2>2, <3>1, <3>2, Zenon DEF InQueue
  <2> QED
    BY <2>1, <2>2
<1> QED
  BY <1>2, <1>3

--------------------------------------------------------------------------------
(* What IInv says of the URL at hand.                                      *)

LEMMA HeadCounts ==
  ASSUME Typed, stack # <<>>
  PROVE  /\ Head(stack) \in Frame
         /\ Uncounters >= Bit(Uncounting(Head(stack)))
         /\ Lookers >= Bit(Looking(Head(stack)))
         /\ \A u : /\ Starters(u) >= Bit(Starting(Head(stack), u))
                   /\ Handlers(u) >= Bit(Handling(Head(stack), u))
<1> DEFINE g == Head(stack)
           s == Tail(stack)
<1>1. stack \in Seq(Frame)
  BY FramesType DEF Typed
<1>2. /\ g \in Frame /\ s \in Seq(Frame)
      /\ \A F : Count(stack, F) = Count(s, F) + One(g, F)
  BY <1>1, PopCount
<1> HIDE DEF g, s
<1>3. \A F : Count(s, F) \in Nat
  BY <1>2, PosFinite
<1>4. \A F : Count(stack, F) >= One(g, F)
  BY <1>2, <1>3 DEF One
<1>5. /\ Uncounters >= Bit(Uncounting(g)) /\ Lookers >= Bit(Looking(g))
      /\ \A u : Starters(u) >= Bit(Starting(g, u)) /\ Handlers(u) >= Bit(Handling(g, u))
  BY <1>2, <1>4, KindCounts DEF Uncounters, Lookers, Starters, Handlers
<1> QED
  BY <1>2, <1>5 DEF g

(* A call that will uncount a URL will look at the queue afterwards.       *)
LEMMA UncountersLook == ASSUME Typed, Uncounters > 0 PROVE Lookers > 0
<1>1. stack \in Seq(Frame)
  BY FramesType DEF Typed
<1>2. \A F : /\ Count(stack, F) \in Nat
             /\ Count(stack, F) = 0 <=> \A i \in DOMAIN stack : stack[i] \notin F
  BY <1>1, PosFinite
<1>3. PICK i \in DOMAIN stack : stack[i] \in {f \in Frame : Uncounting(f)}
  BY <1>2 DEF Uncounters
<1>4. stack[i] \in {f \in Frame : Looking(f)}
  BY <1>3 DEF Uncounting, Looking
<1>5. Lookers \in Nat /\ Lookers # 0
  BY <1>2, <1>4 DEF Lookers
<1> QED
  BY <1>5

LEMMA StartsAlone ==
  ASSUME Sound, NEW u \in URL, Starts(u)
  PROVE  /\ stack # <<>> /\ Head(stack).op = "start" /\ Head(stack).url = u /\ Head(stack) \in Frame
         /\ Starters(u) = 1 /\ InQueue(u) = 0 /\ u \notin active /\ exits[u] = 0
         /\ u \in begun
<1>1. stack # <<>> /\ Head(stack).op = "start" /\ Head(stack).url = u
  BY DEF Starts, Running
<1>2. Head(stack) \in Frame /\ Starters(u) >= 1
  BY <1>1, HeadCounts DEF Sound, Bit, Starting
<1>4. InQueue(u) \in Nat /\ Starters(u) \in Nat /\ exits[u] \in Nat
  BY CountsNat DEF Sound, Parts, Typed
<1>5. InQueue(u) + One(u, active) + Starters(u) + exits[u] = One(u, begun)
  BY DEF Sound, Parts, PlacePart
<1> QED
  BY <1>1, <1>2, <1>4, <1>5 DEF One

LEMMA HandlesAlone ==
  ASSUME Sound, NEW u \in URL, Handles(u)
  PROVE  /\ stack # <<>> /\ Head(stack) \in Frame
         /\ Head(stack).op \in {"init", "redo", "process"} /\ Head(stack).url = u
         /\ Handlers(u) = Bit(Handling(Head(stack), u)) /\ u \in active
         /\ Starters(u) = 0 /\ InQueue(u) = 0 /\ exits[u] = 0 /\ u \in begun
<1>1. /\ stack # <<>> /\ Head(stack).op \in {"init", "redo", "process"}
      /\ Head(stack).url = u
  BY DEF Handles, InHandler, Running
<1>2. Head(stack) \in Frame /\ Handlers(u) >= Bit(Handling(Head(stack), u))
  BY <1>1, HeadCounts DEF Sound
<1>3. /\ InQueue(u) \in Nat /\ Starters(u) \in Nat /\ exits[u] \in Nat
      /\ Handlers(u) \in Nat
  BY CountsNat DEF Sound, Typed
<1>4. Handlers(u) = Bit(Handling(Head(stack), u)) /\ u \in active
  <2>1. CASE Handling(Head(stack), u)
    BY <1>2, <1>3, <2>1 DEF Sound, Parts, EntryPart, Bit
  <2>2. CASE ~Handling(Head(stack), u)
    <3>1. stack \in Seq(Frame) /\ 1 \in DOMAIN stack /\ stack[1] = Head(stack)
      BY <1>1, FramesType DEF Sound, Typed
    <3>2. stack[1].op = "redo" /\ stack[1].url = u
      BY <1>1, <2>2, <3>1 DEF Handling
    <3>3. u \in active /\ \A j \in DOMAIN stack : 1 < j => ~Handling(stack[j], u)
      BY <3>1, <3>2 DEF Sound, Parts, PointPart, Trusted
    <3>4. \A j \in DOMAIN stack : j = 1 \/ 1 < j
      BY <3>1
    <3>5. \A j \in DOMAIN stack : stack[j] \notin {f \in Frame : Handling(f, u)}
      BY <2>2, <3>1, <3>3, <3>4
    <3>6. Handlers(u) = 0
      BY <3>1, <3>5, PosFinite DEF Handlers
    <3> QED
      BY <2>2, <3>3, <3>6 DEF Bit
  <2> QED
    BY <2>1, <2>2
<1>5. InQueue(u) + One(u, active) + Starters(u) + exits[u] = One(u, begun)
  BY DEF Sound, Parts, PlacePart
<1> QED
  BY <1>1, <1>2, <1>3, <1>4, <1>5 DEF One

(* What the calls point to.                                                *)
LEMMA TrustPopped ==
  ASSUME NEW s \in Seq(Frame), s # <<>>, NEW E, Trusted(s, E)
  PROVE  Tail(s) \in Seq(Frame) /\ Trusted(Tail(s), E) /\ Head(s).next \subseteq E
<1> DEFINE t == Tail(s)
<1>1. /\ t \in Seq(Frame) /\ 1 \in DOMAIN s /\ s[1] = Head(s)
      /\ \A i \in DOMAIN t : i \in Nat /\ i + 1 \in DOMAIN s /\ t[i] = s[i + 1]
  OBVIOUS
<1> HIDE DEF t
<1>2. \A i, j \in DOMAIN t : i < j => i + 1 < j + 1
  BY <1>1
<1>3. Trusted(t, E)
  BY <1>1, <1>2 DEF Trusted
<1> QED
  BY <1>1, <1>3 DEF t, Trusted

LEMMA TrustPushed ==
  ASSUME NEW s \in Seq(Frame), NEW E, Trusted(s, E), NEW f \in Frame, f.next \subseteq E,
         f.op = "redo" => /\ f.url \in E
                          /\ \A j \in DOMAIN s : ~Handling(s[j], f.url)
  PROVE  Trusted(<<f>> \o s, E)
<1> DEFINE t == <<f>> \o s
<1>1. /\ t \in Seq(Frame) /\ t[1] = f
      /\ \A i \in DOMAIN t : i \in Nat /\ (i # 1 => i - 1 \in DOMAIN s /\ t[i] = s[i - 1])
  OBVIOUS
<1> HIDE DEF t
<1>2. \A i, j \in DOMAIN t : i < j => j # 1 /\ (i # 1 => i - 1 < j - 1)
  <2>1. \A i \in DOMAIN t : i \in Nat /\ i >= 1
    BY <1>1
  <2> QED
    BY <2>1
<1>3. ASSUME NEW i \in DOMAIN t
      PROVE  /\ t[i].next \subseteq E
             /\ t[i].op = "redo" => /\ t[i].url \in E
                                    /\ \A j \in DOMAIN t : i < j => ~Handling(t[j], t[i].url)
  <2>1. CASE i = 1
    BY <1>1, <1>2, <2>1
  <2>2. CASE i # 1
    BY <1>1, <1>2, <2>2 DEF Trusted
  <2> QED
    BY <2>1, <2>2
<1>4. Trusted(t, E)
  BY <1>3 DEF Trusted
<1> QED
  BY <1>4 DEF t

LEMMA TrustGrows == ASSUME NEW s, NEW E, NEW F, E \subseteq F, Trusted(s, E) PROVE Trusted(s, F)
  BY DEF Trusted

LEMMA TrustShrinks ==
  ASSUME NEW s, NEW E, Trusted(s, E), NEW u, \A i \in DOMAIN s : ~PointsTo(s[i], u)
  PROVE  Trusted(s, E \ {u})
  BY DEF Trusted, PointsTo

(* The calls under the innermost one, whose entry may just have gone.      *)
LEMMA TrustReturn ==
  ASSUME Sound, stack # <<>>
  PROVE  /\ Return \in Seq(Frame) /\ Trusted(Return, active)
         /\ Head(stack).next \subseteq active
  BY FramesType, TrustPopped DEF Sound, Parts, PointPart, Typed, Return

LEMMA TrustGone ==
  ASSUME NEW u, NEW s \in Seq(Frame), Trusted(s, active), Gone(u, s), ~dangling'
  PROVE  Trusted(s, active')
  BY TrustShrinks DEF Gone

LEMMA ActiveFinite ==
  ASSUME Typed
  PROVE  /\ IsFiniteSet(active) /\ Cardinality(active) \in Nat
         /\ Cardinality(active) = 0 <=> active = {}
         /\ Cardinality(connected) \in Nat
         /\ Cardinality(connected) = 0 <=> connected = {}
<1>1. active \in SUBSET URL /\ connected \in SUBSET URL
  BY DEF Typed
<1>2. IsFiniteSet(active) /\ IsFiniteSet(connected)
  BY <1>1, URLAssumption, FS_Subset
<1> QED
  BY <1>2, FS_CardinalityType, FS_EmptySet

LEMMA EntryAdded ==
  ASSUME Typed, NEW u \in URL \ active, active' = active \cup {u}
  PROVE  Cardinality(active') = Cardinality(active) + 1
<1>1. IsFiniteSet(active)
  BY ActiveFinite
<1>2. Cardinality(active \cup {u}) = Cardinality(active) + 1
  BY <1>1, FS_AddElement
<1> QED
  BY <1>2

LEMMA EntryRemoved ==
  ASSUME Typed, NEW u \in active, active' = active \ {u}
  PROVE  Cardinality(active') = Cardinality(active) - 1
<1>1. IsFiniteSet(active)
  BY ActiveFinite
<1>2. Cardinality(active \ {u}) = Cardinality(active) - 1
  BY <1>1, FS_RemoveElement
<1> QED
  BY <1>2

LEMMA InitIInv == Init => IInv
<1> SUFFICES ASSUME Init PROVE IInv
  OBVIOUS
<1>1. /\ count = 0 /\ waiting = <<>> /\ active = {} /\ busy = {} /\ connected = {}
      /\ prefetch = Prefetch /\ cacheOnly = OnlyFromCache /\ stack = <<>> /\ begun = {}
      /\ exits = [u \in URL |-> 0] /\ leaked = 0 /\ stranded = FALSE /\ dangling = FALSE
      /\ faults = 0
  BY DEF Init
<1>2. Typed
  <2>1. <<>> \in Seq(URL) /\ <<>> \in Frames
    BY DEF Frames
  <2>2. Prefetch \subseteq URL /\ OnlyFromCache \subseteq URL /\ 0 \in 0..MaxFaults
    BY URLAssumption, LimitAssumption
  <2>3. waiting \in Seq(URL) /\ stack \in Frames
    BY <1>1, <2>1
  <2>4. exits \in [URL -> Nat]
    BY <1>1
  <2>5. count \in Int /\ leaked \in Nat /\ faults \in 0..MaxFaults
    BY <1>1, <2>2
  <2>6. stranded \in BOOLEAN /\ dangling \in BOOLEAN
    BY <1>1
  <2> QED
    BY <1>1, <2>2, <2>3, <2>4, <2>5, <2>6 DEF Typed
<1>3. \A F : Count(<<>>, F) = 0
  <2>1. \A F : Pos(<<>>, F) = {}
    BY DEF Pos
  <2> QED
    BY <2>1, FS_EmptySet DEF Count
<1>4. /\ Uncounters = 0 /\ Lookers = 0
      /\ \A u : InQueue(u) = 0 /\ Starters(u) = 0 /\ Handlers(u) = 0
  BY <1>1, <1>3 DEF Uncounters, Lookers, InQueue, Starters, Handlers
<1>5. ExactPart
  BY <1>1, <1>4, FS_EmptySet DEF ExactPart
<1>6. PlacePart
  BY <1>1, <1>4 DEF PlacePart, One
<1>7. EntryPart
  BY <1>1, <1>4 DEF EntryPart
<1>8. QueuePart
  BY <1>4 DEF QueuePart
<1>9. PointPart
  BY <1>1 DEF PointPart, Trusted
<1> QED
  BY <1>2, <1>5, <1>6, <1>7, <1>8, <1>9 DEF IInv, Parts

(* A step that concerns one URL leaves the others where they are.          *)
LEMMA PlaceStep ==
  ASSUME PlacePart, NEW u \in URL,
         InQueue(u)' + One(u, active') + Starters(u)' + exits'[u] = One(u, begun'),
         \A v \in URL \ {u} : /\ InQueue(v)' = InQueue(v) /\ Starters(v)' = Starters(v)
                              /\ v \in active' <=> v \in active
                              /\ exits'[v] = exits[v]
                              /\ v \in begun' <=> v \in begun
  PROVE  PlacePart'
<1>1. ASSUME NEW v \in URL \ {u}
      PROVE  InQueue(v)' + One(v, active') + Starters(v)' + exits'[v] = One(v, begun')
  <2>1. One(v, active') = One(v, active) /\ One(v, begun') = One(v, begun)
    BY DEF One
  <2>2. InQueue(v) + One(v, active) + Starters(v) + exits[v] = One(v, begun)
    BY DEF PlacePart
  <2> QED
    BY <2>1, <2>2
<1>2. \A v \in URL : InQueue(v)' + One(v, active') + Starters(v)' + exits'[v] = One(v, begun')
  BY <1>1
<1> QED
  BY <1>2 DEF PlacePart

--------------------------------------------------------------------------------
(* The actions.                                                            *)

(* NET_GetURL.  A URL that is put off leaves somebody to look at the queue:*)
(* what fills the limit is an entry, a call that uncounts, or lost.        *)
LEMMA StartQueuedIInv ==
  ASSUME Sound, NEW u \in URL, StartQueued(u), ~dangling'
  PROVE  Parts'
<1>0. Typed /\ ExactPart /\ PlacePart /\ EntryPart /\ PointPart /\ QueuePart
  BY DEF Sound, Parts
<1>1. /\ stack # <<>> /\ Head(stack).op = "start" /\ Head(stack).url = u /\ Starters(u) = 1
      /\ InQueue(u) = 0 /\ u \notin active /\ exits[u] = 0 /\ u \in begun
  BY StartsAlone DEF StartQueued, history
<1>2. /\ stack' \in Frames /\ Uncounters' = Uncounters /\ Lookers' = Lookers
      /\ Starters(u)' = Starters(u) - 1 /\ \A v \in URL \ {u} : Starters(v)' = Starters(v)
      /\ \A v \in URL : Handlers(v)' = Handlers(v)
  BY <1>0, <1>1, CallReturns, CountsNat
  DEF StartQueued, history, Bit, Uncounting, Looking, Starting, Handling, CallOn, Check
<1>3. /\ waiting' \in Seq(URL) /\ InQueue(u)' = InQueue(u) + 1
      /\ \A v \in URL \ {u} : InQueue(v)' = InQueue(v)
  BY <1>0, QueuePushed, CountsNat DEF StartQueued, history, Bit
<1>4. /\ Uncounters \in Nat /\ Lookers \in Nat /\ Cardinality(active) \in Nat
      /\ \A v \in URL : InQueue(v) \in Nat /\ Starters(v) \in Nat /\ Handlers(v) \in Nat
  BY <1>0, CountsNat, ActiveFinite
<1>6. ExactPart'
  BY <1>0, <1>2 DEF ExactPart, StartQueued, history
<1>7. PlacePart'
  <2>1. /\ InQueue(u)' = 1 /\ One(u, active') = 0 /\ Starters(u)' = 0
        /\ exits'[u] = 0 /\ One(u, begun') = 1
    BY <1>0, <1>1, <1>2, <1>3 DEF Typed, StartQueued, history, client, One
  <2>2. \A v \in URL \ {u} : /\ InQueue(v)' = InQueue(v) /\ Starters(v)' = Starters(v)
                             /\ v \in active' <=> v \in active
                             /\ exits'[v] = exits[v]
                             /\ v \in begun' <=> v \in begun
    BY <1>0, <1>2, <1>3 DEF Typed, StartQueued, history, client
  <2> QED
    BY <1>0, <2>1, <2>2, PlaceStep
<1>8. EntryPart'
  BY <1>0, <1>2 DEF EntryPart, StartQueued, history
<1>9. QueuePart'
  <2>1. UNCHANGED <<active, stranded, leaked, prefetch, count>> /\ MustWait(u)
    BY DEF StartQueued, history, marks
  <2>2. CASE u \in prefetch
    BY <1>0, <1>2, <1>3, <1>4, <2>1, <2>2 DEF QueuePart, Expected
  <2>3. CASE u \notin prefetch
    <3>1. count >= MaxProcessing
      BY <2>1, <2>3 DEF MustWait
    <3>2. active # {} \/ leaked >= MaxProcessing \/ Uncounters > 0
      BY <1>0, <1>4, <3>1, ActiveFinite, LimitAssumption, SMTT(30) DEF Typed, ExactPart
    <3>3. active # {} \/ leaked >= MaxProcessing \/ Lookers > 0
      BY <1>0, <3>2, UncountersLook
    <3> QED
      BY <1>2, <2>1, <3>3 DEF QueuePart, Expected
  <2> QED
    BY <2>2, <2>3
<1>p. PointPart'
  BY <1>1, TrustReturn DEF PointPart, StartQueued
<1> QED
  BY <1>6, <1>7, <1>8, <1>9, <1>p DEF Parts

LEMMA StartRefusedIInv ==
  ASSUME Sound, NEW u \in URL, StartRefused(u), ~dangling'
  PROVE  Parts'
<1>0. Typed /\ ExactPart /\ PlacePart /\ EntryPart /\ PointPart /\ QueuePart
  BY DEF Sound, Parts
<1>1. /\ stack # <<>> /\ Head(stack).op = "start" /\ Head(stack).url = u /\ Starters(u) = 1
      /\ InQueue(u) = 0 /\ u \notin active /\ exits[u] = 0 /\ u \in begun
  BY StartsAlone DEF StartRefused, history
<1>2. /\ stack' \in Frames /\ Uncounters' = Uncounters /\ Lookers' = Lookers
      /\ Starters(u)' = Starters(u) - 1 /\ \A v \in URL \ {u} : Starters(v)' = Starters(v)
      /\ \A v \in URL : Handlers(v)' = Handlers(v)
  BY <1>0, <1>1, CallReturns, CountsNat
  DEF StartRefused, history, Bit, Uncounting, Looking, Starting, Handling, CallOn, Check
<1>3. /\ waiting' \in Seq(URL) /\ InQueue(u)' = InQueue(u) + 1
      /\ \A v \in URL \ {u} : InQueue(v)' = InQueue(v)
  BY <1>0, QueuePushed, CountsNat DEF StartRefused, history, Bit
<1>4. /\ Uncounters \in Nat /\ Lookers \in Nat /\ Cardinality(active) \in Nat
      /\ \A v \in URL : InQueue(v) \in Nat /\ Starters(v) \in Nat /\ Handlers(v) \in Nat
  BY <1>0, CountsNat, ActiveFinite
<1>6. ExactPart'
  BY <1>0, <1>2 DEF ExactPart, StartRefused, history
<1>7. PlacePart'
  <2>1. /\ InQueue(u)' = 1 /\ One(u, active') = 0 /\ Starters(u)' = 0
        /\ exits'[u] = 0 /\ One(u, begun') = 1
    BY <1>0, <1>1, <1>2, <1>3 DEF Typed, StartRefused, history, client, One
  <2>2. \A v \in URL \ {u} : /\ InQueue(v)' = InQueue(v) /\ Starters(v)' = Starters(v)
                             /\ v \in active' <=> v \in active
                             /\ exits'[v] = exits[v]
                             /\ v \in begun' <=> v \in begun
    BY <1>0, <1>2, <1>3 DEF Typed, StartRefused, history, client
  <2> QED
    BY <1>0, <2>1, <2>2, PlaceStep
<1>8. EntryPart'
  BY <1>0, <1>2 DEF EntryPart, StartRefused, history
<1>9. QueuePart'
  <2>1. connected # {}
    BY <1>0, ActiveFinite, LimitAssumption DEF StartRefused, history, MayRun
  <2>2. active' # {}
    BY <1>0, <2>1 DEF EntryPart, StartRefused, history
  <2> QED
    BY <2>2 DEF QueuePart, Expected
<1>p. PointPart'
  BY <1>1, TrustReturn DEF PointPart, StartRefused
<1> QED
  BY <1>6, <1>7, <1>8, <1>9, <1>p DEF Parts

LEMMA StartNoMemoryIInv ==
  ASSUME Sound, NEW u \in URL, StartNoMemory(u), ~dangling'
  PROVE  Parts'
<1>0. Typed /\ ExactPart /\ PlacePart /\ EntryPart /\ PointPart /\ QueuePart
  BY DEF Sound, Parts
<1>1. /\ stack # <<>> /\ Head(stack).op = "start" /\ Head(stack).url = u /\ Starters(u) = 1
      /\ InQueue(u) = 0 /\ u \notin active /\ exits[u] = 0 /\ u \in begun
  BY StartsAlone DEF StartNoMemory
<1>2. /\ stack' \in Frames /\ Uncounters' = Uncounters /\ Lookers' = Lookers
      /\ Starters(u)' = Starters(u) - 1 /\ \A v \in URL \ {u} : Starters(v)' = Starters(v)
      /\ \A v \in URL : Handlers(v)' = Handlers(v)
  BY <1>0, <1>1, CallReturns, CountsNat
  DEF StartNoMemory, Bit, Uncounting, Looking, Starting, Handling, CallOn, Check
<1>3. waiting' \in Seq(URL) /\ \A v \in URL : InQueue(v)' = InQueue(v)
  BY <1>0, QueueKept DEF StartNoMemory, lists, Typed
<1>4. /\ Uncounters \in Nat /\ Lookers \in Nat /\ Cardinality(active) \in Nat
      /\ \A v \in URL : InQueue(v) \in Nat /\ Starters(v) \in Nat /\ Handlers(v) \in Nat
  BY <1>0, CountsNat, ActiveFinite
<1>6. ExactPart'
  BY <1>0, <1>2, <1>4, SMTT(30) DEF Typed, ExactPart, StartNoMemory, lists
<1>7. PlacePart'
  <2>1. /\ InQueue(u)' = 0 /\ One(u, active') = 0 /\ Starters(u)' = 0
        /\ exits'[u] = 1 /\ One(u, begun') = 1
    BY <1>0, <1>1, <1>2, <1>3 DEF Typed, StartNoMemory, lists, Exit, One
  <2>2. \A v \in URL \ {u} : /\ InQueue(v)' = InQueue(v) /\ Starters(v)' = Starters(v)
                             /\ v \in active' <=> v \in active
                             /\ exits'[v] = exits[v]
                             /\ v \in begun' <=> v \in begun
    BY <1>0, <1>2, <1>3 DEF Typed, StartNoMemory, lists, Exit
  <2> QED
    BY <1>0, <2>1, <2>2, PlaceStep
<1>8. EntryPart'
  BY <1>0, <1>2 DEF EntryPart, StartNoMemory, lists
<1>9. QueuePart'
  BY DEF QueuePart, Expected, StartNoMemory
<1>p. PointPart'
  BY <1>1, TrustReturn DEF PointPart, StartNoMemory, lists
<1> QED
  BY <1>6, <1>7, <1>8, <1>9, <1>p DEF Parts

LEMMA StartEndsIInv ==
  ASSUME Sound, NEW u \in URL, StartEnds(u), ~dangling'
  PROVE  Parts'
<1>0. Typed /\ ExactPart /\ PlacePart /\ EntryPart /\ PointPart /\ QueuePart
  BY DEF Sound, Parts
<1>1. /\ stack # <<>> /\ Head(stack).op = "start" /\ Head(stack).url = u /\ Starters(u) = 1
      /\ InQueue(u) = 0 /\ u \notin active /\ exits[u] = 0 /\ u \in begun
  BY StartsAlone DEF StartEnds, history
<1>2. /\ stack' \in Frames /\ Uncounters' = Uncounters + 1 /\ Lookers' = Lookers + 1
      /\ Starters(u)' = Starters(u) - 1 /\ \A v \in URL \ {u} : Starters(v)' = Starters(v)
      /\ \A v \in URL : Handlers(v)' = Handlers(v)
  <2>1. Check(u) \in Frame /\ stack' = Top(Check(u))
    BY CheckKind DEF StartEnds
  <2> DEFINE f == Check(u)
             g == Head(stack)
  <2>2. /\ stack' \in Frames
        /\ Uncounters' = Uncounters - Bit(Uncounting(g)) + Bit(Uncounting(f))
        /\ Lookers' = Lookers - Bit(Looking(g)) + Bit(Looking(f))
        /\ \A v : /\ Starters(v)' = Starters(v) - Bit(Starting(g, v)) + Bit(Starting(f, v))
                  /\ Handlers(v)' = Handlers(v) - Bit(Handling(g, v)) + Bit(Handling(f, v))
    BY <1>0, <1>1, <2>1, CallReplaced
  <2> QED
    BY <1>0, <1>1, <2>2, CheckKind, StartKind, CountsNat DEF Bit
<1>3. waiting' \in Seq(URL) /\ \A v \in URL : InQueue(v)' = InQueue(v)
  BY <1>0, QueueKept DEF StartEnds, history, lists, Typed
<1>4. /\ Uncounters \in Nat /\ Lookers \in Nat /\ Cardinality(active) \in Nat
      /\ \A v \in URL : InQueue(v) \in Nat /\ Starters(v) \in Nat /\ Handlers(v) \in Nat
  BY <1>0, CountsNat, ActiveFinite
<1>6. ExactPart'
  BY <1>0, <1>2, <1>4, SMTT(30) DEF Typed, ExactPart, StartEnds, history, lists
<1>7. PlacePart'
  <2>1. /\ InQueue(u)' = 0 /\ One(u, active') = 0 /\ Starters(u)' = 0
        /\ exits'[u] = 1 /\ One(u, begun') = 1
    BY <1>0, <1>1, <1>2, <1>3 DEF Typed, StartEnds, history, lists, Exit, One
  <2>2. \A v \in URL \ {u} : /\ InQueue(v)' = InQueue(v) /\ Starters(v)' = Starters(v)
                             /\ v \in active' <=> v \in active
                             /\ exits'[v] = exits[v]
                             /\ v \in begun' <=> v \in begun
    BY <1>0, <1>2, <1>3 DEF Typed, StartEnds, history, lists, Exit
  <2> QED
    BY <1>0, <2>1, <2>2, PlaceStep
<1>8. EntryPart'
  BY <1>0, <1>2 DEF EntryPart, StartEnds, history, lists
<1>9. QueuePart'
  BY <1>2, <1>4 DEF QueuePart, Expected
<1>p. PointPart'
  <2>1. Check(u) \in Frame /\ Check(u).next = {} /\ Check(u).op # "redo"
    BY DEF Check, CallOn, Frame, Ops
  <2>2. Return \in Seq(Frame) /\ Trusted(Return, active')
    BY <1>1, TrustReturn DEF StartEnds, lists
  <2> QED
    BY <2>1, <2>2, TrustPushed DEF StartEnds, Top, PointPart
<1> QED
  BY <1>6, <1>7, <1>8, <1>9, <1>p DEF Parts

LEMMA StartAdmittedIInv ==
  ASSUME Sound, NEW u \in URL, StartAdmitted(u), ~dangling'
  PROVE  Parts'
<1>0. Typed /\ ExactPart /\ PlacePart /\ EntryPart /\ PointPart /\ QueuePart
  BY DEF Sound, Parts
<1>1. /\ stack # <<>> /\ Head(stack).op = "start" /\ Head(stack).url = u /\ Starters(u) = 1
      /\ InQueue(u) = 0 /\ u \notin active /\ exits[u] = 0 /\ u \in begun
  BY StartsAlone DEF StartAdmitted, history
<1>2. /\ stack' \in Frames /\ Uncounters' = Uncounters /\ Lookers' = Lookers
      /\ Starters(u)' = Starters(u) - 1 /\ \A v \in URL \ {u} : Starters(v)' = Starters(v)
      /\ Handlers(u)' = Handlers(u) + 1 /\ \A v \in URL \ {u} : Handlers(v)' = Handlers(v)
  <2> DEFINE f == CallOn("init", u)
             g == Head(stack)
  <2>1. f \in Frame /\ stack' = Top(f) /\ f.op = "init" /\ f.url = u
    BY CallType DEF StartAdmitted, Ops, CallOn
  <2> HIDE DEF f
  <2>2. /\ stack' \in Frames
        /\ Uncounters' = Uncounters - Bit(Uncounting(g)) + Bit(Uncounting(f))
        /\ Lookers' = Lookers - Bit(Looking(g)) + Bit(Looking(f))
        /\ \A v : /\ Starters(v)' = Starters(v) - Bit(Starting(g, v)) + Bit(Starting(f, v))
                  /\ Handlers(v)' = Handlers(v) - Bit(Handling(g, v)) + Bit(Handling(f, v))
    BY <1>0, <1>1, <2>1, CallReplaced
  <2> HIDE DEF g
  <2>3. /\ Bit(Uncounting(g)) = 0 /\ Bit(Looking(g)) = 0
        /\ \A v : Bit(Starting(g, v)) = Bit(v = u) /\ Bit(Handling(g, v)) = 0
    BY <1>1, StartKind DEF g, Bit
  <2>4. /\ Bit(Uncounting(f)) = 0 /\ Bit(Looking(f)) = 0
        /\ \A v : Bit(Starting(f, v)) = 0 /\ Bit(Handling(f, v)) = Bit(v = u)
    BY <2>1, HandlerKind DEF Bit
  <2> QED
    BY <1>0, <2>2, <2>3, <2>4, CountsNat DEF Bit
<1>3. waiting' \in Seq(URL) /\ \A v \in URL : InQueue(v)' = InQueue(v)
  BY <1>0, QueueKept DEF StartAdmitted, history, lists, Typed
<1>4. /\ Uncounters \in Nat /\ Lookers \in Nat /\ Cardinality(active) \in Nat
      /\ \A v \in URL : InQueue(v) \in Nat /\ Starters(v) \in Nat /\ Handlers(v) \in Nat
  BY <1>0, CountsNat, ActiveFinite
<1>6. ExactPart'
  <2>1. Cardinality(active') = Cardinality(active) + 1
    BY <1>0, <1>1, EntryAdded DEF StartAdmitted, history
  <2> QED
    BY <1>0, <1>2, <1>4, <2>1, SMTT(30) DEF Typed, ExactPart, StartAdmitted, history
<1>7. PlacePart'
  <2>1. /\ InQueue(u)' = 0 /\ One(u, active') = 1 /\ Starters(u)' = 0
        /\ exits'[u] = 0 /\ One(u, begun') = 1
    BY <1>0, <1>1, <1>2, <1>3 DEF Typed, StartAdmitted, history, client, One
  <2>2. \A v \in URL \ {u} : /\ InQueue(v)' = InQueue(v) /\ Starters(v)' = Starters(v)
                             /\ v \in active' <=> v \in active
                             /\ exits'[v] = exits[v]
                             /\ v \in begun' <=> v \in begun
    BY <1>0, <1>2, <1>3 DEF Typed, StartAdmitted, history, client
  <2> QED
    BY <1>0, <2>1, <2>2, PlaceStep
<1>8. EntryPart'
  BY <1>0, <1>1, <1>2, <1>4 DEF EntryPart, StartAdmitted, history, Bit
<1>9. QueuePart'
  BY DEF QueuePart, Expected, StartAdmitted, history
<1>p. PointPart'
  <2> DEFINE f == CallOn("init", u)
  <2>1. f \in Frame /\ f.next = {} /\ f.op # "redo"
    BY DEF CallOn, Frame, Ops
  <2>2. Return \in Seq(Frame) /\ Trusted(Return, active')
    BY <1>1, TrustReturn, TrustGrows DEF StartAdmitted
  <2>3. stack' = <<f>> \o Return
    BY DEF StartAdmitted, Top
  <2> HIDE DEF f
  <2> QED
    BY <2>1, <2>2, <2>3, TrustPushed DEF PointPart
<1> QED
  BY <1>6, <1>7, <1>8, <1>9, <1>p DEF Parts

LEMMA GetURLIInv ==
  ASSUME Sound, NEW u \in URL, GetURL(u), ~dangling'
  PROVE  Parts'
<1>0. Typed /\ ExactPart /\ PlacePart /\ EntryPart /\ PointPart /\ QueuePart
  BY DEF Sound, Parts
<1>1. /\ stack' \in Frames /\ Uncounters' = Uncounters /\ Lookers' = Lookers
      /\ Starters(u)' = Starters(u) + 1 /\ \A v \in URL \ {u} : Starters(v)' = Starters(v)
      /\ \A v \in URL : Handlers(v)' = Handlers(v)
  <2> DEFINE f == CallOn("start", u)
  <2>1. /\ f \in Frame /\ ~Uncounting(f) /\ ~Looking(f)
        /\ \A v \in URL : (Starting(f, v) <=> v = u) /\ ~Handling(f, v)
    BY DEF Frame, Ops, Uncounting, Looking, Starting, Handling, CallOn
  <2>2. stack' = <<f>> \o stack
    BY DEF GetURL, history
  <2> HIDE DEF f
  <2>3. /\ stack' \in Frames
        /\ Uncounters' = Uncounters + Bit(Uncounting(f))
        /\ Lookers' = Lookers + Bit(Looking(f))
        /\ \A v \in URL : /\ Starters(v)' = Starters(v) + Bit(Starting(f, v))
                         /\ Handlers(v)' = Handlers(v) + Bit(Handling(f, v))
    BY <1>0, <2>1, <2>2, CallBegins
  <2>4. /\ Uncounters \in Nat /\ Lookers \in Nat
        /\ \A v \in URL : Starters(v) \in Nat /\ Handlers(v) \in Nat
    BY <1>0, CountsNat
  <2> QED
    BY <2>1, <2>3, <2>4 DEF Bit
<1>2. waiting' \in Seq(URL) /\ \A v \in URL : InQueue(v)' = InQueue(v)
  BY <1>0, QueueKept DEF GetURL, history, lists, Typed
<1>3. /\ Uncounters \in Nat /\ Lookers \in Nat /\ Cardinality(active) \in Nat
      /\ \A v \in URL : InQueue(v) \in Nat /\ Starters(v) \in Nat /\ Handlers(v) \in Nat
  BY <1>0, CountsNat, ActiveFinite
<1>5. ExactPart'
  BY <1>0, <1>1 DEF ExactPart, GetURL, history, lists
<1>6. PlacePart'
  <2>1. u \notin begun /\ begun' = begun \cup {u}
    BY DEF GetURL, history
  <2>2. InQueue(u) = 0 /\ One(u, active) = 0 /\ Starters(u) = 0 /\ exits[u] = 0
    BY <1>0, <1>3, <2>1, SMTT(30) DEF Typed, PlacePart, One
  <2>3. /\ InQueue(u)' = 0 /\ Starters(u)' = 1 /\ active' = active /\ exits' = exits
        /\ \A v \in URL \ {u} : InQueue(v)' = InQueue(v) /\ Starters(v)' = Starters(v)
    BY <1>1, <1>2, <1>3, <2>2 DEF GetURL, history, lists
  <2>4. One(u, active') = 0 /\ One(u, begun') = 1
    BY <2>1, <2>2, <2>3 DEF One
  <2> QED
    BY <1>0, <2>1, <2>2, <2>3, <2>4, PlaceStep
<1>7. EntryPart'
  BY <1>0, <1>1 DEF EntryPart, GetURL, history, lists
<1>8. QueuePart'
  <2>1. UNCHANGED <<active, stranded, leaked, prefetch>>
    BY DEF GetURL, history, lists, marks
  <2>2. \A v \in URL : Starters(v) > 0 => Starters(v)' > 0
    BY <1>1, <1>3
  <2>3. Expected => Expected'
    BY <1>1, <2>1, <2>2 DEF Expected
  <2> QED
    BY <1>0, <1>2, <2>1, <2>3 DEF QueuePart
<1>p. PointPart'
  <2> DEFINE f == CallOn("start", u)
  <2>1. f \in Frame /\ f.next = {} /\ f.op # "redo"
    BY DEF CallOn, Frame, Ops
  <2>2. stack' = <<f>> \o stack /\ active' = active /\ stack \in Seq(Frame)
    BY <1>0, FramesType DEF GetURL, lists, Typed
  <2> HIDE DEF f
  <2> QED
    BY <1>0, <2>1, <2>2, TrustPushed DEF PointPart
<1> QED
  BY <1>5, <1>6, <1>7, <1>8, <1>p DEF Parts

(* NET_ProcessNet takes only an entry that no handler has.                 *)
LEMMA ProcessNetIInv ==
  ASSUME Sound, NEW u \in URL, ProcessNet(u), ~dangling'
  PROVE  Parts'
<1>0. Typed /\ ExactPart /\ PlacePart /\ EntryPart /\ PointPart /\ QueuePart
  BY DEF Sound, Parts
<1>1. /\ stack' \in Frames /\ Uncounters' = Uncounters /\ Lookers' = Lookers
      /\ \A v \in URL : Starters(v)' = Starters(v)
      /\ Handlers(u)' = Handlers(u) + 1 /\ \A v \in URL \ {u} : Handlers(v)' = Handlers(v)
  <2> DEFINE f == CallOn("process", u)
  <2>1. /\ f \in Frame /\ ~Uncounting(f) /\ ~Looking(f)
        /\ \A v \in URL : ~Starting(f, v) /\ (Handling(f, v) <=> v = u)
    BY DEF Frame, Ops, Uncounting, Looking, Starting, Handling, CallOn
  <2>2. stack' = <<f>> \o stack
    BY DEF ProcessNet, history
  <2> HIDE DEF f
  <2>3. /\ stack' \in Frames
        /\ Uncounters' = Uncounters + Bit(Uncounting(f))
        /\ Lookers' = Lookers + Bit(Looking(f))
        /\ \A v \in URL : /\ Starters(v)' = Starters(v) + Bit(Starting(f, v))
                         /\ Handlers(v)' = Handlers(v) + Bit(Handling(f, v))
    BY <1>0, <2>1, <2>2, CallBegins
  <2>4. /\ Uncounters \in Nat /\ Lookers \in Nat
        /\ \A v \in URL : Starters(v) \in Nat /\ Handlers(v) \in Nat
    BY <1>0, CountsNat
  <2> QED
    BY <2>1, <2>3, <2>4 DEF Bit
<1>2. waiting' \in Seq(URL) /\ \A v \in URL : InQueue(v)' = InQueue(v)
  BY <1>0, QueueKept DEF ProcessNet, history, lists, Typed
<1>3. /\ Uncounters \in Nat /\ Lookers \in Nat /\ Cardinality(active) \in Nat
      /\ \A v \in URL : InQueue(v) \in Nat /\ Starters(v) \in Nat /\ Handlers(v) \in Nat
  BY <1>0, CountsNat, ActiveFinite
<1>5. ExactPart'
  BY <1>0, <1>1 DEF ExactPart, ProcessNet, history
<1>6. PlacePart'
  BY <1>0, <1>1, <1>2 DEF PlacePart, ProcessNet, history, client
<1>7. EntryPart'
  BY <1>0, <1>1, <1>3 DEF Typed, EntryPart, ProcessNet, history, Bit
<1>8. QueuePart'
  BY <1>0, <1>1, <1>2, <1>3 DEF QueuePart, Expected, ProcessNet, history, marks
<1>p. PointPart'
  <2> DEFINE f == CallOn("process", u)
  <2>1. f \in Frame /\ f.next = {} /\ f.op # "redo"
    BY DEF CallOn, Frame, Ops
  <2>2. stack' = <<f>> \o stack /\ active' = active /\ stack \in Seq(Frame)
    BY <1>0, FramesType DEF ProcessNet, lists, Typed
  <2> HIDE DEF f
  <2> QED
    BY <1>0, <2>1, <2>2, TrustPushed DEF PointPart
<1> QED
  BY <1>5, <1>6, <1>7, <1>8, <1>p DEF Parts

(* What a handler may do.                                                  *)
LEMMA HandlerConnectsIInv ==
  ASSUME Sound, NEW u \in URL, HandlerConnects(u), ~dangling'
  PROVE  Parts'
<1>0. Typed /\ ExactPart /\ PlacePart /\ EntryPart /\ PointPart /\ QueuePart
  BY DEF Sound, Parts
<1>1. /\ stack # <<>> /\ Head(stack) \in Frame
      /\ Head(stack).op \in {"init", "redo", "process"} /\ Head(stack).url = u
      /\ Handlers(u) = Bit(Handling(Head(stack), u)) /\ u \in active
      /\ Starters(u) = 0 /\ InQueue(u) = 0 /\ exits[u] = 0 /\ u \in begun
  BY HandlesAlone DEF HandlerConnects, history
<1>2. /\ UNCHANGED <<Uncounters, Lookers>> /\ \A v \in URL : /\ Starters(v)' = Starters(v)
                                                           /\ Handlers(v)' = Handlers(v)
  BY StackKept DEF HandlerConnects, history
<1>3. waiting' \in Seq(URL) /\ \A v \in URL : InQueue(v)' = InQueue(v)
  BY <1>0, QueueKept DEF HandlerConnects, history, lists, Typed
<1>4. /\ Uncounters \in Nat /\ Lookers \in Nat /\ Cardinality(active) \in Nat
      /\ \A v \in URL : InQueue(v) \in Nat /\ Starters(v) \in Nat /\ Handlers(v) \in Nat
  BY <1>0, CountsNat, ActiveFinite
<1>6. ExactPart'
  BY <1>0, <1>2 DEF ExactPart, HandlerConnects, history
<1>7. PlacePart'
  BY <1>0, <1>2, <1>3 DEF PlacePart, HandlerConnects, history, client
<1>8. EntryPart'
  BY <1>0, <1>1, <1>2 DEF EntryPart, HandlerConnects, history
<1>9. QueuePart'
  BY <1>0, <1>2, <1>3 DEF QueuePart, Expected, HandlerConnects, history, marks
<1>p. PointPart'
  BY <1>0 DEF PointPart, HandlerConnects
<1> QED
  BY <1>6, <1>7, <1>8, <1>9, <1>p DEF Parts

LEMMA HandlerContinuesIInv ==
  ASSUME Sound, NEW u \in URL, HandlerContinues(u), ~dangling'
  PROVE  Parts'
<1>0. Typed /\ ExactPart /\ PlacePart /\ EntryPart /\ PointPart /\ QueuePart
  BY DEF Sound, Parts
<1>1. /\ stack # <<>> /\ Head(stack) \in Frame
      /\ Head(stack).op \in {"init", "redo", "process"} /\ Head(stack).url = u
      /\ Handlers(u) = Bit(Handling(Head(stack), u)) /\ u \in active
      /\ Starters(u) = 0 /\ InQueue(u) = 0 /\ exits[u] = 0 /\ u \in begun
  BY HandlesAlone DEF HandlerContinues, history
<1>2. /\ stack' \in Frames /\ Uncounters' = Uncounters /\ Lookers' = Lookers
      /\ \A v \in URL : Starters(v)' = Starters(v)
      /\ Handlers(u)' = 0 /\ \A v \in URL \ {u} : Handlers(v)' = Handlers(v)
  BY <1>0, <1>1, CallReturns, CountsNat
  DEF HandlerContinues, history, Bit, Uncounting, Looking, Starting, Handling, CallOn, Check
<1>3. waiting' \in Seq(URL) /\ \A v \in URL : InQueue(v)' = InQueue(v)
  BY <1>0, QueueKept DEF HandlerContinues, history, lists, Typed
<1>4. /\ Uncounters \in Nat /\ Lookers \in Nat /\ Cardinality(active) \in Nat
      /\ \A v \in URL : InQueue(v) \in Nat /\ Starters(v) \in Nat /\ Handlers(v) \in Nat
  BY <1>0, CountsNat, ActiveFinite
<1>6. ExactPart'
  BY <1>0, <1>2 DEF ExactPart, HandlerContinues, history
<1>7. PlacePart'
  BY <1>0, <1>2, <1>3 DEF PlacePart, HandlerContinues, history, client
<1>8. EntryPart'
  BY <1>0, <1>1, <1>2, <1>4 DEF EntryPart, HandlerContinues, history
<1>9. QueuePart'
  BY <1>1 DEF QueuePart, Expected, HandlerContinues, history
<1>p. PointPart'
  BY <1>1, TrustReturn DEF PointPart, HandlerContinues
<1> QED
  BY <1>6, <1>7, <1>8, <1>9, <1>p DEF Parts

LEMMA HandlerUsesFTPIInv ==
  ASSUME Sound, NEW u \in URL, HandlerUsesFTP(u), ~dangling'
  PROVE  Parts'
<1>0. Typed /\ ExactPart /\ PlacePart /\ EntryPart /\ PointPart /\ QueuePart
  BY DEF Sound, Parts
<1>1. /\ stack # <<>> /\ Head(stack) \in Frame
      /\ Head(stack).op = "init" /\ Head(stack).url = u
      /\ Handlers(u) = 1 /\ u \in active
  BY HandlesAlone DEF HandlerUsesFTP, Running, Handling, Bit
<1> DEFINE f == CallOn("redo", u)
<1>f. /\ f \in Frame /\ f.op = "redo" /\ f.url = u /\ f.next = {}
      /\ stack' = <<f>> \o Return /\ stack' = Top(f)
  BY DEF HandlerUsesFTP, CallOn, Frame, Ops, Top
<1> HIDE DEF f
<1>2. /\ stack' \in Frames /\ Uncounters' = Uncounters /\ Lookers' = Lookers
      /\ \A v \in URL : Starters(v)' = Starters(v)
      /\ Handlers(u)' = 0 /\ \A v \in URL \ {u} : Handlers(v)' = Handlers(v)
  <2> DEFINE g == Head(stack)
  <2>1. /\ stack' \in Frames
        /\ Uncounters' = Uncounters - Bit(Uncounting(g)) + Bit(Uncounting(f))
        /\ Lookers' = Lookers - Bit(Looking(g)) + Bit(Looking(f))
        /\ \A v : /\ Starters(v)' = Starters(v) - Bit(Starting(g, v)) + Bit(Starting(f, v))
                  /\ Handlers(v)' = Handlers(v) - Bit(Handling(g, v)) + Bit(Handling(f, v))
    BY <1>0, <1>1, <1>f, CallReplaced
  <2>2. g.op \in {"init", "redo", "process"} /\ g.url = u /\ Handlers(u) = Bit(Handling(g, u))
    BY <1>1, HandlerKind
  <2> HIDE DEF g
  <2>3. /\ Bit(Uncounting(g)) = 0 /\ Bit(Looking(g)) = 0
        /\ \A v : Bit(Starting(g, v)) = 0 /\ (v # u => Bit(Handling(g, v)) = 0)
    BY <2>2, HandlerKind
  <2>4. /\ Bit(Uncounting(f)) = 0 /\ Bit(Looking(f)) = 0
        /\ \A v : Bit(Starting(f, v)) = 0 /\ Bit(Handling(f, v)) = 0
    BY <1>f, HandlerKind
  <2> QED
    BY <1>0, <2>1, <2>2, <2>3, <2>4, CountsNat
<1>3. \A v \in URL : InQueue(v)' = InQueue(v)
  BY QueueKept DEF HandlerUsesFTP
<1>4. /\ active' = active /\ busy' = busy \ {u}
      /\ UNCHANGED <<count, connected, prefetch, begun, exits, leaked, stranded>>
  BY DEF HandlerUsesFTP, marks, client, history
<1>5. \A j \in DOMAIN Return : ~Handling(Return[j], u)
  <2>1. Return \in Seq(Frame) /\ stack' \in Seq(Frame)
    BY <1>1, <1>2, TrustReturn, FramesType
  <2>2. \A j \in DOMAIN stack' : stack'[j] \notin {g \in Frame : Handling(g, u)}
    BY <1>2, <2>1, PosFinite DEF Handlers
  <2>3. \A j \in DOMAIN Return : j + 1 \in DOMAIN stack' /\ stack'[j + 1] = Return[j]
    BY <1>f, <2>1
  <2> QED
    BY <2>1, <2>2, <2>3
<1>6. ExactPart'
  BY <1>0, <1>2, <1>4 DEF ExactPart
<1>7. PlacePart'
  BY <1>0, <1>2, <1>3, <1>4 DEF PlacePart
<1>8. EntryPart'
  BY <1>0, <1>2, <1>4 DEF EntryPart
<1>9. PointPart'
  BY <1>1, <1>4, <1>5, <1>f, TrustReturn, TrustPushed DEF PointPart
<1>10. QueuePart'
  BY <1>1, <1>4 DEF QueuePart, Expected
<1> QED
  BY <1>6, <1>7, <1>8, <1>9, <1>10 DEF Parts

LEMMA HandlerEndsIInv ==
  ASSUME Sound, NEW u \in URL, HandlerEnds(u), ~dangling'
  PROVE  Parts'
<1>0. Typed /\ ExactPart /\ PlacePart /\ EntryPart /\ PointPart /\ QueuePart
  BY DEF Sound, Parts
<1>1. /\ stack # <<>> /\ Head(stack) \in Frame
      /\ Head(stack).op \in {"init", "redo", "process"} /\ Head(stack).url = u
      /\ Handlers(u) = Bit(Handling(Head(stack), u)) /\ u \in active
      /\ Starters(u) = 0 /\ InQueue(u) = 0 /\ exits[u] = 0 /\ u \in begun
  BY HandlesAlone DEF HandlerEnds
<1>2. /\ stack' \in Frames /\ Uncounters' = Uncounters + 1 /\ Lookers' = Lookers + 1
      /\ \A v \in URL : Starters(v)' = Starters(v)
      /\ Handlers(u)' = 0 /\ \A v \in URL \ {u} : Handlers(v)' = Handlers(v)
  <2> DEFINE f == Check(u)
             g == Head(stack)
  <2>1. f \in Frame /\ stack' = Top(f)
    BY CheckKind DEF HandlerEnds
  <2>2. /\ stack' \in Frames
        /\ Uncounters' = Uncounters - Bit(Uncounting(g)) + Bit(Uncounting(f))
        /\ Lookers' = Lookers - Bit(Looking(g)) + Bit(Looking(f))
        /\ \A v : /\ Starters(v)' = Starters(v) - Bit(Starting(g, v)) + Bit(Starting(f, v))
                  /\ Handlers(v)' = Handlers(v) - Bit(Handling(g, v)) + Bit(Handling(f, v))
    BY <1>0, <1>1, <2>1, CallReplaced
  <2>3. g.op \in {"init", "redo", "process"} /\ g.url = u /\ Handlers(u) = Bit(Handling(g, u))
    BY <1>1
  <2>4. /\ Bit(Uncounting(f)) = 1 /\ Bit(Looking(f)) = 1
        /\ \A v : Bit(Starting(f, v)) = 0 /\ Bit(Handling(f, v)) = 0
    BY CheckKind
  <2> HIDE DEF f, g
  <2>5. /\ Bit(Uncounting(g)) = 0 /\ Bit(Looking(g)) = 0
        /\ \A v : Bit(Starting(g, v)) = 0 /\ (v # u => Bit(Handling(g, v)) = 0)
    BY <2>3, HandlerKind
  <2> QED
    BY <1>0, <2>2, <2>3, <2>4, <2>5, CountsNat
<1>3. waiting' \in Seq(URL) /\ \A v \in URL : InQueue(v)' = InQueue(v)
  BY <1>0, QueueKept DEF HandlerEnds, lists, Typed
<1>4. /\ Uncounters \in Nat /\ Lookers \in Nat /\ Cardinality(active) \in Nat
      /\ \A v \in URL : InQueue(v) \in Nat /\ Starters(v) \in Nat /\ Handlers(v) \in Nat
  BY <1>0, CountsNat, ActiveFinite
<1>6. ExactPart'
  <2>1. Cardinality(active') = Cardinality(active) - 1 /\ Cardinality(active) >= 1
    <3>1. active' = active \ {u}
      BY DEF HandlerEnds, Gone
    <3>2. Cardinality(active) \in Nat /\ Cardinality(active) # 0
      BY <1>0, <1>1, ActiveFinite
    <3>3. Cardinality(active') = Cardinality(active) - 1
      BY <1>0, <1>1, <3>1, EntryRemoved
    <3> QED
      BY <3>2, <3>3
  <2> QED
    BY <1>0, <1>2, <1>4, <2>1 DEF Typed, ExactPart, HandlerEnds
<1>7. PlacePart'
  <2>1. InQueue(u)' + One(u, active') + Starters(u)' + exits'[u] = One(u, begun')
    BY <1>0, <1>1, <1>2, <1>3 DEF Typed, HandlerEnds, Gone, Exit, One
  <2>2. \A v \in URL \ {u} : /\ InQueue(v)' = InQueue(v) /\ Starters(v)' = Starters(v)
                             /\ v \in active' <=> v \in active
                             /\ exits'[v] = exits[v]
                             /\ v \in begun' <=> v \in begun
    BY <1>0, <1>2, <1>3 DEF Typed, HandlerEnds, Gone, Exit
  <2> QED
    BY <1>0, <2>1, <2>2, PlaceStep
<1>8. EntryPart'
  BY <1>0, <1>1, <1>2, <1>4 DEF EntryPart, HandlerEnds, Gone
<1>9. QueuePart'
  BY <1>2, <1>4 DEF QueuePart, Expected
<1>p. PointPart'
  <2>1. Check(u) \in Frame /\ Check(u).next = {} /\ Check(u).op # "redo"
    BY DEF Check, CallOn, Frame, Ops
  <2>2. Return \in Seq(Frame) /\ Trusted(Return, active')
    BY <1>1, TrustReturn, TrustGone DEF HandlerEnds, lists
  <2> QED
    BY <2>1, <2>2, TrustPushed DEF HandlerEnds, Top, PointPart
<1> QED
  BY <1>6, <1>7, <1>8, <1>9, <1>p DEF Parts

LEMMA HandlerRestartsIInv ==
  ASSUME Sound, NEW u \in URL, HandlerRestarts(u), ~dangling'
  PROVE  Parts'
<1>0. Typed /\ ExactPart /\ PlacePart /\ EntryPart /\ PointPart /\ QueuePart
  BY DEF Sound, Parts
<1>1. /\ stack # <<>> /\ Head(stack) \in Frame
      /\ Head(stack).op \in {"init", "redo", "process"} /\ Head(stack).url = u
      /\ Handlers(u) = Bit(Handling(Head(stack), u)) /\ u \in active
      /\ Starters(u) = 0 /\ InQueue(u) = 0 /\ exits[u] = 0 /\ u \in begun
  BY HandlesAlone DEF HandlerRestarts
<1>2. /\ stack' \in Frames /\ Uncounters' = Uncounters + 1 /\ Lookers' = Lookers + 1
      /\ Starters(u)' = Starters(u) + 1 /\ \A v \in URL \ {u} : Starters(v)' = Starters(v)
      /\ Handlers(u)' = 0 /\ \A v \in URL \ {u} : Handlers(v)' = Handlers(v)
  <2> DEFINE f == CallOn("start", u)
             h == Check(u)
  <2>1. stack' = <<f, h>> \o Return
    BY DEF HandlerRestarts
  <2>2. /\ f \in Frame /\ ~Uncounting(f) /\ ~Looking(f)
        /\ h \in Frame /\ Uncounting(h) /\ Looking(h)
        /\ \A v \in URL : /\ Starting(f, v) <=> v = u
                          /\ ~Handling(f, v) /\ ~Starting(h, v) /\ ~Handling(h, v)
    BY DEF Frame, Ops, Uncounting, Looking, Starting, Handling, CallOn, Check
  <2>3. Return \in Seq(Frame)
    BY <1>0, <1>1, FramesType DEF Typed, Return
  <2> HIDE DEF f, h
  <2>4. <<f, h>> \o Return = <<f>> \o (<<h>> \o Return)
    BY <2>2, <2>3, TwoCalls
  <2>5. stack' = <<f>> \o (<<h>> \o Return)
    BY <2>1, <2>4
  <2> QED
    <3> DEFINE g == Head(stack)
    <3>1. /\ stack' \in Frames
          /\ Uncounters' = Uncounters - Bit(Uncounting(g)) + Bit(Uncounting(f)) + Bit(Uncounting(h))
          /\ Lookers' = Lookers - Bit(Looking(g)) + Bit(Looking(f)) + Bit(Looking(h))
          /\ \A v : /\ Starters(v)' = Starters(v) - Bit(Starting(g, v))
                                       + Bit(Starting(f, v)) + Bit(Starting(h, v))
                    /\ Handlers(v)' = Handlers(v) - Bit(Handling(g, v))
                                       + Bit(Handling(f, v)) + Bit(Handling(h, v))
      BY <1>0, <1>1, <2>2, <2>5, CallReplacedByTwo
    <3>2. /\ Bit(Uncounting(g)) = 0 /\ Bit(Looking(g)) = 0
          /\ \A v : Bit(Starting(g, v)) = 0 /\ (v # u => Bit(Handling(g, v)) = 0)
          /\ Handlers(u) = Bit(Handling(g, u))
      BY <1>1, HandlerKind
    <3> HIDE DEF g
    <3> QED
      BY <1>0, <2>2, <3>1, <3>2, CountsNat DEF Bit
<1>3. waiting' \in Seq(URL) /\ \A v \in URL : InQueue(v)' = InQueue(v)
  BY <1>0, QueueKept DEF HandlerRestarts, lists, Typed
<1>4. /\ Uncounters \in Nat /\ Lookers \in Nat /\ Cardinality(active) \in Nat
      /\ \A v \in URL : InQueue(v) \in Nat /\ Starters(v) \in Nat /\ Handlers(v) \in Nat
  BY <1>0, CountsNat, ActiveFinite
<1>6. ExactPart'
  <2>1. Cardinality(active') = Cardinality(active) - 1 /\ Cardinality(active) >= 1
    <3>1. active' = active \ {u}
      BY DEF HandlerRestarts, Gone
    <3>2. Cardinality(active) \in Nat /\ Cardinality(active) # 0
      BY <1>0, <1>1, ActiveFinite
    <3>3. Cardinality(active') = Cardinality(active) - 1
      BY <1>0, <1>1, <3>1, EntryRemoved
    <3> QED
      BY <3>2, <3>3
  <2> QED
    BY <1>0, <1>2, <1>4, <2>1 DEF Typed, ExactPart, HandlerRestarts
<1>7. PlacePart'
  <2>1. InQueue(u)' + One(u, active') + Starters(u)' + exits'[u] = One(u, begun')
    BY <1>0, <1>1, <1>2, <1>3 DEF Typed, HandlerRestarts, Gone, client, One
  <2>2. \A v \in URL \ {u} : /\ InQueue(v)' = InQueue(v) /\ Starters(v)' = Starters(v)
                             /\ v \in active' <=> v \in active
                             /\ exits'[v] = exits[v]
                             /\ v \in begun' <=> v \in begun
    BY <1>0, <1>2, <1>3 DEF Typed, HandlerRestarts, Gone, client
  <2> QED
    BY <1>0, <2>1, <2>2, PlaceStep
<1>8. EntryPart'
  BY <1>0, <1>1, <1>2, <1>4 DEF EntryPart, HandlerRestarts, Gone
<1>9. QueuePart'
  BY <1>2, <1>4 DEF QueuePart, Expected
<1>p. PointPart'
  <2> DEFINE f == CallOn("start", u)
             h == Check(u)
  <2>1. /\ f \in Frame /\ f.next = {} /\ f.op # "redo"
        /\ h \in Frame /\ h.next = {} /\ h.op # "redo"
    BY DEF Check, CallOn, Frame, Ops
  <2>2. Return \in Seq(Frame) /\ Trusted(Return, active')
    BY <1>1, TrustReturn, TrustGone DEF HandlerRestarts
  <2>3. stack' = <<f, h>> \o Return
    BY DEF HandlerRestarts
  <2> HIDE DEF f, h
  <2>4. <<h>> \o Return \in Seq(Frame) /\ Trusted(<<h>> \o Return, active')
    BY <2>1, <2>2, TrustPushed
  <2>5. Trusted(<<f>> \o (<<h>> \o Return), active')
    BY <2>1, <2>4, TrustPushed
  <2>6. stack' = <<f>> \o (<<h>> \o Return)
    BY <2>1, <2>2, <2>3, TwoCalls, SMTT(30)
  <2> QED
    BY <2>5, <2>6 DEF PointPart
<1> QED
  BY <1>6, <1>7, <1>8, <1>9, <1>p DEF Parts

LEMMA HandlerRetriesIInv ==
  ASSUME Sound, NEW u \in URL, HandlerRetries(u), ~dangling'
  PROVE  Parts'
<1>0. Typed /\ ExactPart /\ PlacePart /\ EntryPart /\ PointPart /\ QueuePart
  BY DEF Sound, Parts
<1>1. /\ stack # <<>> /\ Head(stack) \in Frame
      /\ Head(stack).op \in {"init", "redo", "process"} /\ Head(stack).url = u
      /\ Handlers(u) = Bit(Handling(Head(stack), u)) /\ u \in active
      /\ Starters(u) = 0 /\ InQueue(u) = 0 /\ exits[u] = 0 /\ u \in begun
  BY HandlesAlone DEF HandlerRetries
<1>2. /\ stack' \in Frames /\ Uncounters' = Uncounters /\ Lookers' = Lookers
      /\ \A v \in URL : Starters(v)' = Starters(v)
      /\ Handlers(u)' = 0 /\ \A v \in URL \ {u} : Handlers(v)' = Handlers(v)
  BY <1>0, <1>1, CallReturns, CountsNat
  DEF HandlerRetries, Bit, Uncounting, Looking, Starting, Handling, CallOn, Check
<1>3. /\ waiting' \in Seq(URL) /\ InQueue(u)' = InQueue(u) + 1
      /\ \A v \in URL \ {u} : InQueue(v)' = InQueue(v)
  BY <1>0, QueuePushed, CountsNat DEF HandlerRetries, Bit
<1>4. /\ Uncounters \in Nat /\ Lookers \in Nat /\ Cardinality(active) \in Nat
      /\ \A v \in URL : InQueue(v) \in Nat /\ Starters(v) \in Nat /\ Handlers(v) \in Nat
  BY <1>0, CountsNat, ActiveFinite
<1>6. ExactPart'
  <2>1. Cardinality(active') = Cardinality(active) - 1 /\ Cardinality(active) >= 1
    <3>1. active' = active \ {u}
      BY DEF HandlerRetries, Gone
    <3>2. Cardinality(active) \in Nat /\ Cardinality(active) # 0
      BY <1>0, <1>1, ActiveFinite
    <3>3. Cardinality(active') = Cardinality(active) - 1
      BY <1>0, <1>1, <3>1, EntryRemoved
    <3> QED
      BY <3>2, <3>3
  <2> QED
    BY <1>0, <1>2, <1>4, <2>1 DEF Typed, ExactPart, HandlerRetries
<1>7. PlacePart'
  <2>1. InQueue(u)' + One(u, active') + Starters(u)' + exits'[u] = One(u, begun')
    BY <1>0, <1>1, <1>2, <1>3 DEF Typed, HandlerRetries, Gone, client, One
  <2>2. \A v \in URL \ {u} : /\ InQueue(v)' = InQueue(v) /\ Starters(v)' = Starters(v)
                             /\ v \in active' <=> v \in active
                             /\ exits'[v] = exits[v]
                             /\ v \in begun' <=> v \in begun
    BY <1>0, <1>2, <1>3 DEF Typed, HandlerRetries, Gone, client
  <2> QED
    BY <1>0, <2>1, <2>2, PlaceStep
<1>8. EntryPart'
  BY <1>0, <1>1, <1>2, <1>4 DEF EntryPart, HandlerRetries, Gone
<1>9. QueuePart'
  BY DEF QueuePart, Expected, HandlerRetries
<1>p. PointPart'
  BY <1>1, TrustReturn, TrustGone DEF PointPart, HandlerRetries
<1> QED
  BY <1>6, <1>7, <1>8, <1>9, <1>p DEF Parts

(* net_CheckForWaitingURL.                                                 *)
LEMMA CheckDecrementIInv ==
  ASSUME Sound, CheckDecrement, ~dangling'
  PROVE  Parts'
<1>0. Typed /\ ExactPart /\ PlacePart /\ EntryPart /\ PointPart /\ QueuePart
  BY DEF Sound, Parts
<1>1. /\ stack # <<>> /\ Head(stack) \in Frame /\ Head(stack).op = "decrement"
      /\ Uncounters >= 1 /\ Lookers >= 1
  BY <1>0, HeadCounts DEF CheckDecrement, Running, Bit, Uncounting, Looking
<1>2. /\ stack' \in Frames /\ Uncounters' = Uncounters - 1 /\ Lookers' = Lookers
      /\ \A v \in URL : Starters(v)' = Starters(v) /\ Handlers(v)' = Handlers(v)
  <2> DEFINE g == Head(stack)
             f == [g EXCEPT !.op = "preferred"]
  <2>1. /\ f \in Frame /\ ~Uncounting(f) /\ Looking(f) /\ Uncounting(g) /\ Looking(g)
        /\ \A v \in URL : /\ ~Starting(f, v) /\ ~Handling(f, v)
                          /\ ~Starting(g, v) /\ ~Handling(g, v)
    BY <1>1 DEF Frame, Ops, Phase, Uncounting, Looking, Starting, Handling
  <2>2. stack' = Top(f)
    BY DEF CheckDecrement
  <2> HIDE DEF f
  <2> QED
    BY <1>0, <1>1, <2>1, <2>2, CallReplaced, CountsNat DEF Bit
<1>3. waiting' \in Seq(URL) /\ \A v \in URL : InQueue(v)' = InQueue(v)
  BY <1>0, QueueKept DEF CheckDecrement, lists, Typed
<1>4. /\ Uncounters \in Nat /\ Lookers \in Nat /\ Cardinality(active) \in Nat
      /\ \A v \in URL : InQueue(v) \in Nat /\ Starters(v) \in Nat /\ Handlers(v) \in Nat
  BY <1>0, CountsNat, ActiveFinite
<1>6. ExactPart'
  BY <1>0, <1>1, <1>2, <1>4 DEF Typed, ExactPart, CheckDecrement, lists
<1>7. PlacePart'
  BY <1>0, <1>2, <1>3 DEF PlacePart, CheckDecrement, lists, client
<1>8. EntryPart'
  BY <1>0, <1>2 DEF EntryPart, CheckDecrement, lists
<1>9. QueuePart'
  BY <1>1, <1>2, <1>4 DEF QueuePart, Expected
<1>p. PointPart'
  <2> DEFINE f == [Head(stack) EXCEPT !.op = "preferred"]
  <2>1. f \in Frame /\ f.next = Head(stack).next /\ f.op # "redo"
    BY <1>1 DEF Frame, Ops, Phase
  <2>2. stack' = <<f>> \o Return /\ active' = active
    BY DEF CheckDecrement, Top, lists
  <2> HIDE DEF f
  <2> QED
    BY <1>1, <2>1, <2>2, TrustReturn, TrustPushed DEF PointPart
<1> QED
  BY <1>6, <1>7, <1>8, <1>9, <1>p DEF Parts

LEMMA NextTrusted ==
  ASSUME Sound, stack # <<>>, Head(stack) \in Frame,
         NEW op \in DOMAIN Phase, Head(stack).op = op
  PROVE  NextFrame(op) \in Seq(Frame) /\ Trusted(NextFrame(op), active)
<1>1. /\ Return \in Seq(Frame) /\ Trusted(Return, active)
      /\ Head(stack).next \subseteq active
  BY TrustReturn
<1>2. CASE op = "prefetch"
  BY <1>1, <1>2 DEF NextFrame
<1>3. CASE op # "prefetch"
  <2> DEFINE f == [Head(stack) EXCEPT !.op = Phase[op]]
  <2>1. f \in Frame /\ f.next = Head(stack).next /\ f.op # "redo"
    BY <1>3 DEF Frame, Ops, Phase
  <2>2. NextFrame(op) = <<f>> \o Return
    BY <1>3 DEF NextFrame, Top
  <2> HIDE DEF f
  <2>3. <<f>> \in Seq(Frame)
    BY <2>1
  <2> QED
    BY <1>1, <2>1, <2>2, <2>3, TrustPushed, ConcatProperties
<1> QED
  BY <1>2, <1>3

LEMMA CheckNoneIInv ==
  ASSUME Sound, NEW op \in DOMAIN Phase, CheckNone(op), ~dangling'
  PROVE  Parts'
<1>0. Typed /\ ExactPart /\ PlacePart /\ EntryPart /\ PointPart /\ QueuePart
  BY DEF Sound, Parts
<1>1. stack # <<>> /\ Head(stack) \in Frame /\ Head(stack).op = op
  BY <1>0, HeadCounts DEF CheckNone, history, Running
<1>2. /\ stack' \in Frames /\ Uncounters' = Uncounters
      /\ Lookers' = Lookers - Bit(op = "any") /\ Lookers >= Bit(op \in {"preferred", "any"})
      /\ \A v \in URL : Starters(v)' = Starters(v) /\ Handlers(v)' = Handlers(v)
  <2> DEFINE g == Head(stack)
  <2>1. /\ ~Uncounting(g)
        /\ Looking(g) <=> op \in {"preferred", "any"}
        /\ \A v \in URL : ~Starting(g, v) /\ ~Handling(g, v)
    BY <1>1 DEF Phase, Uncounting, Looking, Starting, Handling
  <2>2. stack' = NextFrame(op) /\ op \in {"preferred", "any", "prefetch"}
    BY DEF CheckNone, history, Phase
  <2>3. Lookers >= Bit(op \in {"preferred", "any"})
    BY <1>0, <1>1, <2>1, HeadCounts DEF Bit
  <2>4. CASE op = "prefetch"
    <3>1. stack' = Return
      BY <2>2, <2>4 DEF NextFrame
    <3> QED
      BY <1>0, <1>1, <2>1, <2>3, <2>4, <3>1, CallReturns, CountsNat DEF Bit
  <2>5. CASE op # "prefetch"
    <3> DEFINE f == [g EXCEPT !.op = Phase[op]]
    <3>1. stack' = Top(f)
      BY <2>2, <2>5 DEF NextFrame
    <3>2. /\ f \in Frame /\ ~Uncounting(f)
          /\ Looking(f) <=> op = "preferred"
          /\ \A v \in URL : ~Starting(f, v) /\ ~Handling(f, v)
      BY <1>1, <2>2, <2>5 DEF Frame, Ops, Phase, Uncounting, Looking, Starting, Handling
    <3> HIDE DEF f
    <3> QED
      BY <1>0, <1>1, <2>1, <2>2, <2>3, <2>5, <3>1, <3>2, CallReplaced, CountsNat DEF Bit
  <2> QED
    BY <2>4, <2>5
<1>3. waiting' \in Seq(URL) /\ \A v \in URL : InQueue(v)' = InQueue(v)
  BY <1>0, QueueKept DEF CheckNone, history, lists, Typed
<1>4. /\ Uncounters \in Nat /\ Lookers \in Nat /\ Cardinality(active) \in Nat
      /\ \A v \in URL : InQueue(v) \in Nat /\ Starters(v) \in Nat /\ Handlers(v) \in Nat
  BY <1>0, CountsNat, ActiveFinite
<1>6. ExactPart'
  BY <1>0, <1>2 DEF ExactPart, CheckNone, history, lists
<1>7. PlacePart'
  BY <1>0, <1>2, <1>3 DEF PlacePart, CheckNone, history, lists, client
<1>8. EntryPart'
  BY <1>0, <1>2 DEF EntryPart, CheckNone, history, lists
<1>9. QueuePart'
  <2>1. UNCHANGED <<active, stranded, leaked, prefetch>>
    BY DEF CheckNone, history, lists, marks
  <2>2. CASE op = "any"
    <3>1. ToSet(waiting) \subseteq prefetch
      BY <2>2 DEF CheckNone, history, Releasable
    <3>2. \A v \in URL \ prefetch : ~(InQueue(v) > 0)
      BY <1>0, <3>1, QueueMembers
    <3> QED
      BY <1>3, <2>1, <3>2 DEF QueuePart
  <2>3. CASE op # "any"
    <3>1. Lookers' = Lookers
      BY <1>2, <1>4, <2>3 DEF Bit
    <3> QED
      BY <1>0, <1>2, <1>3, <2>1, <3>1 DEF QueuePart, Expected
  <2> QED
    BY <2>2, <2>3
<1>p. PointPart'
  BY <1>0, <1>1, NextTrusted DEF PointPart, CheckNone, lists
<1> QED
  BY <1>6, <1>7, <1>8, <1>9, <1>p DEF Parts

LEMMA CheckReleaseIInv ==
  ASSUME Sound, NEW op \in DOMAIN Phase, CheckRelease(op), ~dangling'
  PROVE  Parts'
<1>0. Typed /\ ExactPart /\ PlacePart /\ EntryPart /\ PointPart /\ QueuePart
  BY DEF Sound, Parts
<1>1. stack # <<>> /\ Head(stack) \in Frame /\ Head(stack).op = op
  BY <1>0, HeadCounts DEF CheckRelease, history, Running
<1>2. PICK k \in DOMAIN waiting, u \in URL :
        /\ u = waiting[k] /\ waiting' = RemoveAt(waiting, k) /\ prefetch' = prefetch \ {u}
        /\ stack' = <<CallOn("start", u)>> \o NextFrame(op)
  <2> DEFINE k == SelectInSeq(waiting, LAMBDA v : v \in Releasable(op))
  <2>1. Running(op) /\ Releasable(op) # {}
    BY DEF CheckRelease, history
  <2>2. k \in DOMAIN waiting
    BY <1>0, <2>1, FirstReleasable
  <2>3. waiting[k] \in URL
    <3> HIDE DEF k
    <3> QED
      BY <1>0, <2>2 DEF Typed
  <2>4. /\ waiting' = RemoveAt(waiting, k) /\ prefetch' = prefetch \ {waiting[k]}
        /\ stack' = <<CallOn("start", waiting[k])>> \o NextFrame(op)
    BY DEF CheckRelease, history
  <2> HIDE DEF k
  <2> QED
    BY <2>2, <2>3, <2>4
<1>3. UNCHANGED <<count, active, busy, connected, cacheOnly, client, leaked, stranded, faults>>
  BY DEF CheckRelease, history
<1>4. /\ waiting' \in Seq(URL) /\ InQueue(u) > 0
      /\ \A v \in URL : InQueue(v)' = InQueue(v) - Bit(v = u)
  BY <1>0, <1>2, QueueReleased
<1>5. /\ stack' \in Frames /\ Uncounters' = Uncounters
      /\ \A v \in URL : /\ Starters(v)' = Starters(v) + Bit(v = u)
                        /\ Handlers(v)' = Handlers(v)
  <2> DEFINE g == Head(stack)
             h == CallOn("start", u)
  <2>1. /\ ~Uncounting(g) /\ \A v \in URL : ~Starting(g, v) /\ ~Handling(g, v)
        /\ h \in Frame /\ ~Uncounting(h) /\ ~Looking(h)
        /\ \A v \in URL : ~Handling(h, v) /\ (Starting(h, v) <=> v = u)
    BY <1>1 DEF Frame, Ops, CallOn, Phase, Uncounting, Looking, Starting, Handling
  <2>2. op \in {"preferred", "any", "prefetch"}
    BY DEF Phase
  <2>3. CASE op = "prefetch"
    <3>1. stack' = Top(h)
      BY <1>2, <2>3 DEF NextFrame, Top
    <3> HIDE DEF h
    <3> QED
      BY <1>0, <1>1, <2>1, <3>1, CallReplaced, CountsNat DEF Bit
  <2>4. CASE op # "prefetch"
    <3> DEFINE f == [g EXCEPT !.op = Phase[op]]
    <3>1. stack' = <<h>> \o (<<f>> \o Return)
      BY <1>2, <2>4 DEF NextFrame, Top
    <3>2. /\ f \in Frame /\ ~Uncounting(f)
          /\ \A v \in URL : ~Starting(f, v) /\ ~Handling(f, v)
      BY <1>1, <2>2, <2>4 DEF Frame, Ops, Phase, Uncounting, Starting, Handling
    <3> HIDE DEF f, h
    <3>3. /\ stack' \in Frames
          /\ Uncounters' = Uncounters - Bit(Uncounting(g)) + Bit(Uncounting(h)) + Bit(Uncounting(f))
          /\ \A v : /\ Starters(v)' = Starters(v) - Bit(Starting(g, v))
                                       + Bit(Starting(h, v)) + Bit(Starting(f, v))
                    /\ Handlers(v)' = Handlers(v) - Bit(Handling(g, v))
                                       + Bit(Handling(h, v)) + Bit(Handling(f, v))
      BY <1>0, <1>1, <2>1, <3>1, <3>2, CallReplacedByTwo
    <3> QED
      BY <1>0, <2>1, <3>2, <3>3, CountsNat DEF Bit
  <2> QED
    BY <2>3, <2>4
<1>6. /\ Uncounters \in Nat /\ Lookers \in Nat /\ Cardinality(active) \in Nat
      /\ \A v \in URL : InQueue(v) \in Nat /\ Starters(v) \in Nat /\ Handlers(v) \in Nat
  BY <1>0, CountsNat, ActiveFinite
<1>8. ExactPart'
  BY <1>0, <1>3, <1>5 DEF ExactPart
<1>9. PlacePart'
  <2>1. InQueue(u)' + One(u, active') + Starters(u)' + exits'[u] = One(u, begun')
    <3>1. InQueue(u)' = InQueue(u) - 1 /\ Starters(u)' = Starters(u) + 1
      BY <1>4, <1>5 DEF Bit
    <3>2. One(u, active') = One(u, active) /\ One(u, begun') = One(u, begun) /\ exits' = exits
      BY <1>3 DEF client
    <3>3. InQueue(u) + One(u, active) + Starters(u) + exits[u] = One(u, begun)
      BY <1>0 DEF PlacePart
    <3>4. exits[u] \in Nat /\ One(u, active) \in Nat
      BY <1>0 DEF Typed, One
    <3> QED
      BY <1>6, <3>1, <3>2, <3>3, <3>4
  <2>2. \A v \in URL \ {u} : /\ InQueue(v)' = InQueue(v) /\ Starters(v)' = Starters(v)
                             /\ v \in active' <=> v \in active
                             /\ exits'[v] = exits[v]
                             /\ v \in begun' <=> v \in begun
    BY <1>3, <1>4, <1>5, <1>6 DEF client, Bit
  <2> QED
    BY <1>0, <1>4, <2>1, <2>2, PlaceStep
<1>10. EntryPart'
  BY <1>0, <1>3, <1>5 DEF EntryPart
<1>11. QueuePart'
  <2>1. u \in URL \ prefetch' /\ Starters(u)' > 0
    BY <1>2, <1>5, <1>6 DEF Bit
  <2> QED
    BY <2>1 DEF QueuePart, Expected
<1>p. PointPart'
  <2> DEFINE f == CallOn("start", u)
  <2>1. f \in Frame /\ f.next = {} /\ f.op # "redo"
    BY DEF CallOn, Frame, Ops
  <2>2. NextFrame(op) \in Seq(Frame) /\ Trusted(NextFrame(op), active)
    BY <1>1, NextTrusted
  <2>3. stack' = <<f>> \o NextFrame(op) /\ active' = active
    BY <1>2, <1>3
  <2> HIDE DEF f
  <2> QED
    BY <2>1, <2>2, <2>3, TrustPushed DEF PointPart
<1> QED
  BY <1>8, <1>9, <1>10, <1>11, <1>p DEF Parts

(* Interrupts.  They spare busy entries, so no handler loses its own.  An  *)
(* entry that goes off the list becomes a call in progress.                *)
LEMMA InterruptsParts ==
  ASSUME Sound, NEW u \in active \ busy, NEW s \in Seq(Frame), Trusted(s, active),
         Count(s, {f \in Frame : Uncounting(f)}) = Uncounters,
         \A v \in URL : /\ Count(s, {f \in Frame : Starting(f, v)}) = Starters(v)
                        /\ Count(s, {f \in Frame : Handling(f, v)}) = Handlers(v),
         Interrupts(u, s), ~dangling',
         UNCHANGED <<count, waiting, marks, client, leaked, stranded>>
  PROVE  Parts'
<1>0. /\ Typed /\ ExactPart /\ PlacePart /\ EntryPart /\ PointPart /\ QueuePart
      /\ u \in URL /\ u \in active /\ u \notin busy
  BY DEF Sound, Parts, Typed
<1> DEFINE f == CallOn("interrupt", u)
<1>f. /\ f \in Frame /\ f.next = {} /\ f.op # "redo" /\ Uncounting(f) /\ Looking(f)
      /\ \A v \in URL : (Starting(f, v) <=> v = u) /\ ~Handling(f, v)
  BY <1>0 DEF CallOn, Frame, Ops, Uncounting, Looking, Starting, Handling
<1>g. /\ stack' = <<f>> \o s /\ Gone(u, s)
      /\ UNCHANGED <<count, waiting, prefetch, begun, exits, leaked, stranded>>
  BY DEF Interrupts, marks, client
<1> HIDE DEF f
<1>1. /\ Uncounters' = Uncounters + 1 /\ Lookers' > 0
      /\ Starters(u)' = Starters(u) + 1 /\ \A v \in URL \ {u} : Starters(v)' = Starters(v)
      /\ \A v \in URL : Handlers(v)' = Handlers(v)
  <2>1. \A F : /\ Count(stack', F) = Count(s, F) + One(f, F)
               /\ Count(s, F) \in Nat
    BY <1>f, <1>g, PushCount, PosFinite
  <2>2. Uncounters' = Uncounters + Bit(Uncounting(f))
    BY <1>f, <2>1, KindCounts DEF Uncounters
  <2>3. Lookers' > 0
    <3>1. Lookers' = Count(s, {g \in Frame : Looking(g)}) + One(f, {g \in Frame : Looking(g)})
      BY <2>1 DEF Lookers
    <3>2. One(f, {g \in Frame : Looking(g)}) = 1
      BY <1>f DEF One
    <3>3. Count(s, {g \in Frame : Looking(g)}) \in Nat
      BY <2>1
    <3> QED
      BY <3>1, <3>2, <3>3
  <2>4. ASSUME NEW v \in URL
        PROVE  /\ Starters(v)' = Starters(v) + Bit(Starting(f, v))
               /\ Handlers(v)' = Handlers(v) + Bit(Handling(f, v))
    BY <1>f, <2>1, KindCounts DEF Starters, Handlers
  <2>5. \A v \in URL : Starters(v) \in Nat /\ Handlers(v) \in Nat
    BY <1>0, CountsNat
  <2>6. Uncounters' = Uncounters + 1
    BY <1>f, <2>2 DEF Bit
  <2>7. Starters(u)' = Starters(u) + 1 /\ \A v \in URL \ {u} : Starters(v)' = Starters(v)
    BY <1>0, <1>f, <2>4, <2>5 DEF Bit
  <2>8. \A v \in URL : Handlers(v)' = Handlers(v)
    BY <1>f, <2>4, <2>5 DEF Bit
  <2> QED
    BY <2>3, <2>6, <2>7, <2>8
<1>2. \A v \in URL : InQueue(v)' = InQueue(v)
  BY <1>g, QueueKept
<1>3. /\ Uncounters \in Nat /\ Cardinality(active) \in Nat
      /\ \A v \in URL : InQueue(v) \in Nat /\ Starters(v) \in Nat /\ Handlers(v) \in Nat
  BY <1>0, CountsNat, ActiveFinite
<1>4. ExactPart'
  <2>1. active' = active \ {u}
    BY <1>g DEF Gone
  <2>2. Cardinality(active') = Cardinality(active) - 1
    BY <1>0, <2>1, EntryRemoved
  <2> QED
    BY <1>0, <1>1, <1>3, <1>g, <2>2 DEF Typed, ExactPart
<1>5. PlacePart'
  <2>1. InQueue(u) + One(u, active) + Starters(u) + exits[u] = One(u, begun)
    BY <1>0 DEF PlacePart
  <2>2. /\ One(u, active) = 1 /\ One(u, active') = 0 /\ One(u, begun') = One(u, begun)
        /\ exits'[u] = exits[u] /\ exits[u] \in Nat
    BY <1>0, <1>g DEF Typed, Gone, One
  <2>3. InQueue(u)' + One(u, active') + Starters(u)' + exits'[u] = One(u, begun')
    BY <1>0, <1>1, <1>2, <1>3, <2>1, <2>2
  <2>4. \A v \in URL \ {u} : /\ InQueue(v)' = InQueue(v) /\ Starters(v)' = Starters(v)
                             /\ v \in active' <=> v \in active
                             /\ exits'[v] = exits[v]
                             /\ v \in begun' <=> v \in begun
    BY <1>1, <1>2, <1>g DEF Gone
  <2> QED
    BY <1>0, <2>3, <2>4, PlaceStep
<1>6. EntryPart'
  BY <1>0, <1>1, <1>3, <1>g DEF EntryPart, Gone
<1>7. PointPart'
  BY <1>f, <1>g, TrustGone, TrustPushed DEF PointPart
<1>8. QueuePart'
  BY <1>1 DEF QueuePart, Expected
<1> QED
  BY <1>4, <1>5, <1>6, <1>7, <1>8 DEF Parts

LEMMA InterruptStreamIInv ==
  ASSUME Sound, NEW u \in URL, InterruptStream(u), ~dangling'
  PROVE  Parts'
<1>1. /\ stack \in Seq(Frame) /\ Trusted(stack, active) /\ u \in active \ busy
      /\ Interrupts(u, stack) /\ UNCHANGED <<count, waiting, marks, client, leaked, stranded>>
  BY FramesType DEF Sound, Parts, PointPart, Typed, InterruptStream
<1> QED
  BY <1>1, InterruptsParts DEF Uncounters, Starters, Handlers

LEMMA InterruptReturnIInv ==
  ASSUME Sound, NEW u \in URL, InterruptReturn(u), ~dangling'
  PROVE  Parts'
<1>0. Typed /\ ExactPart /\ PlacePart /\ EntryPart /\ PointPart /\ QueuePart
  BY DEF Sound, Parts
<1>1. stack # <<>> /\ Head(stack).op = "interrupt" /\ Head(stack).url = u /\ stack' = Return
  BY DEF InterruptReturn, Running
<1>2. /\ Uncounters' = Uncounters - 1
      /\ Starters(u)' = Starters(u) - 1 /\ \A v \in URL \ {u} : Starters(v)' = Starters(v)
      /\ \A v \in URL : Handlers(v)' = Handlers(v)
  BY <1>0, <1>1, CallReturns, CountsNat DEF Bit, Uncounting, Looking, Starting, Handling
<1>3. /\ active' = active /\ busy' = busy /\ connected' = connected /\ begun' = begun
      /\ leaked' = leaked /\ count' = count - 1 /\ stranded' = TRUE
      /\ \A v \in URL : InQueue(v)' = InQueue(v)
      /\ exits' = [exits EXCEPT ![u] = @ + 1]
  BY QueueKept DEF InterruptReturn, lists, Exit
<1>4. /\ Uncounters \in Nat /\ Cardinality(active) \in Nat
      /\ \A v \in URL : InQueue(v) \in Nat /\ Starters(v) \in Nat
  BY <1>0, CountsNat, ActiveFinite
<1>5. ExactPart'
  BY <1>0, <1>2, <1>3, <1>4, SMTT(30) DEF Typed, ExactPart
<1>6. PlacePart'
  <2>1. InQueue(u) + One(u, active) + Starters(u) + exits[u] = One(u, begun)
    BY <1>0 DEF PlacePart
  <2>2. /\ exits'[u] = exits[u] + 1 /\ exits[u] \in Nat /\ One(u, active) \in Nat
        /\ \A v \in URL \ {u} : exits'[v] = exits[v]
    BY <1>0, <1>3 DEF Typed, One
  <2>3. InQueue(u)' + One(u, active') + Starters(u)' + exits'[u] = One(u, begun')
    BY <1>2, <1>3, <1>4, <2>1, <2>2
  <2> QED
    BY <1>0, <1>2, <1>3, <2>2, <2>3, PlaceStep
<1>7. EntryPart'
  BY <1>0, <1>2, <1>3 DEF EntryPart
<1>8. PointPart'
  BY <1>1, <1>3, TrustReturn DEF PointPart
<1>9. QueuePart'
  BY <1>3 DEF QueuePart, Expected
<1> QED
  BY <1>5, <1>6, <1>7, <1>8, <1>9 DEF Parts

(* net_AbortWaitingURL.                                                    *)
LEMMA AbortParts ==
  ASSUME Sound, NEW w, AbortWaiting(w),
         UNCHANGED <<count, active, busy, connected, marks, begun, history>>,
         Uncounters' = Uncounters, Lookers' = Lookers,
         \A v \in URL : Starters(v)' = Starters(v) /\ Handlers(v)' = Handlers(v)
  PROVE  ExactPart' /\ PlacePart' /\ EntryPart' /\ QueuePart'
<1>0. Typed /\ ExactPart /\ PlacePart /\ EntryPart /\ QueuePart
  BY DEF Sound, Parts
<1> DEFINE D == OfWindow(w)
<1>1. /\ waiting' = Without(waiting, D)
      /\ exits' = [v \in URL |-> IF v \in D \cap ToSet(waiting) THEN exits[v] + 1 ELSE exits[v]]
      /\ UNCHANGED <<count, active, busy, connected, prefetch, begun, leaked, stranded>>
  BY DEF AbortWaiting, marks, history
<1> HIDE DEF D
<1>2. \A v \in URL : InQueue(v)' = IF v \in D THEN 0 ELSE InQueue(v)
  BY <1>0, <1>1, QueueAborted
<1>3. \A v \in URL : InQueue(v) \in Nat /\ Starters(v) \in Nat
  BY <1>0, CountsNat
<1>4. ExactPart' /\ EntryPart'
  BY <1>0, <1>1 DEF ExactPart, EntryPart
<1>5. PlacePart'
  <2>1. ASSUME NEW v \in URL
        PROVE  InQueue(v)' + One(v, active') + Starters(v)' + exits'[v] = One(v, begun')
    <3>1. /\ InQueue(v) + One(v, active) + Starters(v) + exits[v] = One(v, begun)
          /\ Starters(v)' = Starters(v) /\ One(v, begun') = One(v, begun)
          /\ One(v, active') = One(v, active) /\ One(v, active) \in Nat /\ One(v, begun) \in {0, 1}
      BY <1>0, <1>1 DEF PlacePart, One
    <3>2. /\ exits'[v] = (IF v \in D /\ v \in ToSet(waiting) THEN exits[v] + 1 ELSE exits[v])
          /\ v \in ToSet(waiting) <=> InQueue(v) > 0
          /\ exits[v] \in Nat
      BY <1>0, <1>1, QueueMembers DEF Typed
    <3>3. InQueue(v)' = IF v \in D THEN 0 ELSE InQueue(v)
      BY <1>2
    <3> QED
      BY <1>3, <3>1, <3>2, <3>3
  <2> QED
    BY <2>1 DEF PlacePart
<1>6. QueuePart'
  <2>1. \A v \in URL : InQueue(v)' > 0 => InQueue(v) > 0
    BY <1>2
  <2>2. Expected => Expected'
    BY <1>1 DEF Expected
  <2> QED
    BY <1>0, <1>1, <2>1, <2>2 DEF QueuePart
<1> QED
  BY <1>4, <1>5, <1>6

LEMMA PassFrame ==
  ASSUME NEW op \in {"firstPass", "lastPass"}, NEW next \in SUBSET URL,
         NEW w, \E u \in URL : WindowOf[u] = w
  PROVE  /\ PassOn(op, w, next) \in Frame /\ PassOn(op, w, next).next = next
         /\ PassOn(op, w, next).op = op
  BY DEF PassOn, Frame, Ops

(* A pass is a call of no kind that IInv counts.                           *)
LEMMA PassKind ==
  ASSUME NEW f, f.op \in {"firstPass", "lastPass"}
  PROVE  ~Uncounting(f) /\ ~Looking(f) /\ \A u : ~Starting(f, u) /\ ~Handling(f, u)
  BY DEF Uncounting, Looking, Starting, Handling

LEMMA FirstIsEntry == ASSUME Typed, NEW w, NEW first \in FirstOf(w)
                      PROVE  first \subseteq active /\ first \in SUBSET URL
  BY DEF FirstOf, Interruptible, OfWindow, Typed

LEMMA InterruptWindowIInv ==
  ASSUME Sound, NEW w \in Window, NEW op \in {"firstPass", "lastPass"},
         InterruptWindow(w, op), ~dangling'
  PROVE  Parts'
<1>0. Typed /\ Trusted(stack, active) /\ stack \in Seq(Frame)
  BY FramesType DEF Sound, Parts, PointPart, Typed
<1>1. PICK first \in FirstOf(w) : stack' = <<PassOn(op, w, first)>> \o stack
  BY DEF InterruptWindow
<1> DEFINE f == PassOn(op, w, first)
<1>2. /\ f \in Frame /\ f.op = op /\ f.next \subseteq active
  <2>1. \E u \in URL : WindowOf[u] = w
    BY DEF InterruptWindow, OfWindow
  <2> QED
    BY <1>0, <2>1, FirstIsEntry, PassFrame
<1>3. AbortWaiting(w) /\ UNCHANGED <<count, active, busy, connected, marks, begun, history>>
  BY DEF InterruptWindow
<1> HIDE DEF f
<1>4. /\ Uncounters' = Uncounters /\ Lookers' = Lookers
      /\ \A v \in URL : Starters(v)' = Starters(v) /\ Handlers(v)' = Handlers(v)
  <2>1. stack' = <<f>> \o stack
    BY <1>1 DEF f
  <2> QED
    BY <1>0, <1>2, <2>1, CallBegins, PassKind, CountsNat DEF Bit
<1>5. PointPart'
  BY <1>0, <1>1, <1>2, <1>3, TrustPushed DEF PointPart, f
<1> QED
  BY <1>3, <1>4, <1>5, AbortParts DEF Parts

LEMMA PassInterruptsIInv ==
  ASSUME Sound, NEW w \in Window, NEW u \in URL, PassInterrupts(w, u), ~dangling'
  PROVE  Parts'
<1>0. Typed /\ stack \in Seq(Frame)
  BY FramesType DEF Sound, Typed
<1>1. /\ stack # <<>> /\ Head(stack).op \in {"firstPass", "lastPass"}
      /\ u \in active \ busy /\ u \in URL /\ WindowOf[u] = w
  BY DEF PassInterrupts, Passing, Running, Interruptible, OfWindow
<1>2. PICK next \in {{}} \cup {{v} : v \in active \ {u}} :
        Interrupts(u, Top(PassOn(Head(stack).op, w, next)))
  BY DEF PassInterrupts
<1> DEFINE f == PassOn(Head(stack).op, w, next)
           s == <<f>> \o Return
<1>3. f \in Frame /\ f.op = Head(stack).op /\ f.next \subseteq active
  BY <1>0, <1>1, PassFrame DEF Typed
<1>4. Interrupts(u, s) /\ UNCHANGED <<count, waiting, marks, client, leaked, stranded>>
  BY <1>2 DEF Top, PassInterrupts
<1> HIDE DEF f
<1>5. s \in Seq(Frame) /\ Trusted(s, active)
  <2>1. f.op # "redo"
    BY <1>1, <1>3
  <2> QED
    BY <1>1, <1>3, <2>1, TrustReturn, TrustPushed, PushCount
<1>6. /\ Count(s, {g \in Frame : Uncounting(g)}) = Uncounters
      /\ \A v \in URL : /\ Count(s, {g \in Frame : Starting(g, v)}) = Starters(v)
                         /\ Count(s, {g \in Frame : Handling(g, v)}) = Handlers(v)
  <2>1. ASSUME NEW F, One(f, F) = 0, One(Head(stack), F) = 0
        PROVE  Count(s, F) = Count(stack, F)
    <3>1. Count(s, F) = Count(Return, F) + One(f, F)
      BY <1>1, <1>3, TrustReturn, PushCount
    <3>2. Count(stack, F) = Count(Return, F) + One(Head(stack), F)
      BY <1>0, <1>1, PopCount DEF Return
    <3> QED
      BY <2>1, <3>1, <3>2
  <2>2. /\ ~Uncounting(f) /\ \A v : ~Starting(f, v) /\ ~Handling(f, v)
        /\ ~Uncounting(Head(stack)) /\ \A v : ~Starting(Head(stack), v) /\ ~Handling(Head(stack), v)
    BY <1>1, <1>3, PassKind
  <2> HIDE DEF s
  <2>3. Count(s, {g \in Frame : Uncounting(g)}) = Count(stack, {g \in Frame : Uncounting(g)})
    BY <2>1, <2>2 DEF One
  <2>4. ASSUME NEW v \in URL
        PROVE  /\ Count(s, {g \in Frame : Starting(g, v)}) = Count(stack, {g \in Frame : Starting(g, v)})
               /\ Count(s, {g \in Frame : Handling(g, v)}) = Count(stack, {g \in Frame : Handling(g, v)})
    BY <2>1, <2>2 DEF One
  <2> QED
    BY <2>3, <2>4 DEF Uncounters, Starters, Handlers
<1> HIDE DEF s
<1> QED
  BY <1>1, <1>4, <1>5, <1>6, InterruptsParts

(* While all is sound, what a pass has fetched is there.                   *)
LEMMA PassInterruptsFreedIInv ==
  ASSUME Sound, NEW w \in Window, NEW u \in URL, PassInterruptsFreed(w, u)
  PROVE  FALSE
<1>1. stack # <<>> /\ u \in Head(stack).next \ active
  BY DEF PassInterruptsFreed, Passing, Running
<1> QED
  BY <1>1, TrustReturn

LEMMA PassRepeatsIInv ==
  ASSUME Sound, NEW w \in Window, PassRepeats(w), ~dangling'
  PROVE  Parts'
<1>0. Typed /\ stack \in Seq(Frame)
  BY FramesType DEF Sound, Typed
<1>1. /\ stack # <<>> /\ Head(stack).op = "firstPass" /\ Head(stack) \in Frame
      /\ WindowOf[Head(stack).url] = w
  BY <1>0, HeadCounts DEF PassRepeats, Running
<1>2. PICK first \in FirstOf(w) : stack' = Top(PassOn("lastPass", w, first))
  BY DEF PassRepeats
<1> DEFINE f == PassOn("lastPass", w, first)
<1>3. f \in Frame /\ f.op = "lastPass" /\ f.next \subseteq active
  <2>1. Head(stack).url \in URL
    BY <1>1 DEF Frame
  <2>2. \E u \in URL : WindowOf[u] = w
    BY <1>1, <2>1
  <2> QED
    BY <1>0, <2>2, FirstIsEntry, PassFrame
<1>4. AbortWaiting(w) /\ UNCHANGED <<count, active, busy, connected, marks, begun, history>>
  BY DEF PassRepeats
<1>5. stack' = Top(f)
  BY <1>2
<1> HIDE DEF f
<1>6. /\ Uncounters' = Uncounters /\ Lookers' = Lookers
      /\ \A v \in URL : Starters(v)' = Starters(v) /\ Handlers(v)' = Handlers(v)
  BY <1>0, <1>1, <1>3, <1>5, CallReplaced, PassKind, CountsNat DEF Bit
<1>7. PointPart'
  <2>1. f.op # "redo"
    BY <1>3
  <2> QED
    BY <1>1, <1>3, <1>4, <1>5, <2>1, TrustReturn, TrustPushed DEF PointPart, Top
<1> QED
  BY <1>4, <1>6, <1>7, AbortParts DEF Parts

LEMMA PassEndsIInv ==
  ASSUME Sound, NEW w \in Window, PassEnds(w), ~dangling'
  PROVE  Parts'
<1>0. Typed /\ ExactPart /\ PlacePart /\ EntryPart /\ QueuePart
  BY DEF Sound, Parts
<1>1. stack # <<>> /\ Head(stack).op = "lastPass" /\ stack' = Return
  BY DEF PassEnds, Running
<1>2. /\ Uncounters' = Uncounters /\ Lookers' = Lookers
      /\ \A v \in URL : Starters(v)' = Starters(v) /\ Handlers(v)' = Handlers(v)
  BY <1>0, <1>1, CallReturns, PassKind, CountsNat DEF Bit
<1>3. /\ UNCHANGED <<count, active, busy, connected, prefetch, begun, exits, leaked, stranded>>
      /\ \A v \in URL : InQueue(v)' = InQueue(v)
  BY QueueKept DEF PassEnds, lists, marks, client, history
<1>4. ExactPart' /\ PlacePart' /\ EntryPart' /\ QueuePart'
  BY <1>0, <1>2, <1>3 DEF ExactPart, PlacePart, EntryPart, QueuePart, Expected
<1>5. PointPart'
  BY <1>1, <1>3, TrustReturn DEF PointPart
<1> QED
  BY <1>4, <1>5 DEF Parts

--------------------------------------------------------------------------------
(* The types, which nothing disturbs.                                      *)
LEMMA StartTyped == ASSUME Typed, NEW u \in URL, Start(u) PROVE Typed'
<1>1. stack # <<>>
  BY DEF Start, StartQueued, StartEnds, StartRefused, StartNoMemory, StartAdmitted,
         Starts, Running
<1>2. stack' = Return \/ stack' = Top(Check(u)) \/ stack' = Top(CallOn("init", u))
  BY DEF Start, StartQueued, StartEnds, StartRefused, StartNoMemory, StartAdmitted
<1>3. stack' \in Frames
  BY <1>1, <1>2, CallType, CallReturns, CallReplaced DEF Check, Ops
<1>4. waiting' \in Seq(URL)
  <2>1. waiting' = Pushed(u) \/ waiting' = waiting
    BY DEF Start, StartQueued, StartEnds, StartRefused, StartNoMemory, StartAdmitted, lists
  <2> QED
    BY <2>1, QueuePushed DEF Typed
<1>5. exits' \in [URL -> Nat]
  <2>1. exits' = exits \/ Exit(u)
    BY DEF Start, StartQueued, StartEnds, StartRefused, StartNoMemory, StartAdmitted, client
  <2> QED
    BY <2>1 DEF Typed, Exit
<1>6. count' \in Int /\ leaked' \in Nat /\ faults' \in 0..MaxFaults
  BY LimitAssumption
  DEF Start, StartQueued, StartEnds, StartRefused, StartNoMemory, StartAdmitted, Typed,
      history, Fault
<1>7. /\ active' \subseteq URL /\ busy' \subseteq URL /\ connected' \subseteq URL
      /\ prefetch' \subseteq URL /\ cacheOnly' \subseteq URL /\ begun' \subseteq URL
  BY DEF Start, StartQueued, StartEnds, StartRefused, StartNoMemory, StartAdmitted, Typed,
         lists, marks, client
<1>8. stranded' \in BOOLEAN /\ dangling' \in BOOLEAN
  BY DEF Start, StartQueued, StartEnds, StartRefused, StartNoMemory, StartAdmitted, Typed,
         history
<1> QED
  BY <1>3, <1>4, <1>5, <1>6, <1>7, <1>8 DEF Typed

LEMMA HandlerTyped == ASSUME Typed, NEW u \in URL, Handler(u) PROVE Typed'
<1>1. stack # <<>>
  BY DEF Handler, HandlerConnects, HandlerContinues, HandlerUsesFTP, HandlerEnds,
         HandlerRestarts, HandlerRetries, Handles, InHandler, Running
<1>2. stack' \in Frames
  <2>1. CallOn("start", u) \in Frame /\ Check(u) \in Frame /\ CallOn("redo", u) \in Frame
    BY CallType DEF Check, Ops
  <2>2. CASE HandlerConnects(u)
    BY <2>2 DEF HandlerConnects, Typed
  <2>3. CASE stack' = Return
    BY <1>1, <2>3, CallReturns
  <2>4. CASE stack' = Top(Check(u)) \/ stack' = Top(CallOn("redo", u))
    BY <1>1, <2>1, <2>4, CallReplaced
  <2>5. CASE HandlerRestarts(u)
    <3>1. Return \in Seq(Frame)
      BY <1>1, FramesType DEF Typed, Return
    <3> DEFINE f == CallOn("start", u)
               h == Check(u)
    <3>2. f \in Frame /\ h \in Frame /\ stack' = <<f, h>> \o Return
      BY <2>1, <2>5 DEF HandlerRestarts
    <3> HIDE DEF f, h
    <3>3. stack' = <<f>> \o (<<h>> \o Return)
      BY <3>1, <3>2, TwoCalls, SMTT(30)
    <3> QED
      BY <1>1, <3>2, <3>3, CallReplacedByTwo
  <2> QED
    BY <2>2, <2>3, <2>4, <2>5
    DEF Handler, HandlerContinues, HandlerUsesFTP, HandlerEnds, HandlerRetries
<1>3. waiting' \in Seq(URL)
  <2>1. waiting' = Pushed(u) \/ waiting' = waiting
    BY DEF Handler, HandlerConnects, HandlerContinues, HandlerUsesFTP, HandlerEnds,
           HandlerRestarts, HandlerRetries
  <2> QED
    BY <2>1, QueuePushed DEF Typed
<1>4. exits' \in [URL -> Nat]
  <2>1. exits' = exits \/ Exit(u)
    BY DEF Handler, HandlerConnects, HandlerContinues, HandlerUsesFTP, HandlerEnds,
           HandlerRestarts, HandlerRetries, client
  <2> QED
    BY <2>1 DEF Typed, Exit
<1>5. active' \subseteq URL /\ busy' \subseteq URL /\ connected' \subseteq URL
  BY DEF Handler, HandlerConnects, HandlerContinues, HandlerUsesFTP, HandlerEnds,
         HandlerRestarts, HandlerRetries, Typed, Gone
<1>6. dangling' \in BOOLEAN /\ stranded' \in BOOLEAN
  BY DEF Handler, HandlerConnects, HandlerContinues, HandlerUsesFTP, HandlerEnds,
         HandlerRestarts, HandlerRetries, Typed, Gone, history
<1>7. count' \in Int /\ leaked' \in Nat /\ faults' \in 0..MaxFaults
  BY LimitAssumption
  DEF Handler, HandlerConnects, HandlerContinues, HandlerUsesFTP, HandlerEnds,
      HandlerRestarts, HandlerRetries, Typed, history, Fault
<1>8. UNCHANGED <<marks, begun>>
  BY DEF Handler, HandlerConnects, HandlerContinues, HandlerUsesFTP, HandlerEnds,
         HandlerRestarts, HandlerRetries, client
<1> QED
  BY <1>2, <1>3, <1>4, <1>5, <1>6, <1>7, <1>8 DEF Typed, marks

LEMMA CheckTyped == ASSUME Typed, CheckForWaitingURL PROVE Typed'
<1> DEFINE next(op) == [Head(stack) EXCEPT !.op = op]
<1>1. stack # <<>> /\ Head(stack) \in Frame
  <2>1. stack # <<>>
    BY DEF CheckForWaitingURL, CheckDecrement, CheckNone, CheckRelease, Running
  <2> QED
    BY <2>1, HeadCounts
<1>2. \A op \in Ops : next(op) \in Frame
  BY <1>1 DEF Frame
<1>3. ASSUME NEW op \in DOMAIN Phase PROVE NextFrame(op) \in Seq(Frame)
  <2>1. Return \in Seq(Frame)
    BY <1>1, FramesType DEF Typed, Return
  <2>2. Phase[op] \in {"any", "prefetch", "return"} /\ (op # "prefetch" => Phase[op] \in Ops)
    <3>1. Phase.preferred = "any" /\ Phase.any = "prefetch" /\ Phase.prefetch = "return"
      BY DEF Phase
    <3>2. op \in {"preferred", "any", "prefetch"}
      BY DEF Phase
    <3> QED
      BY <3>1, <3>2 DEF Ops, Phase
  <2>3. CASE op = "prefetch"
    BY <2>1, <2>3 DEF NextFrame
  <2>4. CASE op # "prefetch"
    <3>1. next(Phase[op]) \in Frame
      BY <1>2, <2>2, <2>4
    <3>2. NextFrame(op) = <<next(Phase[op])>> \o Return
      BY <2>4 DEF NextFrame, Top
    <3> HIDE DEF next
    <3> QED
      BY <2>1, <3>1, <3>2, PushCount
  <2> QED
    BY <2>3, <2>4
<1>4. CASE CheckDecrement
  <2>1. stack' \in Frames
    <3>1. next("preferred") \in Frame /\ stack' = Top(next("preferred"))
      BY <1>2, <1>4 DEF CheckDecrement, Ops, Phase
    <3> QED
      BY <1>1, <3>1, CallReplaced
  <2>2. count' \in Int
    <3>1. count' = IF count <= 0 THEN 0 ELSE count - 1
      BY <1>4, Zenon DEF CheckDecrement
    <3>2. count \in Int
      BY DEF Typed
    <3> QED
      BY <3>1, <3>2
  <2>3. stranded' \in BOOLEAN
    BY <1>4, Zenon DEF CheckDecrement
  <2> QED
    BY <1>4, <2>1, <2>2, <2>3 DEF CheckDecrement, Typed, lists, marks, client
<1>5. CASE \E op \in DOMAIN Phase : CheckNone(op)
  BY <1>3, <1>5, FramesType DEF CheckNone, Typed, lists, marks, client, history
<1>6. ASSUME NEW op \in DOMAIN Phase, CheckRelease(op) PROVE Typed'
  <2>1. PICK k : /\ k = SelectInSeq(waiting, LAMBDA v : v \in Releasable(op))
                 /\ waiting' = RemoveAt(waiting, k) /\ prefetch' = prefetch \ {waiting[k]}
                 /\ stack' = <<CallOn("start", waiting[k])>> \o NextFrame(op)
    BY <1>6 DEF CheckRelease
  <2>2. k \in DOMAIN waiting
    BY <1>6, <2>1, FirstReleasable DEF CheckRelease
  <2>3. waiting' \in Seq(URL) /\ waiting[k] \in URL
    BY <2>1, <2>2, QueueReleased
  <2>4. CallOn("start", waiting[k]) \in Frame
    BY <2>3, CallType DEF Ops
  <2>5. stack' \in Frames
    BY <1>3, <2>1, <2>4, PushCount, FramesType
  <2> QED
    BY <1>6, <2>1, <2>3, <2>5 DEF CheckRelease, Typed, client, history
<1> QED
  BY <1>4, <1>5, <1>6 DEF CheckForWaitingURL

LEMMA AbortTyped ==
  ASSUME Typed, NEW w, AbortWaiting(w)
  PROVE  waiting' \in Seq(URL) /\ exits' \in [URL -> Nat]
<1>1. waiting' \in Seq(URL)
  BY QueueAborted DEF AbortWaiting
<1>2. exits' \in [URL -> Nat]
  BY DEF AbortWaiting, Typed
<1> QED
  BY <1>1, <1>2

LEMMA PassTyped == ASSUME Typed, NEW w \in Window, Pass(w) PROVE Typed'
<1>1. stack # <<>> /\ Head(stack) \in Frame /\ Head(stack).op \in Ops /\ WindowOf[Head(stack).url] = w
  <2>1. stack # <<>> /\ WindowOf[Head(stack).url] = w
    BY DEF Pass, PassInterrupts, PassInterruptsFreed, PassRepeats, PassEnds, Passing, Running
  <2>2. Head(stack) \in Frame
    BY <2>1, HeadCounts
  <2> QED
    BY <2>1, <2>2 DEF Frame
<1>2. ASSUME NEW op \in Ops, NEW next \in SUBSET URL PROVE PassOn(op, w, next) \in Frame
  <2>1. Head(stack).url \in URL
    BY <1>1 DEF Frame
  <2>2. (CHOOSE u \in URL : WindowOf[u] = w) \in URL
    BY <1>1, <2>1
  <2> QED
    BY <1>2, <2>2 DEF PassOn, Frame
<1>3. Return \in Seq(Frame)
  BY <1>1, FramesType DEF Typed, Return
<1>4. ASSUME NEW u \in URL, NEW op \in Ops, NEW next \in SUBSET URL,
             stack' = <<CallOn("interrupt", u)>> \o Top(PassOn(op, w, next))
      PROVE  stack' \in Frames
  <2>1. Top(PassOn(op, w, next)) \in Seq(Frame)
    BY <1>2, <1>3, <1>4, PushCount DEF Top
  <2>2. CallOn("interrupt", u) \in Frame
    BY CallType DEF Ops
  <2> QED
    BY <1>4, <2>1, <2>2, PushCount, FramesType
<1>5. ASSUME NEW u \in URL, PassInterrupts(w, u) PROVE Typed'
  <2>1. PICK next \in {{}} \cup {{v} : v \in active \ {u}} :
          Interrupts(u, Top(PassOn(Head(stack).op, w, next)))
    BY <1>5 DEF PassInterrupts
  <2>2. next \in SUBSET URL
    BY <2>1 DEF Typed
  <2>3. stack' \in Frames
    BY <1>1, <1>4, <2>1, <2>2 DEF Interrupts
  <2>4. /\ active' \subseteq URL /\ busy' \subseteq URL /\ connected' \subseteq URL
        /\ dangling' \in BOOLEAN
    BY <2>1 DEF Interrupts, Gone, Typed
  <2>5. UNCHANGED <<count, waiting, prefetch, cacheOnly, begun, exits, leaked, stranded, faults>>
    BY <1>5 DEF PassInterrupts, marks, client
  <2> QED
    BY <2>3, <2>4, <2>5, SMTT(30) DEF Typed
<1>6. ASSUME NEW u \in URL, PassInterruptsFreed(w, u) PROVE Typed'
  <2>1. stack' \in Frames
    <3>1. stack' = <<CallOn("interrupt", u)>> \o Top(PassOn(Head(stack).op, w, {}))
      BY <1>6 DEF PassInterruptsFreed
    <3>2. Head(stack).op \in Ops /\ {} \in SUBSET URL
      BY <1>1
    <3> QED
      BY <1>4, <3>1, <3>2, Zenon
  <2>2. UNCHANGED <<count, lists, marks, client, history, faults>>
    BY <1>6 DEF PassInterruptsFreed
  <2> QED
    BY <2>1, <2>2 DEF Typed, lists, marks, client, history
<1>7. CASE PassRepeats(w)
  <2>1. PICK first \in FirstOf(w) : stack' = Top(PassOn("lastPass", w, first))
    BY <1>7 DEF PassRepeats
  <2>2. first \in SUBSET URL
    BY <2>1 DEF FirstOf, Interruptible, OfWindow
  <2>3. stack' \in Frames
    BY <1>1, <1>2, <2>1, <2>2, CallReplaced DEF Ops
  <2>4. waiting' \in Seq(URL) /\ exits' \in [URL -> Nat]
    BY <1>7, AbortTyped DEF PassRepeats
  <2> QED
    BY <1>7, <2>3, <2>4 DEF PassRepeats, Typed, marks, history
<1>8. CASE PassEnds(w)
  <2>1. stack' \in Frames
    BY <1>1, <1>8, CallReturns DEF PassEnds
  <2> QED
    BY <1>8, <2>1 DEF PassEnds, Typed, lists, marks, client, history
<1> QED
  BY <1>5, <1>6, <1>7, <1>8 DEF Pass

LEMMA TypedStep == ASSUME Typed, Next PROVE Typed'
<1>1. ASSUME NEW u \in URL, GetURL(u) PROVE Typed'
  <2>1. stack' \in Frames
    BY <1>1, CallType, CallBegins DEF GetURL, Ops
  <2> QED
    BY <1>1, <2>1 DEF GetURL, Typed, lists, marks, history
<1>2. ASSUME NEW u \in URL, ProcessNet(u) PROVE Typed'
  <2>1. stack' \in Frames
    BY <1>2, CallType, CallBegins DEF ProcessNet, Ops
  <2> QED
    BY <1>2, <2>1 DEF ProcessNet, Typed, marks, client, history
<1>3. ASSUME NEW u \in URL, InterruptStream(u) PROVE Typed'
  <2>1. stack' \in Frames
    BY <1>3, CallType, CallBegins DEF InterruptStream, Interrupts, Ops
  <2>2. /\ active' \subseteq URL /\ busy' \subseteq URL /\ connected' \subseteq URL
        /\ dangling' \in BOOLEAN /\ faults' \in 0..MaxFaults
    BY <1>3, LimitAssumption DEF InterruptStream, Interrupts, Gone, Typed, Fault
  <2> QED
    BY <1>3, <2>1, <2>2 DEF InterruptStream, Typed, marks, client
<1>4. ASSUME NEW u \in URL, InterruptReturn(u) PROVE Typed'
  <2>1. stack' \in Frames
    BY <1>4, CallReturns DEF InterruptReturn, Running
  <2>2. exits' \in [URL -> Nat]
    BY <1>4 DEF InterruptReturn, Exit, Typed
  <2> QED
    BY <1>4, <2>1, <2>2 DEF InterruptReturn, Typed, lists, marks
<1>5. ASSUME NEW w \in Window, NEW op \in {"firstPass", "lastPass"}, InterruptWindow(w, op)
      PROVE  Typed'
  <2>1. PICK first \in FirstOf(w) : stack' = <<PassOn(op, w, first)>> \o stack
    BY <1>5 DEF InterruptWindow
  <2>2. first \in SUBSET URL
    BY <2>1 DEF FirstOf, Interruptible, OfWindow
  <2>3. (CHOOSE u \in URL : WindowOf[u] = w) \in URL
    BY <1>5 DEF InterruptWindow, OfWindow
  <2>4. PassOn(op, w, first) \in Frame
    BY <2>2, <2>3 DEF PassOn, Frame, Ops
  <2>5. stack' \in Frames
    BY <2>1, <2>4, CallBegins
  <2>6. waiting' \in Seq(URL) /\ exits' \in [URL -> Nat] /\ faults' \in 0..MaxFaults
    BY <1>5, AbortTyped, LimitAssumption DEF InterruptWindow, Typed, Fault
  <2> QED
    BY <1>5, <2>5, <2>6 DEF InterruptWindow, Typed, marks, history
<1> QED
  BY <1>1, <1>2, <1>3, <1>4, <1>5, StartTyped, HandlerTyped, CheckTyped, PassTyped DEF Next

(* What was freed under a call stays freed under it.                       *)
LEMMA StaysDangling == ASSUME Typed, Next, dangling PROVE dangling'
<1>1. CASE \E u \in URL : GetURL(u) \/ Start(u) \/ ProcessNet(u) \/ InterruptReturn(u)
  BY <1>1 DEF GetURL, Start, StartQueued, StartEnds, StartRefused, StartNoMemory,
              StartAdmitted, ProcessNet, InterruptReturn, history
<1>2. CASE \E u \in URL : Handler(u) \/ InterruptStream(u)
  BY <1>2 DEF Handler, HandlerConnects, HandlerContinues, HandlerUsesFTP, HandlerEnds,
              HandlerRestarts, HandlerRetries, InterruptStream, Interrupts, Gone, history
<1>3. CASE CheckForWaitingURL
  BY <1>3 DEF CheckForWaitingURL, CheckDecrement, CheckNone, CheckRelease, history
<1>4. CASE \E w \in Window : \E op \in {"firstPass", "lastPass"} : InterruptWindow(w, op)
  BY <1>4 DEF InterruptWindow, history
<1>5. ASSUME NEW w \in Window, Pass(w) PROVE dangling'
  <2>1. CASE \E u \in URL : PassInterrupts(w, u)
    BY <2>1 DEF PassInterrupts, Interrupts, Gone
  <2>2. CASE \E u \in URL : PassInterruptsFreed(w, u)
    BY <2>2 DEF PassInterruptsFreed, history
  <2>3. CASE PassRepeats(w) \/ PassEnds(w)
    BY <2>3 DEF PassRepeats, PassEnds, history
  <2> QED
    BY <1>5, <2>1, <2>2, <2>3 DEF Pass
<1> QED
  BY <1>1, <1>2, <1>3, <1>4, <1>5 DEF Next

LEMMA NextIInv == ASSUME IInv, [Next]_vars PROVE IInv'
<1>1. CASE UNCHANGED vars
  <2>1. UNCHANGED <<count, waiting, active, busy, connected, prefetch, cacheOnly, stack,
                    begun, exits, leaked, stranded, dangling, faults>>
    BY <1>1 DEF vars, lists, marks, client, history
  <2>2. Typed' = Typed /\ ExactPart' = ExactPart /\ PlacePart' = PlacePart
    BY <2>1, StackKept, QueueKept DEF Typed, ExactPart, PlacePart
  <2>3. EntryPart' = EntryPart /\ PointPart' = PointPart /\ QueuePart' = QueuePart
    BY <2>1, StackKept, QueueKept DEF EntryPart, PointPart, Trusted, QueuePart, Expected
  <2> QED
    BY <2>1, <2>2, <2>3 DEF IInv, Parts
<1>2. ASSUME Next PROVE Typed'
  BY <1>2, TypedStep DEF IInv
<1>3. ASSUME Next, ~dangling' PROVE Parts'
  <2>1. Sound
    BY <1>3, StaysDangling DEF IInv, Sound
  <2>2. ASSUME NEW u \in URL, \/ GetURL(u) \/ Start(u) \/ ProcessNet(u) \/ Handler(u)
                              \/ InterruptStream(u) \/ InterruptReturn(u)
        PROVE  Parts'
    BY <1>3, <2>1, <2>2, GetURLIInv, StartQueuedIInv, StartEndsIInv, StartRefusedIInv,
       StartNoMemoryIInv, StartAdmittedIInv, ProcessNetIInv, HandlerConnectsIInv,
       HandlerContinuesIInv, HandlerUsesFTPIInv, HandlerEndsIInv, HandlerRestartsIInv,
       HandlerRetriesIInv, InterruptStreamIInv, InterruptReturnIInv
    DEF Start, Handler
  <2>3. ASSUME NEW w \in Window,
               \/ \E op \in {"firstPass", "lastPass"} : InterruptWindow(w, op)
               \/ PassRepeats(w) \/ PassEnds(w)
        PROVE  Parts'
    BY <1>3, <2>1, <2>3, InterruptWindowIInv, PassRepeatsIInv, PassEndsIInv
  <2>4. ASSUME NEW w \in Window, NEW u \in URL, PassInterrupts(w, u) \/ PassInterruptsFreed(w, u)
        PROVE  Parts'
    BY <1>3, <2>1, <2>4, PassInterruptsIInv, PassInterruptsFreedIInv
  <2>5. CASE CheckForWaitingURL
    BY <1>3, <2>1, <2>5, CheckDecrementIInv, CheckNoneIInv, CheckReleaseIInv
    DEF CheckForWaitingURL
  <2> QED
    BY <1>3, <2>2, <2>3, <2>4, <2>5 DEF Next, Pass
<1> QED
  BY <1>1, <1>2, <1>3 DEF IInv

(* The inductive invariant: types always, and, until an entry is freed     *)
(* that a call in progress still points to, what is counted, where each    *)
(* URL is, whose entry it is, and who will look at the queue.              *)
THEOREM IInvAlways == Spec => []IInv
  BY InitIInv, NextIInv, PTL DEF Spec

(* The variables keep their types; in particular the number of processing  *)
(* URLs, which the code decrements in four places, does not go below zero  *)
(* (until an entry is freed that a call in progress still points to).      *)
THEOREM TypeCorrect == Spec => []TypeOK
<1>1. IInv => TypeOK
  <2>1. ASSUME Sound PROVE count \in Nat
    <3>1. /\ count = Cardinality(active) + Uncounters + leaked
          /\ Cardinality(active) \in Nat /\ Uncounters \in Nat /\ leaked \in Nat
      BY <2>1, CountsNat, ActiveFinite DEF Sound, Parts, ExactPart, Typed
    <3> QED
      BY <3>1
  <2> QED
    BY <2>1 DEF IInv, Sound, TypeOK
<1> QED
  BY <1>1, IInvAlways, PTL

(* How often something occurs, in the terms of the properties.             *)
LEMMA Occurrences ==
  ASSUME Typed
  PROVE  /\ Places(stack, LAMBDA f : f.op \in {"decrement", "interrupt"}) = Uncounters
         /\ \A u : /\ Places(waiting, LAMBDA v : v = u) = InQueue(u)
                   /\ Places(stack, LAMBDA f : f.op \in {"start", "interrupt"} /\ f.url = u)
                      = Starters(u)
<1>1. \A i \in DOMAIN stack : stack[i] \in Frame
  BY FramesType DEF Typed
<1>2. {i \in DOMAIN stack : stack[i].op \in {"decrement", "interrupt"}}
        = Pos(stack, {f \in Frame : Uncounting(f)})
  BY <1>1 DEF Pos, Uncounting
<1>3. ASSUME NEW u PROVE {i \in DOMAIN waiting : waiting[i] = u} = Pos(waiting, {u})
  BY DEF Pos
<1>4. ASSUME NEW u
      PROVE  {i \in DOMAIN stack : stack[i].op \in {"start", "interrupt"} /\ stack[i].url = u}
               = Pos(stack, {f \in Frame : Starting(f, u)})
  BY <1>1 DEF Pos, Starting
<1>5. Places(stack, LAMBDA f : f.op \in {"decrement", "interrupt"}) = Uncounters
  BY <1>2, Zenon DEF Places, Uncounters, Count
<1>6. ASSUME NEW u PROVE Places(waiting, LAMBDA v : v = u) = InQueue(u)
  BY <1>3, Zenon DEF Places, InQueue, Count
<1>7. ASSUME NEW u
      PROVE  Places(stack, LAMBDA f : f.op \in {"start", "interrupt"} /\ f.url = u) = Starters(u)
  BY <1>4, Zenon DEF Places, Starters, Count
<1> QED
  BY <1>5, <1>6, <1>7

(* NET_TotalNumberOfProcessingURLs is exact: what is counted is an entry,  *)
(* will be uncounted by a call in progress -- net_CheckForWaitingURL or an *)
(* interrupt -- or is one of the known losses.  (Not once an entry was     *)
(* freed under a call that still points to it.)                            *)
THEOREM CountAlwaysExact == Spec => []CountExact
<1>1. ASSUME IInv, ~dangling PROVE CountExact
  <2>1. /\ count = Cardinality(active) + Uncounters + leaked /\ Uncounters \in Nat
        /\ Cardinality(active) \in Nat /\ leaked \in Nat
        /\ Places(stack, LAMBDA f : f.op \in {"decrement", "interrupt"}) = Uncounters
    BY <1>1, Occurrences, CountsNat, ActiveFinite DEF IInv, Parts, ExactPart, Typed
  <2> QED
    BY <2>1 DEF CountExact
<1>2. IInv => CountExact
  BY <1>1 DEF CountExact
<1> QED
  BY <1>2, IInvAlways, PTL

(* Each URL the client has asked for is queued, has an entry, is on its    *)
(* way in a NET_GetURL, is being interrupted, or has had its exit routine  *)
(* called -- once.  (Not once an entry was freed under a call that still   *)
(* points to it.)                                                          *)
THEOREM OnePlaceAlways == Spec => []OnePlace
<1>1. \A u, F : Cardinality(F \cap {u}) = One(u, F)
  <2> SUFFICES ASSUME NEW u, NEW F PROVE Cardinality(F \cap {u}) = One(u, F)
    OBVIOUS
  <2>1. CASE u \in F
    <3>1. F \cap {u} = {u}
      BY <2>1
    <3> QED
      BY <2>1, <3>1, FS_Singleton DEF One
  <2>2. CASE u \notin F
    <3>1. F \cap {u} = {}
      BY <2>2
    <3> QED
      BY <2>2, <3>1, FS_EmptySet DEF One
  <2> QED
    BY <2>1, <2>2
<1>2. ASSUME IInv, ~dangling, NEW u \in URL
      PROVE  Places(waiting, LAMBDA v : v = u) + Cardinality(active \cap {u}) + exits[u]
               + Places(stack, LAMBDA f : f.op \in {"start", "interrupt"} /\ f.url = u)
             = Cardinality(begun \cap {u})
  <2>1. InQueue(u) + One(u, active) + Starters(u) + exits[u] = One(u, begun)
    BY <1>2 DEF IInv, Parts, PlacePart
  <2>2. /\ Places(waiting, LAMBDA v : v = u) = InQueue(u)
        /\ Places(stack, LAMBDA f : f.op \in {"start", "interrupt"} /\ f.url = u) = Starters(u)
        /\ InQueue(u) \in Nat /\ Starters(u) \in Nat /\ exits[u] \in Nat
        /\ One(u, active) \in Nat
    BY <1>2, Occurrences, CountsNat DEF IInv, Typed, One
  <2> QED
    BY <1>1, <2>1, <2>2
<1>3. IInv => OnePlace
  BY <1>2 DEF OnePlace
<1> QED
  BY <1>3, IInvAlways, PTL

(* The entry whose handler runs is there, and busy, until the handler has  *)
(* returned, and no other handler is given it meanwhile.  (Not for the     *)
(* second handler of a file that is tried again with FTP, and not once an  *)
(* entry was freed under a call that still points to it.)                  *)
THEOREM HandlerAlwaysKeepsEntry == Spec => []HandlerKeepsEntry
<1>1. ASSUME IInv, ~dangling, NEW i \in DOMAIN stack, stack[i].op \in {"init", "process"}
      PROVE  /\ stack[i].url \in active \cap busy
             /\ \A j \in DOMAIN stack :
                  stack[j].op \in {"init", "process"} /\ stack[j].url = stack[i].url => i = j
  <2> DEFINE u == stack[i].url
             P == Pos(stack, {f \in Frame : Handling(f, u)})
  <2>1. Typed /\ EntryPart /\ \A j \in DOMAIN stack : stack[j] \in Frame
    BY <1>1, FramesType DEF IInv, Parts, Typed
  <2>2. u \in URL
    BY <1>1, <2>1 DEF Frame
  <2>3. \A j \in DOMAIN stack :
          stack[j].op \in {"init", "process"} /\ stack[j].url = u => j \in P
    BY <2>1 DEF Pos, Handling
  <2>4. i \in P /\ IsFiniteSet(P) /\ Handlers(u) = Cardinality(P)
    <3>1. stack \in Seq(Frame)
      BY <2>1, FramesType DEF Typed
    <3>2. IsFiniteSet(P)
      BY <3>1, PosFinite
    <3> QED
      BY <1>1, <2>3, <3>2 DEF Handlers, Count
  <2> HIDE DEF P, u
  <2>5. Cardinality(P) \in Nat /\ Cardinality(P) # 0 /\ Cardinality(P) <= 1
    BY <2>1, <2>2, <2>4, FS_CardinalityType, FS_EmptySet DEF EntryPart
  <2>6. u \in active \cap busy
    BY <2>1, <2>2, <2>4, <2>5 DEF EntryPart
  <2>7. ASSUME NEW j \in P PROVE j = i
    <3>1. PICK x : P = {x}
      BY <2>4, <2>5, FS_Singleton
    <3> QED
      BY <2>4, <2>7, <3>1
  <2>8. stack[i].url \in active \cap busy
    BY <2>6 DEF u
  <2>9. \A j \in DOMAIN stack :
          stack[j].op \in {"init", "process"} /\ stack[j].url = stack[i].url => i = j
    BY <2>3, <2>7 DEF u
  <2> QED
    BY <2>8, <2>9
<1>2. IInv => HandlerKeepsEntry
  BY <1>1 DEF HandlerKeepsEntry
<1> QED
  BY <1>2, IInvAlways, PTL

(* No URL but a prefetch is left in the queue with nobody to come and      *)
(* look, unless an interrupt, a retry or a lack of memory took an entry    *)
(* without looking at the queue, lost counts fill the limit, or an entry   *)
(* was freed under a call that still points to it.                         *)
THEOREM QueueAlwaysServed == Spec => []QueueServed
<1>1. ASSUME IInv, stack = <<>>, active = {}, ~stranded, leaked < MaxProcessing, ~dangling
      PROVE  ToSet(waiting) \subseteq prefetch
  <2>1. Lookers = 0 /\ \A u : Starters(u) = 0
    <3>1. \A F : Pos(stack, F) = {}
      BY <1>1 DEF Pos
    <3>2. \A F : Count(stack, F) = 0
      BY <3>1, FS_EmptySet DEF Count
    <3> QED
      BY <3>2 DEF Lookers, Starters
  <2>2. ~Expected
    <3>1. leaked \in Nat /\ MaxProcessing \in Nat
      BY <1>1, LimitAssumption DEF IInv, Typed
    <3> QED
      BY <1>1, <2>1, <3>1 DEF Expected
  <2>3. \A u \in URL \ prefetch : ~(InQueue(u) > 0)
    BY <1>1, <2>2 DEF IInv, Parts, QueuePart
  <2> QED
    BY <1>1, <2>3, QueueMembers DEF IInv
<1>2. IInv => QueueServed
  BY <1>1 DEF QueueServed
<1> QED
  BY <1>2, IInvAlways, PTL
================================================================================
