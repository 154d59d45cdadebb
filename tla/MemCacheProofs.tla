----------------------------- MODULE MemCacheProofs -----------------------------
(***************************************************************************)
(* Proofs about MemCache, for any finite sets of copies and readers, any   *)
(* keys, limits and bounds.                                                *)
(*                                                                         *)
(* The fields of a copy, whether it is kept, listed, written, orphaned or  *)
(* being completed, and how many read it are tied together copy by copy:   *)
(* Fits says how.  An action disturbs one or two copies, which have to fit *)
(* again; the others do because nothing about them has changed.            *)
(***************************************************************************)
EXTENDS MemCache, FiniteSetTheorems, SequenceTheorems, WellFoundedInduction, TLAPS

--------------------------------------------------------------------------------
(* The inductive invariant.                                                *)
Readers(c) == {r \in Reader : reading[r] = c}
N(c) == Cardinality(Readers(c))

(* What a copy with fields f may be like: in memory, on the list, with a   *)
(* writer in state w and n readers, orphaned, with a lock left on it, or   *)
(* being completed.                                                        *)
Fits(f, in, listed, w, n, orphan, leak, completing) ==
  /\ in => w # "none"
  /\ in /\ ~f.completed /\ ~f.aborted => w = "writing" \/ orphan
  /\ in /\ ~f.deleteMe => f.whole /\ listed
  /\ in /\ ~listed => f.readLock > 0 \/ ~f.completed
  /\ in /\ f.deleteMe => \/ w \in {"writing", "completing"} \/ n > 0
                         \/ orphan \/ leak
  /\ w = "writing" => in /\ listed /\ ~f.completed /\ ~f.aborted
  /\ w = "lost" => orphan
  /\ n <= f.readLock /\ (leak \/ n = f.readLock)
  /\ n > 0 => in /\ f.whole /\ (w = "writing" => ~f.deleteMe)
  /\ completing => w \in {"completing", "done"}

CopyPart(c) ==
  Fits(copy[c], c \in kept, c \in ToSet(list), writer[c], N(c), c \in orphans,
       c \in leaks, c \in ToSet(stack))

SizePart == size = Occupied(kept)

HashPart == \A k \in Key : hash[k] # None =>
              hash[k] \in kept /\ ~copy[hash[k]].deleteMe /\ KeyOf[hash[k]] = k

ListPart == ToSet(list) \subseteq kept /\ IsInjective(list)

IInv == TypeOK /\ SizePart /\ HashPart /\ ListPart /\ \A c \in Copy : CopyPart(c)

--------------------------------------------------------------------------------
(* What the operations on the list leave on it.                            *)

LEMMA LeastNatural ==
  ASSUME NEW S, S \subseteq Nat, S # {}
  PROVE  \E i \in S : \A j \in S : i <= j
<1>1. PICK i \in S : \A j \in S : <<j, i>> \notin OpToRel(<, Nat)
  BY WFMin, NatLessThanWellFounded, Zenon
<1>2. \A j \in S : ~(j < i)
  <2> SUFFICES ASSUME NEW j \in S, j < i PROVE FALSE
    OBVIOUS
  <2>1. j \in Nat /\ i \in Nat
    OBVIOUS
  <2> QED
    BY <1>1, <2>1, Zenon DEF OpToRel
<1> QED
  BY <1>2

LEMMA MinMember == ASSUME NEW S, S \subseteq Nat, S # {} PROVE Min(S) \in S
<1>1. \E i \in S : \A j \in S : i =< j
  BY LeastNatural
<1> QED
  BY <1>1 DEF Min

LEMMA MaxMember ==
  ASSUME NEW n \in Nat, NEW S, S \subseteq 1..n, S # {}
  PROVE  Max(S) \in S
<1> DEFINE T == {n - i : i \in S}
<1>1. \A i \in S : n - i \in Nat
  OBVIOUS
<1>6. T \subseteq Nat /\ T # {}
  BY <1>1
<1> HIDE DEF T
<1>2. PICK m \in T : \A j \in T : m <= j
  BY <1>6, LeastNatural
<1>3. PICK i \in S : m = n - i
  BY <1>2 DEF T
<1>4. \A j \in S : i >= j
  <2> SUFFICES ASSUME NEW j \in S PROVE i >= j
    OBVIOUS
  <2>1. n - j \in T
    BY DEF T
  <2> QED
    BY <1>2, <1>3, <2>1
<1>5. \E k \in S : \A j \in S : k >= j
  BY <1>4
<1> QED
  BY <1>5 DEF Max

(* The two pieces of a list without its i-th element.                      *)
Before(s, i) == SubSeq(s, 1, i - 1)
After(s, i) == SubSeq(s, i + 1, Len(s))

LEMMA Pieces ==
  ASSUME NEW S, NEW s \in Seq(S), NEW i \in 1..Len(s)
  PROVE  /\ Before(s, i) \in Seq(S) /\ Len(Before(s, i)) = i - 1
         /\ \A j \in 1..(i - 1) : Before(s, i)[j] = s[j]
         /\ After(s, i) \in Seq(S) /\ Len(After(s, i)) = Len(s) - i
         /\ \A j \in 1..(Len(s) - i) : After(s, i)[j] = s[i + j]
<1>1. Len(s) \in Nat /\ \A j \in 1..Len(s) : s[j] \in S
  OBVIOUS
<1> DEFINE l == Before(s, i)
           r == After(s, i)
<1>2. l \in Seq(S) /\ Len(l) = i - 1 /\ \A j \in 1..(i - 1) : l[j] = s[j]
  <2>1. \A j \in 1..(i - 1) : s[j] \in S
    BY <1>1
  <2>2. /\ l \in Seq(S) /\ Len(l) = IF 1 <= i - 1 THEN i - 1 - 1 + 1 ELSE 0
        /\ \A j \in 1..(i - 1 - 1 + 1) : l[j] = s[1 + j - 1]
    BY <1>1, <2>1, SubSeqProperties DEF Before
  <2> HIDE DEF l
  <2> QED
    BY <1>1, <2>2
<1>3. r \in Seq(S) /\ Len(r) = Len(s) - i /\ \A j \in 1..(Len(s) - i) : r[j] = s[i + j]
  <2> DEFINE m == i + 1
             n == Len(s)
  <2>1. m \in Int /\ n \in Int /\ \A j \in m..n : s[j] \in S
    BY <1>1
  <2> HIDE DEF m, n
  <2>2. /\ SubSeq(s, m, n) \in Seq(S)
        /\ Len(SubSeq(s, m, n)) = IF m <= n THEN n - m + 1 ELSE 0
        /\ \A j \in 1..(n - m + 1) : SubSeq(s, m, n)[j] = s[m + j - 1]
    BY <2>1, SubSeqProperties
  <2>3. r = SubSeq(s, m, n)
    BY DEF m, n, After
  <2> HIDE DEF r
  <2>4. /\ r \in Seq(S) /\ Len(r) = (IF m <= n THEN n - m + 1 ELSE 0)
        /\ \A j \in 1..(n - m + 1) : r[j] = s[m + j - 1]
    BY <2>2, <2>3
  <2>5. \A j \in 1..(Len(s) - i) : j \in 1..(n - m + 1) /\ m + j - 1 = i + j
    BY <1>1 DEF m, n
  <2>6. Len(r) = Len(s) - i
    BY <1>1, <2>4 DEF m, n
  <2>7. \A j \in 1..(Len(s) - i) : r[j] = s[i + j]
    BY <2>4, <2>5
  <2> QED
    BY <2>4, <2>6, <2>7
<1> QED
  BY <1>2, <1>3

(* Two lists one after the other.                                          *)
LEMMA Joined ==
  ASSUME NEW S, NEW s \in Seq(S), NEW t \in Seq(S)
  PROVE  /\ s \o t \in Seq(S) /\ ToSet(s \o t) = ToSet(s) \cup ToSet(t)
         /\ IsInjective(s) /\ IsInjective(t) /\ ToSet(s) \cap ToSet(t) = {}
              => IsInjective(s \o t)
<1> DEFINE q == s \o t
<1>1. /\ q \in Seq(S) /\ Len(q) = Len(s) + Len(t)
      /\ \A i \in 1..(Len(s) + Len(t)) :
           q[i] = IF i <= Len(s) THEN s[i] ELSE t[i - Len(s)]
  BY ConcatProperties
<1>2. /\ Len(s) \in Nat /\ Len(t) \in Nat
      /\ DOMAIN s = 1..Len(s) /\ DOMAIN t = 1..Len(t)
  OBVIOUS
<1> HIDE DEF q
<1>3. DOMAIN q = 1..(Len(s) + Len(t))
  BY <1>1
<1>4. \A i \in DOMAIN s : i \in DOMAIN q /\ q[i] = s[i]
  BY <1>1, <1>2, <1>3
<1>5. \A i \in DOMAIN t : Len(s) + i \in DOMAIN q /\ q[Len(s) + i] = t[i]
  BY <1>1, <1>2, <1>3
<1>6. \A i \in DOMAIN q :
        \/ i \in DOMAIN s /\ q[i] = s[i]
        \/ i - Len(s) \in DOMAIN t /\ q[i] = t[i - Len(s)]
  BY <1>1, <1>2, <1>3
<1>7. ToSet(q) = ToSet(s) \cup ToSet(t)
  <2>1. \A x \in ToSet(q) : x \in ToSet(s) \cup ToSet(t)
    BY <1>6 DEF ToSet
  <2>2. \A x \in ToSet(s) \cup ToSet(t) : x \in ToSet(q)
    BY <1>4, <1>5 DEF ToSet
  <2> QED
    BY <2>1, <2>2
<1>8. ASSUME IsInjective(s), IsInjective(t), ToSet(s) \cap ToSet(t) = {}
      PROVE  IsInjective(q)
  <2>1. \A i \in DOMAIN s, j \in DOMAIN t : s[i] # t[j]
    BY <1>8 DEF ToSet
  <2> SUFFICES ASSUME NEW a \in DOMAIN q, NEW b \in DOMAIN q, q[a] = q[b]
               PROVE  a = b
    BY DEF IsInjective
  <2>2. a \in Int /\ b \in Int /\ Len(s) \in Int
    BY <1>2, <1>3
  <2>3. CASE a \in DOMAIN s /\ q[a] = s[a] /\ b \in DOMAIN s /\ q[b] = s[b]
    BY <1>8, <2>3 DEF IsInjective
  <2>4. CASE a - Len(s) \in DOMAIN t /\ q[a] = t[a - Len(s)]
             /\ b - Len(s) \in DOMAIN t /\ q[b] = t[b - Len(s)]
    <3>1. a - Len(s) = b - Len(s)
      BY <1>8, <2>4 DEF IsInjective
    <3> QED
      BY <2>2, <3>1
  <2> QED
    BY <1>6, <2>1, <2>3, <2>4
<1> QED
  BY <1>1, <1>7, <1>8 DEF q

LEMMA Reversed ==
  ASSUME NEW S, NEW s \in Seq(S)
  PROVE  /\ Reverse(s) \in Seq(S) /\ ToSet(Reverse(s)) = ToSet(s)
         /\ IsInjective(s) => IsInjective(Reverse(s))
<1> DEFINE q == Reverse(s)
<1>1. Len(s) \in Nat /\ DOMAIN s = 1..Len(s) /\ \A i \in 1..Len(s) : s[i] \in S
  OBVIOUS
<1>2. \A i \in 1..Len(s) : Len(s) - i + 1 \in 1..Len(s)
                           /\ Len(s) - (Len(s) - i + 1) + 1 = i
  BY <1>1
<1>3. q = [i \in 1..Len(s) |-> s[(Len(s) - i) + 1]]
  BY DEF Reverse
<1> HIDE DEF q
<1>4. \A i \in 1..Len(s) : s[(Len(s) - i) + 1] \in S
  BY <1>1, <1>2
<1>5. q \in Seq(S)
  BY <1>1, <1>3, <1>4
<1>6. DOMAIN q = DOMAIN s /\ \A i \in DOMAIN s : q[i] = s[Len(s) - i + 1]
  BY <1>1, <1>3
<1>7. ToSet(q) = ToSet(s)
  <2>1. \A x \in ToSet(q) : x \in ToSet(s)
    BY <1>1, <1>2, <1>6 DEF ToSet
  <2>2. ASSUME NEW i \in DOMAIN s PROVE s[i] \in ToSet(q)
    <3>1. Len(s) - i + 1 \in DOMAIN q /\ q[Len(s) - i + 1] = s[i]
      BY <1>1, <1>2, <1>6
    <3> QED
      BY <3>1 DEF ToSet
  <2> QED
    BY <2>1, <2>2 DEF ToSet
<1>8. ASSUME IsInjective(s) PROVE IsInjective(q)
  <2> SUFFICES ASSUME NEW a \in DOMAIN q, NEW b \in DOMAIN q, q[a] = q[b]
               PROVE  a = b
    BY DEF IsInjective
  <2>1. Len(s) - a + 1 = Len(s) - b + 1
    BY <1>1, <1>2, <1>6, <1>8 DEF IsInjective
  <2> QED
    BY <1>1, <1>6, <2>1
<1> QED
  BY <1>5, <1>7, <1>8 DEF q

(* Taking the i-th element off a list, whichever way the rest is put       *)
(* together again.                                                         *)
LEMMA TakenOff ==
  ASSUME NEW S, NEW s \in Seq(S), IsInjective(s), NEW i \in DOMAIN s
  PROVE  LET l == Before(s, i)
             r == After(s, i)
         IN /\ l \in Seq(S) /\ r \in Seq(S) /\ IsInjective(l) /\ IsInjective(r)
            /\ ToSet(l) \cap ToSet(r) = {}
            /\ ToSet(l) \cup ToSet(r) = ToSet(s) \ {s[i]}
<1> DEFINE l == Before(s, i)
           r == After(s, i)
           n == Len(s)
<1>1. n \in Nat /\ DOMAIN s = 1..n /\ i \in 1..n
  OBVIOUS
<1>2. /\ l \in Seq(S) /\ Len(l) = i - 1 /\ \A j \in 1..(i - 1) : l[j] = s[j]
      /\ r \in Seq(S) /\ Len(r) = n - i /\ \A j \in 1..(n - i) : r[j] = s[i + j]
  BY <1>1, Pieces, ZenonT(30)
<1> HIDE DEF l, r, n
<1>3. DOMAIN l = 1..(i - 1) /\ DOMAIN r = 1..(n - i)
  BY <1>2
<1>4. \A j \in DOMAIN l : j \in DOMAIN s /\ j < i /\ l[j] = s[j]
  BY <1>1, <1>2, <1>3, SMTT(30)
<1>5. \A j \in DOMAIN r : i + j \in DOMAIN s /\ i + j > i /\ r[j] = s[i + j]
  BY <1>1, <1>2, <1>3, SMTT(30)
<1>6. \A j \in DOMAIN s : \/ j = i
                          \/ j \in DOMAIN l /\ s[j] = l[j]
                          \/ j - i \in DOMAIN r /\ s[j] = r[j - i]
  <2> SUFFICES ASSUME NEW j \in 1..n
               PROVE  \/ j = i
                      \/ j \in DOMAIN l /\ s[j] = l[j]
                      \/ j - i \in DOMAIN r /\ s[j] = r[j - i]
    BY <1>1
  <2>1. CASE j < i
    BY <1>1, <1>2, <1>3, <2>1
  <2>2. CASE j > i
    <3>1. j - i \in 1..(n - i) /\ i + (j - i) = j
      BY <1>1, <2>2
    <3>2. r[j - i] = s[i + (j - i)]
      BY <1>2, <3>1
    <3> QED
      BY <1>3, <3>1, <3>2
  <2>3. j < i \/ j = i \/ j > i
    BY <1>1
  <2> QED
    BY <2>1, <2>2, <2>3, Zenon
<1>7. \A a, b \in DOMAIN s : s[a] = s[b] => a = b
  BY DEF IsInjective
<1>8. IsInjective(l)
  BY <1>4, <1>7 DEF IsInjective
<1>9. IsInjective(r)
  <2> SUFFICES ASSUME NEW a \in DOMAIN r, NEW b \in DOMAIN r, r[a] = r[b]
               PROVE  a = b
    BY DEF IsInjective
  <2>1. i + a = i + b
    BY <1>5, <1>7
  <2> QED
    BY <1>1, <1>3, <2>1
<1>10. \A a \in DOMAIN l, b \in DOMAIN r : l[a] # r[b]
  <2> SUFFICES ASSUME NEW a \in DOMAIN l, NEW b \in DOMAIN r, l[a] = r[b]
               PROVE  FALSE
    OBVIOUS
  <2>1. a = i + b
    BY <1>4, <1>5, <1>7
  <2> QED
    BY <1>1, <1>3, <2>1
<1>11. ToSet(l) \cap ToSet(r) = {}
  BY <1>10 DEF ToSet
<1>12. ToSet(l) \cup ToSet(r) = ToSet(s) \ {s[i]}
  <2>1. \A j \in DOMAIN l : l[j] \in ToSet(s) /\ l[j] # s[i]
    BY <1>1, <1>4, <1>7 DEF ToSet
  <2>2. \A j \in DOMAIN r : r[j] \in ToSet(s) /\ r[j] # s[i]
    BY <1>1, <1>5, <1>7 DEF ToSet
  <2>3. \A j \in DOMAIN s : j # i => s[j] \in ToSet(l) \cup ToSet(r)
    BY <1>6 DEF ToSet
  <2> QED
    BY <2>1, <2>2, <2>3 DEF ToSet
<1> QED
  BY <1>2, <1>8, <1>9, <1>11, <1>12 DEF l, r

(* XP_ListRemoveObject.                                                    *)
LEMMA RemovedFirst ==
  ASSUME NEW S, NEW s \in Seq(S), IsInjective(s), NEW e
  PROVE  /\ RemoveFirst(s, e) \in Seq(S) /\ IsInjective(RemoveFirst(s, e))
         /\ ToSet(RemoveFirst(s, e)) = ToSet(s) \ {e}
<1>1. Len(s) \in Nat /\ DOMAIN s = 1..Len(s)
  OBVIOUS
<1>2. CASE e \notin ToSet(s)
  <2>1. ~ \E i \in 1..Len(s) : s[i] = e
    BY <1>1, <1>2 DEF ToSet
  <2>2. RemoveFirst(s, e) = s
    BY <2>1 DEF RemoveFirst
  <2> QED
    BY <1>2, <2>2, Zenon
<1>3. CASE e \in ToSet(s)
  <2> DEFINE I == {i \in 1..Len(s) : s[i] = e}
             i == Min(I)
             l == Before(s, i)
             r == After(s, i)
  <2>1. I \subseteq Nat /\ I # {} /\ \E j \in 1..Len(s) : s[j] = e
    BY <1>1, <1>3 DEF ToSet
  <2>2. i \in I
    <3> HIDE DEF I
    <3> QED
      BY <2>1, MinMember
  <2>3. RemoveFirst(s, e) = RemoveAt(s, i)
    BY <2>1, Zenon DEF RemoveFirst, SelectInSeq
  <2>4. i \in DOMAIN s /\ s[i] = e
    BY <1>1, <2>2
  <2> HIDE DEF I, i
  <2>5. RemoveAt(s, i) = l \o r
    BY DEF RemoveAt, Before, After
  <2>6. /\ l \in Seq(S) /\ r \in Seq(S) /\ IsInjective(l) /\ IsInjective(r)
        /\ ToSet(l) \cap ToSet(r) = {} /\ ToSet(l) \cup ToSet(r) = ToSet(s) \ {s[i]}
    BY <2>4, TakenOff
  <2> HIDE DEF l, r
  <2>7. /\ l \o r \in Seq(S) /\ IsInjective(l \o r)
        /\ ToSet(l \o r) = ToSet(s) \ {s[i]}
    BY <2>6, Joined
  <2>8. RemoveFirst(s, e) = l \o r
    BY <2>3, <2>5
  <2> QED
    BY <2>4, <2>7, <2>8, Zenon
<1> QED
  BY <1>2, <1>3

(* A copy put in front.                                                    *)
LEMMA InFront ==
  ASSUME NEW S, NEW s \in Seq(S), IsInjective(s), NEW c \in S, c \notin ToSet(s)
  PROVE  /\ <<c>> \o s \in Seq(S) /\ IsInjective(<<c>> \o s)
         /\ ToSet(<<c>> \o s) = ToSet(s) \cup {c}
<1>1. <<c>> \in Seq(S) /\ IsInjective(<<c>>) /\ ToSet(<<c>>) = {c}
  BY DEF IsInjective, ToSet
<1>2. ToSet(<<c>>) \cap ToSet(s) = {}
  BY <1>1
<1> DEFINE h == <<c>>
<1>3. h \in Seq(S) /\ IsInjective(h) /\ ToSet(h) = {c} /\ ToSet(h) \cap ToSet(s) = {}
  BY <1>1, <1>2
<1> HIDE DEF h
<1>4. /\ h \o s \in Seq(S) /\ IsInjective(h \o s)
      /\ ToSet(h \o s) = {c} \cup ToSet(s)
  BY <1>3, Joined
<1>5. {c} \cup ToSet(s) = ToSet(s) \cup {c}
  OBVIOUS
<1> QED
  BY <1>4, <1>5 DEF h

--------------------------------------------------------------------------------
(* Sums over a set of copies.                                              *)
Total(U, w) == Cardinality(UNION {{t} \X (1..w[t]) : t \in U})

(* Pairs <<t, i>> with i in 1..w[t], for one member and for a set of them. *)
Pairs(t, w) == {t} \X (1..w[t])
AllPairs(U, w) == UNION {Pairs(t, w) : t \in U}

LEMMA PairsCounted ==
  ASSUME NEW t, NEW w, w[t] \in Nat
  PROVE  IsFiniteSet(Pairs(t, w)) /\ Cardinality(Pairs(t, w)) = w[t]
<1>1. IsFiniteSet(1..w[t]) /\ Cardinality(1..w[t]) = w[t]
  BY FS_Interval, SMTT(30)
<1>2. IsFiniteSet({t}) /\ Cardinality({t}) = 1
  BY FS_Singleton
<1>3. /\ IsFiniteSet({t} \X (1..w[t]))
      /\ Cardinality({t} \X (1..w[t])) = Cardinality({t}) * Cardinality(1..w[t])
  BY <1>1, <1>2, FS_Product
<1> QED
  BY <1>1, <1>2, <1>3 DEF Pairs

LEMMA AllPairsFinite ==
  ASSUME NEW U, IsFiniteSet(U), NEW w, \A t \in U : w[t] \in Nat
  PROVE  IsFiniteSet(AllPairs(U, w))
<1> DEFINE f == [t \in U |-> Pairs(t, w)]
           T == {Pairs(t, w) : t \in U}
<1>1. f \in Surjection(U, T)
  BY DEF Surjection
<1>2. IsFiniteSet(T)
  BY <1>1, FS_Surjection
<1>3. \A P \in T : IsFiniteSet(P)
  BY PairsCounted
<1> QED
  BY <1>2, <1>3, FS_UNION DEF AllPairs

(* A sum is a number, it is the sum without t plus what t adds, and it     *)
(* depends on w at the members of the set only.                            *)
LEMMA TotalSplit ==
  ASSUME NEW U, IsFiniteSet(U), NEW w, \A u \in U : w[u] \in Nat, NEW t
  PROVE  /\ Total(U \ {t}, w) \in Nat
         /\ Total(U, w) = Total(U \ {t}, w) + IF t \in U THEN w[t] ELSE 0
<1>1. IsFiniteSet(U \ {t})
  BY FS_RemoveElement
<1>2. IsFiniteSet(AllPairs(U \ {t}, w))
  BY <1>1, AllPairsFinite
<1>3. Total(U \ {t}, w) \in Nat
  BY <1>2, FS_CardinalityType DEF Total, AllPairs, Pairs
<1>4. CASE t \notin U
  <2>1. U \ {t} = U
    BY <1>4
  <2>2. Total(U \ {t}, w) = Total(U, w)
    BY <2>1, Zenon
  <2> QED
    BY <1>3, <1>4, <2>2
<1>5. CASE t \in U
  <2>1. IsFiniteSet(Pairs(t, w)) /\ Cardinality(Pairs(t, w)) = w[t]
    BY <1>5, PairsCounted
  <2>2. AllPairs(U \ {t}, w) \cap Pairs(t, w) = {}
    BY DEF AllPairs, Pairs
  <2>3. AllPairs(U, w) = AllPairs(U \ {t}, w) \cup Pairs(t, w)
    BY <1>5 DEF AllPairs
  <2>4. Cardinality(AllPairs(U \ {t}, w) \cap Pairs(t, w)) = 0
    BY <2>2, FS_EmptySet, Zenon
  <2>5. Cardinality(AllPairs(U \ {t}, w) \cup Pairs(t, w))
          = Cardinality(AllPairs(U \ {t}, w)) + Cardinality(Pairs(t, w)) - 0
    BY <1>2, <2>1, <2>4, FS_Union
  <2>6. Total(U, w) = Cardinality(AllPairs(U \ {t}, w) \cup Pairs(t, w))
    BY <2>3, Zenon DEF Total, AllPairs, Pairs
  <2>7. Total(U \ {t}, w) = Cardinality(AllPairs(U \ {t}, w))
    BY DEF Total, AllPairs, Pairs
  <2> QED
    BY <1>3, <1>5, <2>1, <2>5, <2>6, <2>7
<1> QED
  BY <1>3, <1>4, <1>5

LEMMA TotalSame ==
  ASSUME NEW U, NEW w, NEW v, \A t \in U : w[t] = v[t]
  PROVE  Total(U, w) = Total(U, v)
<1>1. {{t} \X (1..w[t]) : t \in U} = {{t} \X (1..v[t]) : t \in U}
  OBVIOUS
<1> QED
  BY <1>1 DEF Total

LEMMA TotalEmpty == ASSUME NEW w PROVE Total({}, w) = 0
<1>1. UNION {{t} \X (1..w[t]) : t \in {}} = {}
  OBVIOUS
<1> QED
  BY <1>1, FS_EmptySet, Zenon DEF Total

(* The fields of a copy.                                                   *)
Fields == [readLock : Nat, locks : 0..MaxLocks, completed : BOOLEAN,
           aborted : BOOLEAN, deleteMe : BOOLEAN, segments : Nat, whole : BOOLEAN]

LEMMA BlankFields == Blank \in Fields /\ Blank.segments = 0
<1>1. 0 \in 0..MaxLocks
  BY BoundAssumption
<1> QED
  BY <1>1 DEF Blank, Fields

Segments == [c \in Copy |-> copy[c].segments]

LEMMA OccupiedTotal ==
  ASSUME NEW S, S \subseteq Copy
  PROVE  Occupied(S) = Total(S, Segments)
<1>1. {{c} \X (1..copy[c].segments) : c \in S} = {{c} \X (1..Segments[c]) : c \in S}
  BY DEF Segments
<1> QED
  BY <1>1, Zenon DEF Occupied, Total

(* A step that disturbs c only, and counts what it adds or takes.          *)
LEMMA SizeStep ==
  ASSUME copy \in [Copy -> Fields], copy' \in [Copy -> Fields],
         kept \subseteq Copy, kept' \subseteq Copy, SizePart, NEW c \in Copy,
         \A d \in Copy \ {c} : /\ d \in kept' <=> d \in kept
                               /\ copy'[d].segments = copy[d].segments,
         size' = size - (IF c \in kept THEN copy[c].segments ELSE 0)
                 + (IF c \in kept' THEN copy'[c].segments ELSE 0)
  PROVE  SizePart' /\ size' \in Nat
<1>1. /\ Segments \in [Copy -> Nat] /\ Segments' \in [Copy -> Nat]
      /\ \A d \in Copy : /\ Segments[d] = copy[d].segments
                         /\ Segments'[d] = copy'[d].segments
  BY DEF Segments, Fields
<1> DEFINE T == kept
           U == kept'
           w == Segments
           v == Segments'
<1>2. /\ IsFiniteSet(T) /\ IsFiniteSet(U)
      /\ \A d \in T : w[d] \in Nat
      /\ \A d \in U : v[d] \in Nat
  BY <1>1, CopyAssumption, FS_Subset
<1>3. T \ {c} = U \ {c}
  OBVIOUS
<1>4. \A d \in T \ {c} : w[d] = v[d]
  BY <1>1
<1>5. Occupied(kept) = Total(T, w)
  BY OccupiedTotal
<1>6. Occupied(kept)' = Total(U, v)
  <2>1. {{d} \X (1..copy'[d].segments) : d \in kept'} = {{d} \X (1..v[d]) : d \in kept'}
    BY <1>1
  <2> HIDE DEF v
  <2> QED
    BY <2>1, Zenon DEF Occupied, Total
<1>7. /\ w[c] = copy[c].segments /\ v[c] = copy'[c].segments
      /\ w[c] \in Nat /\ v[c] \in Nat
  BY <1>1
<1>8. size' = size - (IF c \in T THEN w[c] ELSE 0) + (IF c \in U THEN v[c] ELSE 0)
  BY <1>7
<1>9. size = Total(T, w)
  BY <1>5 DEF SizePart
<1> HIDE DEF T, U, w, v
<1>10. /\ Total(T \ {c}, w) \in Nat
       /\ Total(T, w) = Total(T \ {c}, w) + IF c \in T THEN w[c] ELSE 0
  BY <1>2, TotalSplit, ZenonT(60)
<1>13. Total(U, v) = Total(U \ {c}, v) + IF c \in U THEN v[c] ELSE 0
  BY <1>2, TotalSplit, ZenonT(60)
<1>14. Total(T \ {c}, w) = Total(T \ {c}, v)
  BY <1>4, TotalSame
<1>15. Total(T \ {c}, v) = Total(U \ {c}, v)
  BY <1>3, Zenon
<1>11. size' = Total(U, v) /\ size' \in Nat
  BY <1>7, <1>8, <1>9, <1>10, <1>13, <1>14, <1>15
<1>12. size' = Occupied(kept)'
  BY <1>6, <1>11
<1> QED
  BY <1>11, <1>12 DEF SizePart

--------------------------------------------------------------------------------
(* How many read a copy.                                                   *)

LEMMA ReadersCounted ==
  ASSUME NEW c
  PROVE  /\ IsFiniteSet(Readers(c)) /\ N(c) \in Nat
         /\ N(c) > 0 <=> Readers(c) # {}
<1>1. IsFiniteSet(Readers(c))
  BY BoundAssumption, FS_Subset DEF Readers
<1>2. N(c) \in Nat /\ (N(c) = 0 <=> Readers(c) = {})
  BY <1>1, FS_CardinalityType, FS_EmptySet DEF N
<1> QED
  BY <1>1, <1>2

LEMMA ReadersSame == ASSUME NEW c, Readers(c)' = Readers(c) PROVE N(c)' = N(c)
BY Zenon DEF N

LEMMA OtherReaders ==
  ASSUME reading \in [Reader -> Copy \cup {None}], NEW r \in Reader, NEW x, NEW c,
         reading' = [reading EXCEPT ![r] = x], reading[r] # c, x # c
  PROVE  N(c)' = N(c)
<1>1. Readers(c)' = Readers(c)
  BY DEF Readers
<1> QED
  BY <1>1, ReadersSame

LEMMA MoreReaders ==
  ASSUME reading \in [Reader -> Copy \cup {None}], NEW r \in Reader, NEW c,
         reading' = [reading EXCEPT ![r] = c], reading[r] # c
  PROVE  N(c)' = N(c) + 1
<1>1. Readers(c)' = Readers(c) \cup {r} /\ r \notin Readers(c)
  BY DEF Readers
<1>2. Cardinality(Readers(c) \cup {r}) = Cardinality(Readers(c)) + 1
  BY <1>1, ReadersCounted, FS_AddElement
<1>3. N(c)' = Cardinality(Readers(c) \cup {r})
  BY <1>1, Zenon DEF N
<1> QED
  BY <1>2, <1>3 DEF N

LEMMA FewerReaders ==
  ASSUME reading \in [Reader -> Copy \cup {None}], NEW r \in Reader, NEW x, NEW c,
         reading' = [reading EXCEPT ![r] = x], reading[r] = c, x # c
  PROVE  N(c)' = N(c) - 1 /\ N(c) > 0
<1>1. Readers(c)' = Readers(c) \ {r} /\ r \in Readers(c)
  BY DEF Readers
<1>2. Cardinality(Readers(c) \ {r}) = Cardinality(Readers(c)) - 1
  BY <1>1, ReadersCounted, FS_RemoveElement
<1>3. N(c)' = Cardinality(Readers(c) \ {r})
  BY <1>1, Zenon DEF N
<1>4. N(c) > 0
  BY <1>1, ReadersCounted
<1> QED
  BY <1>2, <1>3, <1>4 DEF N

--------------------------------------------------------------------------------
(* A copy fits after a step if what it has become does, as it does when    *)
(* nothing has happened to it, or when it is out of memory.                *)
LEMMA FitsNext ==
  ASSUME NEW d \in Copy,
         Fits(copy'[d], d \in kept', d \in ToSet(list'), writer'[d], N(d)',
              d \in orphans', d \in leaks', d \in ToSet(stack'))
  PROVE  CopyPart(d)'
BY DEF CopyPart, Fits, ToSet

LEMMA Undisturbed ==
  ASSUME NEW d \in Copy, CopyPart(d), copy'[d] = copy[d],
         d \in kept' <=> d \in kept, d \in ToSet(list') <=> d \in ToSet(list),
         writer'[d] = writer[d], N(d)' = N(d),
         d \in orphans => d \in orphans', d \in leaks => d \in leaks',
         d \in ToSet(stack') => d \in ToSet(stack)
  PROVE  CopyPart(d)'
BY FitsNext DEF CopyPart, Fits

LEMMA Gone ==
  ASSUME NEW d \in Copy, d \notin kept', copy'[d] = Blank, N(d)' = 0,
         writer'[d] # "writing", writer'[d] = "lost" => d \in orphans',
         d \in ToSet(stack') => writer'[d] \in {"completing", "done"}
  PROVE  CopyPart(d)'
BY FitsNext DEF Fits, Blank

(* net_FreeMemoryCopy.  Whether it frees a copy, and what it leaves.       *)
Freed(rec) == rec.readLock = 0 /\ (rec.aborted \/ rec.completed)

LEMMA FreeMemoryCopyStep ==
  ASSUME TypeOK, SizePart, HashPart, NEW c \in kept, NEW rec \in Fields,
         rec.segments = copy[c].segments, NEW l \in Seq(Copy), IsInjective(l),
         ToSet(l) \subseteq kept, FreeMemoryCopy(c, rec, l)
  PROVE  /\ /\ copy' \in [Copy -> Fields] /\ kept' \subseteq Copy
            /\ hash' \in [Key -> Copy \cup {None}] /\ list' \in Seq(Copy)
            /\ size' \in Nat
         /\ SizePart' /\ HashPart' /\ ListPart'
         /\ \A d \in Copy \ {c} :
              /\ copy'[d] = copy[d] /\ (d \in kept' <=> d \in kept)
              /\ d \in ToSet(list') <=> d \in ToSet(l)
         /\ Freed(rec) => c \notin kept' /\ c \notin ToSet(list') /\ copy'[c] = Blank
         /\ ~Freed(rec) => /\ c \in kept'
                           /\ c \in ToSet(list') <=> c \in ToSet(l)
                           /\ copy'[c] = [rec EXCEPT !.deleteMe = TRUE]
<1>1. /\ copy \in [Copy -> Fields] /\ kept \subseteq Copy /\ size \in Nat
      /\ hash \in [Key -> Copy \cup {None}] /\ c \in Copy
  BY DEF TypeOK, Fields
<1>2. /\ Blank \in Fields /\ Blank.segments = 0
      /\ [rec EXCEPT !.deleteMe = TRUE] \in Fields
      /\ [rec EXCEPT !.deleteMe = TRUE].segments = rec.segments
  BY BlankFields DEF Fields
<1>3. /\ hash' = [hash EXCEPT ![KeyOf[c]] = None]
      /\ copy' = [copy EXCEPT ![c] = IF Freed(rec) THEN Blank
                                     ELSE [rec EXCEPT !.deleteMe = TRUE]]
      /\ kept' = (IF Freed(rec) THEN kept \ {c} ELSE kept)
      /\ list' = (IF Freed(rec) THEN RemoveFirst(l, c) ELSE l)
      /\ size' = (IF Freed(rec) THEN size - rec.segments ELSE size)
  <2>1. Freed(rec) <=> ~(/\ ~(rec.readLock = 0 /\ rec.aborted)
                         /\ (rec.readLock > 0 \/ ~rec.completed))
    BY DEF Freed, Fields
  <2> QED
    BY <2>1 DEF FreeMemoryCopy, Unhash, With
<1>4. /\ copy' \in [Copy -> Fields] /\ kept' \subseteq Copy
      /\ hash' \in [Key -> Copy \cup {None}]
  BY <1>1, <1>2, <1>3
<1>5. /\ \A d \in Copy \ {c} : copy'[d] = copy[d] /\ (d \in kept' <=> d \in kept)
      /\ Freed(rec) => c \notin kept' /\ copy'[c] = Blank
      /\ ~Freed(rec) => c \in kept' /\ copy'[c] = [rec EXCEPT !.deleteMe = TRUE]
  BY <1>1, <1>3
<1>6. SizePart' /\ size' \in Nat
  <2>1. size' = size - (IF c \in kept THEN copy[c].segments ELSE 0)
                + (IF c \in kept' THEN copy'[c].segments ELSE 0)
    <3>1. copy[c].segments \in Nat /\ rec.segments \in Nat
      BY <1>1 DEF Fields
    <3> QED
      BY <1>1, <1>2, <1>3, <1>5, <3>1
  <2>2. \A d \in Copy \ {c} : /\ d \in kept' <=> d \in kept
                              /\ copy'[d].segments = copy[d].segments
    BY <1>5
  <2> QED
    BY <1>1, <1>4, <2>1, <2>2, SizeStep
<1>7. HashPart'
  <2> SUFFICES ASSUME NEW k \in Key, hash'[k] # None
               PROVE  /\ hash'[k] \in kept' /\ ~copy'[hash'[k]].deleteMe
                      /\ KeyOf[hash'[k]] = k
    BY DEF HashPart
  <2>1. hash'[k] = hash[k] /\ k # KeyOf[c]
    BY <1>1, <1>3
  <2>2. hash[k] \in kept /\ ~copy[hash[k]].deleteMe /\ KeyOf[hash[k]] = k
    BY <2>1 DEF HashPart
  <2>3. hash[k] \in Copy \ {c}
    BY <1>1, <2>1, <2>2
  <2> QED
    BY <1>5, <2>1, <2>2, <2>3
<1>8. /\ list' \in Seq(Copy) /\ IsInjective(list')
      /\ ToSet(list') = IF Freed(rec) THEN ToSet(l) \ {c} ELSE ToSet(l)
  <2>1. CASE Freed(rec)
    <3>1. /\ RemoveFirst(l, c) \in Seq(Copy) /\ IsInjective(RemoveFirst(l, c))
          /\ ToSet(RemoveFirst(l, c)) = ToSet(l) \ {c}
      BY RemovedFirst
    <3>2. list' = RemoveFirst(l, c)
      BY <1>3, <2>1
    <3> QED
      BY <2>1, <3>1, <3>2, Zenon
  <2>2. CASE ~Freed(rec)
    BY <1>3, <2>2, Zenon
  <2> QED
    BY <2>1, <2>2
<1>9. ListPart'
  <2>1. ToSet(list') \subseteq kept'
    BY <1>3, <1>8
  <2> QED
    BY <1>8, <2>1 DEF ListPart, ToSet
<1> QED
  BY <1>4, <1>5, <1>6, <1>7, <1>8, <1>9

(* What IInv says of a copy, and of one found by its key.                  *)
LEMMA CopyFacts ==
  ASSUME IInv, NEW c \in Copy
  PROVE  /\ copy[c] \in Fields /\ CopyPart(c) /\ N(c) \in Nat
         /\ c \in ToSet(list) => c \in kept
BY ReadersCounted DEF IInv, TypeOK, Fields, ListPart

LEMMA FoundFacts ==
  ASSUME IInv, NEW k \in Key, NEW c \in Copy, hash[k] = c
  PROVE  /\ c \in kept /\ ~copy[c].deleteMe /\ KeyOf[c] = k
         /\ c \in ToSet(list) /\ copy[c].whole
<1>1. c # None
  BY CopyAssumption
<1>2. c \in kept /\ ~copy[c].deleteMe /\ KeyOf[c] = k
  BY <1>1 DEF IInv, HashPart
<1> QED
  BY <1>2, CopyFacts DEF CopyPart, Fits

--------------------------------------------------------------------------------
(* Each action preserves the invariant.  First those of the writer.        *)

LEMMA WriteStep ==
  ASSUME IInv, NEW c \in Copy, Write(c)
  PROVE  IInv'
<1> DEFINE f == copy'[c]
<1>1. /\ TypeOK /\ SizePart /\ copy[c] \in Fields /\ copy \in [Copy -> Fields]
      /\ kept \subseteq Copy /\ size \in Nat
  BY CopyFacts DEF IInv, TypeOK, Fields
<1>2. /\ writer[c] = "writing" /\ c \in kept /\ c \in ToSet(list)
      /\ ~copy[c].completed /\ ~copy[c].aborted
  BY CopyFacts DEF Write, CopyPart, Fits
<1>3. UNCHANGED <<kept, hash, list, limit, users, reducing, notes>>
  BY DEF Write
<1>4. /\ f \in Fields /\ copy' = [copy EXCEPT ![c] = f]
      /\ f.readLock = copy[c].readLock /\ f.completed = copy[c].completed
      /\ f.aborted = copy[c].aborted /\ f.deleteMe = copy[c].deleteMe
      /\ ~copy[c].deleteMe => f.whole = copy[c].whole
      /\ size' = size - copy[c].segments + f.segments
  <2>1. CASE copy[c].deleteMe
    <3>1. /\ copy' = [copy EXCEPT ![c] = [copy[c] EXCEPT !.whole = FALSE]]
          /\ size' = size
      BY <2>1 DEF Write, With
    <3>2. f = [copy[c] EXCEPT !.whole = FALSE]
      BY <1>1, <3>1
    <3>3. /\ f \in Fields /\ f.segments = copy[c].segments /\ copy[c].segments \in Nat
          /\ f.readLock = copy[c].readLock /\ f.completed = copy[c].completed
          /\ f.aborted = copy[c].aborted /\ f.deleteMe = copy[c].deleteMe
      BY <1>1, <3>2 DEF Fields
    <3> HIDE DEF f
    <3>4. copy' = [copy EXCEPT ![c] = f]
      BY <3>1, <3>2
    <3>5. size' = size - copy[c].segments + f.segments
      BY <1>1, <3>1, <3>3
    <3> QED
      BY <2>1, <3>3, <3>4, <3>5
  <2>2. CASE ~copy[c].deleteMe
    <3>1. /\ copy' = [copy EXCEPT ![c] = [copy[c] EXCEPT !.segments = @ + 1]]
          /\ size' = size + 1
      BY <2>2 DEF Write, With
    <3>2. f = [copy[c] EXCEPT !.segments = @ + 1]
      BY <1>1, <3>1
    <3> QED
      BY <1>1, <2>2, <3>1, <3>2 DEF Fields
  <2> QED
    BY <2>1, <2>2
<1>5. copy' \in [Copy -> Fields] /\ \A d \in Copy \ {c} : copy'[d] = copy[d]
  BY <1>1, <1>4
<1> HIDE DEF f
<1>7. SizePart' /\ size' \in Nat
  <2>1. size' = size - (IF c \in kept THEN copy[c].segments ELSE 0)
                + (IF c \in kept' THEN copy'[c].segments ELSE 0)
    BY <1>2, <1>3, <1>4 DEF f
  <2> QED
    BY <1>1, <1>3, <1>5, <2>1, SizeStep
<1>8. TypeOK'
  BY <1>1, <1>3, <1>5, <1>7 DEF TypeOK, Fields, users, notes
<1>9. HashPart'
  <2> SUFFICES ASSUME NEW k \in Key, hash[k] # None
               PROVE  hash[k] \in kept /\ ~copy'[hash[k]].deleteMe /\ KeyOf[hash[k]] = k
    BY <1>3 DEF HashPart
  <2>1. hash[k] \in kept /\ ~copy[hash[k]].deleteMe /\ KeyOf[hash[k]] = k
    BY DEF IInv, HashPart
  <2> QED
    BY <1>1, <1>4, <1>5, <2>1 DEF f
<1>10. ListPart'
  BY <1>3 DEF IInv, ListPart, ToSet, IsInjective
<1>11. \A d \in Copy : N(d)' = N(d)
  BY <1>3, ReadersSame DEF Readers, users
<1>12. \A d \in Copy \ {c} : CopyPart(d)'
  BY <1>3, <1>5, <1>11, Undisturbed DEF IInv, users, notes
<1>13. CopyPart(c)'
  <2>1. Fits(copy[c], TRUE, TRUE, "writing", N(c), c \in orphans, c \in leaks,
             c \in ToSet(stack))
    BY <1>2, CopyFacts DEF CopyPart, Fits
  <2>2. Fits(f, TRUE, TRUE, "writing", N(c), c \in orphans, c \in leaks,
             c \in ToSet(stack))
    BY <1>4, <2>1 DEF Fits
  <2> QED
    BY <1>2, <1>3, <1>11, <2>2, FitsNext DEF f, Fits, users, notes
<1> QED
  BY <1>7, <1>8, <1>9, <1>10, <1>12, <1>13 DEF IInv

(* A step that changes some fields of c, but neither its size nor its mark.*)
LEMMA OneCopyStep ==
  ASSUME IInv, NEW c \in Copy, NEW f \in Fields, copy' = [copy EXCEPT ![c] = f],
         f.deleteMe = copy[c].deleteMe, f.segments = copy[c].segments,
         UNCHANGED <<kept, hash, size>>
  PROVE  /\ copy' \in [Copy -> Fields] /\ copy'[c] = f
         /\ \A d \in Copy \ {c} : copy'[d] = copy[d]
         /\ SizePart' /\ HashPart'
<1>1. /\ copy \in [Copy -> Fields] /\ kept \subseteq Copy /\ size \in Nat
      /\ SizePart /\ HashPart
  BY DEF IInv, TypeOK, Fields
<1>2. /\ copy' \in [Copy -> Fields] /\ copy'[c] = f
      /\ \A d \in Copy \ {c} : copy'[d] = copy[d]
  BY <1>1
<1>3. SizePart'
  <2>1. copy[c].segments \in Nat /\ copy'[c].segments = copy[c].segments
    BY <1>1, <1>2 DEF Fields
  <2>2. size' = size - (IF c \in kept THEN copy[c].segments ELSE 0)
                + (IF c \in kept' THEN copy'[c].segments ELSE 0)
    BY <1>1, <2>1
  <2>3. \A d \in Copy \ {c} : /\ d \in kept' <=> d \in kept
                              /\ copy'[d].segments = copy[d].segments
    BY <1>2
  <2>4. kept' \subseteq Copy
    BY <1>1
  <2> QED
    BY <1>1, <1>2, <2>2, <2>3, <2>4, SizeStep
<1>4. HashPart'
  <2> SUFFICES ASSUME NEW k \in Key, hash[k] # None
               PROVE  hash[k] \in kept /\ ~copy'[hash[k]].deleteMe /\ KeyOf[hash[k]] = k
    BY DEF HashPart
  <2>1. hash[k] \in kept /\ ~copy[hash[k]].deleteMe /\ KeyOf[hash[k]] = k
    BY <1>1 DEF HashPart
  <2> QED
    BY <1>1, <1>2, <2>1
<1> QED
  BY <1>2, <1>3, <1>4

LEMMA SameReaders ==
  ASSUME UNCHANGED reading
  PROVE  \A d : N(d)' = N(d)
BY ReadersSame DEF Readers

LEMMA CompleteBeginStep ==
  ASSUME IInv, NEW c \in Copy, CompleteBegin(c)
  PROVE  IInv'
<1> DEFINE f == [copy[c] EXCEPT !.completed = @ \/ writer[c] = "writing"]
           w == [writer EXCEPT ![c] = "completing"]
<1>1. /\ TypeOK /\ copy[c] \in Fields /\ CopyPart(c)
      /\ writer \in [Copy -> {"none", "writing", "lost", "completing", "done"}]
  BY CopyFacts DEF IInv, TypeOK
<1>2. /\ writer[c] \in {"writing", "lost"} /\ Len(stack) < MaxDepth
      /\ copy' = [copy EXCEPT ![c] = f] /\ writer' = w /\ stack' = <<c>> \o stack
      /\ UNCHANGED <<kept, hash, list, size, limit, reading, reducing, notes>>
  BY DEF CompleteBegin, With
<1>3. /\ f \in Fields /\ f.deleteMe = copy[c].deleteMe /\ f.segments = copy[c].segments
      /\ f.readLock = copy[c].readLock /\ f.aborted = copy[c].aborted
      /\ f.whole = copy[c].whole
      /\ f.completed <=> copy[c].completed \/ writer[c] = "writing"
  BY <1>1 DEF Fields
<1> HIDE DEF f
<1>4. /\ copy' \in [Copy -> Fields] /\ copy'[c] = f
      /\ \A d \in Copy \ {c} : copy'[d] = copy[d]
      /\ SizePart' /\ HashPart'
  BY <1>2, <1>3, OneCopyStep
<1>5. /\ stack' \in Seq(Copy) /\ Len(stack') <= MaxDepth
      /\ ToSet(stack') = ToSet(stack) \cup {c}
  <2>1. /\ <<c>> \in Seq(Copy) /\ ToSet(<<c>>) = {c} /\ Len(<<c>>) = 1
        /\ stack \in Seq(Copy) /\ Len(stack) \in Nat /\ MaxDepth \in Nat
    BY <1>1, BoundAssumption DEF TypeOK, ToSet
  <2> DEFINE h == <<c>>
  <2>2. h \in Seq(Copy) /\ ToSet(h) = {c} /\ Len(h) = 1 /\ stack' = h \o stack
    BY <1>2, <2>1
  <2> HIDE DEF h
  <2>3. /\ h \o stack \in Seq(Copy) /\ ToSet(h \o stack) = ToSet(h) \cup ToSet(stack)
    BY <2>1, <2>2, Joined
  <2>4. Len(h \o stack) = Len(h) + Len(stack)
    BY <2>1, <2>2, ConcatProperties
  <2>5. Len(stack') = 1 + Len(stack)
    BY <2>2, <2>4
  <2>6. stack' \in Seq(Copy) /\ ToSet(stack') = {c} \cup ToSet(stack)
    BY <2>2, <2>3, Zenon
  <2> QED
    BY <1>2, <2>1, <2>5, <2>6
<1>6. writer' \in [Copy -> {"none", "writing", "lost", "completing", "done"}]
      /\ writer'[c] = "completing" /\ \A d \in Copy \ {c} : writer'[d] = writer[d]
  BY <1>1, <1>2
<1>7. TypeOK'
  BY <1>1, <1>2, <1>4, <1>5, <1>6 DEF TypeOK, Fields, notes
<1>8. ListPart'
  BY <1>2 DEF IInv, ListPart, ToSet, IsInjective
<1>9. \A d \in Copy : N(d)' = N(d)
  BY <1>2, SameReaders
<1>10. \A d \in Copy \ {c} : CopyPart(d)'
  BY <1>2, <1>4, <1>5, <1>6, <1>9, Undisturbed DEF IInv, notes
<1>11. CopyPart(c)'
  <2>1. Fits(copy[c], c \in kept, c \in ToSet(list), writer[c], N(c), c \in orphans,
             c \in leaks, c \in ToSet(stack))
    BY <1>1 DEF CopyPart
  <2>2. Fits(f, c \in kept, c \in ToSet(list), "completing", N(c), c \in orphans,
             c \in leaks, TRUE)
    BY <1>2, <1>3, <2>1 DEF Fits
  <2> QED
    BY <1>2, <1>4, <1>5, <1>6, <1>9, <2>2, FitsNext DEF Fits, notes
<1> QED
  BY <1>4, <1>7, <1>8, <1>10, <1>11 DEF IInv

(* Freeing a copy in any step that leaves the readers of the others alone. *)
LEMMA FreeStep ==
  ASSUME IInv, NEW c \in kept, NEW rec \in Fields, rec.segments = copy[c].segments,
         FreeMemoryCopy(c, rec, list)
  PROVE  /\ /\ copy' \in [Copy -> Fields] /\ kept' \subseteq Copy
            /\ hash' \in [Key -> Copy \cup {None}] /\ list' \in Seq(Copy)
            /\ size' \in Nat
         /\ SizePart' /\ HashPart' /\ ListPart'
         /\ \A d \in Copy \ {c} :
              /\ copy'[d] = copy[d] /\ (d \in kept' <=> d \in kept)
              /\ d \in ToSet(list') <=> d \in ToSet(list)
         /\ Freed(rec) => c \notin kept' /\ c \notin ToSet(list') /\ copy'[c] = Blank
         /\ ~Freed(rec) => /\ c \in kept'
                           /\ c \in ToSet(list') <=> c \in ToSet(list)
                           /\ copy'[c] = [rec EXCEPT !.deleteMe = TRUE]
<1>1. /\ list \in Seq(Copy) /\ IsInjective(list) /\ ToSet(list) \subseteq kept
      /\ TypeOK /\ SizePart /\ HashPart
  BY DEF IInv, TypeOK, ListPart
<1> QED
  BY <1>1, FreeMemoryCopyStep, Zenon

LEMMA WriteFailsStep ==
  ASSUME IInv, NEW c \in Copy, WriteFails(c)
  PROVE  IInv'
<1>1. /\ TypeOK /\ copy[c] \in Fields /\ CopyPart(c) /\ writer[c] = "writing"
      /\ writer \in [Copy -> {"none", "writing", "lost", "completing", "done"}]
      /\ c \in kept /\ c \in ToSet(list) /\ ~copy[c].completed /\ ~copy[c].aborted
  BY CopyFacts DEF IInv, TypeOK, WriteFails, CopyPart, Fits
<1>2. /\ FreeMemoryCopy(c, copy[c], list)
      /\ writer' = [writer EXCEPT ![c] = "lost"] /\ orphans' = orphans \cup {c}
      /\ UNCHANGED <<limit, stack, reading, reducing, leaks, damaged>>
      /\ faults < MaxFaults /\ faults' = faults + 1
  BY DEF WriteFails, Fault
<1>3. ~Freed(copy[c])
  BY <1>1 DEF Freed
<1>4. /\ /\ copy' \in [Copy -> Fields] /\ kept' \subseteq Copy
         /\ hash' \in [Key -> Copy \cup {None}] /\ list' \in Seq(Copy)
         /\ size' \in Nat
      /\ SizePart' /\ HashPart' /\ ListPart'
      /\ \A d \in Copy \ {c} :
           /\ copy'[d] = copy[d] /\ (d \in kept' <=> d \in kept)
           /\ d \in ToSet(list') <=> d \in ToSet(list)
      /\ c \in kept' /\ c \in ToSet(list')
      /\ copy'[c] = [copy[c] EXCEPT !.deleteMe = TRUE]
  BY <1>1, <1>2, <1>3, FreeStep
<1>5. /\ writer' \in [Copy -> {"none", "writing", "lost", "completing", "done"}]
      /\ writer'[c] = "lost" /\ \A d \in Copy \ {c} : writer'[d] = writer[d]
  BY <1>1, <1>2
<1>6. TypeOK'
  <2>1. faults' \in 0..MaxFaults /\ orphans' \subseteq Copy
    BY <1>1, <1>2, BoundAssumption DEF TypeOK
  <2> QED
    BY <1>1, <1>2, <1>4, <1>5, <2>1, SMTT(30) DEF TypeOK, Fields
<1>7. \A d \in Copy : N(d)' = N(d)
  BY <1>2, SameReaders
<1>8. \A d \in Copy \ {c} : CopyPart(d)'
  BY <1>2, <1>4, <1>5, <1>7, Undisturbed DEF IInv
<1>9. CopyPart(c)'
  <2>1. Fits(copy[c], TRUE, TRUE, "writing", N(c), c \in orphans, c \in leaks,
             c \in ToSet(stack))
    BY <1>1 DEF CopyPart, Fits
  <2>2. Fits([copy[c] EXCEPT !.deleteMe = TRUE], TRUE, TRUE, "lost", N(c), TRUE,
             c \in leaks, c \in ToSet(stack))
    BY <1>1, <2>1 DEF Fits, Fields
  <2> QED
    <3>1. /\ c \in kept' /\ c \in ToSet(list') /\ copy'[c] = [copy[c] EXCEPT !.deleteMe = TRUE]
          /\ writer'[c] = "lost" /\ N(c)' = N(c) /\ c \in orphans' /\ leaks' = leaks
          /\ stack' = stack
      BY <1>2, <1>4, <1>5, <1>7
    <3> QED
      BY <2>2, <3>1, FitsNext, ZenonT(30) DEF Fits
<1> QED
  BY <1>4, <1>6, <1>8, <1>9 DEF IInv

LEMMA AbortStep ==
  ASSUME IInv, NEW c \in Copy, Abort(c)
  PROVE  IInv'
<1> DEFINE f == [copy[c] EXCEPT !.aborted = TRUE]
<1>1. /\ TypeOK /\ copy[c] \in Fields /\ CopyPart(c) /\ writer[c] = "writing"
      /\ writer \in [Copy -> {"none", "writing", "lost", "completing", "done"}]
      /\ c \in kept /\ c \in ToSet(list) /\ N(c) \in Nat
  BY CopyFacts DEF IInv, TypeOK, Abort, CopyPart, Fits
<1>2. /\ FreeMemoryCopy(c, f, list)
      /\ writer' = [writer EXCEPT ![c] = "done"]
      /\ UNCHANGED <<limit, stack, reading, reducing, notes>>
  BY DEF Abort
<1>3. /\ f \in Fields /\ f.segments = copy[c].segments
      /\ f.readLock = copy[c].readLock /\ f.completed = copy[c].completed
      /\ f.whole = copy[c].whole /\ f.aborted
  BY <1>1 DEF Fields
<1> HIDE DEF f
<1>4. /\ /\ copy' \in [Copy -> Fields] /\ kept' \subseteq Copy
         /\ hash' \in [Key -> Copy \cup {None}] /\ list' \in Seq(Copy)
         /\ size' \in Nat
      /\ SizePart' /\ HashPart' /\ ListPart'
      /\ \A d \in Copy \ {c} :
           /\ copy'[d] = copy[d] /\ (d \in kept' <=> d \in kept)
           /\ d \in ToSet(list') <=> d \in ToSet(list)
      /\ Freed(f) => c \notin kept' /\ c \notin ToSet(list') /\ copy'[c] = Blank
      /\ ~Freed(f) => /\ c \in kept' /\ c \in ToSet(list')
                      /\ copy'[c] = [f EXCEPT !.deleteMe = TRUE]
  BY <1>1, <1>2, <1>3, FreeStep
<1>5. /\ writer' \in [Copy -> {"none", "writing", "lost", "completing", "done"}]
      /\ writer'[c] = "done" /\ \A d \in Copy \ {c} : writer'[d] = writer[d]
  BY <1>1, <1>2
<1>6. TypeOK'
  BY <1>1, <1>2, <1>4, <1>5 DEF TypeOK, Fields, notes
<1>7. \A d \in Copy : N(d)' = N(d)
  BY <1>2, SameReaders
<1>8. \A d \in Copy \ {c} : CopyPart(d)'
  BY <1>2, <1>4, <1>5, <1>7, Undisturbed DEF IInv, notes
<1>9. CopyPart(c)'
  <2>1. Fits(copy[c], TRUE, TRUE, "writing", N(c), c \in orphans, c \in leaks,
             c \in ToSet(stack))
    BY <1>1 DEF CopyPart, Fits
  <2>2. CASE Freed(f)
    <3>1. N(c) = 0
      BY <1>1, <1>3, <2>1, <2>2 DEF Freed, Fits
    <3> QED
      BY <1>4, <1>5, <1>7, <2>2, <3>1, Gone
  <2>3. CASE ~Freed(f)
    <3>1. f.readLock > 0
      BY <1>3, <2>3 DEF Freed, Fields
    <3>2. Fits([f EXCEPT !.deleteMe = TRUE], TRUE, TRUE, "done", N(c), c \in orphans,
               c \in leaks, c \in ToSet(stack))
      BY <1>1, <1>3, <2>1, <3>1 DEF Fits, Fields
    <3> QED
      BY <1>2, <1>4, <1>5, <1>7, <2>3, <3>2, FitsNext, ZenonT(30) DEF Fits, notes
  <2> QED
    BY <2>2, <2>3
<1> QED
  BY <1>4, <1>6, <1>8, <1>9 DEF IInv

LEMMA CompleteEndStep ==
  ASSUME IInv, NEW c \in Copy, CompleteEnd(c)
  PROVE  IInv'
<1> DEFINE frees == c \in kept \ orphans /\ copy[c].deleteMe /\ copy[c].readLock = 0
<1>1. /\ TypeOK /\ copy[c] \in Fields /\ CopyPart(c) /\ N(c) \in Nat
      /\ copy \in [Copy -> Fields]
      /\ writer \in [Copy -> {"none", "writing", "lost", "completing", "done"}]
      /\ stack \in Seq(Copy) /\ Len(stack) <= MaxDepth
  BY CopyFacts DEF IInv, TypeOK, Fields
<1>m. Len(stack) \in Nat /\ MaxDepth \in Nat
  BY <1>1, BoundAssumption
<1>2. /\ stack # <<>> /\ Head(stack) = c
      /\ frees => FreeMemoryCopy(c, copy[c], list)
      /\ ~frees => UNCHANGED store
      /\ writer' = [writer EXCEPT ![c] = "done"] /\ stack' = Tail(stack)
      /\ reducing' = TRUE /\ UNCHANGED <<limit, reading, orphans, leaks, faults>>
  BY DEF CompleteEnd
<1>b. damaged' \in BOOLEAN
  <2>1. damaged \in BOOLEAN
    BY <1>1 DEF TypeOK
  <2>2. damaged' = damaged \/ damaged' = TRUE
    BY Zenon DEF CompleteEnd
  <2> QED
    BY <2>1, <2>2, Zenon
<1>3. /\ stack' \in Seq(Copy) /\ Len(stack') <= MaxDepth /\ c \in ToSet(stack)
      /\ \A d : d \in ToSet(stack') => d \in ToSet(stack)
  <2>1. stack' \in Seq(Copy) /\ Len(stack') = Len(stack) - 1 /\ 1 \in DOMAIN stack
        /\ stack[1] = c
    BY <1>1, <1>2
  <2>2. \A i \in DOMAIN stack' : i + 1 \in DOMAIN stack /\ stack'[i] = stack[i + 1]
    BY <1>1, <1>2, <2>1
  <2>3. Len(stack') <= MaxDepth
    BY <1>1, <1>m, <2>1
  <2> QED
    BY <2>1, <2>2, <2>3 DEF ToSet
<1>4. /\ writer[c] \in {"completing", "done"}
      /\ Fits(copy[c], c \in kept, c \in ToSet(list), writer[c], N(c), c \in orphans,
              c \in leaks, TRUE)
  BY <1>1, <1>3 DEF CopyPart, Fits
<1>5. frees => Freed(copy[c]) /\ N(c) = 0
  BY <1>1, <1>4 DEF Freed, Fits
<1>6. /\ writer' \in [Copy -> {"none", "writing", "lost", "completing", "done"}]
      /\ writer'[c] = "done" /\ \A d \in Copy \ {c} : writer'[d] = writer[d]
  BY <1>1, <1>2
<1>7. \A d \in Copy : N(d)' = N(d)
  BY <1>2, SameReaders
<1>8. CASE frees
  <2>1. /\ /\ copy' \in [Copy -> Fields] /\ kept' \subseteq Copy
           /\ hash' \in [Key -> Copy \cup {None}] /\ list' \in Seq(Copy)
           /\ size' \in Nat
        /\ SizePart' /\ HashPart' /\ ListPart'
        /\ \A d \in Copy \ {c} :
             /\ copy'[d] = copy[d] /\ (d \in kept' <=> d \in kept)
             /\ d \in ToSet(list') <=> d \in ToSet(list)
        /\ c \notin kept' /\ c \notin ToSet(list') /\ copy'[c] = Blank
    BY <1>1, <1>2, <1>5, <1>8, FreeStep
  <2>2. TypeOK'
    BY <1>1, <1>2, <1>3, <1>b, <1>6, <2>1 DEF TypeOK, Fields
  <2>3. \A d \in Copy \ {c} : CopyPart(d)'
    BY <1>2, <1>3, <1>6, <1>7, <2>1, Undisturbed DEF IInv
  <2>4. CopyPart(c)'
    BY <1>5, <1>6, <1>7, <1>8, <2>1, Gone
  <2> QED
    BY <2>1, <2>2, <2>3, <2>4 DEF IInv
<1>9. CASE ~frees
  <2>1. UNCHANGED <<copy, kept, hash, list, size>>
    BY <1>2, <1>9 DEF store
  <2>2. TypeOK'
    BY <1>1, <1>2, <1>3, <1>b, <1>6, <2>1 DEF TypeOK, Fields
  <2>3. SizePart' /\ HashPart' /\ ListPart'
    <3>1. SizePart'
      BY <2>1 DEF IInv, SizePart, Occupied
    <3>2. HashPart'
      BY <2>1 DEF IInv, HashPart
    <3>3. ListPart'
      BY <2>1 DEF IInv, ListPart, ToSet, IsInjective
    <3> QED
      BY <3>1, <3>2, <3>3
  <2>4. \A d \in Copy \ {c} : CopyPart(d)'
    BY <1>2, <1>3, <1>6, <1>7, <2>1, Undisturbed DEF IInv
  <2>5. CopyPart(c)'
    <3>1. Fits(copy[c], c \in kept, c \in ToSet(list), "done", N(c), c \in orphans,
               c \in leaks, c \in ToSet(stack'))
      BY <1>1, <1>4, <1>9 DEF Fits, Fields
    <3> QED
      BY <1>2, <1>6, <1>7, <2>1, <3>1, FitsNext DEF Fits
  <2> QED
    BY <2>2, <2>3, <2>4, <2>5 DEF IInv
<1> QED
  BY <1>8, <1>9

--------------------------------------------------------------------------------
(* Then a new copy.                                                        *)
LEMMA Unused ==
  ASSUME IInv, NEW c \in Copy, writer[c] = "none"
  PROVE  c \notin kept /\ c \notin ToSet(list) /\ N(c) = 0 /\ c \notin ToSet(stack)
BY CopyFacts DEF CopyPart, Fits

(* Out of memory a copy has no readers and no stream writes it.            *)
LEMMA NotKept ==
  ASSUME IInv, NEW d \in Copy, d \notin kept
  PROVE  /\ N(d) = 0 /\ d \notin ToSet(list) /\ writer[d] # "writing"
         /\ writer[d] = "lost" => d \in orphans
         /\ d \in ToSet(stack) => writer[d] \in {"completing", "done"}
BY CopyFacts DEF CopyPart, Fits

LEMMA NewCopyStep ==
  ASSUME IInv, NEW c \in Copy, NEW rec \in Fields, NewCopy(c, rec),
         kept' \subseteq kept \cup {c}, c \in kept'
  PROVE  /\ copy' \in [Copy -> Fields] /\ kept' \subseteq Copy /\ writer[c] = "none"
         /\ copy'[c] = [rec EXCEPT !.segments = 1]
         /\ \A d \in kept' \ {c} : copy'[d] = copy[d]
         /\ \A d \in Copy \ kept' : copy'[d] = Blank
<1>1. copy \in [Copy -> Fields] /\ kept \subseteq Copy
  BY DEF IInv, TypeOK, Fields
<1>2. [rec EXCEPT !.segments = 1] \in Fields
  BY DEF Fields
<1>3. copy' = [d \in Copy |-> IF d = c THEN [rec EXCEPT !.segments = 1]
                              ELSE IF d \in kept' THEN copy[d] ELSE Blank]
  BY DEF NewCopy
<1> QED
  BY <1>1, <1>2, <1>3, BlankFields DEF NewCopy

(* The other copies fit after a copy has been added, and one may be freed. *)
LEMMA NewCopyOthers ==
  ASSUME IInv, NEW c \in Copy, NEW rec \in Fields, NewCopy(c, rec),
         kept' \subseteq kept \cup {c}, c \in kept',
         \A d \in kept \ kept' : /\ N(d) = 0 /\ copy[d].completed,
         \A d \in kept' \ {c} : d \in ToSet(list') <=> d \in ToSet(list),
         \A d \in Copy \ {c} : writer'[d] = writer[d],
         orphans \subseteq orphans', UNCHANGED <<stack, reading, leaks>>
  PROVE  \A d \in Copy \ {c} : CopyPart(d)'
<1>1. /\ \A d \in kept' \ {c} : copy'[d] = copy[d]
      /\ \A d \in Copy \ kept' : copy'[d] = Blank
  BY NewCopyStep
<1>2. \A d \in Copy : N(d)' = N(d)
  BY SameReaders
<1> SUFFICES ASSUME NEW d \in Copy \ {c} PROVE CopyPart(d)'
  OBVIOUS
<1>3. CASE d \in kept'
  <2>1. d \in kept
    BY <1>3
  <2> QED
    BY <1>1, <1>2, <1>3, <2>1, Undisturbed DEF IInv
<1>4. CASE d \notin kept'
  <2>1. /\ N(d) = 0 /\ writer[d] # "writing"
        /\ writer[d] = "lost" => d \in orphans
        /\ d \in ToSet(stack) => writer[d] \in {"completing", "done"}
    <3>1. CASE d \in kept
      BY <1>4, <3>1, CopyFacts DEF CopyPart, Fits
    <3>2. CASE d \notin kept
      BY <3>2, NotKept
    <3> QED
      BY <3>1, <3>2
  <2> QED
    BY <1>1, <1>2, <1>4, <2>1, Gone
<1> QED
  BY <1>3, <1>4

MarkedFields == [Blank EXCEPT !.deleteMe = TRUE]

LEMMA MarkedFieldsFacts ==
  /\ MarkedFields \in Fields /\ MarkedFields.deleteMe
  /\ [MarkedFields EXCEPT !.segments = 1].segments = 1
  /\ [MarkedFields EXCEPT !.segments = 1].readLock = 0
  /\ [MarkedFields EXCEPT !.segments = 1].deleteMe
  /\ ~[MarkedFields EXCEPT !.segments = 1].completed
  /\ ~[MarkedFields EXCEPT !.segments = 1].aborted
<1>1. Blank.readLock = 0 /\ ~Blank.completed /\ ~Blank.aborted
  BY DEF Blank
<1> QED
  BY <1>1, BlankFields DEF MarkedFields, Fields

(* A copy that is marked from the start, and not found.                    *)
LEMMA NewMarkedStep ==
  ASSUME IInv, NEW c \in Copy, NewCopy(c, MarkedFields), kept' = kept \cup {c},
         Unhash(c), size' = size + 1
  PROVE  /\ copy' \in [Copy -> Fields] /\ kept' \subseteq Copy
         /\ hash' \in [Key -> Copy \cup {None}] /\ size' \in Nat
         /\ SizePart' /\ HashPart'
<1>1. /\ copy \in [Copy -> Fields] /\ kept \subseteq Copy /\ size \in Nat /\ SizePart
      /\ hash \in [Key -> Copy \cup {None}] /\ HashPart
  BY DEF IInv, TypeOK, Fields
<1>2. /\ copy' \in [Copy -> Fields] /\ kept' \subseteq Copy /\ writer[c] = "none"
      /\ copy'[c].segments = 1
      /\ \A d \in kept' \ {c} : copy'[d] = copy[d]
  BY MarkedFieldsFacts, NewCopyStep
<1>3. c \notin kept
  BY <1>2, Unused
<1>4. hash' = [hash EXCEPT ![KeyOf[c]] = None]
  BY DEF Unhash
<1>5. SizePart' /\ size' \in Nat
  <2> DEFINE w == Segments
             v == Segments'
             U == kept'
  <2>1. /\ \A d \in kept : w[d] \in Nat
        /\ \A d \in U : v[d] \in Nat
        /\ \A d \in kept : w[d] = v[d]
        /\ v[c] = 1
    BY <1>1, <1>2, <1>3 DEF Segments, Fields
  <2>2. IsFiniteSet(U) /\ c \in U /\ U \ {c} = kept
    BY <1>1, <1>2, <1>3, CopyAssumption, FS_Subset
  <2>3. Occupied(kept) = Total(kept, w)
    BY <1>1, OccupiedTotal
  <2>4. Occupied(kept)' = Total(U, v)
    <3>1. {{d} \X (1..copy'[d].segments) : d \in kept'} = {{d} \X (1..v[d]) : d \in kept'}
      BY <1>2 DEF Segments
    <3> HIDE DEF v
    <3> QED
      BY <3>1, Zenon DEF Occupied, Total
  <2> HIDE DEF w, v, U
  <2>5. Total(U, v) = Total(U \ {c}, v) + IF c \in U THEN v[c] ELSE 0
    BY <2>1, <2>2, TotalSplit
  <2>6. Total(U \ {c}, v) = Total(kept, v)
    BY <2>2, Zenon
  <2>7. Total(kept, w) = Total(kept, v)
    BY <2>1, TotalSame
  <2>8. size' = Total(U, v)
    BY <1>1, <2>1, <2>2, <2>3, <2>5, <2>6, <2>7 DEF SizePart
  <2>9. size' \in Nat
    BY <1>1
  <2>10. size' = Occupied(kept)'
    BY <2>4, <2>8, Zenon
  <2> QED
    BY <2>9, <2>10 DEF SizePart
<1>6. HashPart'
  <2> SUFFICES ASSUME NEW k \in Key, hash'[k] # None
               PROVE  /\ hash'[k] \in kept' /\ ~copy'[hash'[k]].deleteMe
                      /\ KeyOf[hash'[k]] = k
    BY DEF HashPart
  <2>1. hash'[k] = hash[k]
    BY <1>1, <1>4
  <2>2. hash[k] \in kept /\ ~copy[hash[k]].deleteMe /\ KeyOf[hash[k]] = k
    BY <1>1, <2>1 DEF HashPart
  <2>3. hash[k] \in kept' \ {c}
    BY <1>3, <2>2
  <2> QED
    BY <1>2, <2>1, <2>2, <2>3
<1> QED
  BY <1>1, <1>2, <1>4, <1>5, <1>6

LEMMA ConverterDuplicateStep ==
  ASSUME IInv, NEW c \in Copy, ConverterDuplicate(c)
  PROVE  IInv'
<1>1. /\ kept' = kept \cup {c} /\ NewCopy(c, MarkedFields) /\ Unhash(c)
      /\ list' = <<c>> \o list /\ size' = size + 1
      /\ writer' = [writer EXCEPT ![c] = "writing"]
      /\ UNCHANGED <<limit, stack, reading, reducing, notes>>
  BY DEF ConverterDuplicate, MarkedFields
<1>2. /\ TypeOK /\ list \in Seq(Copy) /\ ListPart /\ MarkedFields \in Fields
      /\ writer \in [Copy -> {"none", "writing", "lost", "completing", "done"}]
  BY MarkedFieldsFacts DEF IInv, TypeOK
<1>3. /\ copy' \in [Copy -> Fields] /\ kept' \subseteq Copy
      /\ hash' \in [Key -> Copy \cup {None}] /\ size' \in Nat
      /\ SizePart' /\ HashPart'
  BY <1>1, NewMarkedStep
<1>4. copy'[c] = [MarkedFields EXCEPT !.segments = 1] /\ writer[c] = "none"
  BY <1>1, <1>2, NewCopyStep
<1>5. c \notin kept /\ c \notin ToSet(list) /\ N(c) = 0 /\ c \notin ToSet(stack)
  BY <1>4, Unused
<1>6. /\ list' \in Seq(Copy) /\ IsInjective(list')
      /\ ToSet(list') = ToSet(list) \cup {c}
  <2>1. /\ <<c>> \o list \in Seq(Copy) /\ IsInjective(<<c>> \o list)
        /\ ToSet(<<c>> \o list) = ToSet(list) \cup {c}
    BY <1>2, <1>5, InFront DEF ListPart
  <2> QED
    BY <1>1, <2>1, Zenon
<1>7. /\ writer' \in [Copy -> {"none", "writing", "lost", "completing", "done"}]
      /\ writer'[c] = "writing" /\ \A d \in Copy \ {c} : writer'[d] = writer[d]
  BY <1>1, <1>2
<1>8. TypeOK'
  BY <1>1, <1>2, <1>3, <1>6, <1>7 DEF TypeOK, Fields, notes
<1>9. ListPart'
  <2>1. ToSet(list') \subseteq kept'
    BY <1>1, <1>2, <1>6 DEF ListPart
  <2> QED
    BY <1>6, <2>1 DEF ListPart, ToSet
<1>10. \A d \in Copy \ {c} : CopyPart(d)'
  <2>1. /\ c \in kept' /\ kept' \subseteq kept \cup {c} /\ kept \ kept' = {}
        /\ orphans \subseteq orphans' /\ UNCHANGED <<stack, reading, leaks>>
    BY <1>1 DEF notes
  <2>2. \A d \in kept' \ {c} : d \in ToSet(list') <=> d \in ToSet(list)
    BY <1>6
  <2> QED
    BY <1>1, <1>2, <1>7, <2>1, <2>2, NewCopyOthers
<1>11. CopyPart(c)'
  <2>1. N(c)' = 0
    BY <1>1, <1>5, SameReaders
  <2>2. Fits(copy'[c], TRUE, TRUE, "writing", 0, c \in orphans', c \in leaks', FALSE)
    BY <1>4, MarkedFieldsFacts DEF Fits
  <2> QED
    BY <1>1, <1>5, <1>6, <1>7, <2>1, <2>2, FitsNext DEF Fits
<1> QED
  BY <1>3, <1>8, <1>9, <1>10, <1>11 DEF IInv

LEMMA ConverterFailsStep ==
  ASSUME IInv, NEW c \in Copy, ConverterFails(c)
  PROVE  IInv'
<1>1. /\ kept' = kept \cup {c} /\ NewCopy(c, MarkedFields) /\ Unhash(c)
      /\ size' = size + 1 /\ orphans' = orphans \cup {c}
      /\ writer' = [writer EXCEPT ![c] = "done"]
      /\ UNCHANGED <<list, limit, stack, reading, reducing, leaks, damaged>>
      /\ faults < MaxFaults /\ faults' = faults + 1
  BY DEF ConverterFails, MarkedFields, Fault
<1>2. /\ TypeOK /\ list \in Seq(Copy) /\ ListPart /\ MarkedFields \in Fields
      /\ writer \in [Copy -> {"none", "writing", "lost", "completing", "done"}]
  BY MarkedFieldsFacts DEF IInv, TypeOK
<1>3. /\ copy' \in [Copy -> Fields] /\ kept' \subseteq Copy
      /\ hash' \in [Key -> Copy \cup {None}] /\ size' \in Nat
      /\ SizePart' /\ HashPart'
  BY <1>1, NewMarkedStep
<1>4. copy'[c] = [MarkedFields EXCEPT !.segments = 1] /\ writer[c] = "none"
  BY <1>1, <1>2, NewCopyStep
<1>5. c \notin kept /\ c \notin ToSet(list) /\ N(c) = 0 /\ c \notin ToSet(stack)
  BY <1>4, Unused
<1>6. /\ writer' \in [Copy -> {"none", "writing", "lost", "completing", "done"}]
      /\ writer'[c] = "done" /\ \A d \in Copy \ {c} : writer'[d] = writer[d]
  BY <1>1, <1>2
<1>7. TypeOK'
  BY <1>1, <1>2, <1>3, <1>6, BoundAssumption, SMTT(30) DEF TypeOK, Fields
<1>8. ListPart'
  BY <1>1, <1>2 DEF ListPart, ToSet, IsInjective
<1>9. \A d \in Copy \ {c} : CopyPart(d)'
  <2>1. /\ c \in kept' /\ kept' \subseteq kept \cup {c} /\ kept \ kept' = {}
        /\ orphans \subseteq orphans' /\ UNCHANGED <<stack, reading, leaks>>
    BY <1>1
  <2>2. \A d \in kept' \ {c} : d \in ToSet(list') <=> d \in ToSet(list)
    BY <1>1
  <2> QED
    BY <1>1, <1>2, <1>6, <2>1, <2>2, NewCopyOthers
<1>10. CopyPart(c)'
  <2>1. N(c)' = 0
    BY <1>1, <1>5, SameReaders
  <2>2. Fits(copy'[c], TRUE, FALSE, "done", 0, TRUE, c \in leaks', FALSE)
    BY <1>4, MarkedFieldsFacts DEF Fits
  <2> QED
    BY <1>1, <1>5, <1>6, <2>1, <2>2, FitsNext DEF Fits
<1> QED
  BY <1>3, <1>7, <1>8, <1>9, <1>10 DEF IInv

(* The one the new copy replaces, if there is one.                         *)
LEMMA ConverterAddsStep ==
  ASSUME IInv, NEW c \in Copy, ConverterAdds(c)
  PROVE  IInv'
<1> DEFINE D == Duplicate(c)
<1>1. /\ D \subseteq Idle /\ kept' = (kept \ D) \cup {c} /\ NewCopy(c, Blank)
      /\ hash' = [hash EXCEPT ![KeyOf[c]] = c]
      /\ list' = <<c>> \o RemoveFirst(list, hash[KeyOf[c]])
      /\ size' = size + 1 - Occupied(D)
      /\ writer' = [writer EXCEPT ![c] = "writing"]
      /\ UNCHANGED <<limit, stack, reading, reducing, notes>>
  BY DEF ConverterAdds
<1>2. /\ TypeOK /\ list \in Seq(Copy) /\ IsInjective(list) /\ ToSet(list) \subseteq kept
      /\ copy \in [Copy -> Fields] /\ kept \subseteq Copy /\ size \in Nat
      /\ hash \in [Key -> Copy \cup {None}] /\ HashPart /\ SizePart
      /\ KeyOf[c] \in Key /\ KeyOf \in [Copy -> Key]
      /\ writer \in [Copy -> {"none", "writing", "lost", "completing", "done"}]
  BY CopyAssumption DEF IInv, TypeOK, Fields, ListPart
<1>3. /\ D \subseteq kept /\ \A d \in D : KeyOf[d] = KeyOf[c] /\ hash[KeyOf[c]] = d
      /\ \A d \in D : copy[d].completed /\ copy[d].readLock = 0
      /\ \A d \in Copy : hash[KeyOf[c]] = d => d \in D
  <2>1. \A d \in D : d \in Copy /\ hash[KeyOf[c]] = d
    BY DEF Duplicate
  <2>2. \A d \in D : KeyOf[d] = KeyOf[c]
    BY <1>2, <2>1, FoundFacts
  <2> QED
    BY <1>1, <2>1, <2>2 DEF Idle, Duplicate
<1> HIDE DEF D
<1>4. \A d \in D : N(d) = 0
  BY <1>2, <1>3, CopyFacts DEF CopyPart, Fits
<1>5. /\ copy' \in [Copy -> Fields] /\ kept' \subseteq Copy /\ writer[c] = "none"
      /\ copy'[c] = [Blank EXCEPT !.segments = 1]
      /\ \A d \in kept' \ {c} : copy'[d] = copy[d]
      /\ c \in kept' /\ kept' \subseteq kept \cup {c}
  <2>1. c \in kept' /\ kept' \subseteq kept \cup {c}
    BY <1>1
  <2> QED
    BY <1>1, <2>1, BlankFields, NewCopyStep
<1>6. /\ c \notin kept /\ c \notin ToSet(list) /\ N(c) = 0 /\ c \notin ToSet(stack)
      /\ kept' \ {c} = kept \ D
  <2>1. c \notin kept /\ c \notin ToSet(list) /\ N(c) = 0 /\ c \notin ToSet(stack)
    BY <1>5, Unused
  <2> QED
    BY <1>1, <2>1
<1>7. /\ copy'[c].segments = 1 /\ copy'[c].readLock = 0 /\ ~copy'[c].completed
      /\ ~copy'[c].aborted /\ ~copy'[c].deleteMe /\ copy'[c].whole
  BY <1>5 DEF Blank
<1>8. /\ list' \in Seq(Copy) /\ IsInjective(list')
      /\ ToSet(list') = (ToSet(list) \ {hash[KeyOf[c]]}) \cup {c}
  <2> DEFINE l == RemoveFirst(list, hash[KeyOf[c]])
  <2>1. /\ l \in Seq(Copy) /\ IsInjective(l)
        /\ ToSet(l) = ToSet(list) \ {hash[KeyOf[c]]}
    BY <1>2, RemovedFirst
  <2>2. list' = <<c>> \o l
    BY <1>1
  <2> HIDE DEF l
  <2>3. c \notin ToSet(l)
    BY <1>6, <2>1
  <2>4. /\ <<c>> \o l \in Seq(Copy) /\ IsInjective(<<c>> \o l)
        /\ ToSet(<<c>> \o l) = ToSet(l) \cup {c}
    BY <2>1, <2>3, InFront
  <2> QED
    BY <2>1, <2>2, <2>4, Zenon
<1>9. ToSet(list') \subseteq kept'
      /\ \A d \in kept' \ {c} : d \in ToSet(list') <=> d \in ToSet(list)
  <2>1. \A d \in kept \ D : d # hash[KeyOf[c]]
    BY <1>2, <1>3
  <2>2. \A d \in kept' \ {c} : d \in ToSet(list') <=> d \in ToSet(list)
    BY <1>6, <1>8, <2>1
  <2>3. \A d \in ToSet(list) \ {hash[KeyOf[c]]} : d \in kept /\ d \notin D
    BY <1>2, <1>3
  <2>4. ToSet(list') \subseteq kept'
    BY <1>1, <1>8, <2>3
  <2> QED
    BY <2>2, <2>4
<1>10. /\ writer' \in [Copy -> {"none", "writing", "lost", "completing", "done"}]
       /\ writer'[c] = "writing" /\ \A d \in Copy \ {c} : writer'[d] = writer[d]
  BY <1>1, <1>2
<1>11. SizePart' /\ size' \in Nat
  <2> DEFINE w == Segments
             v == Segments'
             U == kept'
             V == kept \ D
  <2>1. /\ \A d \in kept : w[d] \in Nat
        /\ \A d \in U : v[d] \in Nat
        /\ \A d \in V : w[d] = v[d]
        /\ v[c] = 1
    BY <1>2, <1>5, <1>6, <1>7 DEF Segments, Fields
  <2>2. IsFiniteSet(U) /\ IsFiniteSet(kept) /\ c \in U /\ U \ {c} = V
    BY <1>2, <1>5, <1>6, CopyAssumption, FS_Subset
  <2>3. Occupied(kept) = Total(kept, w)
    BY <1>2, OccupiedTotal
  <2>4. Occupied(kept)' = Total(U, v)
    <3>1. {{d} \X (1..copy'[d].segments) : d \in kept'} = {{d} \X (1..v[d]) : d \in kept'}
      BY <1>5 DEF Segments
    <3> HIDE DEF v
    <3> QED
      BY <3>1, Zenon DEF Occupied, Total
  <2>5. Occupied(D) = Total(D, w)
    BY <1>2, <1>3, OccupiedTotal
  <2>6. V = kept \ D
    OBVIOUS
  <2> HIDE DEF w, v, U, V
  <2>7. Total(U, v) = Total(U \ {c}, v) + IF c \in U THEN v[c] ELSE 0
    BY <2>1, <2>2, TotalSplit
  <2>8. Total(U \ {c}, v) = Total(V, v)
    BY <2>2, Zenon
  <2>9. Total(V, w) = Total(V, v)
    BY <2>1, TotalSame
  <2>10. Total(kept, w) = Total(V, w) + Total(D, w) /\ Total(V, w) \in Nat
    <3>1. CASE D = {}
      <4>1. V = kept
        BY <2>6, <3>1
      <4>2. Total(V, w) = Total(kept, w)
        BY <4>1, Zenon
      <4>3. Total(D, w) = 0
        BY <3>1, TotalEmpty, Zenon
      <4>4. Total(kept, w) \in Nat
        BY <1>2, <2>3 DEF SizePart
      <4> QED
        BY <4>2, <4>3, <4>4
    <3>2. CASE D # {}
      <4>1. PICK d \in D : TRUE
        BY <3>2
      <4>2. D = {d} /\ V = kept \ {d} /\ d \in kept
        BY <1>3, <2>6, <4>1
      <4>3. /\ Total(kept \ {d}, w) \in Nat
            /\ Total(kept, w) = Total(kept \ {d}, w) + IF d \in kept THEN w[d] ELSE 0
        BY <2>1, <2>2, TotalSplit
      <4>4. IsFiniteSet({d}) /\ \A x \in {d} : w[x] \in Nat
        BY <2>1, <4>2, FS_Singleton
      <4>5. Total({d}, w) = Total({d} \ {d}, w) + IF d \in {d} THEN w[d] ELSE 0
        BY <4>4, TotalSplit
      <4>6. {d} \ {d} = {}
        OBVIOUS
      <4>7. Total({d} \ {d}, w) = 0
        BY <4>6, TotalEmpty, Zenon
      <4>8. Total({d}, w) = w[d] /\ w[d] \in Nat
        BY <4>4, <4>5, <4>7
      <4>9. Total(D, w) = Total({d}, w) /\ Total(V, w) = Total(kept \ {d}, w)
        BY <4>2, Zenon
      <4> QED
        BY <4>2, <4>3, <4>8, <4>9
    <3> QED
      BY <3>1, <3>2
  <2>11. Total(U, v) = Total(V, w) + 1
    <3>1. Total(U, v) = Total(V, v) + 1
      BY <2>1, <2>2, <2>7, <2>8
    <3> QED
      BY <2>9, <3>1
  <2>12. size' = size + 1 - Total(D, w) /\ size = Total(kept, w)
    BY <1>1, <1>2, <2>3, <2>5 DEF SizePart
  <2>13. Total(D, w) \in Int
    <3>1. IsFiniteSet(D) /\ \A x \in D : w[x] \in Nat
      BY <1>3, <2>1, <2>2, FS_Subset
    <3>2. Total(D \ {c}, w) \in Nat /\ c \notin D
      BY <1>3, <1>6, <3>1, TotalSplit
    <3>3. D \ {c} = D
      BY <3>2
    <3>4. Total(D, w) \in Nat
      BY <3>2, <3>3, Zenon
    <3> QED
      BY <3>4
  <2>14. size' = Total(U, v) /\ size' \in Nat
    BY <1>2, <2>10, <2>11, <2>12, <2>13
  <2>15. size' = Occupied(kept)'
    BY <2>4, <2>14, Zenon
  <2> QED
    BY <2>14, <2>15 DEF SizePart
<1>12. HashPart'
  <2> SUFFICES ASSUME NEW k \in Key, hash'[k] # None
               PROVE  /\ hash'[k] \in kept' /\ ~copy'[hash'[k]].deleteMe
                      /\ KeyOf[hash'[k]] = k
    BY DEF HashPart
  <2>1. CASE k = KeyOf[c]
    BY <1>1, <1>2, <1>5, <1>7, <2>1
  <2>2. CASE k # KeyOf[c]
    <3>1. hash'[k] = hash[k]
      BY <1>1, <1>2, <2>2
    <3>2. hash[k] \in kept /\ ~copy[hash[k]].deleteMe /\ KeyOf[hash[k]] = k
      BY <1>2, <3>1 DEF HashPart
    <3>3. hash[k] \notin D /\ hash[k] # c
      BY <1>3, <1>6, <2>2, <3>2
    <3>4. hash[k] \in kept' \ {c}
      BY <1>6, <3>2, <3>3
    <3> QED
      BY <1>5, <3>1, <3>2, <3>4
  <2> QED
    BY <2>1, <2>2
<1>13. TypeOK'
  <2>1. hash' \in [Key -> Copy \cup {None}]
    BY <1>1, <1>2
  <2> QED
    BY <1>1, <1>2, <1>5, <1>8, <1>10, <1>11, <2>1 DEF TypeOK, Fields, notes
<1>14. ListPart'
  BY <1>8, <1>9 DEF ListPart, ToSet
<1>15. \A d \in Copy \ {c} : CopyPart(d)'
  <2>1. \A d \in kept \ kept' : N(d) = 0 /\ copy[d].completed
    BY <1>1, <1>3, <1>4
  <2>2. orphans \subseteq orphans' /\ UNCHANGED <<stack, reading, leaks>>
    BY <1>1 DEF notes
  <2> QED
    BY <1>1, <1>5, <1>9, <1>10, <2>1, <2>2, BlankFields, NewCopyOthers
<1>16. CopyPart(c)'
  <2>1. N(c)' = 0
    BY <1>1, <1>6, SameReaders
  <2>2. c \in ToSet(list')
    BY <1>8
  <2>3. Fits(copy'[c], TRUE, TRUE, "writing", 0, c \in orphans', c \in leaks', FALSE)
    BY <1>7 DEF Fits
  <2> QED
    BY <1>1, <1>5, <1>6, <1>10, <2>1, <2>2, <2>3, FitsNext, ZenonT(30) DEF Fits
<1> QED
  BY <1>11, <1>12, <1>13, <1>14, <1>15, <1>16 DEF IInv

--------------------------------------------------------------------------------
(* The readers.                                                            *)

LEMMA FoundStep ==
  ASSUME IInv, NEW k \in Key, NEW c \in Copy, Found(k, c)
  PROVE  LET f == [copy[c] EXCEPT !.readLock = @ + 1] IN
         /\ /\ f \in Fields /\ f.completed = copy[c].completed
            /\ f.aborted = copy[c].aborted /\ ~f.deleteMe /\ f.whole
            /\ f.readLock = copy[c].readLock + 1
         /\ copy' \in [Copy -> Fields] /\ copy'[c] = f
         /\ \A d \in Copy \ {c} : copy'[d] = copy[d]
         /\ SizePart' /\ HashPart' /\ ListPart'
         /\ list' \in Seq(Copy) /\ c \in kept /\ c \in ToSet(list)
         /\ \A d \in Copy : d \in ToSet(list') <=> d \in ToSet(list)
<1> DEFINE f == [copy[c] EXCEPT !.readLock = @ + 1]
<1>1. /\ hash[k] = c /\ list' = <<c>> \o RemoveFirst(list, c)
      /\ copy' = [copy EXCEPT ![c] = f]
      /\ UNCHANGED <<kept, hash, size, limit, writer, stack, reducing, orphans>>
  BY DEF Found, With
<1>2. /\ copy[c] \in Fields /\ list \in Seq(Copy) /\ IsInjective(list)
      /\ ToSet(list) \subseteq kept /\ kept \subseteq Copy
  BY CopyFacts DEF IInv, TypeOK, ListPart
<1>3. c \in kept /\ ~copy[c].deleteMe /\ c \in ToSet(list) /\ copy[c].whole
  BY <1>1, FoundFacts
<1>4. /\ f \in Fields /\ f.completed = copy[c].completed
      /\ f.aborted = copy[c].aborted /\ f.deleteMe = copy[c].deleteMe
      /\ f.whole = copy[c].whole /\ f.segments = copy[c].segments
      /\ f.readLock = copy[c].readLock + 1
  BY <1>2 DEF Fields
<1> HIDE DEF f
<1>5. /\ copy' \in [Copy -> Fields] /\ copy'[c] = f
      /\ \A d \in Copy \ {c} : copy'[d] = copy[d]
      /\ SizePart' /\ HashPart'
  BY <1>1, <1>4, OneCopyStep
<1>6. list' \in Seq(Copy) /\ IsInjective(list') /\ ToSet(list') = ToSet(list)
  <2> DEFINE l == RemoveFirst(list, c)
  <2>1. l \in Seq(Copy) /\ IsInjective(l) /\ ToSet(l) = ToSet(list) \ {c}
    BY <1>2, RemovedFirst
  <2>2. list' = <<c>> \o l
    BY <1>1
  <2> HIDE DEF l
  <2>3. c \notin ToSet(l)
    BY <2>1
  <2>4. /\ <<c>> \o l \in Seq(Copy) /\ IsInjective(<<c>> \o l)
        /\ ToSet(<<c>> \o l) = ToSet(l) \cup {c}
    BY <2>1, <2>3, InFront
  <2>5. ToSet(l) \cup {c} = ToSet(list)
    BY <1>3, <2>1
  <2> QED
    BY <2>2, <2>4, <2>5, Zenon
<1>7. ListPart'
  <2>1. ToSet(list') \subseteq kept'
    BY <1>1, <1>2, <1>6
  <2> QED
    BY <1>6, <2>1 DEF ListPart, ToSet
<1>8. \A d \in Copy : d \in ToSet(list') <=> d \in ToSet(list)
  BY <1>6
<1> QED
  BY <1>3, <1>4, <1>5, <1>6, <1>7, <1>8 DEF f

LEMMA LoadStep ==
  ASSUME IInv, NEW r \in Reader, NEW k \in Key, Load(r, k)
  PROVE  IInv'
<1>1. PICK c \in Copy : /\ Found(k, c) /\ reading[r] = None
                        /\ reading' = [reading EXCEPT ![r] = c]
                        /\ UNCHANGED <<leaks, faults>>
  BY DEF Load
<1> DEFINE f == [copy[c] EXCEPT !.readLock = @ + 1]
<1>2. /\ /\ f \in Fields /\ f.completed = copy[c].completed
         /\ f.aborted = copy[c].aborted /\ ~f.deleteMe /\ f.whole
         /\ f.readLock = copy[c].readLock + 1
      /\ copy' \in [Copy -> Fields] /\ copy'[c] = f
      /\ \A d \in Copy \ {c} : copy'[d] = copy[d]
      /\ SizePart' /\ HashPart' /\ ListPart'
      /\ list' \in Seq(Copy) /\ c \in kept /\ c \in ToSet(list)
      /\ \A d \in Copy : d \in ToSet(list') <=> d \in ToSet(list)
  BY <1>1, FoundStep
<1> HIDE DEF f
<1>3. /\ TypeOK /\ reading \in [Reader -> Copy \cup {None}] /\ c # None
      /\ copy[c].readLock \in Nat /\ N(c) \in Nat /\ CopyPart(c)
  BY CopyAssumption, CopyFacts DEF IInv, TypeOK, Fields
<1>4. UNCHANGED <<kept, hash, size, limit, writer, stack, reducing, orphans, damaged>>
  BY <1>1 DEF Found
<1>5. reading' \in [Reader -> Copy \cup {None}]
  BY <1>1, <1>3
<1>6. TypeOK'
  BY <1>1, <1>2, <1>3, <1>4, <1>5 DEF TypeOK, Fields
<1>7. N(c)' = N(c) + 1 /\ \A d \in Copy \ {c} : N(d)' = N(d)
  <2>1. N(c)' = N(c) + 1
    BY <1>1, <1>3, MoreReaders
  <2>2. \A d \in Copy \ {c} : reading[r] # d /\ c # d
    BY <1>1, CopyAssumption
  <2> QED
    BY <1>1, <1>3, <2>1, <2>2, OtherReaders
<1>8. \A d \in Copy \ {c} : CopyPart(d)'
  BY <1>1, <1>2, <1>4, <1>7, Undisturbed DEF IInv
<1>9. CopyPart(c)'
  <2>1. Fits(copy[c], TRUE, TRUE, writer[c], N(c), c \in orphans, c \in leaks,
             c \in ToSet(stack))
    BY <1>2, <1>3 DEF CopyPart, Fits
  <2>2. Fits(f, TRUE, TRUE, writer[c], N(c) + 1, c \in orphans, c \in leaks,
             c \in ToSet(stack))
    BY <1>2, <1>3, <2>1 DEF Fits
  <2> QED
    BY <1>1, <1>2, <1>4, <1>7, <2>2, FitsNext DEF Fits
<1> QED
  BY <1>2, <1>6, <1>8, <1>9 DEF IInv

LEMMA LoadFailsStep ==
  ASSUME IInv, NEW k \in Key, LoadFails(k)
  PROVE  IInv'
<1>1. PICK c \in Copy : /\ Found(k, c) /\ leaks' = leaks \cup {c} /\ UNCHANGED reading
                        /\ faults < MaxFaults /\ faults' = faults + 1
  BY DEF LoadFails, Fault
<1> DEFINE f == [copy[c] EXCEPT !.readLock = @ + 1]
<1>2. /\ /\ f \in Fields /\ f.completed = copy[c].completed
         /\ f.aborted = copy[c].aborted /\ ~f.deleteMe /\ f.whole
         /\ f.readLock = copy[c].readLock + 1
      /\ copy' \in [Copy -> Fields] /\ copy'[c] = f
      /\ \A d \in Copy \ {c} : copy'[d] = copy[d]
      /\ SizePart' /\ HashPart' /\ ListPart'
      /\ list' \in Seq(Copy) /\ c \in kept /\ c \in ToSet(list)
      /\ \A d \in Copy : d \in ToSet(list') <=> d \in ToSet(list)
  BY <1>1, FoundStep
<1> HIDE DEF f
<1>3. /\ TypeOK /\ copy[c].readLock \in Nat /\ N(c) \in Nat /\ CopyPart(c)
  BY CopyFacts DEF IInv, TypeOK, Fields
<1>4. UNCHANGED <<kept, hash, size, limit, writer, stack, reducing, orphans, damaged>>
  BY <1>1 DEF Found
<1>5. TypeOK'
  BY <1>1, <1>2, <1>3, <1>4, BoundAssumption, SMTT(30) DEF TypeOK, Fields
<1>6. \A d \in Copy : N(d)' = N(d)
  BY <1>1, SameReaders
<1>7. \A d \in Copy \ {c} : CopyPart(d)'
  BY <1>1, <1>2, <1>4, <1>6, Undisturbed DEF IInv
<1>8. CopyPart(c)'
  <2>1. Fits(copy[c], TRUE, TRUE, writer[c], N(c), c \in orphans, c \in leaks,
             c \in ToSet(stack))
    BY <1>2, <1>3 DEF CopyPart, Fits
  <2>2. Fits(f, TRUE, TRUE, writer[c], N(c), c \in orphans, TRUE, c \in ToSet(stack))
    BY <1>2, <1>3, <2>1 DEF Fits
  <2> QED
    BY <1>1, <1>2, <1>4, <1>6, <2>2, FitsNext DEF Fits
<1> QED
  BY <1>2, <1>5, <1>7, <1>8 DEF IInv

LEMMA ReleaseStep ==
  ASSUME IInv, NEW r \in Reader, NEW c \in Copy, Release(r, c)
  PROVE  IInv'
<1> DEFINE f == [copy[c] EXCEPT !.readLock = @ - 1]
           frees == f.deleteMe /\ f.readLock = 0
<1>1. /\ reading[r] = c /\ reading' = [reading EXCEPT ![r] = None]
      /\ frees => FreeMemoryCopy(c, f, list)
      /\ ~frees => /\ copy' = [copy EXCEPT ![c] = f]
                   /\ UNCHANGED <<kept, hash, list, size>>
      /\ UNCHANGED <<limit, writer, stack, reducing, notes>>
  BY DEF Release, With
<1>2. /\ TypeOK /\ reading \in [Reader -> Copy \cup {None}] /\ c # None
      /\ copy[c] \in Fields /\ copy[c].readLock \in Nat /\ N(c) \in Nat /\ CopyPart(c)
  BY CopyAssumption, CopyFacts DEF IInv, TypeOK, Fields
<1>3. N(c)' = N(c) - 1 /\ N(c) > 0 /\ \A d \in Copy \ {c} : N(d)' = N(d)
  <2>1. N(c)' = N(c) - 1 /\ N(c) > 0
    BY <1>1, <1>2, FewerReaders
  <2>2. \A d \in Copy \ {c} : reading[r] # d /\ None # d
    BY <1>1, CopyAssumption
  <2> QED
    BY <1>1, <1>2, <2>1, <2>2, OtherReaders
<1>4. /\ Fits(copy[c], TRUE, c \in ToSet(list), writer[c], N(c), c \in orphans,
              c \in leaks, c \in ToSet(stack))
      /\ c \in kept
  BY <1>2, <1>3 DEF CopyPart, Fits
<1>5. copy[c].readLock > 0 /\ copy[c].readLock - 1 \in Nat
  BY <1>2, <1>3, <1>4 DEF Fits
<1>6. /\ f \in Fields /\ f.completed = copy[c].completed
      /\ f.aborted = copy[c].aborted /\ f.deleteMe = copy[c].deleteMe
      /\ f.whole = copy[c].whole /\ f.segments = copy[c].segments
      /\ f.readLock = copy[c].readLock - 1
  BY <1>2, <1>5 DEF Fields
<1>7. reading' \in [Reader -> Copy \cup {None}]
  BY <1>1, <1>2
<1> HIDE DEF f
<1>8. CASE frees
  <2>1. /\ /\ copy' \in [Copy -> Fields] /\ kept' \subseteq Copy
           /\ hash' \in [Key -> Copy \cup {None}] /\ list' \in Seq(Copy)
           /\ size' \in Nat
        /\ SizePart' /\ HashPart' /\ ListPart'
        /\ \A d \in Copy \ {c} :
             /\ copy'[d] = copy[d] /\ (d \in kept' <=> d \in kept)
             /\ d \in ToSet(list') <=> d \in ToSet(list)
        /\ Freed(f) => c \notin kept' /\ c \notin ToSet(list') /\ copy'[c] = Blank
        /\ ~Freed(f) => /\ c \in kept'
                        /\ c \in ToSet(list') <=> c \in ToSet(list)
                        /\ copy'[c] = [f EXCEPT !.deleteMe = TRUE]
    BY <1>1, <1>4, <1>6, <1>8, FreeStep
  <2>2. TypeOK'
    BY <1>1, <1>2, <1>7, <2>1 DEF TypeOK, Fields, notes
  <2>3. \A d \in Copy \ {c} : CopyPart(d)'
    BY <1>1, <1>3, <2>1, Undisturbed DEF IInv, notes
  <2>4. N(c)' = 0 /\ f.readLock = 0 /\ copy[c].deleteMe
    BY <1>2, <1>3, <1>4, <1>6, <1>8 DEF Fits
  <2>5. CopyPart(c)'
    <3>1. /\ writer[c] # "writing"
          /\ writer[c] = "lost" => c \in orphans
          /\ c \in ToSet(stack) => writer[c] \in {"completing", "done"}
      BY <1>3, <1>4, <2>4 DEF Fits
    <3>2. CASE Freed(f)
      BY <1>1, <2>1, <2>4, <3>1, <3>2, Gone DEF notes
    <3>3. CASE ~Freed(f)
      <4>1. ~f.completed /\ ~f.aborted
        BY <2>4, <3>3 DEF Freed
      <4>2. Fits([f EXCEPT !.deleteMe = TRUE], TRUE, c \in ToSet(list), writer[c], 0,
                 c \in orphans, c \in leaks, c \in ToSet(stack))
        BY <1>2, <1>4, <1>6, <2>4, <3>1, <4>1 DEF Fits, Fields
      <4>3. /\ c \in kept' /\ copy'[c] = [f EXCEPT !.deleteMe = TRUE]
            /\ c \in ToSet(list') <=> c \in ToSet(list)
            /\ UNCHANGED <<writer, orphans, leaks, stack>>
        BY <1>1, <2>1, <3>3 DEF notes
      <4> QED
        BY <2>4, <4>2, <4>3, FitsNext DEF Fits
    <3> QED
      BY <3>2, <3>3
  <2> QED
    BY <2>1, <2>2, <2>3, <2>5 DEF IInv
<1>9. CASE ~frees
  <2>1. copy' = [copy EXCEPT ![c] = f] /\ UNCHANGED <<kept, hash, list, size>>
    BY <1>1, <1>9
  <2>2. /\ copy' \in [Copy -> Fields] /\ copy'[c] = f
        /\ \A d \in Copy \ {c} : copy'[d] = copy[d]
        /\ SizePart' /\ HashPart'
    BY <1>6, <2>1, OneCopyStep
  <2>3. TypeOK'
    BY <1>1, <1>2, <1>7, <2>1, <2>2 DEF TypeOK, Fields, notes
  <2>4. ListPart'
    BY <2>1 DEF IInv, ListPart, ToSet, IsInjective
  <2>5. \A d \in Copy \ {c} : CopyPart(d)'
    BY <1>1, <1>3, <2>1, <2>2, Undisturbed DEF IInv, notes
  <2>6. CopyPart(c)'
    <3>1. Fits(f, TRUE, c \in ToSet(list), writer[c], N(c) - 1, c \in orphans,
               c \in leaks, c \in ToSet(stack))
      BY <1>2, <1>3, <1>4, <1>5, <1>6, <1>9 DEF Fits
    <3> QED
      BY <1>1, <1>3, <1>4, <2>1, <2>2, <3>1, FitsNext DEF Fits, notes
  <2> QED
    BY <2>2, <2>3, <2>4, <2>5, <2>6 DEF IInv
<1> QED
  BY <1>8, <1>9

LEMMA ProcessFailsStep ==
  ASSUME IInv, NEW r \in Reader, ProcessFails(r)
  PROVE  IInv'
<1>1. PICK c \in Copy :
        /\ reading[r] = c /\ faults < MaxFaults /\ faults' = faults + 1
        /\ reading' = [reading EXCEPT ![r] = None] /\ leaks' = leaks \cup {c}
        /\ UNCHANGED <<copy, kept, hash, list, size, limit, writer, stack, reducing,
                       orphans, damaged>>
  BY DEF ProcessFails, Fault, store
<1>2. /\ TypeOK /\ reading \in [Reader -> Copy \cup {None}] /\ c # None
      /\ copy[c].readLock \in Nat /\ N(c) \in Nat /\ CopyPart(c)
  BY CopyAssumption, CopyFacts DEF IInv, TypeOK, Fields
<1>3. N(c)' = N(c) - 1 /\ N(c) > 0 /\ \A d \in Copy \ {c} : N(d)' = N(d)
  <2>1. N(c)' = N(c) - 1 /\ N(c) > 0
    BY <1>1, <1>2, FewerReaders
  <2>2. \A d \in Copy \ {c} : reading[r] # d /\ None # d
    BY <1>1, CopyAssumption
  <2> QED
    BY <1>1, <1>2, <2>1, <2>2, OtherReaders
<1>4. TypeOK'
  <2>1. reading' \in [Reader -> Copy \cup {None}]
    BY <1>1, <1>2
  <2> QED
    BY <1>1, <1>2, <2>1, BoundAssumption DEF TypeOK
<1>5. SizePart' /\ HashPart' /\ ListPart'
  <2>1. SizePart'
    BY <1>1 DEF IInv, SizePart, Occupied
  <2>2. HashPart'
    BY <1>1 DEF IInv, HashPart
  <2>3. ListPart'
    BY <1>1 DEF IInv, ListPart, ToSet, IsInjective
  <2> QED
    BY <2>1, <2>2, <2>3
<1>6. \A d \in Copy \ {c} : CopyPart(d)'
  BY <1>1, <1>3, Undisturbed DEF IInv
<1>7. CopyPart(c)'
  <2>1. Fits(copy[c], c \in kept, c \in ToSet(list), writer[c], N(c), c \in orphans,
             c \in leaks, c \in ToSet(stack))
    BY <1>2 DEF CopyPart
  <2>2. Fits(copy[c], c \in kept, c \in ToSet(list), writer[c], N(c) - 1, c \in orphans,
             TRUE, c \in ToSet(stack))
    BY <1>2, <1>3, <2>1 DEF Fits
  <2> QED
    BY <1>1, <1>3, <2>2, FitsNext DEF Fits
<1> QED
  BY <1>4, <1>5, <1>6, <1>7 DEF IInv

--------------------------------------------------------------------------------
(* The rest.                                                               *)

LEMMA ChangeMemCacheLockStep ==
  ASSUME IInv, NEW k \in Key, NEW set \in BOOLEAN, ChangeMemCacheLock(k, set)
  PROVE  IInv'
<1>1. PICK c \in Copy :
        /\ IF set THEN copy[c].locks < MaxLocks ELSE copy[c].locks > 0
        /\ copy' = [copy EXCEPT ![c] =
             [copy[c] EXCEPT !.locks = IF set THEN @ + 1 ELSE @ - 1]]
        /\ UNCHANGED <<kept, hash, list, size, limit, users, reducing, notes>>
  BY DEF ChangeMemCacheLock, With
<1> DEFINE f == [copy[c] EXCEPT !.locks = IF set THEN @ + 1 ELSE @ - 1]
<1>2. /\ TypeOK /\ copy[c] \in Fields /\ copy[c].locks \in 0..MaxLocks
      /\ MaxLocks \in Nat /\ CopyPart(c)
  BY CopyFacts, BoundAssumption DEF IInv, TypeOK, Fields
<1>3. (IF set THEN copy[c].locks + 1 ELSE copy[c].locks - 1) \in 0..MaxLocks
  BY <1>1, <1>2
<1>4. /\ f \in Fields /\ f.completed = copy[c].completed
      /\ f.aborted = copy[c].aborted /\ f.deleteMe = copy[c].deleteMe
      /\ f.whole = copy[c].whole /\ f.segments = copy[c].segments
      /\ f.readLock = copy[c].readLock
  BY <1>2, <1>3 DEF Fields
<1>5. copy' = [copy EXCEPT ![c] = f] /\ UNCHANGED <<kept, hash, size>>
  BY <1>1
<1> HIDE DEF f
<1>6. /\ copy' \in [Copy -> Fields] /\ copy'[c] = f
      /\ \A d \in Copy \ {c} : copy'[d] = copy[d]
      /\ SizePart' /\ HashPart'
  BY <1>4, <1>5, OneCopyStep
<1>7. TypeOK'
  BY <1>1, <1>2, <1>6 DEF TypeOK, Fields, users, notes
<1>8. ListPart'
  BY <1>1 DEF IInv, ListPart, ToSet, IsInjective
<1>9. \A d \in Copy : N(d)' = N(d)
  BY <1>1, SameReaders DEF users
<1>10. \A d \in Copy \ {c} : CopyPart(d)'
  BY <1>1, <1>6, <1>9, Undisturbed DEF IInv, users, notes
<1>11. CopyPart(c)'
  <2>1. Fits(copy[c], c \in kept, c \in ToSet(list), writer[c], N(c), c \in orphans,
             c \in leaks, c \in ToSet(stack))
    BY <1>2 DEF CopyPart
  <2>2. Fits(f, c \in kept, c \in ToSet(list), writer[c], N(c), c \in orphans,
             c \in leaks, c \in ToSet(stack))
    BY <1>4, <2>1 DEF Fits
  <2> QED
    BY <1>1, <1>6, <1>9, <2>2, FitsNext, ZenonT(30) DEF Fits, users, notes
<1> QED
  BY <1>6, <1>7, <1>8, <1>10, <1>11 DEF IInv

LEMMA RemoveURLStep ==
  ASSUME IInv, NEW k \in Key, RemoveURL(k)
  PROVE  IInv'
<1>1. PICK c \in Idle : /\ FreeMemoryCopy(c, copy[c], list)
                        /\ UNCHANGED <<limit, users, reducing, notes>>
  BY DEF RemoveURL
<1>2. c \in kept /\ c \in Copy /\ copy[c].readLock = 0 /\ copy[c].completed /\ TypeOK
  BY <1>1 DEF Idle, IInv, TypeOK
<1>3. copy[c] \in Fields /\ CopyPart(c) /\ N(c) \in Nat
  BY <1>2, CopyFacts
<1>4. Freed(copy[c])
  BY <1>2 DEF Freed
<1>5. /\ /\ copy' \in [Copy -> Fields] /\ kept' \subseteq Copy
         /\ hash' \in [Key -> Copy \cup {None}] /\ list' \in Seq(Copy)
         /\ size' \in Nat
      /\ SizePart' /\ HashPart' /\ ListPart'
      /\ \A d \in Copy \ {c} :
           /\ copy'[d] = copy[d] /\ (d \in kept' <=> d \in kept)
           /\ d \in ToSet(list') <=> d \in ToSet(list)
      /\ c \notin kept' /\ c \notin ToSet(list') /\ copy'[c] = Blank
  BY <1>1, <1>2, <1>3, <1>4, FreeStep
<1>6. TypeOK'
  BY <1>1, <1>2, <1>5 DEF TypeOK, Fields, users, notes
<1>7. \A d \in Copy : N(d)' = N(d)
  BY <1>1, SameReaders DEF users
<1>8. \A d \in Copy \ {c} : CopyPart(d)'
  BY <1>1, <1>5, <1>7, Undisturbed DEF IInv, users, notes
<1>9. CopyPart(c)'
  <2>1. /\ N(c) = 0 /\ writer[c] # "writing"
        /\ writer[c] = "lost" => c \in orphans
        /\ c \in ToSet(stack) => writer[c] \in {"completing", "done"}
    BY <1>2, <1>3 DEF CopyPart, Fits
  <2> QED
    BY <1>1, <1>2, <1>5, <1>7, <2>1, Gone DEF users, notes
<1> QED
  BY <1>5, <1>6, <1>8, <1>9 DEF IInv

(* The list an eviction leaves to net_FreeMemoryCopy.                      *)
LEMMA EvictionList ==
  ASSUME IInv, NEW i \in DOMAIN list
  PROVE  LET l == Reverse(SubSeq(list, i + 1, Len(list))) \o SubSeq(list, 1, i - 1) IN
         l \in Seq(Copy) /\ IsInjective(l) /\ ToSet(l) = ToSet(list) \ {list[i]}
<1> DEFINE b == Before(list, i)
           a == After(list, i)
<1>1. list \in Seq(Copy) /\ IsInjective(list)
  BY DEF IInv, TypeOK, ListPart
<1>2. /\ b \in Seq(Copy) /\ a \in Seq(Copy) /\ IsInjective(b) /\ IsInjective(a)
      /\ ToSet(b) \cap ToSet(a) = {}
      /\ ToSet(b) \cup ToSet(a) = ToSet(list) \ {list[i]}
  BY <1>1, TakenOff
<1> HIDE DEF a, b
<1>3. /\ Reverse(a) \in Seq(Copy) /\ IsInjective(Reverse(a))
      /\ ToSet(Reverse(a)) = ToSet(a)
  BY <1>2, Reversed
<1>4. ToSet(Reverse(a)) \cap ToSet(b) = {}
      /\ ToSet(Reverse(a)) \cup ToSet(b) = ToSet(list) \ {list[i]}
  BY <1>2, <1>3
<1> DEFINE q == Reverse(a)
<1>5. /\ q \in Seq(Copy) /\ IsInjective(q) /\ ToSet(q) \cap ToSet(b) = {}
      /\ ToSet(q) \cup ToSet(b) = ToSet(list) \ {list[i]}
  BY <1>3, <1>4
<1> HIDE DEF q
<1>6. /\ q \o b \in Seq(Copy) /\ IsInjective(q \o b)
      /\ ToSet(q \o b) = ToSet(q) \cup ToSet(b)
  BY <1>2, <1>5, Joined
<1>7. q \o b = Reverse(SubSeq(list, i + 1, Len(list))) \o SubSeq(list, 1, i - 1)
  BY DEF q, a, b, Before, After
<1> QED
  BY <1>5, <1>6, <1>7, Zenon

LEMMA Evicted ==
  ASSUME IInv, Victims # {}, EvictLast
  PROVE  \E c \in kept, l \in Seq(Copy) :
           /\ FreeMemoryCopy(c, copy[c], l) /\ copy[c].completed /\ c \in ToSet(list)
           /\ IsInjective(l) /\ ToSet(l) = ToSet(list) \ {c}
<1> DEFINE i == Max(Victims)
           d == list[i]
           m == Reverse(SubSeq(list, i + 1, Len(list))) \o SubSeq(list, 1, i - 1)
<1>1. Victims # {} /\ FreeMemoryCopy(d, copy[d], m)
  BY DEF EvictLast
<1>2. /\ list \in Seq(Copy) /\ Len(list) \in Nat
      /\ DOMAIN list = 1..Len(list) /\ ToSet(list) \subseteq kept
  BY DEF IInv, TypeOK, ListPart
<1>3. i \in Victims
  BY <1>1, <1>2, MaxMember DEF Victims
<1>4. i \in DOMAIN list /\ d \in ToSet(list) /\ copy[d].completed
  BY <1>3 DEF Victims, Evictable, ToSet
<1>5. m \in Seq(Copy) /\ IsInjective(m) /\ ToSet(m) = ToSet(list) \ {d}
  BY <1>4, EvictionList
<1> HIDE DEF i, m, d
<1>6. d \in kept
  BY <1>2, <1>4
<1> QED
  BY <1>1, <1>4, <1>5, <1>6, Zenon

LEMMA EvictStep ==
  ASSUME IInv, Evict \/ RemoveLast
  PROVE  IInv'
<1>1. Victims # {} /\ EvictLast /\ UNCHANGED <<limit, users, reducing, notes>>
  BY DEF Evict, RemoveLast
<1>2. /\ TypeOK /\ SizePart /\ HashPart
      /\ ToSet(list) \subseteq kept /\ kept \subseteq Copy
  BY DEF IInv, TypeOK, ListPart
<1>4. PICK c \in kept, l \in Seq(Copy) :
        /\ FreeMemoryCopy(c, copy[c], l) /\ copy[c].completed /\ c \in ToSet(list)
        /\ IsInjective(l) /\ ToSet(l) = ToSet(list) \ {c}
  BY <1>1, Evicted
<1>6. c \in kept /\ c \in Copy /\ ToSet(l) \subseteq kept
  BY <1>2, <1>4
<1>7. copy[c] \in Fields /\ CopyPart(c) /\ N(c) \in Nat
  BY <1>6, CopyFacts
<1>8. /\ /\ copy' \in [Copy -> Fields] /\ kept' \subseteq Copy
         /\ hash' \in [Key -> Copy \cup {None}] /\ list' \in Seq(Copy)
         /\ size' \in Nat
      /\ SizePart' /\ HashPart' /\ ListPart'
      /\ \A d \in Copy \ {c} :
           /\ copy'[d] = copy[d] /\ (d \in kept' <=> d \in kept)
           /\ d \in ToSet(list') <=> d \in ToSet(l)
      /\ Freed(copy[c]) => c \notin kept' /\ c \notin ToSet(list') /\ copy'[c] = Blank
      /\ ~Freed(copy[c]) => /\ c \in kept'
                            /\ c \in ToSet(list') <=> c \in ToSet(l)
                            /\ copy'[c] = [copy[c] EXCEPT !.deleteMe = TRUE]
  BY <1>2, <1>4, <1>6, <1>7, FreeMemoryCopyStep
<1>9. TypeOK'
  BY <1>1, <1>2, <1>8 DEF TypeOK, Fields, users, notes
<1>13. UNCHANGED <<writer, stack, orphans, leaks>>
  BY <1>1 DEF users, notes
<1>10. \A d \in Copy : N(d)' = N(d)
  BY <1>1, SameReaders DEF users
<1>11. \A d \in Copy \ {c} : CopyPart(d)'
  <2>1. \A d \in Copy \ {c} : d \in ToSet(list') <=> d \in ToSet(list)
    BY <1>4, <1>8
  <2> QED
    BY <1>1, <1>8, <1>10, <2>1, Undisturbed DEF IInv, users, notes
<1>12. CopyPart(c)'
  <2>1. Fits(copy[c], TRUE, TRUE, writer[c], N(c), c \in orphans, c \in leaks,
             c \in ToSet(stack))
    BY <1>4, <1>6, <1>7 DEF CopyPart, Fits
  <2>2. writer[c] # "writing"
    BY <1>4, <2>1 DEF Fits
  <2>3. CASE Freed(copy[c])
    <3>1. /\ N(c) = 0
          /\ writer[c] = "lost" => c \in orphans
          /\ c \in ToSet(stack) => writer[c] \in {"completing", "done"}
      BY <1>7, <2>1, <2>3 DEF Freed, Fits
    <3> QED
      BY <1>6, <1>8, <1>10, <1>13, <2>2, <2>3, <3>1, Gone
  <2>4. CASE ~Freed(copy[c])
    <3>1. copy[c].readLock > 0 /\ c \notin ToSet(l)
      BY <1>4, <1>7, <2>4 DEF Freed, Fields
    <3>2. Fits([copy[c] EXCEPT !.deleteMe = TRUE], TRUE, FALSE, writer[c], N(c),
               c \in orphans, c \in leaks, c \in ToSet(stack))
      BY <1>4, <1>7, <2>1, <2>2, <3>1 DEF Fits, Fields
    <3>3. /\ c \in kept' /\ copy'[c] = [copy[c] EXCEPT !.deleteMe = TRUE]
          /\ c \notin ToSet(list')
      BY <1>8, <2>4, <3>1
    <3> QED
      BY <1>6, <1>10, <1>13, <3>2, <3>3, FitsNext DEF Fits
  <2> QED
    BY <2>3, <2>4
<1> QED
  BY <1>6, <1>8, <1>9, <1>11, <1>12 DEF IInv

(* A step that changes nothing but the order of the list.                  *)
LEMMA SameCopies ==
  ASSUME IInv, UNCHANGED <<copy, kept, hash, size, users, notes>>,
         list' \in Seq(Copy), IsInjective(list'), ToSet(list') = ToSet(list),
         limit' \in Limits, reducing' \in BOOLEAN
  PROVE  IInv'
<1>1. TypeOK'
  BY DEF IInv, TypeOK, users, notes
<1>2. SizePart'
  BY DEF IInv, SizePart, Occupied
<1>3. HashPart'
  BY DEF IInv, HashPart
<1>4. ListPart'
  <2>1. ToSet(list') \subseteq kept'
    BY DEF IInv, ListPart
  <2> QED
    BY <2>1 DEF ListPart, ToSet
<1>5. \A d \in Copy : CopyPart(d)'
  <2>1. \A d \in Copy : N(d)' = N(d)
    BY SameReaders DEF users
  <2>2. \A d \in Copy : d \in ToSet(list') <=> d \in ToSet(list)
    OBVIOUS
  <2> QED
    BY <2>1, <2>2, Undisturbed DEF IInv, users, notes
<1> QED
  BY <1>1, <1>2, <1>3, <1>4, <1>5 DEF IInv

LEMMA ReduceEndStep ==
  ASSUME IInv, ReduceEnd
  PROVE  IInv'
<1>1. /\ list' = IF Over THEN Reverse(list) ELSE list
      /\ reducing' = FALSE /\ UNCHANGED <<copy, kept, hash, size, limit, users, notes>>
  BY DEF ReduceEnd
<1>2. list \in Seq(Copy) /\ IsInjective(list) /\ limit \in Limits
  BY DEF IInv, TypeOK, ListPart
<1>3. /\ Reverse(list) \in Seq(Copy) /\ IsInjective(Reverse(list))
      /\ ToSet(Reverse(list)) = ToSet(list)
  BY <1>2, Reversed
<1>4. list' \in Seq(Copy) /\ IsInjective(list') /\ ToSet(list') = ToSet(list)
  <2>1. CASE Over
    BY <1>1, <1>3, <2>1, Zenon
  <2>2. CASE ~Over
    BY <1>1, <1>2, <2>2, Zenon
  <2> QED
    BY <2>1, <2>2
<1> QED
  BY <1>1, <1>2, <1>4, SameCopies

LEMMA RemoveNoneStep ==
  ASSUME IInv, RemoveNone
  PROVE  IInv'
<1>1. /\ list' = Reverse(list)
      /\ UNCHANGED <<copy, kept, hash, size, limit, users, reducing, notes>>
  BY DEF RemoveNone
<1>2. /\ list \in Seq(Copy) /\ IsInjective(list)
      /\ limit \in Limits /\ reducing \in BOOLEAN
  BY DEF IInv, TypeOK, ListPart
<1>3. /\ Reverse(list) \in Seq(Copy) /\ IsInjective(Reverse(list))
      /\ ToSet(Reverse(list)) = ToSet(list)
  BY <1>2, Reversed
<1>4. list' \in Seq(Copy) /\ IsInjective(list') /\ ToSet(list') = ToSet(list)
  BY <1>1, <1>3, Zenon
<1> QED
  BY <1>1, <1>2, <1>4, SameCopies

LEMMA SetMemoryCacheSizeStep ==
  ASSUME IInv, NEW n \in Limits, SetMemoryCacheSize(n)
  PROVE  IInv'
<1>1. limit' = n /\ reducing' = TRUE /\ UNCHANGED <<store, users, notes>>
  BY DEF SetMemoryCacheSize
<1>2. list \in Seq(Copy) /\ IsInjective(list)
  BY DEF IInv, TypeOK, ListPart
<1>3. list' = list
  BY <1>1 DEF store
<1>4. list' \in Seq(Copy) /\ IsInjective(list') /\ ToSet(list') = ToSet(list)
  BY <1>2, <1>3, Zenon
<1> QED
  BY <1>1, <1>4, SameCopies DEF store

LEMMA StutterStep ==
  ASSUME IInv, UNCHANGED vars
  PROVE  IInv'
<1>1. UNCHANGED <<store, limit, users, reducing, notes>>
  BY DEF vars
<1>2. list \in Seq(Copy) /\ IsInjective(list) /\ limit \in Limits /\ reducing \in BOOLEAN
  BY DEF IInv, TypeOK, ListPart
<1>3. list' = list
  BY <1>1 DEF store
<1>4. list' \in Seq(Copy) /\ IsInjective(list') /\ ToSet(list') = ToSet(list)
  BY <1>2, <1>3, Zenon
<1> QED
  BY <1>1, <1>2, <1>4, SameCopies DEF store

--------------------------------------------------------------------------------
(* The results.                                                            *)

LEMMA InitInvariant == Init => IInv
<1> SUFFICES ASSUME Init PROVE IInv
  OBVIOUS
<1>1. copy \in [Copy -> Fields] /\ \A c \in Copy : copy[c] = Blank
  BY BlankFields DEF Init
<1>2. TypeOK
  <2>1. /\ kept \subseteq Copy /\ hash \in [Key -> Copy \cup {None}]
        /\ list \in Seq(Copy) /\ size \in Nat /\ limit \in Limits
    BY DEF Init
  <2>2. /\ writer \in [Copy -> {"none", "writing", "lost", "completing", "done"}]
        /\ reading \in [Reader -> Copy \cup {None}] /\ reducing \in BOOLEAN
        /\ orphans \subseteq Copy /\ leaks \subseteq Copy /\ damaged \in BOOLEAN
    BY DEF Init
  <2>3. stack \in Seq(Copy) /\ Len(stack) <= MaxDepth /\ faults \in 0..MaxFaults
    BY BoundAssumption DEF Init
  <2> QED
    BY <1>1, <2>1, <2>2, <2>3 DEF TypeOK, Fields
<1>3. SizePart
  <2>1. UNION {{c} \X (1..copy[c].segments) : c \in kept} = {}
    BY DEF Init
  <2>2. Occupied(kept) = 0
    BY <2>1, FS_EmptySet, Zenon DEF Occupied
  <2> QED
    BY <2>2 DEF SizePart, Init
<1>4. HashPart
  BY DEF Init, HashPart
<1>5. ListPart /\ ToSet(list) = {} /\ ToSet(stack) = {}
  BY DEF Init, ListPart, ToSet, IsInjective
<1>6. \A c \in Copy : CopyPart(c)
  <2> SUFFICES ASSUME NEW c \in Copy PROVE CopyPart(c)
    OBVIOUS
  <2>1. Readers(c) = {}
    BY CopyAssumption DEF Init, Readers
  <2>2. N(c) = 0
    BY <2>1, FS_EmptySet, Zenon DEF N
  <2>3. c \notin kept /\ writer[c] = "none"
    BY DEF Init
  <2> QED
    BY <1>1, <1>5, <2>2, <2>3 DEF CopyPart, Fits, Blank
<1> QED
  BY <1>2, <1>3, <1>4, <1>5, <1>6 DEF IInv

LEMMA StepInvariant == IInv /\ [Next]_vars => IInv'
<1> SUFFICES ASSUME IInv, [Next]_vars PROVE IInv'
  OBVIOUS
<1>1. ASSUME NEW c \in Copy,
             \/ ConverterAdds(c) \/ ConverterDuplicate(c) \/ ConverterFails(c)
             \/ Write(c) \/ WriteFails(c)
             \/ CompleteBegin(c) \/ CompleteEnd(c) \/ Abort(c)
      PROVE  IInv'
  BY <1>1, ConverterAddsStep, ConverterDuplicateStep, ConverterFailsStep, WriteStep,
     WriteFailsStep, CompleteBeginStep, CompleteEndStep, AbortStep, Zenon
<1>2. ASSUME NEW r \in Reader,
             \/ \E k \in Key : Load(r, k)
             \/ ProcessEnds(r) \/ ProcessFails(r) \/ Interrupt(r)
      PROVE  IInv'
  <2>1. CASE ProcessEnds(r) \/ Interrupt(r)
    BY <2>1, ReleaseStep DEF ProcessEnds, Interrupt
  <2>2. CASE ProcessFails(r) \/ \E k \in Key : Load(r, k)
    BY <2>2, ProcessFailsStep, LoadStep, Zenon
  <2> QED
    BY <1>2, <2>1, <2>2
<1>3. ASSUME NEW k \in Key,
             \/ LoadFails(k) \/ RemoveURL(k)
             \/ \E set \in BOOLEAN : ChangeMemCacheLock(k, set)
      PROVE  IInv'
  BY <1>3, LoadFailsStep, RemoveURLStep, ChangeMemCacheLockStep, Zenon
<1>4. CASE (\E n \in Limits : SetMemoryCacheSize(n)) \/ Evict \/ ReduceEnd
           \/ RemoveLast \/ RemoveNone
  BY <1>4, SetMemoryCacheSizeStep, EvictStep, ReduceEndStep, RemoveNoneStep, Zenon
<1>5. CASE UNCHANGED vars
  BY <1>5, StutterStep
<1> QED
  BY <1>1, <1>2, <1>3, <1>4, <1>5 DEF Next

(* The fields of every copy agree with who uses it, in every state.        *)
THEOREM IInvAlways == Spec => []IInv
<1>1. Init => IInv
  BY InitInvariant
<1>2. IInv /\ [Next]_vars => IInv'
  BY StepInvariant
<1> QED
  BY <1>1, <1>2, PTL DEF Spec

THEOREM TypeCorrect == Spec => []TypeOK
<1>1. IInv => TypeOK
  BY DEF IInv
<1> QED
  BY <1>1, IInvAlways, PTL

(* A copy is in memory as long as a reader, the stream that is writing it, *)
(* the list or the hash list leads to it, and a reader that need not wait  *)
(* any more has the whole document before it -- until a stream that is     *)
(* being completed deletes a copy that it had lost.                        *)
THEOREM InUseAlwaysKept == Spec => []InUseKept
<1>1. IInv => InUseKept
  <2> SUFFICES ASSUME IInv PROVE InUseKept
    OBVIOUS
  <2>1. \A c \in Copy : writer[c] = "writing" => c \in kept
    BY CopyFacts DEF CopyPart, Fits
  <2>2. ASSUME NEW r \in Reader, reading[r] # None
        PROVE  /\ reading[r] \in kept
               /\ copy[reading[r]].completed => copy[reading[r]].whole
    <3>1. PICK c \in Copy : reading[r] = c
      BY <2>2 DEF IInv, TypeOK
    <3>2. r \in Readers(c)
      BY <3>1 DEF Readers
    <3>3. N(c) > 0
      BY <3>2, ReadersCounted
    <3>4. c \in kept /\ copy[c].whole
      BY <3>3, CopyFacts DEF CopyPart, Fits
    <3> QED
      BY <3>1, <3>4
  <2>3. \A k \in Key : hash[k] # None =>
          hash[k] \in kept /\ ~copy[hash[k]].deleteMe /\ KeyOf[hash[k]] = k
    BY DEF IInv, HashPart
  <2>4. ToSet(list) \subseteq kept /\ IsInjective(list)
    BY DEF IInv, ListPart
  <2> QED
    BY <2>1, <2>2, <2>3, <2>4 DEF InUseKept
<1> QED
  BY <1>1, IInvAlways, PTL

(* A copy that is marked delete_me has someone left to free it, unless it  *)
(* has been orphaned or a lock was left on it, until a stream that is      *)
(* being completed deletes a copy that it had lost.                        *)
THEOREM ReclaimedAlways == Spec => []Reclaimed
<1>1. IInv => Reclaimed
  <2> SUFFICES ASSUME IInv, NEW c \in kept, copy[c].deleteMe
               PROVE  \/ writer[c] \in {"writing", "completing"}
                      \/ \E r \in Reader : reading[r] = c
                      \/ c \in orphans \cup leaks
    BY DEF Reclaimed
  <2>1. c \in Copy
    BY DEF IInv, TypeOK
  <2>2. \/ writer[c] \in {"writing", "completing"} \/ N(c) > 0
        \/ c \in orphans \/ c \in leaks
    BY <2>1, CopyFacts DEF CopyPart, Fits
  <2>3. N(c) > 0 => \E r \in Reader : reading[r] = c
    BY ReadersCounted DEF Readers
  <2> QED
    BY <2>2, <2>3
<1> QED
  BY <1>1, IInvAlways, PTL

(* A reduction evicts only while the segments in memory exceed the limit,  *)
(* and it ends with them within the limit, or with nothing left but copies *)
(* that are written, read or locked, or were orphaned: net_MemoryCacheSize *)
(* says how many segments there are, and a copy that is not on the list is *)
(* read or not complete.  (Until a stream that is being completed deletes  *)
(* a copy that it had lost.)                                               *)
THEOREM LimitAlwaysRestored == Spec => LimitRestored
<1> DEFINE Restored ==
      /\ reducing /\ kept' # kept => Occupied(kept) > limit
      /\ reducing /\ ~reducing' =>
           Occupied(kept) <= limit \/ \A c \in kept : Pinned(c)
<1>1. IInv /\ [Next]_vars => [damaged \/ Restored]_vars
  <2> SUFFICES ASSUME IInv, Next, reducing PROVE Restored
    BY DEF Restored
  <2>1. size = Occupied(kept) /\ size \in Nat
    BY DEF IInv, SizePart, TypeOK
  <2>2. Evict \/ ReduceEnd
    <3>1. ~Client
      BY DEF Client
    <3>2. ~ \E c \in Copy :
              \/ ConverterAdds(c) \/ ConverterDuplicate(c) \/ ConverterFails(c)
              \/ Write(c) \/ WriteFails(c)
              \/ CompleteBegin(c) \/ CompleteEnd(c) \/ Abort(c)
      BY <3>1 DEF ConverterAdds, ConverterDuplicate, ConverterFails, NewCopy, Write,
                  WriteFails, CompleteBegin, CompleteEnd, Abort
    <3>3. ~ \E r \in Reader :
              \/ \E k \in Key : Load(r, k)
              \/ ProcessEnds(r) \/ ProcessFails(r) \/ Interrupt(r)
      BY <3>1 DEF Load, Found, ProcessEnds, ProcessFails, Interrupt, Release
    <3>4. ~ \E k \in Key : \/ LoadFails(k) \/ RemoveURL(k)
                           \/ \E set \in BOOLEAN : ChangeMemCacheLock(k, set)
      BY <3>1 DEF LoadFails, Found, RemoveURL, ChangeMemCacheLock
    <3>5. ~(\E n \in Limits : SetMemoryCacheSize(n)) /\ ~RemoveLast /\ ~RemoveNone
      BY <3>1 DEF SetMemoryCacheSize, RemoveLast, RemoveNone
    <3> QED
      BY <3>2, <3>3, <3>4, <3>5 DEF Next
  <2>3. CASE Evict
    BY <2>1, <2>3 DEF Evict, Over
  <2>4. CASE ReduceEnd
    <3>1. kept' = kept
      BY <2>4 DEF ReduceEnd
    <3>2. ASSUME ~(size <= limit), NEW c \in kept PROVE Pinned(c)
      <4>1. limit \in Nat /\ c \in Copy
        BY BoundAssumption DEF IInv, TypeOK
      <4>2. Victims = {}
        BY <2>1, <2>4, <3>2, <4>1 DEF ReduceEnd, Over
      <4>3. /\ copy[c] \in Fields /\ copy[c].locks \in Nat
            /\ c \notin ToSet(list) => copy[c].readLock > 0 \/ ~copy[c].completed
        BY <4>1, CopyFacts, BoundAssumption DEF CopyPart, Fits, Fields
      <4>4. CASE c \in ToSet(list)
        <5>1. ~(copy[c].completed /\ copy[c].locks = 0)
          BY <4>2, <4>4 DEF Victims, Evictable, ToSet
        <5> QED
          BY <4>3, <5>1 DEF Pinned
      <4>5. CASE c \notin ToSet(list)
        BY <4>3, <4>5 DEF Pinned
      <4> QED
        BY <4>4, <4>5
    <3> QED
      BY <2>1, <3>1, <3>2
  <2> QED
    BY <2>2, <2>3, <2>4
<1> QED
  BY <1>1, IInvAlways, PTL DEF Spec, LimitRestored
================================================================================
