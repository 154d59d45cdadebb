---------------------------- MODULE EventQueueProofs ----------------------------
(***************************************************************************)
(* Proofs about EventQueue, for any set of threads and of events, any      *)
(* owners and any capacity of the pipe.                                    *)
(*                                                                         *)
(* IInv holds initially and survives every action, one lemma per action    *)
(* and in it one step per part; the safety properties of the runs follow.  *)
(* Fairness plays no part in it.                                           *)
(***************************************************************************)
EXTENDS EventQueue, SequenceTheorems, WellFoundedInduction, TLAPS

--------------------------------------------------------------------------------
(* The inductive invariant.                                                *)

Items(s) == {s[i] : i \in DOMAIN s}
NoRepeat(s) == \A i, j \in DOMAIN s : s[i] = s[j] => i = j
Queued == Items(queue)

(* Where a thread is tells what it has at hand.                            *)
PlacePart ==
  /\ \A t \in Thread :
       /\ pc[t] \in HandlerPcs => t = Handler
       /\ pc[t] \in SyncPcs => t # Handler
       /\ pc[t] \in SyncPcs <=> mine[t] # NoEvent
       /\ pc[t] \in {"revoking", "rnotify"} <=> rev[t] # NoOwner
       /\ pc[t] = "rnotify" => hit # NoEvent
  /\ hit # NoEvent => \E t \in Thread : pc[t] = "rnotify"
  /\ pc[Handler] \in {"got", "handling", "reply"} => cur # NoEvent
  /\ pc[Handler] \in {"idle", "get", "wget", "waiting"} => cur = NoEvent
  /\ pc[Handler] \in {"get", "wget", "waiting", "got", "reply"} =>
       (Handler \in held <=> inside)
  /\ inside => processing /\ Handler \in held /\ (cur # NoEvent \/ pc[Handler] = "get")

(* The queue's monitor is held from an entry of the client's own to its    *)
(* exit, but for the wait of a synchronous post, and while a routine is    *)
(* between two steps under it.                                             *)
InMon(t) ==
  \/ pc[t] \in {"write", "swrite", "revoking", "rnotify"}
  \/ t \in held /\ pc[t] \notin {"tocwait", "cwait", "woken", "sreturn"}
MonPart == \A t \in Thread : mon = t <=> InMon(t)

(* A queue that has been destroyed is empty, and nobody is using it.       *)
DeadPart ==
  ~alive => /\ queue = <<>> /\ pipe = 0 /\ notifyCount = 0 /\ held = {}
            /\ \A t \in Thread : pc[t] = "idle"

(* The poster has come back before its event was handled or revoked.       *)
Left(e) == outcome[e] = "TRUE"

(* What has happened to an event says where it can be.                     *)
EventPart ==
  /\ NoRepeat(queue)
  /\ \A e \in Event :
       /\ e \notin used => /\ e \notin Queued /\ cur # e /\ hit # e /\ e \notin handled
                           /\ freed[e] = 0 /\ \A t \in Thread : mine[t] # e
       /\ outcome[e] # "none" => freed[e] # 0
       /\ Left(e) => \A t \in Thread : mine[t] # e
       /\ ~Left(e) =>
            /\ freed[e] \in {0, 1}
            /\ freed[e] = 1 => /\ e \notin Queued /\ cur # e /\ hit # e
                              /\ \A t \in Thread : mine[t] # e
            /\ sync[e] # "NULL" => \E t \in Thread : mine[t] = e
       /\ e \in Queued => cur # e /\ hit # e /\ e \notin handled
       /\ hit = e => cur # e /\ e \notin handled
  /\ cur # NoEvent /\ pc[Handler] # "got" => cur \in handled
  /\ pc[Handler] = "reply" => sync[cur] = "TRUE" \/ Left(cur)

(* A synchronous post is one thread's.  While it has the event's monitor   *)
(* nobody answers; its event is not posted yet, or awaits an answer, or is *)
(* answered: with the handler's value if it was handled.  A thread comes   *)
(* out of its wait answered, or early.                                     *)
Waiting(t) ==
  /\ mine[t] \in Queued \/ cur = mine[t] \/ hit = mine[t]
  /\ sync[mine[t]] = "TRUE"
Answered(t) ==
  /\ mine[t] \notin Queued /\ cur # mine[t] /\ hit # mine[t]
  /\ sync[mine[t]] = IF mine[t] \in handled THEN "RESULT" ELSE "NULL"

SyncPart ==
  /\ \A t, u \in Thread : mine[t] = mine[u] /\ mine[t] # NoEvent => t = u
  /\ \A t \in Thread :
       /\ pc[t] \in {"spost", "swrite", "tocwait", "sreturn"} => emon[mine[t]] = t
       /\ pc[t] = "spost" =>
            /\ mine[t] \notin Queued /\ cur # mine[t] /\ hit # mine[t]
            /\ mine[t] \notin handled /\ sync[mine[t]] = "TRUE"
            /\ OwnerOf[mine[t]] # NoOwner => t \in held /\ OwnerOf[mine[t]] \notin gone
       /\ pc[t] \in {"swrite", "tocwait", "cwait"} => Waiting(t)
       /\ pc[t] \in {"woken", "sreturn"} =>
            Answered(t) \/ (mine[t] \in early /\ Waiting(t))

OwnerPart ==
  /\ goneHere \subseteq gone
  /\ \A e \in Queued : OwnerOf[e] \notin gone
  /\ pc[Handler] = "got" => OwnerOf[cur] \notin goneHere

IInv ==
  /\ TypeOK /\ PlacePart /\ MonPart /\ DeadPart /\ TokensMatch
  /\ EventPart /\ SyncPart /\ SyncOutcome /\ OwnerPart

--------------------------------------------------------------------------------
(* What the operations on the queue do to the events in it.                *)

LEMMA AppendItems ==
  ASSUME NEW S, NEW s \in Seq(S), NoRepeat(s), NEW e \in S, e \notin Items(s)
  PROVE  /\ Append(s, e) \in Seq(S) /\ Len(Append(s, e)) = Len(s) + 1
         /\ NoRepeat(Append(s, e)) /\ Items(Append(s, e)) = Items(s) \cup {e}
<1> DEFINE q == Append(s, e)
<1>1. /\ q \in Seq(S) /\ Len(q) = Len(s) + 1 /\ Len(s) \in Nat
      /\ DOMAIN s = 1..Len(s) /\ DOMAIN q = 1..(Len(s) + 1)
      /\ \A i \in 1..Len(s) : q[i] = s[i]
      /\ q[Len(s) + 1] = e
  OBVIOUS
<1> HIDE DEF q
<1>2. \A i \in DOMAIN s : s[i] # e
  BY DEF Items
<1>3. NoRepeat(q)
  BY <1>1, <1>2 DEF NoRepeat
<1>4. Items(q) \subseteq Items(s) \cup {e}
  BY <1>1 DEF Items
<1>5. Items(s) \cup {e} \subseteq Items(q)
  <2>1. \A i \in DOMAIN s : i \in DOMAIN q /\ q[i] = s[i]
    BY <1>1
  <2>2. Len(s) + 1 \in DOMAIN q /\ q[Len(s) + 1] = e
    BY <1>1
  <2> QED
    BY <2>1, <2>2 DEF Items
<1>6. Items(q) = Items(s) \cup {e}
  BY <1>4, <1>5
<1> QED
  BY <1>1, <1>3, <1>6 DEF q

LEMMA TailItems ==
  ASSUME NEW S, NEW s \in Seq(S), NoRepeat(s), s # <<>>
  PROVE  /\ Head(s) \in Items(s) /\ Head(s) \in S /\ Tail(s) \in Seq(S)
         /\ Len(Tail(s)) = Len(s) - 1 /\ Len(s) \in Nat
         /\ NoRepeat(Tail(s)) /\ Items(Tail(s)) = Items(s) \ {Head(s)}
<1>1. /\ Tail(s) \in Seq(S) /\ Len(Tail(s)) = Len(s) - 1 /\ Len(s) \in Nat \ {0}
      /\ DOMAIN s = 1..Len(s) /\ DOMAIN Tail(s) = 1..(Len(s) - 1)
      /\ Head(s) = s[1] /\ Head(s) \in S
      /\ \A i \in 1..(Len(s) - 1) : Tail(s)[i] = s[i + 1]
  OBVIOUS
<1>2. NoRepeat(Tail(s))
  BY <1>1 DEF NoRepeat
<1>3. Head(s) \in Items(s)
  BY <1>1 DEF Items
<1>4. Items(Tail(s)) \subseteq Items(s) \ {Head(s)}
  <2> SUFFICES ASSUME NEW i \in 1..(Len(s) - 1)
               PROVE  s[i + 1] \in Items(s) /\ s[i + 1] # s[1]
    BY <1>1 DEF Items
  <2>1. i + 1 \in DOMAIN s /\ 1 \in DOMAIN s /\ i + 1 # 1
    BY <1>1
  <2> QED
    BY <2>1 DEF Items, NoRepeat
<1>5. Items(s) \ {Head(s)} \subseteq Items(Tail(s))
  <2> SUFFICES ASSUME NEW i \in DOMAIN s, s[i] # Head(s)
               PROVE  s[i] \in Items(Tail(s))
    BY DEF Items
  <2>1. i - 1 \in DOMAIN Tail(s) /\ Tail(s)[i - 1] = s[i]
    BY <1>1
  <2> QED
    BY <2>1 DEF Items
<1> QED
  BY <1>1, <1>2, <1>3, <1>4, <1>5

LEMMA RemoveItems ==
  ASSUME NEW S, NEW s \in Seq(S), NoRepeat(s), NEW k \in DOMAIN s
  PROVE  /\ s[k] \in Items(s) /\ s[k] \in S /\ RemoveAt(s, k) \in Seq(S)
         /\ Len(RemoveAt(s, k)) = Len(s) - 1 /\ Len(s) \in Nat
         /\ NoRepeat(RemoveAt(s, k)) /\ Items(RemoveAt(s, k)) = Items(s) \ {s[k]}
<1> DEFINE q == RemoveAt(s, k)
<1>1. /\ Len(s) \in Nat /\ DOMAIN s = 1..Len(s) /\ k \in 1..Len(s)
      /\ \A i \in 1..Len(s) : s[i] \in S
  OBVIOUS
<1> DEFINE l == SubSeq(s, 1, k - 1)
           r == SubSeq(s, k + 1, Len(s))
<1>2. /\ l \in Seq(S) /\ Len(l) = k - 1
      /\ \A i \in 1..(k - 1) : l[i] = s[i]
  <2>1. \A i \in 1..(k - 1) : s[i] \in S
    BY <1>1
  <2>2. /\ l \in Seq(S) /\ Len(l) = IF 1 <= k - 1 THEN k - 1 - 1 + 1 ELSE 0
        /\ \A i \in 1..(k - 1 - 1 + 1) : l[i] = s[1 + i - 1]
    BY <1>1, <2>1, SubSeqProperties
  <2> HIDE DEF l
  <2> QED
    BY <1>1, <2>2
<1>3. /\ r \in Seq(S) /\ Len(r) = Len(s) - k
      /\ \A i \in 1..(Len(s) - k) : r[i] = s[k + i]
  <2> DEFINE m == k + 1
             n == Len(s)
  <2>1. m \in Int /\ n \in Int /\ \A i \in m..n : s[i] \in S
    BY <1>1
  <2> HIDE DEF m, n
  <2>2. /\ SubSeq(s, m, n) \in Seq(S)
        /\ Len(SubSeq(s, m, n)) = IF m <= n THEN n - m + 1 ELSE 0
        /\ \A i \in 1..(n - m + 1) : SubSeq(s, m, n)[i] = s[m + i - 1]
    BY <2>1, SubSeqProperties
  <2>3. r = SubSeq(s, m, n)
    BY DEF m, n
  <2> HIDE DEF r
  <2>4. /\ r \in Seq(S) /\ Len(r) = (IF m <= n THEN n - m + 1 ELSE 0)
        /\ \A i \in 1..(n - m + 1) : r[i] = s[m + i - 1]
    BY <2>2, <2>3
  <2>5. \A i \in 1..(Len(s) - k) : i \in 1..(n - m + 1) /\ m + i - 1 = k + i
    BY <1>1 DEF m, n
  <2>6. Len(r) = Len(s) - k
    BY <1>1, <2>4 DEF m, n
  <2>7. \A i \in 1..(Len(s) - k) : r[i] = s[k + i]
    BY <2>4, <2>5
  <2> QED
    BY <2>4, <2>6, <2>7
<1> HIDE DEF l, r
<1>4. q = l \o r
  BY DEF RemoveAt, l, r
<1>5. /\ q \in Seq(S) /\ Len(q) = Len(s) - 1 /\ DOMAIN q = 1..(Len(s) - 1)
      /\ \A i \in 1..(Len(s) - 1) : q[i] = IF i < k THEN s[i] ELSE s[i + 1]
  <2>1. /\ l \o r \in Seq(S) /\ Len(l \o r) = Len(l) + Len(r)
        /\ \A i \in 1..(Len(l) + Len(r)) :
             (l \o r)[i] = IF i <= Len(l) THEN l[i] ELSE r[i - Len(l)]
    BY <1>2, <1>3, ConcatProperties
  <2> HIDE DEF q
  <2>2. /\ q \in Seq(S) /\ Len(q) = Len(s) - 1
        /\ \A i \in 1..(Len(s) - 1) :
             q[i] = IF i <= k - 1 THEN l[i] ELSE r[i - (k - 1)]
    BY <1>1, <1>2, <1>3, <1>4, <2>1, SMTT(30)
  <2>3. \A i \in 1..(Len(s) - 1) : q[i] = IF i < k THEN s[i] ELSE s[i + 1]
    <3> SUFFICES ASSUME NEW i \in 1..(Len(s) - 1)
                 PROVE  q[i] = IF i < k THEN s[i] ELSE s[i + 1]
      OBVIOUS
    <3>1. CASE i < k
      BY <1>1, <1>2, <2>2, <3>1
    <3>2. CASE i >= k
      <4>1. PICK j \in 1..(Len(s) - k) : j = i - (k - 1) /\ k + j = i + 1
        BY <1>1, <3>2
      <4>2. q[i] = r[j]
        BY <1>1, <2>2, <3>2, <4>1
      <4>3. r[j] = s[k + j]
        BY <1>3
      <4> QED
        BY <1>1, <3>2, <4>1, <4>2, <4>3
    <3> QED
      BY <1>1, <3>1, <3>2
  <2> QED
    BY <2>2, <2>3
<1> HIDE DEF q
<1>6. NoRepeat(q)
  BY <1>1, <1>5, SMTT(30) DEF NoRepeat
<1>7. Items(q) \subseteq Items(s) \ {s[k]}
  <2> SUFFICES ASSUME NEW i \in 1..(Len(s) - 1)
               PROVE  q[i] \in Items(s) /\ q[i] # s[k]
    BY <1>5 DEF Items
  <2>1. PICK j \in DOMAIN s : j # k /\ q[i] = s[j]
    <3>1. CASE i < k
      BY <1>1, <1>5, <3>1, SMTT(30)
    <3>2. CASE i >= k
      BY <1>1, <1>5, <3>2
    <3> QED
      BY <1>1, <3>1, <3>2
  <2> QED
    BY <2>1 DEF Items, NoRepeat
<1>8. Items(s) \ {s[k]} \subseteq Items(q)
  <2> SUFFICES ASSUME NEW j \in DOMAIN s, s[j] # s[k]
               PROVE  s[j] \in Items(q)
    BY DEF Items
  <2>1. CASE j < k
    <3>1. j \in DOMAIN q /\ q[j] = s[j]
      BY <1>1, <1>5, <2>1
    <3> QED
      BY <3>1 DEF Items
  <2>2. CASE j > k
    <3>1. j - 1 \in DOMAIN q /\ q[j - 1] = s[j]
      BY <1>1, <1>5, <2>2
    <3> QED
      BY <3>1 DEF Items
  <2> QED
    BY <1>1, <2>1, <2>2
<1>9. Items(q) = Items(s) \ {s[k]}
  BY <1>7, <1>8
<1>10. s[k] \in Items(s) /\ s[k] \in S
  BY <1>1 DEF Items
<1> QED
  BY <1>1, <1>5, <1>6, <1>9, <1>10 DEF q

LEMMA InitIInv == Init => IInv
<1> SUFFICES ASSUME Init PROVE IInv
  OBVIOUS
<1> USE QueueAssumption DEF Init
<1>1. Queued = {} /\ queue = <<>> /\ Len(queue) = 0
  BY DEF Queued, Items
<1>2. TypeOK
  <2>1. queue \in Seq(Event)
    OBVIOUS
  <2>2. pipe \in 0..PipeCap
    OBVIOUS
  <2> QED
    BY <2>1, <2>2 DEF TypeOK, Pcs
<1>3. PlacePart
  BY DEF PlacePart, SyncPcs, HandlerPcs
<1>4. MonPart
  BY DEF MonPart, InMon
<1>5. DeadPart
  BY DEF DeadPart
<1>6. TokensMatch
  BY <1>1 DEF TokensMatch, Writers
<1>7. EventPart
  BY <1>1 DEF EventPart, NoRepeat
<1>8. SyncPart
  BY DEF SyncPart
<1>9. SyncOutcome
  BY DEF SyncOutcome
<1>10. OwnerPart
  BY <1>1 DEF OwnerPart
<1> QED
  BY <1>2, <1>3, <1>4, <1>5, <1>6, <1>7, <1>8, <1>9, <1>10 DEF IInv

(* The event PL_RevokeEvents takes off the queue next is in the queue.     *)
LEMMA LeastNatural ==
  ASSUME NEW N, N \subseteq Nat, N # {}
  PROVE  \E i \in N : \A j \in N : i <= j
<1>1. PICK i \in N : \A j \in N : <<j, i>> \notin OpToRel(<, Nat)
  BY WFMin, NatLessThanWellFounded, Zenon
<1>2. \A j \in N : ~(j < i)
  <2> SUFFICES ASSUME NEW j \in N, j < i PROVE FALSE
    OBVIOUS
  <2>1. j \in Nat /\ i \in Nat
    OBVIOUS
  <2> QED
    BY <1>1, <2>1, Zenon DEF OpToRel
<1> QED
  BY <1>2

LEMMA FirstOfRevocable ==
  ASSUME TypeOK, NEW t \in Thread, Revocable(t) # {}
  PROVE  FirstOf(t) \in DOMAIN queue /\ OwnerOf[queue[FirstOf(t)]] = rev[t]
<1>1. Revocable(t) \subseteq DOMAIN queue /\ DOMAIN queue = 1..Len(queue)
  BY DEF Revocable, TypeOK
<1>2. Len(queue) \in Nat /\ 1..Len(queue) \subseteq Nat
  BY DEF TypeOK
<1>3. Revocable(t) \subseteq Nat
  BY <1>1, <1>2
<1>4. \E i \in Revocable(t) : \A j \in Revocable(t) : i <= j
  BY <1>3, LeastNatural
<1>5. FirstOf(t) \in Revocable(t)
  BY <1>4, Zenon DEF FirstOf
<1> QED
  BY <1>5 DEF Revocable

--------------------------------------------------------------------------------
(* The actions.                                                            *)

(* PL_ENTER_EVENT_QUEUE_MONITOR and its counterpart.                       *)
LEMMA EnterQueueIInv ==
  ASSUME IInv, NEW t \in Thread, EnterQueue(t)
  PROVE  IInv'
<1>0. TypeOK /\ PlacePart /\ MonPart /\ DeadPart /\ TokensMatch /\ EventPart /\ SyncPart
      /\ SyncOutcome /\ OwnerPart
  BY DEF IInv
<1>q. Queued' = Queued /\ (NoRepeat(queue) => NoRepeat(queue)')
  BY DEF Queued, EnterQueue
<1>1. TypeOK'
  BY <1>0 DEF TypeOK, EnterQueue, chan, history, calls
<1>2. PlacePart'
  BY <1>0 DEF PlacePart, EnterQueue, Calls, calls
<1>3. MonPart'
  BY <1>0, QueueAssumption DEF MonPart, InMon, EnterQueue, CanEnter, Calls
<1>4. DeadPart'
  BY DEF DeadPart, EnterQueue, chan
<1>5. TokensMatch'
  BY <1>0 DEF TokensMatch, Writers, EnterQueue, chan
<1>6. EventPart'
  BY <1>0, <1>q DEF EventPart, EnterQueue, history, Left, calls
<1>7. SyncPart'
  BY <1>0, <1>q DEF SyncPart, EnterQueue, history, Waiting, Answered, calls
<1>8. SyncOutcome'
  BY <1>0 DEF SyncOutcome, EnterQueue, history
<1>9. OwnerPart'
  BY <1>0, <1>q DEF OwnerPart, EnterQueue, history
<1> QED
  BY <1>1, <1>2, <1>3, <1>4, <1>5, <1>6, <1>7, <1>8, <1>9 DEF IInv

LEMMA LeaveQueueIInv ==
  ASSUME IInv, NEW t \in Thread, LeaveQueue(t)
  PROVE  IInv'
<1>0. TypeOK /\ PlacePart /\ MonPart /\ DeadPart /\ TokensMatch /\ EventPart /\ SyncPart
      /\ SyncOutcome /\ OwnerPart
  BY DEF IInv
<1>q. Queued' = Queued /\ (NoRepeat(queue) => NoRepeat(queue)')
  BY DEF Queued, LeaveQueue
<1>1. TypeOK'
  BY <1>0 DEF TypeOK, LeaveQueue, chan, history, calls
<1>2. PlacePart'
  BY <1>0 DEF PlacePart, LeaveQueue, calls
<1>3. MonPart'
  BY <1>0, QueueAssumption DEF MonPart, InMon, LeaveQueue, Calls
<1>4. DeadPart'
  BY <1>0 DEF DeadPart, LeaveQueue, chan
<1>5. TokensMatch'
  BY <1>0 DEF TokensMatch, Writers, LeaveQueue, chan
<1>6. EventPart'
  BY <1>0, <1>q DEF EventPart, LeaveQueue, history, Left, calls
<1>7. SyncPart'
  BY <1>0, <1>q DEF SyncPart, LeaveQueue, Calls, history, Waiting, Answered, calls
<1>8. SyncOutcome'
  BY <1>0 DEF SyncOutcome, LeaveQueue, history
<1>9. OwnerPart'
  BY <1>0, <1>q DEF OwnerPart, LeaveQueue, history
<1> QED
  BY <1>1, <1>2, <1>3, <1>4, <1>5, <1>6, <1>7, <1>8, <1>9 DEF IInv

(* PL_PostEvent, with and without an event.  A thread that gives up the    *)
(* monitor after the write leaves a token for the event it has appended.   *)
LEMMA PostNullIInv ==
  ASSUME IInv, NEW t \in Thread, PostNull(t)
  PROVE  IInv'
<1>0. TypeOK /\ PlacePart /\ MonPart /\ DeadPart /\ TokensMatch /\ EventPart /\ SyncPart
      /\ SyncOutcome /\ OwnerPart
  BY DEF IInv
<1>q. Queued' = Queued /\ (NoRepeat(queue) => NoRepeat(queue)')
  BY DEF Queued, PostNull
<1>1. TypeOK'
  BY <1>0 DEF TypeOK, Pcs, PostNull, GoTo, chan, history, calls
<1>2. PlacePart'
  BY <1>0 DEF PlacePart, SyncPcs, HandlerPcs, PostNull, Calls, GoTo, calls
<1>3. MonPart'
  BY <1>0, QueueAssumption DEF TypeOK, MonPart, InMon, PostNull, CanEnter, GoTo, calls
<1>4. DeadPart'
  BY DEF DeadPart, PostNull, chan
<1>5. TokensMatch'
  BY <1>0 DEF TypeOK, TokensMatch, Writers, PostNull, GoTo, chan, calls
<1>6. EventPart'
  BY <1>0, <1>q DEF EventPart, PostNull, Calls, GoTo, history, Left, calls
<1>7. SyncPart'
  BY <1>0, <1>q DEF SyncPart, PostNull, GoTo, history, Waiting, Answered, calls
<1>8. SyncOutcome'
  BY <1>0 DEF SyncOutcome, PostNull, history
<1>9. OwnerPart'
  BY <1>0, <1>q DEF OwnerPart, PostNull, GoTo, history
<1> QED
  BY <1>1, <1>2, <1>3, <1>4, <1>5, <1>6, <1>7, <1>8, <1>9 DEF IInv

LEMMA PostIInv ==
  ASSUME IInv, NEW t \in Thread, NEW e \in Event, Post(t, e)
  PROVE  IInv'
<1>0. TypeOK /\ PlacePart /\ MonPart /\ DeadPart /\ TokensMatch /\ EventPart /\ SyncPart
      /\ SyncOutcome /\ OwnerPart
  BY DEF IInv
<1>q. /\ queue' \in Seq(Event) /\ Len(queue') = Len(queue) + 1 /\ Len(queue) \in Nat
      /\ NoRepeat(queue)' /\ Queued' = Queued \cup {e}
  <2>1. /\ queue \in Seq(Event) /\ NoRepeat(queue) /\ e \notin Queued
        /\ queue' = Append(queue, e)
    BY <1>0 DEF TypeOK, EventPart, Post, MayPost, Left, calls
  <2>2. NoRepeat(queue)' <=> NoRepeat(queue')
    BY DEF NoRepeat
  <2>3. Queued' = Items(queue')
    BY DEF Queued, Items
  <2>4. Len(queue) \in Nat
    BY <2>1
  <2> QED
    BY <2>1, <2>2, <2>3, <2>4, AppendItems DEF Queued
<1>a. /\ e \notin used /\ pc[t] \in {"idle", "handling"} /\ mon \in {NoThread, t}
      /\ OwnerOf[e] # NoOwner => t \in held /\ OwnerOf[e] \notin gone
      /\ used' = used \cup {e} /\ mon' = t /\ pc' = [pc EXCEPT ![t] = "write"]
      /\ UNCHANGED <<chan, processing, inside, held, cur, mine, rev, hit, emon, sync,
                     handled, freed, outcome, early, gone, goneHere>>
  BY DEF Post, MayPost, Calls, CanEnter, GoTo, calls
<1>1. TypeOK'
  BY <1>0 DEF TypeOK, Pcs, Post, GoTo, chan, calls
<1>2. PlacePart'
  BY <1>0 DEF PlacePart, SyncPcs, HandlerPcs, Post, MayPost, Calls, GoTo, calls
<1>3. MonPart'
  BY <1>0, QueueAssumption DEF TypeOK, MonPart, InMon, Post, CanEnter, GoTo, calls
<1>4. DeadPart'
  BY DEF DeadPart, Post, MayPost, chan
<1>5. TokensMatch'
  BY <1>0, <1>q, QueueAssumption
  DEF TypeOK, MonPart, InMon, TokensMatch, Writers, Post, MayPost, CanEnter, Calls, GoTo,
      chan, history, calls
<1>6. EventPart'
  BY <1>0, <1>q, <1>a DEF EventPart, Left
<1>7. SyncPart'
  BY <1>0, <1>q, <1>a DEF EventPart, SyncPart, Left, Waiting, Answered
<1>8. SyncOutcome'
  BY <1>0, <1>q, QueueAssumption
  DEF TypeOK, SyncOutcome, EventPart, Post, MayPost, CanEnter, Calls, GoTo, chan,
      history, Left, calls
<1>9. OwnerPart'
  <2>1. OwnerOf[e] \notin gone
    BY <1>0, <1>a DEF TypeOK, Owner
  <2> QED
    BY <1>0, <1>q, <1>a, <2>1 DEF OwnerPart
<1> QED
  BY <1>1, <1>2, <1>3, <1>4, <1>5, <1>6, <1>7, <1>8, <1>9 DEF IInv

LEMMA PostWriteIInv ==
  ASSUME IInv, NEW t \in Thread, PostWrite(t)
  PROVE  IInv'
<1>0. TypeOK /\ PlacePart /\ MonPart /\ DeadPart /\ TokensMatch /\ EventPart /\ SyncPart
      /\ SyncOutcome /\ OwnerPart
  BY DEF IInv
<1>q. Queued' = Queued /\ (NoRepeat(queue) => NoRepeat(queue)')
  BY DEF Queued, PostWrite
<1>1. TypeOK'
  BY <1>0, QueueAssumption
  DEF TypeOK, Pcs, HandlerPcs, PostWrite, NativeNotify, NotifyHandler, AfterExit, Home,
      history, calls
<1>2. PlacePart'
  BY <1>0, QueueAssumption
  DEF PlacePart, SyncPcs, HandlerPcs, PostWrite, NotifyHandler, Home, calls
<1>3. MonPart'
  BY <1>0, QueueAssumption DEF MonPart, InMon, PostWrite, NotifyHandler, AfterExit, Home
<1>4. DeadPart'
  BY <1>0 DEF DeadPart, PostWrite
<1>5. TokensMatch'
  BY <1>0 DEF TokensMatch, Writers, PostWrite, NativeNotify
<1>6. EventPart'
  BY <1>0, <1>q, QueueAssumption
  DEF EventPart, PostWrite, NotifyHandler, Home, history, Left, calls
<1>7. SyncPart'
  BY <1>0, <1>q
  DEF SyncPart, PostWrite, NotifyHandler, Home, history, Waiting, Answered, calls
<1>8. SyncOutcome'
  BY <1>0 DEF SyncOutcome, PostWrite, history
<1>9. OwnerPart'
  BY <1>0, <1>q, QueueAssumption DEF OwnerPart, PostWrite, NotifyHandler, Home, history
<1> QED
  BY <1>1, <1>2, <1>3, <1>4, <1>5, <1>6, <1>7, <1>8, <1>9 DEF IInv

(* PL_PostSynchronousEvent: on the handler thread, or step by step.        *)
LEMMA SyncInlineIInv ==
  ASSUME IInv, NEW t \in Thread, NEW e \in Event, SyncInline(t, e)
  PROVE  IInv'
<1>0. TypeOK /\ PlacePart /\ MonPart /\ DeadPart /\ TokensMatch /\ EventPart /\ SyncPart
      /\ SyncOutcome /\ OwnerPart
  BY DEF IInv
<1>q. Queued' = Queued /\ (NoRepeat(queue) => NoRepeat(queue)')
  BY DEF Queued, SyncInline
<1>1. TypeOK'
  BY <1>0 DEF TypeOK, SyncInline, chan, calls
<1>2. PlacePart'
  BY <1>0 DEF PlacePart, SyncInline, calls
<1>3. MonPart'
  BY <1>0 DEF MonPart, InMon, SyncInline
<1>4. DeadPart'
  BY <1>0 DEF DeadPart, SyncInline, chan
<1>5. TokensMatch'
  BY <1>0 DEF TokensMatch, Writers, SyncInline, chan
<1>6. EventPart'
  BY <1>0, <1>q DEF TypeOK, EventPart, SyncInline, MayPost, Left, calls
<1>7. SyncPart'
  BY <1>0, <1>q DEF SyncPart, EventPart, SyncInline, MayPost, Left, Waiting, Answered, calls
<1>8. SyncOutcome'
  BY <1>0 DEF SyncOutcome, EventPart, SyncInline, MayPost, Left, calls
<1>9. OwnerPart'
  BY <1>0, <1>q DEF OwnerPart, SyncInline
<1> QED
  BY <1>1, <1>2, <1>3, <1>4, <1>5, <1>6, <1>7, <1>8, <1>9 DEF IInv

LEMMA SyncBeginIInv ==
  ASSUME IInv, NEW t \in Thread, NEW e \in Event, SyncBegin(t, e)
  PROVE  IInv'
<1>0. TypeOK /\ PlacePart /\ MonPart /\ DeadPart /\ TokensMatch /\ EventPart /\ SyncPart
      /\ SyncOutcome /\ OwnerPart
  BY DEF IInv
<1>q. Queued' = Queued /\ (NoRepeat(queue) => NoRepeat(queue)')
  BY DEF Queued, SyncBegin
<1>1. TypeOK'
  BY <1>0 DEF TypeOK, Pcs, SyncPcs, SyncBegin, GoTo, chan, calls
<1>2. PlacePart'
  BY <1>0, QueueAssumption
  DEF TypeOK, PlacePart, SyncPcs, HandlerPcs, SyncBegin, MayPost, Calls, GoTo, calls
<1>3. MonPart'
  BY <1>0 DEF MonPart, InMon, SyncBegin, MayPost, Calls, GoTo
<1>4. DeadPart'
  BY DEF DeadPart, SyncBegin, MayPost, chan
<1>5. TokensMatch'
  BY <1>0 DEF TokensMatch, Writers, SyncBegin, MayPost, Calls, GoTo, chan
<1>6. EventPart'
  <2>1. /\ e \notin used /\ e \notin Queued /\ cur # e /\ e \notin handled
        /\ freed[e] = 0 /\ outcome[e] = "none" /\ mine[t] = NoEvent
    <3>1. e \notin used /\ pc[t] \notin SyncPcs
      BY <1>0 DEF TypeOK, SyncBegin, MayPost, Calls, SyncPcs, calls
    <3>2. mine[t] = NoEvent
      BY <1>0, <3>1 DEF PlacePart
    <3>3. freed[e] = 0
      BY <1>0, <3>1 DEF EventPart, Left
    <3> QED
      BY <1>0, <3>1, <3>2, <3>3 DEF EventPart, Left
  <2>2. /\ mine'[t] = e /\ \A u \in Thread : u # t => mine'[u] = mine[u]
        /\ sync'[e] = "TRUE" /\ \A d \in Event : d # e => sync'[d] = sync[d]
        /\ pc'[Handler] = pc[Handler] /\ used' = used \cup {e}
    BY <1>0, QueueAssumption DEF TypeOK, SyncBegin, GoTo, calls
  <2> QED
    BY <1>0, <1>q, <2>1, <2>2, QueueAssumption DEF EventPart, SyncBegin, Left, calls
<1>7. SyncPart'
  BY <1>0, <1>q
  DEF TypeOK, SyncPart, EventPart, SyncBegin, MayPost, GoTo, Left, Waiting, Answered,
      calls
<1>8. SyncOutcome'
  BY <1>0 DEF SyncOutcome, SyncBegin
<1>9. OwnerPart'
  BY <1>0, <1>q DEF OwnerPart, SyncBegin, GoTo
<1> QED
  BY <1>1, <1>2, <1>3, <1>4, <1>5, <1>6, <1>7, <1>8, <1>9 DEF IInv

LEMMA SyncPostIInv ==
  ASSUME IInv, NEW t \in Thread, SyncPost(t)
  PROVE  IInv'
<1>0. TypeOK /\ PlacePart /\ MonPart /\ DeadPart /\ TokensMatch /\ EventPart /\ SyncPart
      /\ SyncOutcome /\ OwnerPart
  BY DEF IInv
<1> DEFINE e == mine[t]
<1>e. /\ e \in Event /\ pc[t] = "spost" /\ t # Handler /\ t \in Thread
      /\ e \notin Queued /\ cur # e /\ hit # e /\ e \notin handled /\ sync[e] = "TRUE"
      /\ OwnerOf[e] \notin gone
  <2>1. e \in Event /\ pc[t] = "spost" /\ t # Handler
    BY <1>0 DEF TypeOK, PlacePart, SyncPost, SyncPcs, calls
  <2>2. OwnerOf[e] \notin gone
    BY <1>0, <2>1 DEF TypeOK, SyncPart, Owner, Waiting, Answered
  <2> QED
    BY <1>0, <2>1, <2>2 DEF SyncPart, Waiting, Answered
<1>q. /\ queue' \in Seq(Event) /\ Len(queue') = Len(queue) + 1 /\ Len(queue) \in Nat
      /\ NoRepeat(queue)' /\ Queued' = Queued \cup {e}
  <2>1. /\ queue \in Seq(Event) /\ NoRepeat(queue) /\ e \notin Queued
        /\ queue' = Append(queue, e)
    BY <1>0, <1>e DEF TypeOK, EventPart, SyncPost, Left, calls
  <2>2. NoRepeat(queue)' <=> NoRepeat(queue')
    BY DEF NoRepeat
  <2>3. Queued' = Items(queue')
    BY DEF Queued, Items
  <2>4. Len(queue) \in Nat
    BY <2>1
  <2> QED
    BY <2>1, <2>2, <2>3, <2>4, <1>e, AppendItems DEF Queued
<1>a. /\ mon \in {NoThread, t} /\ mon' = t /\ pc' = [pc EXCEPT ![t] = "swrite"]
      /\ UNCHANGED <<chan, processing, inside, held, cur, mine, rev, hit, emon, sync,
                     history>>
  BY DEF SyncPost, CanEnter, GoTo, calls
<1>1. TypeOK'
  BY <1>0, <1>q DEF TypeOK, Pcs, SyncPcs, SyncPost, GoTo, chan, history, calls
<1>2. PlacePart'
  BY <1>0 DEF PlacePart, SyncPcs, HandlerPcs, SyncPost, GoTo, calls
<1>3. MonPart'
  BY <1>0, QueueAssumption DEF TypeOK, MonPart, InMon, SyncPost, CanEnter, GoTo, calls
<1>4. DeadPart'
  BY <1>0 DEF DeadPart, SyncPost, chan
<1>5. TokensMatch'
  BY <1>0, <1>q, QueueAssumption
  DEF TypeOK, MonPart, InMon, TokensMatch, Writers, SyncPost, CanEnter, GoTo, chan,
      history, calls
<1>6. EventPart'
  <2>1. \A d \in Event : d \notin used => d # e
    BY <1>0, <1>e DEF EventPart, Left
  <2>2. ~Left(e) /\ freed[e] # 1
    BY <1>0, <1>e DEF EventPart
  <2> QED
    BY <1>0, <1>q, <1>a, <1>e, <2>1, <2>2 DEF EventPart, history, Left
<1>7. SyncPart'
  BY <1>0, <1>q, <1>a, <1>e DEF TypeOK, SyncPart, history, Waiting, Answered
<1>8. SyncOutcome'
  BY <1>0 DEF SyncOutcome, SyncPost, history
<1>9. OwnerPart'
  BY <1>0, <1>q, <1>a, <1>e DEF OwnerPart, history
<1> QED
  BY <1>1, <1>2, <1>3, <1>4, <1>5, <1>6, <1>7, <1>8, <1>9 DEF IInv

LEMMA SyncWriteIInv ==
  ASSUME IInv, NEW t \in Thread, SyncWrite(t)
  PROVE  IInv'
<1>0. TypeOK /\ PlacePart /\ MonPart /\ DeadPart /\ TokensMatch /\ EventPart /\ SyncPart
      /\ SyncOutcome /\ OwnerPart
  BY DEF IInv
<1>q. Queued' = Queued /\ (NoRepeat(queue) => NoRepeat(queue)')
  BY DEF Queued, SyncWrite
<1>1. TypeOK'
  BY <1>0, QueueAssumption
  DEF TypeOK, Pcs, SyncPcs, HandlerPcs, SyncWrite, NativeNotify, NotifyHandler, history,
      calls
<1>2. PlacePart'
  BY <1>0, QueueAssumption
  DEF PlacePart, SyncPcs, HandlerPcs, SyncWrite, NotifyHandler, calls
<1>3. MonPart'
  BY <1>0, QueueAssumption DEF MonPart, InMon, SyncWrite, NotifyHandler
<1>4. DeadPart'
  BY <1>0 DEF DeadPart, SyncWrite
<1>5. TokensMatch'
  BY <1>0 DEF TokensMatch, Writers, SyncWrite, NativeNotify
<1>6. EventPart'
  BY <1>0, <1>q, QueueAssumption
  DEF EventPart, SyncWrite, NotifyHandler, history, Left, calls
<1>7. SyncPart'
  BY <1>0, <1>q DEF SyncPart, SyncWrite, NotifyHandler, history, Waiting, Answered, calls
<1>8. SyncOutcome'
  BY <1>0 DEF SyncOutcome, SyncWrite, history
<1>9. OwnerPart'
  BY <1>0, <1>q, QueueAssumption DEF OwnerPart, SyncWrite, NotifyHandler, history
<1> QED
  BY <1>1, <1>2, <1>3, <1>4, <1>5, <1>6, <1>7, <1>8, <1>9 DEF IInv

LEMMA SyncWaitIInv ==
  ASSUME IInv, NEW t \in Thread, SyncWait(t)
  PROVE  IInv'
<1>0. TypeOK /\ PlacePart /\ MonPart /\ DeadPart /\ TokensMatch /\ EventPart /\ SyncPart
      /\ SyncOutcome /\ OwnerPart
  BY DEF IInv
<1>q. Queued' = Queued /\ (NoRepeat(queue) => NoRepeat(queue)')
  BY DEF Queued, SyncWait
<1>1. TypeOK'
  BY <1>0 DEF TypeOK, Pcs, SyncPcs, SyncWait, GoTo, chan, history, calls
<1>2. PlacePart'
  BY <1>0 DEF PlacePart, SyncPcs, HandlerPcs, SyncWait, GoTo, calls
<1>3. MonPart'
  BY <1>0 DEF MonPart, InMon, SyncWait, GoTo
<1>4. DeadPart'
  BY <1>0 DEF DeadPart, SyncWait, chan
<1>5. TokensMatch'
  BY <1>0 DEF TokensMatch, Writers, SyncWait, GoTo, chan
<1>6. EventPart'
  BY <1>0, <1>q DEF EventPart, SyncWait, GoTo, history, Left, calls
<1>7. SyncPart'
  BY <1>0, <1>q DEF TypeOK, SyncPart, SyncWait, GoTo, history, Waiting, Answered, calls
<1>8. SyncOutcome'
  BY <1>0 DEF SyncOutcome, SyncWait, history
<1>9. OwnerPart'
  BY <1>0, <1>q DEF OwnerPart, SyncWait, GoTo, history
<1> QED
  BY <1>1, <1>2, <1>3, <1>4, <1>5, <1>6, <1>7, <1>8, <1>9 DEF IInv

(* The wait ends by itself: the event still awaits its answer.             *)
LEMMA SyncWakeEarlyIInv ==
  ASSUME IInv, NEW t \in Thread, SyncWakeEarly(t)
  PROVE  IInv'
<1>0. TypeOK /\ PlacePart /\ MonPart /\ DeadPart /\ TokensMatch /\ EventPart /\ SyncPart
      /\ SyncOutcome /\ OwnerPart
  BY DEF IInv
<1>q. Queued' = Queued /\ (NoRepeat(queue) => NoRepeat(queue)')
  BY DEF Queued, SyncWakeEarly
<1>1. TypeOK'
  BY <1>0 DEF TypeOK, PlacePart, Pcs, SyncPcs, SyncWakeEarly, GoTo, chan, history, calls
<1>2. PlacePart'
  BY <1>0 DEF PlacePart, SyncPcs, HandlerPcs, SyncWakeEarly, GoTo, calls
<1>3. MonPart'
  BY <1>0 DEF MonPart, InMon, SyncWakeEarly, GoTo
<1>4. DeadPart'
  BY <1>0 DEF DeadPart, SyncWakeEarly, chan
<1>5. TokensMatch'
  BY <1>0 DEF TokensMatch, Writers, SyncWakeEarly, GoTo, chan
<1>6. EventPart'
  BY <1>0, <1>q DEF EventPart, SyncWakeEarly, GoTo, history, Left, calls
<1>7. SyncPart'
  BY <1>0, <1>q
  DEF TypeOK, PlacePart, SyncPart, SyncPcs, SyncWakeEarly, GoTo, history, Waiting, Answered,
      calls
<1>8. SyncOutcome'
  BY <1>0 DEF SyncOutcome, SyncWakeEarly, history
<1>9. OwnerPart'
  BY <1>0, <1>q DEF OwnerPart, SyncWakeEarly, GoTo, history
<1> QED
  BY <1>1, <1>2, <1>3, <1>4, <1>5, <1>6, <1>7, <1>8, <1>9 DEF IInv

LEMMA SyncWakeIInv ==
  ASSUME IInv, NEW t \in Thread, SyncWake(t)
  PROVE  IInv'
<1>0. TypeOK /\ PlacePart /\ MonPart /\ DeadPart /\ TokensMatch /\ EventPart /\ SyncPart
      /\ SyncOutcome /\ OwnerPart
  BY DEF IInv
<1>q. Queued' = Queued /\ (NoRepeat(queue) => NoRepeat(queue)')
  BY DEF Queued, SyncWake
<1>1. TypeOK'
  BY <1>0 DEF TypeOK, Pcs, SyncPcs, SyncWake, GoTo, chan, history, calls
<1>2. PlacePart'
  BY <1>0 DEF PlacePart, SyncPcs, HandlerPcs, SyncWake, GoTo, calls
<1>3. MonPart'
  BY <1>0 DEF MonPart, InMon, SyncWake, GoTo
<1>4. DeadPart'
  BY <1>0 DEF DeadPart, SyncWake, chan
<1>5. TokensMatch'
  BY <1>0 DEF TokensMatch, Writers, SyncWake, GoTo, chan
<1>6. EventPart'
  BY <1>0, <1>q DEF EventPart, SyncWake, GoTo, history, Left, calls
<1>7. SyncPart'
  BY <1>0, <1>q
  DEF TypeOK, PlacePart, SyncPart, SyncPcs, SyncWake, GoTo, history, Waiting, Answered,
      calls
<1>8. SyncOutcome'
  BY <1>0 DEF SyncOutcome, SyncWake, history
<1>9. OwnerPart'
  BY <1>0, <1>q DEF OwnerPart, SyncWake, GoTo, history
<1> QED
  BY <1>1, <1>2, <1>3, <1>4, <1>5, <1>6, <1>7, <1>8, <1>9 DEF IInv

LEMMA SyncReturnIInv ==
  ASSUME IInv, NEW t \in Thread, SyncReturn(t)
  PROVE  IInv'
<1>0. TypeOK /\ PlacePart /\ MonPart /\ DeadPart /\ TokensMatch /\ EventPart /\ SyncPart
      /\ SyncOutcome /\ OwnerPart
  BY DEF IInv
<1>q. Queued' = Queued /\ (NoRepeat(queue) => NoRepeat(queue)')
  BY DEF Queued, SyncReturn
<1>1. TypeOK'
  BY <1>0 DEF TypeOK, Pcs, SyncPcs, PlacePart, SyncReturn, GoTo, Home, chan, calls
<1>2. PlacePart'
  BY <1>0 DEF TypeOK, PlacePart, SyncPcs, HandlerPcs, SyncReturn, GoTo, Home, calls
<1>3. MonPart'
  BY <1>0, QueueAssumption DEF TypeOK, MonPart, InMon, SyncReturn, GoTo, Home, calls
<1>4. DeadPart'
  BY <1>0 DEF DeadPart, SyncReturn, chan
<1>5. TokensMatch'
  BY <1>0 DEF TokensMatch, Writers, SyncReturn, GoTo, Home, chan
<1>6. EventPart'
  BY <1>0, <1>q, QueueAssumption
  DEF TypeOK, EventPart, SyncPart, SyncReturn, GoTo, Home, Left, Waiting, Answered, calls
<1>7. SyncPart'
  BY <1>0, <1>q, QueueAssumption
  DEF TypeOK, SyncPart, SyncReturn, GoTo, Home, Waiting, Answered, calls
<1>8. SyncOutcome'
  BY <1>0 DEF SyncOutcome, SyncPart, SyncReturn, Waiting, Answered, calls
<1>9. OwnerPart'
  BY <1>0, <1>q DEF OwnerPart, SyncReturn, GoTo, Home
<1> QED
  BY <1>1, <1>2, <1>3, <1>4, <1>5, <1>6, <1>7, <1>8, <1>9 DEF IInv

(* The handler thread.  Nobody is writing while it is in the monitor, so   *)
(* each event it leaves in the queue still has its token.                  *)
LEMMA ProcessBeginIInv ==
  ASSUME IInv, ProcessBegin
  PROVE  IInv'
<1>0. TypeOK /\ PlacePart /\ MonPart /\ DeadPart /\ TokensMatch /\ EventPart /\ SyncPart
      /\ SyncOutcome /\ OwnerPart
  BY DEF IInv
<1>q. Queued' = Queued /\ (NoRepeat(queue) => NoRepeat(queue)')
  BY DEF Queued, ProcessBegin
<1>1. TypeOK'
  <2>1. inside' \in BOOLEAN
    BY DEF ProcessBegin
  <2> QED
    BY <1>0, <2>1 DEF TypeOK, Pcs, HandlerPcs, ProcessBegin, GoTo, chan, history
<1>2. PlacePart'
  <2>1. inside' <=> Handler \in held
    BY DEF ProcessBegin
  <2> QED
    BY <1>0, <2>1, QueueAssumption
    DEF TypeOK, PlacePart, SyncPcs, HandlerPcs, ProcessBegin, GoTo
<1>3. MonPart'
  BY <1>0 DEF MonPart, InMon, ProcessBegin, GoTo
<1>4. DeadPart'
  BY DEF DeadPart, ProcessBegin, chan
<1>5. TokensMatch'
  BY <1>0 DEF TokensMatch, Writers, ProcessBegin, GoTo, chan
<1>6. EventPart'
  BY <1>0, <1>q DEF EventPart, ProcessBegin, GoTo, history, Left, calls
<1>7. SyncPart'
  BY <1>0, <1>q DEF SyncPart, ProcessBegin, GoTo, history, Waiting, Answered, calls
<1>8. SyncOutcome'
  BY <1>0 DEF SyncOutcome, ProcessBegin, history
<1>9. OwnerPart'
  BY <1>0, <1>q DEF OwnerPart, ProcessBegin, GoTo, history
<1> QED
  BY <1>1, <1>2, <1>3, <1>4, <1>5, <1>6, <1>7, <1>8, <1>9 DEF IInv

LEMMA LoopBeginIInv ==
  ASSUME IInv, LoopBegin
  PROVE  IInv'
<1>0. TypeOK /\ PlacePart /\ MonPart /\ DeadPart /\ TokensMatch /\ EventPart /\ SyncPart
      /\ SyncOutcome /\ OwnerPart
  BY DEF IInv
<1>q. Queued' = Queued /\ (NoRepeat(queue) => NoRepeat(queue)')
  BY DEF Queued, LoopBegin
<1>1. TypeOK'
  BY <1>0 DEF TypeOK, Pcs, HandlerPcs, LoopBegin, GoTo, chan, history, calls
<1>2. PlacePart'
  BY <1>0 DEF PlacePart, SyncPcs, LoopBegin, GoTo, calls
<1>3. MonPart'
  BY <1>0 DEF MonPart, InMon, LoopBegin, GoTo
<1>4. DeadPart'
  BY DEF DeadPart, LoopBegin, chan
<1>5. TokensMatch'
  BY <1>0 DEF TokensMatch, Writers, LoopBegin, GoTo, chan
<1>6. EventPart'
  BY <1>0, <1>q DEF EventPart, LoopBegin, GoTo, history, Left, calls
<1>7. SyncPart'
  BY <1>0, <1>q DEF SyncPart, LoopBegin, GoTo, history, Waiting, Answered, calls
<1>8. SyncOutcome'
  BY <1>0 DEF SyncOutcome, LoopBegin, history
<1>9. OwnerPart'
  BY <1>0, <1>q DEF OwnerPart, LoopBegin, GoTo, history
<1> QED
  BY <1>1, <1>2, <1>3, <1>4, <1>5, <1>6, <1>7, <1>8, <1>9 DEF IInv

LEMMA GetEventIInv ==
  ASSUME IInv, GetEvent
  PROVE  IInv'
<1>0. TypeOK /\ PlacePart /\ MonPart /\ DeadPart /\ TokensMatch /\ EventPart /\ SyncPart
      /\ SyncOutcome /\ OwnerPart
  BY DEF IInv
<1>e. PICK e : e = Head(queue)
  OBVIOUS
<1>q. /\ e \in Queued /\ e \in Event /\ queue' \in Seq(Event)
      /\ Len(queue') = Len(queue) - 1 /\ Len(queue) \in Nat
      /\ NoRepeat(queue)' /\ Queued' = Queued \ {e}
  <2>1. queue \in Seq(Event) /\ NoRepeat(queue) /\ queue # <<>> /\ queue' = Tail(queue)
    BY <1>0 DEF TypeOK, EventPart, GetEvent, Left, calls
  <2>2. NoRepeat(queue)' <=> NoRepeat(queue')
    BY DEF NoRepeat
  <2>3. Queued' = Items(queue')
    BY DEF Queued, Items
  <2> QED
    BY <1>e, <2>1, <2>2, <2>3, TailItems DEF Queued
<1>a. /\ cur' = e /\ pc' = [pc EXCEPT ![Handler] = "got"]
      /\ pc[Handler] \in {"get", "wget"} /\ mon \in {NoThread, Handler}
      /\ UNCHANGED <<alive, native, processing, inside, mon, held, mine, rev, hit, emon,
                     sync, history>>
  BY <1>e DEF GetEvent, CanEnter, GoTo, calls
<1>1. TypeOK'
  <2>1. pipe' \in 0..PipeCap /\ notifyCount' \in Nat
    <3>1. CASE native /\ notifyCount > 0
      BY <1>0, <3>1, QueueAssumption DEF TypeOK, GetEvent, Acknowledge
    <3>2. CASE ~(native /\ notifyCount > 0)
      BY <1>0, <3>2 DEF TypeOK, GetEvent, Acknowledge
    <3> QED
      BY <3>1, <3>2
  <2>2. pc' \in [Thread -> Pcs]
    BY <1>0, <1>a DEF TypeOK, Pcs, HandlerPcs
  <2> QED
    BY <1>0, <1>q, <1>a, <2>1, <2>2 DEF TypeOK, history
<1>2. PlacePart'
  BY <1>0, <1>q, <1>a, QueueAssumption DEF TypeOK, PlacePart, SyncPcs
<1>3. MonPart'
  BY <1>0, <1>a DEF MonPart, InMon
<1>4. DeadPart'
  BY <1>0, <1>a, QueueAssumption DEF DeadPart
<1>5. TokensMatch'
  <2>1. Writers = {}
    BY <1>0, <1>a, QueueAssumption DEF MonPart, InMon, Writers
  <2>2. native => IF notifyCount > 0
                  THEN pipe > 0 /\ pipe' = pipe - 1 /\ notifyCount' = notifyCount - 1
                  ELSE UNCHANGED <<pipe, notifyCount>>
    BY DEF GetEvent, Acknowledge
  <2> QED
    BY <1>0, <1>q, <1>a, <2>1, <2>2 DEF TypeOK, TokensMatch
<1>6. EventPart'
  BY <1>0, <1>q, <1>a, QueueAssumption DEF TypeOK, EventPart, history, Left
<1>7. SyncPart'
  BY <1>0, <1>q, <1>a DEF PlacePart, SyncPart, SyncPcs, history, Waiting, Answered
<1>8. SyncOutcome'
  BY <1>0, <1>a DEF SyncOutcome, history
<1>9. OwnerPart'
  BY <1>0, <1>q, <1>a DEF OwnerPart, history
<1> QED
  BY <1>1, <1>2, <1>3, <1>4, <1>5, <1>6, <1>7, <1>8, <1>9 DEF IInv

LEMMA ProcessEndIInv ==
  ASSUME IInv, ProcessEnd
  PROVE  IInv'
<1>0. TypeOK /\ PlacePart /\ MonPart /\ DeadPart /\ TokensMatch /\ EventPart /\ SyncPart
      /\ SyncOutcome /\ OwnerPart
  BY DEF IInv
<1>q. Queued' = Queued /\ (NoRepeat(queue) => NoRepeat(queue)')
  BY DEF Queued, ProcessEnd
<1>1. TypeOK'
  <2>1. pipe' \in 0..PipeCap /\ notifyCount' \in Nat
    <3>1. CASE native /\ notifyCount > 0
      BY <1>0, <3>1, QueueAssumption DEF TypeOK, ProcessEnd, Acknowledge, calls
    <3>2. CASE ~(native /\ notifyCount > 0)
      BY <1>0, <3>2 DEF TypeOK, ProcessEnd, Acknowledge, calls
    <3> QED
      BY <3>1, <3>2
  <2>2. pc' \in [Thread -> Pcs]
    BY <1>0 DEF TypeOK, ProcessEnd, GoTo, Pcs, calls
  <2> QED
    BY <1>0, <2>1, <2>2 DEF TypeOK, ProcessEnd, history, calls
<1>2. PlacePart'
  BY <1>0, QueueAssumption DEF TypeOK, PlacePart, SyncPcs, HandlerPcs, ProcessEnd, GoTo
<1>3. MonPart'
  BY <1>0 DEF MonPart, InMon, ProcessEnd, GoTo
<1>4. DeadPart'
  BY <1>0, QueueAssumption DEF DeadPart, ProcessEnd
<1>5. TokensMatch'
  BY <1>0 DEF TypeOK, TokensMatch, ProcessEnd, Acknowledge, calls
<1>6. EventPart'
  BY <1>0, <1>q DEF EventPart, ProcessEnd, GoTo, history, Left, calls
<1>7. SyncPart'
  BY <1>0, <1>q DEF SyncPart, ProcessEnd, GoTo, history, Waiting, Answered, calls
<1>8. SyncOutcome'
  BY <1>0 DEF SyncOutcome, ProcessEnd, history
<1>9. OwnerPart'
  BY <1>0, <1>q DEF OwnerPart, ProcessEnd, GoTo, history
<1> QED
  BY <1>1, <1>2, <1>3, <1>4, <1>5, <1>6, <1>7, <1>8, <1>9 DEF IInv

LEMMA WaitForEventIInv ==
  ASSUME IInv, WaitForEvent
  PROVE  IInv'
<1>0. TypeOK /\ PlacePart /\ MonPart /\ DeadPart /\ TokensMatch /\ EventPart /\ SyncPart
      /\ SyncOutcome /\ OwnerPart
  BY DEF IInv
<1>q. Queued' = Queued /\ (NoRepeat(queue) => NoRepeat(queue)')
  BY DEF Queued, WaitForEvent
<1>1. TypeOK'
  BY <1>0, QueueAssumption
  DEF TypeOK, Pcs, HandlerPcs, WaitForEvent, GoTo, Acknowledge, history, calls
<1>2. PlacePart'
  BY <1>0 DEF PlacePart, SyncPcs, WaitForEvent, GoTo, calls
<1>3. MonPart'
  BY <1>0 DEF MonPart, InMon, WaitForEvent, GoTo
<1>4. DeadPart'
  BY <1>0, QueueAssumption DEF DeadPart, WaitForEvent
<1>5. TokensMatch'
  BY <1>0 DEF TypeOK, TokensMatch, WaitForEvent, Acknowledge, calls
<1>6. EventPart'
  BY <1>0, <1>q DEF EventPart, WaitForEvent, GoTo, history, Left, calls
<1>7. SyncPart'
  BY <1>0, <1>q DEF SyncPart, WaitForEvent, GoTo, history, Waiting, Answered, calls
<1>8. SyncOutcome'
  BY <1>0 DEF SyncOutcome, WaitForEvent, history
<1>9. OwnerPart'
  BY <1>0, <1>q DEF OwnerPart, WaitForEvent, GoTo, history
<1> QED
  BY <1>1, <1>2, <1>3, <1>4, <1>5, <1>6, <1>7, <1>8, <1>9 DEF IInv

LEMMA WaitInterruptedIInv ==
  ASSUME IInv, WaitInterrupted
  PROVE  IInv'
<1>0. TypeOK /\ PlacePart /\ MonPart /\ DeadPart /\ TokensMatch /\ EventPart /\ SyncPart
      /\ SyncOutcome /\ OwnerPart
  BY DEF IInv
<1>q. Queued' = Queued /\ (NoRepeat(queue) => NoRepeat(queue)')
  BY DEF Queued, WaitInterrupted
<1>1. TypeOK'
  BY <1>0 DEF TypeOK, Pcs, WaitInterrupted, GoTo, chan, history, calls
<1>2. PlacePart'
  BY <1>0 DEF PlacePart, SyncPcs, WaitInterrupted, GoTo, calls
<1>3. MonPart'
  BY <1>0 DEF MonPart, InMon, WaitInterrupted, GoTo
<1>4. DeadPart'
  BY <1>0, QueueAssumption DEF DeadPart, WaitInterrupted, chan
<1>5. TokensMatch'
  BY <1>0 DEF TokensMatch, Writers, WaitInterrupted, GoTo, chan
<1>6. EventPart'
  BY <1>0, <1>q DEF EventPart, WaitInterrupted, GoTo, history, Left, calls
<1>7. SyncPart'
  BY <1>0, <1>q DEF SyncPart, WaitInterrupted, GoTo, history, Waiting, Answered, calls
<1>8. SyncOutcome'
  BY <1>0 DEF SyncOutcome, WaitInterrupted, history
<1>9. OwnerPart'
  BY <1>0, <1>q DEF OwnerPart, WaitInterrupted, GoTo, history
<1> QED
  BY <1>1, <1>2, <1>3, <1>4, <1>5, <1>6, <1>7, <1>8, <1>9 DEF IInv

LEMMA HandleBeginIInv ==
  ASSUME IInv, HandleBegin
  PROVE  IInv'
<1>0. TypeOK /\ PlacePart /\ MonPart /\ DeadPart /\ TokensMatch /\ EventPart /\ SyncPart
      /\ SyncOutcome /\ OwnerPart
  BY DEF IInv
<1>q. Queued' = Queued /\ (NoRepeat(queue) => NoRepeat(queue)')
  BY DEF Queued, HandleBegin
<1>1. TypeOK'
  BY <1>0 DEF TypeOK, Pcs, HandlerPcs, PlacePart, HandleBegin, GoTo, chan, calls
<1>2. PlacePart'
  BY <1>0 DEF PlacePart, SyncPcs, HandleBegin, GoTo, calls
<1>3. MonPart'
  BY <1>0 DEF MonPart, InMon, HandleBegin, GoTo
<1>4. DeadPart'
  BY <1>0, QueueAssumption DEF DeadPart, HandleBegin, chan
<1>5. TokensMatch'
  BY <1>0 DEF TokensMatch, Writers, HandleBegin, GoTo, chan
<1>6. EventPart'
  BY <1>0, <1>q DEF EventPart, HandleBegin, GoTo, Left, calls
<1>7. SyncPart'
  BY <1>0, <1>q DEF SyncPart, HandleBegin, GoTo, Waiting, Answered, calls
<1>8. SyncOutcome'
  BY <1>0 DEF SyncOutcome, EventPart, HandleBegin, Left, calls
<1>9. OwnerPart'
  BY <1>0, <1>q DEF OwnerPart, HandleBegin
<1> QED
  BY <1>1, <1>2, <1>3, <1>4, <1>5, <1>6, <1>7, <1>8, <1>9 DEF IInv

LEMMA HandleEndIInv ==
  ASSUME IInv, HandleEnd
  PROVE  IInv'
<1>0. TypeOK /\ PlacePart /\ MonPart /\ DeadPart /\ TokensMatch /\ EventPart /\ SyncPart
      /\ SyncOutcome /\ OwnerPart
  BY DEF IInv
<1>q. Queued' = Queued /\ (NoRepeat(queue) => NoRepeat(queue)')
  BY DEF Queued, Items, NoRepeat, HandleEnd, GoTo, Again, chan, history
<1>h. cur \in Event
  BY <1>0, QueueAssumption DEF TypeOK, PlacePart, HandleEnd, calls
<1>1. TypeOK'
  <2>1. freed' \in [Event -> Nat] /\ cur' \in Event \cup {NoEvent}
    <3>1. freed[cur] + 1 \in Nat
      BY <1>0, <1>h DEF TypeOK
    <3> QED
      BY <1>0, <1>h, <3>1 DEF TypeOK, HandleEnd, calls
  <2>2. pc' \in [Thread -> Pcs]
    BY <1>0 DEF TypeOK, HandleEnd, GoTo, Again, Pcs, HandlerPcs, calls
  <2> QED
    BY <1>0, <2>1, <2>2 DEF TypeOK, HandleEnd, chan, calls
<1>2. PlacePart'
  BY <1>0, QueueAssumption DEF TypeOK, PlacePart, SyncPcs, HandleEnd, GoTo, Again, calls
<1>3. MonPart'
  BY <1>0, QueueAssumption
  DEF TypeOK, PlacePart, MonPart, InMon, HandlerPcs, HandleEnd, GoTo, Again, chan, calls
<1>4. DeadPart'
  BY <1>0, QueueAssumption DEF DeadPart, HandleEnd, chan
<1>5. TokensMatch'
  BY <1>0 DEF TypeOK, TokensMatch, Writers, HandleEnd, GoTo, chan, calls
<1>6. EventPart'
  <2>1. CASE sync[cur] = "NULL"
    <3>1. \A t \in Thread : mine[t] # cur
      BY <1>0, <1>h, <2>1, QueueAssumption
      DEF TypeOK, PlacePart, SyncPart, SyncPcs, Waiting, Answered
    <3>2. /\ cur \in used /\ cur \notin Queued /\ hit # cur /\ freed[cur] \in Nat
          /\ (~Left(cur) => freed[cur] = 0 /\ outcome[cur] = "none")
      BY <1>0, <1>h DEF TypeOK, EventPart, Left
    <3>3. /\ freed'[cur] = freed[cur] + 1 /\ \A d \in Event : d # cur => freed'[d] = freed[d]
          /\ cur' = NoEvent
          /\ pc'[Handler] \in {"get", "wget"}
      BY <1>0, <2>1, <3>2, QueueAssumption DEF TypeOK, HandleEnd, GoTo, Again, calls
    <3> QED
      BY <1>0, <1>h, <1>q, <3>1, <3>2, <3>3, QueueAssumption
      DEF EventPart, HandleEnd, Left, calls
  <2>2. CASE sync[cur] # "NULL"
    <3>1. sync[cur] = "TRUE" \/ Left(cur)
      BY <1>0, <1>h, <2>2, QueueAssumption
      DEF PlacePart, EventPart, SyncPart, SyncPcs, Left, Waiting, Answered
    <3>2. UNCHANGED <<freed, cur>> /\ pc'[Handler] = "reply"
      BY <1>0, <2>2, QueueAssumption DEF TypeOK, HandleEnd, GoTo, calls
    <3> QED
      BY <1>0, <1>h, <1>q, <3>1, <3>2 DEF EventPart, HandleEnd, Left, calls
  <2> QED
    BY <2>1, <2>2
<1>7. SyncPart'
  BY <1>0, <1>q
  DEF TypeOK, PlacePart, SyncPart, SyncPcs, HandleEnd, GoTo, Again, Waiting, Answered,
      calls
<1>8. SyncOutcome'
  BY <1>0 DEF SyncOutcome, HandleEnd
<1>9. OwnerPart'
  BY <1>0, <1>q, QueueAssumption DEF TypeOK, OwnerPart, HandleEnd, GoTo, Again, calls
<1> QED
  BY <1>1, <1>2, <1>3, <1>4, <1>5, <1>6, <1>7, <1>8, <1>9 DEF IInv

LEMMA ReplyIInv ==
  ASSUME IInv, Reply
  PROVE  IInv'
<1>0. TypeOK /\ PlacePart /\ MonPart /\ DeadPart /\ TokensMatch /\ EventPart /\ SyncPart
      /\ SyncOutcome /\ OwnerPart
  BY DEF IInv
<1>q. Queued' = Queued /\ (NoRepeat(queue) => NoRepeat(queue)')
  BY DEF Queued, Reply
<1>1. TypeOK'
  BY <1>0 DEF TypeOK, Pcs, SyncPcs, HandlerPcs, Reply, CNotify, Again, chan, history, calls
<1>2. PlacePart'
  BY <1>0, QueueAssumption DEF PlacePart, SyncPcs, HandlerPcs, Reply, CNotify, Again, calls
<1>3. MonPart'
  BY <1>0 DEF MonPart, InMon, Reply, CNotify, Again
<1>4. DeadPart'
  BY <1>0, QueueAssumption DEF DeadPart, Reply, chan
<1>5. TokensMatch'
  BY <1>0 DEF TokensMatch, Writers, Reply, CNotify, Again, chan
<1>6. EventPart'
  BY <1>0, <1>q, QueueAssumption DEF EventPart, Reply, CNotify, Again, history, Left, calls
<1>7. SyncPart'
  BY <1>0, <1>q, QueueAssumption
  DEF TypeOK, PlacePart, SyncPart, SyncPcs, EventPart, Reply, CNotify, Again, history,
      Left, Waiting, Answered, calls
<1>8. SyncOutcome'
  BY <1>0 DEF SyncOutcome, Reply, history
<1>9. OwnerPart'
  BY <1>0, <1>q, QueueAssumption DEF OwnerPart, Reply, CNotify, Again, history
<1> QED
  BY <1>1, <1>2, <1>3, <1>4, <1>5, <1>6, <1>7, <1>8, <1>9 DEF IInv

(* PL_RevokeEvents.  Nobody can post in the middle of it, so what is left  *)
(* of the queue belongs to other owners.                                   *)
LEMMA RevokeBeginIInv ==
  ASSUME IInv, NEW t \in Thread, NEW o \in Owner, RevokeBegin(t, o)
  PROVE  IInv'
<1>0. TypeOK /\ PlacePart /\ MonPart /\ DeadPart /\ TokensMatch /\ EventPart /\ SyncPart
      /\ SyncOutcome /\ OwnerPart
  BY DEF IInv
<1>q. Queued' = Queued /\ (NoRepeat(queue) => NoRepeat(queue)')
  BY DEF Queued, RevokeBegin
<1>1. TypeOK'
  BY <1>0 DEF TypeOK, Pcs, RevokeBegin, GoTo, chan, history, calls
<1>2. PlacePart'
  BY <1>0, QueueAssumption
  DEF TypeOK, PlacePart, SyncPcs, HandlerPcs, Owner, RevokeBegin, Calls, GoTo, calls
<1>3. MonPart'
  BY <1>0, QueueAssumption DEF TypeOK, MonPart, InMon, RevokeBegin, CanEnter, GoTo, calls
<1>4. DeadPart'
  BY DEF DeadPart, RevokeBegin, chan
<1>5. TokensMatch'
  BY <1>0 DEF TokensMatch, Writers, RevokeBegin, Calls, GoTo, chan
<1>6. EventPart'
  BY <1>0, <1>q DEF EventPart, RevokeBegin, Calls, GoTo, history, Left, calls
<1>7. SyncPart'
  BY <1>0, <1>q DEF SyncPart, RevokeBegin, GoTo, history, Waiting, Answered, calls
<1>8. SyncOutcome'
  BY <1>0 DEF SyncOutcome, RevokeBegin, history
<1>9. OwnerPart'
  BY <1>0, <1>q DEF OwnerPart, RevokeBegin, GoTo, history
<1> QED
  BY <1>1, <1>2, <1>3, <1>4, <1>5, <1>6, <1>7, <1>8, <1>9 DEF IInv

LEMMA RevokeAsyncIInv ==
  ASSUME IInv, NEW t \in Thread, RevokeAsync(t)
  PROVE  IInv'
<1>0. TypeOK /\ PlacePart /\ MonPart /\ DeadPart /\ TokensMatch /\ EventPart /\ SyncPart
      /\ SyncOutcome /\ OwnerPart
  BY DEF IInv
<1>k. /\ FirstOf(t) \in DOMAIN queue /\ OwnerOf[queue[FirstOf(t)]] = rev[t]
      /\ queue' = RemoveAt(queue, FirstOf(t))
  BY <1>0, FirstOfRevocable DEF RevokeAsync
<1>e. PICK e : e = queue[FirstOf(t)]
  OBVIOUS
<1>q. /\ e \in Queued /\ e \in Event /\ queue' \in Seq(Event)
      /\ Len(queue') = Len(queue) - 1 /\ Len(queue) \in Nat
      /\ NoRepeat(queue)' /\ Queued' = Queued \ {e}
  <2>1. queue \in Seq(Event) /\ NoRepeat(queue)
    BY <1>0 DEF TypeOK, EventPart, Left
  <2>2. NoRepeat(queue)' <=> NoRepeat(queue')
    BY DEF NoRepeat
  <2>3. Queued' = Items(queue')
    BY DEF Queued, Items
  <2> QED
    BY <1>e, <1>k, <2>1, <2>2, <2>3, RemoveItems DEF Queued
<1>a. /\ pc[t] = "revoking" /\ sync[e] # "TRUE" /\ freed' = [freed EXCEPT ![e] = @ + 1]
      /\ UNCHANGED <<chan, processing, inside, mon, held, pc, cur, mine, rev, hit, emon,
                     sync, used, handled, outcome, early, gone, goneHere>>
  BY <1>e DEF RevokeAsync, calls
<1>m. /\ cur # e /\ hit # e /\ e \in used /\ e \notin handled
      /\ freed[e] \in Nat /\ (~Left(e) => freed[e] = 0 /\ outcome[e] = "none")
      /\ \A u \in Thread : mine[u] # e
  <2>1. /\ cur # e /\ hit # e /\ e \in used /\ e \notin handled
        /\ freed[e] \in Nat /\ (~Left(e) => freed[e] = 0 /\ outcome[e] = "none")
    BY <1>0, <1>q DEF TypeOK, EventPart, Left
  <2>2. ASSUME NEW u \in Thread, mine[u] = e PROVE FALSE
    <3>1. pc[u] \in SyncPcs
      BY <1>0, <1>q, <2>2, QueueAssumption DEF PlacePart
    <3> QED
      BY <1>0, <1>q, <1>a, <2>2, <3>1 DEF SyncPart, SyncPcs, Waiting, Answered
  <2> QED
    BY <2>1, <2>2
<1>1. TypeOK'
  <2>1. freed' \in [Event -> Nat]
    <3>1. freed[e] + 1 \in Nat
      BY <1>m
    <3> QED
      BY <1>0, <1>q, <1>a, <3>1 DEF TypeOK
  <2> QED
    BY <1>0, <1>q, <1>a DEF TypeOK, chan
<1>2. PlacePart'
  BY <1>0 DEF PlacePart, RevokeAsync, calls
<1>3. MonPart'
  BY <1>0 DEF MonPart, InMon, RevokeAsync
<1>4. DeadPart'
  BY <1>0 DEF DeadPart, RevokeAsync, chan
<1>5. TokensMatch'
  BY <1>0, <1>q, <1>a, SMTT(30) DEF TypeOK, TokensMatch, Writers, chan
<1>6. EventPart'
  <2>1. freed'[e] = freed[e] + 1 /\ \A d \in Event : d # e => freed'[d] = freed[d]
    BY <1>0, <1>q, <1>a, <1>m DEF TypeOK
  <2> QED
    BY <1>0, <1>q, <1>a, <1>m, <2>1 DEF EventPart, Left
<1>7. SyncPart'
  BY <1>0, <1>q, <1>a, <1>m DEF SyncPart, Waiting, Answered
<1>8. SyncOutcome'
  BY <1>0, <1>q, QueueAssumption
  DEF TypeOK, SyncOutcome, EventPart, RevokeAsync, chan, history, Left, calls
<1>9. OwnerPart'
  BY <1>0, <1>q, <1>a DEF OwnerPart
<1> QED
  BY <1>1, <1>2, <1>3, <1>4, <1>5, <1>6, <1>7, <1>8, <1>9 DEF IInv

LEMMA RevokeSyncIInv ==
  ASSUME IInv, NEW t \in Thread, RevokeSync(t)
  PROVE  IInv'
<1>0. TypeOK /\ PlacePart /\ MonPart /\ DeadPart /\ TokensMatch /\ EventPart /\ SyncPart
      /\ SyncOutcome /\ OwnerPart
  BY DEF IInv
<1>k. /\ FirstOf(t) \in DOMAIN queue /\ OwnerOf[queue[FirstOf(t)]] = rev[t]
      /\ queue' = RemoveAt(queue, FirstOf(t))
  BY <1>0, FirstOfRevocable DEF RevokeSync
<1>e. PICK e : e = queue[FirstOf(t)]
  OBVIOUS
<1>q. /\ e \in Queued /\ e \in Event /\ queue' \in Seq(Event)
      /\ Len(queue') = Len(queue) - 1 /\ Len(queue) \in Nat
      /\ NoRepeat(queue)' /\ Queued' = Queued \ {e}
  <2>1. queue \in Seq(Event) /\ NoRepeat(queue)
    BY <1>0 DEF TypeOK, EventPart
  <2>2. NoRepeat(queue)' <=> NoRepeat(queue')
    BY DEF NoRepeat
  <2>3. Queued' = Items(queue')
    BY DEF Queued, Items
  <2> QED
    BY <1>e, <1>k, <2>1, <2>2, <2>3, RemoveItems DEF Queued
<1>a. /\ pc[t] = "revoking" /\ sync[e] = "TRUE" /\ hit' = e
      /\ pc' = [pc EXCEPT ![t] = "rnotify"]
      /\ UNCHANGED <<chan, processing, inside, rev, mon, held, cur, mine, emon, sync,
                     history>>
  BY <1>e DEF RevokeSync, GoTo
<1>h. hit = NoEvent
  BY <1>0, <1>a DEF PlacePart, MonPart, InMon
<1>m. cur # e /\ e \notin handled /\ e \in used /\ (~Left(e) => freed[e] # 1)
  BY <1>0, <1>q DEF EventPart
<1>1. TypeOK'
  BY <1>0, <1>q, <1>a DEF TypeOK, Pcs, chan, history
<1>2. PlacePart'
  BY <1>0, <1>q, <1>a, QueueAssumption DEF TypeOK, PlacePart, SyncPcs, HandlerPcs
<1>3. MonPart'
  BY <1>0, <1>a DEF TypeOK, MonPart, InMon
<1>4. DeadPart'
  BY <1>0, <1>a DEF DeadPart, chan
<1>5. TokensMatch'
  <2>1. Writers' = Writers
    BY <1>0, <1>a DEF TypeOK, Writers
  <2> QED
    BY <1>0, <1>q, <1>a, <2>1, SMTT(30) DEF TypeOK, TokensMatch, chan
<1>6. EventPart'
  <2>1. pc'[Handler] = "reply" => pc[Handler] = "reply"
    BY <1>0, <1>a, QueueAssumption DEF TypeOK
  <2>2. pc'[Handler] # "got" => pc[Handler] # "got"
    BY <1>0, <1>a, QueueAssumption DEF TypeOK
  <2> QED
    BY <1>0, <1>q, <1>a, <1>h, <1>m, <2>1, <2>2 DEF EventPart, Left, history
<1>7. SyncPart'
  <2>1. \A u \in Thread : pc'[u] \in SyncPcs => pc'[u] = pc[u] /\ u # t
    BY <1>0, <1>a DEF TypeOK, SyncPcs
  <2>2. ASSUME NEW u \in Thread, mine[u] # NoEvent PROVE hit # mine[u]
    BY <1>h, <2>2
  <2>3. ASSUME NEW u \in Thread, pc[u] \in SyncPcs
        PROVE  /\ mine[u] # NoEvent /\ (Waiting(u) => Waiting(u)')
               /\ (Answered(u) => Answered(u)')
    <3>1. mine[u] # NoEvent
      BY <1>0, <2>3 DEF PlacePart
    <3> QED
      BY <1>0, <1>q, <1>a, <1>h, <1>m, <2>3, <3>1
      DEF SyncPart, SyncPcs, Waiting, Answered, history
  <2>4. ASSUME NEW u \in Thread, pc[u] = "spost"
        PROVE  e # mine[u]
    BY <1>0, <1>q, <2>4 DEF SyncPart
  <2> QED
    BY <1>0, <1>q, <1>a, <2>1, <2>3, <2>4 DEF SyncPart, SyncPcs, history
<1>8. SyncOutcome'
  BY <1>0, <1>a DEF SyncOutcome, history
<1>9. OwnerPart'
  BY <1>0, <1>q, <1>a, QueueAssumption DEF TypeOK, OwnerPart, history
<1> QED
  BY <1>1, <1>2, <1>3, <1>4, <1>5, <1>6, <1>7, <1>8, <1>9 DEF IInv

LEMMA RevokeNotifyIInv ==
  ASSUME IInv, NEW t \in Thread, RevokeNotify(t)
  PROVE  IInv'
<1>0. TypeOK /\ PlacePart /\ MonPart /\ DeadPart /\ TokensMatch /\ EventPart /\ SyncPart
      /\ SyncOutcome /\ OwnerPart
  BY DEF IInv
<1>q. Queued' = Queued /\ (NoRepeat(queue) => NoRepeat(queue)')
  BY DEF Queued, RevokeNotify
<1>e. PICK e : e = hit
  OBVIOUS
<1>a. /\ pc[t] = "rnotify" /\ emon[e] = NoThread /\ hit' = NoEvent
      /\ sync' = [sync EXCEPT ![e] = "NULL"]
      /\ pc' = [u \in Thread |-> IF u = t THEN "revoking"
                                 ELSE IF pc[u] = "cwait" /\ mine[u] = e THEN "woken" ELSE pc[u]]
      /\ UNCHANGED <<chan, queue, processing, inside, rev, mon, held, cur, mine, emon,
                     history>>
  BY <1>e DEF RevokeNotify, CNotify
<1>m. /\ e \in Event /\ cur # e /\ e \notin Queued /\ e \notin handled
      /\ \A u \in Thread : u # t => pc[u] # "rnotify"
  <2>1. e \in Event
    BY <1>0, <1>a, <1>e DEF TypeOK, PlacePart
  <2>2. \A u \in Thread : u # t => pc[u] # "rnotify"
    BY <1>0, <1>a DEF MonPart, InMon
  <2> QED
    BY <1>0, <1>e, <2>1, <2>2 DEF EventPart
<1>s. sync'[e] = "NULL" /\ \A d \in Event : d # e => sync'[d] = sync[d]
  BY <1>0, <1>m, <1>a DEF TypeOK
<1>w. ASSUME NEW u \in Thread, pc'[u] # pc[u], u # t
      PROVE  pc[u] = "cwait" /\ mine[u] = e /\ pc'[u] = "woken" /\ u # Handler
  BY <1>0, <1>a, <1>w DEF PlacePart, SyncPcs
<1>1. TypeOK'
  <2>1. pc' \in [Thread -> Pcs]
    BY <1>0, <1>a DEF TypeOK, Pcs, SyncPcs
  <2> QED
    BY <1>0, <1>a, <2>1 DEF TypeOK, chan, history
<1>2. PlacePart'
  BY <1>0, <1>a, <1>m, <1>w, QueueAssumption DEF PlacePart, SyncPcs, HandlerPcs
<1>3. MonPart'
  BY <1>0, <1>a DEF MonPart, InMon
<1>4. DeadPart'
  BY <1>0, <1>a DEF DeadPart, chan
<1>5. TokensMatch'
  <2>1. Writers' = Writers
    BY <1>a DEF Writers
  <2> QED
    BY <1>0, <1>a, <2>1 DEF TokensMatch, chan
<1>6. EventPart'
  <2>1. /\ pc'[Handler] = "reply" => pc[Handler] = "reply"
        /\ pc'[Handler] # "got" => pc[Handler] # "got"
    BY <1>a, <1>w, QueueAssumption
  <2>2. pc[Handler] = "reply" => cur \in Event
    BY <1>0 DEF TypeOK, PlacePart
  <2>3. \A d \in Event : d # NoEvent
    BY QueueAssumption
  <2> QED
    BY <1>0, <1>q, <1>a, <1>m, <1>s, <2>1, <2>2, <2>3 DEF EventPart, Left, history
<1>7. SyncPart'
  <2>1. ASSUME NEW u \in Thread, pc'[u] \in SyncPcs
        PROVE  pc[u] \in SyncPcs /\ mine[u] \in Event /\ hit' # mine[u]
    BY <1>0, <1>a, <1>w, <2>1, QueueAssumption DEF TypeOK, PlacePart, SyncPcs
  <2>2. ASSUME NEW u \in Thread, pc[u] \in SyncPcs, mine[u] = e
        PROVE  pc[u] \in {"cwait", "woken"} /\ pc'[u] = "woken" /\ Answered(u)'
    <3>1. u # t
      BY <1>a, <2>2 DEF SyncPcs
    <3>2. pc[u] \notin {"spost", "swrite", "tocwait", "sreturn"}
      BY <1>0, <1>a, <2>2, QueueAssumption DEF SyncPart
    <3>3. pc[u] \in {"cwait", "woken"} /\ pc'[u] = "woken"
      BY <1>a, <2>2, <3>1, <3>2 DEF SyncPcs
    <3>4. Answered(u)'
      BY <1>q, <1>a, <1>m, <1>s, <2>2, QueueAssumption DEF Answered, history
    <3> QED
      BY <3>3, <3>4
  <2>3. ASSUME NEW u \in Thread, pc'[u] \in SyncPcs, mine[u] # e
        PROVE  /\ pc'[u] = pc[u] /\ sync'[mine[u]] = sync[mine[u]]
               /\ (Waiting(u) => Waiting(u)') /\ (Answered(u) => Answered(u)')
    <3>1. pc'[u] = pc[u] /\ sync'[mine[u]] = sync[mine[u]]
      BY <1>a, <1>w, <1>s, <2>1, <2>3 DEF SyncPcs
    <3> QED
      BY <1>q, <1>a, <1>e, <2>1, <2>3, <3>1 DEF Waiting, Answered, history
  <2> QED
    BY <1>0, <1>q, <1>a, <2>1, <2>2, <2>3 DEF SyncPart, SyncPcs, history
<1>8. SyncOutcome'
  BY <1>0, <1>a DEF SyncOutcome, history
<1>9. OwnerPart'
  BY <1>0, <1>q, <1>a, <1>w, QueueAssumption DEF OwnerPart, history
<1> QED
  BY <1>1, <1>2, <1>3, <1>4, <1>5, <1>6, <1>7, <1>8, <1>9 DEF IInv

LEMMA RevokeEndIInv ==
  ASSUME IInv, NEW t \in Thread, RevokeEnd(t)
  PROVE  IInv'
<1>0. TypeOK /\ PlacePart /\ MonPart /\ DeadPart /\ TokensMatch /\ EventPart /\ SyncPart
      /\ SyncOutcome /\ OwnerPart
  BY DEF IInv
<1>q. Queued' = Queued /\ (NoRepeat(queue) => NoRepeat(queue)')
  BY DEF Queued, RevokeEnd, Revoked
<1>1. TypeOK'
  BY <1>0
  DEF TypeOK, Pcs, HandlerPcs, PlacePart, RevokeEnd, Revoked, Home, AfterExit, GoTo,
      chan, calls
<1>2. PlacePart'
  BY <1>0 DEF TypeOK, PlacePart, SyncPcs, HandlerPcs, RevokeEnd, Revoked, Home, GoTo, calls
<1>3. MonPart'
  BY <1>0, QueueAssumption
  DEF TypeOK, MonPart, InMon, RevokeEnd, Revoked, Home, AfterExit, GoTo, calls
<1>4. DeadPart'
  BY <1>0 DEF DeadPart, RevokeEnd, Revoked, chan
<1>5. TokensMatch'
  BY <1>0 DEF TokensMatch, Writers, RevokeEnd, Revoked, Home, GoTo, chan
<1>6. EventPart'
  BY <1>0, <1>q DEF EventPart, RevokeEnd, Revoked, Home, GoTo, Left, calls
<1>7. SyncPart'
  BY <1>0, <1>q
  DEF SyncPart, MonPart, InMon, RevokeEnd, Revoked, Home, GoTo, Waiting, Answered, calls
<1>8. SyncOutcome'
  BY <1>0, <1>q, QueueAssumption
  DEF TypeOK, SyncOutcome, EventPart, RevokeEnd, Revoked, Home, AfterExit, GoTo, chan,
      history, Left, calls
<1>9. OwnerPart'
  <2>1. \A e \in Queued : OwnerOf[e] # rev[t]
    BY DEF RevokeEnd, Revocable, Queued, Items
  <2> QED
    BY <1>0, <1>q, <2>1 DEF OwnerPart, RevokeEnd, Revoked, Home, GoTo
<1> QED
  BY <1>1, <1>2, <1>3, <1>4, <1>5, <1>6, <1>7, <1>8, <1>9 DEF IInv

(* A queue's end and a new one's beginning.                                *)
LEMMA DestroyUnusedIInv ==
  ASSUME IInv, DestroyUnused
  PROVE  IInv'
<1>0. TypeOK /\ PlacePart /\ MonPart /\ DeadPart /\ TokensMatch /\ EventPart /\ SyncPart
      /\ SyncOutcome /\ OwnerPart
  BY DEF IInv
<1>a. /\ \A u \in Thread : pc[u] = "idle"
      /\ held = {} /\ mon = NoThread /\ alive' = FALSE /\ queue' = <<>> /\ pipe' = 0
      /\ notifyCount' = 0
      /\ UNCHANGED <<native, processing, inside, mon, held, pc, cur, mine, rev, hit,
                     emon, sync, used, handled, outcome, early, gone, goneHere>>
  BY DEF DestroyUnused, DestroyQueue, calls
<1>m. cur = NoEvent /\ hit = NoEvent /\ \A u \in Thread : mine[u] = NoEvent
  BY <1>0, <1>a, QueueAssumption DEF PlacePart, SyncPcs
<1>q. Queued' = {} /\ NoRepeat(queue)' /\ Len(queue') = 0
  BY <1>a DEF Queued, Items, NoRepeat
<1>f. /\ freed' \in [Event -> Nat]
      /\ \A e \in Event : freed'[e] = IF e \in Queued THEN freed[e] + 1 ELSE freed[e]
  <2>1. \A e \in Event : Contains(queue, e) <=> e \in Queued
    BY <1>0 DEF TypeOK, Contains, Queued, Items
  <2>2. \A e \in Event : freed[e] \in Nat /\ freed[e] + 1 \in Nat /\ freed[e] + 0 = freed[e]
    BY <1>0 DEF TypeOK
  <2>3. freed' = [e \in Event |-> freed[e] + (IF Contains(queue, e) THEN 1 ELSE 0)]
    BY DEF DestroyUnused, DestroyQueue
  <2> QED
    BY <2>1, <2>2, <2>3
<1>1. TypeOK'
  <2>1. queue' \in Seq(Event) /\ pipe' \in 0..PipeCap /\ notifyCount' \in Nat
    BY <1>a, QueueAssumption
  <2> QED
    BY <1>0, <1>a, <1>f, <2>1 DEF TypeOK
<1>2. PlacePart'
  BY <1>0 DEF PlacePart, DestroyUnused, DestroyQueue, calls
<1>3. MonPart'
  BY QueueAssumption DEF MonPart, InMon, DestroyUnused, DestroyQueue
<1>4. DeadPart'
  BY DEF DeadPart, DestroyUnused, DestroyQueue
<1>5. TokensMatch'
  BY <1>0, <1>q, QueueAssumption
  DEF TypeOK, MonPart, InMon, TokensMatch, Writers, DestroyUnused, DestroyQueue, chan,
      history, calls
<1>6. EventPart'
  <2>1. \A e \in Event : e \in Queued => (freed[e] = 0 \/ Left(e)) /\ e \in used
    BY <1>0 DEF EventPart, Left
  <2>2. \A e \in Event : freed[e] \in Nat
    BY <1>0 DEF TypeOK
  <2> QED
    BY <1>0, <1>a, <1>m, <1>q, <1>f, <2>1, <2>2, QueueAssumption DEF EventPart, Left
<1>7. SyncPart'
  BY <1>a, <1>m DEF SyncPart, Waiting, Answered
<1>8. SyncOutcome'
  BY <1>0, <1>q, QueueAssumption
  DEF TypeOK, SyncOutcome, EventPart, DestroyUnused, DestroyQueue, chan, history, Left,
      calls
<1>9. OwnerPart'
  BY <1>0, <1>a, <1>q, QueueAssumption DEF OwnerPart
<1> QED
  BY <1>1, <1>2, <1>3, <1>4, <1>5, <1>6, <1>7, <1>8, <1>9 DEF IInv

LEMMA CreateQueueIInv ==
  ASSUME IInv, CreateQueue
  PROVE  IInv'
<1>0. TypeOK /\ PlacePart /\ MonPart /\ DeadPart /\ TokensMatch /\ EventPart /\ SyncPart
      /\ SyncOutcome /\ OwnerPart
  BY DEF IInv
<1>q. Queued' = Queued /\ (NoRepeat(queue) => NoRepeat(queue)')
  BY DEF Queued, CreateQueue
<1>1. TypeOK'
  BY <1>0 DEF TypeOK, CreateQueue, history, calls
<1>2. PlacePart'
  BY <1>0 DEF PlacePart, CreateQueue, calls
<1>3. MonPart'
  BY <1>0 DEF MonPart, InMon, CreateQueue
<1>4. DeadPart'
  BY DEF DeadPart, CreateQueue
<1>5. TokensMatch'
  BY <1>0 DEF TokensMatch, DeadPart, CreateQueue
<1>6. EventPart'
  BY <1>0, <1>q DEF EventPart, CreateQueue, history, Left, calls
<1>7. SyncPart'
  BY <1>0, <1>q DEF SyncPart, CreateQueue, history, Waiting, Answered, calls
<1>8. SyncOutcome'
  BY <1>0 DEF SyncOutcome, CreateQueue, history
<1>9. OwnerPart'
  BY <1>0, <1>q DEF OwnerPart, CreateQueue, history
<1> QED
  BY <1>1, <1>2, <1>3, <1>4, <1>5, <1>6, <1>7, <1>8, <1>9 DEF IInv

--------------------------------------------------------------------------------
LEMMA NextIInv == IInv /\ [Next]_vars => IInv'
<1> SUFFICES ASSUME IInv, [Next]_vars PROVE IInv'
  OBVIOUS
<1>1. CASE UNCHANGED vars
  <2>1. Queued' = Queued /\ NoRepeat(queue)' = NoRepeat(queue)
    BY <1>1 DEF vars, Queued, Items, NoRepeat
  <2>2. TypeOK' /\ PlacePart' /\ MonPart' /\ DeadPart' /\ TokensMatch'
    BY <1>1
    DEF IInv, vars, chan, calls, history, TypeOK, PlacePart, MonPart, InMon, DeadPart,
        TokensMatch, Writers
  <2>3. EventPart' /\ SyncPart' /\ SyncOutcome' /\ OwnerPart'
    BY <1>1, <2>1
    DEF IInv, vars, chan, calls, history, EventPart, SyncPart, SyncOutcome, OwnerPart, Left,
        Waiting, Answered
  <2> QED
    BY <2>2, <2>3 DEF IInv
<1>2. ASSUME NEW t \in Thread, Progress(t) PROVE IInv'
  <2>1. CASE t = Handler /\ Serve
    BY <2>1, GetEventIInv, ProcessEndIInv, WaitForEventIInv, HandleBeginIInv, ReplyIInv
    DEF Serve
  <2>2. CASE \/ PostWrite(t) \/ SyncPost(t) \/ SyncWrite(t) \/ SyncWait(t) \/ SyncWake(t)
             \/ SyncReturn(t)
    BY <2>2, PostWriteIInv, SyncPostIInv, SyncWriteIInv, SyncWaitIInv, SyncWakeIInv,
       SyncReturnIInv
  <2>3. CASE RevokeAsync(t) \/ RevokeSync(t) \/ RevokeNotify(t) \/ RevokeEnd(t)
    BY <2>3, RevokeAsyncIInv, RevokeSyncIInv, RevokeNotifyIInv, RevokeEndIInv
  <2> QED
    BY <1>2, <2>1, <2>2, <2>3 DEF Progress
<1>3. ASSUME NEW t \in Thread, NEW e \in Event,
             Post(t, e) \/ SyncInline(t, e) \/ SyncBegin(t, e)
      PROVE  IInv'
  BY <1>3, PostIInv, SyncInlineIInv, SyncBeginIInv
<1>4. ASSUME NEW t \in Thread, NEW o \in Owner, RevokeBegin(t, o) PROVE IInv'
  BY <1>4, RevokeBeginIInv
<1>5. ASSUME NEW t \in Thread, EnterQueue(t) \/ LeaveQueue(t) \/ PostNull(t) \/ SyncWakeEarly(t)
      PROVE  IInv'
  BY <1>5, EnterQueueIInv, LeaveQueueIInv, PostNullIInv, SyncWakeEarlyIInv
<1>6. CASE \/ ProcessBegin \/ LoopBegin \/ WaitInterrupted \/ HandleEnd
           \/ DestroyUnused \/ CreateQueue
  BY <1>6, ProcessBeginIInv, LoopBeginIInv, WaitInterruptedIInv, HandleEndIInv,
     DestroyUnusedIInv, CreateQueueIInv
<1> QED
  BY <1>1, <1>2, <1>3, <1>4, <1>5, <1>6 DEF Next

--------------------------------------------------------------------------------
(* The theorems.                                                           *)

(* The inductive invariant holds in every state plevent.c can reach.       *)
THEOREM IInvAlways == Spec => []IInv
  BY InitIInv, NextIInv, PTL DEF Spec

(* Every variable keeps its type; notifyCount never goes below zero and    *)
(* the pipe never holds more than its capacity.                            *)
THEOREM TypeCorrect == Spec => []TypeOK
<1>1. IInv => TypeOK
  BY DEF IInv
<1> QED
  BY <1>1, IInvAlways, PTL

(* notifyCount is the number of bytes in the pipe, so that                 *)
(* _pl_AcknowledgeNativeNotify never reads from an empty pipe; and every   *)
(* queued event but the one whose notification is being written has a byte *)
(* of its own, so that select() fires while events wait.  There may be     *)
(* more bytes than events: revocations and NULL posts leave some.          *)
THEOREM TokensAlwaysMatch == Spec => []TokensMatch
<1>1. IInv => TokensMatch
  BY DEF IInv
<1> QED
  BY <1>1, IInvAlways, PTL

(* No event is destroyed twice, and none is queued, in its handler's hands *)
(* or in a pending synchronous post after it was destroyed, whichever of   *)
(* handler, poster, revoker and destroyer of the queue disposes of it --   *)
(* but for the events whose poster has come back with the placeholder.     *)
THEOREM EventLifecycleAlways == Spec => []EventLifecycle
<1>1. IInv => EventLifecycle
  <2> SUFFICES ASSUME IInv, NEW e \in Event, outcome[e] # "TRUE"
               PROVE  /\ freed[e] <= 1
                      /\ freed[e] = 1 => /\ ~Contains(queue, e) /\ cur # e
                                         /\ \A t \in Thread : mine[t] # e
    BY DEF EventLifecycle
  <2>1. queue \in Seq(Event) /\ EventPart
    BY DEF IInv, TypeOK
  <2>2. Contains(queue, e) => e \in Queued
    BY <2>1 DEF Contains, Queued, Items
  <2>3. freed[e] <= 1
    BY <2>1 DEF EventPart, Left
  <2> QED
    BY <2>1, <2>2, <2>3 DEF EventPart, Left
<1> QED
  BY <1>1, IInvAlways, PTL

(* A synchronous post that returns the handler's value has been handled,   *)
(* one that returns NULL has not; and it returns the placeholder PR_TRUE   *)
(* only if its wait has ended early.                                       *)
THEOREM SyncOutcomeAlways == Spec => []SyncOutcome
<1>1. IInv => SyncOutcome
  BY DEF IInv
<1> QED
  BY <1>1, IInvAlways, PTL

(* After PL_RevokeEvents none of the owner's events is in the queue, and   *)
(* none reaches a handler if the handler thread was the one to revoke.     *)
THEOREM RevokedAlwaysGone == Spec => []RevokedByHandler
<1>1. IInv => RevokedByHandler
  <2> SUFFICES ASSUME IInv PROVE RevokedByHandler
    OBVIOUS
  <2>1. \A i \in DOMAIN queue : queue[i] \in Event /\ queue[i] \in Queued
    BY DEF IInv, TypeOK, Queued, Items
  <2> QED
    BY <2>1 DEF IInv, OwnerPart, RevokedByHandler
<1> QED
  BY <1>1, IInvAlways, PTL
================================================================================
