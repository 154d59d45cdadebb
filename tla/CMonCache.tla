------------------------------- MODULE CMonCache -------------------------------
(***************************************************************************)
(* Cached monitors: nsprpub/pr/src/threads/prcmon.c lends system monitors  *)
(* to addresses.  An entry is bound to an address while somebody uses it   *)
(* (cacheEntryCount) and goes back to the free list with the last          *)
(* PR_CExitMonitor; the table grows when free entries run low.             *)
(*                                                                         *)
(* Everything done under _pr_mcacheLock is one step; the system monitor is *)
(* used after that lock has been dropped, so it is a step of its own.  The *)
(* monitors keep the promise of AbstractMonitor, which PtMonitor proves of *)
(* ptsynch.c.                                                              *)
(***************************************************************************)
EXTENDS Integers, Sequences, FiniteSets

CONSTANTS Thread, NoThread,
          Addr,           \* the addresses monitors are wanted for
          InitLog,        \* ExpandMonitorCache(InitLog) at start: 3 in the code
          FREE_THRESHOLD, \* 5 in the code
          MaxEntries,     \* bound: memory for this many cache entries
          MaxDepth        \* bound on the nesting of one thread at one address

ASSUME CacheAssumption ==
  /\ IsFiniteSet(Thread) /\ NoThread \notin Thread /\ Addr \subseteq Nat \ {0}
  /\ InitLog \in Nat /\ FREE_THRESHOLD \in Nat \ {0}
  /\ MaxEntries \in Nat /\ 2^InitLog <= MaxEntries /\ MaxDepth \in Nat \ {0}

VARIABLES
  made,     \* entries 1..made have been allocated
  address,  \* p->address, 0 when free
  bucket,   \* the hash chain p is linked into, NoBucket when free
  count,    \* p->cacheEntryCount
  free,     \* free_entries, a stack
  numFree,  \* num_free_entries
  log,      \* num_hash_buckets_log2
  holder,   \* who is inside p->mon
  depth,    \* how often it has entered
  pc,       \* where each thread is
  call,     \* the address of the call in progress (or of the wait)
  mon,      \* the entry whose PRMonitor that call has fetched
  saved     \* the depth a waiting thread will resume with

cache == <<made, address, bucket, count, free, numFree, log>>
vars == <<cache, holder, depth, pc, call, mon, saved>>

Entry == 1..MaxEntries
NoBucket == -1

(* HASH: some bits of the address, under a mask one bucket table wide.     *)
Hash(a, size) == a % 2^size

(* The chain that is searched for an address, by the present mask.         *)
Chain(a) == {e \in 1..made : bucket[e] = Hash(a, log)}
Bound(a) == {e \in Chain(a) : address[e] = a}
(* LookupMonitorCacheEntry                                                 *)
Lookup(a) == {e \in Bound(a) : count[e] > 0}

Stack(lo, hi) == [i \in 1..(hi - lo + 1) |-> lo + i - 1]

(* _PR_InitCMon                                                            *)
Init ==
  /\ made = 2^InitLog /\ log = InitLog
  /\ free = Stack(1, made) /\ numFree = made
  /\ address = [e \in Entry |-> 0] /\ bucket = [e \in Entry |-> NoBucket]
  /\ count = [e \in Entry |-> 0]
  /\ holder = [e \in Entry |-> NoThread] /\ depth = [e \in Entry |-> 0]
  /\ pc = [t \in Thread |-> "idle"]
  /\ call = [t \in Thread |-> 0] /\ mon = [t \in Thread |-> 0]
  /\ saved = [t \in Thread |-> 0]

--------------------------------------------------------------------------------
(* The clients                                                             *)
Inside(t, a) == \E e \in Lookup(a) : holder[e] = t
(* A client nests addresses in one order, so that threads do not wait for  *)
(* each other in a circle, and waits in the innermost monitor only.        *)
Innermost(t, a) == \A b \in Addr : Inside(t, b) => b <= a
MayEnter(t, a) ==
  /\ pc[t] = "idle" /\ Innermost(t, a)
  /\ \A e \in Bound(a) : holder[e] = t => depth[e] < MaxDepth

Fetch(t, a, e, to) ==
  /\ call' = [call EXCEPT ![t] = a]
  /\ mon' = [mon EXCEPT ![t] = e]
  /\ pc' = [pc EXCEPT ![t] = to]
  /\ UNCHANGED <<holder, depth, saved>>

(* The call returns: its local variables are gone.                         *)
Done(t) == call' = [call EXCEPT ![t] = 0] /\ mon' = [mon EXCEPT ![t] = 0]

(***************************************************************************)
(* PR_CEnterMonitor, with the cache lock: CreateMonitor                    *)
(***************************************************************************)
CreateFound(t, a) ==
  /\ MayEnter(t, a)
  /\ \E e \in Bound(a) :
       /\ count' = [count EXCEPT ![e] = @ + 1]
       /\ Fetch(t, a, e, "entering")
  /\ UNCHANGED <<made, address, bucket, free, numFree, log>>

(* "Make a new monitor": p = free_entries, linked into its hash chain.      *)
Take(t, a, e, table, size) ==
  /\ address' = [address EXCEPT ![e] = a]
  /\ bucket' = [table EXCEPT ![e] = Hash(a, size)]
  /\ count' = [count EXCEPT ![e] = @ + 1]
  /\ Fetch(t, a, e, "entering")

CreateNew(t, a) ==
  /\ MayEnter(t, a) /\ Bound(a) = {}
  /\ numFree >= FREE_THRESHOLD
  /\ Take(t, a, Head(free), bucket, log)
  /\ free' = Tail(free) /\ numFree' = numFree - 1
  /\ UNCHANGED <<made, log>>

(* ExpandMonitorCache: all entries hashed anew for a table of 2^size.      *)
Rehash(size) ==
  [e \in Entry |-> IF bucket[e] = NoBucket THEN NoBucket ELSE Hash(address[e], size)]

(* Mutants: the entry is hashed for the table of before; more entries are  *)
(* counted than could be allocated.                                        *)
CreateExpandedOldHash(t, a) ==
  /\ MayEnter(t, a) /\ Bound(a) = {}
  /\ numFree < FREE_THRESHOLD
  /\ \E added \in 1..2^(log + 1), grown \in BOOLEAN :
       LET size == IF grown THEN log + 1 ELSE log
           table == IF grown THEN Rehash(size) ELSE bucket
       IN /\ made + added <= MaxEntries
          /\ made' = made + added /\ log' = size
          /\ Take(t, a, made + 1, table, log)
          /\ free' = Stack(made + 2, made + added) \o free
          /\ numFree' = numFree + added - 1

CreateExpandedOvercount(t, a) ==
  /\ MayEnter(t, a) /\ Bound(a) = {}
  /\ numFree < FREE_THRESHOLD
  /\ \E added \in 1..2^(log + 1), grown \in BOOLEAN :
       LET size == IF grown THEN log + 1 ELSE log
           table == IF grown THEN Rehash(size) ELSE bucket
       IN /\ made + added <= MaxEntries
          /\ made' = made + added /\ log' = size
          /\ Take(t, a, made + 1, table, size)
          /\ free' = Stack(made + 2, made + added) \o free
          /\ numFree' = numFree + 2^(log + 1) - 1

(* Few entries are free: allocate as many as the next table would have     *)
(* buckets -- or fewer, when the system runs out of monitors -- and grow   *)
(* the table, unless there is no memory for that.  The call returns NULL   *)
(* and changes nothing when not even one entry can be had.                 *)
CreateExpanded(t, a) ==
  /\ MayEnter(t, a) /\ Bound(a) = {}
  /\ numFree < FREE_THRESHOLD
  /\ \E added \in 1..2^(log + 1), grown \in BOOLEAN :
       LET size == IF grown THEN log + 1 ELSE log
           table == IF grown THEN Rehash(size) ELSE bucket
       IN /\ made + added <= MaxEntries
          /\ made' = made + added /\ log' = size
          /\ Take(t, a, made + 1, table, size)
          /\ free' = Stack(made + 2, made + added) \o free
          /\ numFree' = numFree + added - 1

(* The rest of PR_CEnterMonitor, without the cache lock: PR_EnterMonitor.  *)
EnterMonitor(t) ==
  /\ pc[t] = "entering" /\ holder[mon[t]] \in {NoThread, t}
  /\ holder' = [holder EXCEPT ![mon[t]] = t]
  /\ depth' = [depth EXCEPT ![mon[t]] = @ + 1]
  /\ pc' = [pc EXCEPT ![t] = "idle"] /\ Done(t)
  /\ UNCHANGED <<cache, saved>>

(***************************************************************************)
(* PR_CExitMonitor: all of it, PR_ExitMonitor included, with the cache     *)
(* lock held.                                                              *)
(***************************************************************************)
Leave(e) ==
  /\ depth' = [depth EXCEPT ![e] = @ - 1]
  /\ holder' = [holder EXCEPT ![e] = IF depth[e] = 1 THEN NoThread ELSE @]
  /\ UNCHANGED <<made, log, pc, call, mon, saved>>

CExitUsed(t, a) ==
  /\ pc[t] = "idle" /\ Inside(t, a)
  /\ \E e \in Lookup(a) :
       /\ count[e] > 1
       /\ count' = [count EXCEPT ![e] = @ - 1]
       /\ Leave(e)
  /\ UNCHANGED <<address, bucket, free, numFree>>

(* Mutant: the entry goes when the caller's own nesting ends, whoever else *)
(* may be using it.                                                        *)
CExitFreeByDepth(t, a) ==
  /\ pc[t] = "idle" /\ Inside(t, a)
  /\ \E e \in Lookup(a) :
       /\ depth[e] = 1
       /\ count' = [count EXCEPT ![e] = 0]
       /\ address' = [address EXCEPT ![e] = 0]
       /\ bucket' = [bucket EXCEPT ![e] = NoBucket]
       /\ free' = <<e>> \o free /\ numFree' = numFree + 1
       /\ Leave(e)

CExitFree(t, a) ==
  /\ pc[t] = "idle" /\ Inside(t, a)
  /\ \E e \in Lookup(a) :
       /\ count[e] = 1
       /\ count' = [count EXCEPT ![e] = 0]
       /\ address' = [address EXCEPT ![e] = 0]
       /\ bucket' = [bucket EXCEPT ![e] = NoBucket]
       /\ free' = <<e>> \o free /\ numFree' = numFree + 1
       /\ Leave(e)

(***************************************************************************)
(* PR_CWait, PR_CNotify, PR_CNotifyAll: the monitor is looked up with the  *)
(* cache lock and used without it.                                         *)
(***************************************************************************)
CLookup(t, a, to) ==
  /\ pc[t] = "idle" /\ Inside(t, a)
  /\ to = "towait" => Innermost(t, a)
  /\ \E e \in Lookup(a) : Fetch(t, a, e, to)
  /\ UNCHANGED cache

(* Mutant: a wait drops the references to the cache entry with the monitor.*)
WaitDropsCount(t) ==
  /\ pc[t] = "towait"
  /\ saved' = [saved EXCEPT ![t] = depth[mon[t]]]
  /\ depth' = [depth EXCEPT ![mon[t]] = 0]
  /\ count' = [count EXCEPT ![mon[t]] = @ - depth[mon[t]]]
  /\ holder' = [holder EXCEPT ![mon[t]] = NoThread]
  /\ pc' = [pc EXCEPT ![t] = "waiting"]
  /\ UNCHANGED <<made, address, bucket, free, numFree, log, call, mon>>

Wait(t) ==
  /\ pc[t] = "towait"
  /\ saved' = [saved EXCEPT ![t] = depth[mon[t]]]
  /\ depth' = [depth EXCEPT ![mon[t]] = 0]
  /\ holder' = [holder EXCEPT ![mon[t]] = NoThread]
  /\ pc' = [pc EXCEPT ![t] = "waiting"]
  /\ UNCHANGED <<cache, call, mon>>

WaitersOn(e) == {t \in Thread : pc[t] = "waiting" /\ mon[t] = e}

(* PR_Notify and PR_NotifyAll end some wait on the monitor, or all of them.*)
Wake(t, woken) ==
  /\ pc' = [u \in Thread |-> IF u = t THEN "idle"
                             ELSE IF u \in woken THEN "woken" ELSE pc[u]]
  /\ Done(t)
  /\ UNCHANGED <<cache, holder, depth, saved>>

Notify(t) ==
  /\ pc[t] = "tonotify"
  /\ \/ WaitersOn(mon[t]) = {} /\ Wake(t, {})
     \/ \E u \in WaitersOn(mon[t]) : Wake(t, {u})

NotifyAll(t) == pc[t] = "tonotifyall" /\ Wake(t, WaitersOn(mon[t]))

WaitTimeout(t) ==
  /\ pc[t] = "waiting"
  /\ pc' = [pc EXCEPT ![t] = "woken"]
  /\ UNCHANGED <<cache, holder, depth, call, mon, saved>>

WaitReturn(t) ==
  /\ pc[t] = "woken" /\ holder[mon[t]] = NoThread
  /\ holder' = [holder EXCEPT ![mon[t]] = t]
  /\ depth' = [depth EXCEPT ![mon[t]] = saved[t]]
  /\ saved' = [saved EXCEPT ![t] = 0]
  /\ pc' = [pc EXCEPT ![t] = "idle"] /\ Done(t)
  /\ UNCHANGED cache

Next ==
  \E t \in Thread :
    \/ \E a \in Addr :
         \/ CreateFound(t, a) \/ CreateNew(t, a) \/ CreateExpanded(t, a)
         \/ CExitUsed(t, a) \/ CExitFree(t, a)
         \/ CLookup(t, a, "towait")
         \/ CLookup(t, a, "tonotify") \/ CLookup(t, a, "tonotifyall")
    \/ EnterMonitor(t) \/ Wait(t) \/ Notify(t) \/ NotifyAll(t)
    \/ WaitTimeout(t) \/ WaitReturn(t)

Spec == Init /\ [][Next]_vars

--------------------------------------------------------------------------------
Pcs == {"idle", "entering", "towait", "tonotify", "tonotifyall", "waiting", "woken"}

(* Every variable has its type; num_free_entries stays within the entries  *)
(* there are.                                                              *)
TypeOK ==
  /\ made \in Entry /\ log \in Nat /\ numFree \in 0..made
  /\ address \in [Entry -> Addr \cup {0}]
  /\ bucket \in [Entry -> {NoBucket} \cup (0..(2^log - 1))]
  /\ count \in [Entry -> Nat]
  /\ free \in Seq(Entry)
  /\ holder \in [Entry -> Thread \cup {NoThread}] /\ depth \in [Entry -> Nat]
  /\ pc \in [Thread -> Pcs] /\ call \in [Thread -> Addr \cup {0}]
  /\ mon \in [Thread -> 0..MaxEntries] /\ saved \in [Thread -> Nat]

Waiting(t) == pc[t] \in {"waiting", "woken"}
Using(e) == {t \in Thread : mon[t] = e /\ (pc[t] = "entering" \/ Waiting(t))}

Owes == [t \in Thread |-> IF pc[t] = "entering" THEN 1 ELSE saved[t]]

(* The sum of w[t] over the threads in U, counted as pairs <<t, i>> with   *)
(* i in 1..w[t].                                                           *)
Total(U, w) == Cardinality(UNION {{t} \X (1..w[t]) : t \in U})

(* cacheEntryCount is exactly the PR_CExitMonitor calls still owed for the *)
(* entry: by the thread inside, by those on their way in after the cache   *)
(* lock was dropped, and by those that gave the monitor up in PR_CWait.    *)
CountsUses ==
  \A e \in Entry : count[e] = depth[e] + Total(Using(e), Owes)

(* Two threads that use one address always meet in one monitor, the one a  *)
(* lookup finds now -- across rehashing, and however long the thread has   *)
(* had its pointer -- and two addresses never share one.                   *)
SameMonitor ==
  /\ \A t \in Thread : pc[t] # "idle" => Lookup(call[t]) = {mon[t]}
  /\ \A e \in Entry : holder[e] # NoThread => Lookup(address[e]) = {e}

(* Entries are never lost or handed out twice: each allocated entry is on  *)
(* the free list or bound, never both; the list has no repetition and its  *)
(* length is num_free_entries, which decides when the cache grows.         *)
FreeListSound ==
  LET onList == {free[i] : i \in DOMAIN free} IN
    /\ numFree = Len(free) /\ Cardinality(onList) = Len(free)
    /\ \A e \in 1..made : e \in onList <=> address[e] = 0
    /\ \A e \in onList : count[e] = 0 /\ bucket[e] = NoBucket

(* Seen through its address, a cached monitor is a monitor: the cache may  *)
(* bind, recycle and rehash entries, yet each address has the exclusion,   *)
(* the re-entry and the waits that prmon.h promises of a PRMonitor.        *)
HolderOf(a) == LET in == {t \in Thread : Inside(t, a)} IN
               IF in = {} THEN NoThread ELSE CHOOSE t \in in : TRUE
WaitingFor(a) == {t \in Thread : Waiting(t) /\ call[t] = a}
DepthAt(a) == [t \in Thread |->
  IF t \in WaitingFor(a) THEN saved[t]
  ELSE IF Inside(t, a) THEN depth[CHOOSE e \in Lookup(a) : TRUE] ELSE 0]
At(a) == INSTANCE AbstractMonitor
           WITH alive <- TRUE, holder <- HolderOf(a), depth <- DepthAt(a),
                waiting <- WaitingFor(a)
CachedMonitorContract ==
  /\ \A a \in Addr : At(a)!AInit
  /\ [][\A a \in Addr : [At(a)!ANext]_<<HolderOf(a), DepthAt(a), WaitingFor(a)>>]_vars
================================================================================
