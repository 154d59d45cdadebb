-------------------------------- MODULE MemCache --------------------------------
(***************************************************************************)
(* The memory cache of the network library (network/cache/mkmemcac.c).     *)
(* A copy of a document is put into the cache when its transfer begins, is *)
(* found and read by others at once, although they are made to wait until  *)
(* it is complete, and is freed when it is replaced, aborted or evicted -- *)
(* or later, by the last reader or the writer, when it is marked delete_me.*)
(*                                                                         *)
(* There is one thread.  Completing a copy completes the next stream, too, *)
(* which may call the cache again: `stack' holds the copies whose next     *)
(* stream is being completed.  A reduction of the cache is done in one     *)
(* stay, whose evictions are separate steps here.                          *)
(*                                                                         *)
(* Left out: documents of known length, and the flag current_page_only,    *)
(* which makes a look-up fail.                                             *)
(***************************************************************************)
EXTENDS Integers, FiniteSetsExt, SequencesExt

CONSTANTS
  Copy,       \* net_MemoryCacheObjects, each made once
  Key, KeyOf, \* address, method and post data of each copy
  MustCache,  \* copies of URLs with must_cache
  Reader, None,
  Limits,     \* values of net_MaxMemoryCacheSize, in segments
  MaxSize,    \* bound on the segments of each copy
  MaxLocks,   \* bound on external locks of a copy
  MaxFaults,  \* bound on lack of memory and failing streams
  MaxDepth    \* bound on completions within completions

ASSUME CopyAssumption ==
  /\ IsFiniteSet(Copy) /\ KeyOf \in [Copy -> Key] /\ MustCache \subseteq Copy
  /\ None \notin Copy /\ MaxSize \in [Copy -> Nat \ {0}]
ASSUME BoundAssumption ==
  /\ Limits \subseteq Nat /\ Limits # {}
  /\ IsFiniteSet(Reader) /\ MaxLocks \in Nat /\ MaxFaults \in Nat /\ MaxDepth \in Nat \ {0}

VARIABLES
  copy,      \* the fields of each copy
  kept,      \* copies in memory
  hash,      \* net_MemoryCacheHashList: the copy found for each key
  list,      \* net_MemoryCacheList, last accessed first
  size,      \* net_MemoryCacheSize
  limit,     \* net_MaxMemoryCacheSize
  writer,    \* what the stream that writes each copy has done
  stack,     \* completions in progress
  reducing,  \* net_ReduceMemoryCacheTo is evicting
  reading,   \* the copy each reader reads
  orphans,   \* copies their writer has let go for lack of memory
  leaks,     \* copies with a read lock that nobody will release
  damaged,   \* a copy was deleted through a pointer to one already freed
  faults     \* faults so far

store == <<copy, kept, hash, list, size>>
users == <<writer, stack, reading>>
notes == <<orphans, leaks, damaged, faults>>
vars == <<store, limit, users, reducing, notes>>

(* mem_read_lock, external_locks, the flags, the number of segments, and   *)
(* whether no block of the document is missing.                            *)
Blank == [readLock |-> 0, locks |-> 0, completed |-> FALSE, aborted |-> FALSE,
          deleteMe |-> FALSE, segments |-> 0, whole |-> TRUE]

Init ==
  /\ copy = [c \in Copy |-> Blank] /\ kept = {}
  /\ hash = [k \in Key |-> None] /\ list = <<>> /\ size = 0 /\ limit \in Limits
  /\ writer = [c \in Copy |-> "none"] /\ stack = <<>> /\ reducing = FALSE
  /\ reading = [r \in Reader |-> None]
  /\ orphans = {} /\ leaks = {} /\ damaged = FALSE /\ faults = 0

Fault == faults < MaxFaults /\ faults' = faults + 1
Client == ~reducing \* the main loop, or a stream that is being completed
Occupied(S) == Cardinality(UNION {{c} \X (1..copy[c].segments) : c \in S})
With(c, rec) == copy' = [copy EXCEPT ![c] = rec]

--------------------------------------------------------------------------------
(* net_FreeMemoryCopy of c, whose fields are rec, when the list is l.  A   *)
(* copy that is read or written is only marked; the hash list loses the    *)
(* copy of that key, whichever it is.  Mutant: readers are not regarded.   *)
Unhash(c) == hash' = [hash EXCEPT ![KeyOf[c]] = None]

FreeUnread(c, rec, l) ==
  LET later == ~rec.aborted /\ ~rec.completed IN
  /\ Unhash(c)
  /\ With(c, IF later THEN [rec EXCEPT !.deleteMe = TRUE] ELSE Blank)
  /\ kept' = IF later THEN kept ELSE kept \ {c}
  /\ list' = IF later THEN l ELSE RemoveFirst(l, c)
  /\ size' = IF later THEN size ELSE size - rec.segments

FreeMemoryCopy(c, rec, l) ==
  LET later == ~(rec.readLock = 0 /\ rec.aborted)
               /\ (rec.readLock > 0 \/ ~rec.completed)
  IN
  /\ Unhash(c)
  /\ With(c, IF later THEN [rec EXCEPT !.deleteMe = TRUE] ELSE Blank)
  /\ kept' = IF later THEN kept ELSE kept \ {c}
  /\ list' = IF later THEN l ELSE RemoveFirst(l, c)
  /\ size' = IF later THEN size ELSE size - rec.segments

--------------------------------------------------------------------------------
(* NET_MemCacheConverter makes a copy with a first segment, and            *)
(* net_MemCacheAddObjectToCache puts it in front of the list and into the  *)
(* hash list.                                                              *)
NewCopy(c, rec) ==
  /\ Client /\ writer[c] = "none" /\ (limit > 0 \/ c \in MustCache)
  /\ copy' = [d \in Copy |-> IF d = c THEN [rec EXCEPT !.segments = 1]
                             ELSE IF d \in kept' THEN copy[d] ELSE Blank]

Duplicate(c) == {d \in Copy : hash[KeyOf[c]] = d}
Idle == {d \in kept : copy[d].readLock = 0 /\ copy[d].completed}

(* Nothing is there for its key, or a copy nobody uses, which is freed.    *)
ConverterAdds(c) ==
  /\ Duplicate(c) \subseteq Idle
  /\ kept' = (kept \ Duplicate(c)) \cup {c} /\ NewCopy(c, Blank)
  /\ hash' = [hash EXCEPT ![KeyOf[c]] = c]
  /\ list' = <<c>> \o RemoveFirst(list, hash[KeyOf[c]])
  /\ size' = size + 1 - Occupied(Duplicate(c))
  /\ writer' = [writer EXCEPT ![c] = "writing"]
  /\ UNCHANGED <<limit, stack, reading, reducing, notes>>

(* A copy is there that is read or written: the new one is to be deleted,  *)
(* and the old one is not found any more.  Mutant: the new one is found.   *)
ConverterDuplicateFound(c) ==
  /\ ~(Duplicate(c) \subseteq Idle)
  /\ kept' = kept \cup {c} /\ NewCopy(c, [Blank EXCEPT !.deleteMe = TRUE])
  /\ hash' = [hash EXCEPT ![KeyOf[c]] = c]
  /\ list' = <<c>> \o list /\ size' = size + 1
  /\ writer' = [writer EXCEPT ![c] = "writing"]
  /\ UNCHANGED <<limit, stack, reading, reducing, notes>>

ConverterDuplicate(c) ==
  /\ ~(Duplicate(c) \subseteq Idle)
  /\ kept' = kept \cup {c} /\ NewCopy(c, [Blank EXCEPT !.deleteMe = TRUE])
  /\ Unhash(c)
  /\ list' = <<c>> \o list /\ size' = size + 1
  /\ writer' = [writer EXCEPT ![c] = "writing"]
  /\ UNCHANGED <<limit, stack, reading, reducing, notes>>

(* No memory for the stream: net_FreeMemoryCopy only marks the copy.       *)
ConverterFails(c) ==
  /\ Fault
  /\ kept' = kept \cup {c} /\ NewCopy(c, [Blank EXCEPT !.deleteMe = TRUE])
  /\ Unhash(c) /\ size' = size + 1 /\ orphans' = orphans \cup {c}
  /\ writer' = [writer EXCEPT ![c] = "done"]
  /\ UNCHANGED <<list, limit, stack, reading, reducing, leaks, damaged>>

(* net_MemCacheWrite of a block that needs a new segment.                  *)
Write(c) ==
  /\ Client /\ writer[c] = "writing"
  /\ IF copy[c].deleteMe
     THEN With(c, [copy[c] EXCEPT !.whole = FALSE]) /\ UNCHANGED size
     ELSE /\ copy[c].segments < MaxSize[c]
          /\ With(c, [copy[c] EXCEPT !.segments = @ + 1]) /\ size' = size + 1
  /\ UNCHANGED <<kept, hash, list, limit, users, reducing, notes>>

(* No memory for it: the stream goes on without its copy.                  *)
WriteFails(c) ==
  /\ Client /\ writer[c] = "writing" /\ ~copy[c].deleteMe /\ Fault
  /\ FreeMemoryCopy(c, copy[c], list)
  /\ writer' = [writer EXCEPT ![c] = "lost"] /\ orphans' = orphans \cup {c}
  /\ UNCHANGED <<limit, stack, reading, reducing, leaks, damaged>>

(* net_MemCacheComplete, up to and from the completion of the next stream. *)
CompleteBegin(c) ==
  /\ Client /\ writer[c] \in {"writing", "lost"} /\ Len(stack) < MaxDepth
  /\ With(c, [copy[c] EXCEPT !.completed = @ \/ writer[c] = "writing"])
  /\ writer' = [writer EXCEPT ![c] = "completing"] /\ stack' = <<c>> \o stack
  /\ UNCHANGED <<kept, hash, list, size, limit, reading, reducing, notes>>

(* When the copy has gone meanwhile, what the stream reads in it is         *)
(* arbitrary: it is left alone, or deleted again, or what is there now.    *)
CompleteEnd(c) ==
  /\ Client /\ stack # <<>> /\ Head(stack) = c
  /\ IF c \in kept \ orphans /\ copy[c].deleteMe /\ copy[c].readLock = 0
     THEN FreeMemoryCopy(c, copy[c], list) ELSE UNCHANGED store
  /\ damaged' \in IF c \in kept \cup orphans THEN {damaged} ELSE {damaged, TRUE}
  /\ writer' = [writer EXCEPT ![c] = "done"] /\ stack' = Tail(stack)
  /\ reducing' = TRUE
  /\ UNCHANGED <<limit, reading, orphans, leaks, faults>>

(* net_MemCacheAbort.  Mutant: the copy is not marked aborted.             *)
AbortUnmarked(c) ==
  /\ Client /\ writer[c] = "writing"
  /\ FreeMemoryCopy(c, copy[c], list)
  /\ writer' = [writer EXCEPT ![c] = "done"]
  /\ UNCHANGED <<limit, stack, reading, reducing, notes>>

Abort(c) ==
  /\ Client /\ writer[c] = "writing"
  /\ FreeMemoryCopy(c, [copy[c] EXCEPT !.aborted = TRUE], list)
  /\ writer' = [writer EXCEPT ![c] = "done"]
  /\ UNCHANGED <<limit, stack, reading, reducing, notes>>

--------------------------------------------------------------------------------
(* NET_FindURLInMemCache and net_MemoryCacheLoad: the copy becomes the     *)
(* last accessed one and gets a read lock.                                 *)
Found(k, c) ==
  /\ Client /\ hash[k] = c
  /\ list' = <<c>> \o RemoveFirst(list, c)
  /\ With(c, [copy[c] EXCEPT !.readLock = @ + 1])
  /\ UNCHANGED <<kept, hash, size, limit, writer, stack, reducing, orphans, damaged>>

Load(r, k) ==
  \E c \in Copy :
    /\ Found(k, c) /\ reading[r] = None
    /\ reading' = [reading EXCEPT ![r] = c]
    /\ UNCHANGED <<leaks, faults>>

(* There is no stream for it, no memory, or the stream refuses the first   *)
(* block: the lock is left.                                                *)
LoadFails(k) ==
  \E c \in Copy :
    Found(k, c) /\ Fault /\ leaks' = leaks \cup {c} /\ UNCHANGED reading

(* A reader lets go: mem_read_lock goes down, and the last one frees a     *)
(* copy that is marked.  Mutant: it does not.                              *)
ReleaseKeeps(r, c) ==
  /\ Client /\ reading[r] = c /\ reading' = [reading EXCEPT ![r] = None]
  /\ With(c, [copy[c] EXCEPT !.readLock = @ - 1])
  /\ UNCHANGED <<kept, hash, list, size, limit, writer, stack, reducing, notes>>

Release(r, c) ==
  /\ Client /\ reading[r] = c /\ reading' = [reading EXCEPT ![r] = None]
  /\ LET rec == [copy[c] EXCEPT !.readLock = @ - 1] IN
     IF rec.deleteMe /\ rec.readLock = 0
     THEN FreeMemoryCopy(c, rec, list)
     ELSE With(c, rec) /\ UNCHANGED <<kept, hash, list, size>>
  /\ UNCHANGED <<limit, writer, stack, reducing, notes>>

(* net_ProcessMemoryCache waits until the copy is complete, or aborted,    *)
(* passes its segments on to the end, and lets go.                         *)
Ready(c) == copy[c].completed \/ (copy[c].aborted /\ copy[c].deleteMe)
ProcessEnds(r) == \E c \in Copy : Ready(c) /\ Release(r, c)

(* The stream refuses a block: the load ends, and the lock is left.        *)
ProcessFails(r) ==
  \E c \in Copy :
    /\ Client /\ reading[r] = c /\ copy[c].completed /\ Fault
    /\ reading' = [reading EXCEPT ![r] = None] /\ leaks' = leaks \cup {c}
    /\ UNCHANGED <<store, limit, writer, stack, reducing, orphans, damaged>>

(* net_InterruptMemoryCache.                                               *)
Interrupt(r) == \E c \in Copy : Release(r, c)

--------------------------------------------------------------------------------
(* NET_ChangeMemCacheLock, by key.                                         *)
ChangeMemCacheLock(k, set) ==
  \E c \in Copy :
    /\ Client /\ hash[k] = c /\ copy[c].completed
    /\ IF set THEN copy[c].locks < MaxLocks ELSE copy[c].locks > 0
    /\ With(c, [copy[c] EXCEPT !.locks = IF set THEN @ + 1 ELSE @ - 1])
    /\ UNCHANGED <<kept, hash, list, size, limit, users, reducing, notes>>

(* NET_RemoveURLFromMemCache.                                              *)
RemoveURL(k) ==
  \E c \in Idle :
    /\ Client /\ hash[k] = c /\ FreeMemoryCopy(c, copy[c], list)
    /\ UNCHANGED <<limit, users, reducing, notes>>

(* NET_SetMemoryCacheSize.                                                 *)
SetMemoryCacheSize(n) ==
  /\ Client /\ n # limit
  /\ limit' = n /\ reducing' = TRUE
  /\ UNCHANGED <<store, users, notes>>

(* net_ReduceMemoryCacheTo and net_remove_last_memory_cache_object: the    *)
(* least recently accessed copy that is complete and has no external lock  *)
(* is taken off the list, and those passed over are put in front.          *)
(* Mutant: they are forgotten.                                             *)
Evictable(c) == copy[c].completed /\ copy[c].locks = 0
Victims == {i \in DOMAIN list : Evictable(list[i])}
Over == size > limit

EvictForgets ==
  /\ reducing /\ Over /\ Victims # {}
  /\ LET i == Max(Victims) IN
       FreeMemoryCopy(list[i], copy[list[i]], SubSeq(list, 1, i - 1))
  /\ UNCHANGED <<limit, users, reducing, notes>>

EvictLast ==
  LET i == Max(Victims) IN
    FreeMemoryCopy(list[i], copy[list[i]],
      Reverse(SubSeq(list, i + 1, Len(list))) \o SubSeq(list, 1, i - 1))

Evict ==
  /\ reducing /\ Over /\ Victims # {} /\ EvictLast
  /\ UNCHANGED <<limit, users, reducing, notes>>

ReduceEnd ==
  /\ reducing /\ (Over => Victims = {}) /\ reducing' = FALSE
  /\ list' = IF Over THEN Reverse(list) ELSE list
  /\ UNCHANGED <<copy, kept, hash, size, limit, users, notes>>

(* NET_RemoveLastMemoryCacheObject, whatever the limit.                    *)
RemoveLast ==
  /\ Client /\ Victims # {} /\ EvictLast
  /\ UNCHANGED <<limit, users, reducing, notes>>

RemoveNone ==
  /\ Client /\ Victims = {} /\ list' = Reverse(list)
  /\ UNCHANGED <<copy, kept, hash, size, limit, users, reducing, notes>>

--------------------------------------------------------------------------------
Next ==
  \/ \E c \in Copy :
       \/ ConverterAdds(c) \/ ConverterDuplicate(c) \/ ConverterFails(c)
       \/ Write(c) \/ WriteFails(c)
       \/ CompleteBegin(c) \/ CompleteEnd(c) \/ Abort(c)
  \/ \E r \in Reader :
       \/ \E k \in Key : Load(r, k)
       \/ ProcessEnds(r) \/ ProcessFails(r) \/ Interrupt(r)
  \/ \E k \in Key :
       \/ LoadFails(k) \/ RemoveURL(k)
       \/ \E set \in BOOLEAN : ChangeMemCacheLock(k, set)
  \/ \E n \in Limits : SetMemoryCacheSize(n)
  \/ Evict \/ ReduceEnd \/ RemoveLast \/ RemoveNone

Spec == Init /\ [][Next]_vars

(* Fairness: transfers end, well or not; the main loop comes back to every *)
(* load from the cache; the library goes on with a call it is in.          *)
Fairness ==
  /\ WF_vars(Evict \/ ReduceEnd) /\ WF_vars(\E c \in Copy : CompleteEnd(c))
  /\ \A c \in Copy : SF_vars(CompleteBegin(c) \/ Abort(c))
  /\ \A r \in Reader : SF_vars(ProcessEnds(r))
FairSpec == Spec /\ Fairness

--------------------------------------------------------------------------------
TypeOK ==
  /\ copy \in [Copy -> [readLock : Nat, locks : 0..MaxLocks, completed : BOOLEAN,
                        aborted : BOOLEAN, deleteMe : BOOLEAN,
                        segments : Nat, whole : BOOLEAN]]
  /\ kept \subseteq Copy /\ hash \in [Key -> Copy \cup {None}] /\ list \in Seq(Copy)
  /\ size \in Nat /\ limit \in Limits
  /\ writer \in [Copy -> {"none", "writing", "lost", "completing", "done"}]
  /\ stack \in Seq(Copy) /\ Len(stack) <= MaxDepth /\ reducing \in BOOLEAN
  /\ reading \in [Reader -> Copy \cup {None}]
  /\ orphans \subseteq Copy /\ leaks \subseteq Copy /\ damaged \in BOOLEAN
  /\ faults \in 0..MaxFaults

(* A copy is in memory as long as anybody may come back to it -- a reader, *)
(* the stream that is writing it, the list, the hash list -- whatever was  *)
(* added, aborted and evicted meanwhile; and a reader that need not wait   *)
(* any more has the whole document before it.  (A stream that is being     *)
(* completed may lose its copy, which counts as complete.  Nothing is said *)
(* once it has deleted a copy that it had lost.)                           *)
InUseKept ==
  damaged \/
  /\ \A c \in Copy : writer[c] = "writing" => c \in kept
  /\ \A r \in Reader : reading[r] # None =>
       /\ reading[r] \in kept
       /\ copy[reading[r]].completed => copy[reading[r]].whole
  /\ \A k \in Key : hash[k] # None =>
       hash[k] \in kept /\ ~copy[hash[k]].deleteMe /\ KeyOf[hash[k]] = k
  /\ ToSet(list) \subseteq kept /\ IsInjective(list)

(* A copy that is marked delete_me, and so is found by nobody, has someone *)
(* left to free it: a reader, or the stream that writes it.  Otherwise it  *)
(* has been orphaned for lack of memory, or a lock was left on it.         *)
Reclaimed ==
  damaged \/ \A c \in kept : copy[c].deleteMe =>
    \/ writer[c] \in {"writing", "completing"}
    \/ \E r \in Reader : reading[r] = c
    \/ c \in orphans \cup leaks

(* A reduction evicts only while the segments in memory exceed the limit,  *)
(* and it ends with them within the limit, or with nothing left but copies *)
(* that are written, read or locked, or were orphaned.                     *)
Pinned(c) == ~copy[c].completed \/ copy[c].readLock > 0 \/ copy[c].locks > 0
LimitRestored ==
  [][\/ damaged
     \/ /\ reducing /\ kept' # kept => Occupied(kept) > limit
        /\ reducing /\ ~reducing' =>
             Occupied(kept) <= limit \/ \A c \in kept : Pinned(c)]_vars

(* Every load from the cache ends, with the document or without, once the  *)
(* transfer it waits for has ended, unless the transfer goes on without    *)
(* its copy.                                                               *)
ReadersEnd ==
  \A r \in Reader : reading[r] # None ~> reading[r] \in {None} \cup orphans \/ damaged
================================================================================
