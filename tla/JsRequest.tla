------------------------------- MODULE JsRequest -------------------------------
(***************************************************************************)
(* Requests and garbage collection of the JavaScript engine, thread-safe   *)
(* build: JS_BeginRequest and its relatives (js/src/jsapi.c) against js_GC *)
(* (js/src/jsgc.c).                                                        *)
(*                                                                         *)
(* Each thread uses one context of a shared runtime.  A thread that runs   *)
(* scripts is in a request; a collector waits until no request runs, and   *)
(* threads that want to begin one wait until the collection is done.  What *)
(* is done between two releases of rt->gcLock is one step; only the mark   *)
(* phase keeps the lock over several.  Waiting drops the lock, and a       *)
(* notification reaches the waiters when the lock is given up.             *)
(***************************************************************************)
EXTENDS Integers, FiniteSets

CONSTANTS Thread, NoThread,
          MaxDepth,  \* bound on the nesting of requests
          MaxLevel   \* bound on gcLevel: collections asked for by finalizers

ASSUME RequestAssumption ==
  /\ IsFiniteSet(Thread) /\ NoThread \notin Thread
  /\ MaxDepth \in Nat \ {0} /\ MaxLevel \in Nat \ {0}

VARIABLES
  lock,         \* who holds rt->gcLock between its steps
  gcLevel,      \* rt->gcLevel: no collection, one, or one with a restart due
  gcPoke,       \* rt->gcPoke: an assignment since the last collection
  requestCount, \* rt->requestCount
  depth,        \* cx->requestDepth
  pc,           \* where each thread is
  gcDone,       \* threads that wait for the condition rt->gcDone
  requestDone,  \* threads that wait for rt->requestDone
  marked,       \* a mark phase has begun since the thread's call of js_GC
  loaded        \* JS_YieldRequest's requestCount, loaded without the lock

rt == <<lock, gcLevel, gcPoke, requestCount, gcDone, requestDone>>
vars == <<rt, depth, pc, marked, loaded>>

Init ==
  /\ lock = NoThread /\ gcLevel = 0 /\ gcPoke = FALSE /\ requestCount = 0
  /\ depth = [t \in Thread |-> 0] /\ pc = [t \in Thread |-> "idle"]
  /\ gcDone = {} /\ requestDone = {}
  /\ marked = [t \in Thread |-> FALSE] /\ loaded = [t \in Thread |-> 0]

GoTo(t, to) == pc' = [pc EXCEPT ![t] = to]
Free == lock = NoThread

(* JS_NOTIFY_REQUEST_DONE wakes one waiter, if there is one.               *)
AfterNotify ==
  IF requestDone = {} THEN {{}} ELSE {requestDone \ {u} : u \in requestDone}

(* A thread running scripts assigns, or anybody asks for a collection with *)
(* js_ForceGC: gcPoke is set without the lock.                             *)
Poke(t) ==
  /\ pc[t] \in {"idle", "final"} /\ ~gcPoke
  /\ gcPoke' = TRUE
  /\ UNCHANGED <<lock, gcLevel, requestCount, depth, pc, gcDone, requestDone,
                 marked, loaded>>

--------------------------------------------------------------------------------
(***************************************************************************)
(* JS_BeginRequest, JS_EndRequest                                          *)
(***************************************************************************)
BeginNested(t) ==
  /\ pc[t] = "idle" /\ depth[t] \in 1..(MaxDepth - 1)
  /\ depth' = [depth EXCEPT ![t] = @ + 1]
  /\ UNCHANGED <<rt, pc, marked, loaded>>

BeginCall(t) ==
  /\ pc[t] = "idle" /\ depth[t] = 0
  /\ GoTo(t, "begin")
  /\ UNCHANGED <<rt, depth, marked, loaded>>

BeginWait(t) ==
  /\ pc[t] = "begin" /\ t \notin gcDone /\ Free /\ gcLevel > 0
  /\ gcDone' = gcDone \cup {t}
  /\ UNCHANGED <<lock, gcLevel, gcPoke, requestCount, depth, pc, requestDone,
                 marked, loaded>>

(* Mutant: woken up once is enough.                                        *)
BeginEnterUnchecked(t) ==
  /\ pc[t] = "begin" /\ t \notin gcDone /\ Free
  /\ requestCount' = requestCount + 1
  /\ depth' = [depth EXCEPT ![t] = @ + 1]
  /\ GoTo(t, "idle")
  /\ UNCHANGED <<lock, gcLevel, gcPoke, gcDone, requestDone, marked, loaded>>

BeginEnter(t) ==
  /\ pc[t] = "begin" /\ t \notin gcDone /\ Free /\ gcLevel = 0
  /\ requestCount' = requestCount + 1
  /\ depth' = [depth EXCEPT ![t] = @ + 1]
  /\ GoTo(t, "idle")
  /\ UNCHANGED <<lock, gcLevel, gcPoke, gcDone, requestDone, marked, loaded>>

EndNested(t) ==
  /\ pc[t] = "idle" /\ depth[t] > 1
  /\ depth' = [depth EXCEPT ![t] = @ - 1]
  /\ UNCHANGED <<rt, pc, marked, loaded>>

EndLast(t) ==
  /\ pc[t] = "idle" /\ depth[t] = 1 /\ Free
  /\ depth' = [depth EXCEPT ![t] = 0]
  /\ requestCount' = requestCount - 1
  /\ requestDone' \in AfterNotify
  /\ UNCHANGED <<lock, gcLevel, gcPoke, gcDone, pc, marked, loaded>>

--------------------------------------------------------------------------------
(***************************************************************************)
(* js_GC, by a thread in a request or outside.  The call does nothing when *)
(* gcPoke is not set, when the client's callback defers it, or gcDisabled. *)
(***************************************************************************)
(* "If we're in a request, indicate, temporarily, that we're inactive."    *)
Others(t) == IF depth[t] > 0 THEN requestCount - 1 ELSE requestCount
WithMine(t) == IF depth[t] > 0 THEN requestCount + 1 ELSE requestCount

GcCall(t) ==
  /\ pc[t] = "idle" /\ Free /\ gcPoke
  /\ gcPoke' = FALSE /\ requestCount' = Others(t)
  /\ marked' = [marked EXCEPT ![t] = FALSE]
  /\ UNCHANGED <<depth, loaded>>

(* "If another thread is already in GC, don't attempt GC; wait instead."   *)
GcJoin(t) ==
  /\ GcCall(t) /\ gcLevel > 0
  /\ requestDone' \in AfterNotify
  /\ gcDone' = gcDone \cup {t} /\ GoTo(t, "join")
  /\ UNCHANGED <<lock, gcLevel>>

JoinWait(t) ==
  /\ pc[t] = "join" /\ t \notin gcDone /\ Free /\ gcLevel > 0
  /\ gcDone' = gcDone \cup {t}
  /\ UNCHANGED <<lock, gcLevel, gcPoke, requestCount, depth, pc, requestDone,
                 marked, loaded>>

(* Mutants: the request is not counted again; a wake-up is taken for the   *)
(* end of the collection.                                                  *)
JoinReturnUncounted(t) ==
  /\ pc[t] = "join" /\ t \notin gcDone /\ Free /\ gcLevel = 0
  /\ GoTo(t, "idle")
  /\ UNCHANGED <<rt, depth, marked, loaded>>

JoinReturnUnchecked(t) ==
  /\ pc[t] = "join" /\ t \notin gcDone /\ Free
  /\ requestCount' = WithMine(t) /\ GoTo(t, "idle")
  /\ UNCHANGED <<lock, gcLevel, gcPoke, gcDone, requestDone, depth, marked, loaded>>

JoinReturn(t) ==
  /\ pc[t] = "join" /\ t \notin gcDone /\ Free /\ gcLevel = 0
  /\ requestCount' = WithMine(t) /\ GoTo(t, "idle")
  /\ UNCHANGED <<lock, gcLevel, gcPoke, gcDone, requestDone, depth, marked, loaded>>

(* This thread becomes the collector, and waits for the other requests.    *)
GcStart(t) ==
  /\ GcCall(t) /\ gcLevel = 0
  /\ gcLevel' = 1 /\ GoTo(t, "await")
  /\ \E left \in AfterNotify :
       requestDone' = IF Others(t) > 0 THEN left \cup {t} ELSE left
  /\ lock' = IF Others(t) > 0 THEN NoThread ELSE t
  /\ UNCHANGED gcDone

(* The collector has been woken and tests requestCount again.              *)
AwaitAgain(t) ==
  /\ pc[t] = "await" /\ t \notin requestDone /\ Free /\ requestCount > 0
  /\ requestDone' = requestDone \cup {t}
  /\ UNCHANGED <<lock, gcLevel, gcPoke, requestCount, gcDone, depth, pc, marked, loaded>>

(* Mark phase.  It and the search for garbage have the lock.               *)
Mark(t) ==
  /\ pc[t] = "await" /\ t \notin requestDone /\ lock \in {NoThread, t}
  /\ requestCount = 0
  /\ lock' = t /\ GoTo(t, "mark")
  /\ marked' = [u \in Thread |-> TRUE]
  /\ UNCHANGED <<gcLevel, gcPoke, requestCount, gcDone, requestDone, depth, loaded>>

(* Finalize phase.  "Don't hold the GC lock while running finalizers!"     *)
Finalize(t) ==
  /\ pc[t] = "mark"
  /\ lock' = NoThread /\ GoTo(t, "final")
  /\ UNCHANGED <<gcLevel, gcPoke, requestCount, gcDone, requestDone, depth, marked, loaded>>

(* A finalizer asks for a collection: "Bump gcLevel and return rather than *)
(* nest on this context."                                                  *)
GcNested(t) ==
  /\ pc[t] = "final" /\ Free /\ gcPoke /\ gcLevel < MaxLevel
  /\ gcPoke' = FALSE /\ gcLevel' = gcLevel + 1
  /\ UNCHANGED <<lock, requestCount, gcDone, requestDone, depth, pc, marked, loaded>>

(* The lock is had again after the finalizers; or there was not memory     *)
(* enough to run them, and the lock had never been dropped.                *)
AtEnd(t) == pc[t] = "mark" \/ (pc[t] = "final" /\ Free)

Restart(t) ==
  /\ AtEnd(t) /\ gcLevel > 1
  /\ gcLevel' = 1 /\ lock' = t /\ GoTo(t, "mark")
  /\ marked' = [u \in Thread |-> TRUE]
  /\ UNCHANGED <<gcPoke, requestCount, gcDone, requestDone, depth, loaded>>

(* Mutant: nobody is told.                                                 *)
GcEndSilent(t) ==
  /\ AtEnd(t) /\ gcLevel = 1
  /\ gcLevel' = 0 /\ requestCount' = WithMine(t)
  /\ lock' = NoThread /\ GoTo(t, "idle")
  /\ UNCHANGED <<gcPoke, gcDone, requestDone, depth, marked, loaded>>

GcEnd(t) ==
  /\ AtEnd(t) /\ gcLevel = 1
  /\ gcLevel' = 0 /\ requestCount' = WithMine(t)
  /\ gcDone' = {}
  /\ lock' = NoThread /\ GoTo(t, "idle")
  /\ UNCHANGED <<gcPoke, requestDone, depth, marked, loaded>>

(* A wait may end without a notification: PR_Interrupt, or by itself.      *)
Spurious(t) ==
  /\ t \in gcDone \cup requestDone
  /\ gcDone' = gcDone \ {t} /\ requestDone' = requestDone \ {t}
  /\ UNCHANGED <<lock, gcLevel, gcPoke, requestCount, depth, pc, marked, loaded>>

Next ==
  \E t \in Thread :
    \/ Poke(t)
    \/ BeginNested(t) \/ BeginCall(t) \/ BeginWait(t) \/ BeginEnter(t)
    \/ EndNested(t) \/ EndLast(t)
    \/ GcJoin(t) \/ JoinWait(t) \/ JoinReturn(t)
    \/ GcStart(t) \/ AwaitAgain(t) \/ Mark(t) \/ Finalize(t)
    \/ GcNested(t) \/ Restart(t) \/ GcEnd(t)
    \/ Spurious(t)

(* What a thread does next once it is in one of these routines, and the    *)
(* end of a nested request.                                                *)
Progress(t) ==
  \/ BeginEnter(t) \/ JoinReturn(t) \/ EndNested(t)
  \/ Mark(t) \/ Finalize(t) \/ Restart(t)

(* A thread gets the lock it asks for over and over; scripts leave their   *)
(* requests; finalizers return, and do not ask for one more collection     *)
(* every time.  Nothing makes a wait end.                                  *)
Fairness ==
  \A t \in Thread :
    SF_vars(Progress(t)) /\ SF_vars(EndLast(t) \/ GcEnd(t))

Spec == Init /\ [][Next]_vars /\ Fairness

(***************************************************************************)
(* JS_SuspendRequest: JS_EndRequest without the notification.              *)
(* JS_ResumeRequest is JS_BeginRequest, word for word.                     *)
(***************************************************************************)
SuspendLast(t) ==
  /\ pc[t] = "idle" /\ depth[t] = 1 /\ Free
  /\ depth' = [depth EXCEPT ![t] = 0]
  /\ requestCount' = requestCount - 1
  /\ UNCHANGED <<lock, gcLevel, gcPoke, gcDone, requestDone, pc, marked, loaded>>

Suspend(t) == EndNested(t) \/ SuspendLast(t)
SuspendSpec == Init /\ [][Next \/ \E t \in Thread : Suspend(t)]_vars /\ Fairness

(***************************************************************************)
(* JS_YieldRequest: rt->requestCount-- without the lock, a notification,   *)
(* and an unlock of the lock it does not hold -- which either fails or     *)
(* takes it from its holder -- before it locks and counts itself in again. *)
(***************************************************************************)
YieldLoad(t) ==
  /\ pc[t] = "idle" /\ depth[t] > 0
  /\ loaded' = [loaded EXCEPT ![t] = requestCount] /\ GoTo(t, "ystore")
  /\ UNCHANGED <<rt, depth, marked>>

YieldStore(t) ==
  /\ pc[t] = "ystore"
  /\ requestCount' = loaded[t] - 1 /\ GoTo(t, "yunlock")
  /\ loaded' = [loaded EXCEPT ![t] = 0]
  /\ UNCHANGED <<lock, gcLevel, gcPoke, gcDone, requestDone, depth, marked>>

YieldUnlock(t) ==
  /\ pc[t] = "yunlock"
  /\ lock' \in {lock, NoThread}
  /\ requestDone' \in AfterNotify /\ GoTo(t, "ylock")
  /\ UNCHANGED <<gcLevel, gcPoke, requestCount, gcDone, depth, marked, loaded>>

YieldReturn(t) ==
  /\ pc[t] = "ylock" /\ Free
  /\ requestCount' = requestCount + 1 /\ GoTo(t, "idle")
  /\ UNCHANGED <<lock, gcLevel, gcPoke, gcDone, requestDone, depth, marked, loaded>>

Yield(t) == YieldLoad(t) \/ YieldStore(t) \/ YieldUnlock(t) \/ YieldReturn(t)
YieldSpec == Init /\ [][Next \/ \E t \in Thread : Yield(t)]_vars

--------------------------------------------------------------------------------
CollectorPcs == {"await", "mark", "final"}
YieldPcs == {"ystore", "yunlock", "ylock"}
Pcs == {"idle", "begin", "join"} \cup CollectorPcs \cup YieldPcs

(* Every variable has its type; requestCount never drops below zero (it is *)
(* unsigned in the code, and JS_EndRequest asserts as much).               *)
TypeOK ==
  /\ lock \in Thread \cup {NoThread}
  /\ gcLevel \in 0..MaxLevel /\ gcPoke \in BOOLEAN /\ requestCount \in Nat
  /\ depth \in [Thread -> 0..MaxDepth] /\ pc \in [Thread -> Pcs]
  /\ gcDone \subseteq Thread /\ requestDone \subseteq Thread
  /\ marked \in [Thread -> BOOLEAN] /\ loaded \in [Thread -> Int]

(* The threads whose request runs: those that gave theirs up for the time  *)
(* of a collection, their own or another's, or in the middle of            *)
(* JS_YieldRequest, are not among them.                                    *)
Inactive == CollectorPcs \cup {"join", "yunlock", "ylock"}
Active == {t \in Thread : depth[t] > 0 /\ pc[t] \notin Inactive}

(* requestCount is the number of threads with a running request, however   *)
(* requests nest, and however collections, waits and joins lower and raise *)
(* it on the way.                                                          *)
CountsRequests == requestCount = Cardinality(Active)

(* jsgc.c: "Wait for all other requests to finish."  From the mark phase   *)
(* on until the collection is done -- and while the finalizers run, with   *)
(* the lock free, and through restarts -- no thread runs a request, and    *)
(* there is no second collector.                                           *)
CollectsAlone ==
  \A t \in Thread : pc[t] \in {"mark", "final"} =>
    /\ Active = {}
    /\ \A u \in Thread \ {t} : pc[u] \notin CollectorPcs

(* A thread in a request that joins another's collection does not return   *)
(* from js_GC before all memory has been marked again after its call:      *)
(* js_AllocGCThing retries once, on the strength of it.                    *)
JoinedCollectionMarks ==
  [][\A t \in Thread :
       pc[t] = "join" /\ pc'[t] = "idle" /\ depth[t] > 0 => marked[t]]_vars

(***************************************************************************)
(* The inductive invariant behind the safety properties.  gcLevel says     *)
(* whether there is a collector, and there is one at most; once it has     *)
(* begun to mark, nobody is counted; a thread that is about to begin is in *)
(* no request; and a request that joined a collection did so before the    *)
(* mark phase.                                                             *)
(***************************************************************************)
Collector == {t \in Thread : pc[t] \in CollectorPcs}
CollectorPart ==
  /\ gcLevel > 0 <=> Collector # {}
  /\ \A t, u \in Collector : t = u
PhasePart == \A t \in Thread : pc[t] \in {"mark", "final"} => requestCount = 0
BeginPart == \A t \in Thread : pc[t] = "begin" => depth[t] = 0
JoinPart ==
  \A t \in Thread :
    pc[t] = "join" /\ depth[t] > 0 /\ ~marked[t] => \E u \in Thread : pc[u] = "await"
IInv == /\ TypeOK /\ CountsRequests
        /\ CollectorPart /\ PhasePart /\ BeginPart /\ JoinPart

(* Every call returns: a request can be begun in the end whatever others   *)
(* collect, and a collection that has been started is finished.  No        *)
(* wake-up is lost between the last request and the collector, or between  *)
(* the collector and those that wait for it.                               *)
CallsReturn == \A t \in Thread : pc[t] # "idle" ~> pc[t] = "idle"

(* jsgc.c: "Wait for all other requests to finish."  A collector does not  *)
(* wait on when they have.                                                 *)
GcFinishes == \A t \in Thread : pc[t] \in CollectorPcs ~> pc[t] = "idle"
================================================================================
