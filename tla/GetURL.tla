-------------------------------- MODULE GetURL ---------------------------------
(***************************************************************************)
(* The scheduler of the network library (network/main/mkgeturl.c): which   *)
(* URLs are being transferred, which wait, and who lets the waiting ones   *)
(* go on.                                                                  *)
(*                                                                         *)
(* NET_GetURL makes an active entry or queues the URL; NET_ProcessNet runs *)
(* the protocol of an entry that has data; net_CheckForWaitingURL releases *)
(* queued URLs when one has ended.  All of it runs under LIBNET_LOCK, but  *)
(* the lock is re-entrant and protocols call the client's streams, which   *)
(* call the library again: `stack' holds the calls in progress, innermost  *)
(* first.  Exit routines are posted as events (net_CallExitRoutineProxy),  *)
(* so they run outside.                                                    *)
(*                                                                         *)
(* An interrupt takes its entry off the list, lets the protocol abort the  *)
(* client's stream, and uncounts the URL when that has returned.           *)
(*                                                                         *)
(* Two calls use an entry that others may end meanwhile: an interrupt of a *)
(* window, the entry it has fetched to go on with, and a transfer tried    *)
(* again with FTP, its own, which is not busy.  When such an entry is      *)
(* freed, `dangling' says so, and the properties say nothing from then on. *)
(*                                                                         *)
(* Left out: HEAD requests of other protocols, nethelp URLs, clients that  *)
(* interrupt the very transfer that is calling them or set an entry's busy *)
(* mark, and memory that runs out for an entry of the queue.               *)
(***************************************************************************)
EXTENDS Integers, FiniteSets, SequencesExt

CONSTANTS
  URL, Window,
  WindowOf,       \* the window of each URL
  Image,          \* URLs with the format FO_INTERNAL_IMAGE
  Background,     \* URLs with load_background
  Prefetch,       \* URLs first asked for with Prefetch_priority
  Socket,         \* URLs whose protocol counts its connections
  OnlyFromCache,  \* URLs asked for with FO_ONLY_FROM_CACHE
  MaxProcessing,  \* MAX_NUMBER_OF_PROCESSING_URLS
  MaxOpen,        \* NET_MaxNumberOfOpenConnections
  MaxPerContext,  \* NET_MaxNumberOfOpenConnectionsPerContext
  MaxFaults       \* bound on interrupts, redirects, retries and failures

ASSUME URLAssumption ==
  /\ IsFiniteSet(URL) /\ WindowOf \in [URL -> Window]
  /\ Image \subseteq URL /\ Background \subseteq URL /\ Socket \subseteq URL
  /\ Prefetch \subseteq Background /\ OnlyFromCache \subseteq URL
ASSUME LimitAssumption ==
  /\ MaxProcessing \in Nat \ {0} /\ MaxFaults \in Nat
  /\ MaxOpen \in Nat \ {0} /\ MaxPerContext \in Nat \ {0}

VARIABLES
  count,      \* NET_TotalNumberOfProcessingURLs
  waiting,    \* net_waiting_for_connection_url_list
  active,     \* URLs of the entries on net_EntryList
  busy,       \* those whose entry is busy
  connected,  \* those that NET_TotalNumberOfOpenConnections counts
  prefetch,   \* URLs that still have Prefetch_priority
  cacheOnly,  \* URLs that still have FO_ONLY_FROM_CACHE
  stack,      \* calls in progress
  begun,      \* URLs the client has asked for
  exits,      \* how often the exit routine of each URL has been posted
  leaked,     \* URLs that went without being uncounted
  stranded,   \* a counted URL has gone and nobody has looked at the queue since
  dangling,   \* an entry was freed that a call in progress still points to
  faults      \* interrupts, redirects, retries and failures so far

lists == <<waiting, active, busy, connected>>
marks == <<prefetch, cacheOnly>>
client == <<begun, exits>>
history == <<leaked, stranded, dangling>>
vars == <<count, lists, marks, stack, client, history, faults>>

Init ==
  /\ count = 0 /\ waiting = <<>> /\ active = {} /\ busy = {} /\ connected = {}
  /\ prefetch = Prefetch /\ cacheOnly = OnlyFromCache
  /\ stack = <<>> /\ begun = {} /\ exits = [u \in URL |-> 0]
  /\ leaked = 0 /\ stranded = FALSE /\ dangling = FALSE /\ faults = 0

--------------------------------------------------------------------------------
(* The innermost call.                                                     *)
Running(op) == stack # <<>> /\ Head(stack).op = op
InHandler == \E op \in {"init", "redo", "process"} : Running(op)
CallOn(op, u) == [op |-> op, url |-> u, next |-> {}]
Check(u) == CallOn("decrement", u) \* net_CheckForWaitingURL after u
Return == Tail(stack)
Top(f) == <<f>> \o Return

(* A client runs at top level, or is called by a protocol's handler, by a  *)
(* stream that is interrupted, or by a pass over a window's entries.       *)
Passing == Running("firstPass") \/ Running("lastPass")
ClientRuns == stack = <<>> \/ InHandler \/ Running("interrupt") \/ Passing

Fault == faults < MaxFaults /\ faults' = faults + 1
Exit(u) == exits' = [exits EXCEPT ![u] = @ + 1]

(* net_push_url_on_wait_queue: images to the end, the rest to the front.   *)
Pushed(u) == IF u \in Image THEN Append(waiting, u) ELSE <<u>> \o waiting

--------------------------------------------------------------------------------
(* NET_GetURL, called by the client with a URL it has not loaded before.   *)
GetURL(u) ==
  /\ ClientRuns /\ u \notin begun
  /\ begun' = begun \cup {u}
  /\ stack' = <<CallOn("start", u)>> \o stack
  /\ UNCHANGED <<count, lists, marks, exits, history, faults>>

Starts(u) == Running("start") /\ Head(stack).url = u

(* NET_GetURL puts off prefetches, and everything but a look at the cache  *)
(* when too many URLs are being processed.                                 *)
MustWait(u) == u \in prefetch \/ (count >= MaxProcessing /\ u \notin cacheOnly)

StartQueued(u) ==
  /\ Starts(u) /\ MustWait(u)
  /\ waiting' = Pushed(u) /\ stack' = Return
  /\ UNCHANGED <<count, active, busy, connected, marks, client, history, faults>>

(* Mutant: it is not counted, though net_CheckForWaitingURL uncounts it.   *)
StartEndsUncounted(u) ==
  /\ Starts(u) /\ ~MustWait(u)
  /\ Exit(u) /\ stack' = Top(Check(u))
  /\ UNCHANGED <<count, lists, marks, begun, history, faults>>

(* It ends the URL before there is an entry: a bad address, a document     *)
(* that is not in the cache, a URL that something else handles.            *)
StartEnds(u) ==
  /\ Starts(u) /\ ~MustWait(u)
  /\ count' = count + 1 /\ Exit(u) /\ stack' = Top(Check(u))
  /\ UNCHANGED <<lists, marks, begun, history, faults>>

(* net_is_one_url_allowed_to_run.                                          *)
MayRun(u) ==
  \/ u \notin Socket \/ Cardinality(connected) < MaxPerContext
  \/ /\ Cardinality(connected) < MaxOpen
     /\ Cardinality({v \in active : WindowOf[v] = WindowOf[u]}) < MaxPerContext

(* Mutant: the URL is not queued when there is no connection for it.       *)
StartRefusedLost(u) ==
  /\ Starts(u) /\ ~MustWait(u) /\ ~MayRun(u)
  /\ cacheOnly' = cacheOnly \ {u} /\ stack' = Return
  /\ UNCHANGED <<count, lists, prefetch, client, history, faults>>

(* The URL waits for a connection, uncounted again.                        *)
StartRefused(u) ==
  /\ Starts(u) /\ ~MustWait(u) /\ ~MayRun(u)
  /\ waiting' = Pushed(u) /\ cacheOnly' = cacheOnly \ {u} /\ stack' = Return
  /\ UNCHANGED <<count, active, busy, connected, prefetch, client, history, faults>>

(* There is no memory for an entry: the URL ends, but stays counted.       *)
StartNoMemory(u) ==
  /\ Starts(u) /\ ~MustWait(u) /\ MayRun(u) /\ Fault
  /\ count' = count + 1 /\ leaked' = leaked + 1 /\ Exit(u) /\ stack' = Return
  /\ cacheOnly' = cacheOnly \ {u} /\ stranded' = TRUE
  /\ UNCHANGED <<lists, prefetch, begun, dangling>>

(* The URL gets an entry, busy while the protocol is set up.               *)
StartAdmitted(u) ==
  /\ Starts(u) /\ ~MustWait(u) /\ MayRun(u)
  /\ count' = count + 1 /\ active' = active \cup {u} /\ busy' = busy \cup {u}
  /\ cacheOnly' = cacheOnly \ {u} /\ stack' = Top(CallOn("init", u))
  /\ UNCHANGED <<waiting, connected, prefetch, client, history, faults>>

(* NET_ProcessNet, from the main loop or from a client that waits for      *)
(* data: an entry that is not busy has data.                               *)
ProcessNet(u) ==
  /\ ClientRuns /\ u \in active \ busy
  /\ busy' = busy \cup {u} /\ stack' = <<CallOn("process", u)>> \o stack
  /\ UNCHANGED <<count, waiting, active, connected, marks, client, history, faults>>

--------------------------------------------------------------------------------
(* What the handler of entry u, a protocol's init or process, may do.      *)
Handles(u) == InHandler /\ Head(stack).url = u

HandlerConnects(u) ==
  /\ Handles(u) /\ u \in Socket \ connected
  /\ connected' = connected \cup {u}
  /\ UNCHANGED <<count, waiting, active, busy, marks, stack, client, history, faults>>

(* It returns, and the transfer goes on.                                   *)
HandlerContinues(u) ==
  /\ Handles(u)
  /\ busy' = busy \ {u} /\ stack' = Return
  /\ UNCHANGED <<count, waiting, active, connected, marks, client, history, faults>>

(* A file that is to be had with FTP: the entry is no longer busy when the *)
(* transfer is tried again, in the same call of NET_GetURL.                *)
HandlerUsesFTP(u) ==
  /\ Handles(u) /\ Running("init") /\ Fault
  /\ busy' = busy \ {u} /\ stack' = Top(CallOn("redo", u))
  /\ UNCHANGED <<count, waiting, active, connected, marks, client, history>>

(* An entry is taken off the list and freed, or will be, while the calls   *)
(* in s go on.                                                             *)
PointsTo(f, u) == (f.op = "redo" /\ f.url = u) \/ u \in f.next
Gone(u, s) ==
  /\ active' = active \ {u} /\ busy' = busy \ {u} /\ connected' = connected \ {u}
  /\ dangling' = (dangling \/ \E i \in DOMAIN s : PointsTo(s[i], u))

(* It has ended the transfer, well or not.                                 *)
HandlerEnds(u) ==
  /\ Handles(u)
  /\ Gone(u, Return) /\ Exit(u) /\ stack' = Top(Check(u))
  /\ UNCHANGED <<count, waiting, marks, begun, leaked, stranded, faults>>

(* A redirection, or a copy in the cache to be used instead: the URL is    *)
(* started again before its old entry is uncounted.                        *)
HandlerRestarts(u) ==
  /\ Handles(u) /\ Fault
  /\ Gone(u, Return) /\ stack' = <<CallOn("start", u), Check(u)>> \o Return
  /\ UNCHANGED <<count, waiting, marks, client, leaked, stranded>>

(* MK_TOO_MANY_OPEN_FILES: the URL is queued to be tried again.            *)
(* NET_GetURL uncounts it, NET_ProcessNet does not.                        *)
HandlerRetries(u) ==
  /\ Handles(u) /\ Fault
  /\ Gone(u, Return) /\ waiting' = Pushed(u) /\ stack' = Return /\ stranded' = TRUE
  /\ IF Running("process") THEN leaked' = leaked + 1 /\ UNCHANGED count
                           ELSE count' = count - 1 /\ UNCHANGED leaked
  /\ UNCHANGED <<marks, client>>

--------------------------------------------------------------------------------
(* net_CheckForWaitingURL, after u has ended: uncount it, ...              *)
CheckDecrement ==
  /\ Running("decrement")
  /\ count' = IF count <= 0 THEN 0 ELSE count - 1
  /\ stranded' = FALSE
  /\ stack' = Top([Head(stack) EXCEPT !.op = "preferred"])
  /\ UNCHANGED <<lists, marks, client, leaked, dangling, faults>>

(* net_AreThereActiveConnectionsForWindow.                                 *)
ActiveForWindow(w) ==
  \E v \in active \cup ToSet(waiting) : WindowOf[v] = w /\ v \notin Background

(* Mutant: images are never released.                                      *)
ReleasableNoImage(op) ==
  CASE op \in {"preferred", "any"} -> ToSet(waiting) \ (Image \cup prefetch)
    [] op = "prefetch" -> IF ActiveForWindow(WindowOf[Head(stack).url])
                          THEN {} ELSE ToSet(waiting) \ Image

(* ... then release the first waiting URL that is no image, the first of   *)
(* any kind, and, when the window is idle, one that may be a prefetch.     *)
Phase == [preferred |-> "any", any |-> "prefetch", prefetch |-> "return"]
Releasable(op) ==
  CASE op = "preferred" -> ToSet(waiting) \ (Image \cup prefetch)
    [] op = "any"       -> ToSet(waiting) \ prefetch
    [] op = "prefetch"  -> IF ActiveForWindow(WindowOf[Head(stack).url])
                           THEN {} ELSE ToSet(waiting)
NextFrame(op) == IF op = "prefetch" THEN Return
                 ELSE Top([Head(stack) EXCEPT !.op = Phase[op]])

CheckNone(op) ==
  /\ Running(op) /\ Releasable(op) = {}
  /\ stack' = NextFrame(op)
  /\ UNCHANGED <<count, lists, marks, client, history, faults>>

(* Mutant: the released URL stays in the queue.                            *)
CheckReleaseKept(op) ==
  /\ Running(op) /\ Releasable(op) # {}
  /\ LET u == SelectInSeq(waiting, LAMBDA v : v \in Releasable(op))
     IN  /\ prefetch' = prefetch \ {waiting[u]}
         /\ stack' = <<CallOn("start", waiting[u])>> \o NextFrame(op)
  /\ UNCHANGED <<count, lists, cacheOnly, client, history, faults>>

CheckRelease(op) ==
  /\ Running(op) /\ Releasable(op) # {}
  /\ LET u == SelectInSeq(waiting, LAMBDA v : v \in Releasable(op))
     IN  /\ waiting' = RemoveAt(waiting, u) /\ prefetch' = prefetch \ {waiting[u]}
         /\ stack' = <<CallOn("start", waiting[u])>> \o NextFrame(op)
  /\ UNCHANGED <<count, active, busy, connected, cacheOnly, client, history, faults>>

--------------------------------------------------------------------------------
(* net_AbortWaitingURL: one pass over the queue takes the URLs in S out.   *)
Without(s, S) ==
  LET kept[n \in 0..Len(s)] == IF n = 0 THEN <<>>
                               ELSE IF s[n] \in S THEN kept[n - 1]
                               ELSE Append(kept[n - 1], s[n])
  IN kept[Len(s)]

(* net_InterruptActiveStream, called with the calls s in progress: the     *)
(* entry of u goes off the list, and the protocol is called to abort it.   *)
Interrupts(u, s) ==
  /\ Gone(u, s) /\ stack' = <<CallOn("interrupt", u)>> \o s

(* NET_InterruptStream, for an entry that is not busy.                     *)
InterruptStream(u) ==
  /\ ClientRuns /\ u \in active \ busy /\ Fault
  /\ Interrupts(u, stack)
  /\ UNCHANGED <<count, waiting, marks, client, leaked, stranded>>

(* Mutant: the URL is uncounted twice.                                     *)
InterruptReturnTwice(u) ==
  /\ Running("interrupt") /\ Head(stack).url = u
  /\ Exit(u) /\ count' = count - 2 /\ stranded' = TRUE /\ stack' = Return
  /\ UNCHANGED <<lists, marks, begun, leaked, dangling, faults>>

(* The protocol has returned.  The queue is not looked at.                 *)
InterruptReturn(u) ==
  /\ Running("interrupt") /\ Head(stack).url = u
  /\ Exit(u) /\ count' = count - 1 /\ stranded' = TRUE /\ stack' = Return
  /\ UNCHANGED <<lists, marks, begun, leaked, dangling, faults>>

(* NET_InterruptWindow makes two passes, NET_SilentInterruptWindow one.    *)
(* A pass takes the URLs of its window w out of the queue, then interrupts *)
(* the entries of w that are not busy.                                     *)
OfWindow(w) == {u \in URL : WindowOf[u] = w}
InterruptibleBusy(w) == OfWindow(w) \cap active \* mutant: busy ones are not spared
Interruptible(w) == OfWindow(w) \cap (active \ busy)

AbortWaiting(w) ==
  /\ waiting' = Without(waiting, OfWindow(w))
  /\ exits' = [u \in URL |-> IF u \in OfWindow(w) \cap ToSet(waiting)
                            THEN exits[u] + 1 ELSE exits[u]]

(* The entry that a pass comes to first.  The order of the list, which     *)
(* NET_ProcessNet rotates, is left open.                                   *)
PassOn(op, w, next) == [op |-> op, url |-> CHOOSE u \in URL : WindowOf[u] = w,
                        next |-> next]
FirstOf(w) == IF Interruptible(w) = {} THEN {{}} ELSE {{u} : u \in Interruptible(w)}

InterruptWindow(w, op) ==
  /\ ClientRuns /\ Fault
  /\ OfWindow(w) \cap (active \cup ToSet(waiting)) # {}
  /\ AbortWaiting(w)
  /\ \E first \in FirstOf(w) : stack' = <<PassOn(op, w, first)>> \o stack
  /\ UNCHANGED <<count, active, busy, connected, marks, begun, history>>

(* The pass goes on with the entry it has fetched, or, when that one is to *)
(* be spared, with one behind it, and fetches what comes next before it    *)
(* calls anybody.                                                          *)
PassInterrupts(w, u) ==
  /\ Passing /\ WindowOf[Head(stack).url] = w /\ u \in Interruptible(w)
  /\ Head(stack).next # {} /\ Head(stack).next \cap Interruptible(w) \subseteq {u}
  /\ \E next \in {{}} \cup {{v} : v \in active \ {u}} :
       Interrupts(u, Top(PassOn(Head(stack).op, w, next)))
  /\ UNCHANGED <<count, waiting, marks, client, leaked, stranded, faults>>

(* The entry it has fetched was freed meanwhile, and its memory is as it   *)
(* was: it is interrupted again.                                           *)
PassInterruptsFreed(w, u) ==
  /\ Passing /\ WindowOf[Head(stack).url] = w
  /\ u \in Head(stack).next \ active /\ WindowOf[u] = w
  /\ stack' = <<CallOn("interrupt", u)>> \o Top(PassOn(Head(stack).op, w, {}))
  /\ UNCHANGED <<count, lists, marks, client, history, faults>>

PassRepeats(w) ==
  /\ Running("firstPass") /\ WindowOf[Head(stack).url] = w
  /\ Head(stack).next \cap Interruptible(w) = {}
  /\ AbortWaiting(w)
  /\ \E first \in FirstOf(w) : stack' = Top(PassOn("lastPass", w, first))
  /\ UNCHANGED <<count, active, busy, connected, marks, begun, history, faults>>

PassEnds(w) ==
  /\ Running("lastPass") /\ WindowOf[Head(stack).url] = w
  /\ Head(stack).next \cap Interruptible(w) = {}
  /\ stack' = Return
  /\ UNCHANGED <<count, lists, marks, client, history, faults>>

--------------------------------------------------------------------------------
Start(u) ==
  \/ StartQueued(u) \/ StartEnds(u) \/ StartRefused(u)
  \/ StartNoMemory(u) \/ StartAdmitted(u)
Handler(u) ==
  \/ HandlerConnects(u) \/ HandlerContinues(u) \/ HandlerUsesFTP(u)
  \/ HandlerEnds(u) \/ HandlerRestarts(u) \/ HandlerRetries(u)
CheckForWaitingURL ==
  \/ CheckDecrement
  \/ \E op \in DOMAIN Phase : CheckNone(op) \/ CheckRelease(op)
Pass(w) ==
  \/ \E u \in URL : PassInterrupts(w, u) \/ PassInterruptsFreed(w, u)
  \/ PassRepeats(w) \/ PassEnds(w)

Next ==
  \/ \E u \in URL : \/ GetURL(u) \/ Start(u) \/ ProcessNet(u) \/ Handler(u)
                    \/ InterruptStream(u) \/ InterruptReturn(u)
  \/ \E w \in Window : \/ \E op \in {"firstPass", "lastPass"} : InterruptWindow(w, op)
                       \/ Pass(w)
  \/ CheckForWaitingURL

Spec == Init /\ [][Next]_vars

(* Fairness: the main loop polls as long as there are entries, and the     *)
(* library goes on with a call it is in; servers that keep being read end  *)
(* their answers, or the connections time out.                             *)
Fairness ==
  /\ WF_vars(\/ CheckForWaitingURL \/ \E w \in Window : Pass(w)
             \/ \E u \in URL : Start(u) \/ ProcessNet(u) \/ InterruptReturn(u))
  /\ SF_vars(\E u \in URL : HandlerEnds(u))
FairSpec == Spec /\ Fairness

--------------------------------------------------------------------------------
Frames == Seq([op : {"start", "init", "redo", "process", "decrement", "interrupt",
                     "firstPass", "lastPass"} \cup DOMAIN Phase,
               url : URL, next : SUBSET URL])

Typed ==
  /\ count \in Int /\ leaked \in Nat /\ faults \in 0..MaxFaults
  /\ waiting \in Seq(URL) /\ stack \in Frames
  /\ active \subseteq URL /\ busy \subseteq URL /\ connected \subseteq URL
  /\ prefetch \subseteq URL /\ cacheOnly \subseteq URL /\ begun \subseteq URL
  /\ exits \in [URL -> Nat] /\ stranded \in BOOLEAN /\ dangling \in BOOLEAN

(* The number of URLs in progress does not go below zero either.           *)
TypeOK == Typed /\ (dangling \/ count \in Nat)

Places(s, P(_)) == Cardinality({i \in DOMAIN s : P(s[i])})

(* NET_TotalNumberOfProcessingURLs is the number of entries, of calls that *)
(* have still to uncount one that has gone, net_CheckForWaitingURL or an   *)
(* interrupt under way, and of the URLs known to have been lost.           *)
CountExact ==
  dangling \/ count = Cardinality(active) + leaked
                      + Places(stack, LAMBDA f : f.op \in {"decrement", "interrupt"})

(* A URL the client has asked for is in one place only: queued once, in an *)
(* entry, on its way in a NET_GetURL, being interrupted, or ended by one   *)
(* call of its exit routine, which frees it.                               *)
OnePlace ==
  dangling \/ \A u \in URL :
    Places(waiting, LAMBDA v : v = u) + Cardinality(active \cap {u}) + exits[u]
      + Places(stack, LAMBDA f : f.op \in {"start", "interrupt"} /\ f.url = u)
    = Cardinality(begun \cap {u})

(* The entry whose handler is running is still there when it returns,      *)
(* whatever the client has loaded, processed and interrupted meanwhile,    *)
(* and no other handler has been given it.  (Not so for the second handler *)
(* of a file that is tried again with FTP.)                                *)
HandlerKeepsEntry ==
  dangling \/ \A i, j \in DOMAIN stack :
    stack[i].op \in {"init", "process"} =>
      /\ stack[i].url \in active \cap busy
      /\ stack[j].op \in {"init", "process"} /\ stack[j].url = stack[i].url
         => i = j

(* When the library is at rest without an entry, nobody waits: the URLs    *)
(* left in the queue are prefetches, or an entry went without the queue    *)
(* being looked at, or the lost counts fill the limit.                     *)
QueueServed ==
  stack = <<>> /\ active = {} /\ ~stranded /\ leaked < MaxProcessing /\ ~dangling =>
    ToSet(waiting) \subseteq prefetch

(* Every URL asked for ends, unless the library comes to rest with it in   *)
(* the queue, or an entry was freed under a call in progress.              *)
EveryUrlEnds ==
  \A u \in URL :
    u \in begun ~>
      exits[u] = 1 \/ dangling \/ (stack = <<>> /\ active = {} /\ Contains(waiting, u))
================================================================================
