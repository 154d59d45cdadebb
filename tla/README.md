# Verification of devzilla's concurrent core

devzilla is a Mozilla of early 1999 for Unix: the NSPR runtime, the JavaScript
engine, the network library, XPCOM, the document loader and the rendering and
widget code above them. This directory holds TLA+ models of the parts whose
correctness depends on the order in which threads and callbacks take their steps,
TLC configurations that check them on small instances, and proofs that `tlapm`
checks for instances of every size.

The build modelled is the Unix one: NSPR on pthreads (`_PR_PTHREADS`), the JavaScript
engine thread-safe (`JS_THREADSAFE`), event queues with a pipe, `NETLIB_THREAD` off.
The one exception is `ThinLock`, which models the locks of the Windows, Solaris and AIX builds.
Assertions (`PR_ASSERT`, `JS_ASSERT`) are compiled out; where one states what the
authors rely on, a property states it.

## How to run

    tlasany PtMonitor.tla
    tlc -workers 2 -config PtMonitor_safety.cfg MCPtMonitor
    tlapm PtMonitorProofs.tla

Each `.cfg` belongs to the MC module of its name (`EventQueue_destroy.cfg` to
`MCEventQueue`, and so on). Runs whose config is listed under "violation" below are
meant to end with a counterexample.

## Inventory

What each component keeps, what it does, what makes it hard, and when it is correct.

| Component | State | Operations | Hard behaviour | Correct when |
|---|---|---|---|---|
| **NSPR monitors** `nsprpub/pr/src/pthreads/ptsynch.c`, `ptthread.c` | mutex, owner, entry count, the list of notifications not yet sent, a reference count on the condition variable | Enter, Exit, Wait, Notify, NotifyAll, Destroy; `PR_Interrupt` | owner read without the lock; signals sent after the unlock; destruction racing a late signal; interrupts in three unsynchronised steps | exclusion and re-entry; waits restore the nesting; nothing signalled after it is freed; nothing leaked; nobody left asleep |
| **Cached monitors** `nsprpub/pr/src/threads/prcmon.c` | hash table of entries, free list, use counts | CEnter, CExit, CWait, CNotify, CNotifyAll by address | the cache lock is dropped before the monitor is used; entries recycled; the table grows, perhaps in part | one address, one monitor; an entry lives as long as it is used; the free list is exact |
| **Event queues** `nsprpub/lib/ds/plevent.c` | list of events, bytes in a pipe and their count, `synchronousResult` of each event | Post, PostSynchronous, Get, Handle, Process, Loop, Wait, Revoke, Destroy | three monitors and a pipe; posters that wait for results; revocation racing delivery | bytes match events; each event disposed of once; results right; no deadlock |
| **Event queue service, proxies** `xpcom/src/nsEventQueueService.cpp`, `nsProxyEvent.cpp` | queue per thread with a reference count | Create, Destroy, Get; nsProxyEventCreate/Post | queues handed out without a reference; a monitor left entered on an error path | a queue is not used after its end; every path leaves the monitor |
| **XPCOM** `xpcom/src/nsServiceManager.cpp`, `nsComponentManager.cpp` | table of services with shutdown listeners | GetService, ReleaseService, Register, Unregister | listeners that call back during shutdown | one instance per class; every listener told once |
| **JS requests and GC** `js/src/jsapi.c`, `jsgc.c` | `gcLevel`, `gcPoke`, `requestCount`, nesting per context | Begin, End, Suspend, Resume, YieldRequest; `js_GC` | collector and requests wait for each other; collections nest in finalizers | the collector is alone; counts exact; every call returns |
| **JS thin locks** `js/src/jslock.c` (Windows, Solaris, AIX) | owner word with a wait bit, pointer to a fat lock with a busy mark | Lock, Unlock, Enqueue, Dequeue, TransferScopeLock | the fat lock is made and unmade while others look for it | exclusion; no wake-up lost; no spinner left |
| **JS interpreter, compiler, objects** `js/src/js*.c` | the program | evaluation | a large sequential program | language semantics |
| **Network library** `network/main/mkgeturl.c` | active and waiting URLs, connection counts per window | GetURL, ProcessNet, Interrupt | callbacks re-enter; a waiting URL is started when another ends | limits kept; no URL forgotten; one exit per URL |
| **Network cache** `network/cache/mkmemcac.c`, `mkcache.c` | memory objects with read locks, size accounting, LRU list | add, find, convert, stream write/complete/abort, evict | objects read while written; deferred deletion; recursive eviction | never freed in use; size equals contents; limits kept |
| **Network module** `network/module/nsNetStream.cpp`, `nsNetThread.cpp` | ring buffer, closed flag, stream monitors | Read, Write, Close; proxied callbacks | flags tested outside the lock; a reader that polls sockets | bytes in order; end of stream after the last byte |
| **Protocols, converters** `network/protocol`, `network/cnvts` | per-connection state machines | on socket events | partial input | decoded output independent of how input is cut |
| **Image library** `modules/libimg` | cached images with clients and observers | GetImage, destroy, interrupt, decode | observers that detach while they are called | client counts exact |
| **Preferences, registry** `modules/libpref`, `modules/libreg` | tables; a file of records | get, set, save | writes in an order a crash can cut | the file can be read after a crash |
| **Document loader** `webshell/src/nsDocLoader.cpp` | pending URL counts in a tree of loaders | LoadURL, Stop, OnStartBinding, LoadURLComplete | Stop and new loads inside callbacks | end-of-document fired exactly once |
| **Graphics, widgets, DOM, layout, `xpfe`** | -- | -- | values, not protocols | out of TLC's reach |
| **`lib`, `base`, `intl`, `config`** | containers, tables, build files | -- | -- | no shared state worth a model |

The layers call each other as follows. Everything that blocks rests on `PRMonitor`
and `PRCondVar`. Cached monitors lend a `PRMonitor` to an address; synchronous
events use the cached monitor of the event's address. Event queues use one
`PRMonitor` each and wake the handler thread through that monitor and, for native
queues, through the pipe its `select()` watches. The queue service and the proxies
of the network module post to event queues. The JavaScript engine uses `PRLock` and
`PRCondVar` directly. The network library is driven by one thread and re-entered by
callbacks; the document loader counts what it starts.

`PROJECT.json` lists the same components, and under "hazards" each place in
the code where an order of steps can go wrong, with the properties that cover it.

## Modules

    AbstractMonitor            what prmon.h promises of a monitor
      ^ implemented by
    PtMonitor  <- PtMonitorProofs        ptsynch.c, ptthread.c
    CMonCache  <- CMonCacheProofs        prcmon.c; each address implements AbstractMonitor
    EventQueue <- EventQueueProofs       plevent.c; monitors as holders, by the two above
    JsRequest  <- JsRequestProofs        jsapi.c, jsgc.c
    AbstractLock               what JS_LOCK promises
      ^ implemented by
    ThinLock   <- ThinLockProofs         jslock.c
    GetURL     <- GetURLProofs           mkgeturl.c
    MemCache   <- MemCacheProofs         mkmemcac.c
    DocLoader  <- DocLoaderProofs        nsDocLoader.cpp, nsWebShell.cpp
    MC<module>                 constants for TLC

### AbstractMonitor

The contract: one holder, an entry depth per thread, a set of waiting threads that
keep their depth. It does not say why a wait ends, as `prmon.h` lets a wait end
by notification, timeout and interrupt alike.

### PtMonitor

| Code | Model |
|---|---|
| `lock.mutex`, `lock.owner` | `mutex` (the holder writes `lock.owner` first and clears it last, so one variable) |
| `mon->owner`, `mon->entryCount` | `owner`, `entryCount` |
| `lock.notified` (a monitor has one condition variable, so at most one entry) | `times`: 0, n signals, or -1 for broadcast |
| `cvar->notify_pending` | `notifyPending` |
| copy of the list in `pt_PostNotifies` | `post[t]` |
| `saved_entries` (16 bits) | `saved[t]`, through `ToInt16` |
| `thred->state`, `thred->waiting` | `aborted[t]`, `waitingOn[t]` |

`PR_EnterMonitor` is try-lock, read of `owner`, re-entry or blocking lock: `EnterFree`,
`EnterBusy`, `EnterAgain`, `EnterOther`, `EnterLock`. `PR_ExitMonitor` is `ExitNested` or
`ExitLast`, which unlocks and leaves the thread in `pt_PostNotifies`, whose loop is
`PostNotify`, `PostDone` and `PostLast` -- the last one runs `PR_DestroyCondVar` for a monitor
destroyed meanwhile. `PR_Wait` is `WaitBegin`, `WaitSet`, possibly the same posting
loop with the lock held, `WaitBlock`, `WaitReturn`, with `WaitAborted` for an
interrupt already pending and `WaitTimeout` for a deadline or a spurious wake-up.
`PR_Interrupt` is `InterruptFlag`, `InterruptRead`, `InterruptCast`.
A client obeys `prmon.h`: it calls `PR_Exit/Wait/Notify` only from
inside and destroys a monitor nobody is in.

### CMonCache

Each step under `_pr_mcacheLock` is one action: `CreateFound`, `CreateNew` and
`CreateExpanded` for the lookup of `PR_CEnterMonitor`, `CExitUsed` and `CExitFree` for
`PR_CExitMonitor` (which keeps the lock to the end), `CLookup` for the first half of
`PR_CWait`, `PR_CNotify`, `PR_CNotifyAll`. What these do with the monitor after the
lock has been dropped is a second action that uses the entry fetched before.
`CreateExpanded` allocates any number of entries up to the request -- the system may run out of
monitors half-way -- and grows the hash table or fails to. The monitors themselves
behave as `AbstractMonitor` says. A failed expansion after which `realloc` has moved
the block is not modelled: the code then builds its free list from the old pointer.
Clients leave the monitors they have entered innermost first, and pass an address that they have entered.

### EventQueue

One handler thread, clients, a set of events that are each posted once. What a
thread does in one stay inside a monitor is one action, except that the append
and the pipe write of a post, and the single revocations of `PL_RevokeEvents`, are
separate, because synchronous posters are not in the queue's monitor at every
moment. `PR_CWait` in `PL_PostSynchronousEvent` ends when notified, or early, by an interrupt of the
thread or a spurious wake-up (`SyncWakeEarly`); the code does not ask which, so the model
goes on in the same way, to `SyncReturn`, and `early` only records it. The handler processes
with the queue's monitor entered or not, as `plevent.h:139-146` allows (`inside`). `sync[e]` is `synchronousResult`: NULL, the
placeholder `PR_TRUE`, or the handler's result. `used`, `handled`, `freed`, `outcome`,
`gone`, `goneHere` record what has happened for the properties; no action tests `gone`,
`used` and `freed` on behalf of the code, only on behalf of the client who posts once.

`Spec` has clients that keep the rules of `plevent.h`: they post an owned event with
the monitor entered and the owner alive, and destroy a queue nobody uses. `DestroySpec`
also destroys a queue while posters wait in `PR_CWait`.

### JsRequest

`lock`, `gcLevel`, `gcPoke`, `requestCount` are the fields of `JSRuntime`, `depth[t]` the
`requestDepth` of the thread's context; `gcActive` is "in `CollectorPcs`". What is done between
two releases of `gcLock` is one action; only marking keeps the lock across steps. The
finalize phase drops it, and finalizers may set `gcPoke` and call `js_GC` again
(`GcNested`, `Restart`). Waits are sets, woken by notification or spuriously, and
each woken thread tests its condition again. `marked[t]` records that a mark phase has
begun since the thread called `js_GC`. `Next` has Begin, End and `js_GC`; `SuspendSpec`
adds `JS_SuspendRequest` (`JS_ResumeRequest` is the same code as `JS_BeginRequest`), `YieldSpec`
adds `JS_YieldRequest` with its unlocked decrement and foreign unlock.

### ThinLock

One lock `p` and its fat lock. `owner` and `waitBit` are the two halves of `p->owner`; a
compare-and-swap that succeeds is one action, one that fails changes nothing. `fat` is
`p->fat`: NULL, the busy mark 1, or a fat lock. Its four users take it with the same loop
(`js_AtomicSet`, action `Swap`) and give it back in a later step, so a thread may be stopped
with the pointer in hand: `fatstore`, `suspending`, `emptying`, `resuming`. What runs under
the fat lock's `slock` is one action. `me[t]` is the wait bit with which `js_Enqueue`
is about to take the lock, the result of `emptyFatlock`. `js_SuspendThread` and `js_ResumeThread` that find
no fat lock return with the mark in place (`SuspendNone`, `ResumeNone`). `passed` is
history: the threads whose wait bit has been used up by a release before they were
counted as sleepers. `susp` is signed and may go below zero, as in the code: that is a
banked wake-up.

### GetURL

There is one thread, but the library is re-entered: a protocol's handler feeds the
client's stream, which may load, interrupt and wait for other URLs. `stack` holds the
calls in progress. `start` is the middle of `NET_GetURL`, `init` and `process` are protocols that
run, `decrement`, `preferred`, `any` and `prefetch` the stages of `net_CheckForWaitingURL`, the last three of which may each release one
URL into a nested `NET_GetURL`.

| Code | Model |
|---|---|
| `NET_TotalNumberOfProcessingURLs` | `count` |
| `net_waiting_for_connection_url_list` | `waiting`, images at the end, others in front |
| `net_EntryList`, `ActiveEntry.busy` | `active`, `busy` |
| `NET_TotalNumberOfOpenConnections` | the size of `connected` |
| `Prefetch_priority`, `FO_ONLY_FROM_CACHE` | `prefetch`, `cacheOnly`: both are lost when a URL is queued and released |

`NET_GetURL` ends in one of five ways: `StartQueued`, `StartEnds`, `StartRefused`, `StartNoMemory`,
`StartAdmitted`. Handlers are external; they connect, go on, end, restart (redirection) or
ask to be tried again (`MK_TOO_MANY_OPEN_FILES`); or, for a file that is to be had with FTP, they
return `MK_USE_FTP_INSTEAD`, after which a second protocol is set up with the entry no longer busy
(`HandlerUsesFTP`, frame `redo`).

An interrupt is two steps with a call between them: `Interrupts` takes the entry off the list and
calls the protocol, which aborts the client's stream; `InterruptReturn` posts the exit routine and
lowers the count. In between the client may do whatever it does from a handler. An interrupt of a window
(`InterruptWindow`) is a frame of its own, `firstPass` or `lastPass`: each round
interrupts the entry at hand after it has fetched the one to go on with (`tmpEntry2`, the field `next`), so the
client runs between the two. `NET_InterruptWindow` makes two passes, "so that things we interrupt
that call NET_GetURL will be interrupted as well" (3950); `NET_SilentInterruptWindow` makes one. The
order of `net_EntryList`, which `NET_ProcessNet` rotates, is left open.

`leaked` and `stranded` are history: a URL that went without being uncounted, and a
counted URL that went without a look at the queue. `dangling` is history, too: an entry was freed that a
call in progress still points to, by `tmpEntry2` or from a `redo`. From then on the code reads
freed memory -- `PassInterruptsFreed` is what it does if that memory is unchanged -- and
the properties say nothing.

### MemCache

A copy of a document is a record of the fields that decide its life, with its size in
segments. `hash` and `list` are the two lists that lead to it, `writer[c]` what its
stream has done, `reading[r]` the copy a load reads. All frees go through `FreeMemoryCopy`,
which is the code's condition: a copy that is read, or neither complete nor aborted, is only
marked. `stack` holds completions of the next stream, which call the cache again. A
reduction is one stay of the code; its evictions are single actions while `reducing`, and
nothing else runs then; `NET_RemoveLastMemoryCacheObject` is `RemoveLast` or `RemoveNone`, at any
time. A copy is marked complete before the next stream is completed (`CompleteBegin`), so it may
go in the meantime; `CompleteEnd` then reads freed memory, does nothing or deletes it again, and `damaged`
records the latter. `orphans` (copies dropped for lack of memory) and `leaks` (read locks
left by failing streams) are history.

### DocLoader

A tree of loaders; `fg` and `total` are the counts, `owner[x]` the loader that has load `x` in its list,
`running` what the network is working on, `processed` the web shell's
`mProcessedEndDocumentLoad`. `stack` holds the notifications in progress: whatever a client does
inside one -- load, make a frame, destroy one, let other loads end -- is a step with a
non-empty stack. The end of a URL is `LoadURLComplete`; when its observers have returned,
`EndURLReturns` asks `IsBusy` again and reports the document; `EndDocReturns` takes the report to the loader
above. `Stop` is not an action: its body is compiled out (`#if 0`, nsDocLoader.cpp:1000).
`begun` and `overlapped` are history: who has asked for a document, and whose counts
were reset by `LoadDocument` with loads pending.

## Runs

| Config | Instance | Checks | Result |
|---|---|---|---|
| `PtMonitor_safety` | 3 threads, 1 interrupter, depth 2, 2 notifies, symmetry of the other two | `MonitorConsistent`, `NotifierHoldsCv`, `CvReclaimed`, `MonitorContract` | holds |
| `PtMonitor_live` | 3 threads, depth 2, 1 notify | `BroadcastWakes` | holds |
| `CMonCache` | 3 threads, addresses 1 and 3, 2 entries growing to 5, threshold 2, depth 2 | `TypeOK`, `CountsUses`, `SameMonitor`, `FreeListSound`, `CachedMonitorContract` | holds |
| `EventQueue` | handler and 2 clients, an owned and a free event, NULL posts up to 1 token | `TypeOK`, `TokensMatch`, `EventLifecycle`, `SyncOutcome`, `RevokedByHandler`, `EveryEventDisposed` | holds |
| `EventQueue_destroy` | handler and 1 client | `SyncReturns` | violation |
| `JsRequest` | 3 threads, depth 2, level 2 | `CountsRequests`, `CollectsAlone`, `JoinedCollectionMarks`, `CallsReturn` | holds |
| `JsRequest_suspend` | 2 threads | `GcFinishes` | violation |
| `JsRequest_yield` | 2 threads | `CollectsAlone` | violation |
| `ThinLock` | 3 threads, 1 spurious wake-up | `SleepersCounted`, `WakeupOwed`, `LockContract`, `SomeoneGetsIt` | holds |
| `GetURL` | 3 URLs of 2 windows, 2 processed at once, 2 connections, 1 per window, 2 faults | `TypeOK`, `CountExact`, `OnePlace`, `HandlerKeepsEntry`, `QueueServed`, `EveryUrlEnds` | holds |
| `MemCache` | 2 copies of one document of up to 2 segments, 2 readers, limits 0 and 2, 1 lock, 2 faults, depth 2 | `TypeOK`, `InUseKept`, `Reclaimed`, `LimitRestored`, `ReadersEnd` | holds |
| `DocLoader` | the service, a shell and a frame, 3 foreground loads and 1 background one, 1 failure, depth 2 | `TypeOK`, `CountsMatch`, `EndReported`, `ToldWhenLoaded`, `EveryDocumentEnds` | holds |

Type correctness of `PtMonitor`, `JsRequest` and `ThinLock` is proved (below) and needs no run.

What the properties say, in the order of what they protect:

* **Monitors.** A recorded owner always has the mutex; a free monitor carries nothing over
  (`MonitorConsistent`). A late notifier never signals a freed condition
  variable (`NotifierHoldsCv`), which is nevertheless freed in the end (`CvReclaimed`). The
  whole is a monitor in the sense of `AbstractMonitor` (`MonitorContract`). A
  recorded broadcast reaches everybody who was waiting (`BroadcastWakes`).
* **Cached monitors.** The use count is the exits still owed (`CountsUses`), so an entry is
  recycled neither early nor never; a pointer fetched under the lock is still the right one
  when it is used without (`SameMonitor`); seen by address, the cache is a set of
  monitors (`CachedMonitorContract`).
* **Event queues.** The blocking read inside the monitor always finds its byte, and queued
  events always have one (`TokensMatch`); bytes without an event are possible, after NULL posts and
  revocations. One thread destroys each event, once, when nobody refers to it
  (`EventLifecycle`), but for events whose poster has returned the placeholder. Synchronous posters get the
  handler's value, or NULL after a revocation; the placeholder only if their wait ended early
  (`SyncOutcome`).
  Events revoked on the handler thread are not delivered afterwards (`RevokedByHandler`). Every event is
  disposed of, which also says that no thread blocks for good (`EveryEventDisposed`), with one exception: a
  poster woken early asks for the queue's monitor with the event's in hand, and who has the
  queue's may ask for the event's (`Embrace`).
* **Requests.** The collector is alone from the mark phase to the end, with the lock free
  and through restarts (`CollectsAlone`); a thread that joins a collection gets one that
  marks after its call (`JoinedCollectionMarks`); every call returns (`CallsReturn`).
* **Thin locks.** Exclusion, as a refinement of `AbstractLock` (`LockContract`). The fat lock is not taken
  away from under a sleeper (`SleepersCounted`). A sleeper is owed a wake-up
  (`WakeupOwed`), and while threads want the lock one of them gets it (`SomeoneGetsIt`) -- except in two
  situations that both properties name and that the code really can get into: the busy mark
  is left behind (`Orphaned`), or a wait bit was used up too early (`passed`). They show that
  there is no third.
* **URLs.** `CountExact` ties the count to what it counts -- entries, and URLs gone that
  `net_CheckForWaitingURL` or an interrupt under way has still to uncount -- through redirections, nested
  releases and interrupts, and says exactly which URLs are lost from it. A URL is queued,
  being started, in an entry, being interrupted or ended, never two of these (`OnePlace`), so its exit
  routine, which frees it, runs once. A handler returns to an entry that is still its own
  (`HandlerKeepsEntry`) -- the `busy` flag is what makes this so, and the second handler of a file tried again with
  FTP does not have it. When nothing runs, only prefetches are left in the queue
  (`QueueServed`), with the exceptions `stranded` (interrupts, retries, no memory for an entry) and `leaked`.
  `EveryUrlEnds` is the same over time. All of them hold until an entry is freed that a call in progress
  still points to (`dangling`).
* **Memory cache.** Nothing is freed while a reader, a stream still writing or a list leads to it, and what a reader gets
  is whole (`InUseKept`). A stream that is being completed may lose its copy, and the properties hold until such a
  stream deletes a copy it had lost (`damaged`). What is marked for deletion has somebody left to free it (`Reclaimed`). A
  reduction evicts only while the cache is over its limit, and ends within it or with
  nothing left to evict (`LimitRestored`). Readers do not wait for ever (`ReadersEnd`).
* **Document loader.** Counts are the pending loads (`CountsMatch`), as long as no document was asked for
  over pending loads. The container of a shell is told of the end, at the latest when the
  notifications have returned (`EndReported`), not while a foreground URL of the document or of a frame in it
  loads (`ToldWhenLoaded`), and in the end always (`EveryDocumentEnds`).

### Why the bounds are enough

Three threads give every pair of roles a third party: a holder, a contender and a
waiter; a notifier, a destroyer and a waiter; a collector, one that joins it and one in
a request. Depth 2 tells re-entry from entry, and a nested wait from a plain one. Two
notifies tell a signal recorded before a broadcast from one recorded after. In
`CMonCache` the second and the third entry make the table grow, with both addresses in
one bucket before (1 and 3 are equal modulo 2) and in two afterwards, and one address
more than the threshold leaves free. `MaxEntries` is 5, so that an expansion can be
complete (4 more entries do not fit, 3 do) or partial. Two events are enough for one to
be revoked, handled or awaited while the other is queued behind it. `MaxLevel` 2 gives a
restart; a third request within one round would be merged by the code's
`gcLevel = 1` all the same. `PipeCap` is never reached: pipes are 4096 bytes and more,
and a full pipe is listed as a hazard.

`ThinLock` has a holder, a sleeper and one that arrives. Each wait may be ended once by itself.
The URLs of `GetURL` are a page first looked for in the cache and an image in one window, and a
prefetched link in the other: one of each kind that the queue treats differently. With room for two, the third waits. Two faults are enough for a lost
count to meet an interrupt, for `QueueServed` to find its limit filled, for an interrupt inside
an interrupt, and for an entry to be freed under a pass or a `redo`. `MemCache` has two copies of the
same document, so that one replaces, hides or is refused because of the other; a limit of 2 is
exceeded by a second copy or a second segment, and 0 is a cache that is switched off and
keeps the copies that must be cached. Three copies were run for safety, too, and showed nothing new. `DocLoader` has the shortest chain in which a report passes through a loader that
has loads itself; four loads allow two of the document, one of the frame and a background
one. Depth 2 lets a load end inside the notification of another.

### Fairness

* `PtMonitor`: the kernel runs every thread that is not blocked (WF of `Running`);
  a contended mutex is granted in the end (SF of `EnterLock`, `WaitReturn`); clients leave
  a monitor they have entered (SF of the exits). Nothing makes a wait end, so
  `BroadcastWakes` is not true by timeout.
* `EventQueue`: the same for every routine (SF of `Progress`), clients leave the queue's
  monitor -- on the handler thread also from inside handler functions (SF of `LeaveQueue`) --, handler
  functions return, and the handler thread goes back to a queue whose
  `select()` has fired; without that no event is ever handled. An early end of a wait is possible and
  not fair, so that it cannot stand in for a notification. Nobody is obliged to post, revoke
  or destroy.
* `JsRequest`: threads get the lock they ask for, scripts leave their requests, and
  finalizers do not ask for one more collection every time. Spurious wake-ups are
  possible and not fair, so they cannot stand in for a lost notification.
* `ThinLock`: threads in a routine go on, and holders unlock (WF). Spinning is not
  progress: the loop that takes `p->fat` is enabled only when it succeeds. Nobody is
  obliged to lock, and nothing but a notification ends a wait.
* `GetURL`: the library goes on with the call it is in, streams return from being interrupted, and the main loop polls entries (WF);
  transfers that keep being polled end (SF of `HandlerEnds`), as servers do or the
  connection times out. Nobody is obliged to load or to interrupt anything.
* `MemCache`: a reduction and a completion go on (WF), transfers end and the main loop comes back to each
  load from the cache (SF). `DocLoader`: clients return from notifications, and the network
  ends each load it has started (WF).

## Proofs

Each component's module has a proof module, which proves, for every value of the constants that its
assumptions allow, all the safety properties the runs check of it, action properties
and refinements included:

| Theorem | Statement |
|---|---|
| `PtMonitorProofs!IInvAlways` | `Spec => []IInv` |
| `PtMonitorProofs!TypeCorrect`, `MonitorAlwaysConsistent`, `NotifierAlwaysHoldsCv`, `CvAlwaysReclaimed` | the safety invariants of `PtMonitor` |
| `PtMonitorProofs!PtMonitorImplements` | `Spec => MonitorContract`: `ptsynch.c` implements `AbstractMonitor` |
| `JsRequestProofs!TypeCorrect`, `RequestsAlwaysCounted`, `CollectorAlwaysAlone` | the safety invariants of `JsRequest` |
| `JsRequestProofs!JoinedAlwaysMarked` | `Spec => JoinedCollectionMarks` |
| `ThinLockProofs!IInvAlways`, `TypeCorrect`, `SleepersAlwaysCounted`, `WakeupAlwaysOwed` | the safety invariants of `ThinLock` |
| `ThinLockProofs!ThinLockImplements` | `Spec => LockContract`: thin locks implement `AbstractLock` |
| `CMonCacheProofs!IInvAlways`, `TypeCorrect`, `UsesAlwaysCounted`, `MonitorAlwaysSame`, `FreeListAlwaysSound` | the safety invariants of `CMonCache` |
| `CMonCacheProofs!CachedMonitorImplements` | `Spec => CachedMonitorContract`: seen by any address, `prcmon.c` implements `AbstractMonitor` |
| `EventQueueProofs!IInvAlways`, `TypeCorrect`, `TokensAlwaysMatch`, `EventLifecycleAlways`, `SyncOutcomeAlways`, `RevokedAlwaysGone` | the safety invariants of `EventQueue` |
| `GetURLProofs!IInvAlways`, `TypeCorrect`, `CountAlwaysExact`, `OnePlaceAlways`, `HandlerAlwaysKeepsEntry`, `QueueAlwaysServed` | the safety invariants of `GetURL` |
| `DocLoaderProofs!IInvAlways`, `TypeCorrect`, `CountsAlwaysMatch`, `EndAlwaysReported` | the safety invariants of `DocLoader` |
| `DocLoaderProofs!AlwaysToldWhenLoaded` | `Spec => ToldWhenLoaded`, an action property |
| `MemCacheProofs!IInvAlways`, `TypeCorrect`, `InUseAlwaysKept`, `ReclaimedAlways` | the safety invariants of `MemCache` |
| `MemCacheProofs!LimitAlwaysRestored` | `Spec => LimitRestored`, an action property |

The assumptions stand in the component's module, and TLC evaluates them in the runs:

* `ThreadAssumption` (finitely many threads, "nobody" is none of them), `DepthAssumption` (at
  most 32767 nested entries, because `saved_entries` is a 16-bit integer and `PR_Wait` from
  deeper would not restore the count), `NotifyAssumption`, `RequestAssumption`.
* `CacheAssumption`: finitely many threads, addresses that are not NULL, a table that starts as a
  power of two within the bound on entries, and a threshold of at least one entry, without which `CreateMonitor`
  could find the free list empty. Any number of addresses may share a bucket.
* `QueueAssumption`: the handler is one of the threads; the values for "nobody" and "no event" are neither.
  Threads and events may be infinitely many, and every event may have any owner or none.
* `URLAssumption`, `LimitAssumption`: finitely many URLs, each of one window and with any combination of the
  marks the queue looks at; limits of at least one URL and one connection.
* `TreeAssumption`, `LoadAssumption`: finitely many loaders, each but the root with a parent, and finitely
  many loads. That the parents form a tree is not needed: `Above` is the least set closed under them.
* `CopyAssumption`, `BoundAssumption`: finitely many copies and readers, copies of at least one segment,
  any keys, any limits, zero included.

**PtMonitor.** None of the invariants is inductive alone. `MonitorConsistent` needs to know who
has the mutex in the middle of `PR_Wait`: `LockPart` says the mutex is held exactly by the
owner or by a thread between `WaitBegin` and `WaitBlock`. `NotifierHoldsCv` needs the
meaning of the reference count: `CvPart` says that `notify_pending` is the number of late notifiers,
plus one for a recorded entry, minus one once the monitor is destroyed, and that the
condition variable lives exactly while the monitor does or a notifier is late. From this it
follows that "below zero" in `pt_PostNotifies` is seen by the last notifier of a destroyed monitor and by
nobody else. There is one lemma per action, with one step per part of `IInv` it can
disturb; cardinalities are handled by `OneMorePoster` and `OneLessPoster`. The refinement is a
step simulation under `IInv`: every action is a step of `AbstractMonitor` or a stutter.

**JsRequest.** `CollectsAlone` rests on the count: `CountsRequests` makes "no request
runs" and "`requestCount` is zero" the same, `PhasePart` says it is zero from
marking on, and `CollectorPart` that `gcLevel` is positive exactly while there is a
collector, of which there is at most one; so nothing that raises the count is enabled
meanwhile. `JoinPart` says that a request that joined before the mark phase still has a
collector ahead that is waiting.

**ThinLock.** The parts of `IInv` are in `ThinLock` itself. `OwnerPart`: the owner is who is between
lock and unlock, from which exclusion and the refinement follow. `MarkPart`: at most one
thread has `p->fat` in hand, and the mark is then there, so that what a thread has taken cannot be
stale. `BitPart`: a thread that has set the wait bit and is not yet counted finds the bit still there, or
is in `passed`; this is what carries `WakeupOwed` through the gap between `js_Enqueue`'s
compare-and-swap and `js_SuspendThread`'s `susp++`. `SleepPart` and `SleepersCounted` are inductive together:
`emptyFatlock` takes the fat lock off only when `susp` is below one, so nobody sleeps then. One
lemma per action; cardinalities by `SleeperMore` and `SleeperLess`.

**CMonCache.** `SameMonitor` follows from `CallPart` (the entry a call has fetched is bound to the call's
address), which a release of that entry would break; a release needs the count to reach zero, so `CountsUses`
has to be part of the induction. It says that `cacheEntryCount` is a sum over the threads of what each owes
the entry. Sums are cardinalities of sets of pairs, with lemmas for one summand changing
(`TotalSplit`, `TotalSame`, `CountStep`). `TablePart` keeps an entry in the bucket its address hashes to *now*: `CreateExpanded` rehashes
all of them, and `HashInTable` says they land in the new table. `FreePart` carries the free list, as a
sequence without repetition, through partial expansions (`StackItems`). The refinement is stated per
address: `ViewAt` relates the state to that address's monitor, and every action is a step of
one address's monitor and a stutter of the others (`OthersKept`, `QuietView`).

**EventQueue.** `TokensMatch`, `EventLifecycle` and `SyncOutcome` depend on who is between which steps.
`PlacePart` says what a thread's place tells of what it has in hand; `MonPart` that the queue's monitor is
held exactly by a thread in one of the places under it, so that two posters are never between append and write; `DeadPart`
that a destroyed queue is empty and unused; `EventPart` where an event with a given past can be;
`SyncPart` that a thread that waits for a synchronous event and the state of that event agree:
the event is `Left` to the handler or a revoker, or its poster is `Waiting`, or it has been `Answered`, and a
wait that ends early breaks only the link to the poster; `OwnerPart` that nothing of a revoked owner is queued.
`AppendItems`, `TailItems` and `RemoveItems` say what the operations on the list leave in it.

**GetURL.** All the properties are about how often something occurs in the queue or among the calls in progress.
`Count(s, F)` says how often, with a lemma for every way the code changes a list: push, append, pop,
removal from the middle (`RemoveCount`), and the pass of `net_AbortWaitingURL` (`WithoutCount`, by induction
over positions with a set in place of the induction operator the provers lack: `SetInduction` from the
library's well-foundedness of `<`). `ExactPart` and `PlacePart` are then equations between counts, and
the lemma of each action is arithmetic. They hold `dangling \/ ...`, and `PointPart` is what makes that
usable: as long as nothing dangles, every entry a call points to (`Trusted`) is on the list, so that
a pass that goes on with a freed entry has already set `dangling`. The types of calls and queue (`Typed`) hold
either way. `HandlerKeepsEntry` needs `EntryPart`: a handler's
entry is busy, and there is one handler for it. `QueueServed` needs to say who will still look at
the queue before the library is idle: `Expected`.

**DocLoader.** `CountsMatch` is inductive once `StartsPart` says that a load whose start is being
announced is pending and not yet the network's, so that it is not counted out twice. `EndReported`
speaks of quiescence; its strengthening `ReportPart` says for every moment that a loader that was asked for a
document is busy, or has reported, or a notification in progress will ask it (`Awaited`). `BusyAbove` --
who is above a busy loader is busy -- carries a report up the tree. `ToldWhenLoaded` follows step by step: the report is made in the
two steps in which the loader has just been found idle, and idle means no pending loads (`IdleLoads`).

**MemCache.** What ties a copy's fields to its readers, its stream and the lists is one predicate
of a single copy, `Fits`; `Undisturbed` and `Gone` keep it for the copies a step does not touch, and
`FreeMemoryCopyStep` covers each of the places that call `net_FreeMemoryCopy`. `SizePart` says that
`net_MemoryCacheSize` is the number of segments in memory: sets of pairs once more. List lemmas (`RemovedFirst`,
`InFront`, `Joined`) say what moving or dropping a copy leaves on the list. `LimitRestored` follows
because the size tested by the loop is the real one, and a copy that is not on the list is in use and could not
have been evicted. The induction runs through a completing stream whose copy has gone by leaving the
store alone; the other outcome sets `damaged`, after which nothing is claimed.

Only model-checked: liveness (`BroadcastWakes`, `EveryEventDisposed`, `CallsReturn`, `SomeoneGetsIt`,
`EveryUrlEnds`, `ReadersEnd`, `EveryDocumentEnds`), because the proof system does not do liveness under
fairness. The counterexamples of the violation runs are TLC's, and need no proof. `EventQueueProofs` is about `Spec`,
whose clients keep the rules of `plevent.h`; the `Suspend` and `Yield` specifications of `JsRequest`
have no theorems, as what they would state is what their runs refute.

## Findings

Shown by violation runs; the text is in `PROJECT.json`.

1. `PL_DestroyEventQueue` leaves a synchronous poster waiting for ever (`EventQueue_destroy`).
2. `JS_SuspendRequest` strands a collector that waits for the last request
   (`JsRequest_suspend`).
3. `JS_YieldRequest` re-enters while another thread collects (`JsRequest_yield`).

### Divergences

Where the code differs from what it says, without a run of their own. Those that the models
contain are exceptions named in a property, so the runs show that they are the only ones;
the rest were met in reading.

* `PR_Interrupt` can be lost: between the waiter's look at its flag and its block, the
  interrupter finds no condition variable or broadcasts to nobody (`ptthread.c:656-663`;
  `prthread.h:210-219` promises that the wait ends).
* `PL_RevokeEvents` from another thread than the handler's, even inside the monitor as
  `plevent.h` asks, misses an event already taken off the queue (`plevent.c:433`).
* `PL_PostSynchronousEvent` waits once, "for event to be handled or destroyed", and does not test again
  (`plevent.c:275`): a wait that an interrupt or a spurious wake-up ends returns the placeholder and
  destroys an event that is queued or being handled (`early` in `SyncOutcome`, the exception of `EventLifecycle`).
* A poster whose wait has ended early takes the queue's monitor with the event's in hand
  (`plevent.c:282`), against the order of revokers and of a handler inside the queue's monitor: the two
  may wait for each other for ever (`Embrace` in `EveryEventDisposed`).
* Thin locks: `js_SuspendThread` (329) and `js_ResumeThread` (355) leave the busy mark in `p->fat`, although
  by the comment at `jslock.c:570` it is there only while the pointer is accessed. And a
  release between `js_Enqueue`'s setting of the wait bit and its `susp++` uses the bit
  up; if it finds no fat lock, or the banked wake-up goes to somebody else, the thread then
  sleeps with nobody obliged to wake it. (`Orphaned` and `passed` in `SomeoneGetsIt`.)
* `net_InterruptActiveStream` says that it "Also allows waiting urls into the active list"
  (`mkgeturl.c:3591`) and does not (`stranded` in `QueueServed`). `NET_ProcessNet` queues a URL to be tried again
  (3454-3462) without uncounting it, and `NET_GetURL` without memory for an entry (2844-2858) leaves it
  counted (`leaked` in `CountExact`): after as many of these as the limit allows, only looks
  into the cache start.
* "advance to the next item NOW in case we free this one" (`mkgeturl.c:3885`) keeps `tmpEntry2` across the call that
  frees the entry at hand, and the client called by it may free `tmpEntry2` as well; and an entry that is tried
  again with FTP has lost its busy mark (3049), so that it may be interrupted or processed
  while its second protocol is set up (`dangling`). `net_push_url_on_wait_queue` without memory dereferences its NULL
  `wus` (1251; `MODULAR_NETLIB` is defined in `network/main/Makefile`).
* `nsDocLoaderImpl::Stop` is compiled out, although `nsWebShell::DoLoadURL` relies on it to "Stop loading
  the current document", and `LoadDocument`'s `NS_PRECONDITION` that the counts are zero is no
  obstacle: it sets them to 1 with the old loads still pending. The end is then reported early, or
  the loader is busy for ever (`overlapped` in the properties of `DocLoader`).
* `mkmemcac.c:967-970` relies on `net_FreeMemoryCopy` to undo the accounting on failure; for an
  incomplete copy that function only sets `delete_me`, so the copy and its size stay (`orphans` in
  `Reclaimed`). Streams that fail leave their read lock (`leaks`). Met in reading: after a failed write
  `net_MemCacheAbort` uses the NULL `memory_copy`. "If this object is currently being read or written DO NOT delete
  it", says `net_FreeMemoryCopy` (180), but `net_MemCacheComplete` marks its copy complete before it completes the next
  stream, whose calls may delete the copy, and then looks at it again, and may delete it again (729-733,
  `damaged` in the properties). Duplicates and `NET_RemoveURLFromMemCache` do not
  honour external locks; a refused duplicate takes the other copy out of the hash list.

## Not modelled, and why

* `PR_Wait` or `PR_Notify` by a thread that is not inside: the code does not refuse it in a release
  build; the models have clients that obey the contract.
* A pipe that is full, or whose read or write fails; two threads that process one queue;
  the Windows and OS/2 notifiers; `PL_MapEvents` with a client's function.
* What marking and sweeping do to objects, and contexts made or destroyed during a
  collection.
* Thin locks: object scopes (`js_LockObj`, `js_TransferScopeLock`), the free list of fat locks
  that several locks share, a `PR_WaitCondVar` that fails.
* `PL_EventLoop` called with the queue's monitor entered: events are then handled inside it, and
  the wait for the next one gives it up.
* Network library: clients that call `NET_InterruptStream`, which does not look at `busy`, on a transfer whose
  handler is running, or `NET_SetActiveEntryBusyStatus`; memory that runs out for an entry of the queue; the Macintosh's loop
  instead of a second pass; HEAD requests of other protocols,
  proxies, what a protocol says to its server. Which handler outcome occurs is free in the model.
* Memory cache: documents whose length is known in advance, `current_page_only`, what is read from freed
  memory. `NET_RemoveLastMemoryCacheObject` is the function of `mkmemcac.c`; the one of the same name in `mkcache.c:1243` shrinks
  the image cache.
  Disk cache and external cache.
* Document loader: content viewers, refresh timers, history, loads with another character set.
* Rendering, widgets, DOM, layout, the language semantics of JavaScript, and file and socket
  I/O: no protocol between actors, or state far beyond an explicit-state checker.
* The components of the plan, until they are written.

## Plan

In this order, the most consequential first.

1. The abstract specifications named below, with the step simulations that show them implemented, in the proof
   modules that exist; the invariants they need are proved.
2. The order of events: those of one poster are handled in the order they were posted, as a property
   of `EventQueue`.
3. **EventQueueService** with **ProxyEvent**, composed with `EventQueue`'s interface: queues
   per thread, references, destruction while others hold the pointer, error paths.
4. **BlockingStream** (`nsNetStream.cpp`): ring buffer and closed flag; bytes in order, end
   only after the last.
5. Scope locks on top of `ThinLock`; the image cache on top of `GetURL`.
6. The chunked-encoding decoder as a recursive function against a reference definition; the registry
   file under a crash.

Abstract specifications worth stating: a single-use event ("posted, then handled or discarded, then
freed") that `EventQueue` implements; a bounded multiset of documents that `MemCache` implements; a
URL with one end that `GetURL` implements.
