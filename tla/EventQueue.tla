------------------------------- MODULE EventQueue -------------------------------
(***************************************************************************)
(* Event queues: nsprpub/lib/ds/plevent.c, as built for Unix.              *)
(*                                                                         *)
(* Threads post events to a queue that belongs to one handler thread.  The *)
(* queue is protected by a PRMonitor, which clients may hold around their  *)
(* calls; a native queue also puts one byte per notification into a pipe,  *)
(* for the handler's select().  A synchronous post waits in the cached     *)
(* monitor of the event until the handler has stored a result there.       *)
(*                                                                         *)
(* PtMonitor and CMonCache justify that both monitors appear here as       *)
(* holder variables: exclusion, re-entry, and waits that end when notified *)
(* or early.  A PR_Notify takes effect where the monitor is given up; what *)
(* is done in one uninterrupted stay in a monitor is one step.  Memory     *)
(* that has been freed is taken to keep its contents.                      *)
(***************************************************************************)
EXTENDS Integers, Sequences, SequencesExt

CONSTANTS Thread, NoThread,
          Handler,   \* self->handlerThread
          Event, NoEvent,
          OwnerOf,   \* event->owner
          NoOwner,   \* events that nobody revokes
          PipeCap,   \* capacity of the notification pipe in bytes
          MaxTokens  \* bound: posts of no event only below this many tokens

ASSUME QueueAssumption ==
  /\ Handler \in Thread /\ NoThread \notin Thread /\ NoEvent \notin Event
  /\ DOMAIN OwnerOf = Event
  /\ PipeCap \in Nat /\ MaxTokens \in Nat

Owner == {OwnerOf[e] : e \in Event} \ {NoOwner}

VARIABLES
  alive,       \* the PLEventQueue exists
  native,      \* self->type = EventQueueIsNative
  queue,       \* self->queue, events in order
  pipe,        \* bytes in self->eventPipe
  notifyCount, \* self->notifyCount
  processing,  \* self->processingEvents
  inside,      \* the handler processes events with the monitor entered
  mon,         \* the thread inside self->monitor between its steps
  held,        \* threads with a PL_ENTER_EVENT_QUEUE_MONITOR of their own
  pc,          \* where each thread is
  cur,         \* the event the handler thread has taken off the queue
  mine,        \* the event of each thread's PL_PostSynchronousEvent
  rev,         \* the owner of each thread's PL_RevokeEvents
  hit,         \* the synchronous event PL_RevokeEvents has just dequeued
  emon,        \* the thread inside the event's cached monitor
  sync,        \* event->synchronousResult: NULL, PR_TRUE, the handler's value
  used, handled, freed, outcome, \* what has happened to each event
  early,       \* events whose poster's wait has ended before its time
  gone, goneHere \* owners revoked, by any thread and by the handler thread

chan == <<alive, native, pipe, notifyCount>>
calls == <<processing, inside, rev, hit>>
history == <<used, handled, freed, outcome, early, gone, goneHere>>
vars == <<chan, queue, calls, mon, held, pc, cur, mine, emon, sync, history>>

(* _pl_CreateEventQueue                                                    *)
Init ==
  /\ alive = TRUE /\ native \in BOOLEAN
  /\ queue = << >> /\ pipe = 0 /\ notifyCount = 0
  /\ processing = FALSE /\ inside = FALSE
  /\ mon = NoThread /\ held = {}
  /\ pc = [t \in Thread |-> "idle"] /\ cur = NoEvent
  /\ mine = [t \in Thread |-> NoEvent] /\ rev = [t \in Thread |-> NoOwner]
  /\ hit = NoEvent
  /\ emon = [e \in Event |-> NoThread] /\ sync = [e \in Event |-> "NULL"]
  /\ used = {} /\ handled = {} /\ freed = [e \in Event |-> 0]
  /\ outcome = [e \in Event |-> "none"] /\ early = {}
  /\ gone = {} /\ goneHere = {}

--------------------------------------------------------------------------------
(* A thread calls into the queue from its own code or from the function    *)
(* that handles an event.                                                  *)
Calls(t) == pc[t] \in {"idle", "handling"}
Home(t) == IF t = Handler /\ cur # NoEvent THEN "handling" ELSE "idle"
GoTo(t, to) == pc' = [pc EXCEPT ![t] = to]

(* PR_EnterMonitor(self->monitor) does not block; what holds it after exit.*)
CanEnter(t) == mon \in {NoThread, t}
AfterExit(t) == IF t \in held THEN t ELSE NoThread

(* A handler function leaves the monitor only if it has entered it itself. *)
EnterQueue(t) ==
  /\ alive /\ Calls(t) /\ t \notin held /\ CanEnter(t)
  /\ mon' = t /\ held' = held \cup {t}
  /\ UNCHANGED <<chan, queue, calls, pc, cur, mine, emon, sync, history>>

LeaveQueue(t) ==
  /\ Calls(t) /\ t \in held /\ ~(t = Handler /\ inside)
  /\ mon' = NoThread /\ held' = held \ {t}
  /\ UNCHANGED <<chan, queue, calls, pc, cur, mine, emon, sync, history>>

(* A client posts an event once, while its owner exists, and -- when it    *)
(* has an owner -- with the monitor entered, as plevent.h demands.         *)
MayPost(t, e) ==
  /\ alive /\ Calls(t) /\ e \notin used
  /\ OwnerOf[e] # NoOwner => t \in held /\ OwnerOf[e] \notin gone

--------------------------------------------------------------------------------
(***************************************************************************)
(* PL_PostEvent: append, then _pl_NativeNotify and PR_Notify.  The write   *)
(* to the pipe blocks when the pipe is full, with the monitor held.        *)
(***************************************************************************)
Post(t, e) ==
  /\ MayPost(t, e) /\ CanEnter(t)
  /\ queue' = Append(queue, e) /\ used' = used \cup {e}
  /\ mon' = t /\ GoTo(t, "write")
  /\ UNCHANGED <<chan, calls, held, cur, mine, emon, sync, handled, freed, outcome,
                 early, gone, goneHere>>

(* With no event to construct a client has no reason to hold the monitor.  *)
PostNull(t) ==
  /\ alive /\ Calls(t) /\ t \notin held /\ CanEnter(t) /\ notifyCount < MaxTokens
  /\ mon' = t /\ GoTo(t, "write")
  /\ UNCHANGED <<chan, queue, calls, held, cur, mine, emon, sync, history>>

(* Mutant: only an empty queue is worth a notification.                    *)
NativeNotifyOnce ==
  /\ native => pipe < PipeCap
  /\ LET n == IF native /\ Len(queue) <= 1 THEN 1 ELSE 0 IN
       pipe' = pipe + n /\ notifyCount' = notifyCount + n

NativeNotify ==
  /\ native => pipe < PipeCap
  /\ LET n == IF native THEN 1 ELSE 0 IN
       pipe' = pipe + n /\ notifyCount' = notifyCount + n

(* PR_Notify reaches the handler thread if it is in PL_WaitForEvent.       *)
NotifyHandler(t, to) ==
  pc' = [u \in Thread |-> IF u = t THEN to
                          ELSE IF pc[u] = "waiting" THEN "wget" ELSE pc[u]]

PostWrite(t) ==
  /\ pc[t] = "write"
  /\ NativeNotify /\ NotifyHandler(t, Home(t))
  /\ mon' = AfterExit(t)
  /\ UNCHANGED <<alive, native, queue, calls, held, cur, mine, emon, sync, history>>

(***************************************************************************)
(* PL_PostSynchronousEvent                                                 *)
(***************************************************************************)
(* On the handler thread the event is handled on the spot.                 *)
SyncInline(t, e) ==
  /\ t = Handler /\ MayPost(t, e)
  /\ used' = used \cup {e} /\ handled' = handled \cup {e}
  /\ freed' = [freed EXCEPT ![e] = @ + 1]
  /\ outcome' = [outcome EXCEPT ![e] = "RESULT"]
  /\ UNCHANGED <<chan, queue, calls, mon, held, pc, cur, mine, emon, sync, early,
                 gone, goneHere>>

(* PR_CEnterMonitor(event) and the placeholder PR_TRUE for the result.     *)
SyncBegin(t, e) ==
  /\ t # Handler /\ MayPost(t, e)
  /\ emon' = [emon EXCEPT ![e] = t] /\ sync' = [sync EXCEPT ![e] = "TRUE"]
  /\ mine' = [mine EXCEPT ![t] = e] /\ used' = used \cup {e}
  /\ GoTo(t, "spost")
  /\ UNCHANGED <<chan, queue, calls, mon, held, cur, handled, freed, outcome,
                 early, gone, goneHere>>

SyncPost(t) ==
  /\ pc[t] = "spost" /\ CanEnter(t)
  /\ queue' = Append(queue, mine[t])
  /\ mon' = t /\ GoTo(t, "swrite")
  /\ UNCHANGED <<chan, calls, held, cur, mine, emon, sync, history>>

(* After the notification the queue's monitor is given up altogether.      *)
SyncWrite(t) ==
  /\ pc[t] = "swrite"
  /\ NativeNotify /\ NotifyHandler(t, "tocwait")
  /\ mon' = NoThread
  /\ UNCHANGED <<alive, native, queue, calls, held, cur, mine, emon, sync, history>>

(* PR_CWait(event): until notified, then with the event's monitor again.   *)
(* It is called once, and not again when an interrupt of the thread or a   *)
(* spurious wake-up ends it before the event was handled or revoked.       *)
SyncWait(t) ==
  /\ pc[t] = "tocwait"
  /\ emon' = [emon EXCEPT ![mine[t]] = NoThread] /\ GoTo(t, "cwait")
  /\ UNCHANGED <<chan, queue, calls, mon, held, cur, mine, sync, history>>

SyncWakeEarly(t) ==
  /\ pc[t] = "cwait"
  /\ early' = early \cup {mine[t]} /\ GoTo(t, "woken")
  /\ UNCHANGED <<chan, queue, calls, mon, held, cur, mine, emon, sync,
                 used, handled, freed, outcome, gone, goneHere>>

SyncWake(t) ==
  /\ pc[t] = "woken" /\ emon[mine[t]] = NoThread
  /\ emon' = [emon EXCEPT ![mine[t]] = t] /\ GoTo(t, "sreturn")
  /\ UNCHANGED <<chan, queue, calls, mon, held, cur, mine, sync, history>>

(* Into the queue's monitor again if the caller was inside; the result is  *)
(* read and reset, the event's monitor left, the event destroyed -- also   *)
(* when it is still queued or being handled.                               *)
SyncReturn(t) ==
  LET e == mine[t] IN
  /\ pc[t] = "sreturn"
  /\ t \in held => mon = NoThread
  /\ mon' = IF t \in held THEN t ELSE mon
  /\ outcome' = [outcome EXCEPT ![e] = sync[e]]
  /\ sync' = [sync EXCEPT ![e] = "NULL"]
  /\ emon' = [emon EXCEPT ![e] = NoThread]
  /\ freed' = [freed EXCEPT ![e] = @ + 1]
  /\ mine' = [mine EXCEPT ![t] = NoEvent] /\ GoTo(t, Home(t))
  /\ UNCHANGED <<chan, queue, calls, held, cur, used, handled, early, gone,
                 goneHere>>

(* PR_CNotify(event): some thread waiting for the event, if one is.        *)
CNotify(e, t, to) ==
  pc' = [u \in Thread |-> IF u = t THEN to
                          ELSE IF pc[u] = "cwait" /\ mine[u] = e THEN "woken" ELSE pc[u]]

--------------------------------------------------------------------------------
(***************************************************************************)
(* The handler thread: PL_ProcessPendingEvents when select() says that the *)
(* pipe is readable (or, for a monitored queue, when it polls), with the   *)
(* monitor entered or not; or PL_EventLoop.                                *)
(***************************************************************************)
ProcessBegin ==
  /\ alive /\ pc[Handler] = "idle"
  /\ native => pipe > 0
  /\ ~processing /\ processing' = TRUE
  /\ inside' = (Handler \in held) /\ GoTo(Handler, "get")
  /\ UNCHANGED <<chan, queue, mon, held, cur, mine, rev, hit, emon, sync, history>>

LoopBegin ==
  /\ alive /\ pc[Handler] = "idle" /\ Handler \notin held
  /\ GoTo(Handler, "wget")
  /\ UNCHANGED <<chan, queue, calls, mon, held, cur, mine, emon, sync, history>>

(* _pl_AcknowledgeNativeNotify: read one token, if one is counted.  Mutant:*)
(* one is read without looking.                                            *)
AcknowledgeUncounted ==
  IF native THEN pipe' = pipe - 1 /\ notifyCount' = notifyCount - 1
  ELSE UNCHANGED <<pipe, notifyCount>>

Acknowledge ==
  IF native /\ notifyCount > 0
  THEN pipe > 0 /\ pipe' = pipe - 1 /\ notifyCount' = notifyCount - 1
  ELSE UNCHANGED <<pipe, notifyCount>>

(* PL_GetEvent, which finds an event ...                                   *)
GetEvent ==
  /\ pc[Handler] \in {"get", "wget"} /\ CanEnter(Handler)
  /\ Acknowledge
  /\ queue # << >> /\ cur' = Head(queue) /\ queue' = Tail(queue)
  /\ GoTo(Handler, "got")
  /\ UNCHANGED <<alive, native, calls, mon, held, mine, emon, sync, history>>

(* ... or none: PL_ProcessPendingEvents returns.                            *)
ProcessEnd ==
  /\ pc[Handler] = "get" /\ CanEnter(Handler)
  /\ Acknowledge
  /\ queue = << >> /\ processing' = FALSE /\ inside' = FALSE /\ GoTo(Handler, "idle")
  /\ UNCHANGED <<alive, native, queue, mon, held, cur, mine, rev, hit, emon, sync,
                 history>>

(* PL_WaitForEvent goes from PL_GetEvent to PR_Wait without leaving the    *)
(* monitor; an interrupt ends it, and PL_EventLoop.                        *)
WaitForEvent ==
  /\ pc[Handler] = "wget" /\ mon = NoThread
  /\ Acknowledge
  /\ queue = << >> /\ GoTo(Handler, "waiting")
  /\ UNCHANGED <<alive, native, queue, calls, mon, held, cur, mine, emon, sync,
                 history>>

WaitInterrupted ==
  /\ pc[Handler] = "waiting" /\ mon = NoThread
  /\ GoTo(Handler, "idle")
  /\ UNCHANGED <<chan, queue, calls, mon, held, cur, mine, emon, sync, history>>

(* PL_HandleEvent: the handler function runs ...                           *)
HandleBegin ==
  /\ pc[Handler] = "got"
  /\ handled' = handled \cup {cur} /\ GoTo(Handler, "handling")
  /\ UNCHANGED <<chan, queue, calls, mon, held, cur, mine, emon, sync, used, freed,
                 outcome, early, gone, goneHere>>

Again == IF processing THEN "get" ELSE "wget"

(* ... and returns: an asynchronous event is destroyed.  Mutant: so is a   *)
(* synchronous one.                                                        *)
HandleEndDestroys ==
  /\ pc[Handler] = "handling" /\ (Handler \in held) = inside
  /\ IF sync[cur] = "NULL" THEN cur' = NoEvent /\ GoTo(Handler, Again)
                           ELSE UNCHANGED cur /\ GoTo(Handler, "reply")
  /\ freed' = [freed EXCEPT ![cur] = @ + 1]
  /\ UNCHANGED <<chan, queue, calls, mon, held, mine, emon, sync, used, handled,
                 outcome, early, gone, goneHere>>

HandleEnd ==
  /\ pc[Handler] = "handling" /\ (Handler \in held) = inside
  /\ IF sync[cur] = "NULL"
     THEN /\ freed' = [freed EXCEPT ![cur] = @ + 1]
          /\ cur' = NoEvent /\ GoTo(Handler, Again)
     ELSE UNCHANGED <<freed, cur>> /\ GoTo(Handler, "reply")
  /\ UNCHANGED <<chan, queue, calls, mon, held, mine, emon, sync, used, handled,
                 outcome, early, gone, goneHere>>

(* For a synchronous event the result is stored in the event's monitor.    *)
Reply ==
  /\ pc[Handler] = "reply" /\ emon[cur] = NoThread
  /\ sync' = [sync EXCEPT ![cur] = "RESULT"]
  /\ CNotify(cur, Handler, Again) /\ cur' = NoEvent
  /\ UNCHANGED <<chan, queue, calls, mon, held, mine, emon, history>>

--------------------------------------------------------------------------------
(***************************************************************************)
(* PL_RevokeEvents: one _pl_DestroyEventForOwner per event of the owner.   *)
(***************************************************************************)
RevokeBegin(t, o) ==
  /\ alive /\ Calls(t) /\ CanEnter(t) /\ o \notin gone
  /\ mon' = t /\ rev' = [rev EXCEPT ![t] = o] /\ GoTo(t, "revoking")
  /\ UNCHANGED <<chan, queue, processing, inside, hit, held, cur, mine, emon, sync,
                 history>>

Revocable(t) == {i \in DOMAIN queue : OwnerOf[queue[i]] = rev[t]}
FirstOf(t) == CHOOSE i \in Revocable(t) : \A j \in Revocable(t) : i <= j

(* Nobody waits for an asynchronous event: it is destroyed.                *)
RevokeAsync(t) ==
  LET e == queue[FirstOf(t)] IN
  /\ pc[t] = "revoking" /\ Revocable(t) # {} /\ sync[e] # "TRUE"
  /\ queue' = RemoveAt(queue, FirstOf(t))
  /\ freed' = [freed EXCEPT ![e] = @ + 1]
  /\ UNCHANGED <<chan, calls, mon, held, pc, cur, mine, emon, sync, used, handled,
                 outcome, early, gone, goneHere>>

(* A synchronous event is taken off the queue and its poster is woken, with *)
(* no result, inside the event's monitor.                                  *)
RevokeSync(t) ==
  LET e == queue[FirstOf(t)] IN
  /\ pc[t] = "revoking" /\ Revocable(t) # {} /\ sync[e] = "TRUE"
  /\ queue' = RemoveAt(queue, FirstOf(t))
  /\ hit' = e /\ GoTo(t, "rnotify")
  /\ UNCHANGED <<chan, processing, inside, rev, mon, held, cur, mine, emon, sync,
                 history>>

(* Mutants: the placeholder stays; nobody is told.                         *)
RevokeNotifyKeepsResult(t) ==
  /\ pc[t] = "rnotify" /\ emon[hit] = NoThread
  /\ CNotify(hit, t, "revoking") /\ hit' = NoEvent
  /\ UNCHANGED <<chan, queue, processing, inside, rev, mon, held, cur, mine, emon, sync,
                 history>>

RevokeNotifySilent(t) ==
  /\ pc[t] = "rnotify" /\ emon[hit] = NoThread
  /\ sync' = [sync EXCEPT ![hit] = "NULL"]
  /\ GoTo(t, "revoking") /\ hit' = NoEvent
  /\ UNCHANGED <<chan, queue, processing, inside, rev, mon, held, cur, mine, emon,
                 history>>

RevokeNotify(t) ==
  /\ pc[t] = "rnotify" /\ emon[hit] = NoThread
  /\ sync' = [sync EXCEPT ![hit] = "NULL"]
  /\ CNotify(hit, t, "revoking") /\ hit' = NoEvent
  /\ UNCHANGED <<chan, queue, processing, inside, rev, mon, held, cur, mine, emon,
                 history>>

Revoked(t) ==
  /\ gone' = gone \cup {rev[t]}
  /\ goneHere' = IF t = Handler THEN goneHere \cup {rev[t]} ELSE goneHere
  /\ rev' = [rev EXCEPT ![t] = NoOwner]
  /\ mon' = AfterExit(t) /\ GoTo(t, Home(t))
  /\ UNCHANGED <<chan, queue, processing, inside, hit, held, cur, mine, emon, sync,
                 used, handled, freed, outcome, early>>

(* Mutant: one event is enough.                                            *)
RevokeEndEarly(t) ==
  /\ pc[t] = "revoking" /\ Revoked(t)

RevokeEnd(t) ==
  /\ pc[t] = "revoking" /\ Revocable(t) = {} /\ Revoked(t)

(***************************************************************************)
(* PL_DestroyEventQueue, and a new queue afterwards                        *)
(***************************************************************************)
DestroyQueue ==
  /\ alive /\ pc[Handler] = "idle" /\ mon = NoThread
  /\ alive' = FALSE /\ queue' = << >> /\ pipe' = 0 /\ notifyCount' = 0
  /\ freed' = [e \in Event |-> freed[e] + (IF Contains(queue, e) THEN 1 ELSE 0)]
  /\ UNCHANGED <<native, calls, mon, held, pc, cur, mine, emon, sync, used,
                 handled, outcome, early, gone, goneHere>>

(* A careful client destroys a queue that no other thread is using.        *)
DestroyUnused == (\A t \in Thread : pc[t] = "idle") /\ held = {} /\ DestroyQueue

CreateQueue ==
  /\ ~alive /\ alive' = TRUE /\ native' \in BOOLEAN
  /\ UNCHANGED <<pipe, notifyCount, queue, calls, mon, held, pc, cur, mine, emon,
                 sync, history>>

--------------------------------------------------------------------------------
Serve == GetEvent \/ ProcessEnd \/ WaitForEvent \/ HandleBegin \/ Reply

(* What a thread does next once it is inside one of these routines.        *)
Progress(t) ==
  \/ t = Handler /\ Serve
  \/ PostWrite(t)
  \/ SyncPost(t) \/ SyncWrite(t) \/ SyncWait(t) \/ SyncWake(t) \/ SyncReturn(t)
  \/ RevokeAsync(t) \/ RevokeSync(t) \/ RevokeNotify(t) \/ RevokeEnd(t)

Next ==
  \/ \E t \in Thread :
       \/ EnterQueue(t) \/ LeaveQueue(t) \/ PostNull(t) \/ Progress(t) \/ SyncWakeEarly(t)
       \/ \E e \in Event : Post(t, e) \/ SyncInline(t, e) \/ SyncBegin(t, e)
       \/ \E o \in Owner : RevokeBegin(t, o)
  \/ ProcessBegin \/ LoopBegin \/ WaitInterrupted \/ HandleEnd
  \/ DestroyUnused \/ CreateQueue

(* Every thread runs and gets the monitors it asks for, a client leaves the*)
(* monitor it has entered, whatever it does to the queue inside, handler   *)
(* functions return, and the handler thread goes back to its queue.        *)
Fairness ==
  /\ \A t \in Thread : SF_vars(Progress(t)) /\ WF_vars(LeaveQueue(t))
  /\ SF_vars(LeaveQueue(Handler))
  /\ SF_vars(HandleEnd) /\ SF_vars(ProcessBegin)

Spec == Init /\ [][Next]_vars /\ Fairness

(* The handler thread destroys its queue while posters wait for a result.  *)
DestroyAwaited == (\A t \in Thread : pc[t] \in {"idle", "cwait"}) /\ DestroyQueue
DestroySpec == Init /\ [][Next \/ DestroyAwaited]_vars /\ Fairness

--------------------------------------------------------------------------------
SyncPcs == {"spost", "swrite", "tocwait", "cwait", "woken", "sreturn"}
HandlerPcs == {"get", "wget", "waiting", "got", "handling", "reply"}
Pcs == {"idle", "write", "revoking", "rnotify"} \cup SyncPcs \cup HandlerPcs

(* Every variable has its type; notifyCount never goes below zero.         *)
TypeOK ==
  /\ alive \in BOOLEAN /\ native \in BOOLEAN
  /\ processing \in BOOLEAN /\ inside \in BOOLEAN
  /\ queue \in Seq(Event) /\ pipe \in 0..PipeCap /\ notifyCount \in Nat
  /\ mon \in Thread \cup {NoThread} /\ held \subseteq Thread
  /\ pc \in [Thread -> Pcs] /\ cur \in Event \cup {NoEvent}
  /\ mine \in [Thread -> Event \cup {NoEvent}]
  /\ rev \in [Thread -> Owner \cup {NoOwner}] /\ hit \in Event \cup {NoEvent}
  /\ emon \in [Event -> Thread \cup {NoThread}]
  /\ sync \in [Event -> {"NULL", "TRUE", "RESULT"}]
  /\ used \subseteq Event /\ handled \subseteq Event /\ freed \in [Event -> Nat]
  /\ outcome \in [Event -> {"none", "NULL", "TRUE", "RESULT"}]
  /\ early \subseteq Event /\ gone \subseteq Owner /\ goneHere \subseteq Owner

Writers == {t \in Thread : pc[t] \in {"write", "swrite"}}

(* Whenever events are queued the handler's select() will fire: as many    *)
(* tokens are in the pipe as notifyCount says -- so the read in            *)
(* _pl_AcknowledgeNativeNotify never blocks with the monitor held -- and   *)
(* no event lacks one, but for the event just appended by a thread that is *)
(* about to write, whatever was revoked or posted as NULL meanwhile.       *)
TokensMatch ==
  native => /\ notifyCount = pipe
            /\ Len(queue) <= pipe + (IF Writers = {} THEN 0 ELSE 1)

(* An event is destroyed at most once, by the one thread that the protocol *)
(* of synchronousResult makes responsible, and after that it is in no      *)
(* queue, in no handler and in no pending synchronous post; excepted are   *)
(* the events whose poster has come back with the placeholder.             *)
EventLifecycle ==
  \A e \in Event : outcome[e] # "TRUE" =>
    /\ freed[e] <= 1
    /\ freed[e] = 1 => ~Contains(queue, e) /\ cur # e /\ \A t \in Thread : mine[t] # e

(* PL_PostSynchronousEvent returns the handler's value if the event has    *)
(* been handled and NULL if it was revoked; the placeholder only if its    *)
(* wait has ended early, though by its comment the wait lasts until the    *)
(* event is handled or destroyed.                                          *)
SyncOutcome ==
  \A e \in Event :
    /\ outcome[e] = "TRUE" => e \in early
    /\ outcome[e] \in {"NULL", "RESULT"} =>
         outcome[e] = IF e \in handled THEN "RESULT" ELSE "NULL"

(* Once PL_RevokeEvents has returned no event of that owner is queued; and *)
(* if it was called on the handler thread, none will be handled.           *)
RevokedByHandler ==
  /\ \A i \in DOMAIN queue : OwnerOf[queue[i]] \notin gone
  /\ pc[Handler] = "got" => OwnerOf[cur] \notin goneHere

(* A poster whose wait has ended early has the event's monitor and waits   *)
(* for the queue's, while a thread that has the queue's -- a revoker, or   *)
(* the handler processing inside it -- waits for the event's.              *)
Embrace ==
  \E t \in Thread :
    /\ pc[t] = "sreturn" /\ t \in held
    /\ hit = mine[t] \/ (inside /\ pc[Handler] = "reply" /\ cur = mine[t])

(* Every event that is posted is in the end handled or discarded and its   *)
(* memory released: no notification is lost, the handler never sleeps on a *)
(* queue with events, and nobody blocks for good -- but in an embrace.     *)
(* (For each event, e \in used ~> freed[e] > 0; what is posted and freed   *)
(* stays so.)                                                              *)
EveryEventDisposed == []<>(Embrace \/ \A e \in used : freed[e] > 0)

(* A thread in PL_PostSynchronousEvent returns, but for an embrace.        *)
SyncReturns == \A t \in Thread : mine[t] # NoEvent ~> mine[t] = NoEvent \/ Embrace
================================================================================
