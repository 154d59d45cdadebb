------------------------------- MODULE DocLoader -------------------------------
(***************************************************************************)
(* Document loaders and the web shells that watch them (webshell/src/      *)
(* nsDocLoader.cpp, nsWebShell.cpp).  A loader counts the URLs it is       *)
(* loading; when the last foreground one has ended, and no loader below it *)
(* is busy, it reports the end of the document to its web shell, and the   *)
(* loader above looks whether it has ended too.                            *)
(*                                                                         *)
(* There is one thread.  The notifications call clients, which load more   *)
(* URLs, run the network (so that other loads end), and make and destroy   *)
(* frames: `stack' holds the notifications that are going on, innermost    *)
(* first.  The root loader is the service, without a web shell.            *)
(***************************************************************************)
EXTENDS Integers, FiniteSets, Sequences

CONSTANTS
  Loader, Root,
  Parent,     \* the loader above each loader but the root
  Load,       \* loads, each tried once (nsDocumentBindInfo)
  Background, \* those whose load type is nsURLLoadBackground
  None,
  MaxFailed,  \* bound on loads that cannot be started
  MaxDepth    \* bound on notifications within notifications

ASSUME TreeAssumption ==
  /\ IsFiniteSet(Loader) /\ Root \in Loader
  /\ Parent \in [Loader \ {Root} -> Loader]
ASSUME LoadAssumption ==
  /\ IsFiniteSet(Load) /\ Background \subseteq Load
  /\ None \notin Loader /\ MaxFailed \in Nat /\ MaxDepth \in Nat \ {0}

VARIABLES
  alive,      \* loaders that exist; each is in the list of its parent
  owner,      \* the loader whose m_LoadingDocsList each load is in
  tried,      \* loads that have been made
  running,    \* loads the network is working on
  fg, total,  \* mForegroundURLs, mTotalURLs
  processed,  \* mProcessedEndDocumentLoad of the loader's web shell
  stack,      \* notifications in progress
  begun,      \* loaders whose shell last asked for a foreground document
  overlapped, \* loaders whose counts were reset while loads were pending
  failed      \* loads that could not be started

vars == <<alive, owner, tried, running, fg, total, processed, stack, begun,
          overlapped, failed>>

Init ==
  /\ alive = {Root} /\ owner = [x \in Load |-> None]
  /\ tried = {} /\ running = {}
  /\ fg = [l \in Loader |-> 0] /\ total = [l \in Loader |-> 0]
  /\ processed = [l \in Loader |-> FALSE] /\ stack = <<>>
  /\ begun = {} /\ overlapped = {} /\ failed = 0

--------------------------------------------------------------------------------
Foreground == Load \ Background
Pending(l) == {x \in Load : owner[x] = l}

(* The loaders from l up to the root, and those from l down.               *)
UpTo(S) == \A k \in S \ {Root} : Parent[k] \in S
Above ==
  [l \in Loader |->
     {k \in Loader : \A S \in SUBSET Loader : l \in S /\ UpTo(S) => k \in S}]
Below(l) == {k \in alive : l \in Above[k]}

(* IsBusy: the loader itself, or one below it.  Mutant: itself only.       *)
BusyAlone(l) == fg[l] # 0
IsBusy(l) == \E k \in Below(l) : fg[k] # 0

Top == Head(stack)
Doing(op) == stack # <<>> /\ Top.op = op
Call(op, at, x) == [op |-> op, at |-> at, load |-> x]
Return == stack' = Tail(stack)

--------------------------------------------------------------------------------
(* CreateDocumentLoader; a web shell registers as its observer.            *)
CreateDocumentLoader(l) ==
  /\ l \notin alive /\ Parent[l] \in alive
  /\ alive' = alive \cup {l}
  /\ fg' = [fg EXCEPT ![l] = 0] /\ total' = [total EXCEPT ![l] = 0]
  /\ processed' = [processed EXCEPT ![l] = FALSE]
  /\ UNCHANGED <<owner, tried, running, stack, begun, overlapped, failed>>

(* The loader goes with its last reference.  Its loads hold one each, and  *)
(* so do the loaders below it and the notifications it is sending.         *)
(* Mutant: the loads hold none.                                            *)
Deleted(l) ==
  /\ alive' = alive \ {l}
  /\ begun' = begun \ {l}
  /\ UNCHANGED <<owner, tried, running, fg, total, processed, stack, overlapped,
                 failed>>

DestroyLoading(l) ==
  /\ l \in alive \ {Root} /\ Below(l) = {l}
  /\ \A i \in DOMAIN stack : stack[i].at # l
  /\ Deleted(l)

Destroy(l) ==
  /\ l \in alive \ {Root} /\ Below(l) = {l} /\ Pending(l) = {}
  /\ \A i \in DOMAIN stack : stack[i].at # l
  /\ Deleted(l)

(* nsWebShell::DoLoadURL and LoadDocument.  Stop, which the shell calls    *)
(* first, does nothing; the counts are set, not added to.                  *)
LoadDocument(l, x) ==
  /\ l \in alive \ {Root} /\ x \notin tried /\ Len(stack) < MaxDepth
  /\ tried' = tried \cup {x} /\ owner' = [owner EXCEPT ![x] = l]
  /\ processed' = [processed EXCEPT ![l] = FALSE]
  /\ fg' = IF x \in Background THEN fg ELSE [fg EXCEPT ![l] = 1]
  /\ total' = [total EXCEPT ![l] = 1]
  /\ begun' = IF x \in Background THEN begun \ {l} ELSE begun \cup {l}
  /\ overlapped' = overlapped \cup {k \in {l} : Pending(k) # {}}
  /\ stack' = <<Call("starting", l, x)>> \o stack \* FireOnStartDocumentLoad
  /\ UNCHANGED <<alive, running, failed>>

(* nsINetService::OpenStream, at the end of Bind: the network has started, *)
(* or refuses, which changes nothing in the loader.                        *)
NetOpens(x) ==
  \/ running' = running \cup {x} /\ UNCHANGED failed
  \/ failed < MaxFailed /\ failed' = failed + 1 /\ UNCHANGED running

Bind ==
  /\ Doing("starting") /\ NetOpens(Top.load) /\ Return
  /\ UNCHANGED <<alive, owner, tried, fg, total, processed, begun, overlapped>>

(* OpenStream of the loader: one more URL of the document.  Mutant: it is  *)
(* counted only when it has been opened.                                   *)
Opening(l, x) ==
  /\ l \in alive \ {Root} /\ x \notin tried
  /\ tried' = tried \cup {x} /\ owner' = [owner EXCEPT ![x] = l]
  /\ NetOpens(x)
  /\ UNCHANGED <<alive, processed, stack, begun, overlapped>>

OpenStreamUncounted(l, x) ==
  /\ Opening(l, x)
  /\ IF x \in running' /\ x \notin Background
     THEN fg' = [fg EXCEPT ![l] = @ + 1] ELSE UNCHANGED fg
  /\ total' = [total EXCEPT ![l] = @ + 1]

OpenStream(l, x) ==
  /\ Opening(l, x)
  /\ fg' = IF x \in Background THEN fg ELSE [fg EXCEPT ![l] = @ + 1]
  /\ total' = [total EXCEPT ![l] = @ + 1]

--------------------------------------------------------------------------------
(* OnStopBinding and LoadURLComplete: the load leaves the list and the     *)
(* counts, and the observers are told of the end of the URL.               *)
LoadURLComplete(x) ==
  LET l == owner[x] IN
  /\ x \in running /\ Len(stack) < MaxDepth
  /\ running' = running \ {x} /\ owner' = [owner EXCEPT ![x] = None]
  /\ fg' = IF x \in Background THEN fg ELSE [fg EXCEPT ![l] = @ - 1]
  /\ total' = [total EXCEPT ![l] = @ - 1]
  /\ stack' = <<Call("endURL", l, x)>> \o stack
  /\ UNCHANGED <<alive, tried, processed, begun, overlapped, failed>>

(* FireOnEndDocumentLoad: the web shell passes the first report on to its  *)
(* container (EndLoadURL).                                                 *)
FireOnEndDocumentLoad(l, x) ==
  /\ stack' = <<Call("endDoc", l, x)>> \o Tail(stack)
  /\ processed' = [processed EXCEPT ![l] = TRUE]

(* When they have returned, a foreground URL that was the last ends the    *)
(* document.  Mutants: background URLs are waited for, too; whether the    *)
(* loader is busy is not asked again.                                      *)
EndURLReturnsTotal ==
  /\ Doing("endURL")
  /\ IF Top.load \in Foreground /\ ~IsBusy(Top.at) /\ total[Top.at] = 0
     THEN FireOnEndDocumentLoad(Top.at, Top.load)
     ELSE Return /\ UNCHANGED processed
  /\ UNCHANGED <<alive, owner, tried, running, fg, total, begun, overlapped,
                 failed>>

EndURLReturns ==
  /\ Doing("endURL")
  /\ IF Top.load \in Foreground /\ ~IsBusy(Top.at)
     THEN FireOnEndDocumentLoad(Top.at, Top.load)
     ELSE Return /\ UNCHANGED processed
  /\ UNCHANGED <<alive, owner, tried, running, fg, total, begun, overlapped,
                 failed>>

(* ChildDocLoaderFiredEndDocumentLoad: the loader above may have ended     *)
(* with it.  Mutant: it is asked only when it has loads of its own left.   *)
EndDocReturnsIdle ==
  /\ Doing("endDoc")
  /\ IF Top.at # Root /\ Pending(Parent[Top.at]) # {} /\ ~IsBusy(Parent[Top.at])
     THEN FireOnEndDocumentLoad(Parent[Top.at], Top.load)
     ELSE Return /\ UNCHANGED processed
  /\ UNCHANGED <<alive, owner, tried, running, fg, total, begun, overlapped,
                 failed>>

EndDocReturns ==
  /\ Doing("endDoc")
  /\ IF Top.at # Root /\ ~IsBusy(Parent[Top.at])
     THEN FireOnEndDocumentLoad(Parent[Top.at], Top.load)
     ELSE Return /\ UNCHANGED processed
  /\ UNCHANGED <<alive, owner, tried, running, fg, total, begun, overlapped,
                 failed>>

--------------------------------------------------------------------------------
Client ==
  \/ \E l \in Loader \ {Root} :
       \/ CreateDocumentLoader(l) \/ Destroy(l)
       \/ \E x \in Load : LoadDocument(l, x) \/ OpenStream(l, x)
  \/ \E x \in Load : LoadURLComplete(x)
Notification == Bind \/ EndURLReturns \/ EndDocReturns

Next == Client \/ Notification

Spec == Init /\ [][Next]_vars

(* Fairness: clients return from the notifications, and the network ends   *)
(* every load it has started.                                              *)
Fairness == WF_vars(Notification) /\ WF_vars(\E x \in Load : LoadURLComplete(x))
FairSpec == Spec /\ Fairness

--------------------------------------------------------------------------------
TypeOK ==
  /\ Root \in alive /\ alive \subseteq Loader /\ begun \subseteq alive
  /\ \A l \in alive \ {Root} : Parent[l] \in alive
  /\ owner \in [Load -> alive \cup {None}]
  /\ running \subseteq tried /\ tried \subseteq Load
  /\ fg \in [Loader -> Int] /\ total \in [Loader -> Int]
  /\ processed \in [Loader -> BOOLEAN] /\ overlapped \subseteq Loader
  /\ stack \in Seq([op : {"starting", "endURL", "endDoc"}, at : alive,
                    load : Load])
  /\ failed \in 0..MaxFailed

(* The counts are the loads in the list, through any nesting of loads that *)
(* end while others are being reported, as long as no document has been    *)
(* asked for while loads were pending.                                     *)
CountsMatch ==
  \A l \in alive \ overlapped :
    /\ fg[l] = Cardinality(Pending(l) \ Background)
    /\ total[l] = Cardinality(Pending(l))

(* Counts of l, or of a loader that is or was below it, have been reset.   *)
Overlapped(l) == \E k \in overlapped : l \in Above[k]

(* The container of a web shell that has asked for a document has been     *)
(* told that it has ended once the loader, and all below it, are idle and  *)
(* nobody is in the middle of a notification, as long as none of them has  *)
(* been asked for a document over pending loads.                           *)
EndReported ==
  stack = <<>> =>
    \A l \in begun : IsBusy(l) \/ processed[l] \/ Overlapped(l)

Loading(l) == \E k \in Below(l) : Pending(k) \ Background # {}

(* It is not told so while a foreground URL of the document or of a frame  *)
(* in it is loading, unless a document was asked for over pending loads.   *)
ToldWhenLoaded ==
  [][\A l \in Loader : ~processed[l] /\ processed'[l] =>
       ~Loading(l)' \/ Overlapped(l)]_vars

(* Every document ends, unless a load of it or of a frame could not be     *)
(* started, or was forgotten when another document was asked for.          *)
Lost(l) ==
  Overlapped(l) \/ \E k \in Below(l) : ~(Pending(k) \subseteq running)
EveryDocumentEnds ==
  \A l \in Loader :
    l \in begun ~> l \notin begun \/ processed[l] \/ (stack = <<>> /\ Lost(l))
================================================================================
