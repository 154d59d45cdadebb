----------------------------- MODULE AbstractLock -----------------------------
(***************************************************************************)
(* What a lock promises (js/src/jslock.h, JS_LOCK and JS_UNLOCK): between  *)
(* the two calls a thread is alone.  Nothing is said about who is next.    *)
(***************************************************************************)
CONSTANT Thread
VARIABLE inside \* threads between the return of JS_LOCK and the release

Init == inside = {}

Acquire(t) == inside = {} /\ inside' = {t}
Release(t) == inside = {t} /\ inside' = {}

Next == \E t \in Thread : Acquire(t) \/ Release(t)
Spec == Init /\ [][Next]_inside
================================================================================
