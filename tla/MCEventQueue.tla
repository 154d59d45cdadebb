------------------------------ MODULE MCEventQueue ------------------------------
(* Instances of EventQueue for TLC.                                        *)
EXTENDS EventQueue, TLC

CONSTANTS h, p, q, a, b, o

TwoThreads == {h, p}
ThreeThreads == {h, p, q}
TwoEvents == {a, b}

(* One event that its owner may revoke and one that has no owner.          *)
Owners == a :> o @@ b :> NoOwner
================================================================================
