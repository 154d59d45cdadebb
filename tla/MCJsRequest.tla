------------------------------ MODULE MCJsRequest ------------------------------
(* Instances of JsRequest for TLC.                                         *)
EXTENDS JsRequest

CONSTANTS t1, t2, t3

TwoThreads == {t1, t2}
ThreeThreads == {t1, t2, t3}
================================================================================
