------------------------------ MODULE MCPtMonitor ------------------------------
(* Instances of PtMonitor for TLC.                                         *)
EXTENDS PtMonitor, TLC

CONSTANTS t1, t2, t3

TwoThreads == {t1, t2}
ThreeThreads == {t1, t2, t3}
OneInterrupter == {t1}

Symmetry == Permutations(Thread \ Interrupters)
================================================================================
