------------------------------ MODULE MCCMonCache ------------------------------
(* An instance of CMonCache for TLC: two entries to begin with, so that    *)
(* the second and the third address make the cache grow.                   *)
EXTENDS CMonCache, TLC

CONSTANTS t1, t2, t3

TwoThreads == {t1, t2}
ThreeThreads == {t1, t2, t3}
Symmetry == Permutations(Thread)
================================================================================
