------------------------------ MODULE MCMemCache ------------------------------
(* Instances of MemCache for TLC: two copies of one document.              *)
EXTENDS MemCache

CONSTANTS old, new, page, r1, r2

Copies == {old, new}
Keyed == [c \in Copies |-> page]
Sizes == [c \in Copies |-> 2]
================================================================================
