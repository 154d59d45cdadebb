------------------------------ MODULE MCDocLoader ------------------------------
(* Instances of DocLoader for TLC.                                         *)
EXTENDS DocLoader

CONSTANTS root, shell, frame, d1, d2, d3, b1

Loaders == {root, shell, frame}
Chain == [l \in Loaders \ {root} |-> IF l = frame THEN shell ELSE root]
Loads == {d1, d2, d3, b1}
InBackground == {b1}
================================================================================
