------------------------------ MODULE MCThinLock ------------------------------
(* Constants of ThinLock for TLC.                                          *)
EXTENDS ThinLock, TLC
CONSTANTS a, b, c
MCThread == {a, b, c}
================================================================================
