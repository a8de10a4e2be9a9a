----------------------------- MODULE MCSambaLooper -----------------------------
(* SambaLooper for TLC.  Callers and values are interchangeable, but symmetry  *)
(* would not be sound for EveryCallReturns.                                    *)
EXTENDS SambaLooper
===============================================================================
