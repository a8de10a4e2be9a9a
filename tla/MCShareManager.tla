----------------------------- MODULE MCShareManager -----------------------------
(* Instances of ShareManager for TLC.                                          *)
EXTENDS ShareManager, TLC

CONSTANTS u1, u2, good, bad

(* u1 wants a password, u2 lets guests in as well. *)
MCAccepts == [u \in Uris |-> IF u = u1 THEN {good} ELSE {good, NoCredential}]

Symmetry == Permutations(Tasks)
===============================================================================
