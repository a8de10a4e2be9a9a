----------------------------- MODULE MCSambaSession -----------------------------
(* SambaSession for TLC. *)
EXTENDS SambaSession, TLC

MCConfigurations == Files
MCNoConfiguration == NoFile

Symmetry == Permutations(Names)
===============================================================================
