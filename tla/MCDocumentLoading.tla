---------------------------- MODULE MCDocumentLoading ----------------------------
(* DocumentLoading for TLC.  Nothing tells clients, files or task objects   *)
(* apart, but the runs check liveness, for which symmetry is not sound.     *)
EXTENDS DocumentLoading
===============================================================================
