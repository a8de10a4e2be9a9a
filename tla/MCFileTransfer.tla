------------------------------ MODULE MCFileTransfer ------------------------------
(* Instances of FileTransfer for TLC.                                            *)
EXTENDS FileTransfer

Symmetry == Permutations(Transfers) \cup Permutations(Buffers) \cup Permutations(Blocks)
===============================================================================
