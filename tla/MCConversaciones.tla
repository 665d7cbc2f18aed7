--------------------------- MODULE MCConversaciones ---------------------------
(* Model checking of Conversaciones: three processes, so that two file      *)
(* threads can wait while corto opens a file or compacts for the third.     *)
EXTENDS Conversaciones, TLC

Simetria == Permutations(PROCESOS)
=============================================================================
