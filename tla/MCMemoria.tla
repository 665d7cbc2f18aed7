----------------------------- MODULE MCMemoria ------------------------------
(***************************************************************************)
(* Small instances of Memoria: two processes with two segments each.       *)
(***************************************************************************)
EXTENDS Memoria, TLC

Simetria == Permutations(PIDS)
=============================================================================
