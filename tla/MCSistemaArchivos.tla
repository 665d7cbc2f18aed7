-------------------------- MODULE MCSistemaArchivos --------------------------
(* Model checking of SistemaArchivos.  Blocks of 8 bytes hold 2 pointers: a *)
(* file has at most 3 blocks.  A full file, and one of one block that has   *)
(* kept its indirect block, fill the 6 blocks exactly.  Positions and       *)
(* amounts are on, before and after the edges of the blocks.                *)
EXTENDS SistemaArchivos

PosicionesMC == {0, 1, 8, 23}
Simetria == Permutations(ARCHIVOS)
=============================================================================
