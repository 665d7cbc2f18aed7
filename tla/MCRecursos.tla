----------------------------- MODULE MCRecursos -----------------------------
(***************************************************************************)
(* Small instances of Recursos with TablaArchivos.                         *)
(***************************************************************************)
EXTENDS TablaArchivos, TLC

CONSTANT SIN_INSTANCIAS   \* the resource that kernel.config gives none

(* One instance of each other resource.                                    *)
UnaDeCada == [r \in RECURSOS |-> IF r = SIN_INSTANCIAS THEN 0 ELSE 1]

Simetria ==
  Permutations(PROCESOS) \union Permutations(RECURSOS \ {SIN_INSTANCIAS})
    \union Permutations(ARCHIVOS)
=============================================================================
