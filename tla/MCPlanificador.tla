--------------------------- MODULE MCPlanificador ---------------------------
(***************************************************************************)
(* Small instances of Planificador: each console sends one process.        *)
(***************************************************************************)
EXTENDS PlanificadorCiclo, TLC

(* The processes are interchangeable: only safety runs use it.             *)
Simetria == Permutations(PROCESOS)
=============================================================================
