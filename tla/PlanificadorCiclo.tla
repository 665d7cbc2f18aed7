-------------------------- MODULE PlanificadorCiclo --------------------------
(***************************************************************************)
(* The kernel's schedulers implement the life cycle of a process.          *)
(***************************************************************************)
EXTENDS Planificador

(* The state of a process as the log tells it.  A process that a thread    *)
(* carries from one list to another is still in the state it leaves, and   *)
(* one that is in EXIT before it leaves the CPU is already in EXIT.        *)
EstadoDe(p) ==
  CASE p \in finalizados                         -> "FIN"
    [] p \in Cola(cola_EXIT)                     -> "EXIT"
    [] RUNNING = p /\ p \notin Cola(cola_EXIT)   -> "RUNNING"
    [] corto = "yield_encolar" /\ r_pcb = p      -> "RUNNING"
    [] hilo[p] = "bloqueado"                     -> "BLOQUEADO"
    [] p \in Cola(cola_READY)                    -> "READY"
    [] p \in Cola(cola_NEW) \/ new_pcb = p       -> "NEW"
    [] OTHER                                     -> "ninguno"

Ciclo == INSTANCE CicloDeVida WITH estado <- [p \in PROCESOS |-> EstadoDe(p)]

(* The kernel's threads implement the life cycle: every step of a thread   *)
(* is one transition of one process or none, at most one process is on the *)
(* CPU, and the degree is respected from the NEW list to the last log.     *)
CumpleCiclo == Ciclo!Spec
=============================================================================
