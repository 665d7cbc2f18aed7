---------------------------- MODULE CicloDeVida -----------------------------
(***************************************************************************)
(* What the kernel promises of a process, whatever threads and semaphores  *)
(* it is built from: the state changes that loggear_cambio_estado reports, *)
(* one process on the CPU, and no more admitted processes than the         *)
(* configured degree of multiprogramming.                                  *)
(***************************************************************************)
EXTENDS Integers, FiniteSets

CONSTANTS PROCESOS, GRADO_MAX_MULTIPROGRAMACION

VARIABLE estado

Estados == {"ninguno", "NEW", "READY", "RUNNING", "BLOQUEADO", "EXIT", "FIN"}

En(e) == {p \in PROCESOS : estado[p] = e}

Init == estado = [p \in PROCESOS |-> "ninguno"]

Pasa(p, de, a) == estado[p] = de /\ estado' = [estado EXCEPT ![p] = a]

Crear(p) == Pasa(p, "ninguno", "NEW")

Admitir(p) ==
  /\ Cardinality(En("READY") \union En("RUNNING") \union En("BLOQUEADO"))
       < GRADO_MAX_MULTIPROGRAMACION
  /\ Pasa(p, "NEW", "READY")

Despachar(p) ==
  /\ En("RUNNING") = {}
  /\ Pasa(p, "READY", "RUNNING")

Desalojar(p) == Pasa(p, "RUNNING", "READY")
Bloquear(p) == Pasa(p, "RUNNING", "BLOQUEADO")
Desbloquear(p) == Pasa(p, "BLOQUEADO", "READY")
Salir(p) == Pasa(p, "RUNNING", "EXIT")
Finalizar(p) == Pasa(p, "EXIT", "FIN")

Next == \E p \in PROCESOS :
  \/ Crear(p) \/ Admitir(p) \/ Despachar(p) \/ Desalojar(p) \/ Bloquear(p)
  \/ Desbloquear(p) \/ Salir(p) \/ Finalizar(p)

Spec == Init /\ [][Next]_estado
=============================================================================
