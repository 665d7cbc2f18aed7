------------------------------ MODULE Recursos ------------------------------
(***************************************************************************)
(* The kernel's resources (src/kernel/src/core.c): WAIT, SIGNAL and the    *)
(* release of a process's resources when it ends.  Only the short-term     *)
(* thread runs this code, one call after another; the release at the end   *)
(* of a process is taken apart into its loop iterations because the loop   *)
(* reads a list that the signals of its own body shorten.  READY is a set: *)
(* which of its processes runs next does not matter here.                  *)
(***************************************************************************)
EXTENDS Integers, SequencesExt

CONSTANTS PROCESOS, NULO,
          RECURSOS,          \* the names of kernel.config
          INSTANCIAS,        \* kernel.config INSTANCIAS_RECURSOS
          DESCONOCIDO,       \* a name that is not in kernel.config
          LARGO_PROGRAMA     \* bound: WAITs and SIGNALs of a process

ASSUME SupuestoRecursos ==
  /\ NULO \notin PROCESOS /\ DESCONOCIDO \notin RECURSOS
  /\ INSTANCIAS \in [RECURSOS -> Nat]
  /\ LARGO_PROGRAMA \in Nat

(* As many processes as consoles have connected.                           *)
ASSUME SupuestoProcesos == IsFiniteSet(PROCESOS)

VARIABLES
  instancias_disponibles,  \* of each resource, negative when processes wait
  cola_bloqueados,         \* of each resource
  recursos_asignados,      \* of each process: [nombre, instancias_asignadas]
  READY, RUNNING,
  fin,                     \* the loop of terminar_proceso that is running
  llamadas,                \* WAITs and SIGNALs made by each process
  regalos                  \* history: SIGNALs of each resource by processes
                           \* that had none of it

vars == <<instancias_disponibles, cola_bloqueados, recursos_asignados, READY,
          RUNNING, fin, llamadas, regalos>>

SinFin == [paso |-> "no"]

Init ==
  /\ instancias_disponibles = INSTANCIAS
  /\ cola_bloqueados = [r \in RECURSOS |-> <<>>]
  /\ recursos_asignados = [p \in PROCESOS |-> <<>>]
  /\ READY = PROCESOS /\ RUNNING = NULO
  /\ fin = SinFin
  /\ llamadas = [p \in PROCESOS |-> 0]
  /\ regalos = [r \in RECURSOS |-> 0]

-----------------------------------------------------------------------------
(* recurso_asignado: the position of r in the list of p, 0 for -1.         *)
Indice(p, r) == SelectInSeq(recursos_asignados[p], LAMBDA a : a.nombre = r)

Asignar(p, r) ==
  LET s == recursos_asignados[p]  i == Indice(p, r)
  IN  recursos_asignados' = [recursos_asignados EXCEPT ![p] =
        IF i = 0 THEN Append(s, [nombre |-> r, instancias_asignadas |-> 1])
                 ELSE [s EXCEPT ![i].instancias_asignadas = @ + 1]]

(* Mutant of Desasignar: the element stays in the list with 0 instances.   *)
DesasignarSinQuitar(p, r) ==
  LET s == recursos_asignados[p]  i == Indice(p, r)
  IN  recursos_asignados' = [recursos_asignados EXCEPT ![p] =
        IF i = 0 THEN s ELSE [s EXCEPT ![i].instancias_asignadas = @ - 1]]

Desasignar(p, r) ==
  LET s == recursos_asignados[p]  i == Indice(p, r)
  IN  recursos_asignados' = [recursos_asignados EXCEPT ![p] =
        IF i = 0 THEN s
        ELSE IF s[i].instancias_asignadas = 1 THEN RemoveAt(s, i)
        ELSE [s EXCEPT ![i].instancias_asignadas = @ - 1]]

(* Mutant of SignalRecurso: nobody is woken.                               *)
SignalSinDespertar(p, r) ==
  /\ Desasignar(p, r)
  /\ instancias_disponibles' = [instancias_disponibles EXCEPT ![r] = @ + 1]
  /\ UNCHANGED <<cola_bloqueados, READY>>

(* signal_recurso on a resource of the configuration.                      *)
SignalRecurso(p, r) ==
  /\ Desasignar(p, r)
  /\ instancias_disponibles' = [instancias_disponibles EXCEPT ![r] = @ + 1]
  /\ IF cola_bloqueados[r] # <<>>
       THEN /\ cola_bloqueados' = [cola_bloqueados EXCEPT ![r] = Tail(@)]
            /\ READY' = READY \union {Head(cola_bloqueados[r])}
       ELSE UNCHANGED <<cola_bloqueados, READY>>

(* terminar_proceso: desalojar, then the loop over the resources.          *)
ComenzarFin(p) ==
  /\ RUNNING' = NULO
  /\ fin' = [paso |-> "externo", pid |-> p, i |-> 0,
             cant |-> Len(recursos_asignados[p])]

-----------------------------------------------------------------------------
Despachar ==
  /\ RUNNING = NULO /\ fin = SinFin
  /\ \E p \in READY : RUNNING' = p /\ READY' = READY \ {p}
  /\ UNCHANGED <<instancias_disponibles, cola_bloqueados, recursos_asignados,
                 fin, llamadas, regalos>>

Llamada(p) ==
  /\ RUNNING = p /\ fin = SinFin
  /\ llamadas[p] < LARGO_PROGRAMA
  /\ llamadas' = [llamadas EXCEPT ![p] = @ + 1]

(* instancias_disponibles < 0 once discounted; and its mutant, which looks *)
(* before it discounts.                                                    *)
FaltabaAntes(r) == instancias_disponibles[r] < 0
Falta(r) == instancias_disponibles[r] - 1 < 0

Bloquear(p, r) ==
  /\ cola_bloqueados' = [cola_bloqueados EXCEPT ![r] = Append(@, p)]
  /\ RUNNING' = NULO

(* wait_recurso: the instance is discounted and noted as the process's     *)
(* also when the process has to wait for it.                               *)
Wait(p, r) ==
  /\ Llamada(p)
  /\ instancias_disponibles' = [instancias_disponibles EXCEPT ![r] = @ - 1]
  /\ Asignar(p, r)
  /\ IF Falta(r) THEN Bloquear(p, r)
                 ELSE UNCHANGED <<cola_bloqueados, RUNNING>>
  /\ UNCHANGED <<READY, fin, regalos>>

(* SIGNAL.  The process need not have the resource.                        *)
Signal(p, r) ==
  /\ Llamada(p)
  /\ SignalRecurso(p, r)
  /\ regalos' = IF Indice(p, r) = 0 THEN [regalos EXCEPT ![r] = @ + 1]
                                    ELSE regalos
  /\ UNCHANGED <<RUNNING, fin>>

(* WAIT or SIGNAL of a name buscar_recurso_por_nombre does not find, and   *)
(* EXIT: the process ends.                                                 *)
LlamadaDesconocida(p, r) ==
  /\ r \notin RECURSOS
  /\ Llamada(p)
  /\ ComenzarFin(p)
  /\ UNCHANGED <<instancias_disponibles, cola_bloqueados, recursos_asignados,
                 READY, regalos>>

Exit(p) ==
  /\ RUNNING = p /\ fin = SinFin
  /\ ComenzarFin(p)
  /\ UNCHANGED <<instancias_disponibles, cola_bloqueados, recursos_asignados,
                 READY, llamadas, regalos>>

Yield(p) ==
  /\ RUNNING = p /\ fin = SinFin
  /\ RUNNING' = NULO /\ READY' = READY \union {p}
  /\ UNCHANGED <<instancias_disponibles, cola_bloqueados, recursos_asignados,
                 fin, llamadas, regalos>>

-----------------------------------------------------------------------------
(* Mutant of QuedaRecurso: one iteration too many.                         *)
QuedaRecursoDeMas == fin.i <= fin.cant

QuedaRecurso == fin.i < fin.cant

(* for (i = 0; i < cant; i++): list_get(recursos_asignados, i), which is   *)
(* NULL past the end of the list and is dereferenced.                      *)
FinExterno ==
  /\ fin.paso = "externo"
  /\ QuedaRecurso
  /\ IF fin.i < Len(recursos_asignados[fin.pid])
       THEN LET a == recursos_asignados[fin.pid][fin.i + 1]
            IN  fin' = [paso |-> "interno", pid |-> fin.pid, i |-> fin.i,
                        cant |-> fin.cant, nombre |-> a.nombre,
                        instancias |-> a.instancias_asignadas]
       ELSE fin' = [paso |-> "caido", pid |-> fin.pid]
  /\ UNCHANGED <<instancias_disponibles, cola_bloqueados, recursos_asignados,
                 READY, RUNNING, llamadas, regalos>>

(* for (j = 0; i < instancias_asignadas; i++): the inner loop advances the *)
(* index of the outer one.                                                 *)
FinInterno ==
  /\ fin.paso = "interno"
  /\ fin.i < fin.instancias
  /\ SignalRecurso(fin.pid, fin.nombre)
  /\ fin' = [fin EXCEPT !.i = @ + 1]
  /\ UNCHANGED <<RUNNING, llamadas, regalos>>

FinSiguiente ==
  /\ fin.paso = "interno"
  /\ fin.i >= fin.instancias
  /\ fin' = [paso |-> "externo", pid |-> fin.pid, i |-> fin.i + 1,
             cant |-> fin.cant]
  /\ UNCHANGED <<instancias_disponibles, cola_bloqueados, recursos_asignados,
                 READY, RUNNING, llamadas, regalos>>

(* list_destroy(recursos_asignados), whatever is left in it.               *)
FinListo ==
  /\ fin.paso = "externo"
  /\ ~QuedaRecurso
  /\ recursos_asignados' = [recursos_asignados EXCEPT ![fin.pid] = <<>>]
  /\ fin' = SinFin
  /\ UNCHANGED <<instancias_disponibles, cola_bloqueados, READY, RUNNING,
                 llamadas, regalos>>

(* Every step but the last one of an end.                                  *)
Pasos ==
  \/ Despachar
  \/ \E p \in PROCESOS : \/ \E r \in RECURSOS : Wait(p, r) \/ Signal(p, r)
                         \/ LlamadaDesconocida(p, DESCONOCIDO)
                         \/ Exit(p)
                         \/ Yield(p)
  \/ FinExterno \/ FinInterno \/ FinSiguiente

Next == Pasos \/ FinListo

Spec == Init /\ [][Next]_vars

-----------------------------------------------------------------------------
Asignadas(p, r) ==
  LET i == Indice(p, r)
  IN  IF i = 0 THEN 0 ELSE recursos_asignados[p][i].instancias_asignadas

Espera(p, r) == p \in ToSet(cola_bloqueados[r])

(* The type invariant of the resources and of the lists of the processes.  *)
TypeOK ==
  /\ instancias_disponibles \in [RECURSOS -> Int]
  /\ cola_bloqueados \in [RECURSOS -> Seq(PROCESOS)]
  /\ recursos_asignados \in
       [PROCESOS -> Seq([nombre : RECURSOS, instancias_asignadas : Nat \ {0}])]
  /\ READY \subseteq PROCESOS /\ RUNNING \in PROCESOS \union {NULO}
  /\ fin.paso \in {"no", "externo", "interno", "caido"}
  /\ llamadas \in [PROCESOS -> 0..LARGO_PROGRAMA]
  /\ regalos \in [RECURSOS -> Nat]

(* The counter and the queue of a resource never part: it is negative by   *)
(* exactly the number of processes that wait, so no process waits while an *)
(* instance is free and none is woken without one.                         *)
ColaExacta ==
  \A r \in RECURSOS :
    Len(cola_bloqueados[r]) = IF instancias_disponibles[r] < 0
                                THEN -instancias_disponibles[r] ELSE 0

(* Mutual exclusion: the instances in the hands of processes that are not  *)
(* waiting for them never exceed those of the configuration and one more   *)
(* for each SIGNAL by a process that had none, which core.c:239-260 does   *)
(* not refuse: nothing else lets a process in, neither the wake-ups nor    *)
(* the release loop, and such a SIGNAL no more than one.                   *)
Exclusion ==
  \A r \in RECURSOS :
    MapThenSumSet(LAMBDA p : Asignadas(p, r) - (IF Espera(p, r) THEN 1 ELSE 0),
                  PROCESOS) <= INSTANCIAS[r] + regalos[r]

(* core.c:142: the number of resources is read before the loop whose       *)
(* signals shorten the list; the list_get past its end, which stops the    *)
(* kernel, needs a process that ends with three resources or more.         *)
CaidaConTres == fin.paso = "caido" => Len(recursos_asignados[fin.pid]) >= 2

(* core.c:139, "Liberar recursos del proceso": no instance is lost; those  *)
(* available and those of the processes always add up to the               *)
(* configuration's and those that came from nowhere, also when a process   *)
(* has ended without a SIGNAL.                                             *)
Conservacion ==
  \A r \in RECURSOS :
    instancias_disponibles[r]
      + MapThenSumSet(LAMBDA p : Asignadas(p, r), PROCESOS)
      = INSTANCIAS[r] + regalos[r]
=============================================================================
