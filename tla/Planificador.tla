---------------------------- MODULE Planificador ----------------------------
(***************************************************************************)
(* The kernel's schedulers (src/kernel/src/core.c) at the granularity of   *)
(* its locks and semaphores.  The threads are                              *)
(*                                                                         *)
(*   largo        planificacion_largo_plazo, NEW -> READY                  *)
(*   corto        planificacion_corto_plazo, READY -> RUNNING, and every   *)
(*                system call the CPU hands back                           *)
(*   consola[p]   the procesar_conexion thread that creates process p      *)
(*   hilo[p]      the thread that finishes a blocking operation of p: an   *)
(*                I/O (bloquear_proceso_io) or a file operation            *)
(*                (truncar_archivo, leer_archivo, escribir_archivo)        *)
(*                                                                         *)
(* A critical section that blocks on nothing while it is held (those of    *)
(* mutex_READY, of a console on mutex_NEW, of terminar_proceso on          *)
(* mutex_mp) is one step, taken when the mutex is free.  The mutexes that  *)
(* are held across a semaphore wait or handed to another thread have an    *)
(* owner here.  Times, response ratios, registers and segments are         *)
(* abstracted: HRRN may pick any process of READY.                         *)
(***************************************************************************)
EXTENDS Integers, Sequences, FiniteSets

CONSTANTS PROCESOS,                    \* the processes the consoles send
          NULO,                        \* the NULL pointer
          GRADO_MAX_MULTIPROGRAMACION, \* kernel.config
          ALGORITMO_PLANIFICACION,     \* kernel.config: "FIFO" or "HRRN"
          LARGO_PROGRAMA               \* bound: system calls before the EXIT

ASSUME SupuestoGrado == GRADO_MAX_MULTIPROGRAMACION \in Nat
ASSUME SupuestoNulo == NULO \notin PROCESOS
ASSUME SupuestoPrograma == LARGO_PROGRAMA \in Nat
ASSUME SupuestoAlgoritmo == ALGORITMO_PLANIFICACION \in {"FIFO", "HRRN"}

VARIABLES
  cola_NEW, cola_READY, cola_EXIT,       \* t_list* of processes
  RUNNING,                \* t_pcb*
  PROCESOS_EN_MEMORIA,    \* the processes of that list
  GRADO_ACTUAL_MPROG,
  semaforo_NEW, semaforo_READY, semaforo_mp,
  mutex_NEW, mutex_mp, mutex_RUNNING,      \* the owner, or "libre"
  largo, new_pcb,         \* where the long-term thread is, and its local
  corto, r_pcb,           \* where the short-term thread is, and its local
  consola,                \* where the console thread of each process is
  hilo,                   \* the detached thread of each process, if any
  llamadas,               \* system calls made by each process
  finalizados             \* processes whose console got the result

colas == <<cola_NEW, cola_READY, cola_EXIT, RUNNING, PROCESOS_EN_MEMORIA>>
cuentas == <<GRADO_ACTUAL_MPROG, semaforo_NEW, semaforo_READY, semaforo_mp>>
cerrojos == <<mutex_NEW, mutex_mp, mutex_RUNNING>>
hilos == <<largo, new_pcb, corto, r_pcb, consola, hilo>>
vars == <<colas, cuentas, cerrojos, hilos, llamadas, finalizados>>

-----------------------------------------------------------------------------
(* Every list empty, RUNNING = NULL, semaforo_mp at the maximum degree.    *)
Init ==
  /\ cola_NEW = <<>> /\ cola_READY = <<>> /\ cola_EXIT = <<>>
  /\ RUNNING = NULO
  /\ PROCESOS_EN_MEMORIA = {}
  /\ GRADO_ACTUAL_MPROG = 0
  /\ semaforo_NEW = 0 /\ semaforo_READY = 0
  /\ semaforo_mp = GRADO_MAX_MULTIPROGRAMACION
  /\ mutex_NEW = "libre" /\ mutex_mp = "libre" /\ mutex_RUNNING = "libre"
  /\ largo = "sem_NEW" /\ new_pcb = NULO
  /\ corto = "inicio" /\ r_pcb = NULO
  /\ consola = [p \in PROCESOS |-> "conecta"]
  /\ hilo = [p \in PROCESOS |-> "no"]
  /\ llamadas = [p \in PROCESOS |-> 0]
  /\ finalizados = {}

(* Mutant of EncolarREADY: the sem_post is forgotten.                      *)
EncolarSinPost(p) ==
  cola_READY' = Append(cola_READY, p) /\ UNCHANGED semaforo_READY

(* encolar_proceso(p, READY, &mutex_READY, ...): append and post.          *)
EncolarREADY(p) ==
  /\ cola_READY' = Append(cola_READY, p)
  /\ semaforo_READY' = semaforo_READY + 1

-----------------------------------------------------------------------------
(* The console thread: list_add to NEW under mutex_NEW ...                 *)
ConsolaNEW(p) ==
  /\ consola[p] = "conecta"
  /\ mutex_NEW = "libre"
  /\ cola_NEW' = Append(cola_NEW, p)
  /\ consola' = [consola EXCEPT ![p] = "memoria"]
  /\ UNCHANGED <<cola_READY, cola_EXIT, RUNNING, PROCESOS_EN_MEMORIA, cuentas,
                 cerrojos, largo, new_pcb, corto, r_pcb, hilo, llamadas,
                 finalizados>>

(* ... then, with mutex_NEW released, to PROCESOS_EN_MEMORIA ...           *)
ConsolaMemoria(p) ==
  /\ consola[p] = "memoria"
  /\ PROCESOS_EN_MEMORIA' = PROCESOS_EN_MEMORIA \union {p}
  /\ consola' = [consola EXCEPT ![p] = "post"]
  /\ UNCHANGED <<cola_NEW, cola_READY, cola_EXIT, RUNNING, cuentas, cerrojos,
                 largo, new_pcb, corto, r_pcb, hilo, llamadas, finalizados>>

(* ... and at last sem_post(&semaforo_NEW).                                *)
ConsolaPost(p) ==
  /\ consola[p] = "post"
  /\ semaforo_NEW' = semaforo_NEW + 1
  /\ consola' = [consola EXCEPT ![p] = "hecho"]
  /\ UNCHANGED <<colas, GRADO_ACTUAL_MPROG, semaforo_READY, semaforo_mp,
                 cerrojos, largo, new_pcb, corto, r_pcb, hilo, llamadas,
                 finalizados>>

-----------------------------------------------------------------------------
(* The long-term scheduler, one action per call that may block.            *)
LargoSemNEW ==
  /\ largo = "sem_NEW"
  /\ semaforo_NEW > 0
  /\ semaforo_NEW' = semaforo_NEW - 1
  /\ largo' = "lock_NEW"
  /\ UNCHANGED <<colas, GRADO_ACTUAL_MPROG, semaforo_READY, semaforo_mp,
                 cerrojos, new_pcb, corto, r_pcb, consola, hilo, llamadas,
                 finalizados>>

LargoLockNEW ==
  /\ largo = "lock_NEW"
  /\ mutex_NEW = "libre"
  /\ mutex_NEW' = "largo"
  /\ largo' = "lock_mp"
  /\ UNCHANGED <<colas, cuentas, mutex_mp, mutex_RUNNING, new_pcb, corto,
                 r_pcb, consola, hilo, llamadas, finalizados>>

LargoLockMp ==
  /\ largo = "lock_mp"
  /\ mutex_mp = "libre"
  /\ mutex_mp' = "largo"
  /\ largo' = "sem_mp"
  /\ UNCHANGED <<colas, cuentas, mutex_NEW, mutex_RUNNING, new_pcb, corto,
                 r_pcb, consola, hilo, llamadas, finalizados>>

(* Mutant of LargoSemMp: a sem_trywait whose answer is not looked at.      *)
LargoTrywait ==
  /\ largo = "sem_mp"
  /\ semaforo_mp' = semaforo_mp - 1
  /\ largo' = "guardia"
  /\ UNCHANGED <<colas, GRADO_ACTUAL_MPROG, semaforo_NEW, semaforo_READY,
                 cerrojos, new_pcb, corto, r_pcb, consola, hilo, llamadas,
                 finalizados>>

(* sem_wait(&semaforo_mp) with mutex_NEW and mutex_mp both held.           *)
LargoSemMp ==
  /\ largo = "sem_mp"
  /\ semaforo_mp > 0
  /\ semaforo_mp' = semaforo_mp - 1
  /\ largo' = "guardia"
  /\ UNCHANGED <<colas, GRADO_ACTUAL_MPROG, semaforo_NEW, semaforo_READY,
                 cerrojos, new_pcb, corto, r_pcb, consola, hilo, llamadas,
                 finalizados>>

HayLugar ==
  /\ Len(cola_NEW) > 0
  /\ GRADO_ACTUAL_MPROG < GRADO_MAX_MULTIPROGRAMACION

(* The test, and the admission: degree up, head of NEW out, both mutexes   *)
(* released; without room the mutexes are released and the tokens are lost.*)
LargoGuardia ==
  /\ largo = "guardia"
  /\ mutex_NEW' = "libre" /\ mutex_mp' = "libre"
  /\ IF HayLugar
       THEN /\ GRADO_ACTUAL_MPROG' = GRADO_ACTUAL_MPROG + 1
            /\ new_pcb' = Head(cola_NEW)
            /\ cola_NEW' = Tail(cola_NEW)
            /\ largo' = "encolar"
       ELSE /\ largo' = "sem_NEW"
            /\ UNCHANGED <<GRADO_ACTUAL_MPROG, new_pcb, cola_NEW>>
  /\ UNCHANGED <<cola_READY, cola_EXIT, RUNNING, PROCESOS_EN_MEMORIA,
                 semaforo_NEW, semaforo_READY, semaforo_mp, mutex_RUNNING,
                 corto, r_pcb, consola, hilo, llamadas, finalizados>>

(* The segment table comes back from memoria and the process is READY.     *)
LargoEncola ==
  /\ largo = "encolar"
  /\ EncolarREADY(new_pcb)
  /\ new_pcb' = NULO
  /\ largo' = "sem_NEW"
  /\ UNCHANGED <<cola_NEW, cola_EXIT, RUNNING, PROCESOS_EN_MEMORIA,
                 GRADO_ACTUAL_MPROG, semaforo_NEW, semaforo_mp, cerrojos,
                 corto, r_pcb, consola, hilo, llamadas, finalizados>>

-----------------------------------------------------------------------------
(* The short-term scheduler.  It keeps mutex_RUNNING while it waits for a  *)
(* READY process, and releases it once RUNNING is set.                     *)
CortoInicio ==
  /\ corto = "inicio"
  /\ mutex_RUNNING = "libre"
  /\ IF RUNNING = NULO
       THEN mutex_RUNNING' = "corto" /\ corto' = "sem_READY"
       ELSE corto' = "despacho" /\ UNCHANGED mutex_RUNNING
  /\ UNCHANGED <<colas, cuentas, mutex_NEW, mutex_mp, largo, new_pcb, r_pcb,
                 consola, hilo, llamadas, finalizados>>

CortoSemREADY ==
  /\ corto = "sem_READY"
  /\ semaforo_READY > 0
  /\ semaforo_READY' = semaforo_READY - 1
  /\ corto' = "elegir"
  /\ UNCHANGED <<colas, GRADO_ACTUAL_MPROG, semaforo_NEW, semaforo_mp,
                 cerrojos, largo, new_pcb, r_pcb, consola, hilo, llamadas,
                 finalizados>>

(* siguiente_proceso_a_ejecutar: FIFO takes the head of READY; HRRN takes  *)
(* the best response ratio, which depends on times: any position.          *)
Elegibles == IF ALGORITMO_PLANIFICACION = "FIFO" THEN {1} \cap DOMAIN cola_READY
                                                 ELSE DOMAIN cola_READY

(* list_remove(READY, i - 1)                                               *)
SinElemento(s, i) == SubSeq(s, 1, i - 1) \o SubSeq(s, i + 1, Len(s))

CortoElige ==
  /\ corto = "elegir"
  /\ \E i \in Elegibles :
       /\ RUNNING' = cola_READY[i]
       /\ r_pcb' = cola_READY[i]
       /\ cola_READY' = SinElemento(cola_READY, i)
  /\ mutex_RUNNING' = "libre"
  /\ corto' = "despacho"
  /\ UNCHANGED <<cola_NEW, cola_EXIT, PROCESOS_EN_MEMORIA, cuentas, mutex_NEW,
                 mutex_mp, largo, new_pcb, consola, hilo, llamadas,
                 finalizados>>

CortoDespacha ==
  /\ corto = "despacho"
  /\ mutex_RUNNING = "libre"
  /\ IF RUNNING # NULO THEN r_pcb' = RUNNING /\ corto' = "cpu"
                       ELSE corto' = "inicio" /\ UNCHANGED r_pcb
  /\ UNCHANGED <<colas, cuentas, cerrojos, largo, new_pcb, consola, hilo,
                 llamadas, finalizados>>

(* The context goes to the CPU and comes back with a system call: YIELD,   *)
(* IO, a file operation that blocks, or one that leaves the process        *)
(* running.                                                                *)
CpuLlamada ==
  /\ corto = "cpu"
  /\ llamadas[r_pcb] < LARGO_PROGRAMA
  /\ llamadas' = [llamadas EXCEPT ![r_pcb] = @ + 1]
  /\ corto' \in {"yield_desalojar", "io", "fs", "inicio"}
  /\ UNCHANGED <<colas, cuentas, cerrojos, largo, new_pcb, r_pcb, consola,
                 hilo, finalizados>>

(* EXIT, SEG_FAULT, or a call that ends in terminar_proceso.               *)
CpuFin ==
  /\ corto = "cpu"
  /\ corto' = "fin"
  /\ UNCHANGED <<colas, cuentas, cerrojos, largo, new_pcb, r_pcb, consola,
                 hilo, llamadas, finalizados>>

(* Mutant of YieldDesaloja: desalojar is forgotten.                        *)
YieldSinDesalojar ==
  /\ corto = "yield_desalojar"
  /\ corto' = "yield_encolar"
  /\ UNCHANGED <<colas, cuentas, cerrojos, largo, new_pcb, r_pcb, consola,
                 hilo, llamadas, finalizados>>

(* YIELD: desalojar, then encolar_proceso.                                 *)
YieldDesaloja ==
  /\ corto = "yield_desalojar"
  /\ mutex_RUNNING = "libre"
  /\ RUNNING' = NULO
  /\ corto' = "yield_encolar"
  /\ UNCHANGED <<cola_NEW, cola_READY, cola_EXIT, PROCESOS_EN_MEMORIA,
                 cuentas, cerrojos, largo, new_pcb, r_pcb, consola, hilo,
                 llamadas, finalizados>>

YieldEncola ==
  /\ corto = "yield_encolar"
  /\ EncolarREADY(r_pcb)
  /\ corto' = "inicio"
  /\ UNCHANGED <<cola_NEW, cola_EXIT, RUNNING, PROCESOS_EN_MEMORIA,
                 GRADO_ACTUAL_MPROG, semaforo_NEW, semaforo_mp, cerrojos,
                 largo, new_pcb, r_pcb, consola, hilo, llamadas, finalizados>>

(* Mutant of CortoIO: mutex_RUNNING is left to the thread.                 *)
IOSinCerrojo ==
  /\ corto = "io"
  /\ hilo' = [hilo EXCEPT ![r_pcb] = "io_toma"]
  /\ corto' = "inicio"
  /\ UNCHANGED <<colas, cuentas, cerrojos, largo, new_pcb, r_pcb, consola,
                 llamadas, finalizados>>

(* IO: mutex_RUNNING is taken here and released by the thread created.     *)
CortoIO ==
  /\ corto = "io"
  /\ mutex_RUNNING = "libre"
  /\ mutex_RUNNING' = "hilo_io"
  /\ hilo' = [hilo EXCEPT ![r_pcb] = "io_toma"]
  /\ corto' = "inicio"
  /\ UNCHANGED <<colas, cuentas, mutex_NEW, mutex_mp, largo, new_pcb, r_pcb,
                 consola, llamadas, finalizados>>

(* TRUNCATE, READ, WRITE: desalojar, then the thread.  Nobody else touches *)
(* r_pcb in between, so the two are one step.                              *)
CortoFS ==
  /\ corto = "fs"
  /\ mutex_RUNNING = "libre"
  /\ RUNNING' = NULO
  /\ hilo' = [hilo EXCEPT ![r_pcb] = "bloqueado"]
  /\ corto' = "inicio"
  /\ UNCHANGED <<cola_NEW, cola_READY, cola_EXIT, PROCESOS_EN_MEMORIA,
                 cuentas, cerrojos, largo, new_pcb, r_pcb, consola, llamadas,
                 finalizados>>

(* terminar_proceso: to EXIT, the degree down, out of the CPU, out of      *)
(* PROCESOS_EN_MEMORIA (without its mutex), the result to the console.     *)
FinExit ==
  /\ corto = "fin"
  /\ cola_EXIT' = Append(cola_EXIT, r_pcb)
  /\ corto' = "fin_grado"
  /\ UNCHANGED <<cola_NEW, cola_READY, RUNNING, PROCESOS_EN_MEMORIA, cuentas,
                 cerrojos, largo, new_pcb, r_pcb, consola, hilo, llamadas,
                 finalizados>>

(* Mutant of FinGrado: GRADO_ACTUAL_MPROG is not discounted.               *)
FinSinDescontar ==
  /\ corto = "fin_grado"
  /\ mutex_mp = "libre"
  /\ semaforo_mp' = semaforo_mp + 1
  /\ corto' = "fin_desalojar"
  /\ UNCHANGED <<colas, GRADO_ACTUAL_MPROG, semaforo_NEW, semaforo_READY,
                 cerrojos, largo, new_pcb, r_pcb, consola, hilo, llamadas,
                 finalizados>>

FinGrado ==
  /\ corto = "fin_grado"
  /\ mutex_mp = "libre"
  /\ GRADO_ACTUAL_MPROG' = GRADO_ACTUAL_MPROG - 1
  /\ semaforo_mp' = semaforo_mp + 1
  /\ corto' = "fin_desalojar"
  /\ UNCHANGED <<colas, semaforo_NEW, semaforo_READY, cerrojos, largo,
                 new_pcb, r_pcb, consola, hilo, llamadas, finalizados>>

FinDesaloja ==
  /\ corto = "fin_desalojar"
  /\ mutex_RUNNING = "libre"
  /\ RUNNING' = NULO
  /\ corto' = "fin_memoria"
  /\ UNCHANGED <<cola_NEW, cola_READY, cola_EXIT, PROCESOS_EN_MEMORIA,
                 cuentas, cerrojos, largo, new_pcb, r_pcb, consola, hilo,
                 llamadas, finalizados>>

FinMemoria ==
  /\ corto = "fin_memoria"
  /\ PROCESOS_EN_MEMORIA' = PROCESOS_EN_MEMORIA \ {r_pcb}
  /\ corto' = "fin_resultado"
  /\ UNCHANGED <<cola_NEW, cola_READY, cola_EXIT, RUNNING, cuentas, cerrojos,
                 largo, new_pcb, r_pcb, consola, hilo, llamadas, finalizados>>

FinResultado ==
  /\ corto = "fin_resultado"
  /\ finalizados' = finalizados \union {r_pcb}
  /\ cola_EXIT' = Tail(cola_EXIT)
  /\ corto' = "inicio"
  /\ UNCHANGED <<cola_NEW, cola_READY, RUNNING, PROCESOS_EN_MEMORIA, cuentas,
                 cerrojos, largo, new_pcb, r_pcb, consola, hilo, llamadas>>

-----------------------------------------------------------------------------
(* bloquear_proceso_io: takes whatever RUNNING points to, empties it and   *)
(* unlocks the mutex corto locked.                                         *)
HiloToma(p) ==
  /\ hilo[p] = "io_toma"
  /\ RUNNING' = NULO
  /\ mutex_RUNNING' = "libre"
  /\ hilo' = [hilo EXCEPT ![p] = "no", ![RUNNING] = "bloqueado"]
  /\ UNCHANGED <<cola_NEW, cola_READY, cola_EXIT, PROCESOS_EN_MEMORIA,
                 cuentas, mutex_NEW, mutex_mp, largo, new_pcb, corto, r_pcb,
                 consola, llamadas, finalizados>>

(* The I/O or the file operation ends: encolar_proceso(BLOQUEADO, READY).  *)
HiloEncola(p) ==
  /\ hilo[p] = "bloqueado"
  /\ EncolarREADY(p)
  /\ hilo' = [hilo EXCEPT ![p] = "no"]
  /\ UNCHANGED <<cola_NEW, cola_EXIT, RUNNING, PROCESOS_EN_MEMORIA,
                 GRADO_ACTUAL_MPROG, semaforo_NEW, semaforo_mp, cerrojos,
                 largo, new_pcb, corto, r_pcb, consola, llamadas,
                 finalizados>>

-----------------------------------------------------------------------------
Consola(p) == ConsolaNEW(p) \/ ConsolaMemoria(p) \/ ConsolaPost(p)

Largo == \/ LargoSemNEW \/ LargoLockNEW \/ LargoLockMp \/ LargoSemMp
         \/ LargoGuardia \/ LargoEncola

Corto == \/ CortoInicio \/ CortoSemREADY \/ CortoElige \/ CortoDespacha
         \/ CpuLlamada \/ CpuFin
         \/ YieldDesaloja \/ YieldEncola \/ CortoIO \/ CortoFS
         \/ FinExit \/ FinGrado \/ FinDesaloja \/ FinMemoria \/ FinResultado

Hilo(p) == HiloToma(p) \/ HiloEncola(p)

Next == \/ Largo
        \/ Corto
        \/ \E p \in PROCESOS : Consola(p) \/ Hilo(p)

Spec == Init /\ [][Next]_vars

(* A thread that can go on is scheduled again.  A user owes us nothing, so *)
(* the arrival of a process is not fair; what follows its arrival is.      *)
Justicia ==
  /\ WF_vars(Largo)
  /\ WF_vars(Corto)
  /\ \A p \in PROCESOS : /\ WF_vars(ConsolaMemoria(p) \/ ConsolaPost(p))
                         /\ WF_vars(Hilo(p))

SpecJusta == Spec /\ Justicia

-----------------------------------------------------------------------------
Cola(s) == {s[i] : i \in DOMAIN s}
Uno(b) == IF b THEN 1 ELSE 0

(* Where each thread may be, and what each variable may hold.              *)
LugaresLargo == {"sem_NEW", "lock_NEW", "lock_mp", "sem_mp", "guardia",
                 "encolar"}
LugaresCorto == {"inicio", "sem_READY", "elegir", "despacho", "cpu",
                 "yield_desalojar", "yield_encolar", "io", "fs", "fin",
                 "fin_grado", "fin_desalojar", "fin_memoria", "fin_resultado"}
LugaresConsola == {"conecta", "memoria", "post", "hecho"}

(* The type invariant of the kernel's lists, counters, mutexes and         *)
(* threads; semaphores are never negative and the lists hold processes.    *)
TypeOK ==
  /\ cola_NEW \in Seq(PROCESOS) /\ cola_READY \in Seq(PROCESOS)
  /\ cola_EXIT \in Seq(PROCESOS)
  /\ RUNNING \in PROCESOS \union {NULO}
  /\ PROCESOS_EN_MEMORIA \subseteq PROCESOS
  /\ GRADO_ACTUAL_MPROG \in Int
  /\ semaforo_NEW \in Nat /\ semaforo_READY \in Nat /\ semaforo_mp \in Nat
  /\ mutex_NEW \in {"libre", "largo"}
  /\ mutex_mp \in {"libre", "largo"}
  /\ mutex_RUNNING \in {"libre", "corto", "hilo_io"}
  /\ largo \in LugaresLargo /\ new_pcb \in PROCESOS \union {NULO}
  /\ corto \in LugaresCorto /\ r_pcb \in PROCESOS \union {NULO}
  /\ consola \in [PROCESOS -> LugaresConsola]
  /\ hilo \in [PROCESOS -> {"no", "io_toma", "bloqueado"}]
  /\ llamadas \in [PROCESOS -> Nat]
  /\ finalizados \subseteq PROCESOS

(* core.c:75 tests the list and the degree again after the semaphores, and *)
(* its comment says that with the semaphores the test is not needed any    *)
(* more: whenever the long-term thread is at that line, the test holds, so *)
(* no token of semaforo_NEW or semaforo_mp is ever thrown away.            *)
GuardaRedundante == largo = "guardia" => HayLugar

(* The tokens of semaforo_READY, with the one the short-term thread took   *)
(* and has not used, are exactly the processes of READY: the thread never  *)
(* takes from an empty list (a NULL it would dereference at core.c:682)    *)
(* and never sleeps with a process waiting.                                *)
TokensREADY == semaforo_READY + Uno(corto = "elegir") = Len(cola_READY)

(* Every process that has arrived and not ended is in one place: one list  *)
(* (once), or on the CPU, or in the hands of one thread.                   *)
EnCpu(p) == RUNNING = p \/ p \in Cola(cola_EXIT)
EnManos(p) == \/ largo = "encolar" /\ new_pcb = p
              \/ corto = "yield_encolar" /\ r_pcb = p
Veces(s, p) == Cardinality({i \in DOMAIN s : s[i] = p})
UnSoloLugar ==
  \A p \in PROCESOS :
    Veces(cola_NEW, p) + Veces(cola_READY, p) + Uno(EnCpu(p)) + Uno(EnManos(p))
      + Uno(hilo[p] = "bloqueado")
    = Uno(consola[p] # "conecta" /\ p \notin finalizados)

(* GRADO_ACTUAL_MPROG, an unsigned integer decremented without a test, is  *)
(* the number of processes admitted and not yet discounted by              *)
(* terminar_proceso, and semaforo_mp is the room left.                     *)
Admitidos == {p \in PROCESOS : /\ consola[p] # "conecta"
                               /\ p \notin Cola(cola_NEW)
                               /\ p \notin finalizados}
Descontados == {p \in Admitidos : /\ p = r_pcb
                                  /\ corto \in {"fin_desalojar", "fin_memoria",
                                                "fin_resultado"}}
GradoExacto ==
  /\ GRADO_ACTUAL_MPROG = Cardinality(Admitidos \ Descontados)
  /\ semaforo_mp + GRADO_ACTUAL_MPROG + Uno(largo = "guardia")
       = GRADO_MAX_MULTIPROGRAMACION

(* bloquear_proceso_io reads the global RUNNING, not its argument, under a *)
(* mutex that another thread locked for it: until it has done so, RUNNING  *)
(* is the process that asked for the I/O and the short-term thread is kept *)
(* out of mutex_RUNNING.                                                   *)
TraspasoIO ==
  \A p \in PROCESOS : hilo[p] = "io_toma" =>
    /\ RUNNING = p
    /\ mutex_RUNNING = "hilo_io"
    /\ corto = "inicio"

(* comunicacion.c:336: recibir_nuevas_bases searches in                    *)
(* PROCESOS_EN_MEMORIA every process that has segments, and uses what      *)
(* buscar_proceso_en_memoria returns without a test: every admitted        *)
(* process must be in that list.                                           *)
AdmitidosEnMemoria ==
  Admitidos \ (Descontados \union {new_pcb}) \subseteq PROCESOS_EN_MEMORIA

(* core.c:72, "PASO de NEW a READY - Largo Plazo": a process whose console *)
(* has posted it does not stay in NEW for ever.                            *)
PasoDeNewAReady ==
  \A p \in PROCESOS :
    (consola[p] = "hecho" /\ p \in Cola(cola_NEW)) ~> (p \notin Cola(cola_NEW))

(* The embrace of core.c:74: the long-term thread waits for a token that   *)
(* only terminar_proceso posts, and holds the mutex it posts it under.     *)
Abrazo == largo = "sem_mp" /\ semaforo_mp = 0

(* core.c:65-190: that embrace is the only thing that can stop the two     *)
(* schedulers: every process that arrives ends and its console gets the    *)
(* result, or the kernel is in it, whatever the order of the other threads.*)
TerminaSalvoAbrazo ==
  \A p \in PROCESOS :
    (consola[p] # "conecta") ~> (p \in finalizados \/ Abrazo)
=============================================================================
