---------------------------- MODULE Conversaciones ----------------------------
(***************************************************************************)
(* The one connection between the kernel and the filesystem, and the mutex *)
(* that is to keep compactions away from file operations (src/kernel/src/  *)
(* core.c 263-283 and 405-662, src/filesystem/src/comunicacion.c).         *)
(* socket_filesystem is used by the short-term thread (corto: ABRIR and    *)
(* CREAR) and by one detached thread per blocked process (hilo[p]:         *)
(* truncar_archivo, leer_archivo, escribir_archivo), each of which sends a *)
(* request and takes the next answer that comes, whoever it is for.  The   *)
(* filesystem answers in order, and asks memoria in the middle of a        *)
(* LEER_ARCHIVO or ESCRIBIR_ARCHIVO.                                       *)
(*                                                                         *)
(* Abstractions: READY is a set (Planificador has its order); each program *)
(* uses a file of its own, named by its process, and opens it once before  *)
(* it closes it; a lock is taken and the request sent in one step, and so  *)
(* are an answer received, the lock released and the process made READY.   *)
(***************************************************************************)
EXTENDS Integers, Sequences, FiniteSets

CONSTANTS PROCESOS, NULO,
          CAIDO,             \* the filesystem once it has died
          LARGO_PROGRAMA     \* bound: system calls of each program

ASSUME SupuestoPrograma == LARGO_PROGRAMA \in Nat

VARIABLES
  listos,                 \* the processes in READY
  r_pcb,                  \* the process corto is serving
  corto,                  \* where corto is
  hilo,                   \* the thread of each process: "no", "nace", "espera"
  operacion,              \* what that thread was created for
  mutex_compactacion,     \* its owner: "libre", "corto" or a process's thread
  pedidos, respuestas,    \* socket_filesystem, each way
  fs,                     \* the request the filesystem is asking memoria about
  existe,                 \* the files that have an FCB
  abiertos,               \* the files in tabla_archivos
  llamadas,               \* system calls made by each process
  cruzada                 \* history: a thread took the answer to another's

planes == <<listos, r_pcb, corto, llamadas>>
trabajos == <<hilo, operacion, mutex_compactacion>>
conexion == <<pedidos, respuestas>>
archivos == <<existe, abiertos>>
vars == <<planes, trabajos, conexion, fs, archivos, cruzada>>

ConMemoria == {"LEER_ARCHIVO", "ESCRIBIR_ARCHIVO"}
DeHilo == ConMemoria \union {"TRUNCAR_ARCHIVO"}
PedidosPosibles == [cop : DeHilo \union {"ABRIR_ARCHIVO", "CREAR_ARCHIVO"},
                    archivo : PROCESOS]
Pedido(cop, p) == [cop |-> cop, archivo |-> p]
Respuesta(r, ok) == [a |-> r, archivo_ok |-> ok]

(* NULL is nothing else, the dead filesystem is not attending a request,   *)
(* and no process is called as what mutex_compactacion holds.              *)
ASSUME SupuestoNulo ==
  /\ NULO # CAIDO /\ NULO \notin PROCESOS \union DeHilo
  /\ NULO \notin PedidosPosibles /\ CAIDO \notin PedidosPosibles
  /\ "libre" \notin PROCESOS /\ "corto" \notin PROCESOS

(* Some files are there from an earlier run of the filesystem.             *)
Init ==
  /\ listos = PROCESOS /\ r_pcb = NULO /\ corto = "inicio"
  /\ hilo = [p \in PROCESOS |-> "no"]
  /\ operacion = [p \in PROCESOS |-> NULO]
  /\ mutex_compactacion = "libre"
  /\ pedidos = <<>> /\ respuestas = <<>>
  /\ fs = NULO
  /\ existe \in SUBSET PROCESOS /\ abiertos = {}
  /\ llamadas = [p \in PROCESOS |-> 0]
  /\ cruzada = FALSE

-----------------------------------------------------------------------------
(* planificacion_corto_plazo.                                              *)
Elegir(p) ==
  /\ corto = "inicio" /\ p \in listos
  /\ listos' = listos \ {p}
  /\ r_pcb' = p /\ corto' = "despacho"
  /\ UNCHANGED <<llamadas, trabajos, conexion, fs, archivos, cruzada>>

Llama(p) ==
  /\ corto = "despacho" /\ r_pcb = p
  /\ llamadas[p] < LARGO_PROGRAMA
  /\ llamadas' = [llamadas EXCEPT ![p] = @ + 1]

(* CPU_F_TRUNCATE, CPU_EFERRID, CPU_EFERRAIT: desalojar, pthread_create.   *)
OperarArchivo(p, cop) ==
  /\ Llama(p) /\ p \in abiertos
  /\ r_pcb' = NULO /\ corto' = "inicio"
  /\ hilo' = [hilo EXCEPT ![p] = "nace"]
  /\ operacion' = [operacion EXCEPT ![p] = cop]
  /\ UNCHANGED <<listos, mutex_compactacion, conexion, fs, archivos, cruzada>>

(* CPU_F_OPEN of a file that is not in tabla_archivos.                     *)
AbrirEnvia(p) ==
  /\ Llama(p) /\ p \notin abiertos
  /\ pedidos' = Append(pedidos, Pedido("ABRIR_ARCHIVO", p))
  /\ corto' = "abrir"
  /\ UNCHANGED <<listos, r_pcb, trabajos, respuestas, fs, archivos, cruzada>>

(* The next answer, taken by a thread that waits for the one to r.         *)
Toma(r) ==
  /\ respuestas # <<>>
  /\ respuestas' = Tail(respuestas)
  /\ cruzada' = (cruzada \/ Head(respuestas).a # r)

(* Mutant of AbrirRecibe: the answer to ABRIR_ARCHIVO is not looked at.    *)
AbrirSinMirar ==
  /\ corto = "abrir"
  /\ Toma(Pedido("ABRIR_ARCHIVO", r_pcb))
  /\ corto' = "despacho"
  /\ abiertos' = abiertos \union {r_pcb}
  /\ UNCHANGED <<listos, r_pcb, llamadas, trabajos, pedidos, fs, existe>>

(* A file that does not exist is created ...                               *)
AbrirRecibe ==
  /\ corto = "abrir"
  /\ Toma(Pedido("ABRIR_ARCHIVO", r_pcb))
  /\ IF Head(respuestas).archivo_ok # 0
       THEN /\ pedidos' = Append(pedidos, Pedido("CREAR_ARCHIVO", r_pcb))
            /\ corto' = "crear"
            /\ UNCHANGED abiertos
       ELSE /\ corto' = "despacho"
            /\ abiertos' = abiertos \union {r_pcb}
            /\ UNCHANGED pedidos
  /\ UNCHANGED <<listos, r_pcb, llamadas, trabajos, fs, existe>>

(* ... and what the answer to that says is not looked at.                  *)
CrearRecibe ==
  /\ corto = "crear"
  /\ Toma(Pedido("CREAR_ARCHIVO", r_pcb))
  /\ corto' = "despacho"
  /\ abiertos' = abiertos \union {r_pcb}
  /\ UNCHANGED <<listos, r_pcb, llamadas, trabajos, pedidos, fs, existe>>

(* CPU_F_CLOSE of a file nobody else waits for.                            *)
Cerrar(p) ==
  /\ Llama(p) /\ p \in abiertos
  /\ abiertos' = abiertos \ {p}
  /\ UNCHANGED <<listos, r_pcb, corto, trabajos, conexion, fs, existe, cruzada>>

(* CPU_CREATE_SEGMENT, answered MEMORIA_NECESITA_COMPACTACION.             *)
PedirCompactacion(p) ==
  /\ Llama(p)
  /\ corto' = "compactacion"
  /\ UNCHANGED <<listos, r_pcb, trabajos, conexion, fs, archivos, cruzada>>

(* Mutant of CompactacionLock: after the trylock fails nobody locks.       *)
CompactacionTrylock ==
  /\ corto = "compactacion"
  /\ mutex_compactacion' =
       IF mutex_compactacion = "libre" THEN "corto" ELSE mutex_compactacion
  /\ corto' = "bases"
  /\ UNCHANGED <<listos, r_pcb, llamadas, hilo, operacion, conexion, fs,
                 archivos, cruzada>>

(* solicitar_compactacion: the mutex, waiting if the trylock fails, and    *)
(* COMPACTAR to memoria ...                                                *)
CompactacionLock ==
  /\ corto = "compactacion"
  /\ mutex_compactacion = "libre"
  /\ mutex_compactacion' = "corto"
  /\ corto' = "bases"
  /\ UNCHANGED <<listos, r_pcb, llamadas, hilo, operacion, conexion, fs,
                 archivos, cruzada>>

(* ... and the new bases; the segment now fits (Memoria).                  *)
CompactacionFin ==
  /\ corto = "bases"
  /\ mutex_compactacion' = "libre"
  /\ corto' = "despacho"
  /\ UNCHANGED <<listos, r_pcb, llamadas, hilo, operacion, conexion, fs,
                 archivos, cruzada>>

(* CPU_EXIT, at any time.                                                  *)
Salir ==
  /\ corto = "despacho"
  /\ r_pcb' = NULO /\ corto' = "inicio"
  /\ UNCHANGED <<listos, llamadas, trabajos, conexion, fs, archivos, cruzada>>

-----------------------------------------------------------------------------
(* The detached threads.  Only leer_archivo and escribir_archivo lock.     *)
Envia(p, cop) ==
  /\ hilo[p] = "nace" /\ operacion[p] = cop
  /\ pedidos' = Append(pedidos, Pedido(cop, p))
  /\ hilo' = [hilo EXCEPT ![p] = "espera"]
  /\ UNCHANGED <<planes, operacion, respuestas, fs, archivos, cruzada>>

LockCompactacion(p) == /\ mutex_compactacion = "libre"
                       /\ mutex_compactacion' = p

EnviaTruncar(p) == Envia(p, "TRUNCAR_ARCHIVO") /\ UNCHANGED mutex_compactacion
EnviaLeer(p) == LockCompactacion(p) /\ Envia(p, "LEER_ARCHIVO")
EnviaEscribir(p) == LockCompactacion(p) /\ Envia(p, "ESCRIBIR_ARCHIVO")

(* Mutant of HiloRecibe: the mutex is not released.                        *)
HiloSinUnlock(p) ==
  /\ hilo[p] = "espera"
  /\ Toma(Pedido(operacion[p], p))
  /\ listos' = IF Head(respuestas).archivo_ok = 0 THEN listos \union {p}
                                                  ELSE listos
  /\ hilo' = [hilo EXCEPT ![p] = "no"]
  /\ operacion' = [operacion EXCEPT ![p] = NULO]
  /\ UNCHANGED <<r_pcb, corto, llamadas, mutex_compactacion, pedidos, fs,
                 archivos>>

(* The process goes back to READY only if the answer taken is 0.           *)
HiloRecibe(p) ==
  /\ hilo[p] = "espera"
  /\ Toma(Pedido(operacion[p], p))
  /\ mutex_compactacion' = IF operacion[p] \in ConMemoria
                             THEN "libre" ELSE mutex_compactacion
  /\ listos' = IF Head(respuestas).archivo_ok = 0 THEN listos \union {p}
                                                  ELSE listos
  /\ hilo' = [hilo EXCEPT ![p] = "no"]
  /\ operacion' = [operacion EXCEPT ![p] = NULO]
  /\ UNCHANGED <<r_pcb, corto, llamadas, pedidos, fs, archivos>>

-----------------------------------------------------------------------------
(* procesar_conexion of the filesystem.  A truncate or a read of a file    *)
(* without an FCB follows the NULL config of levantar_fcb, and it dies.    *)
Responde(r, ok) == respuestas' = Append(respuestas, Respuesta(r, ok))

Atiende(cop) ==
  /\ fs = NULO /\ pedidos # <<>>
  /\ Head(pedidos).cop = cop
  /\ pedidos' = Tail(pedidos)
  /\ UNCHANGED <<planes, trabajos, abiertos, cruzada>>
Archivo == Head(pedidos).archivo

FsAbrir ==
  /\ Atiende("ABRIR_ARCHIVO")
  /\ Responde(Head(pedidos), IF Archivo \in existe THEN 0 ELSE 1)
  /\ UNCHANGED <<fs, existe>>

FsCrear ==
  /\ Atiende("CREAR_ARCHIVO")
  /\ existe' = existe \union {Archivo}
  /\ Responde(Head(pedidos), 0)
  /\ UNCHANGED fs

FsTruncar ==
  /\ Atiende("TRUNCAR_ARCHIVO")
  /\ IF Archivo \in existe
       THEN Responde(Head(pedidos), 0) /\ UNCHANGED fs
       ELSE fs' = CAIDO /\ UNCHANGED respuestas
  /\ UNCHANGED existe

(* LEER_ARCHIVO: eferrid, and the data to memoria.                         *)
FsLeer ==
  /\ Atiende("LEER_ARCHIVO")
  /\ fs' = IF Archivo \in existe THEN Head(pedidos) ELSE CAIDO
  /\ UNCHANGED <<respuestas, existe>>

(* ESCRIBIR_ARCHIVO: the data is asked of memoria.                         *)
FsEscribir ==
  /\ Atiende("ESCRIBIR_ARCHIVO")
  /\ fs' = Head(pedidos)
  /\ UNCHANGED <<respuestas, existe>>

(* Mutant of FsResponde: the answer to a write is forgotten.               *)
FsNoResponde ==
  /\ fs \notin {NULO, CAIDO}
  /\ fs' = NULO
  /\ IF fs.cop = "LEER_ARCHIVO" THEN Responde(fs, 0) ELSE UNCHANGED respuestas
  /\ UNCHANGED <<planes, trabajos, pedidos, archivos, cruzada>>

(* Mutant of FsResponde: memoria confirms with 1, as it does to the CPU.   *)
FsRespondeUno ==
  /\ fs \notin {NULO, CAIDO}
  /\ fs' = NULO
  /\ Responde(fs, IF fs.cop = "LEER_ARCHIVO" THEN 1 ELSE 0)
  /\ UNCHANGED <<planes, trabajos, pedidos, archivos, cruzada>>

(* memoria has given or taken the data; eferrait may find no FCB too.      *)
FsResponde ==
  /\ fs \notin {NULO, CAIDO}
  /\ IF fs.cop = "ESCRIBIR_ARCHIVO" /\ fs.archivo \notin existe
       THEN fs' = CAIDO /\ UNCHANGED respuestas
       ELSE fs' = NULO /\ Responde(fs, 0)
  /\ UNCHANGED <<planes, trabajos, pedidos, archivos, cruzada>>

-----------------------------------------------------------------------------
Corto ==
  \/ \E p \in PROCESOS :
       \/ Elegir(p) \/ AbrirEnvia(p) \/ Cerrar(p) \/ PedirCompactacion(p)
       \/ \E cop \in DeHilo : OperarArchivo(p, cop)
  \/ AbrirRecibe \/ CrearRecibe \/ CompactacionLock \/ CompactacionFin \/ Salir
Hilo(p) ==
  EnviaTruncar(p) \/ EnviaLeer(p) \/ EnviaEscribir(p) \/ HiloRecibe(p)
Filesystem ==
  FsAbrir \/ FsCrear \/ FsTruncar \/ FsLeer \/ FsEscribir \/ FsResponde

(* Nothing is said of the kernel after the filesystem dies.                *)
Next == /\ fs # CAIDO
        /\ Corto \/ Filesystem \/ \E p \in PROCESOS : Hilo(p)

Spec == Init /\ [][Next]_vars

(* Each thread is scheduled by the operating system, and each recv and     *)
(* lock returns if what it waits for stays there.                          *)
SpecJusta == /\ Spec
             /\ WF_vars(fs # CAIDO /\ Corto) /\ WF_vars(Filesystem)
             /\ \A p \in PROCESOS : WF_vars(fs # CAIDO /\ Hilo(p))

-----------------------------------------------------------------------------
EnVuelo == {pedidos[i] : i \in DOMAIN pedidos}
             \union (IF fs \in {NULO, CAIDO} THEN {} ELSE {fs})
Esperando == {p \in PROCESOS : hilo[p] = "espera"}

(* The types; the owner of mutex_compactacion is a thread that waits for   *)
(* the filesystem, or corto while it waits for memoria.                    *)
TypeOK ==
  /\ listos \subseteq PROCESOS /\ r_pcb \in PROCESOS \union {NULO}
  /\ corto \in {"inicio", "despacho", "abrir", "crear", "compactacion", "bases"}
  /\ \A p \in PROCESOS : hilo[p] = "no" <=> operacion[p] \notin DeHilo
  /\ mutex_compactacion \in {"libre"} \union Esperando
                              \union (IF corto = "bases" THEN {"corto"} ELSE {})
  /\ existe \subseteq PROCESOS /\ abiertos \subseteq PROCESOS

(* The threads that wait in a recv on socket_filesystem are as many as the *)
(* requests and answers on their way, crossed or not: nobody waits for an  *)
(* answer that will not come, and no answer is left for a later request.   *)
RespuestasJustas ==
  Cardinality(Esperando) + (IF corto \in {"abrir", "crear"} THEN 1 ELSE 0)
    = Len(pedidos) + Len(respuestas) + (IF fs = NULO THEN 0 ELSE 1)

(* core.c 268: "Compactación: Esperando Fin de Operaciones de FS".  While  *)
(* memoria compacts no read or write is on its way to it.                  *)
CompactacionEspera ==
  corto = "bases" => \A r \in EnVuelo : r.cop \notin ConMemoria

(* mutex_compactacion does that, as long as no thread has taken the answer *)
(* to another's request.                                                   *)
CompactacionEsperaSinCruce == cruzada \/ CompactacionEspera

(* A blocked process is lost, in no queue and with no thread, only after   *)
(* answers were crossed: the filesystem never refuses what it is asked.    *)
Fuera(p) == p \notin listos /\ r_pcb # p /\ hilo[p] = "no"
NadiePerdido ==
  [][\A p \in PROCESOS : Fuera(p)' /\ ~Fuera(p) => r_pcb = p \/ cruzada']_vars

(* A file in tabla_archivos has an FCB, so that truncar_archivo, eferrid   *)
(* and eferrait find it and the filesystem goes on, as long as no thread   *)
(* has taken an answer to another's request, to an open or to anything     *)
(* else, in the whole of the run.                                          *)
AbiertosExisten == cruzada \/ (abiertos \subseteq existe /\ fs # CAIDO)

(* A thread that waits for the filesystem gets an answer, if the           *)
(* filesystem does not die: the mutex, the answers taken by others and the *)
(* compactions in between do not keep it waiting for ever.                 *)
TodosReciben ==
  \A p \in PROCESOS : hilo[p] # "no" ~> (hilo[p] = "no" \/ fs = CAIDO)
=============================================================================
