--------------------------- MODULE TablaArchivos ---------------------------
(***************************************************************************)
(* The kernel's table of open files (src/kernel/src/core.c): F_OPEN,       *)
(* F_CLOSE and F_SEEK, run by the short-term thread between the calls of   *)
(* Recursos.  A process that ends leaves its files in the table (the TODO  *)
(* of terminar_proceso).  The answer of the filesystem to an open changes  *)
(* nothing here; it is in Conversaciones.                                  *)
(***************************************************************************)
EXTENDS Recursos

CONSTANTS ARCHIVOS,
          POSICIONES     \* bound: the positions of F_SEEK, 0 among them

(* Files and resources are kept in two lists, each with names of its own:  *)
(* no name is taken for both here.  DESCONOCIDO also stands for the owner  *)
(* of a file that has lost its own: it is nobody's name.                   *)
ASSUME SupuestoArchivos ==
  /\ POSICIONES \subseteq Nat /\ 0 \in POSICIONES
  /\ RECURSOS \intersect ARCHIVOS = {}
  /\ DESCONOCIDO \notin PROCESOS \union {NULO}

VARIABLES
  tabla_archivos,      \* the queue of each file that is in the table
  archivos_abiertos,   \* of each process: [nombre, puntero]
  sin_cerrar           \* history: files whose owner ended with them open

archivosVars == <<tabla_archivos, archivos_abiertos, sin_cerrar>>

recursosVars == <<instancias_disponibles, cola_bloqueados, recursos_asignados,
                  fin, regalos>>

varsTabla == <<vars, archivosVars>>

InitTabla ==
  /\ Init
  /\ tabla_archivos = [f \in {} |-> <<>>]
  /\ archivos_abiertos = [p \in PROCESOS |-> <<>>]
  /\ sin_cerrar = {}

-----------------------------------------------------------------------------
(* verificar_string_en_lista on the list of p, 0 for -1.                   *)
IndiceArchivo(p, f) ==
  SelectInSeq(archivos_abiertos[p], LAMBDA a : a.nombre = f)

Anotar(p, f) ==
  archivos_abiertos' =
    [archivos_abiertos EXCEPT ![p] = Append(@, [nombre |-> f, puntero |-> 0])]

(* Mutant of DejarCPU: the process that has to wait goes on running.       *)
SeguirEnCPU == UNCHANGED RUNNING

DejarCPU == RUNNING' = NULO

AbrirLibre(p, f) ==
  /\ f \notin DOMAIN tabla_archivos
  /\ Llamada(p)
  /\ Anotar(p, f)
  /\ tabla_archivos' = [g \in DOMAIN tabla_archivos \union {f} |->
                          IF g = f THEN <<>> ELSE tabla_archivos[g]]
  /\ UNCHANGED <<recursosVars, READY, RUNNING, sin_cerrar>>

(* The file is noted as the process's before it waits for it.              *)
AbrirTomado(p, f) ==
  /\ f \in DOMAIN tabla_archivos
  /\ Llamada(p)
  /\ Anotar(p, f)
  /\ DejarCPU
  /\ tabla_archivos' = [tabla_archivos EXCEPT ![f] = Append(@, p)]
  /\ UNCHANGED <<recursosVars, READY, sin_cerrar>>

(* Mutants of Entregar: nobody is woken while the file stays in the table; *)
(* the entry leaves the table although a process is woken; the last of the *)
(* queue is woken.                                                         *)
EntregarSinDespertar(f) ==
  /\ tabla_archivos' = IF tabla_archivos[f] = <<>>
                         THEN Restrict(tabla_archivos, DOMAIN tabla_archivos \ {f})
                         ELSE tabla_archivos
  /\ UNCHANGED READY

EntregarYQuitar(f) ==
  /\ tabla_archivos' = Restrict(tabla_archivos, DOMAIN tabla_archivos \ {f})
  /\ READY' = READY \union (IF tabla_archivos[f] = <<>>
                              THEN {} ELSE {Head(tabla_archivos[f])})

EntregarAlUltimo(f) ==
  IF tabla_archivos[f] # <<>>
    THEN /\ tabla_archivos' = [tabla_archivos EXCEPT ![f] = Front(@)]
         /\ READY' = READY \union {Last(tabla_archivos[f])}
    ELSE /\ tabla_archivos' =
              Restrict(tabla_archivos, DOMAIN tabla_archivos \ {f})
         /\ UNCHANGED READY

(* The first of the queue goes to READY; without a queue the entry goes.   *)
Entregar(f) ==
  IF tabla_archivos[f] # <<>>
    THEN /\ tabla_archivos' = [tabla_archivos EXCEPT ![f] = Tail(@)]
         /\ READY' = READY \union {Head(tabla_archivos[f])}
    ELSE /\ tabla_archivos' =
              Restrict(tabla_archivos, DOMAIN tabla_archivos \ {f})
         /\ UNCHANGED READY

(* cerrar_archivo: nothing is done about a file that p has not opened, and *)
(* the table is not touched if the file is not in it.                      *)
Cerrar(p, f) ==
  LET i == IndiceArchivo(p, f)
  IN  /\ Llamada(p)
      /\ IF i = 0
           THEN UNCHANGED <<archivos_abiertos, tabla_archivos, READY>>
           ELSE /\ archivos_abiertos' =
                     [archivos_abiertos EXCEPT ![p] = RemoveAt(@, i)]
                /\ IF f \in DOMAIN tabla_archivos
                     THEN Entregar(f)
                     ELSE UNCHANGED <<tabla_archivos, READY>>
      /\ UNCHANGED <<recursosVars, RUNNING, sin_cerrar>>

CambiarPuntero(p, f, n) ==
  LET i == IndiceArchivo(p, f)
  IN  /\ Llamada(p)
      /\ archivos_abiertos' = [archivos_abiertos EXCEPT ![p] =
           IF i = 0 THEN @ ELSE [@ EXCEPT ![i].puntero = n]]
      /\ UNCHANGED <<recursosVars, READY, RUNNING, tabla_archivos, sin_cerrar>>

(* list_destroy(archivos_abiertos): the table keeps the entries.           *)
FinConArchivos ==
  /\ FinListo
  /\ archivos_abiertos' = [archivos_abiertos EXCEPT ![fin.pid] = <<>>]
  /\ sin_cerrar' = sin_cerrar \union
                     {a.nombre : a \in ToSet(archivos_abiertos[fin.pid])}
  /\ UNCHANGED tabla_archivos

NextTabla ==
  \/ Pasos /\ UNCHANGED archivosVars
  \/ FinConArchivos
  \/ \E p \in PROCESOS, f \in ARCHIVOS :
       \/ AbrirLibre(p, f) \/ AbrirTomado(p, f) \/ Cerrar(p, f)
       \/ \E n \in POSICIONES : CambiarPuntero(p, f, n)

SpecTabla == InitTabla /\ [][NextTabla]_varsTabla

-----------------------------------------------------------------------------
(* What a process waits for, and who has it.                               *)
Cosas == RECURSOS \union ARCHIVOS

ColaDe(c) ==
  IF c \in RECURSOS THEN cola_bloqueados[c]
  ELSE IF c \in DOMAIN tabla_archivos THEN tabla_archivos[c] ELSE <<>>

EsperaPor(p, c) == p \in ToSet(ColaDe(c))

Abiertos(p, f) ==
  Cardinality({i \in DOMAIN archivos_abiertos[p] :
                 archivos_abiertos[p][i].nombre = f})

(* p has f and is not waiting for it; also the one that waits for itself.  *)
Duenio(p, f) == Abiertos(p, f) > IF EsperaPor(p, f) THEN 1 ELSE 0

LoTiene(p, c) ==
  IF c \in RECURSOS
    THEN Asignadas(p, c) > IF Espera(p, c) THEN 1 ELSE 0
    ELSE Duenio(p, c)

(* Its owner ended and did not give it back; of a resource, there is less  *)
(* of it than kernel.config gives.                                         *)
Perdida(c) ==
  IF c \in RECURSOS
    THEN instancias_disponibles[c]
           + MapThenSumSet(LAMBDA p : Asignadas(p, c), PROCESOS) < INSTANCIAS[c]
    ELSE c \in sin_cerrar

TypeOKTabla ==
  /\ TypeOK
  /\ DOMAIN tabla_archivos \subseteq ARCHIVOS
  /\ \A f \in DOMAIN tabla_archivos : tabla_archivos[f] \in Seq(PROCESOS)
  /\ archivos_abiertos \in
       [PROCESOS -> Seq([nombre : ARCHIVOS, puntero : POSICIONES])]
  /\ sin_cerrar \subseteq DOMAIN tabla_archivos

(* core.c:418 and 482-497: a file in the table has exactly one owner, or   *)
(* none if its owner ended with it open, and a file that is not in the     *)
(* table is in no process's list, whatever the order of opens, hand-overs  *)
(* and closes.                                                             *)
UnDuenio ==
  \A f \in ARCHIVOS :
    Cardinality({p \in PROCESOS : Duenio(p, f)}) =
      IF f \in DOMAIN tabla_archivos \ sin_cerrar THEN 1 ELSE 0

(* A process that waits (core.c:218-226 and 411-418), waits once, for one  *)
(* resource or one file, and neither runs nor is ready nor is being ended, *)
(* so that nobody wakes it twice.                                          *)
EsperaUnaCosa ==
  \A p \in PROCESOS, c \in Cosas : EsperaPor(p, c) =>
    /\ p \notin READY \union {RUNNING}
    /\ fin.paso # "no" => p # fin.pid
    /\ Cardinality({i \in DOMAIN ColaDe(c) : ColaDe(c)[i] = p}) = 1
    /\ \A d \in Cosas \ {c} : ~EsperaPor(p, d)

(* kernel.config gives it no instance: a WAIT is only served by the SIGNAL *)
(* of a process that had none.                                             *)
DeNadie(c) == c \in RECURSOS /\ INSTANCIAS[c] = 0

(* Every process of the set waits for something that one of them has.      *)
Ciclo(s) ==
  \A p \in s : \E c \in Cosas, q \in s : EsperaPor(p, c) /\ LoTiene(q, c)

(* core.c:225, 418 and the TODO of 167: the only ways for processes to     *)
(* wait with nobody left to run are a cycle of waits among resources and   *)
(* files, something that a process which ended did not give back, and a    *)
(* resource of which the configuration has no instance.                    *)
AtascoExplicado ==
  LET esperan == {p \in PROCESOS : \E c \in Cosas : EsperaPor(p, c)}
  IN  (READY = {} /\ RUNNING = NULO /\ fin = SinFin /\ esperan # {}) =>
        \/ \E s \in (SUBSET esperan) \ {{}} : Ciclo(s)
        \/ \E p \in esperan, c \in Cosas :
             EsperaPor(p, c) /\ (Perdida(c) \/ DeNadie(c))

-----------------------------------------------------------------------------
DuenioAbstracto ==
  [f \in ARCHIVOS |->
     IF f \notin DOMAIN tabla_archivos THEN NULO
     ELSE IF f \in sin_cerrar THEN DESCONOCIDO
     ELSE CHOOSE p \in PROCESOS : Duenio(p, f)]

ColasAbstractas == [f \in ARCHIVOS |-> ColaDe(f)]

PosicionAbstracta ==
  [f \in ARCHIVOS |->
     LET p == DuenioAbstracto[f]
     IN  IF p \in PROCESOS
           THEN archivos_abiertos[p][IndiceArchivo(p, f)].puntero ELSE 0]

Turnos ==
  INSTANCE ArchivosEnTurno WITH
    NADIE <- NULO, ENDED <- DESCONOCIDO, duenio <- DuenioAbstracto,
    turnos <- ColasAbstractas, posicion <- PosicionAbstracta

(* core.c:405-516: the lists, the table and the hand-over implement a lock *)
(* per file granted in the order of the opens, with one position per file. *)
(* A step that leaves archivosVars alone leaves those of Turnos alone.     *)
ImplementaTurnos ==
  /\ Turnos!Init
  /\ [][UNCHANGED archivosVars \/ [Turnos!Next]_(Turnos!vars)]_varsTabla
=============================================================================
