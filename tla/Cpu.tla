-------------------------------- MODULE Cpu --------------------------------
(***************************************************************************)
(* A program on the CPU: its context goes from the kernel to the CPU and   *)
(* comes back with a system call (src/kernel/src/comunicacion.c,           *)
(* src/cpu/src), the CPU reads and writes the memory of memoria through    *)
(* its MMU (src/memoria/src), and the kernel creates, releases and moves   *)
(* segments between two turns of the CPU while the threads of file         *)
(* operations use addresses the CPU gave them before.  Which process runs  *)
(* and in which hole a segment goes are any: Planificador and Memoria.     *)
(***************************************************************************)
EXTENDS Contexto

CONSTANTS PROCESOS, NULO,
          CELDAS,               \* what a cell may hold, Nul and Dato among them
          PROGRAMAS,            \* the programs consoles send, none of them empty
          TAM_MEMORIA, TAM_SEGMENTO_0       \* memoria.config, in cells

(* t_instruccion with its arguments as atoi and strcmp read them: numbers  *)
(* are uint32_t, a segment is one of the table, and a name that decode     *)
(* does not know has none.                                                 *)
INSTRUCCIONES ==
  [op : {"SET"}, reg : DOMAIN ANCHO, val : Seq(CELDAS)]
  \union [op : {"MOV_IN", "MOV_OUT"}, reg : DOMAIN ANCHO, dir : Nat]
  \union [op : DeArchivo, dir : Nat, cant : Nat]
  \union [op : {"CREATE_SEGMENT"}, id : IDS \ {0}, tam : Nat \ {0}]
  \union [op : {"DELETE_SEGMENT"}, id : IDS \ {0}]
  \union [op : STRING \ (EnCpu \union (Llamadas \ {"YIELD"}))]

ASSUME SupuestoCpu ==
  /\ NULO \notin PROCESOS /\ {Nul, Dato} \subseteq CELDAS
  /\ TAM_MEMORIA \in Nat /\ TAM_SEGMENTO_0 \in 0..TAM_MEMORIA
  /\ \A i \in PROGRAMAS : i \in Seq(INSTRUCCIONES) /\ i # <<>>

VARIABLES
  programa, program_counter, registros_cpu, tabla_segmentos,  \* in each t_pcb
  RUNNING, terminados,
  enlace,            \* the message on socket_cpu, NULO for nothing
  contexto,          \* the CPU's globals
  cpu,               \* "espera" a context, "ejecuta", or "caida"
  ESPACIO_USUARIO,   \* of memoria
  memoria,           \* "atiende", or "caida"
  hilo               \* the file operation of each process, if any

pcbs == <<programa, program_counter, registros_cpu, tabla_segmentos>>
vars == <<pcbs, RUNNING, terminados, enlace, contexto, cpu, ESPACIO_USUARIO,
          memoria, hilo>>

FUERA == -1                 \* the mmu's answer to an access past its segment
SinHilo == [fase |-> "no"]
Inactivo == [base |-> 0, tam |-> 0, activo |-> FALSE]

(* crear_tabla_segmentos: segment 0 is everybody's.                        *)
TablaInicial ==
  [s \in IDS |-> IF s = 0
                   THEN [base |-> 0, tam |-> TAM_SEGMENTO_0, activo |-> TRUE]
                   ELSE Inactivo]

Init ==
  /\ programa \in [PROCESOS -> PROGRAMAS]
  /\ program_counter = [p \in PROCESOS |-> 0]
  /\ registros_cpu = [p \in PROCESOS |-> RegistrosVacios]
  /\ tabla_segmentos = [p \in PROCESOS |-> TablaInicial]
  /\ RUNNING = NULO /\ terminados = {}
  /\ enlace = NULO /\ cpu = "espera"
  /\ contexto = [pid |-> NULO, pc |-> 0, registros |-> RegistrosVacios,
                 instrucciones |-> <<>>, segmentos |-> TablaInicial]
  /\ ESPACIO_USUARIO = [c \in 0..(TAM_MEMORIA - 1) |-> Nul]
  /\ memoria = "atiende"
  /\ hilo = [p \in PROCESOS |-> SinHilo]

-----------------------------------------------------------------------------
(* mandar_a_cpu: the process that is RUNNING goes on, or any other starts. *)
MandarACpu(p) ==
  /\ enlace = NULO /\ cpu = "espera"
  /\ p \notin terminados /\ hilo[p] = SinHilo
  /\ RUNNING \in {NULO, p}
  /\ RUNNING' = p
  /\ enlace' = [a |-> "cpu", cop |-> "NUEVO_CONTEXTO_PCB",
                m |-> SerializarContextoPCB(p, registros_cpu[p],
                        program_counter[p], programa[p], tabla_segmentos[p])]
  /\ UNCHANGED <<pcbs, terminados, contexto, cpu, ESPACIO_USUARIO, memoria,
                 hilo>>

CpuRecibe ==
  /\ enlace # NULO /\ enlace.a = "cpu"
  /\ contexto' = CambiarContexto(Recibido(enlace.m))
  /\ enlace' = NULO /\ cpu' = "ejecuta"
  /\ UNCHANGED <<pcbs, RUNNING, terminados, ESPACIO_USUARIO, memoria, hilo>>

-----------------------------------------------------------------------------
(* The requests to memoria have an answer.                                 *)
Atiende == memoria = "atiende"

MMU(tabla, dir, n) ==
  LET s == tabla[SegmentoDe(dir)]
  IN  IF Desplazamiento(dir) + n > s.tam THEN FUERA
                                         ELSE s.base + Desplazamiento(dir)

Leer(dir, n) == [i \in 1..n |-> ESPACIO_USUARIO[dir + i - 1]]

Escribir(dir, v) ==
  ESPACIO_USUARIO' = [c \in DOMAIN ESPACIO_USUARIO |->
    IF c - dir + 1 \in DOMAIN v THEN v[c - dir + 1] ELSE ESPACIO_USUARIO[c]]

HayInstruccion == contexto.pc < Len(contexto.instrucciones)
Instruccion == contexto.instrucciones[contexto.pc + 1]

Ejecuta(op) ==
  /\ cpu = "ejecuta"
  /\ HayInstruccion /\ ~SinEntrada(Instruccion)
  /\ Decode(Instruccion) = op
  /\ UNCHANGED <<pcbs, RUNNING, terminados, memoria, hilo>>

(* Mutant of Argumentos: the address goes without the mmu.                 *)
ArgumentosSinMMU(cop) ==
  LET i == Instruccion
  IN  CASE cop = "CREATE_SEGMENT" -> <<i.id, i.tam>>
        [] cop = "DELETE_SEGMENT" -> <<i.id>>
        [] cop \in DeArchivo -> <<Dato, i.dir, i.cant>>
        [] OTHER -> <<>>

(* What the kernel needs of the instruction, with the mmu's answer as it   *)
(* comes; the name of a file goes first.                                   *)
Argumentos(cop) ==
  LET i == Instruccion
  IN  CASE cop = "CREATE_SEGMENT" -> <<i.id, i.tam>>
        [] cop = "DELETE_SEGMENT" -> <<i.id>>
        [] cop \in DeArchivo ->
             <<Dato, MMU(contexto.segmentos, i.dir, i.cant), i.cant>>
        [] OTHER -> <<>>

(* devolver_contexto; the pc was advanced when the instruction was fetched. *)
Devolver(cop, registros) ==
  /\ contexto' = [contexto EXCEPT !.pc = @ + 1, !.registros = registros]
  /\ enlace' = [a |-> "kernel", cop |-> cop,
                m |-> SerializarContexto(registros, contexto.pc + 1,
                                         Argumentos(cop))]
  /\ cpu' = "espera"

(* Mutant of UltimaInstruccion: the end of the list is one further.        *)
UnaMas == contexto.pc + 1 > Len(contexto.instrucciones)

UltimaInstruccion == contexto.pc + 1 >= Len(contexto.instrucciones)

(* The next instruction, or CPU_EXIT at the end of the list.               *)
Seguir(registros) ==
  IF UltimaInstruccion
    THEN Devolver("EXIT", registros)
    ELSE /\ contexto' = [contexto EXCEPT !.pc = @ + 1, !.registros = registros]
         /\ UNCHANGED <<enlace, cpu>>

CpuSet ==
  /\ Ejecuta("SET")
  /\ Seguir([contexto.registros EXCEPT ![Instruccion.reg] =
               Strncpy(Instruccion.val, ANCHO[Instruccion.reg])])
  /\ UNCHANGED ESPACIO_USUARIO

(* determinar_registro, for MOV_IN and MOV_OUT.                            *)
TamRegistro == ANCHO[Instruccion.reg]

CpuMovIn ==
  /\ Ejecuta("MOV_IN")
  /\ LET n == TamRegistro
         dir == MMU(contexto.segmentos, Instruccion.dir, n)
     IN  IF dir = FUERA
           THEN Devolver("SEG_FAULT", contexto.registros)
           ELSE /\ Atiende
                /\ Seguir([contexto.registros EXCEPT ![Instruccion.reg] =
                             Strncpy(Leer(dir, n), n)])
  /\ UNCHANGED ESPACIO_USUARIO

CpuMovOut ==
  /\ Ejecuta("MOV_OUT")
  /\ LET dir == MMU(contexto.segmentos, Instruccion.dir, TamRegistro)
     IN  IF dir = FUERA
           THEN /\ Devolver("SEG_FAULT", contexto.registros)
                /\ UNCHANGED ESPACIO_USUARIO
           ELSE /\ Atiende
                /\ Seguir(contexto.registros)
                /\ Escribir(dir, contexto.registros[Instruccion.reg])

CpuLlamada ==
  \E op \in Llamadas \union {"EXIT"} :
    Ejecuta(op) /\ Devolver(op, contexto.registros) /\ UNCHANGED ESPACIO_USUARIO

(* The NULL of list_get, of an instruction or of a segment, dereferenced.  *)
CpuCae ==
  /\ cpu = "ejecuta"
  /\ ~HayInstruccion \/ SinEntrada(Instruccion)
  /\ cpu' = "caida"
  /\ UNCHANGED <<pcbs, RUNNING, terminados, enlace, contexto, ESPACIO_USUARIO,
                 memoria, hilo>>

-----------------------------------------------------------------------------
(* recibir_nuevo_contexto.                                                 *)
Recibo == Recibido(enlace.m)

(* deserializar_contexto_pcb.                                              *)
Guardar ==
  /\ registros_cpu' =
       [registros_cpu EXCEPT ![RUNNING] = DeserializarRegistros(Recibo)]
  /\ program_counter' =
       [program_counter EXCEPT ![RUNNING] = DeserializarPC(Recibo)]

KernelRecibe(cops) ==
  /\ enlace # NULO /\ enlace.a = "kernel" /\ enlace.cop \in cops
  /\ Guardar
  /\ enlace' = NULO
  /\ UNCHANGED <<programa, contexto, cpu, memoria>>

(* A call after which the process goes on, or lets another one run.        *)
KernelYield ==
  /\ KernelRecibe({"YIELD"})
  /\ RUNNING' \in {RUNNING, NULO}
  /\ UNCHANGED <<tabla_segmentos, terminados, ESPACIO_USUARIO, hilo>>

(* terminar_proceso releases the segments.                                 *)
Terminar(cops) ==
  /\ KernelRecibe(cops)
  /\ Atiende
  /\ terminados' = terminados \union {RUNNING}
  /\ tabla_segmentos' = [tabla_segmentos EXCEPT ![RUNNING] = TablaInicial]
  /\ RUNNING' = NULO
  /\ UNCHANGED <<ESPACIO_USUARIO, hilo>>

KernelTermina == Terminar({"EXIT", "SEG_FAULT"})

(* The segments that take up memory, segment 0 once.                       *)
Activos ==
  {a \in PROCESOS \X (IDS \ {0}) : tabla_segmentos[a[1]][a[2]].activo}

Celdas(d) == d.base..(d.base + d.tam - 1)
CeldasDe(a) == Celdas(tabla_segmentos[a[1]][a[2]])
Ocupadas == 0..(TAM_SEGMENTO_0 - 1) \union UNION {CeldasDe(a) : a \in Activos}
Libres == DOMAIN ESPACIO_USUARIO \ Ocupadas

(* Where a segment may start: at the beginning of a hole that is enough.   *)
Huecos(tam) ==
  {b \in Libres : b - 1 \notin Libres /\ b..(b + tam - 1) \subseteq Libres}

KernelCrea ==
  /\ KernelRecibe({"CREATE_SEGMENT"})
  /\ Atiende
  /\ LET id == Argumento(Recibo, 1)  tam == Argumento(Recibo, 2)
     IN  \E b \in Huecos(tam) :
           tabla_segmentos' = [tabla_segmentos EXCEPT ![RUNNING][id] =
                                 [base |-> b, tam |-> tam, activo |-> TRUE]]
  /\ UNCHANGED <<RUNNING, terminados, ESPACIO_USUARIO, hilo>>

KernelSinMemoria ==
  /\ Terminar({"CREATE_SEGMENT"})
  /\ Cardinality(Libres) < Argumento(Recibo, 2)

KernelBorra ==
  /\ KernelRecibe({"DELETE_SEGMENT"})
  /\ Atiende
  /\ tabla_segmentos' =
       [tabla_segmentos EXCEPT ![RUNNING][Argumento(Recibo, 1)] = Inactivo]
  /\ UNCHANGED <<RUNNING, terminados, ESPACIO_USUARIO, hilo>>

(* Where a segment goes: down, over the free cells below it.               *)
NuevaBase(d) == Cardinality({c \in Ocupadas : c < d.base})

(* memcpy of d down to its new base, over a part of itself if they are     *)
(* near: the library copies from the first cell on or from the last one    *)
(* back, and then a cell that was written already is what goes below.      *)
Origen(d, c, alReves) ==
  LET baja == d.base - NuevaBase(d)
      ultima == d.base + d.tam - 1
  IN  IF alReves /\ baja > 0 THEN ultima - ((ultima - c) % baja) ELSE c + baja

(* The cells after every segment has moved down.                           *)
Movidas(alReves) ==
  [c \in DOMAIN ESPACIO_USUARIO |->
     LET movidos == {a \in Activos :
                       LET d == tabla_segmentos[a[1]][a[2]]
                       IN  c \in NuevaBase(d)..(NuevaBase(d) + d.tam - 1)}
     IN  IF movidos = {} THEN ESPACIO_USUARIO[c]
         ELSE LET a == CHOOSE a \in movidos : TRUE
              IN  ESPACIO_USUARIO[
                    Origen(tabla_segmentos[a[1]][a[2]], c, alReves)]]

(* Mutant of NadieOpera: mutex_compactacion is not asked for.              *)
SinEsperar == TRUE

NadieOpera == \A p \in PROCESOS : hilo[p].fase # "toma"

(* No hole is enough but all of them together are: with mutex_compactacion *)
(* every segment moves down and every table gets the new bases; then the   *)
(* creation is asked for again.                                            *)
Compactar ==
  /\ enlace # NULO /\ enlace.a = "kernel" /\ enlace.cop = "CREATE_SEGMENT"
  /\ Cardinality(Libres) >= Argumento(Recibo, 2)
  /\ Huecos(Argumento(Recibo, 2)) = {}
  /\ Atiende /\ NadieOpera
  /\ \E alReves \in BOOLEAN : ESPACIO_USUARIO' = Movidas(alReves)
  /\ tabla_segmentos' = [p \in PROCESOS |-> [s \in IDS |->
       LET d == tabla_segmentos[p][s]
       IN  IF <<p, s>> \in Activos THEN [d EXCEPT !.base = NuevaBase(d)] ELSE d]]
  /\ hilo' = [p \in PROCESOS |->
       IF hilo[p].fase = "nace" THEN [hilo[p] EXCEPT !.vieja = TRUE] ELSE hilo[p]]
  /\ UNCHANGED <<programa, program_counter, registros_cpu, RUNNING, terminados,
                 enlace, contexto, cpu, memoria>>

-----------------------------------------------------------------------------
(* F_READ and F_WRITE: a thread with the physical address.  Two fields are *)
(* history: logica, the address in the program, and vieja, that there was  *)
(* a compaction before the thread locked the mutex.                        *)
KernelArchivo ==
  /\ KernelRecibe(DeArchivo)
  /\ hilo' = [hilo EXCEPT ![RUNNING] =
       [fase |-> "nace", cop |-> enlace.cop, dir |-> Argumento(Recibo, 2),
        cant |-> Argumento(Recibo, 3), vieja |-> FALSE,
        logica |-> programa[RUNNING][DeserializarPC(Recibo)].dir]]
  /\ RUNNING' = NULO
  /\ UNCHANGED <<tabla_segmentos, terminados, ESPACIO_USUARIO>>

HiloToma(p) ==
  /\ hilo[p].fase = "nace" /\ NadieOpera
  /\ hilo' = [hilo EXCEPT ![p].fase = "toma"]
  /\ UNCHANGED <<pcbs, RUNNING, terminados, enlace, contexto, cpu,
                 ESPACIO_USUARIO, memoria>>

(* The cells of the transfer are cells of memoria, whoever has them now.   *)
DentroDeMemoria(p) ==
  hilo[p].dir >= 0 /\ hilo[p].dir + hilo[p].cant <= TAM_MEMORIA

HiloOpera(p) ==
  /\ hilo[p].fase = "toma"
  /\ Atiende
  /\ DentroDeMemoria(p)
  /\ IF hilo[p].cop = "F_READ"
       THEN Escribir(hilo[p].dir, [i \in 1..hilo[p].cant |-> Dato])
       ELSE UNCHANGED ESPACIO_USUARIO
  /\ hilo' = [hilo EXCEPT ![p] = SinHilo]
  /\ UNCHANGED <<pcbs, RUNNING, terminados, enlace, contexto, cpu, memoria>>

(* The memcpy of memoria to or from outside its memory, as far as          *)
(* uint32_t -1: it falls, and nothing that needs it goes on.               *)
MemoriaCae(p) ==
  /\ hilo[p].fase = "toma"
  /\ Atiende
  /\ ~DentroDeMemoria(p)
  /\ memoria' = "caida"
  /\ UNCHANGED <<pcbs, RUNNING, terminados, enlace, contexto, cpu,
                 ESPACIO_USUARIO, hilo>>

Next ==
  \/ \E p \in PROCESOS :
       MandarACpu(p) \/ HiloToma(p) \/ HiloOpera(p) \/ MemoriaCae(p)
  \/ CpuRecibe \/ CpuSet \/ CpuMovIn \/ CpuMovOut \/ CpuLlamada \/ CpuCae
  \/ KernelYield \/ KernelTermina \/ KernelCrea \/ KernelSinMemoria
  \/ KernelBorra \/ KernelArchivo \/ Compactar

Spec == Init /\ [][Next]_vars

-----------------------------------------------------------------------------
Tabla == [IDS -> [base : Nat, tam : Nat, activo : BOOLEAN]]
DeSuAncho(regs) == \A r \in DOMAIN ANCHO : regs[r] \in [1..ANCHO[r] -> CELDAS]

(* The type invariant of the contexts and of the memory.                   *)
TypeOK ==
  /\ \A p \in PROCESOS : /\ program_counter[p] \in 0..Len(programa[p])
                         /\ DeSuAncho(registros_cpu[p])
  /\ tabla_segmentos \in [PROCESOS -> Tabla]
  /\ RUNNING \in PROCESOS \union {NULO} /\ terminados \subseteq PROCESOS
  /\ DeSuAncho(contexto.registros)
  /\ contexto.pc \in 0..Len(contexto.instrucciones)
  /\ cpu \in {"espera", "ejecuta", "caida"}
  /\ ESPACIO_USUARIO \in [0..(TAM_MEMORIA - 1) -> CELDAS]
  /\ memoria \in {"atiende", "caida"}
  /\ \A p \in PROCESOS : hilo[p].fase \in {"no", "nace", "toma"}

(* core.c:562, 612: the physical address of a file operation was computed  *)
(* by the CPU before the thread locks mutex_compactacion.  It is still the *)
(* address of that part of a segment of the process, whatever was created, *)
(* released or moved meanwhile, unless there was a compaction before the   *)
(* thread had the mutex or the mmu had already said no                     *)
(* (comunicacion.c:106).                                                   *)
DireccionVigente ==
  \A p \in PROCESOS :
    LET h == hilo[p]
    IN  h.fase = "no" \/ h.vieja
        \/ h.dir = MMU(tabla_segmentos[p], h.logica, h.cant)

(* utils.c:426, 488: the CPU looks for an instruction past the end of the  *)
(* list only if the last one was a system call that is not an EXIT and the *)
(* kernel resumed the process; a program that ends otherwise is ended.     *)
(* With an instruction left, it falls only for the segment of its address. *)
CaidaExplicada ==
  cpu = "caida" =>
    \/ HayInstruccion /\ SinEntrada(Instruccion)
    \/ /\ contexto.pc = Len(contexto.instrucciones)
       /\ Decode(contexto.instrucciones[contexto.pc]) \in Llamadas

(* comunicacion.c:106 of the CPU, which sends the mmu's answer as it is:   *)
(* memoria falls only for the F_READ or F_WRITE of a process that goes     *)
(* past its own segment, never for an address that a compaction made old.  *)
MemoriaCaidaExplicada ==
  memoria = "caida" =>
    \E p \in PROCESOS :
      /\ hilo[p].fase = "toma"
      /\ MMU(tabla_segmentos[p], hilo[p].logica, hilo[p].cant) = FUERA

(* A process that is on the CPU, and the context it has now.               *)
EnviaKernel(p) == RUNNING = p /\ enlace # NULO /\ enlace.a = "kernel"
EnLaCpu(p) == RUNNING = p /\ cpu # "espera"

Vistos(p) == IF EnLaCpu(p) THEN contexto.registros
             ELSE IF EnviaKernel(p) THEN DeserializarRegistros(Recibo)
             ELSE registros_cpu[p]

Aislados ==
  INSTANCE ProcesosAislados WITH
    NINGUNO <- NULO,
    pc <- [p \in PROCESOS |-> IF EnLaCpu(p) THEN contexto.pc
                              ELSE IF EnviaKernel(p) THEN DeserializarPC(Recibo)
                              ELSE program_counter[p]],
    registros <- [p \in PROCESOS |-> Vistos(p)],
    segmentos <- [p \in PROCESOS |-> [s \in IDS \ {0} |->
      Leer(tabla_segmentos[p][s].base, tabla_segmentos[p][s].tam)]],
    comun <- Leer(0, TAM_SEGMENTO_0),
    pedido <- [p \in PROCESOS |-> IF EnviaKernel(p) THEN enlace.cop
                                  ELSE IF hilo[p].fase # "no" THEN hilo[p].cop
                                  ELSE NULO]

(* The address of a transfer is no longer the process's.                   *)
Ajena(p) ==
  hilo[p].dir # MMU(tabla_segmentos[p], hilo[p].logica, hilo[p].cant)

(* The two steps that change cells of others or lose their own: a transfer *)
(* to the address a segment had before a compaction that went before the   *)
(* lock of the thread, and a memcpy over itself from the last cell back.   *)
Pisa ==
  \/ \E p \in PROCESOS : HiloOpera(p) /\ hilo[p].vieja /\ Ajena(p)
  \/ Compactar /\ ESPACIO_USUARIO' # Movidas(FALSE)

(* cpu/src/utils.c, memoria/src/utils.c and the exchange of contexts: each *)
(* process runs its program once and in order on registers and segments of *)
(* its own, whatever the turns of the CPU, the compactions and the file    *)
(* operations of the others; only the two steps of Pisa do anything else,  *)
(* and what they leave in memory is all that the programs see of them.     *)
ImplementaAislados ==
  /\ Aislados!Init
  /\ [][~Pisa => [Aislados!Next]_(Aislados!vars)]_vars
=============================================================================
