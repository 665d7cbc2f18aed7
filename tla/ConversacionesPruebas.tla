------------------------ MODULE ConversacionesPruebas ------------------------
(***************************************************************************)
(* Theorems about the conversation of the kernel's threads with the        *)
(* filesystem, for any set of processes and programs of any length.        *)
(***************************************************************************)
EXTENDS Conversaciones, FiniteSetTheorems, SequenceTheorems, TLAPS

RespuestasPosibles == [a : PedidosPosibles, archivo_ok : {0, 1}]

(* What each variable holds.                                               *)
Tipos ==
  /\ listos \subseteq PROCESOS /\ r_pcb \in PROCESOS \union {NULO}
  /\ corto \in {"inicio", "despacho", "abrir", "crear", "compactacion", "bases"}
  /\ hilo \in [PROCESOS -> {"no", "nace", "espera"}]
  /\ operacion \in [PROCESOS -> DeHilo \union {NULO}]
  /\ pedidos \in Seq(PedidosPosibles)
  /\ respuestas \in Seq(RespuestasPosibles)
  /\ fs \in PedidosPosibles \union {NULO, CAIDO}
  /\ existe \subseteq PROCESOS /\ abiertos \subseteq PROCESOS
  /\ llamadas \in [PROCESOS -> Nat]
  /\ cruzada \in BOOLEAN

(* A process is ready, or the one corto serves, or it has a thread; the    *)
(* thread has an operation, on a file the process has open.                *)
Reparto ==
  /\ corto = "inicio" <=> r_pcb = NULO
  /\ \A p \in PROCESOS :
       /\ hilo[p] = "no" <=> operacion[p] \notin DeHilo
       /\ hilo[p] # "no" => p \notin listos /\ r_pcb # p /\ p \in abiertos
       /\ r_pcb = p => p \notin listos

(* mutex_compactacion is of corto while memoria compacts, and of the       *)
(* thread that waits for a read or a write, and of nobody else.            *)
Cerrojo ==
  /\ mutex_compactacion \in {"libre", "corto"} \union PROCESOS
  /\ mutex_compactacion = "corto" <=> corto = "bases"
  /\ \A p \in PROCESOS :
       mutex_compactacion = p <=> hilo[p] = "espera" /\ operacion[p] \in ConMemoria

Forma == Tipos /\ Reparto /\ Cerrojo

(* Somebody waits for the answer to request r.                             *)
Vigente(r) ==
  \/ r.cop \in DeHilo /\ hilo[r.archivo] = "espera"
                      /\ operacion[r.archivo] = r.cop
  \/ r.cop = "ABRIR_ARCHIVO" /\ corto = "abrir" /\ r_pcb = r.archivo
  \/ r.cop = "CREAR_ARCHIVO" /\ corto = "crear" /\ r_pcb = r.archivo

Atendiendo == fs \notin {NULO, CAIDO}

(* Everything on its way is waited for ...                                 *)
TodosVigentes ==
  /\ \A i \in DOMAIN pedidos : Vigente(pedidos[i])
  /\ Atendiendo => Vigente(fs) /\ fs.cop \in ConMemoria
  /\ \A i \in DOMAIN respuestas : Vigente(respuestas[i].a)

(* ... nothing twice ...                                                   *)
UnoPorProceso ==
  /\ \A i, j \in DOMAIN pedidos :
       pedidos[i].archivo = pedidos[j].archivo => i = j
  /\ \A i, j \in DOMAIN respuestas :
       respuestas[i].a.archivo = respuestas[j].a.archivo => i = j
  /\ \A i \in DOMAIN pedidos, j \in DOMAIN respuestas :
       pedidos[i].archivo # respuestas[j].a.archivo
  /\ Atendiendo =>
       /\ \A i \in DOMAIN pedidos : pedidos[i].archivo # fs.archivo
       /\ \A i \in DOMAIN respuestas : respuestas[i].a.archivo # fs.archivo

(* ... and each answer is 0, but for a file that is not there to be opened.*)
Veraces ==
  \A i \in DOMAIN respuestas :
    /\ respuestas[i].a.cop # "ABRIR_ARCHIVO" => respuestas[i].archivo_ok = 0
    /\ respuestas[i].archivo_ok = 0 => respuestas[i].a.archivo \in existe

(* All that, until a thread takes the answer to another's request.         *)
Orden == TodosVigentes /\ UnoPorProceso /\ Veraces /\ AbiertosExisten

Acuerdo == ~cruzada => Orden

Cuenta == IsFiniteSet(Esperando) /\ RespuestasJustas

(* The inductive invariant.                                                *)
Inductivo == Forma /\ Cuenta /\ Acuerdo

-----------------------------------------------------------------------------
(* Init satisfies the invariant: nothing is on its way.                    *)
LEMMA InicioInductivo == Init => Inductivo
<1> SUFFICES ASSUME Init PROVE Inductivo
  OBVIOUS
<1>1. Tipos
  <2>1. <<>> \in Seq(PedidosPosibles) /\ <<>> \in Seq(RespuestasPosibles)
    OBVIOUS
  <2> QED
    BY <2>1 DEF Init, Tipos
<1>2. Reparto
  BY SupuestoNulo DEF Init, Reparto
<1>3. Cerrojo
  BY SupuestoNulo DEF Init, Cerrojo
<1>4. Cuenta
  <2>1. Esperando = {}
    BY DEF Init, Esperando
  <2>2. IsFiniteSet(Esperando) /\ Cardinality(Esperando) = 0
    BY <2>1, FS_EmptySet
  <2> QED
    BY <2>2 DEF Init, Cuenta, RespuestasJustas
<1>5. Orden
  BY SupuestoNulo DEF Init, Orden, TodosVigentes, UnoPorProceso, Veraces,
                      AbiertosExisten, Atendiendo
<1> QED
  BY <1>1, <1>2, <1>3, <1>4, <1>5 DEF Inductivo, Forma, Acuerdo

(* A request is a request, and an answer an answer.                        *)
LEMMA PedidoTipo ==
  ASSUME NEW p \in PROCESOS,
         NEW cop \in DeHilo \union {"ABRIR_ARCHIVO", "CREAR_ARCHIVO"}
  PROVE  /\ Pedido(cop, p) \in PedidosPosibles
         /\ Pedido(cop, p).cop = cop /\ Pedido(cop, p).archivo = p
BY DEF Pedido, PedidosPosibles

(* An answer carries its request, and may be appended to the answers.      *)
LEMMA RespuestaTipo ==
  ASSUME NEW r \in PedidosPosibles, NEW ok \in {0, 1}
  PROVE  /\ Respuesta(r, ok) \in RespuestasPosibles
         /\ Respuesta(r, ok).a = r /\ Respuesta(r, ok).archivo_ok = ok
         /\ \A s \in Seq(RespuestasPosibles) :
              Append(s, Respuesta(r, ok)) \in Seq(RespuestasPosibles)
<1>1. /\ Respuesta(r, ok) \in RespuestasPosibles
      /\ Respuesta(r, ok).a = r /\ Respuesta(r, ok).archivo_ok = ok
  BY DEF Respuesta, RespuestasPosibles
<1> QED
  BY <1>1

(* The head of the requests, while the filesystem attends it.              *)
LEMMA PedidoAtendido ==
  ASSUME Tipos, NEW cop, Atiende(cop)
  PROVE  /\ pedidos # <<>> /\ Head(pedidos) \in PedidosPosibles
         /\ Head(pedidos).cop = cop /\ Archivo \in PROCESOS
         /\ Head(pedidos) = pedidos[1]
         /\ pedidos' = Tail(pedidos) /\ pedidos' \in Seq(PedidosPosibles)
         /\ fs = NULO
         /\ UNCHANGED <<planes, trabajos, abiertos, cruzada>>
<1>1. pedidos \in Seq(PedidosPosibles) /\ pedidos # <<>>
  BY DEF Tipos, Atiende
<1>2. /\ Head(pedidos) \in PedidosPosibles /\ Head(pedidos) = pedidos[1]
      /\ Tail(pedidos) \in Seq(PedidosPosibles)
  BY <1>1
<1>3. Archivo \in PROCESOS
  BY <1>2 DEF Archivo, PedidosPosibles
<1> QED
  BY <1>1, <1>2, <1>3 DEF Atiende

(* The answer a thread takes is the first.                                 *)
LEMMA RespuestaTomada ==
  ASSUME Tipos, NEW r, Toma(r)
  PROVE  /\ respuestas # <<>> /\ Head(respuestas) = respuestas[1]
         /\ Head(respuestas) \in RespuestasPosibles
         /\ respuestas' = Tail(respuestas)
         /\ respuestas' \in Seq(RespuestasPosibles)
         /\ cruzada' \in BOOLEAN
         /\ ~cruzada' <=> ~cruzada /\ Head(respuestas).a = r
<1>1. respuestas \in Seq(RespuestasPosibles) /\ respuestas # <<>>
  BY DEF Tipos, Toma
<1>2. /\ Head(respuestas) \in RespuestasPosibles
      /\ Head(respuestas) = respuestas[1]
      /\ Tail(respuestas) \in Seq(RespuestasPosibles)
  BY <1>1
<1>3. cruzada \in BOOLEAN /\ respuestas' = Tail(respuestas)
      /\ cruzada' = (cruzada \/ Head(respuestas).a # r)
  BY DEF Tipos, Toma
<1> QED
  BY <1>1, <1>2, <1>3

(* Every step keeps the types, who has each process and who has the mutex. *)
LEMMA PasoForma ==
  ASSUME Forma, [Next]_vars
  PROVE  Forma'
<1> USE SupuestoNulo DEF Forma, Reparto, Cerrojo
<1>t. Tipos
  OBVIOUS
<1> USE DEF planes, trabajos, conexion, archivos, vars
<1>1. ASSUME NEW p \in PROCESOS, Elegir(p)
      PROVE  Forma'
  BY <1>1 DEF Tipos, Elegir
<1>2. ASSUME NEW p \in PROCESOS, AbrirEnvia(p)
      PROVE  Forma'
  BY <1>2, PedidoTipo DEF Tipos, AbrirEnvia, Llama
<1>3. ASSUME NEW p \in PROCESOS, Cerrar(p) \/ PedirCompactacion(p)
      PROVE  Forma'
  BY <1>3 DEF Tipos, Cerrar, PedirCompactacion, Llama
<1>4. ASSUME NEW p \in PROCESOS, NEW cop \in DeHilo, OperarArchivo(p, cop)
      PROVE  Forma'
  <2>1. Tipos'
    BY <1>4 DEF Tipos, OperarArchivo, Llama
  <2>2. Reparto'
    BY <1>4 DEF Tipos, OperarArchivo, Llama
  <2>3. Cerrojo'
    BY <1>4 DEF Tipos, OperarArchivo, Llama
  <2> QED
    BY <2>1, <2>2, <2>3
<1>5. CASE AbrirRecibe
  <2>1. respuestas' \in Seq(RespuestasPosibles)
        /\ cruzada' \in BOOLEAN /\ r_pcb \in PROCESOS
    BY <1>t, <1>5, RespuestaTomada DEF AbrirRecibe, Tipos
  <2>2. pedidos' \in Seq(PedidosPosibles)
    <3>1. Pedido("CREAR_ARCHIVO", r_pcb) \in PedidosPosibles
      BY <2>1, PedidoTipo
    <3>2. pedidos \in Seq(PedidosPosibles)
      BY <1>t DEF Tipos
    <3>3. \/ pedidos' = pedidos
          \/ pedidos' = Append(pedidos, Pedido("CREAR_ARCHIVO", r_pcb))
      BY <1>5 DEF AbrirRecibe
    <3> QED
      BY ONLY <3>1, <3>2, <3>3
  <2> QED
    BY <1>5, <2>1, <2>2 DEF AbrirRecibe, Tipos
<1>6. CASE CrearRecibe
  <2>1. respuestas' \in Seq(RespuestasPosibles)
        /\ cruzada' \in BOOLEAN /\ r_pcb \in PROCESOS
    BY <1>t, <1>6, RespuestaTomada DEF CrearRecibe, Tipos
  <2> QED
    BY <1>6, <2>1 DEF CrearRecibe, Tipos
<1>7. CASE CompactacionLock \/ CompactacionFin \/ Salir
  BY <1>7 DEF Tipos, CompactacionLock, CompactacionFin, Salir
<1>8. ASSUME NEW p \in PROCESOS,
             EnviaTruncar(p) \/ EnviaLeer(p) \/ EnviaEscribir(p)
      PROVE  Forma'
  <2>1. pedidos' \in Seq(PedidosPosibles)
    <3>1. PICK cop \in DeHilo : Envia(p, cop)
      BY <1>8 DEF EnviaTruncar, EnviaLeer, EnviaEscribir, DeHilo, ConMemoria
    <3>2. Pedido(cop, p) \in PedidosPosibles
      BY PedidoTipo
    <3> QED
      BY <3>1, <3>2 DEF Envia, Tipos
  <2> QED
    BY <1>8, <2>1 DEF Tipos, EnviaTruncar, EnviaLeer, EnviaEscribir, Envia,
                      LockCompactacion, DeHilo, ConMemoria
<1>9. ASSUME NEW p \in PROCESOS, HiloRecibe(p)
      PROVE  Forma'
  <2>1. respuestas' \in Seq(RespuestasPosibles)
        /\ cruzada' \in BOOLEAN
    BY <1>t, <1>9, RespuestaTomada DEF HiloRecibe, Tipos
  <2> QED
    BY <1>9, <2>1 DEF HiloRecibe, Tipos
<1>10. CASE FsAbrir \/ FsCrear \/ FsTruncar
  <2>1. PICK cop : Atiende(cop)
    BY <1>10 DEF FsAbrir, FsCrear, FsTruncar
  <2>2. respuestas' \in Seq(RespuestasPosibles)
    <3>1. Head(pedidos) \in PedidosPosibles
      BY <1>t, <2>1, PedidoAtendido
    <3>2. \/ UNCHANGED respuestas
          \/ \E ok \in {0, 1} :
               respuestas' = Append(respuestas, Respuesta(Head(pedidos), ok))
      BY <1>10 DEF FsAbrir, FsCrear, FsTruncar, Responde
    <3>3. respuestas \in Seq(RespuestasPosibles)
      BY DEF Tipos
    <3>4. ASSUME NEW ok \in {0, 1}
          PROVE  Append(respuestas, Respuesta(Head(pedidos), ok))
                   \in Seq(RespuestasPosibles)
      BY <3>1, <3>3, RespuestaTipo
    <3> QED
      BY <3>2, <3>3, <3>4
  <2>3. fs' \in PedidosPosibles \union {NULO, CAIDO} /\ existe' \subseteq PROCESOS
    BY <1>t, <1>10, <2>1, PedidoAtendido DEF FsAbrir, FsCrear, FsTruncar, Tipos
  <2> QED
    BY <1>t, <2>1, <2>2, <2>3, PedidoAtendido DEF Tipos
<1>11. CASE FsLeer \/ FsEscribir
  <2>1. PICK cop : Atiende(cop)
    BY <1>11 DEF FsLeer, FsEscribir
  <2>2. fs' \in PedidosPosibles \union {NULO, CAIDO}
        /\ UNCHANGED <<respuestas, existe>>
    BY <1>t, <1>11, <2>1, PedidoAtendido DEF FsLeer, FsEscribir, Tipos
  <2> QED
    BY <1>t, <2>1, <2>2, PedidoAtendido DEF Tipos
<1>12. CASE FsResponde
  <2>1. respuestas' \in Seq(RespuestasPosibles)
    <3>1. Append(respuestas, Respuesta(fs, 0)) \in Seq(RespuestasPosibles)
      BY <1>12, RespuestaTipo DEF FsResponde, Tipos
    <3>2. \/ UNCHANGED respuestas
          \/ respuestas' = Append(respuestas, Respuesta(fs, 0))
      BY <1>12 DEF FsResponde, Responde
    <3> QED
      BY <3>1, <3>2 DEF Tipos
  <2> QED
    BY <1>12, <2>1 DEF FsResponde, Tipos
<1>13. CASE UNCHANGED vars
  BY <1>13 DEF Tipos
<1> QED
  BY <1>1, <1>2, <1>3, <1>4, <1>5, <1>6, <1>7, <1>8, <1>9, <1>10, <1>11,
     <1>12, <1>13 DEF Next, Corto, Hilo, Filesystem

(* The two sides of RespuestasJustas that are not the threads.             *)
CortoEspera == IF corto \in {"abrir", "crear"} THEN 1 ELSE 0
EnCurso == Len(pedidos) + Len(respuestas) + (IF fs = NULO THEN 0 ELSE 1)

(* Every step keeps the waits as many as the requests and answers.         *)
LEMMA PasoCuenta ==
  ASSUME Forma, Cuenta, [Next]_vars
  PROVE  Cuenta'
<1>1. /\ Tipos /\ IsFiniteSet(Esperando) /\ Cardinality(Esperando) \in Nat
      /\ Cardinality(Esperando) + CortoEspera = EnCurso
      /\ Len(pedidos) \in Nat /\ Len(respuestas) \in Nat
  BY FS_CardinalityType
     DEF Forma, Tipos, Cuenta, RespuestasJustas, CortoEspera, EnCurso
<1>2. ASSUME IsFiniteSet(Esperando'),
             Cardinality(Esperando') + CortoEspera' = EnCurso'
      PROVE  Cuenta'
  BY <1>2 DEF Cuenta, RespuestasJustas, CortoEspera, EnCurso
<1> USE DEF planes, trabajos, conexion, archivos, vars
<1>3. ASSUME NEW p \in PROCESOS,
             \/ Elegir(p) \/ Cerrar(p) \/ PedirCompactacion(p)
             \/ \E cop \in DeHilo : OperarArchivo(p, cop)
      PROVE  Cuenta'
  <2>1. Esperando' = Esperando
    BY <1>1, <1>3 DEF Elegir, Cerrar, PedirCompactacion, OperarArchivo, Llama,
                      Esperando, Tipos, Forma, Reparto
  <2>2. CortoEspera' = CortoEspera /\ EnCurso' = EnCurso
    BY <1>3 DEF Elegir, Cerrar, PedirCompactacion, OperarArchivo, Llama,
                CortoEspera, EnCurso
  <2> QED
    BY <1>1, <1>2, <2>1, <2>2
<1>4. CASE CompactacionLock \/ CompactacionFin \/ Salir \/ UNCHANGED vars
  <2>1. Esperando' = Esperando
    BY <1>4 DEF CompactacionLock, CompactacionFin, Salir, Esperando
  <2>2. CortoEspera' = CortoEspera /\ EnCurso' = EnCurso
    BY <1>4 DEF CompactacionLock, CompactacionFin, Salir, CortoEspera, EnCurso
  <2> QED
    BY <1>1, <1>2, <2>1, <2>2
<1>5. ASSUME NEW p \in PROCESOS, AbrirEnvia(p)
      PROVE  Cuenta'
  <2>1. Esperando' = Esperando
    BY <1>5 DEF AbrirEnvia, Esperando
  <2>2. CortoEspera' = CortoEspera + 1
    BY <1>5 DEF AbrirEnvia, Llama, CortoEspera
  <2>3. EnCurso' = EnCurso + 1
    <3>1. Len(pedidos') = Len(pedidos) + 1
      BY <1>1, <1>5 DEF AbrirEnvia, Tipos
    <3> QED
      BY <1>1, <1>5, <3>1 DEF AbrirEnvia, EnCurso
  <2> QED
    BY <1>1, <1>2, <2>1, <2>2, <2>3 DEF CortoEspera, EnCurso
<1>6. CASE AbrirRecibe \/ CrearRecibe
  <2>1. Len(respuestas') = Len(respuestas) - 1 /\ UNCHANGED fs
    BY <1>1, <1>6, RespuestaTomada DEF AbrirRecibe, CrearRecibe, Tipos
  <2>2. Esperando' = Esperando
    BY <1>6 DEF AbrirRecibe, CrearRecibe, Esperando
  <2>3. CASE corto' = "crear"
    <3>1. Len(pedidos') = Len(pedidos) + 1 /\ CortoEspera' = CortoEspera
      BY <1>1, <1>6, <2>3 DEF AbrirRecibe, CrearRecibe, Tipos, CortoEspera
    <3> QED
      BY <1>1, <1>2, <2>1, <2>2, <3>1 DEF EnCurso, CortoEspera
  <2>4. CASE corto' = "despacho"
    <3>1. UNCHANGED pedidos /\ CortoEspera' = CortoEspera - 1
      BY <1>6, <2>4 DEF AbrirRecibe, CrearRecibe, CortoEspera
    <3> QED
      BY <1>1, <1>2, <2>1, <2>2, <3>1 DEF EnCurso, CortoEspera
  <2> QED
    BY <1>6, <2>3, <2>4 DEF AbrirRecibe, CrearRecibe
<1>7. ASSUME NEW p \in PROCESOS,
             EnviaTruncar(p) \/ EnviaLeer(p) \/ EnviaEscribir(p)
      PROVE  Cuenta'
  <2>1. PICK cop \in DeHilo : Envia(p, cop)
    BY <1>7 DEF EnviaTruncar, EnviaLeer, EnviaEscribir, DeHilo, ConMemoria
  <2>2. Esperando' = Esperando \union {p} /\ p \notin Esperando
    BY <1>1, <2>1 DEF Envia, Esperando, Tipos
  <2>3. /\ IsFiniteSet(Esperando')
        /\ Cardinality(Esperando') = Cardinality(Esperando) + 1
    BY <1>1, <2>2, FS_AddElement
  <2>4. Len(pedidos') = Len(pedidos) + 1 /\ CortoEspera' = CortoEspera
        /\ UNCHANGED <<respuestas, fs>>
    BY <1>1, <2>1 DEF Envia, Tipos, CortoEspera
  <2> QED
    BY <1>1, <1>2, <2>3, <2>4 DEF EnCurso, CortoEspera
<1>8. ASSUME NEW p \in PROCESOS, HiloRecibe(p)
      PROVE  Cuenta'
  <2>1. Len(respuestas') = Len(respuestas) - 1 /\ UNCHANGED <<fs, pedidos>>
    BY <1>1, <1>8, RespuestaTomada DEF HiloRecibe, Tipos
  <2>2. Esperando' = Esperando \ {p} /\ p \in Esperando
    BY <1>1, <1>8 DEF HiloRecibe, Esperando, Tipos
  <2>3. /\ IsFiniteSet(Esperando')
        /\ Cardinality(Esperando') = Cardinality(Esperando) - 1
    BY <1>1, <2>2, FS_RemoveElement
  <2>4. CortoEspera' = CortoEspera
    BY <1>8 DEF HiloRecibe, CortoEspera
  <2> QED
    BY <1>1, <1>2, <2>1, <2>3, <2>4 DEF EnCurso, CortoEspera
<1>9. CASE FsAbrir \/ FsCrear \/ FsTruncar \/ FsLeer \/ FsEscribir
  <2>1. PICK cop : Atiende(cop)
    BY <1>9 DEF FsAbrir, FsCrear, FsTruncar, FsLeer, FsEscribir
  <2>2. /\ Head(pedidos) \in PedidosPosibles /\ pedidos # <<>> /\ fs = NULO
        /\ pedidos' = Tail(pedidos) /\ UNCHANGED <<hilo, corto>>
    BY <1>1, <2>1, PedidoAtendido
  <2>3. Len(pedidos') = Len(pedidos) - 1
    BY <1>1, <2>2 DEF Tipos
  <2>4. Len(respuestas') + (IF fs' = NULO THEN 0 ELSE 1) = Len(respuestas) + 1
    <3>1. \/ /\ fs' = NULO
             /\ \E r : respuestas' = Append(respuestas, r)
          \/ fs' # NULO /\ UNCHANGED respuestas
      BY <1>9, <2>2, SupuestoNulo
         DEF FsAbrir, FsCrear, FsTruncar, FsLeer, FsEscribir, Responde
    <3>2. \A r : Len(Append(respuestas, r)) = Len(respuestas) + 1
      BY <1>1 DEF Tipos
    <3> QED
      BY <1>1, <3>1, <3>2
  <2>5. /\ Esperando' = Esperando /\ CortoEspera' = CortoEspera
        /\ CortoEspera \in Nat
    BY <2>2 DEF Esperando, CortoEspera
  <2>6. fs = NULO
    BY <2>2
  <2>7. Len(respuestas') \in Nat
    BY PasoForma DEF Forma, Tipos
  <2>8. EnCurso' = EnCurso
    BY <1>1, <2>3, <2>4, <2>6, <2>7 DEF EnCurso
  <2> QED
    BY <1>1, <1>2, <2>5, <2>8
<1>10. CASE FsResponde
  <2>1. UNCHANGED <<hilo, corto, pedidos>> /\ fs # NULO
    BY <1>10 DEF FsResponde
  <2>2. Len(respuestas') + (IF fs' = NULO THEN 0 ELSE 1) = Len(respuestas) + 1
    <3>1. \/ /\ fs' = NULO
             /\ \E r : respuestas' = Append(respuestas, r)
          \/ fs' # NULO /\ UNCHANGED respuestas
      BY <1>10, SupuestoNulo DEF FsResponde, Responde
    <3>2. \A r : Len(Append(respuestas, r)) = Len(respuestas) + 1
      BY <1>1 DEF Tipos
    <3> QED
      BY <1>1, <3>1, <3>2
  <2>3. /\ Esperando' = Esperando /\ CortoEspera' = CortoEspera
        /\ CortoEspera \in Nat
    BY <2>1 DEF Esperando, CortoEspera
  <2>4. EnCurso' = EnCurso
    BY <1>1, <2>1, <2>2 DEF EnCurso
  <2> QED
    BY <1>1, <1>2, <2>3, <2>4
<1> QED
  BY <1>3, <1>4, <1>5, <1>6, <1>7, <1>8, <1>9, <1>10
     DEF Next, Corto, Hilo, Filesystem

-----------------------------------------------------------------------------
(* What is at each position once one more is appended, and once the first  *)
(* is taken.                                                               *)
LEMMA PosicionesAgregar ==
  ASSUME NEW S, NEW s \in Seq(S), NEW x \in S
  PROVE  /\ \A i \in DOMAIN Append(s, x) :
              \/ i \in DOMAIN s /\ Append(s, x)[i] = s[i]
              \/ i = Len(s) + 1 /\ Append(s, x)[i] = x /\ i \notin DOMAIN s
OBVIOUS

(* ... and each element moves up one place when the first is taken.        *)
LEMMA PosicionesSacar ==
  ASSUME NEW S, NEW s \in Seq(S), s # <<>>
  PROVE  /\ 1 \in DOMAIN s
         /\ \A i \in DOMAIN Tail(s) :
              i \in Nat /\ i + 1 \in DOMAIN s /\ i + 1 # 1
                        /\ Tail(s)[i] = s[i + 1]
OBVIOUS

(* A step that leaves the requests and the answers as they are, and the    *)
(* waits too.                                                              *)
LEMMA OrdenQuieto ==
  ASSUME Orden, ~cruzada,
         UNCHANGED <<pedidos, respuestas, fs, existe, cruzada>>,
         abiertos' \subseteq abiertos,
         \A r : Vigente(r) => Vigente(r)'
  PROVE  Orden'
<1>1. TodosVigentes'
  BY DEF Orden, TodosVigentes, Atendiendo
<1>2. UnoPorProceso' /\ Veraces'
  BY DEF Orden, UnoPorProceso, Veraces, Atendiendo
<1>3. AbiertosExisten'
  BY DEF Orden, AbiertosExisten
<1> QED
  BY <1>1, <1>2, <1>3 DEF Orden

(* A request is sent by a thread nobody answers yet.                       *)
LEMMA OrdenPide ==
  ASSUME Tipos, Orden, ~cruzada, NEW r \in PedidosPosibles,
         pedidos' = Append(pedidos, r),
         UNCHANGED <<respuestas, fs, existe, abiertos, cruzada>>,
         \A x : Vigente(x) => Vigente(x)' /\ x.archivo # r.archivo,
         Vigente(r)'
  PROVE  Orden'
<1>1. \A i \in DOMAIN pedidos' :
        \/ i \in DOMAIN pedidos /\ pedidos'[i] = pedidos[i]
        \/ i = Len(pedidos) + 1 /\ pedidos'[i] = r /\ i \notin DOMAIN pedidos
  BY PosicionesAgregar DEF Tipos
<1>2. TodosVigentes'
  BY <1>1 DEF Orden, TodosVigentes, Atendiendo
<1>3. UnoPorProceso'
  BY <1>1 DEF Orden, UnoPorProceso, TodosVigentes, Atendiendo
<1>4. Veraces' /\ AbiertosExisten'
  BY DEF Orden, Veraces, AbiertosExisten
<1> QED
  BY <1>2, <1>3, <1>4 DEF Orden

(* The first answer is taken by the thread that waits for it.              *)
LEMMA OrdenToma ==
  ASSUME Tipos, Orden, ~cruzada, NEW p, respuestas # <<>>,
         Head(respuestas).a.archivo = p,
         respuestas' = Tail(respuestas),
         UNCHANGED <<pedidos, fs, existe, cruzada>>,
         \A x : Vigente(x) /\ x.archivo # p => Vigente(x)',
         abiertos' \subseteq existe
  PROVE  Orden'
<1>1. /\ 1 \in DOMAIN respuestas /\ Head(respuestas) = respuestas[1]
      /\ \A i \in DOMAIN respuestas' :
           /\ i \in Nat /\ i + 1 \in DOMAIN respuestas /\ i + 1 # 1
           /\ respuestas'[i] = respuestas[i + 1]
  BY PosicionesSacar DEF Tipos
<1>2. /\ \A i \in DOMAIN pedidos : pedidos[i].archivo # p
      /\ \A i \in DOMAIN respuestas' : respuestas'[i].a.archivo # p
      /\ Atendiendo => fs.archivo # p
  BY <1>1 DEF Orden, UnoPorProceso
<1>3. TodosVigentes'
  BY <1>1, <1>2 DEF Orden, TodosVigentes, Atendiendo
<1>4. UnoPorProceso'
  BY <1>1 DEF Orden, UnoPorProceso, Atendiendo
<1>5. Veraces'
  BY <1>1 DEF Orden, Veraces
<1>6. AbiertosExisten'
  BY DEF Orden, AbiertosExisten
<1> QED
  BY <1>3, <1>4, <1>5, <1>6 DEF Orden

(* The filesystem answers the first request.                               *)
LEMMA OrdenResponde ==
  ASSUME Tipos, Orden, ~cruzada, fs = NULO, NEW ok \in {0, 1},
         pedidos # <<>>, pedidos' = Tail(pedidos),
         respuestas' = Append(respuestas, Respuesta(Head(pedidos), ok)),
         UNCHANGED <<fs, hilo, operacion, corto, r_pcb, abiertos, cruzada>>,
         existe \subseteq existe',
         Head(pedidos).cop # "ABRIR_ARCHIVO" => ok = 0,
         ok = 0 => Head(pedidos).archivo \in existe'
  PROVE  Orden'
<1> DEFINE h == Head(pedidos)
           a == Respuesta(h, ok)
<1>1. /\ 1 \in DOMAIN pedidos /\ h = pedidos[1] /\ h \in PedidosPosibles
      /\ \A i \in DOMAIN pedidos' :
           /\ i \in Nat /\ i + 1 \in DOMAIN pedidos /\ i + 1 # 1
           /\ pedidos'[i] = pedidos[i + 1]
  BY PosicionesSacar DEF Tipos
<1>2. a \in RespuestasPosibles /\ a.a = h /\ a.archivo_ok = ok
  BY <1>1, RespuestaTipo
<1> HIDE DEF h, a
<1>3. \A i \in DOMAIN respuestas' :
        \/ i \in DOMAIN respuestas /\ respuestas'[i] = respuestas[i]
        \/ /\ i = Len(respuestas) + 1 /\ i \notin DOMAIN respuestas
           /\ respuestas'[i] = a
  BY <1>2, PosicionesAgregar DEF Tipos, a, h
<1>4. \A x : Vigente(x) => Vigente(x)'
  BY DEF Vigente
<1>5. TodosVigentes'
  BY <1>1, <1>2, <1>3, <1>4 DEF Orden, TodosVigentes, Atendiendo
<1>6. UnoPorProceso'
  BY <1>1, <1>2, <1>3 DEF Orden, UnoPorProceso, Atendiendo
<1>7. Veraces'
  BY <1>2, <1>3 DEF Orden, Veraces, h
<1>8. AbiertosExisten'
  BY SupuestoNulo DEF Orden, AbiertosExisten
<1> QED
  BY <1>5, <1>6, <1>7, <1>8 DEF Orden

(* The filesystem goes on with the first request, and asks memoria.        *)
LEMMA OrdenAtiende ==
  ASSUME Tipos, Orden, ~cruzada, fs = NULO,
         pedidos # <<>>, pedidos' = Tail(pedidos), fs' = Head(pedidos),
         Head(pedidos).cop \in ConMemoria,
         UNCHANGED <<respuestas, hilo, operacion, corto, r_pcb, existe,
                     abiertos, cruzada>>
  PROVE  Orden'
<1>1. /\ 1 \in DOMAIN pedidos /\ fs' = pedidos[1] /\ fs' \in PedidosPosibles
      /\ \A i \in DOMAIN pedidos' :
           /\ i \in Nat /\ i + 1 \in DOMAIN pedidos /\ i + 1 # 1
           /\ pedidos'[i] = pedidos[i + 1]
  BY PosicionesSacar DEF Tipos
<1>2. \A x : Vigente(x) => Vigente(x)'
  BY DEF Vigente
<1>3. TodosVigentes'
  BY <1>1, <1>2 DEF Orden, TodosVigentes, Atendiendo
<1>4. UnoPorProceso'
  BY <1>1 DEF Orden, UnoPorProceso, Atendiendo
<1>5. Veraces'
  BY DEF Orden, Veraces
<1>6. AbiertosExisten'
  BY <1>1, SupuestoNulo DEF Orden, AbiertosExisten
<1> QED
  BY <1>3, <1>4, <1>5, <1>6 DEF Orden

(* The filesystem answers the request it was attending.                    *)
LEMMA OrdenTermina ==
  ASSUME Tipos, Orden, ~cruzada, fs \in PedidosPosibles, fs' = NULO,
         respuestas' = Append(respuestas, Respuesta(fs, 0)),
         fs.archivo \in existe,
         UNCHANGED <<pedidos, hilo, operacion, corto, r_pcb, existe, abiertos,
                     cruzada>>
  PROVE  Orden'
<1> DEFINE a == Respuesta(fs, 0)
<1>1. a \in RespuestasPosibles /\ a.a = fs /\ a.archivo_ok = 0 /\ Atendiendo
  BY RespuestaTipo, SupuestoNulo DEF Atendiendo
<1> HIDE DEF a
<1>2. \A i \in DOMAIN respuestas' :
        \/ i \in DOMAIN respuestas /\ respuestas'[i] = respuestas[i]
        \/ /\ i = Len(respuestas) + 1 /\ i \notin DOMAIN respuestas
           /\ respuestas'[i] = a
  BY <1>1, PosicionesAgregar DEF Tipos, a
<1>3. \A x : Vigente(x) => Vigente(x)'
  BY DEF Vigente
<1>4. TodosVigentes'
  BY <1>1, <1>2, <1>3 DEF Orden, TodosVigentes, Atendiendo
<1>5. UnoPorProceso'
  BY <1>1, <1>2 DEF Orden, UnoPorProceso, Atendiendo
<1>6. Veraces'
  BY <1>1, <1>2 DEF Orden, Veraces
<1>7. AbiertosExisten'
  BY SupuestoNulo DEF Orden, AbiertosExisten
<1> QED
  BY <1>4, <1>5, <1>6, <1>7 DEF Orden

(* corto takes the answer that the file does not exist, and asks for it to *)
(* be created.                                                             *)
LEMMA OrdenPideOtra ==
  ASSUME Tipos, Orden, ~cruzada, NEW r \in PedidosPosibles, respuestas # <<>>,
         Head(respuestas).a.archivo = r.archivo,
         respuestas' = Tail(respuestas), pedidos' = Append(pedidos, r),
         UNCHANGED <<fs, existe, abiertos, cruzada>>,
         \A x : Vigente(x) /\ x.archivo # r.archivo => Vigente(x)',
         Vigente(r)'
  PROVE  Orden'
<1>1. /\ 1 \in DOMAIN respuestas /\ Head(respuestas) = respuestas[1]
      /\ \A i \in DOMAIN respuestas' :
           /\ i \in Nat /\ i + 1 \in DOMAIN respuestas /\ i + 1 # 1
           /\ respuestas'[i] = respuestas[i + 1]
  BY PosicionesSacar DEF Tipos
<1>2. \A i \in DOMAIN pedidos' :
        \/ i \in DOMAIN pedidos /\ pedidos'[i] = pedidos[i]
        \/ i = Len(pedidos) + 1 /\ pedidos'[i] = r /\ i \notin DOMAIN pedidos
  BY PosicionesAgregar DEF Tipos
<1>3. /\ \A i \in DOMAIN pedidos : pedidos[i].archivo # r.archivo
      /\ \A i \in DOMAIN respuestas' : respuestas'[i].a.archivo # r.archivo
      /\ Atendiendo => fs.archivo # r.archivo
  BY <1>1 DEF Orden, UnoPorProceso
<1>4. TodosVigentes'
  BY <1>1, <1>2, <1>3 DEF Orden, TodosVigentes, Atendiendo
<1>5. UnoPorProceso'
  BY <1>1, <1>2, <1>3 DEF Orden, UnoPorProceso, Atendiendo
<1>6. Veraces'
  BY <1>1 DEF Orden, Veraces
<1>7. AbiertosExisten'
  BY DEF Orden, AbiertosExisten
<1> QED
  BY <1>4, <1>5, <1>6, <1>7 DEF Orden

(* A request of a thread is for a file that exists.                        *)
LEMMA VigenteExiste ==
  ASSUME Forma, Orden, ~cruzada, NEW r \in PedidosPosibles, Vigente(r),
         r.cop \in DeHilo
  PROVE  r.archivo \in existe
<1>1. r.archivo \in PROCESOS /\ hilo[r.archivo] = "espera"
  BY DEF Vigente, PedidosPosibles, DeHilo, ConMemoria
<1> QED
  BY <1>1 DEF Forma, Reparto, Orden, AbiertosExisten

-----------------------------------------------------------------------------
(* Every step of corto keeps the order, until an answer is crossed.        *)
LEMMA PasoOrdenCorto ==
  ASSUME Forma, Orden, ~cruzada, Corto, ~cruzada'
  PROVE  Orden'
<1>1. Tipos /\ Reparto /\ (~cruzada')
  BY DEF Forma
<1> USE DEF planes, trabajos, conexion, archivos
<1>2. ASSUME NEW p \in PROCESOS,
             Elegir(p) \/ Cerrar(p) \/ PedirCompactacion(p)
      PROVE  Orden'
  <2>1. /\ UNCHANGED <<pedidos, respuestas, fs, existe, cruzada>>
        /\ abiertos' \subseteq abiertos
    BY <1>2 DEF Elegir, Cerrar, PedirCompactacion
  <2>2. \A r : Vigente(r) => Vigente(r)'
    BY <1>2 DEF Elegir, Cerrar, PedirCompactacion, Llama, Vigente
  <2> QED
    BY <2>1, <2>2, OrdenQuieto
<1>3. ASSUME NEW p \in PROCESOS, NEW cop \in DeHilo, OperarArchivo(p, cop)
      PROVE  Orden'
  <2>1. UNCHANGED <<pedidos, respuestas, fs, existe, abiertos, cruzada>>
    BY <1>3 DEF OperarArchivo
  <2>2. hilo[p] = "no" /\ corto = "despacho"
    BY <1>1, <1>3 DEF OperarArchivo, Llama, Reparto
  <2>3. /\ \A q : q # p => (hilo'[q] = "espera" <=> hilo[q] = "espera")
        /\ \A q : q # p => (hilo[q] = "espera" => operacion'[q] = operacion[q])
    BY <1>1, <1>3 DEF OperarArchivo, Tipos
  <2>4. \A r : Vigente(r) => Vigente(r)'
    BY <2>2, <2>3 DEF Vigente
  <2> QED
    BY <2>1, <2>4, OrdenQuieto
<1>4. ASSUME NEW p \in PROCESOS, AbrirEnvia(p)
      PROVE  Orden'
  <2> DEFINE r == Pedido("ABRIR_ARCHIVO", p)
  <2>1. r \in PedidosPosibles /\ r.cop = "ABRIR_ARCHIVO" /\ r.archivo = p
    BY PedidoTipo
  <2>2. /\ pedidos' = Append(pedidos, r)
        /\ UNCHANGED <<respuestas, fs, existe, abiertos, cruzada, hilo,
                       operacion, r_pcb>>
        /\ corto = "despacho" /\ corto' = "abrir" /\ r_pcb = p
    BY <1>4 DEF AbrirEnvia, Llama
  <2> HIDE DEF r
  <2>3. hilo[p] = "no"
    BY <1>1, <2>2 DEF Reparto
  <2>4. \A x : Vigente(x) => Vigente(x)' /\ x.archivo # r.archivo
    BY <2>1, <2>2, <2>3 DEF Vigente
  <2>5. Vigente(r)'
    BY <2>1, <2>2 DEF Vigente
  <2> QED
    BY <1>1, <2>1, <2>2, <2>4, <2>5, OrdenPide
<1>5. CASE AbrirRecibe
  <2> DEFINE s == Pedido("ABRIR_ARCHIVO", r_pcb)
  <2>1. r_pcb \in PROCESOS /\ corto = "abrir"
    BY <1>1, <1>5 DEF AbrirRecibe, Tipos, Reparto
  <2>r. PICK r \in PedidosPosibles : r = Pedido("CREAR_ARCHIVO", r_pcb)
    BY <2>1, PedidoTipo
  <2>2. /\ s.archivo = r_pcb /\ s.cop = "ABRIR_ARCHIVO"
        /\ r.archivo = r_pcb /\ r.cop = "CREAR_ARCHIVO"
    BY <2>1, <2>r, PedidoTipo
  <2>3. Toma(s) /\ UNCHANGED <<fs, existe, hilo, operacion, r_pcb>>
    BY <1>5 DEF AbrirRecibe
  <2> HIDE DEF s
  <2>4. /\ respuestas # <<>> /\ Head(respuestas).a = s
        /\ respuestas' = Tail(respuestas) /\ UNCHANGED cruzada
        /\ Head(respuestas) = respuestas[1] /\ 1 \in DOMAIN respuestas
        /\ Head(respuestas).archivo_ok \in {0, 1}
    BY <1>1, <2>3, RespuestaTomada, PosicionesSacar
       DEF Tipos, RespuestasPosibles
  <2>5. \A x : Vigente(x) /\ x.archivo # r_pcb => Vigente(x)'
    BY <2>1, <2>3 DEF Vigente
  <2>6. CASE Head(respuestas).archivo_ok # 0
    <3>1. /\ pedidos' = Append(pedidos, r) /\ corto' = "crear"
          /\ UNCHANGED abiertos
      BY <1>5, <2>6, <2>r DEF AbrirRecibe
    <3>2. Vigente(r)'
      BY <2>2, <2>3, <3>1 DEF Vigente
    <3> QED
      BY <1>1, <2>2, <2>3, <2>4, <2>5, <3>1, <3>2, OrdenPideOtra
  <2>7. CASE Head(respuestas).archivo_ok = 0
    <3>1. UNCHANGED pedidos /\ abiertos' = abiertos \union {r_pcb}
      BY <1>5, <2>7 DEF AbrirRecibe
    <3>2. r_pcb \in existe
      BY <2>2, <2>4, <2>7 DEF Orden, Veraces
    <3>3. abiertos' \subseteq existe
      BY <3>1, <3>2 DEF Orden, AbiertosExisten
    <3> QED
      BY <1>1, <2>2, <2>3, <2>4, <2>5, <3>1, <3>3, OrdenToma
  <2> QED
    BY <2>4, <2>6, <2>7
<1>6. CASE CrearRecibe
  <2> DEFINE s == Pedido("CREAR_ARCHIVO", r_pcb)
  <2>1. r_pcb \in PROCESOS /\ corto = "crear"
    BY <1>1, <1>6 DEF CrearRecibe, Tipos, Reparto
  <2>2. s.archivo = r_pcb /\ s.cop = "CREAR_ARCHIVO"
    BY <2>1, PedidoTipo
  <2>3. /\ Toma(s) /\ UNCHANGED <<pedidos, fs, existe, hilo, operacion, r_pcb>>
        /\ abiertos' = abiertos \union {r_pcb}
    BY <1>6 DEF CrearRecibe
  <2> HIDE DEF s
  <2>4. /\ respuestas # <<>> /\ Head(respuestas).a = s
        /\ respuestas' = Tail(respuestas) /\ UNCHANGED cruzada
        /\ Head(respuestas) = respuestas[1] /\ 1 \in DOMAIN respuestas
    BY <1>1, <2>3, RespuestaTomada, PosicionesSacar DEF Tipos
  <2>5. \A x : Vigente(x) /\ x.archivo # r_pcb => Vigente(x)'
    BY <2>1, <2>3 DEF Vigente
  <2>6. r_pcb \in existe
    BY <2>2, <2>4 DEF Orden, Veraces
  <2>7. abiertos' \subseteq existe
    BY <2>3, <2>6 DEF Orden, AbiertosExisten
  <2> QED
    BY <1>1, <2>2, <2>3, <2>4, <2>5, <2>7, OrdenToma
<1>7. CASE CompactacionLock \/ CompactacionFin \/ Salir
  <2>1. UNCHANGED <<pedidos, respuestas, fs, existe, abiertos, cruzada>>
    BY <1>7 DEF CompactacionLock, CompactacionFin, Salir
  <2>2. \A r : Vigente(r) => Vigente(r)'
    BY <1>7 DEF CompactacionLock, CompactacionFin, Salir, Vigente
  <2> QED
    BY <2>1, <2>2, OrdenQuieto
<1> QED
  BY <1>2, <1>3, <1>4, <1>5, <1>6, <1>7 DEF Corto

(* And every step of the thread of a process: what it sends is the only    *)
(* request of the process, and what it takes is its answer.                *)
LEMMA PasoOrdenHilo ==
  ASSUME Forma, Orden, ~cruzada, NEW p \in PROCESOS, Hilo(p), ~cruzada'
  PROVE  Orden'
<1>1. Tipos /\ Reparto
  BY DEF Forma
<1> USE DEF planes, trabajos, conexion, archivos
<1>2. CASE EnviaTruncar(p) \/ EnviaLeer(p) \/ EnviaEscribir(p)
  <2>1. PICK cop \in DeHilo : Envia(p, cop)
    BY <1>2 DEF EnviaTruncar, EnviaLeer, EnviaEscribir, DeHilo, ConMemoria
  <2>2. PICK r \in PedidosPosibles : r = Pedido(cop, p)
    BY PedidoTipo
  <2>3. r.cop = cop /\ r.archivo = p
    BY <2>2, PedidoTipo
  <2>4. /\ pedidos' = Append(pedidos, r)
        /\ UNCHANGED <<respuestas, fs, existe, abiertos, cruzada, corto, r_pcb,
                       operacion>>
        /\ hilo[p] = "nace" /\ hilo'[p] = "espera" /\ operacion[p] = cop
        /\ \A q : q # p => (hilo[q] = "espera" => hilo'[q] = "espera")
    BY <1>1, <2>1, <2>2 DEF Envia, Tipos
  <2>5. r_pcb # p
    BY <1>1, <2>4 DEF Reparto
  <2>6. \A x : Vigente(x) => Vigente(x)' /\ x.archivo # r.archivo
    BY <2>3, <2>4, <2>5 DEF Vigente
  <2>7. Vigente(r)'
    BY <2>3, <2>4 DEF Vigente
  <2> QED
    BY <1>1, <2>4, <2>6, <2>7, OrdenPide
<1>3. CASE HiloRecibe(p)
  <2>1. PICK s \in PedidosPosibles : s = Pedido(operacion[p], p) /\ s.archivo = p
    BY <1>1, <1>3, PedidoTipo DEF HiloRecibe, Reparto
  <2>2. Toma(s) /\ UNCHANGED <<pedidos, fs, existe, corto, r_pcb, abiertos>>
    BY <1>3, <2>1 DEF HiloRecibe
  <2>3. /\ respuestas # <<>> /\ Head(respuestas).a = s
        /\ respuestas' = Tail(respuestas) /\ UNCHANGED cruzada
    BY <1>1, <2>2, RespuestaTomada DEF Tipos
  <2>4. \A q : q # p => hilo'[q] = hilo[q] /\ operacion'[q] = operacion[q]
    BY <1>1, <1>3 DEF HiloRecibe, Tipos
  <2>5. \A x : Vigente(x) /\ x.archivo # p => Vigente(x)'
    BY <2>2, <2>4 DEF Vigente
  <2>6. abiertos' \subseteq existe
    BY <2>2 DEF Orden, AbiertosExisten
  <2> QED
    BY <1>1, <2>1, <2>2, <2>3, <2>5, <2>6, OrdenToma
<1> QED
  BY <1>2, <1>3 DEF Hilo

(* And every step of the filesystem: it answers 0 because the file is      *)
(* there, so it never dies.                                                *)
LEMMA PasoOrdenFs ==
  ASSUME Forma, Orden, ~cruzada, Filesystem
  PROVE  Orden'
<1>1. Tipos
  BY DEF Forma
<1> USE DEF planes, trabajos, conexion, archivos
<1>2. CASE FsAbrir \/ FsCrear \/ FsTruncar \/ FsLeer \/ FsEscribir
  <2>1. PICK cop : /\ Atiende(cop)
                   /\ \/ cop = "ABRIR_ARCHIVO" /\ FsAbrir
                      \/ cop = "CREAR_ARCHIVO" /\ FsCrear
                      \/ cop = "TRUNCAR_ARCHIVO" /\ FsTruncar
                      \/ cop = "LEER_ARCHIVO" /\ FsLeer
                      \/ cop = "ESCRIBIR_ARCHIVO" /\ FsEscribir
    BY <1>2 DEF FsAbrir, FsCrear, FsTruncar, FsLeer, FsEscribir
  <2>2. /\ pedidos # <<>> /\ Head(pedidos) \in PedidosPosibles
        /\ Head(pedidos).cop = cop /\ Archivo \in PROCESOS
        /\ Head(pedidos) = pedidos[1] /\ pedidos' = Tail(pedidos) /\ fs = NULO
        /\ UNCHANGED <<hilo, operacion, corto, r_pcb, abiertos, cruzada>>
    BY <1>1, <2>1, PedidoAtendido
  <2>3. cop \in DeHilo => Archivo \in existe
    <3>1. Vigente(Head(pedidos))
      BY <1>1, <2>2, PosicionesSacar DEF Tipos, Orden, TodosVigentes
    <3> QED
      BY <2>2, <3>1, VigenteExiste DEF Archivo
  <2>4. ASSUME NEW ok \in {0, 1},
               respuestas' = Append(respuestas, Respuesta(Head(pedidos), ok)),
               UNCHANGED fs, existe \subseteq existe',
               cop # "ABRIR_ARCHIVO" => ok = 0,
               ok = 0 => Archivo \in existe'
        PROVE  Orden'
    BY <1>1, <2>2, <2>4, OrdenResponde DEF Archivo
  <2>5. CASE cop = "ABRIR_ARCHIVO" /\ FsAbrir
    <3>1. CASE Archivo \in existe
      BY <2>4, <2>5, <3>1 DEF FsAbrir, Responde
    <3>2. CASE Archivo \notin existe
      BY <2>4, <2>5, <3>2 DEF FsAbrir, Responde
    <3> QED
      BY <3>1, <3>2
  <2>6. CASE cop = "CREAR_ARCHIVO" /\ FsCrear
    BY <2>4, <2>6 DEF FsCrear, Responde
  <2>7. CASE cop = "TRUNCAR_ARCHIVO" /\ FsTruncar
    BY <2>3, <2>4, <2>7 DEF FsTruncar, Responde, DeHilo
  <2>8. CASE (cop = "LEER_ARCHIVO" /\ FsLeer) \/ (cop = "ESCRIBIR_ARCHIVO" /\ FsEscribir)
    <3>1. /\ fs' = Head(pedidos) /\ UNCHANGED <<respuestas, existe>>
          /\ Head(pedidos).cop \in ConMemoria
      BY <2>2, <2>3, <2>8 DEF FsLeer, FsEscribir, DeHilo, ConMemoria
    <3> QED
      BY <1>1, <2>2, <3>1, OrdenAtiende
  <2> QED
    BY <2>1, <2>5, <2>6, <2>7, <2>8
<1>3. CASE FsResponde
  <2>1. fs \in PedidosPosibles /\ Atendiendo
    BY <1>1, <1>3 DEF FsResponde, Tipos, Atendiendo
  <2>2. Vigente(fs) /\ fs.cop \in DeHilo
    BY <2>1 DEF Orden, TodosVigentes, DeHilo
  <2>3. fs.archivo \in existe
    BY <2>1, <2>2, VigenteExiste
  <2>4. /\ fs' = NULO /\ respuestas' = Append(respuestas, Respuesta(fs, 0))
        /\ UNCHANGED <<pedidos, hilo, operacion, corto, r_pcb, existe, abiertos,
                       cruzada>>
    BY <1>3, <2>3 DEF FsResponde, Responde
  <2> QED
    BY <1>1, <2>1, <2>3, <2>4, OrdenTermina
<1> QED
  BY <1>2, <1>3 DEF Filesystem

(* Every step keeps the order until the step that crosses an answer, and   *)
(* nobody forgets that it was crossed.                                     *)
LEMMA PasoAcuerdo ==
  ASSUME Forma, Acuerdo, [Next]_vars
  PROVE  Acuerdo'
<1> SUFFICES ASSUME ~cruzada' PROVE Orden'
  BY DEF Acuerdo
<1>1. ~cruzada
  <2>1. cruzada \in BOOLEAN
    BY DEF Forma, Tipos
  <2>2. CASE UNCHANGED cruzada
    BY <2>2
  <2>3. CASE \E r : Toma(r)
    BY <2>3, RespuestaTomada DEF Forma
  <2>4. UNCHANGED cruzada \/ \E r : Toma(r)
    BY DEF Next, Corto, Hilo, Filesystem, vars, Elegir, AbrirEnvia, Cerrar,
           PedirCompactacion, OperarArchivo, AbrirRecibe, CrearRecibe,
           CompactacionLock, CompactacionFin, Salir, EnviaTruncar, EnviaLeer,
           EnviaEscribir, Envia, HiloRecibe, FsAbrir, FsCrear, FsTruncar,
           FsLeer, FsEscribir, Atiende, FsResponde
  <2> QED
    BY <2>2, <2>3, <2>4
<1>2. Orden
  BY <1>1 DEF Acuerdo
<1>3. CASE UNCHANGED vars
  <2>1. /\ UNCHANGED <<pedidos, respuestas, fs, existe, cruzada>>
        /\ abiertos' \subseteq abiertos
        /\ \A r : Vigente(r) => Vigente(r)'
    BY <1>3 DEF vars, planes, trabajos, conexion, archivos, Vigente
  <2> QED
    BY <1>1, <1>2, <2>1, OrdenQuieto
<1> QED
  BY <1>1, <1>2, <1>3, PasoOrdenCorto, PasoOrdenHilo, PasoOrdenFs DEF Next

-----------------------------------------------------------------------------
(* The inductive invariant holds in every reachable state.                 *)
THEOREM Invariante == Spec => []Inductivo
<1>1. Inductivo /\ [Next]_vars => Inductivo'
  BY PasoForma, PasoCuenta, PasoAcuerdo DEF Inductivo
<1> QED
  BY <1>1, InicioInductivo, PTL DEF Spec

(* mutex_compactacion is only ever of a thread that waits for the          *)
(* filesystem or of corto while memoria compacts, crossed or not: who      *)
(* takes the answer to another's request still releases its own lock.      *)
THEOREM TipoCorrecto == Spec => []TypeOK
<1>1. Inductivo => TypeOK
  <2> SUFFICES ASSUME Inductivo PROVE TypeOK
    OBVIOUS
  <2>1. mutex_compactacion \in {"libre"} \union Esperando
                              \union (IF corto = "bases" THEN {"corto"} ELSE {})
    BY DEF Inductivo, Forma, Cerrojo, Esperando
  <2> QED
    BY <2>1 DEF Inductivo, Forma, Tipos, Reparto, TypeOK
<1> QED
  BY <1>1, Invariante, PTL

(* The recv on socket_filesystem of every thread has a request or an       *)
(* answer on its way, and nothing is left over, for any number of threads. *)
THEOREM EsperasJustas == Spec => []RespuestasJustas
<1>1. Inductivo => RespuestasJustas
  BY DEF Inductivo, Cuenta
<1> QED
  BY <1>1, Invariante, PTL

(* While memoria compacts no read or write is on its way to it, until a    *)
(* thread takes the answer to another's request and releases the mutex     *)
(* before the time.                                                        *)
THEOREM CompactacionAislada == Spec => []CompactacionEsperaSinCruce
<1>1. Inductivo => CompactacionEsperaSinCruce
  <2> SUFFICES ASSUME Inductivo, ~cruzada, corto = "bases",
                      NEW r \in EnVuelo, r.cop \in ConMemoria
               PROVE  FALSE
    BY DEF CompactacionEsperaSinCruce, CompactacionEspera
  <2>1. Vigente(r)
    BY DEF Inductivo, Acuerdo, Orden, TodosVigentes, Atendiendo, EnVuelo
  <2>2. r \in PedidosPosibles
    BY DEF Inductivo, Forma, Tipos, EnVuelo
  <2>3. r.archivo \in PROCESOS
    BY <2>2 DEF PedidosPosibles
  <2>4. hilo[r.archivo] = "espera" /\ operacion[r.archivo] \in ConMemoria
    BY <2>1 DEF Vigente, ConMemoria
  <2> QED
    BY <2>3, <2>4, SupuestoNulo DEF Inductivo, Forma, Cerrojo
<1> QED
  BY <1>1, Invariante, PTL

(* Every file of tabla_archivos has an FCB and the filesystem does not     *)
(* follow the NULL of levantar_fcb, until an answer is crossed.            *)
THEOREM AbiertosTienenFCB == Spec => []AbiertosExisten
<1>1. Inductivo => AbiertosExisten
  BY DEF Inductivo, Acuerdo, Orden, AbiertosExisten
<1> QED
  BY <1>1, Invariante, PTL

(* No blocked process is left in no queue and with no thread: the only     *)
(* step that could do it, the thread that ends without encolar_proceso     *)
(* because the answer is not 0, needs an answer that was crossed.          *)
THEOREM NadieSePierde == Spec => NadiePerdido
<1>1. Inductivo /\ [Next]_vars
        => [\A p \in PROCESOS : Fuera(p)' /\ ~Fuera(p) => r_pcb = p \/ cruzada']_vars
  <2> SUFFICES ASSUME Inductivo, [Next]_vars, NEW p \in PROCESOS,
                      Fuera(p)', ~Fuera(p), r_pcb # p, ~cruzada'
               PROVE  FALSE
    BY DEF vars
  <2>1. Tipos /\ Reparto
    BY DEF Inductivo, Forma
  <2> USE DEF planes, trabajos, conexion, archivos, Fuera
  <2>2. CASE Corto
    BY <2>1, <2>2
       DEF Tipos, Corto, Elegir, AbrirEnvia, Cerrar, PedirCompactacion,
           OperarArchivo, AbrirRecibe, CrearRecibe, CompactacionLock,
           CompactacionFin, Salir, Llama
  <2>3. CASE Filesystem
    BY <2>3 DEF Filesystem, FsAbrir, FsCrear, FsTruncar, FsLeer, FsEscribir,
                Atiende, FsResponde
  <2>4. ASSUME NEW q \in PROCESOS,
               EnviaTruncar(q) \/ EnviaLeer(q) \/ EnviaEscribir(q)
        PROVE  FALSE
    BY <2>1, <2>4 DEF Tipos, EnviaTruncar, EnviaLeer, EnviaEscribir, Envia
  <2>5. ASSUME NEW q \in PROCESOS, HiloRecibe(q)
        PROVE  FALSE
    <3>1. q = p
      BY <2>1, <2>5 DEF Tipos, HiloRecibe
    <3>2. PICK s : s = Pedido(operacion[q], q) /\ Toma(s) /\ s.cop \in DeHilo
      BY <2>1, <2>5, PedidoTipo DEF HiloRecibe, Reparto
    <3>3. /\ ~cruzada /\ respuestas # <<>> /\ Head(respuestas) = respuestas[1]
          /\ Head(respuestas).a = s /\ 1 \in DOMAIN respuestas
      BY <2>1, <3>2, RespuestaTomada, PosicionesSacar DEF Tipos
    <3>4. Head(respuestas).archivo_ok = 0
      BY <3>2, <3>3 DEF Inductivo, Acuerdo, Orden, Veraces, DeHilo, ConMemoria
    <3> QED
      BY <2>5, <3>1, <3>4 DEF HiloRecibe
  <2>6. CASE UNCHANGED vars
    BY <2>6 DEF vars
  <2> QED
    BY <2>2, <2>3, <2>4, <2>5, <2>6 DEF Next, Hilo
<1> QED
  BY <1>1, Invariante, PTL DEF Spec, NadiePerdido
=============================================================================
