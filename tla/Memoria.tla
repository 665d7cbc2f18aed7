------------------------------ MODULE Memoria -------------------------------
(***************************************************************************)
(* The segment allocator of the memoria process (src/memoria/src/utils.c   *)
(* and the handlers of comunicacion.c) together with the segment tables    *)
(* the kernel keeps of it (src/kernel/src/core.c: creation, compaction,    *)
(* release, end of a process).  Every request comes from the kernel's      *)
(* short-term thread over one connection, which memoria serves in order    *)
(* and under mutex_memoria; the thread waits for the answer of the         *)
(* requests that have one.  So a request, its handler and the update of    *)
(* the kernel's table are one step.  The contents of the segments and      *)
(* segment 0, which never moves, are abstracted.                           *)
(***************************************************************************)
EXTENDS Integers, SequencesExt

CONSTANTS PIDS,                  \* the processes in memory
          TAM_MEMORIA, TAM_SEGMENTO_0, CANT_SEGMENTOS,   \* memoria.config
          ALGORITMOS,            \* the ALGORITMO_ASIGNACION considered
          TAMANIOS               \* bound: sizes a program asks for

ASSUME SupuestoMemoria ==
  /\ TAM_MEMORIA \in Nat /\ TAM_SEGMENTO_0 \in 0..(TAM_MEMORIA - 1)
  /\ CANT_SEGMENTOS \in Nat \ {0}
  /\ ALGORITMOS \subseteq {"FIRST", "BEST", "WORST"}
  /\ TAMANIOS \subseteq Nat \ {0}

IDS == 1..(CANT_SEGMENTOS - 1)    \* the segments of a table but for 0

VARIABLES
  ALGORITMO_ASIGNACION,    \* memoria.config, read at the start
  LISTA_ESPACIOS_LIBRES,   \* holes: [base, limite]
  LISTA_GLOBAL_SEGMENTOS,  \* segments: [pid, id, base, limite]
  ESPACIO_LIBRE_TOTAL,
  tabla_segmentos,         \* the kernel's [base, tam, activo] of each segment
  pedido                   \* the creation that waits for a compaction, if any

memoria ==
  <<LISTA_ESPACIOS_LIBRES, LISTA_GLOBAL_SEGMENTOS, ESPACIO_LIBRE_TOTAL>>
vars == <<ALGORITMO_ASIGNACION, memoria, tabla_segmentos, pedido>>

Inactivo == [base |-> 0, tam |-> 0, activo |-> FALSE]
SinPedido == [estado |-> "ninguno"]

-----------------------------------------------------------------------------
(* levantar_estructuras_administrativas: one hole above segment 0; and the *)
(* segment table of a new process, crear_tabla_segmentos.                  *)
Init ==
  /\ ALGORITMO_ASIGNACION \in ALGORITMOS
  /\ LISTA_ESPACIOS_LIBRES = <<[base   |-> TAM_SEGMENTO_0,
                                limite |-> TAM_MEMORIA - TAM_SEGMENTO_0]>>
  /\ LISTA_GLOBAL_SEGMENTOS = <<>>
  /\ ESPACIO_LIBRE_TOTAL = TAM_MEMORIA - TAM_SEGMENTO_0
  /\ tabla_segmentos = [p \in PIDS |-> [i \in IDS |-> Inactivo]]
  /\ pedido = SinPedido

(* list_add_sorted by base: after every element of smaller base.           *)
AgregarOrdenado(lista, x) ==
  LET n == Cardinality({i \in DOMAIN lista : lista[i].base < x.base})
  IN  InsertAt(lista, n + 1, x)

-----------------------------------------------------------------------------
(* buscar_espacio_libre: the position of a hole, 0 for the code's -1.      *)
Entra(i, tam) == LISTA_ESPACIOS_LIBRES[i].limite >= tam

(* Mutant of BuscarFIRST: a hole one byte too small will do.               *)
FirstHolgado(tam) == SelectInSeq(LISTA_ESPACIOS_LIBRES,
                                 LAMBDA e : e.limite >= tam - 1)

BuscarFIRST(tam) == SelectInSeq(LISTA_ESPACIOS_LIBRES,
                                LAMBDA e : e.limite >= tam)

(* WORST and BEST keep a candidate, at first the head of the list, and     *)
(* replace it along the list; at the end the candidate must be big enough. *)
Candidato(Reemplaza(_, _), tam) ==
  LET mejor(k, i) == IF i > 1 /\ Reemplaza(i, k) THEN i ELSE k
      c == FoldLeftDomain(mejor, 1, LISTA_ESPACIOS_LIBRES)
  IN  IF Entra(c, tam) THEN c ELSE 0

(* Mutant of BuscarWORST: it keeps the smaller hole.                       *)
WorstAlReves(tam) ==
  Candidato(LAMBDA i, k : LISTA_ESPACIOS_LIBRES[i].limite
                            < LISTA_ESPACIOS_LIBRES[k].limite, tam)

BuscarWORST(tam) ==
  Candidato(LAMBDA i, k : LISTA_ESPACIOS_LIBRES[i].limite
                            > LISTA_ESPACIOS_LIBRES[k].limite, tam)

BuscarBEST(tam) ==
  Candidato(LAMBDA i, k : Entra(i, tam) /\ ~Entra(k, tam), tam)

BuscarEspacio(tam) ==
  CASE ALGORITMO_ASIGNACION = "FIRST" -> BuscarFIRST(tam)
    [] ALGORITMO_ASIGNACION = "WORST" -> BuscarWORST(tam)
    [] ALGORITMO_ASIGNACION = "BEST"  -> BuscarBEST(tam)

-----------------------------------------------------------------------------
(* borrar_segmento on a state m of the allocator.  The hole is inserted,   *)
(* joined with the one below it and then with the one above it; and the    *)
(* segment of that base leaves the list.                                   *)
Contiguos(e, f) == e.base + e.limite = f.base

(* Mutant of UnirSiguiente: adjacent holes are left apart.                 *)
NoUnir(lista, i) == lista

UnirSiguiente(lista, i) ==
  IF i \in 1..(Len(lista) - 1) /\ Contiguos(lista[i], lista[i + 1])
    THEN RemoveAt([lista EXCEPT ![i].limite = @ + lista[i + 1].limite], i + 1)
    ELSE lista

(* Mutant of BorrarSegmento: only the upper neighbour is joined, and the   *)
(* total is not brought up to date.                                        *)
BorrarAMedias(m, base, limite) ==
  LET n == Cardinality({i \in DOMAIN m.huecos : m.huecos[i].base < base}) + 1
      con == AgregarOrdenado(m.huecos, [base |-> base, limite |-> limite])
  IN  [m EXCEPT !.huecos = UnirSiguiente(con, n),
                !.segmentos = SelectSeq(@, LAMBDA g : g.base # base)]

BorrarSegmento(m, base, limite) ==
  LET n == Cardinality({i \in DOMAIN m.huecos : m.huecos[i].base < base}) + 1
      con == AgregarOrdenado(m.huecos, [base |-> base, limite |-> limite])
      s == SelectInSeq(m.segmentos, LAMBDA g : g.base = base)
  IN  [huecos    |-> UnirSiguiente(UnirSiguiente(con, n), n - 1),
       segmentos |-> RemoveAt(m.segmentos, s),
       libre     |-> m.libre + limite]

EstadoMemoria == [huecos    |-> LISTA_ESPACIOS_LIBRES,
                  segmentos |-> LISTA_GLOBAL_SEGMENTOS,
                  libre     |-> ESPACIO_LIBRE_TOTAL]

QuedaMemoria(m) ==
  /\ LISTA_ESPACIOS_LIBRES' = m.huecos
  /\ LISTA_GLOBAL_SEGMENTOS' = m.segmentos
  /\ ESPACIO_LIBRE_TOTAL' = m.libre

(* compactar: each segment above the first hole is copied down to it, and  *)
(* the hole, now above the segment, is joined with the next one.           *)
(* Mutant of MoverSegmento: the segment is copied and the hole left where  *)
(* it was.                                                                 *)
MoverSinHueco(m, k) ==
  IF m.segmentos[k].base > m.huecos[1].base
    THEN [m EXCEPT !.segmentos[k].base = m.huecos[1].base]
    ELSE m

MoverSegmento(m, k) ==
  LET hueco == m.huecos[1]
      seg == m.segmentos[k]
      corrido == [m.huecos EXCEPT ![1].base = @ + seg.limite]
  IN  IF seg.base > hueco.base
        THEN [m EXCEPT !.segmentos[k].base = hueco.base,
                       !.huecos = UnirSiguiente(corrido, 1)]
        ELSE m

Compactada ==
  FoldLeftDomain(MoverSegmento, EstadoMemoria, LISTA_GLOBAL_SEGMENTOS)

-----------------------------------------------------------------------------
(* terminar_proceso releases the active segments in the order of the       *)
(* table; its successor gets a new table (crear_tabla_segmentos).          *)
Liberado(p) ==
  LET borrar(m, i) ==
        IF tabla_segmentos[p][i].activo
          THEN BorrarSegmento(m, tabla_segmentos[p][i].base,
                              tabla_segmentos[p][i].tam)
          ELSE m
  IN  FoldLeftDomain(borrar, EstadoMemoria, tabla_segmentos[p])

LiberarTodo(p) ==
  /\ QuedaMemoria(Liberado(p))
  /\ tabla_segmentos' = [tabla_segmentos EXCEPT ![p] = [i \in IDS |-> Inactivo]]
  /\ pedido' = SinPedido

(* MEMORIA_CREATE_SEGMENT: crear_segmento and the handler's insertion,     *)
(* with the kernel's three reactions to the answer.                        *)
SegmentoCreado(p, id, tam) ==
  LET i == BuscarEspacio(tam)
      e == LISTA_ESPACIOS_LIBRES[i]
  IN  /\ i # 0
      /\ LISTA_ESPACIOS_LIBRES' =
           IF e.limite = tam
             THEN RemoveAt(LISTA_ESPACIOS_LIBRES, i)
             ELSE [LISTA_ESPACIOS_LIBRES EXCEPT
                     ![i] = [base |-> e.base + tam, limite |-> e.limite - tam]]
      /\ LISTA_GLOBAL_SEGMENTOS' =
           AgregarOrdenado(LISTA_GLOBAL_SEGMENTOS,
                           [pid |-> p, id |-> id, base |-> e.base,
                            limite |-> tam])
      /\ ESPACIO_LIBRE_TOTAL' = ESPACIO_LIBRE_TOTAL - tam
      /\ tabla_segmentos' = [tabla_segmentos EXCEPT
           ![p][id] = [base |-> e.base, tam |-> tam, activo |-> TRUE]]
      /\ pedido' = SinPedido

CrearSegmento(p, id, tam) ==
  \/ /\ ESPACIO_LIBRE_TOTAL < tam
     /\ LiberarTodo(p)
  \/ /\ ESPACIO_LIBRE_TOTAL >= tam
     /\ SegmentoCreado(p, id, tam)
  \/ /\ ESPACIO_LIBRE_TOTAL >= tam
     /\ BuscarEspacio(tam) = 0
     /\ pedido' = [estado |-> "compactar", pid |-> p, id |-> id, tam |-> tam]
     /\ UNCHANGED <<memoria, tabla_segmentos>>

(* CREATE_SEGMENT of a segment the program does not have yet.              *)
Crear(p, id, tam) ==
  /\ pedido = SinPedido
  /\ ~tabla_segmentos[p][id].activo
  /\ CrearSegmento(p, id, tam)

(* Mutant of Compactar: the kernel does not read the new bases.            *)
CompactarSinBases ==
  /\ pedido.estado = "compactar"
  /\ QuedaMemoria(Compactada)
  /\ pedido' = [pedido EXCEPT !.estado = "reintentar"]
  /\ UNCHANGED tabla_segmentos

(* solicitar_compactacion: memoria compacts and sends every new base, and  *)
(* the kernel stores each one in the table of its process.                 *)
Compactar ==
  /\ pedido.estado = "compactar"
  /\ QuedaMemoria(Compactada)
  /\ tabla_segmentos' = [p \in PIDS |-> [i \in IDS |->
       LET s == {k \in DOMAIN Compactada.segmentos :
                   /\ Compactada.segmentos[k].pid = p
                   /\ Compactada.segmentos[k].id = i}
       IN  IF s = {} THEN tabla_segmentos[p][i]
           ELSE [tabla_segmentos[p][i] EXCEPT
                   !.base = Compactada.segmentos[Max(s)].base]]]
  /\ pedido' = [pedido EXCEPT !.estado = "reintentar"]

(* ... and then the creation is asked for again.                           *)
Reintentar ==
  /\ pedido.estado = "reintentar"
  /\ CrearSegmento(pedido.pid, pedido.id, pedido.tam)

(* DELETE_SEGMENT of a segment the program has.                            *)
Borrar(p, id) ==
  /\ pedido = SinPedido
  /\ tabla_segmentos[p][id].activo
  /\ QuedaMemoria(BorrarSegmento(EstadoMemoria, tabla_segmentos[p][id].base,
                                 tabla_segmentos[p][id].tam))
  /\ tabla_segmentos' = [tabla_segmentos EXCEPT ![p][id] = Inactivo]
  /\ UNCHANGED pedido

Terminar(p) ==
  /\ pedido = SinPedido
  /\ LiberarTodo(p)

Pedido ==
  \/ \E p \in PIDS : \/ \E id \in IDS, tam \in TAMANIOS : Crear(p, id, tam)
                     \/ \E id \in IDS : Borrar(p, id)
                     \/ Terminar(p)
  \/ Compactar
  \/ Reintentar

Next == Pedido /\ UNCHANGED ALGORITMO_ASIGNACION

Spec == Init /\ [][Next]_vars

-----------------------------------------------------------------------------
Bytes(base, limite) == base..(base + limite - 1)
BytesLibres == UNION {Bytes(LISTA_ESPACIOS_LIBRES[i].base,
                            LISTA_ESPACIOS_LIBRES[i].limite) :
                        i \in DOMAIN LISTA_ESPACIOS_LIBRES}
BytesUsados == UNION {Bytes(LISTA_GLOBAL_SEGMENTOS[i].base,
                            LISTA_GLOBAL_SEGMENTOS[i].limite) :
                        i \in DOMAIN LISTA_GLOBAL_SEGMENTOS}

(* The type invariant of both lists, of the total and of the tables.       *)
TypeOK ==
  /\ LISTA_ESPACIOS_LIBRES \in Seq([base : Nat, limite : Nat])
  /\ LISTA_GLOBAL_SEGMENTOS \in
       Seq([pid : PIDS, id : IDS, base : Nat, limite : Nat])
  /\ ESPACIO_LIBRE_TOTAL \in 0..TAM_MEMORIA
  /\ tabla_segmentos \in
       [PIDS -> [IDS -> [base : Nat, tam : Nat, activo : BOOLEAN]]]
  /\ pedido.estado \in {"ninguno", "compactar", "reintentar"}

(* Every byte above segment 0 is in one hole or in one segment: nothing is *)
(* lost, nothing is given to two segments, whatever the sequence of        *)
(* creations, releases, compactions and ends of processes; and             *)
(* ESPACIO_LIBRE_TOTAL, kept apart by its own additions, is the free part. *)
Suma(l) == FoldLeft(LAMBDA t, e : t + e.limite, 0, l)
Particion ==
  /\ BytesLibres \union BytesUsados = TAM_SEGMENTO_0..(TAM_MEMORIA - 1)
  /\ Suma(LISTA_ESPACIOS_LIBRES) + Suma(LISTA_GLOBAL_SEGMENTOS)
       = TAM_MEMORIA - TAM_SEGMENTO_0
  /\ ESPACIO_LIBRE_TOTAL = Suma(LISTA_ESPACIOS_LIBRES)

(* The consolidation of borrar_segmento and compactar is complete: holes   *)
(* are in increasing order and no two of them touch, so a hole that would  *)
(* do is never missed by being in two pieces.                              *)
Consolidada ==
  /\ \A i \in DOMAIN LISTA_ESPACIOS_LIBRES : LISTA_ESPACIOS_LIBRES[i].limite > 0
  /\ \A i \in 1..(Len(LISTA_ESPACIOS_LIBRES) - 1) :
       LISTA_ESPACIOS_LIBRES[i].base + LISTA_ESPACIOS_LIBRES[i].limite
         < LISTA_ESPACIOS_LIBRES[i + 1].base

(* With ALGORITMO_ASIGNACION=WORST the hole chosen is a largest one.       *)
WorstElMayor ==
  ALGORITMO_ASIGNACION = "WORST" => \A tam \in TAMANIOS :
    tam <= ESPACIO_LIBRE_TOTAL /\ BuscarEspacio(tam) # 0 =>
    \A i \in DOMAIN LISTA_ESPACIOS_LIBRES :
      LISTA_ESPACIOS_LIBRES[i].limite
        <= LISTA_ESPACIOS_LIBRES[BuscarEspacio(tam)].limite

(* buscar_espacio_libre answers that a compaction is needed only when no   *)
(* hole would do, and WORST keeps a largest of those it looks at.          *)
BusquedaCompleta ==
  /\ \A tam \in TAMANIOS : tam <= ESPACIO_LIBRE_TOTAL =>
       (BuscarEspacio(tam) = 0
          <=> \A i \in DOMAIN LISTA_ESPACIOS_LIBRES : ~Entra(i, tam))
  /\ WorstElMayor

(* The kernel's tables and memoria's list tell the same story, also after  *)
(* a compaction has moved the segments: a segment is active in its table   *)
(* exactly when memoria has it, with that base and that size.              *)
TablasDeAcuerdo ==
  {[pid |-> s[1], id |-> s[2], base |-> tabla_segmentos[s[1]][s[2]].base,
    limite |-> tabla_segmentos[s[1]][s[2]].tam] :
     s \in {s \in PIDS \X IDS : tabla_segmentos[s[1]][s[2]].activo}}
  = {LISTA_GLOBAL_SEGMENTOS[k] : k \in DOMAIN LISTA_GLOBAL_SEGMENTOS}

(* One compaction is enough: solicitar_compactacion calls                  *)
(* solicitar_creacion_segmento, which may call it again; the second        *)
(* request never ends in another compaction nor in out of memory.          *)
UnaCompactacionAlcanza ==
  pedido.estado = "reintentar" =>
    /\ Len(LISTA_ESPACIOS_LIBRES) = 1
    /\ pedido.tam <= ESPACIO_LIBRE_TOTAL
    /\ BuscarEspacio(pedido.tam) # 0

(* With ALGORITMO_ASIGNACION=BEST (memoriaoriginal.config:7) the hole      *)
(* chosen is the smallest of those that are big enough.                    *)
BestElMenor ==
  ALGORITMO_ASIGNACION = "BEST" => \A tam \in TAMANIOS :
    tam <= ESPACIO_LIBRE_TOTAL /\ BuscarEspacio(tam) # 0 =>
    \A i \in DOMAIN LISTA_ESPACIOS_LIBRES :
      Entra(i, tam) => LISTA_ESPACIOS_LIBRES[BuscarEspacio(tam)].limite
                         <= LISTA_ESPACIOS_LIBRES[i].limite

(* The bytes of each segment as the kernel's tables give them implement    *)
(* segmented memory: every allocation is of free bytes, and a compaction   *)
(* slides the segments without losing, resizing or reordering any.         *)
Abstracta == INSTANCE MemoriaAbstracta WITH
  zona <- [s \in PIDS \X IDS |-> Bytes(tabla_segmentos[s[1]][s[2]].base,
                                      tabla_segmentos[s[1]][s[2]].tam)]
ImplementaMemoria == Abstracta!Spec
=============================================================================
