-------------------------- MODULE ProcesosAislados --------------------------
(***************************************************************************)
(* What the kernel, the CPU and memoria promise to a program: it runs as   *)
(* if it were alone, one instruction after another, on registers and       *)
(* segments of its own; only segment 0 is everybody's.                     *)
(***************************************************************************)
EXTENDS Instrucciones

CONSTANTS PROCESOS, CELDAS,
          NINGUNO                \* no system call is pending

VARIABLES programa, pc, registros,
          segmentos,    \* the cells of each segment, none if it is not there
          comun,        \* those of segment 0
          pedido,       \* the system call each process waits for
          terminados

vars == <<programa, pc, registros, segmentos, comun, pedido, terminados>>

Init ==
  /\ pc = [p \in PROCESOS |-> 0]
  /\ registros = [p \in PROCESOS |-> RegistrosVacios]
  /\ segmentos = [p \in PROCESOS |-> [s \in IDS \ {0} |-> <<>>]]
  /\ comun \in Seq({Nul})
  /\ pedido = [p \in PROCESOS |-> NINGUNO]
  /\ terminados = {}

Instruccion(p) == programa[p][pc[p] + 1]
Contenido(p, s) == IF s = 0 THEN comun ELSE segmentos[p][s]
Cabe(p, dir, n) == Desplazamiento(dir) + n <= Len(Contenido(p, SegmentoDe(dir)))

Leido(p, dir, n) ==
  SubSeq(Contenido(p, SegmentoDe(dir)),
         Desplazamiento(dir) + 1, Desplazamiento(dir) + n)

Poner(c, desde, v) ==
  [i \in DOMAIN c |-> IF i - desde \in DOMAIN v THEN v[i - desde] ELSE c[i]]

Escribir(p, dir, v) ==
  LET s == SegmentoDe(dir)
      c == Poner(Contenido(p, s), Desplazamiento(dir), v)
  IN  IF s = 0 THEN comun' = c /\ UNCHANGED segmentos
               ELSE /\ segmentos' = [segmentos EXCEPT ![p][s] = c]
                    /\ UNCHANGED comun

-----------------------------------------------------------------------------
Ejecuta(p, op) ==
  /\ p \notin terminados /\ pedido[p] = NINGUNO
  /\ pc[p] < Len(programa[p])
  /\ Decode(Instruccion(p)) = op
  /\ ~SinEntrada(Instruccion(p))
  /\ pc' = [pc EXCEPT ![p] = @ + 1]
  /\ UNCHANGED <<programa, terminados>>

(* A program that runs out of instructions ends.                           *)
Seguir(p) ==
  pedido' = [pedido EXCEPT ![p] =
               IF pc[p] + 1 = Len(programa[p]) THEN "EXIT" ELSE NINGUNO]

Fallar(p) ==
  /\ pedido' = [pedido EXCEPT ![p] = "SEG_FAULT"]
  /\ UNCHANGED <<registros, segmentos, comun>>

Set(p) ==
  LET i == Instruccion(p)
  IN  /\ Ejecuta(p, "SET")
      /\ registros' = [registros EXCEPT ![p][i.reg] = Strncpy(i.val, ANCHO[i.reg])]
      /\ Seguir(p)
      /\ UNCHANGED <<segmentos, comun>>

MovIn(p) ==
  LET i == Instruccion(p)  n == ANCHO[i.reg]
  IN  /\ Ejecuta(p, "MOV_IN")
      /\ IF Cabe(p, i.dir, n)
           THEN /\ registros' =
                     [registros EXCEPT ![p][i.reg] = Strncpy(Leido(p, i.dir, n), n)]
                /\ Seguir(p)
                /\ UNCHANGED <<segmentos, comun>>
           ELSE Fallar(p)

MovOut(p) ==
  LET i == Instruccion(p)
  IN  /\ Ejecuta(p, "MOV_OUT")
      /\ IF Cabe(p, i.dir, ANCHO[i.reg])
           THEN /\ Escribir(p, i.dir, registros[p][i.reg])
                /\ Seguir(p)
                /\ UNCHANGED registros
           ELSE Fallar(p)

Pedir(p) ==
  \E op \in Llamadas \union {"EXIT"} :
    /\ Ejecuta(p, op)
    /\ pedido' = [pedido EXCEPT ![p] = op]
    /\ UNCHANGED <<registros, segmentos, comun>>

-----------------------------------------------------------------------------
(* The system calls; the instruction is the one before the pc.             *)
Pedida(p) == programa[p][pc[p]]

Atendido(p) ==
  /\ pedido' = [pedido EXCEPT ![p] = NINGUNO]
  /\ UNCHANGED <<programa, pc, registros>>

Terminar(p) ==
  /\ pedido[p] \in {"EXIT", "SEG_FAULT", "CREATE_SEGMENT"}  \* out of memory
  /\ Atendido(p)
  /\ terminados' = terminados \union {p}
  /\ segmentos' = [segmentos EXCEPT ![p] = [s \in IDS \ {0} |-> <<>>]]
  /\ UNCHANGED comun

Crear(p) ==
  /\ pedido[p] = "CREATE_SEGMENT"
  /\ Atendido(p)
  /\ \E c \in [1..Pedida(p).tam -> CELDAS] :
       segmentos' = [segmentos EXCEPT ![p][Pedida(p).id] = c]
  /\ UNCHANGED <<comun, terminados>>

Borrar(p) ==
  /\ pedido[p] = "DELETE_SEGMENT"
  /\ Atendido(p)
  /\ segmentos' = [segmentos EXCEPT ![p][Pedida(p).id] = <<>>]
  /\ UNCHANGED <<comun, terminados>>

LeerArchivo(p) ==
  /\ pedido[p] = "F_READ"
  /\ Cabe(p, Pedida(p).dir, Pedida(p).cant)
  /\ Atendido(p)
  /\ Escribir(p, Pedida(p).dir, [i \in 1..Pedida(p).cant |-> Dato])
  /\ UNCHANGED terminados

OtraLlamada(p) ==
  /\ pedido[p] \in {"YIELD", "F_WRITE"}
  /\ Atendido(p)
  /\ UNCHANGED <<segmentos, comun, terminados>>

Next == \E p \in PROCESOS :
  \/ Set(p) \/ MovIn(p) \/ MovOut(p) \/ Pedir(p)
  \/ Terminar(p) \/ Crear(p) \/ Borrar(p) \/ LeerArchivo(p) \/ OtraLlamada(p)

Spec == Init /\ [][Next]_vars
=============================================================================
