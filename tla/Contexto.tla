------------------------------ MODULE Contexto ------------------------------
(***************************************************************************)
(* How a context is laid out in a message between the kernel and the CPU   *)
(* (src/kernel/src/comunicacion.c, src/cpu/src, src/shared/src): a         *)
(* sequence of slots, one for each number, instruction and cell of a       *)
(* register, written and read by position.                                 *)
(***************************************************************************)
EXTENDS Instrucciones, SequencesExt

CONSTANT REGISTROS       \* the registers, in the order they travel

ASSUME SupuestoContexto ==
  /\ REGISTROS \in Seq(DOMAIN ANCHO)
  /\ DOMAIN ANCHO = {REGISTROS[i] : i \in 1..Len(REGISTROS)}
  /\ \A i, j \in 1..Len(REGISTROS) : REGISTROS[i] = REGISTROS[j] => i = j

(* The slots before register i.                                            *)
Antes[i \in 1..(Len(REGISTROS) + 1)] ==
  IF i = 1 THEN 0 ELSE Antes[i - 1] + ANCHO[REGISTROS[i - 1]]

TamRegistros == Antes[Len(REGISTROS) + 1]
TAMANIO_CONTEXTO == TamRegistros + 1         \* the registers and the pc

SerializarRegistros(regs) ==
  FlattenSeq([i \in 1..Len(REGISTROS) |-> regs[REGISTROS[i]]])

DeserializarRegistros(m) ==
  [r \in DOMAIN ANCHO |->
    LET i == CHOOSE i \in 1..Len(REGISTROS) : REGISTROS[i] = r
    IN  SubSeq(m, Antes[i] + 1, Antes[i] + ANCHO[r])]

SerializarInstrucciones(ins) == <<Len(ins)>> \o ins

SerializarTabla(tabla) ==
  <<CANT_SEGMENTOS>> \o
  FlattenSeq([i \in 1..CANT_SEGMENTOS |->
    <<i - 1, tabla[i - 1].base, tabla[i - 1].tam, tabla[i - 1].activo>>])

DeserializarSegmentos(m, cant) ==
  [s \in 0..(cant - 1) |->
    [base |-> m[4 * s + 2], tam |-> m[4 * s + 3], activo |-> m[4 * s + 4]]]

(* The size that goes first, and what recv takes of the rest.              *)
ConTamanio(m) == <<Len(m)>> \o m
Recibido(m) == SubSeq(m, 2, m[1] + 1)

SerializarContextoPCB(pid, regs, pc, ins, tabla) ==
  ConTamanio(<<pid>> \o SerializarRegistros(regs) \o <<pc>>
             \o SerializarInstrucciones(ins) \o SerializarTabla(tabla))

(* Mutant of CambiarContexto: the slot of the size of the instructions is  *)
(* not stepped over before the segments are read.                          *)
CambiarCorrido(m) ==
  LET pc == TAMANIO_CONTEXTO + 1
      cant == m[pc + 1]
      seg == pc + 1 + cant
  IN  [pid |-> m[1], registros |-> DeserializarRegistros(Tail(m)),
       pc |-> m[pc], instrucciones |-> SubSeq(m, pc + 2, pc + 1 + cant),
       segmentos |-> DeserializarSegmentos(SubSeq(m, seg + 1, Len(m)),
                                           CANT_SEGMENTOS)]

CambiarContexto(m) ==
  LET pc == TAMANIO_CONTEXTO + 1
      cant == m[pc + 1]
      seg == pc + 2 + cant
  IN  [pid |-> m[1], registros |-> DeserializarRegistros(Tail(m)),
       pc |-> m[pc], instrucciones |-> SubSeq(m, pc + 2, pc + 1 + cant),
       segmentos |-> DeserializarSegmentos(SubSeq(m, seg + 1, Len(m)), m[seg])]

(* The way back: the arguments of the call follow the pc.                  *)
SerializarContexto(regs, pc, args) ==
  ConTamanio(SerializarRegistros(regs) \o <<pc>> \o args)

DeserializarPC(m) == m[TAMANIO_CONTEXTO]
Argumento(m, i) == m[TAMANIO_CONTEXTO + i]
=============================================================================
