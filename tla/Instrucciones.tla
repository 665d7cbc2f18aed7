--------------------------- MODULE Instrucciones ---------------------------
(***************************************************************************)
(* The instructions of a program and the values they handle, as the CPU    *)
(* decodes them (src/cpu/src/utils.c).  A cell stands for four bytes, the  *)
(* narrowest register, and holds Nul when its string has ended.  The calls *)
(* that neither a register nor a segment tells apart (I/O, WAIT, SIGNAL,   *)
(* F_OPEN, F_CLOSE, F_SEEK, F_TRUNCATE) are the YIELD.                     *)
(***************************************************************************)
EXTENDS Integers, Sequences

CONSTANTS ANCHO,              \* the cells of each register
          TAM_MAX_SEGMENTO,   \* cpu.config, in cells
          CANT_SEGMENTOS      \* memoria.config

ASSUME SupuestoInstrucciones ==
  /\ ANCHO \in [DOMAIN ANCHO -> Nat \ {0}]
  /\ TAM_MAX_SEGMENTO \in Nat \ {0} /\ CANT_SEGMENTOS \in Nat \ {0}

IDS == 0..(CANT_SEGMENTOS - 1)
Nul == "nul"
Dato == "archivo"             \* what a file operation leaves in memory

EnCpu == {"SET", "MOV_IN", "MOV_OUT"}
DeArchivo == {"F_READ", "F_WRITE"}
Llamadas == {"YIELD", "CREATE_SEGMENT", "DELETE_SEGMENT"} \union DeArchivo

(* What decode makes of it: a name it does not know is an EXIT.            *)
Decode(i) == IF i.op \in EnCpu \union Llamadas THEN i.op ELSE "EXIT"

(* Mutant of Strncpy: strcpy.                                              *)
Strcpy(v, n) == v

(* strncpy to n cells: what follows the first Nul is lost.                 *)
Strncpy(v, n) ==
  [i \in 1..n |-> IF \E j \in 1..i : j > Len(v) \/ v[j] = Nul THEN Nul ELSE v[i]]

RegistrosVacios == [r \in DOMAIN ANCHO |-> [i \in 1..ANCHO[r] |-> Nul]]

SegmentoDe(dir) == dir \div TAM_MAX_SEGMENTO
Desplazamiento(dir) == dir % TAM_MAX_SEGMENTO

(* list_get of a segment past the table is a NULL, which is dereferenced.  *)
SinEntrada(i) ==
  i.op \in {"MOV_IN", "MOV_OUT"} \union DeArchivo /\ SegmentoDe(i.dir) \notin IDS
=============================================================================
