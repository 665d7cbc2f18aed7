-------------------------- MODULE MemoriaAbstracta --------------------------
(***************************************************************************)
(* What segmented memory promises a program: each of its segments is a run *)
(* of consecutive bytes of the requested size that no other segment and    *)
(* not segment 0 shares; only the program's own requests create or destroy *)
(* one; a compaction may move segments down, never resize, lose or reorder *)
(* them; and a program loses them all at once when it ends.                *)
(***************************************************************************)
EXTENDS Integers

CONSTANTS PIDS, IDS, TAM_MEMORIA, TAM_SEGMENTO_0, TAMANIOS

VARIABLE zona      \* the bytes of each segment of each process

Usuario == TAM_SEGMENTO_0..(TAM_MEMORIA - 1)
Segmentos == PIDS \X IDS

Bytes(z) == UNION {z[s] : s \in Segmentos}
Abajo(a, b) == \A x \in a, y \in b : x < y

Init == zona = [s \in Segmentos |-> {}]

Crear(s, tam) ==
  /\ zona[s] = {}
  /\ \E base \in Usuario :
       LET nueva == base..(base + tam - 1)
       IN  /\ nueva \subseteq Usuario
           /\ nueva \intersect Bytes(zona) = {}
           /\ zona' = [zona EXCEPT ![s] = nueva]

Borrar(s) ==
  /\ zona[s] # {}
  /\ zona' = [zona EXCEPT ![s] = {}]

Vaciar(p) == zona' = [s \in Segmentos |-> IF s[1] = p THEN {} ELSE zona[s]]

(* Segments slide down and keep their order, so they stay disjoint.        *)
Desliza(a, b) == \E d \in 0..TAM_MEMORIA : b = {x - d : x \in a}

Compactar ==
  /\ zona' \in [Segmentos -> SUBSET Usuario]
  /\ \A s \in Segmentos : Desliza(zona[s], zona'[s])
  /\ \A s, t \in Segmentos :
       Abajo(zona[s], zona[t]) => Abajo(zona'[s], zona'[t])

Next ==
  \/ \E s \in Segmentos, tam \in TAMANIOS : Crear(s, tam)
  \/ \E s \in Segmentos : Borrar(s)
  \/ \E p \in PIDS : Vaciar(p)
  \/ Compactar

Spec == Init /\ [][Next]_zona
=============================================================================
