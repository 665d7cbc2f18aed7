------------------------- MODULE ArchivosAbstractos -------------------------
(***************************************************************************)
(* What the filesystem promises: each file is a sequence of blocks of its  *)
(* own.  A file is created empty, grows by blocks of zeros, shrinks from   *)
(* the end, and only a write to it changes what is in it, in the blocks    *)
(* that the bytes written fall in.                                         *)
(***************************************************************************)
EXTENDS Integers, Sequences

CONSTANTS ARCHIVOS,
          LARGOS       \* bound: the lengths, in blocks, a truncation asks for

VARIABLE archivos      \* the blocks of each file that exists

Init == archivos = [f \in {} |-> <<>>]

Crear(f) ==
  /\ f \notin DOMAIN archivos
  /\ archivos' = [g \in DOMAIN archivos \union {f} |->
                    IF g = f THEN <<>> ELSE archivos[g]]

Truncar(f) ==
  /\ f \in DOMAIN archivos
  /\ \E n \in LARGOS :
       archivos' = [archivos EXCEPT ![f] =
         [i \in 1..n |-> IF i <= Len(@) THEN @[i] ELSE "ceros"]]

(* A write of some bytes marks every block it touches.                     *)
Escribir(f) ==
  /\ f \in DOMAIN archivos
  /\ \E desde \in 1..Len(archivos[f]) : \E hasta \in desde..Len(archivos[f]) :
       archivos' = [archivos EXCEPT ![f] =
         [i \in DOMAIN @ |-> IF i \in desde..hasta THEN "escrito" ELSE @[i]]]

Next == \E f \in ARCHIVOS : Crear(f) \/ Truncar(f) \/ Escribir(f)

Spec == Init /\ [][Next]_archivos
=============================================================================
