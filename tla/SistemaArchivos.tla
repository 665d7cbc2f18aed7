--------------------------- MODULE SistemaArchivos ---------------------------
(***************************************************************************)
(* The filesystem process (src/filesystem/src/core.c and utils.c): FCBs,   *)
(* bitmap and blocks.  The kernel is its only client and its requests are  *)
(* served one at a time, so each handler is one step.  A pointer is the    *)
(* number of its block (the code keeps BLOCK_SIZE times that).  What a     *)
(* program writes in a block is abstracted to whose block it is: the file  *)
(* and the position it was written for.  bitmap.dat, bloques.dat and the   *)
(* FCB files are written by the very functions that change the memory      *)
(* images, so between two requests they are the same; a stop inside a      *)
(* request leaves what had been written, and the next start reads it.      *)
(***************************************************************************)
EXTENDS Integers, SequencesExt

CONSTANTS ARCHIVOS,
          BLOCK_SIZE, BLOCK_COUNT,   \* superbloque.config
          TAMANIOS,                  \* bound: sizes a program truncates to
          POSICIONES                 \* bound: offsets and amounts it writes

ASSUME SupuestoArchivos ==
  /\ BLOCK_SIZE \in Nat \ {0} /\ BLOCK_COUNT \in Nat \ {0}
  /\ TAMANIOS \subseteq Nat /\ POSICIONES \subseteq Nat

VARIABLES bitmap,          \* the blocks whose bit is set
          blocks_buffer,   \* the contents of each block
          fcb,             \* the FCB of each file that exists
          disco            \* history: what has become of the disk

vars == <<bitmap, blocks_buffer, fcb, disco>>

(* "exacto"; "pierde" blocks that no FCB has; and the ends, after which a  *)
(* disk is not followed: a "corte" inside a shrink or the write of an FCB, *)
(* "lleno" (no block found), "cero" (block 0 of another file freed),       *)
(* "afuera" (written past the file), "vaciado" (bloques.dat rewritten half).*)
Finales == {"corte", "lleno", "cero", "afuera", "vaciado"}
Entero == disco \in {"exacto", "pierde"}

Bloques == 0..(BLOCK_COUNT - 1)
POR_BLOQUE == BLOCK_SIZE \div 4            \* uint32_t pointers in a block

Ceros == [clase |-> "ceros"]
Datos(f, k) == [clase |-> "datos", archivo |-> f, bloque |-> k]
Punteros(p) == [clase |-> "punteros", p |-> p]
FcbVacio == [f_size |-> 0, f_dp |-> 0, f_ip |-> 0, vacio |-> TRUE]

(* levantar_bitmap and levantar_bloques without files: zeros.              *)
Init ==
  /\ bitmap = {}
  /\ blocks_buffer = [b \in Bloques |-> Ceros]
  /\ fcb = [f \in {} |-> Ceros]
  /\ disco = "exacto"

-----------------------------------------------------------------------------
CalcularBloques(size) ==
  size \div BLOCK_SIZE + (IF size % BLOCK_SIZE # 0 THEN 1 ELSE 0)

(* The pointers of an indirect block; a clean one holds zeros.             *)
Leidos(b) == IF b.clase = "punteros" THEN b.p
                                     ELSE [i \in 0..(POR_BLOQUE - 1) |-> 0]

(* The block of position k of a file: the direct one, or the k-th.         *)
Resuelve(bloques, c, k) ==
  IF k = 0 THEN c.f_dp ELSE Leidos(bloques[c.f_ip])[k - 1]

(* Mutant of Libres: blocks are numbered from 1.                           *)
LibresDesdeUno(m) == (1..BLOCK_COUNT) \ m.mapa

Libres(m) == Bloques \ m.mapa
BloqueLibre(m) == CHOOSE b \in Libres(m) : \A c \in Libres(m) : b <= c

(* The functions of utils.c, on the state m of one truncar_archivo.  Each  *)
(* write to bitmap.dat or bloques.dat adds to m.escrito the image it makes. *)
Escribe(m, mapa, bloques) ==
  [m EXCEPT !.mapa = mapa, !.bloques = bloques, !.escrito = @ \union
     {[mapa |-> mapa, bloques |-> bloques]}]

Ocupar(m, b) == Escribe(m, m.mapa \union {b}, m.bloques)
Modificar(m, b, c) == Escribe(m, m.mapa, [m.bloques EXCEPT ![b] = c])

(* Mutant of Desocupar: the block is not cleaned.                          *)
DesocuparSinLimpiar(m, b) == Escribe(m, m.mapa \ {b}, m.bloques)

Desocupar(m, b) == Modificar(Escribe(m, m.mapa \ {b}, m.bloques), b, Ceros)

(* With no free block, or no place for a pointer, the three allocation     *)
(* functions do nothing and say nothing.                                   *)
SinAsignar(m) == [m EXCEPT !.alcanza = FALSE]

AsignarDirecto(m) ==
  IF Libres(m) = {} THEN SinAsignar(m)
  ELSE [Ocupar(m, BloqueLibre(m)) EXCEPT !.f_dp = BloqueLibre(m)]

AsignarIndirecto(m) ==
  IF Libres(m) = {} THEN SinAsignar(m)
  ELSE [Ocupar(m, BloqueLibre(m)) EXCEPT !.f_ip = BloqueLibre(m)]

ConPuntero(m, n) ==
  Punteros([Leidos(m.bloques[m.f_ip]) EXCEPT ![n] = BloqueLibre(m)])

(* Mutant of AsignarAlIndirecto: the block is not marked in the bitmap.    *)
AsignarSinOcupar(m, n) ==
  IF Libres(m) = {} \/ 4 * n + 1 >= BLOCK_SIZE THEN SinAsignar(m)
  ELSE Modificar(m, m.f_ip, ConPuntero(m, n))

AsignarAlIndirecto(m, n) ==
  IF Libres(m) = {} \/ 4 * n + 1 >= BLOCK_SIZE THEN SinAsignar(m)
  ELSE Modificar(Ocupar(m, BloqueLibre(m)), m.f_ip, ConPuntero(m, n))

(* remover_puntero_de_bloque_indirecto: pointers from n on become zero.    *)
RemoverPuntero(m, n) ==
  LET p == Leidos(m.bloques[m.f_ip])
  IN  Modificar(m, m.f_ip, Punteros([i \in DOMAIN p |-> IF i < n THEN p[i] ELSE 0]))

-----------------------------------------------------------------------------
(* Growth: the direct block if there was none, the indirect one if there   *)
(* was at most one, and the pointers from the first missing on.            *)
Rango(a, b) == [i \in 1..(b - a + 1) |-> a + i - 1]
Tope(a, b) == IF a > b THEN a ELSE b

Crecer(m, actuales, necesarios) ==
  LET directo == IF actuales = 0 THEN AsignarDirecto(m) ELSE m
      indirecto == IF actuales <= 1 /\ necesarios > 1
                     THEN AsignarIndirecto(directo) ELSE directo
  IN  FoldLeft(AsignarAlIndirecto, indirecto,
               Rango(Tope(actuales, 1) - 1, necesarios - 2))

(* Shrinking: the pointers from the last one down, and for an empty file   *)
(* the indirect and the direct block, whether it had both or not.          *)
Achicar(m, actuales, necesarios) ==
  LET soltar(n, i) ==
        RemoverPuntero(Desocupar(n, Leidos(n.bloques[n.f_ip])[i]), i)
      sueltos == FoldLeft(soltar, m,
                   Reverse(Rango(Tope(necesarios, 1) - 1, actuales - 2)))
      sinIp == [Desocupar(sueltos, sueltos.f_ip) EXCEPT !.f_ip = 0]
  IN  IF necesarios > 0 THEN sueltos
      ELSE [Desocupar(sinIp, sinIp.f_dp) EXCEPT !.f_dp = 0]

Truncado(f, new_size) ==
  LET m == [mapa |-> bitmap, bloques |-> blocks_buffer,
            f_dp |-> fcb[f].f_dp, f_ip |-> fcb[f].f_ip,
            alcanza |-> TRUE, escrito |-> {}]
      actuales == CalcularBloques(fcb[f].f_size)
      necesarios == CalcularBloques(new_size)
  IN  IF actuales < necesarios THEN Crecer(m, actuales, necesarios)
      ELSE IF actuales > necesarios THEN Achicar(m, actuales, necesarios)
      ELSE m

(* The blocks a file refers to, one for each position and the indirect,    *)
(* which a file that shrinks to one block keeps.                           *)
Cuantos(f) == CalcularBloques(fcb[f].f_size)
DeDatos(f) == [k \in 0..(Cuantos(f) - 1) |-> Resuelve(blocks_buffer, fcb[f], k)]
TieneIndirecto(f) == Cuantos(f) > 1 \/ fcb[f].f_ip # 0
Referencias(f) ==
  {<<f, "datos", k>> : k \in DOMAIN DeDatos(f)}
    \union (IF TieneIndirecto(f) THEN {<<f, "indirecto", 0>>} ELSE {})
Referido(r) == IF r[2] = "datos" THEN DeDatos(r[1])[r[3]] ELSE fcb[r[1]].f_ip
TodasReferencias == UNION {Referencias(f) : f \in DOMAIN fcb}

(* Two ways of losing the indirect block: a file that grows from one block *)
(* takes another; when it is block 0, the FCB of a file of one block says  *)
(* nothing of it.                                                          *)
Pierde(f, necesarios) ==
  \/ Cuantos(f) = 1 /\ necesarios > 1 /\ fcb[f].f_ip # 0
  \/ Cuantos(f) > 1 /\ necesarios = 1 /\ fcb[f].f_ip = 0

(* Emptying a file of one block frees block f_ip, also when it is zero for *)
(* want of an indirect block; then block 0 may be another file's.          *)
LiberaElCero(f, necesarios) ==
  /\ Cuantos(f) = 1 /\ necesarios = 0 /\ fcb[f].f_ip = 0
  /\ \E r \in TodasReferencias : r[1] # f /\ Referido(r) = 0

Usable(f) == Entero /\ f \in DOMAIN fcb

Truncar(f, new_size) ==
  /\ Usable(f)
  /\ LET m == Truncado(f, new_size)
         necesarios == CalcularBloques(new_size)
     IN  /\ bitmap' = m.mapa
         /\ blocks_buffer' = m.bloques
         /\ fcb' = [fcb EXCEPT ![f] = [f_size |-> new_size, f_dp |-> m.f_dp,
                                       f_ip |-> m.f_ip]]
         /\ disco' = CASE ~m.alcanza                              -> "lleno"
                       [] m.alcanza /\ LiberaElCero(f, necesarios) -> "cero"
                       [] m.alcanza /\ Pierde(f, necesarios)       -> "pierde"
                       [] OTHER                                    -> disco

TrasCorte(f, new_size) ==
  CASE LiberaElCero(f, CalcularBloques(new_size)) -> "cero"
    [] new_size > fcb[f].f_size                   -> "pierde"
    [] OTHER                                      -> "corte"

(* Mutant of CorteTruncar: the FCB is written first.                       *)
CorteFcbPrimero(f, new_size) ==
  /\ Usable(f)
  /\ LET m == Truncado(f, new_size)
     IN  /\ \E e \in m.escrito : bitmap' = e.mapa /\ blocks_buffer' = e.bloques
         /\ fcb' = [fcb EXCEPT ![f] = [f_size |-> new_size, f_dp |-> m.f_dp,
                                       f_ip |-> m.f_ip]]
  /\ disco' = TrasCorte(f, new_size)

(* The filesystem stops after one of the writes of a truncation, before    *)
(* that of the FCB, and is started again.                                  *)
CorteTruncar(f, new_size) ==
  /\ Usable(f)
  /\ \E e \in Truncado(f, new_size).escrito :
       bitmap' = e.mapa /\ blocks_buffer' = e.bloques
  /\ disco' = TrasCorte(f, new_size)
  /\ UNCHANGED fcb

(* It stops between the fopen "w" of the FCB and its fclose.               *)
CorteFcb(f, new_size) ==
  /\ Usable(f)
  /\ LET m == Truncado(f, new_size)
     IN  bitmap' = m.mapa /\ blocks_buffer' = m.bloques
  /\ fcb' = [fcb EXCEPT ![f] = FcbVacio]
  /\ disco' = IF LiberaElCero(f, CalcularBloques(new_size)) THEN "cero"
                                                             ELSE "corte"

ConFcb(f, c) == [g \in DOMAIN fcb \union {f} |-> IF g = f THEN c ELSE fcb[g]]

(* ABRIR_ARCHIVO answers that the file does not exist, CREAR_ARCHIVO.      *)
Crear(f) ==
  /\ Entero /\ f \notin DOMAIN fcb
  /\ fcb' = ConFcb(f, [f_size |-> 0, f_dp |-> 0, f_ip |-> 0])
  /\ UNCHANGED <<bitmap, blocks_buffer, disco>>

(* A stop between its fopen "w" and its fclose: the FCB is there, empty.   *)
CorteCrear(f) ==
  /\ Entero /\ f \notin DOMAIN fcb
  /\ fcb' = ConFcb(f, FcbVacio)
  /\ disco' = "corte"
  /\ UNCHANGED <<bitmap, blocks_buffer>>

-----------------------------------------------------------------------------
(* The copies that eferrait and eferrid make: from byte desde of block     *)
(* bloque of the file, to or from byte pos of the data, cant bytes.        *)
Copia(bloque, desde, pos, cant) ==
  [bloque |-> bloque, desde |-> desde, pos |-> pos, cant |-> cant]

(* Mutant of Copias: every block after the first is copied whole.          *)
CopiasEnteras(offset, cantidad) ==
  LET inicial == offset \div BLOCK_SIZE
      final == (offset + cantidad) \div BLOCK_SIZE
      primera == BLOCK_SIZE * (inicial + 1) - offset
  IN  IF inicial = final
        THEN <<Copia(inicial, offset - BLOCK_SIZE * inicial, 0, cantidad)>>
        ELSE <<Copia(inicial, offset - BLOCK_SIZE * inicial, 0, primera)>>
             \o [i \in 1..(final - inicial) |->
                   Copia(inicial + i, 0, primera + BLOCK_SIZE * (i - 1),
                         BLOCK_SIZE)]

Copias(offset, cantidad) ==
  LET inicial == offset \div BLOCK_SIZE
      final == (offset + cantidad) \div BLOCK_SIZE
      otra(t, i) ==
        LET pos == Last(t).pos + Last(t).cant
            resta == cantidad - pos
        IN  Append(t, Copia(i, 0, pos, IF resta > BLOCK_SIZE THEN BLOCK_SIZE
                                                             ELSE resta))
      primera == Copia(inicial, offset - BLOCK_SIZE * inicial, 0,
                       BLOCK_SIZE * (inicial + 1) - offset)
  IN  IF inicial = final
        THEN <<Copia(inicial, offset - BLOCK_SIZE * inicial, 0, cantidad)>>
        ELSE FoldLeft(otra, <<primera>>, Rango(inicial + 1, final))

(* Past the blocks of the file the pointer that is read is a zero, that is *)
(* block 0, or bytes that are no pointer: those lead to x, any block, the  *)
(* same for all the copies of a write (the disk is not followed after it). *)
Destino(bloques, f, k, x) ==
  IF /\ k >= Tope(Cuantos(f), 1)
     /\ k > POR_BLOQUE \/ bloques[fcb[f].f_ip].clase = "datos"
    THEN x
    ELSE Resuelve(bloques, fcb[f], k)

(* A copy of no bytes, at the end of a write that ends where a block ends, *)
(* changes nothing.                                                        *)
Escrito(f, offset, cantidad, x) ==
  FoldLeft(LAMBDA bs, t : IF t.cant = 0 THEN bs
             ELSE [bs EXCEPT ![Destino(bs, f, t.bloque, x)] = Datos(f, t.bloque)],
           blocks_buffer, Copias(offset, cantidad))

Adentro(f, offset, cantidad) ==
  cantidad = 0 \/ offset + cantidad <= BLOCK_SIZE * Cuantos(f)

(* Inside the file no copy goes to x, so one will do.                      *)
Lejanos(f, offset, cantidad) ==
  IF Adentro(f, offset, cantidad) THEN {0} ELSE Bloques

(* ESCRIBIR_ARCHIVO.  Nobody looks at the size of the file.                *)
Escribir(f, offset, cantidad) ==
  /\ Usable(f)
  /\ \E x \in Lejanos(f, offset, cantidad) :
       blocks_buffer' = Escrito(f, offset, cantidad, x)
  /\ disco' = IF Adentro(f, offset, cantidad) THEN disco ELSE "afuera"
  /\ UNCHANGED <<bitmap, fcb>>

(* The whole of bloques.dat is emptied and written again; a stop before    *)
(* the fclose leaves the first n blocks, and the next start reads zeros    *)
(* for the rest.                                                           *)
CorteEscribir(f, offset, cantidad) ==
  /\ Usable(f)
  /\ \E x \in Lejanos(f, offset, cantidad), n \in Bloques :
       blocks_buffer' = [b \in Bloques |->
         IF b < n THEN Escrito(f, offset, cantidad, x)[b] ELSE Ceros]
  /\ disco' = "vaciado"
  /\ UNCHANGED <<bitmap, fcb>>

Next ==
  \E f \in ARCHIVOS :
    \/ Crear(f) \/ CorteCrear(f)
    \/ \E n \in TAMANIOS : Truncar(f, n) \/ CorteTruncar(f, n) \/ CorteFcb(f, n)
    \/ \E offset, cantidad \in POSICIONES :
         Escribir(f, offset, cantidad) \/ CorteEscribir(f, offset, cantidad)

Spec == Init /\ [][Next]_vars

-----------------------------------------------------------------------------
(* The type invariant of the bitmap, the blocks and the FCBs.              *)
TypeOK ==
  /\ bitmap \subseteq Bloques
  /\ \A b \in Bloques :
       blocks_buffer[b].clase \in {"ceros", "datos", "punteros"}
  /\ DOMAIN fcb \subseteq ARCHIVOS
  /\ \A f \in DOMAIN fcb : /\ fcb[f].f_size \in TAMANIOS \union {0}
                           /\ fcb[f].f_dp \in Bloques /\ fcb[f].f_ip \in Bloques
  /\ disco \in {"exacto", "pierde"} \union Finales

(* truncar_archivo, after growths and shrinkings of all the files through  *)
(* any sizes, one block included, leaves every block in one of two states: *)
(* free, or occupied and referred to exactly once.  No block is shared and *)
(* none is lost, unless a truncation was stopped, found no block, took a   *)
(* second indirect block (core.c:83-86) or forgot that it was block 0.     *)
BloquesExactos ==
  disco = "exacto" =>
    /\ bitmap = {Referido(r) : r \in TodasReferencias}
    /\ Cardinality(bitmap) = Cardinality(TodasReferencias)

(* core.c:57-96, 143: the bitmap goes before the pointers and the pointers *)
(* before the FCB, so stops inside growths only lose blocks, as does the   *)
(* second indirect block of a file: what a file refers to is occupied, by  *)
(* it alone, and what is free holds zeros, ready for the next file.        *)
CortesSoloPierden ==
  Entero =>
    /\ {Referido(r) : r \in TodasReferencias} \subseteq bitmap
    /\ \A r, t \in TodasReferencias : Referido(r) = Referido(t) => r = t
    /\ \A b \in Bloques \ bitmap : blocks_buffer[b] = Ceros

(* eferrait and eferrid on any file as truncations and writes have left    *)
(* it: each copy stays inside one block of the file, and all of them carry *)
(* byte j of the data to or from the place in the blocks of byte           *)
(* offset + j of the file, each byte once and no other byte.               *)
CopiasCorrectas ==
  Entero => \A f \in DOMAIN fcb : \A offset, cantidad \in POSICIONES :
    offset + cantidad <= fcb[f].f_size =>
      LET c == Copias(offset, cantidad)
          lleva(t) == {<<t.pos + j, BLOCK_SIZE * DeDatos(f)[t.bloque]
                                      + t.desde + j>> : j \in 0..(t.cant - 1)}
          lugar(n) == BLOCK_SIZE * DeDatos(f)[n \div BLOCK_SIZE]
                        + (n % BLOCK_SIZE)
      IN  /\ \A i \in DOMAIN c : c[i].cant > 0 =>
               /\ c[i].bloque \in DOMAIN DeDatos(f)
               /\ c[i].desde + c[i].cant <= BLOCK_SIZE
          /\ UNION {lleva(c[i]) : i \in DOMAIN c}
               = {<<j, lugar(offset + j)>> : j \in 0..(cantidad - 1)}
          /\ FoldLeft(LAMBDA n, t : n + t.cant, 0, c) = cantidad

(* filesystem/include/utils.h: f_dp is the "Puntero directo al primer      *)
(* bloque de datos del archivo".  A file that has data has its first block *)
(* occupied, and it is nobody else's.                                      *)
DirectoPropio ==
  disco \in {"exacto", "cero"} => \A f \in DOMAIN fcb : fcb[f].f_size > 0 =>
    /\ fcb[f].f_dp \in bitmap
    /\ \A g \in DOMAIN fcb \ {f} :
         fcb[g].f_size > 0 => fcb[g].f_dp # fcb[f].f_dp

(* What a program finds in position k of a file.                           *)
Estado(f, k) ==
  CASE blocks_buffer[DeDatos(f)[k]] = Ceros       -> "ceros"
    [] blocks_buffer[DeDatos(f)[k]] = Datos(f, k) -> "escrito"
    [] OTHER                                      -> "ajeno"

Contenido(f) == [i \in 1..Cuantos(f) |-> Estado(f, i - 1)]
Archivos == [f \in DOMAIN fcb |-> Contenido(f)]

(* core.c:117, 143, 153-222, utils.c:199: a request, one that is stopped   *)
(* after any of its writes and one that runs out of blocks included,       *)
(* changes the file it was asked for and no other; the only ways of        *)
(* touching another are to empty a file of one block that never had an     *)
(* indirect one, to write past the end of a file, and to be stopped while  *)
(* the whole of bloques.dat is written again.                              *)
SoloElArchivo ==
  [][disco' \notin {"cero", "afuera", "vaciado"} =>
       \E f \in ARCHIVOS : \A g \in DOMAIN fcb \ {f} :
         g \in DOMAIN fcb' /\ Contenido(g)' = Contenido(g)]_vars

Abstractos == INSTANCE ArchivosAbstractos WITH
  LARGOS <- {CalcularBloques(n) : n \in TAMANIOS},
  archivos <- Archivos

(* Blocks, pointers and FCBs implement files: what is in position k of a   *)
(* file is what was last written in position k of that file, and zeros     *)
(* where nothing has been written since the file grew; a growth that was   *)
(* stopped has not happened.  It is so until one of Finales.               *)
ImplementaArchivos ==
  Abstractos!Init /\ [][Entero' => Abstractos!Next]_Archivos
=============================================================================
