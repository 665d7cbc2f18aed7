------------------------ MODULE SistemaArchivosPruebas ------------------------
(***************************************************************************)
(* Theorems about the filesystem: truncations neither share nor lose a     *)
(* block, but for the ways the specification names; stops inside growths   *)
(* only lose blocks; and blocks, pointers and FCBs implement files.        *)
(***************************************************************************)
EXTENDS SistemaArchivos, SecuenciasPruebas

(* The superbloque of the repository has blocks of 64 bytes: pointers fit  *)
(* whole in a block.                                                       *)
PunterosEnteros == BLOCK_SIZE % 4 = 0

Paginas == [0..(POR_BLOQUE - 1) -> Bloques]
Contenidos == {Ceros} \union {Datos(f, k) : f \in ARCHIVOS, k \in Nat}
                \union {Punteros(p) : p \in Paginas}
Buffers == [Bloques -> Contenidos]
Imagen(mapa, bloques) == [mapa |-> mapa, bloques |-> bloques]
Imagenes == [mapa : SUBSET Bloques, bloques : Buffers]
Estados == [mapa : SUBSET Bloques, bloques : Buffers, f_dp : Bloques,
            f_ip : Bloques, alcanza : BOOLEAN, escrito : SUBSET Imagenes]

-----------------------------------------------------------------------------

(* The quotient and the rest of a division give the number back.           *)
LEMMA Division ==
  ASSUME NEW b \in Nat \ {0}, NEW a \in Nat
  PROVE  /\ a \div b \in Nat /\ a % b \in 0..(b - 1)
         /\ a = b * (a \div b) + (a % b)
OBVIOUS

(* Products by the size of a block are at least a block apart.             *)
LEMMA Productos ==
  ASSUME NEW b \in Nat \ {0}, NEW p \in Int, NEW q \in Int, p < q
  PROVE  b * p \in Int /\ b * q \in Int /\ b * p + b <= b * q
<1>1. PICK d \in Nat : q = p + 1 + d
  <2>1. q - p - 1 \in Nat /\ q = p + 1 + (q - p - 1)
    OBVIOUS
  <2> QED BY <2>1
<1>2. b * q = b * p + b + b * d /\ b * d \in Nat /\ b * p \in Int
  BY <1>1
<1> QED BY <1>2

(* calcular_bloques_por_size: no block only for no byte, and more bytes    *)
(* never need fewer blocks.                                                *)
LEMMA CantidadDe ==
  ASSUME NEW n \in Nat
  PROVE  /\ CalcularBloques(n) \in Nat
         /\ CalcularBloques(n) = 0 <=> n = 0
         /\ n \div BLOCK_SIZE \in 0..CalcularBloques(n)
<1>1. /\ BLOCK_SIZE \in Nat \ {0} /\ n \div BLOCK_SIZE \in Nat
      /\ n % BLOCK_SIZE \in 0..(BLOCK_SIZE - 1)
      /\ n = BLOCK_SIZE * (n \div BLOCK_SIZE) + (n % BLOCK_SIZE)
  BY SupuestoArchivos, Division
<1> DEFINE q == n \div BLOCK_SIZE
           r == n % BLOCK_SIZE
<1>2. q \in Nat /\ r \in Nat /\ n = BLOCK_SIZE * q + r
  BY <1>1
<1>3. CalcularBloques(n) = q + (IF r # 0 THEN 1 ELSE 0)
  BY DEF CalcularBloques
<1> HIDE DEF q, r
<1>4. n = 0 => q = 0 /\ r = 0
  <2> SUFFICES ASSUME n = 0 PROVE q = 0 /\ r = 0
    OBVIOUS
  <2>1. CASE q = 0
    BY <1>1, <1>2, <2>1
  <2>2. CASE 0 < q
    <3>1. BLOCK_SIZE * 0 + BLOCK_SIZE <= BLOCK_SIZE * q /\ BLOCK_SIZE * q \in Int
      BY <1>1, <1>2, <2>2, Productos
    <3> QED BY <1>1, <1>2, <3>1
  <2> QED BY <1>2, <2>1, <2>2
<1>5. q = 0 /\ r = 0 => n = 0
  BY <1>1, <1>2
<1> QED BY <1>2, <1>3, <1>4, <1>5 DEF q

(* More bytes never need fewer blocks.                                     *)
LEMMA CantidadCrece ==
  ASSUME NEW a \in Nat, NEW b \in Nat, a <= b
  PROVE  CalcularBloques(a) <= CalcularBloques(b)
<1>1. /\ BLOCK_SIZE \in Nat \ {0}
      /\ a \div BLOCK_SIZE \in Nat /\ a % BLOCK_SIZE \in 0..(BLOCK_SIZE - 1)
      /\ a = BLOCK_SIZE * (a \div BLOCK_SIZE) + (a % BLOCK_SIZE)
      /\ b \div BLOCK_SIZE \in Nat /\ b % BLOCK_SIZE \in 0..(BLOCK_SIZE - 1)
      /\ b = BLOCK_SIZE * (b \div BLOCK_SIZE) + (b % BLOCK_SIZE)
  BY SupuestoArchivos, Division
<1> DEFINE p == a \div BLOCK_SIZE
           r == a % BLOCK_SIZE
           q == b \div BLOCK_SIZE
           s == b % BLOCK_SIZE
<1>2. /\ p \in Nat /\ q \in Nat /\ r \in 0..(BLOCK_SIZE - 1)
      /\ s \in 0..(BLOCK_SIZE - 1)
      /\ a = BLOCK_SIZE * p + r /\ b = BLOCK_SIZE * q + s
  BY <1>1
<1>3. /\ CalcularBloques(a) = p + (IF r # 0 THEN 1 ELSE 0)
      /\ CalcularBloques(b) = q + (IF s # 0 THEN 1 ELSE 0)
  BY DEF CalcularBloques
<1> HIDE DEF p, q, r, s
<1>4. CASE q < p
  <2>1. BLOCK_SIZE * q + BLOCK_SIZE <= BLOCK_SIZE * p
        /\ BLOCK_SIZE * p \in Int /\ BLOCK_SIZE * q \in Int
    BY <1>1, <1>2, <1>4, Productos
  <2> QED BY <1>1, <1>2, <2>1
<1>5. CASE p < q
  BY <1>2, <1>3, <1>5
<1>6. CASE p = q
  <2>1. r <= s
    <3>1. BLOCK_SIZE * p \in Int
      BY <1>1, <1>2
    <3> QED BY <1>1, <1>2, <1>6, <3>1
  <2> QED BY <1>2, <1>3, <1>6, <2>1
<1> QED BY <1>2, <1>4, <1>5, <1>6

(* The test of asignar_bloque_al_bloque_indirecto is whether the pointer   *)
(* fits in the block.                                                      *)
LEMMA CabePuntero ==
  ASSUME PunterosEnteros, NEW n \in Nat
  PROVE  POR_BLOQUE \in Nat /\ (4 * n + 1 >= BLOCK_SIZE <=> n >= POR_BLOQUE)
<1>1. BLOCK_SIZE \in Nat /\ BLOCK_SIZE = 4 * (BLOCK_SIZE \div 4)
      /\ BLOCK_SIZE \div 4 \in Nat
  BY SupuestoArchivos DEF PunterosEnteros
<1> QED BY <1>1 DEF POR_BLOQUE

-----------------------------------------------------------------------------

(* What a block can be read as.                                            *)
LEMMA TiposDeBloque ==
  ASSUME TRUE
  PROVE  /\ 0 \in Bloques /\ Ceros \in Contenidos
         /\ \A c \in Contenidos : Leidos(c) \in Paginas
         /\ \A p \in Paginas : /\ Punteros(p) \in Contenidos
                               /\ Leidos(Punteros(p)) = p
         /\ \A f \in ARCHIVOS, k \in Nat : /\ Datos(f, k) \in Contenidos
                                           /\ Datos(f, k) # Ceros
<1>1. 0 \in Bloques
  BY SupuestoArchivos DEF Bloques
<1>2. ASSUME NEW c \in Contenidos PROVE Leidos(c) \in Paginas
  BY <1>1, <1>2 DEF Contenidos, Leidos, Paginas, Ceros, Datos, Punteros
<1>3. ASSUME NEW p \in Paginas PROVE Leidos(Punteros(p)) = p
  BY DEF Leidos, Punteros
<1>4. ASSUME NEW f \in ARCHIVOS, NEW k \in Nat PROVE Datos(f, k) # Ceros
  BY DEF Datos, Ceros
<1> QED BY <1>1, <1>2, <1>3, <1>4 DEF Contenidos

-----------------------------------------------------------------------------
(* The functions of utils.c, one lemma for each: what changes, and the     *)
(* images that go to the disk.  r is m with an image more.                 *)
Deja(m, r, mapa, bloques) ==
  /\ r.mapa = mapa /\ r.bloques = bloques
  /\ r.escrito = m.escrito \union {Imagen(mapa, bloques)}
  /\ r.f_dp = m.f_dp /\ r.f_ip = m.f_ip /\ r.alcanza = m.alcanza

(* A write to bitmap.dat or bloques.dat.                                   *)
LEMMA EscribeEs ==
  ASSUME NEW m \in Estados, NEW mapa \in SUBSET Bloques, NEW bloques \in Buffers
  PROVE  /\ Escribe(m, mapa, bloques) \in Estados
         /\ Deja(m, Escribe(m, mapa, bloques), mapa, bloques)
<1>1. m.escrito \union {Imagen(mapa, bloques)} \in SUBSET Imagenes
  BY DEF Estados, Imagenes, Imagen
<1> QED BY <1>1 DEF Escribe, Deja, Estados, Imagen

(* ocupar_bloque.                                                          *)
LEMMA OcuparEs ==
  ASSUME NEW m \in Estados, NEW b \in Bloques
  PROVE  /\ Ocupar(m, b) \in Estados
         /\ Deja(m, Ocupar(m, b), m.mapa \union {b}, m.bloques)
<1>1. m.mapa \union {b} \in SUBSET Bloques /\ m.bloques \in Buffers
  BY DEF Estados
<1> QED BY ONLY <1>1, EscribeEs DEF Ocupar

(* modificar_bloque.                                                       *)
LEMMA ModificarEs ==
  ASSUME NEW m \in Estados, NEW b \in Bloques, NEW c \in Contenidos
  PROVE  /\ Modificar(m, b, c) \in Estados
         /\ Deja(m, Modificar(m, b, c), m.mapa, [m.bloques EXCEPT ![b] = c])
<1>1. PICK bs : bs = [m.bloques EXCEPT ![b] = c]
  OBVIOUS
<1>2. m.mapa \in SUBSET Bloques /\ bs \in Buffers
  BY <1>1 DEF Estados, Buffers
<1>3. Modificar(m, b, c) = Escribe(m, m.mapa, bs)
  BY <1>1 DEF Modificar
<1>4. /\ Modificar(m, b, c) \in Estados
      /\ Deja(m, Modificar(m, b, c), m.mapa, bs)
  BY <1>2, <1>3, EscribeEs
<1> QED BY <1>1, <1>4

(* desocupar_bloque: the bit first, then the contents.                     *)
LEMMA DesocuparEs ==
  ASSUME NEW m \in Estados, NEW b \in Bloques
  PROVE  LET mapa == m.mapa \ {b}
             bloques == [m.bloques EXCEPT ![b] = Ceros]
         IN  /\ Desocupar(m, b) \in Estados
             /\ \E s \in Estados : /\ Deja(m, s, mapa, m.bloques)
                                   /\ Deja(s, Desocupar(m, b), mapa, bloques)
<1>1. PICK s : s = Escribe(m, m.mapa \ {b}, m.bloques)
  OBVIOUS
<1>2. m.mapa \ {b} \in SUBSET Bloques /\ m.bloques \in Buffers
  BY DEF Estados
<1>3. s \in Estados /\ Deja(m, s, m.mapa \ {b}, m.bloques)
  BY <1>1, <1>2, EscribeEs
<1>4. Desocupar(m, b) = Modificar(s, b, Ceros) /\ Ceros \in Contenidos
  BY <1>1, TiposDeBloque DEF Desocupar
<1>5. /\ Desocupar(m, b) \in Estados
      /\ Deja(s, Desocupar(m, b), s.mapa, [s.bloques EXCEPT ![b] = Ceros])
  BY <1>3, <1>4, ModificarEs
<1>6. s.mapa = m.mapa \ {b} /\ s.bloques = m.bloques
  BY <1>3 DEF Deja
<1> QED BY <1>3, <1>5, <1>6

(* encontrar_bloque_libre finds one when there is one.                     *)
LEMMA LibreEs ==
  ASSUME NEW m \in Estados, Libres(m) # {}
  PROVE  BloqueLibre(m) \in Libres(m) /\ BloqueLibre(m) \in Bloques
<1>1. Libres(m) \in SUBSET Nat
  BY SupuestoArchivos DEF Libres, Bloques
<1>2. PICK b \in Libres(m) : \A c \in Libres(m) : b <= c
  BY <1>1, Minimo
<1>3. BloqueLibre(m) \in Libres(m)
  BY <1>2 DEF BloqueLibre
<1> QED BY <1>3 DEF Libres

(* Without a free block nothing happens, and the model notes it.           *)
SinBloque(m, r) ==
  /\ r.mapa = m.mapa /\ r.bloques = m.bloques /\ r.escrito = m.escrito
  /\ r.f_dp = m.f_dp /\ r.f_ip = m.f_ip /\ r.alcanza = FALSE

(* Its result is a state.                                                  *)
LEMMA SinAsignarEs ==
  ASSUME NEW m \in Estados, NEW r, r = SinAsignar(m)
  PROVE  r \in Estados /\ SinBloque(m, r)
BY DEF SinAsignar, SinBloque, Estados

(* asignar_bloque_directo.                                                 *)
LEMMA AsignarDirectoEs ==
  ASSUME NEW m \in Estados, NEW r, r = AsignarDirecto(m)
  PROVE  /\ r \in Estados
         /\ \/ Libres(m) = {} /\ SinBloque(m, r)
            \/ /\ r.f_dp \in Bloques \ m.mapa
               /\ r.mapa = m.mapa \union {r.f_dp} /\ r.bloques = m.bloques
               /\ r.f_ip = m.f_ip /\ r.alcanza = m.alcanza
               /\ r.escrito = m.escrito \union {Imagen(r.mapa, m.bloques)}
<1>1. CASE Libres(m) = {}
  BY <1>1, SinAsignarEs DEF AsignarDirecto
<1>2. CASE Libres(m) # {}
  <2>1. PICK b : b = BloqueLibre(m)
    OBVIOUS
  <2>2. b \in Bloques \ m.mapa
    BY <1>2, <2>1, LibreEs DEF Libres
  <2>3. PICK s : s = Ocupar(m, b)
    OBVIOUS
  <2>4. s \in Estados /\ Deja(m, s, m.mapa \union {b}, m.bloques)
    BY <2>2, <2>3, OcuparEs
  <2>5. r = [s EXCEPT !.f_dp = b]
    BY <1>2, <2>1, <2>3 DEF AsignarDirecto
  <2>6. /\ r \in Estados /\ r.mapa = s.mapa /\ r.bloques = s.bloques
        /\ r.f_dp = b /\ r.f_ip = s.f_ip /\ r.alcanza = s.alcanza
        /\ r.escrito = s.escrito
    BY <2>2, <2>4, <2>5 DEF Estados
  <2> QED BY <2>2, <2>4, <2>6 DEF Deja
<1> QED BY <1>1, <1>2

(* asignar_bloque_indirecto.                                               *)
LEMMA AsignarIndirectoEs ==
  ASSUME NEW m \in Estados, NEW r, r = AsignarIndirecto(m)
  PROVE  /\ r \in Estados
         /\ \/ Libres(m) = {} /\ SinBloque(m, r)
            \/ /\ r.f_ip \in Bloques \ m.mapa
               /\ r.mapa = m.mapa \union {r.f_ip} /\ r.bloques = m.bloques
               /\ r.f_dp = m.f_dp /\ r.alcanza = m.alcanza
               /\ r.escrito = m.escrito \union {Imagen(r.mapa, m.bloques)}
<1>1. CASE Libres(m) = {}
  BY <1>1, SinAsignarEs DEF AsignarIndirecto
<1>2. CASE Libres(m) # {}
  <2>1. PICK b : b = BloqueLibre(m)
    OBVIOUS
  <2>2. b \in Bloques \ m.mapa
    BY <1>2, <2>1, LibreEs DEF Libres
  <2>3. PICK s : s = Ocupar(m, b)
    OBVIOUS
  <2>4. s \in Estados /\ Deja(m, s, m.mapa \union {b}, m.bloques)
    BY <2>2, <2>3, OcuparEs
  <2>5. r = [s EXCEPT !.f_ip = b]
    BY <1>2, <2>1, <2>3 DEF AsignarIndirecto
  <2>6. /\ r \in Estados /\ r.mapa = s.mapa /\ r.bloques = s.bloques
        /\ r.f_ip = b /\ r.f_dp = s.f_dp /\ r.alcanza = s.alcanza
        /\ r.escrito = s.escrito
    BY <2>2, <2>4, <2>5 DEF Estados
  <2> QED BY <2>2, <2>4, <2>6 DEF Deja
<1> QED BY <1>1, <1>2

(* The block m.f_ip with b as its pointer n.                               *)
ConElPuntero(m, n, b) ==
  [m.bloques EXCEPT ![m.f_ip] =
     Punteros([Leidos(m.bloques[m.f_ip]) EXCEPT ![n] = b])]

(* asignar_bloque_al_bloque_indirecto: the bit first, then the pointer.    *)
LEMMA AsignarAlIndirectoEs ==
  ASSUME PunterosEnteros, NEW m \in Estados, NEW n \in Nat,
         NEW r, r = AsignarAlIndirecto(m, n)
  PROVE  /\ r \in Estados
         /\ \/ (Libres(m) = {} \/ n >= POR_BLOQUE) /\ SinBloque(m, r)
            \/ /\ n < POR_BLOQUE
               /\ \E b \in Bloques \ m.mapa, s \in Estados :
                    /\ Deja(m, s, m.mapa \union {b}, m.bloques)
                    /\ Deja(s, r, m.mapa \union {b}, ConElPuntero(m, n, b))
<1>0. POR_BLOQUE \in Nat /\ (4 * n + 1 >= BLOCK_SIZE <=> n >= POR_BLOQUE)
  BY CabePuntero
<1>1. CASE Libres(m) = {} \/ n >= POR_BLOQUE
  BY <1>0, <1>1, SinAsignarEs DEF AsignarAlIndirecto
<1>2. CASE Libres(m) # {} /\ n < POR_BLOQUE
  <2>1. PICK b : b = BloqueLibre(m)
    OBVIOUS
  <2>2. b \in Bloques \ m.mapa
    BY <1>2, <2>1, LibreEs DEF Libres
  <2>3. PICK s : s = Ocupar(m, b)
    OBVIOUS
  <2>4. s \in Estados /\ Deja(m, s, m.mapa \union {b}, m.bloques)
    BY <2>2, <2>3, OcuparEs
  <2>5. PICK c : c = Punteros([Leidos(m.bloques[m.f_ip]) EXCEPT ![n] = b])
    OBVIOUS
  <2>6. r = Modificar(s, m.f_ip, c)
    <3>1. ~(4 * n + 1 >= BLOCK_SIZE)
      BY <1>0, <1>2
    <3> QED BY <1>2, <2>1, <2>3, <2>5, <3>1 DEF AsignarAlIndirecto, ConPuntero
  <2>7. m.f_ip \in Bloques /\ c \in Contenidos
    <3>1. m.f_ip \in Bloques /\ m.bloques[m.f_ip] \in Contenidos
      BY DEF Estados, Buffers
    <3>2. Leidos(m.bloques[m.f_ip]) \in Paginas
      BY <3>1, TiposDeBloque
    <3>3. [Leidos(m.bloques[m.f_ip]) EXCEPT ![n] = b] \in Paginas
      BY <2>2, <3>2 DEF Paginas
    <3> QED BY <2>5, <3>1, <3>3, TiposDeBloque
  <2>8. /\ r \in Estados
        /\ Deja(s, r, s.mapa, [s.bloques EXCEPT ![m.f_ip] = c])
    <3>1. PICK ip : ip = m.f_ip
      OBVIOUS
    <3>2. s \in Estados /\ ip \in Bloques /\ c \in Contenidos
      BY <2>4, <2>7, <3>1
    <3>3. /\ Modificar(s, ip, c) \in Estados
          /\ Deja(s, Modificar(s, ip, c), s.mapa, [s.bloques EXCEPT ![ip] = c])
      BY ONLY <3>2, ModificarEs
    <3>4. r = Modificar(s, ip, c)
      BY ONLY <2>6, <3>1
    <3>5. r \in Estados /\ Deja(s, r, s.mapa, [s.bloques EXCEPT ![ip] = c])
      BY ONLY <3>3, <3>4
    <3>6. Deja(s, r, s.mapa, [s.bloques EXCEPT ![m.f_ip] = c])
      BY ONLY <3>1, <3>5, Zenon
    <3> QED BY ONLY <3>5, <3>6, Zenon
  <2>9. s.mapa = m.mapa \union {b} /\ s.bloques = m.bloques
    BY <2>4 DEF Deja
  <2>10. Deja(s, r, m.mapa \union {b}, ConElPuntero(m, n, b))
    BY <2>5, <2>8, <2>9 DEF ConElPuntero
  <2>11. PICK bs : bs = ConElPuntero(m, n, b)
    OBVIOUS
  <2>12. r \in Estados /\ Deja(s, r, m.mapa \union {b}, bs)
    BY ONLY <2>8, <2>10, <2>11
  <2>13. \E a \in Bloques \ m.mapa, t \in Estados :
            /\ Deja(m, t, m.mapa \union {a}, m.bloques)
            /\ Deja(t, r, m.mapa \union {a}, ConElPuntero(m, n, a))
    BY ONLY <2>2, <2>4, <2>11, <2>12
  <2> QED BY ONLY <1>2, <2>12, <2>13, Zenon
<1>3. (Libres(m) = {} \/ n >= POR_BLOQUE) \/ (Libres(m) # {} /\ n < POR_BLOQUE)
  BY <1>0
<1> QED BY ONLY <1>1, <1>2, <1>3, Zenon

(* remover_puntero_de_bloque_indirecto keeps the pointers before n.        *)
LEMMA RemoverEs ==
  ASSUME NEW m \in Estados, NEW n \in Nat, NEW r, r = RemoverPuntero(m, n)
  PROVE  /\ r \in Estados /\ Deja(m, r, m.mapa, r.bloques)
         /\ \A b \in Bloques \ {m.f_ip} : r.bloques[b] = m.bloques[b]
         /\ \A i \in 0..(POR_BLOQUE - 1) : i < n =>
              Leidos(r.bloques[m.f_ip])[i] = Leidos(m.bloques[m.f_ip])[i]
<1>1. m.f_ip \in Bloques /\ m.bloques[m.f_ip] \in Contenidos
      /\ m.bloques \in Buffers
  BY DEF Estados, Buffers
<1>2. PICK p : p = Leidos(m.bloques[m.f_ip])
  OBVIOUS
<1>3. p \in Paginas /\ 0 \in Bloques
  BY <1>1, <1>2, TiposDeBloque
<1>4. PICK q : q = [i \in DOMAIN p |-> IF i < n THEN p[i] ELSE 0]
  OBVIOUS
<1>5. q \in Paginas /\ \A i \in 0..(POR_BLOQUE - 1) : i < n => q[i] = p[i]
  BY <1>3, <1>4 DEF Paginas
<1>6. Punteros(q) \in Contenidos /\ Leidos(Punteros(q)) = q
  BY <1>5, TiposDeBloque
<1>7. r = Modificar(m, m.f_ip, Punteros(q))
  BY <1>2, <1>4 DEF RemoverPuntero
<1>8. /\ r \in Estados
      /\ Deja(m, r, m.mapa, [m.bloques EXCEPT ![m.f_ip] = Punteros(q)])
  BY <1>1, <1>6, <1>7, ModificarEs
<1>9. r.bloques = [m.bloques EXCEPT ![m.f_ip] = Punteros(q)]
  BY <1>8 DEF Deja
<1>10. r.bloques[m.f_ip] = Punteros(q)
       /\ \A b \in Bloques \ {m.f_ip} : r.bloques[b] = m.bloques[b]
  BY <1>1, <1>9 DEF Buffers
<1> QED BY <1>2, <1>5, <1>6, <1>8, <1>9, <1>10

-----------------------------------------------------------------------------
(* Where position k of a file is, with -1 for its indirect block.          *)
Lugar(bloques, c, k) == IF k = -1 THEN c.f_ip ELSE Resuelve(bloques, c, k)
En(m, k) == Lugar(m.bloques, m, k)

(* The positions of a file of n blocks whose FCB says ip, and those of a   *)
(* file of a blocks that a growth keeps: not the indirect block of a file  *)
(* of one.                                                                 *)
Posiciones(n, ip) == {k \in -1..(n - 1) : k >= 0 \/ n > 1 \/ ip # 0}
Quedan(a) == {k \in -1..(a - 1) : k >= 0 \/ a > 1}

Limpios(mapa, bloques) == \A b \in Bloques \ mapa : bloques[b] = Ceros

(* Growth from d, of a file of a blocks.  An image on the disk has lost no *)
(* block, and changed none but the pointers the file does not use yet.     *)
Quietos(d, a, bloques) ==
  \A b \in d.mapa : (a <= 1 \/ b # d.f_ip) => bloques[b] = d.bloques[b]
ImagenDeCrecer(d, a, e) ==
  /\ d.mapa \subseteq e.mapa /\ Limpios(e.mapa, e.bloques)
  /\ Quietos(d, a, e.bloques)
  /\ \A k \in 0..(a - 1) : Lugar(e.bloques, d, k) = En(d, k)

(* What growing keeps whether it finds all the blocks or not.              *)
Crece(d, a, m) ==
  /\ m \in Estados /\ d.mapa \subseteq m.mapa /\ Quietos(d, a, m.bloques)
  /\ \A e \in m.escrito : ImagenDeCrecer(d, a, e)

(* With c blocks and the indirect one: all in use, each in one place, the  *)
(* old ones where they were and the new ones clean and taken from no one.  *)
Tiene(d, a, m, c) ==
  /\ c <= POR_BLOQUE + 1
  /\ \A k \in -1..(c - 1) :
       En(m, k) \in m.mapa /\ (k \notin Quedan(a) => En(m, k) \notin d.mapa)
  /\ \A k \in Quedan(a) : En(m, k) = En(d, k)
  /\ \A k, j \in -1..(c - 1) : En(m, k) = En(m, j) => k = j
  /\ \A k \in 0..(c - 1) : k >= a => m.bloques[En(m, k)] = Ceros
  /\ \A b \in m.mapa \ d.mapa : \E k \in -1..(c - 1) : b = En(m, k)
  /\ Limpios(m.mapa, m.bloques)

(* Once a block is not found, none is looked for with success.             *)
Lleno(m, c) == Libres(m) = {} \/ c - 1 >= POR_BLOQUE
Creciendo(d, a, m, c) ==
  /\ Crece(d, a, m)
  /\ IF m.alcanza THEN Tiene(d, a, m, c) ELSE Lleno(m, c)

(* Where a growth starts.                                                  *)
AntesDeCrecer(d, a) ==
  /\ d \in Estados /\ d.alcanza /\ d.escrito = {} /\ Limpios(d.mapa, d.bloques)
  /\ a \in Nat /\ a <= POR_BLOQUE + 1
  /\ \A k \in Quedan(a) : En(d, k) \in d.mapa
  /\ \A k, j \in Quedan(a) : En(d, k) = En(d, j) => k = j

(* Those positions, case by case.                                          *)
LEMMA QuedanEs ==
  ASSUME NEW a \in Nat
  PROVE  /\ a = 0 => Quedan(a) = {}
         /\ a = 1 => Quedan(a) = {0}
         /\ a > 1 => Quedan(a) = -1..(a - 1)
         /\ \A k : k \in Quedan(a) => k \in -1..(a - 1)
         /\ \A k \in 0..(a - 1) : k \in Quedan(a)
BY DEF Quedan

(* A pointer more leaves the positions before it where they were.          *)
LEMMA PunteroMas ==
  ASSUME NEW m \in Estados, NEW n \in 0..(POR_BLOQUE - 1), NEW b \in Bloques,
         POR_BLOQUE \in Nat, NEW bs, bs = ConElPuntero(m, n, b)
  PROVE  /\ \A x \in Bloques \ {m.f_ip} : bs[x] = m.bloques[x]
         /\ \A k \in 0..n : Lugar(bs, m, k) = En(m, k)
         /\ Lugar(bs, m, n + 1) = b
<1>1. m.f_ip \in Bloques /\ m.bloques[m.f_ip] \in Contenidos
      /\ m.bloques \in Buffers
  BY DEF Estados, Buffers
<1>2. PICK p : p = Leidos(m.bloques[m.f_ip])
  OBVIOUS
<1>3. p \in Paginas
  BY <1>1, <1>2, TiposDeBloque
<1>4. PICK q : q = [p EXCEPT ![n] = b]
  OBVIOUS
<1>5. q \in Paginas /\ q[n] = b /\ \A i \in 0..(POR_BLOQUE - 1) : i # n => q[i] = p[i]
  BY <1>3, <1>4 DEF Paginas
<1>6. Leidos(Punteros(q)) = q
  BY <1>5, TiposDeBloque
<1>7. bs = [m.bloques EXCEPT ![m.f_ip] = Punteros(q)]
  BY <1>2, <1>4 DEF ConElPuntero
<1>8. bs[m.f_ip] = Punteros(q)
      /\ \A x \in Bloques \ {m.f_ip} : bs[x] = m.bloques[x]
  BY <1>1, <1>7 DEF Buffers
<1>9. ASSUME NEW k \in 0..n
      PROVE  Lugar(bs, m, k) = En(m, k)
  <2>1. CASE k = 0
    BY <2>1 DEF Lugar, En, Resuelve
  <2>2. CASE k # 0
    <3>1. k - 1 \in 0..(POR_BLOQUE - 1) /\ k - 1 # n /\ k # -1
      BY <2>2
    <3> QED BY <1>2, <1>5, <1>6, <1>8, <2>2, <3>1 DEF Lugar, En, Resuelve
  <2> QED BY <2>1, <2>2
<1>10. Lugar(bs, m, n + 1) = b
  <2>1. n + 1 # -1 /\ n + 1 # 0 /\ n + 1 - 1 = n
    OBVIOUS
  <2> QED BY <1>5, <1>6, <1>8, <2>1 DEF Lugar, Resuelve
<1> QED BY <1>8, <1>9, <1>10

(* A growth starts with nothing done.                                      *)
LEMMA NadaCrecido ==
  ASSUME NEW d, NEW a, AntesDeCrecer(d, a), a > 1
  PROVE  Creciendo(d, a, d, a)
<1>0. a \in Nat
  BY DEF AntesDeCrecer
<1>1. Crece(d, a, d)
  BY DEF AntesDeCrecer, Crece, Quietos
<1>2. Tiene(d, a, d, a)
  <2>1. Quedan(a) = -1..(a - 1)
    BY <1>0, QuedanEs
  <2>2. \A k \in 0..(a - 1) : ~(k >= a)
    BY <1>0
  <2> QED BY <2>1, <2>2 DEF AntesDeCrecer, Tiene
<1> QED BY <1>1, <1>2 DEF Creciendo, AntesDeCrecer

(* The indirect block of a file that had one block, a new one.             *)
LEMMA UnIndirecto ==
  ASSUME NEW d, AntesDeCrecer(d, 1), PunterosEnteros,
         NEW r, r = AsignarIndirecto(d)
  PROVE  Creciendo(d, 1, r, 1)
<1>1. /\ d \in Estados /\ d.alcanza /\ d.escrito = {} /\ Limpios(d.mapa, d.bloques)
      /\ POR_BLOQUE \in Nat /\ d.mapa \in SUBSET Bloques
      /\ Quedan(1) = {0} /\ En(d, 0) \in d.mapa
  <2>1. Quedan(1) = {0}
    BY QuedanEs
  <2> QED BY <2>1, CabePuntero DEF AntesDeCrecer, Estados
<1>2. r \in Estados
  BY <1>1, AsignarIndirectoEs
<1>3. CASE Libres(d) = {} /\ SinBloque(d, r)
  <2>1. Libres(r) = {} /\ ~r.alcanza
    BY <1>3 DEF SinBloque, Libres
  <2>2. Crece(d, 1, r)
    BY <1>1, <1>2, <1>3 DEF Crece, SinBloque, Quietos
  <2> QED BY <2>1, <2>2 DEF Creciendo, Lleno
<1>4. ASSUME /\ r.f_ip \in Bloques \ d.mapa
             /\ r.mapa = d.mapa \union {r.f_ip} /\ r.bloques = d.bloques
             /\ r.f_dp = d.f_dp /\ r.alcanza = d.alcanza
             /\ r.escrito = d.escrito \union {Imagen(r.mapa, d.bloques)}
      PROVE  Creciendo(d, 1, r, 1)
  <2>1. PICK g : g = Imagen(r.mapa, d.bloques)
    OBVIOUS
  <2>2. g.mapa = r.mapa /\ g.bloques = d.bloques
    BY <2>1 DEF Imagen
  <2>3. ImagenDeCrecer(d, 1, g)
    BY <1>1, <1>4, <2>2 DEF ImagenDeCrecer, Limpios, Quietos, En
  <2>4. \A i \in r.escrito : i = g
    BY <1>1, <1>4, <2>1
  <2>5. Crece(d, 1, r)
    BY <1>2, <1>4, <2>3, <2>4 DEF Crece, Quietos
  <2>6. /\ En(r, -1) = r.f_ip /\ En(r, 0) = r.f_dp /\ En(d, 0) = d.f_dp
        /\ \A k \in -1..0 : k = -1 \/ k = 0
        /\ 1 <= POR_BLOQUE + 1 /\ -1..(1 - 1) = -1..0 /\ 0..(1 - 1) = {0}
        /\ -1 \in -1..0 /\ ~(0 >= 1)
    BY <1>1 DEF En, Lugar, Resuelve
  <2>7. Limpios(r.mapa, r.bloques)
    BY <1>1, <1>4 DEF Limpios
  <2>8. r.f_ip # r.f_dp /\ r.f_ip \in r.mapa \ d.mapa /\ r.f_dp \in r.mapa
        /\ \A b \in r.mapa \ d.mapa : b = r.f_ip
    BY <1>1, <1>4, <2>6
  <2>9. Tiene(d, 1, r, 1)
    <3>1. \A k \in -1..0 : En(r, k) \in r.mapa
                            /\ (k \notin Quedan(1) => En(r, k) \notin d.mapa)
      BY <1>1, <2>6, <2>8
    <3>2. \A k, j \in -1..0 : En(r, k) = En(r, j) => k = j
      BY <2>6, <2>8
    <3>3. \A k \in Quedan(1) : En(r, k) = En(d, k)
      BY <1>1, <1>4, <2>6
    <3>4. \A b \in r.mapa \ d.mapa : \E k \in -1..0 : b = En(r, k)
      BY <2>6, <2>8
    <3> QED BY <2>6, <2>7, <3>1, <3>2, <3>3, <3>4 DEF Tiene
  <2>10. r.alcanza
    BY <1>1, <1>4
  <2> QED BY <2>5, <2>9, <2>10 DEF Creciendo
<1> QED BY <1>1, <1>3, <1>4, AsignarIndirectoEs

(* The first two blocks of a file that had none.                           *)
LEMMA PrimerosBloques ==
  ASSUME NEW d, AntesDeCrecer(d, 0), PunterosEnteros,
         NEW m, m = AsignarDirecto(d), NEW r, r = AsignarIndirecto(m)
  PROVE  Creciendo(d, 0, r, 1)
<1>0. d \in Estados /\ d.alcanza /\ d.escrito = {} /\ Limpios(d.mapa, d.bloques)
      /\ POR_BLOQUE \in Nat /\ d.mapa \in SUBSET Bloques
  BY CabePuntero DEF AntesDeCrecer, Estados
<1>1. m \in Estados
  BY <1>0, AsignarDirectoEs
<1>2. r \in Estados
  BY <1>1, AsignarIndirectoEs
<1>3. CASE Libres(d) = {} /\ SinBloque(d, m)
  <2>1. Libres(m) = {}
    BY <1>3 DEF Libres, SinBloque
  <2>2. SinBloque(m, r)
    <3>1. \/ Libres(m) = {} /\ SinBloque(m, r)
          \/ r.f_ip \in Bloques \ m.mapa
      BY <1>1, AsignarIndirectoEs
    <3> QED BY <2>1, <3>1 DEF Libres
  <2>3. Libres(r) = {} /\ ~r.alcanza
    BY <2>1, <2>2 DEF SinBloque, Libres
  <2>4. Crece(d, 0, r)
    BY <1>0, <1>2, <1>3, <2>2 DEF Crece, SinBloque, Quietos
  <2> QED BY <2>3, <2>4 DEF Creciendo, Lleno
<1>4. ASSUME /\ m.f_dp \in Bloques \ d.mapa
             /\ m.mapa = d.mapa \union {m.f_dp} /\ m.bloques = d.bloques
             /\ m.f_ip = d.f_ip /\ m.alcanza = d.alcanza
             /\ m.escrito = d.escrito \union {Imagen(m.mapa, d.bloques)}
      PROVE  Creciendo(d, 0, r, 1)
  <2>1. PICK e : e = Imagen(m.mapa, d.bloques)
    OBVIOUS
  <2>2. e.mapa = m.mapa /\ e.bloques = d.bloques
    BY <2>1 DEF Imagen
  <2>3. ImagenDeCrecer(d, 0, e)
    BY <1>0, <1>4, <2>2 DEF ImagenDeCrecer, Limpios, Quietos
  <2>4. \A i \in m.escrito : i = e
    BY <1>0, <1>4, <2>1
  <2>5. CASE Libres(m) = {} /\ SinBloque(m, r)
    <3>1. Libres(r) = {} /\ ~r.alcanza
      BY <2>5 DEF SinBloque, Libres
    <3>2. r.mapa = m.mapa /\ r.bloques = d.bloques /\ r.escrito = m.escrito
      BY <1>4, <2>5 DEF SinBloque
    <3>3. Crece(d, 0, r)
      BY <1>2, <1>4, <2>3, <2>4, <3>2 DEF Crece, Quietos
    <3> QED BY <3>1, <3>3 DEF Creciendo, Lleno
  <2>6. ASSUME /\ r.f_ip \in Bloques \ m.mapa
               /\ r.mapa = m.mapa \union {r.f_ip} /\ r.bloques = m.bloques
               /\ r.f_dp = m.f_dp /\ r.alcanza = m.alcanza
               /\ r.escrito = m.escrito \union {Imagen(r.mapa, m.bloques)}
        PROVE  Creciendo(d, 0, r, 1)
    <3>1. PICK g : g = Imagen(r.mapa, m.bloques)
      OBVIOUS
    <3>2. g.mapa = r.mapa /\ g.bloques = d.bloques
      BY <1>4, <3>1 DEF Imagen
    <3>3. ImagenDeCrecer(d, 0, g)
      BY <1>0, <1>4, <2>6, <3>2 DEF ImagenDeCrecer, Limpios, Quietos
    <3>4. \A i \in r.escrito : i = e \/ i = g
      BY <2>4, <2>6, <3>1
    <3>5. Crece(d, 0, r)
      BY <1>2, <1>4, <2>3, <2>6, <3>3, <3>4 DEF Crece, Quietos
    <3>6. /\ En(r, -1) = r.f_ip /\ En(r, 0) = r.f_dp
          /\ \A k \in -1..0 : k = -1 \/ k = 0
      BY DEF En, Lugar, Resuelve
    <3>7. Limpios(r.mapa, r.bloques)
      BY <1>0, <1>4, <2>6 DEF Limpios
    <3>8. r.bloques[r.f_dp] = Ceros
      BY <1>0, <1>4, <2>6 DEF Limpios
    <3>9. r.f_ip # r.f_dp /\ r.f_ip \in r.mapa \ d.mapa /\ r.f_dp \in r.mapa \ d.mapa
          /\ \A b \in r.mapa \ d.mapa : b = r.f_ip \/ b = r.f_dp
      BY <1>4, <2>6
    <3>10. Tiene(d, 0, r, 1)
      <4>1. 1 <= POR_BLOQUE + 1 /\ -1..(1 - 1) = -1..0 /\ 0..(1 - 1) = {0}
            /\ -1 \in -1..0 /\ 0 \in -1..0
        BY <1>0
      <4>2. \A k \in -1..0 : En(r, k) \in r.mapa /\ En(r, k) \notin d.mapa
        BY <3>6, <3>9
      <4>3. \A k, j \in -1..0 : En(r, k) = En(r, j) => k = j
        BY <3>6, <3>9
      <4>4. \A b \in r.mapa \ d.mapa : \E k \in -1..0 : b = En(r, k)
        BY <3>6, <3>9, <4>1
      <4>5. Quedan(0) = {}
        BY QuedanEs
      <4> QED BY <3>6, <3>7, <3>8, <4>1, <4>2, <4>3, <4>4, <4>5 DEF Tiene
    <3>11. r.alcanza
      BY <1>0, <1>4, <2>6
    <3> QED BY <3>5, <3>10, <3>11 DEF Creciendo
  <2> QED BY <1>1, <2>5, <2>6, AsignarIndirectoEs
<1> QED BY <1>0, <1>3, <1>4, AsignarDirectoEs

(* One pointer more, while there is a block and a place for it.            *)
LEMMA UnPuntero ==
  ASSUME PunterosEnteros, NEW d, NEW a \in Nat, NEW c \in Nat, NEW m,
         AntesDeCrecer(d, a), c >= 1, c >= a, Creciendo(d, a, m, c),
         NEW r, r = AsignarAlIndirecto(m, c - 1)
  PROVE  Creciendo(d, a, r, c + 1)
<1>0. POR_BLOQUE \in Nat /\ m \in Estados /\ c - 1 \in Nat /\ d.mapa \subseteq m.mapa
  BY CabePuntero DEF Creciendo, Crece
<1>1. /\ r \in Estados
      /\ \/ (Libres(m) = {} \/ c - 1 >= POR_BLOQUE) /\ SinBloque(m, r)
         \/ /\ c - 1 < POR_BLOQUE
            /\ \E b \in Bloques \ m.mapa, s \in Estados :
                 /\ Deja(m, s, m.mapa \union {b}, m.bloques)
                 /\ Deja(s, r, m.mapa \union {b}, ConElPuntero(m, c - 1, b))
  BY <1>0, AsignarAlIndirectoEs
<1>2. CASE (Libres(m) = {} \/ c - 1 >= POR_BLOQUE) /\ SinBloque(m, r)
  <2>1. Crece(d, a, r)
    BY <1>1, <1>2 DEF Creciendo, Crece, SinBloque, Quietos
  <2>2. ~r.alcanza /\ Lleno(r, c + 1)
    BY <1>0, <1>2 DEF SinBloque, Lleno, Libres
  <2> QED BY <2>1, <2>2 DEF Creciendo
<1>3. ASSUME c - 1 < POR_BLOQUE, NEW b \in Bloques \ m.mapa, NEW s \in Estados,
             Deja(m, s, m.mapa \union {b}, m.bloques),
             Deja(s, r, m.mapa \union {b}, ConElPuntero(m, c - 1, b))
      PROVE  Creciendo(d, a, r, c + 1)
  <2>1. m.alcanza /\ Tiene(d, a, m, c) /\ Crece(d, a, m)
    <3>1. ~Lleno(m, c)
      BY <1>0, <1>3 DEF Lleno, Libres
    <3> QED BY <3>1 DEF Creciendo
  <2>2. PICK bs : bs = ConElPuntero(m, c - 1, b)
    OBVIOUS
  <2>3. /\ \A x \in Bloques \ {m.f_ip} : bs[x] = m.bloques[x]
        /\ \A k \in 0..(c - 1) : Lugar(bs, m, k) = En(m, k)
        /\ Lugar(bs, m, c) = b
    <3>1. c - 1 \in 0..(POR_BLOQUE - 1) /\ (c - 1) + 1 = c
      BY <1>0, <1>3
    <3>2. PICK n : n = c - 1
      OBVIOUS
    <3>3. /\ \A x \in Bloques \ {m.f_ip} : bs[x] = m.bloques[x]
          /\ \A k \in 0..n : Lugar(bs, m, k) = En(m, k)
          /\ Lugar(bs, m, n + 1) = b
      BY <1>0, <2>2, <3>1, <3>2, PunteroMas
    <3> QED BY <3>1, <3>2, <3>3
  <2>4. /\ r.mapa = m.mapa \union {b} /\ r.bloques = bs
        /\ r.f_dp = m.f_dp /\ r.f_ip = m.f_ip /\ r.alcanza
    BY <1>3, <2>1, <2>2 DEF Deja
  <2>5. /\ \A k \in -1..(c - 1) : En(r, k) = En(m, k)
        /\ En(r, c) = b
    <3>1. \A k : Lugar(bs, r, k) = Lugar(bs, m, k)
      BY <2>4 DEF Lugar, Resuelve
    <3>2. En(r, -1) = En(m, -1)
      BY <2>4 DEF En, Lugar
    <3>3. \A k \in -1..(c - 1) : k = -1 \/ k \in 0..(c - 1)
      OBVIOUS
    <3> QED BY <2>3, <2>4, <3>1, <3>2, <3>3 DEF En
  <2>6. /\ m.f_ip = En(m, -1) /\ m.f_ip \in m.mapa /\ -1 \in -1..(c - 1)
        /\ a <= 1 => m.f_ip \notin d.mapa
        /\ a > 1 => m.f_ip = d.f_ip
    <3>1. -1 \in -1..(c - 1) /\ m.f_ip = En(m, -1) /\ d.f_ip = En(d, -1)
      BY <1>0 DEF En, Lugar
    <3>2. (a > 1 => -1 \in Quedan(a)) /\ (a <= 1 => -1 \notin Quedan(a))
      BY DEF Quedan
    <3> QED BY <2>1, <3>1, <3>2 DEF Tiene
  <2>7. /\ Limpios(m.mapa \union {b}, m.bloques) /\ Limpios(m.mapa \union {b}, bs)
        /\ bs[b] = Ceros
    <3>1. Limpios(m.mapa, m.bloques)
      BY <2>1 DEF Tiene
    <3>2. \A x \in Bloques \ m.mapa : bs[x] = Ceros
      BY <2>3, <2>6, <3>1 DEF Limpios
    <3> QED BY <3>1, <3>2 DEF Limpios
  <2>8. Quietos(d, a, bs)
    <3> SUFFICES ASSUME NEW x \in d.mapa, a <= 1 \/ x # d.f_ip
                 PROVE  bs[x] = d.bloques[x]
      BY DEF Quietos
    <3>1. x # m.f_ip /\ x \in Bloques
      BY <1>0, <2>6 DEF Estados
    <3>2. m.bloques[x] = d.bloques[x]
      BY <2>1 DEF Crece, Quietos
    <3> QED BY <2>3, <3>1, <3>2
  <2>9. ASSUME NEW k \in 0..(a - 1)
        PROVE  Lugar(m.bloques, d, k) = En(d, k) /\ Lugar(bs, d, k) = En(d, k)
    <3>1. /\ k \in Quedan(a) /\ 0 \in Quedan(a) /\ k \in 0..(c - 1)
          /\ En(m, 0) = m.f_dp /\ En(d, 0) = d.f_dp
      BY QuedanEs DEF En, Lugar, Resuelve
    <3>2. En(m, k) = En(d, k) /\ m.f_dp = d.f_dp
      BY <2>1, <3>1 DEF Tiene
    <3>3. CASE a > 1
      <4>1. m.f_ip = d.f_ip
        BY <2>6, <3>3
      <4>2. \A x, i : Lugar(x, d, i) = Lugar(x, m, i)
        BY <3>2, <4>1 DEF Lugar, Resuelve
      <4> QED BY <2>3, <3>1, <3>2, <4>2 DEF En
    <3>4. CASE a <= 1
      <4>1. k = 0
        BY <3>4
      <4> QED BY <4>1 DEF En, Lugar, Resuelve
    <3> QED BY <3>3, <3>4
  <2>10. ASSUME NEW e \in r.escrito
         PROVE  ImagenDeCrecer(d, a, e)
    <3>1. \/ e \in m.escrito
          \/ e = Imagen(m.mapa \union {b}, m.bloques)
          \/ e = Imagen(m.mapa \union {b}, bs)
      BY <1>3, <2>2 DEF Deja
    <3>2. CASE e \in m.escrito
      BY <2>1, <3>2 DEF Crece
    <3>3. CASE e = Imagen(m.mapa \union {b}, m.bloques)
      <4>1. e.mapa = m.mapa \union {b} /\ e.bloques = m.bloques
        BY <3>3 DEF Imagen
      <4> QED BY <1>0, <2>1, <2>7, <2>9, <4>1 DEF ImagenDeCrecer, Crece
    <3>4. CASE e = Imagen(m.mapa \union {b}, bs)
      <4>1. e.mapa = m.mapa \union {b} /\ e.bloques = bs
        BY <3>4 DEF Imagen
      <4> QED BY <1>0, <2>7, <2>8, <2>9, <4>1 DEF ImagenDeCrecer
    <3> QED BY <3>1, <3>2, <3>3, <3>4
  <2>11. Crece(d, a, r)
    BY <1>0, <1>1, <2>4, <2>8, <2>10 DEF Crece
  <2>12. Tiene(d, a, r, c + 1)
    <3>1. /\ (c + 1) - 1 = c /\ c + 1 <= POR_BLOQUE + 1 /\ c \in -1..c
          /\ \A k \in -1..c : k = c \/ k \in -1..(c - 1)
          /\ \A k \in 0..c : k = c \/ k \in 0..(c - 1)
          /\ \A k \in -1..(c - 1) : k \in -1..c
          /\ \A k \in 0..(c - 1) : k \in -1..(c - 1)
          /\ \A k \in Quedan(a) : k \in -1..(c - 1)
      BY <1>0, <1>3 DEF Quedan
    <3>2. b \notin d.mapa /\ \A k \in -1..(c - 1) : En(r, k) # b
      BY <1>0, <2>1, <2>5 DEF Tiene
    <3>3. \A k \in -1..c :
            En(r, k) \in r.mapa /\ (k \notin Quedan(a) => En(r, k) \notin d.mapa)
      BY <2>1, <2>4, <2>5, <3>1, <3>2 DEF Tiene
    <3>4. \A k \in Quedan(a) : En(r, k) = En(d, k)
      BY <2>1, <2>5, <3>1 DEF Tiene
    <3>5. \A k, j \in -1..c : En(r, k) = En(r, j) => k = j
      BY <2>1, <2>5, <3>1, <3>2 DEF Tiene
    <3>6. ASSUME NEW k \in 0..c, k >= a
          PROVE  r.bloques[En(r, k)] = Ceros
      <4>1. CASE k = c
        BY <2>4, <2>5, <2>7, <4>1
      <4>2. CASE k # c
        <5>1. k \in 0..(c - 1) /\ k \in -1..(c - 1) /\ k # -1
          BY <3>1, <4>2
        <5>2. En(m, k) # m.f_ip /\ En(m, k) \in Bloques /\ m.bloques[En(m, k)] = Ceros
          BY <1>0, <2>1, <2>6, <3>6, <5>1 DEF Tiene, Estados
        <5> QED BY <2>3, <2>4, <2>5, <5>1, <5>2
      <4> QED BY <4>1, <4>2
    <3>7. ASSUME NEW x \in r.mapa \ d.mapa
          PROVE  \E k \in -1..c : x = En(r, k)
      <4>1. CASE x = b
        BY <2>5, <3>1, <4>1
      <4>2. CASE x # b
        <5>1. PICK k \in -1..(c - 1) : x = En(m, k)
          BY <2>1, <2>4, <4>2 DEF Tiene
        <5> QED BY <2>5, <3>1, <5>1
      <4> QED BY <4>1, <4>2
    <3>8. Limpios(r.mapa, r.bloques)
      BY <2>4, <2>7
    <3> QED BY <3>1, <3>3, <3>4, <3>5, <3>6, <3>7, <3>8 DEF Tiene
  <2> QED BY <2>4, <2>11, <2>12 DEF Creciendo
<1> QED BY <1>1, <1>2, <1>3

-----------------------------------------------------------------------------
(* The loop of truncar_archivo over the pointers, from a up to b, turn by  *)
(* turn.                                                                   *)
Asignados(m, a, b) == FoldLeft(AsignarAlIndirecto, m, Rango(a, b))
Turnos(h, m, a, N) ==
  /\ h[0] = m
  /\ \A n \in 1..N : h[n] = AsignarAlIndirecto(h[n - 1], a + n - 1)

(* One pointer in each turn.                                               *)
LEMMA BucleDeAsignar ==
  ASSUME PunterosEnteros, NEW m \in Estados, NEW a \in Nat, NEW b \in Int,
         NEW N \in Nat, N = b - a + 1
  PROVE  \E h : Turnos(h, m, a, N) /\ Asignados(m, a, b) = h[N]
<1> DEFINE l == Rango(a, b)
           T == Estados
           paso == [x \in (1..N) \X T |-> AsignarAlIndirecto(x[2], a + x[1] - 1)]
           Sigue(it, s) == IF s = {} THEN m
                           ELSE AsignarAlIndirecto(it[s \ {Max(s)}], a + Max(s) - 1)
           SigueD(it, s) == IF s = {} THEN m
                            ELSE AsignarAlIndirecto(it[s \ {Max(s)}], l[Max(s)])
           D == DOMAIN l
           it == CHOOSE it : it = [s \in SUBSET D |-> SigueD(it, s)]
           h == [n \in 0..N |-> it[1..n]]
<1>1. D = 1..N /\ \A i \in 1..N : l[i] = a + i - 1
  BY DEF Rango
<1>2. Asignados(m, a, b) = it[D]
  BY DEF Asignados, FoldLeft, MapThenFoldSet
<1>3. ASSUME NEW n \in 1..N, NEW t \in T
      PROVE  /\ paso[<<n, t>>] = AsignarAlIndirecto(t, a + n - 1)
             /\ AsignarAlIndirecto(t, a + n - 1) \in T
  <2>1. a + n - 1 \in Nat
    OBVIOUS
  <2>2. AsignarAlIndirecto(t, a + n - 1) \in T
    BY <2>1, AsignarAlIndirectoEs
  <2> QED BY <2>2
<1> HIDE DEF paso, T
<1>4. \A s \in SUBSET (1..N) : it[s] = Sigue(it, s)
  <2>1. m \in T /\ SePliega(N, T, paso)
    BY <1>3 DEF SePliega, T
  <2>2. PICK jt : Pliegue(jt, N, T, m, paso)
    <3> HIDE DEF it, h, l
    <3> QED BY <2>1, PliegueExiste
  <2>3. ASSUME NEW s \in SUBSET (1..N)
        PROVE  jt[s] = SigueD(jt, s) /\ \A kt : SigueD(kt, s) = Sigue(kt, s)
    <3>1. CASE s = {}
      BY <2>2, <3>1 DEF Pliegue, PasoDePliegue
    <3>2. CASE s # {}
      <4>1. Max(s) \in s
        <5> HIDE DEF it, h, l
        <5> QED BY <3>2, MaximoDe
      <4>2. l[Max(s)] = a + Max(s) - 1
        <5> HIDE DEF l
        <5> QED BY <1>1, <4>1
      <4>3. jt[s \ {Max(s)}] \in T /\ Max(s) \in 1..N
        BY <2>2, <4>1 DEF Pliegue
      <4>4. jt[s] = paso[<<Max(s), jt[s \ {Max(s)}]>>]
        BY <2>2, <3>2 DEF Pliegue, PasoDePliegue
      <4>5. jt[s] = AsignarAlIndirecto(jt[s \ {Max(s)}], a + Max(s) - 1)
        BY <1>3, <4>3, <4>4
      <4>6. jt[s] = SigueD(jt, s)
        <5> HIDE DEF l
        <5> QED BY <3>2, <4>2, <4>5
      <4>7. \A kt : SigueD(kt, s) = Sigue(kt, s)
        <5> HIDE DEF l
        <5> QED BY <3>2, <4>2
      <4> QED
        BY <4>6, <4>7
    <3> QED BY <3>1, <3>2
  <2>4. jt = [s \in SUBSET D |-> SigueD(jt, s)]
    <3> HIDE DEF D, SigueD
    <3> QED BY <1>1, <2>2, <2>3 DEF Pliegue
  <2>5. it = [s \in SUBSET D |-> SigueD(it, s)]
    <3> HIDE DEF SigueD, D
    <3> QED BY <2>4
  <2> HIDE DEF it, SigueD, Sigue, D
  <2> QED
    BY <1>1, <2>3, <2>5
<1> HIDE DEF it, l, D
<1>5. h[0] = m
  <2>1. 1..0 = {} /\ {} \in SUBSET (1..N) /\ 0 \in 0..N
    OBVIOUS
  <2> QED BY <2>1, <1>4
<1>6. ASSUME NEW n \in 1..N
      PROVE  h[n] = AsignarAlIndirecto(h[n - 1], a + n - 1)
  <2>1. 1..n # {} /\ Max(1..n) = n /\ (1..n) \ {n} = 1..(n - 1)
    BY Hasta
  <2>2. 1..n \in SUBSET (1..N)
    OBVIOUS
  <2>3. it[1..n] = AsignarAlIndirecto(it[1..(n - 1)], a + n - 1)
    BY <1>4, <2>1, <2>2
  <2> QED
    BY <2>3
<1>7. h[N] = it[D]
  BY <1>1
<1>8. Asignados(m, a, b) = h[N]
  BY <1>2, <1>7
<1> HIDE DEF h
<1> QED
  BY ONLY <1>5, <1>6, <1>8 DEF Turnos

(* A growth to one block takes the direct one and nothing else.            *)
LEMMA CrecidoAUno ==
  ASSUME PunterosEnteros, NEW d \in Estados
  PROVE  Crecer(d, 0, 1) = AsignarDirecto(d)
<1>1. PICK m : m = AsignarDirecto(d)
  OBVIOUS
<1>2. PICK a, b, N : a = 0 /\ b = -1 /\ N = 0
  OBVIOUS
<1>3. m \in Estados /\ a \in Nat /\ b \in Int /\ N \in Nat /\ N = b - a + 1
  BY <1>1, <1>2, AsignarDirectoEs
<1>4. PICK h : Turnos(h, m, a, N) /\ Asignados(m, a, b) = h[N]
  BY <1>3, BucleDeAsignar
<1>5. Asignados(m, 0, -1) = m
  BY <1>2, <1>4 DEF Turnos
<1>6. Tope(0, 1) - 1 = 0 /\ 1 - 2 = -1 /\ ~(1 > 1)
  BY DEF Tope
<1> QED BY <1>1, <1>5, <1>6 DEF Crecer, Asignados

(* A growth to n blocks, two or more.                                      *)
LEMMA Crecido ==
  ASSUME PunterosEnteros, NEW d, NEW a \in Nat, NEW n \in Nat,
         AntesDeCrecer(d, a), a < n, n > 1
  PROVE  Creciendo(d, a, Crecer(d, a, n), n)
<1> DEFINE c == IF a = 0 THEN 1 ELSE a
<1>0. PICK N : N = n - c
  OBVIOUS
<1>1. d \in Estados
  BY DEF AntesDeCrecer
<1>2. c \in Nat /\ c >= 1 /\ c >= a /\ N \in Nat /\ Tope(a, 1) = c
  BY <1>0, <1>1 DEF Tope
<1>3. PICK m : m = IF a = 0 THEN AsignarIndirecto(AsignarDirecto(d))
                   ELSE IF a = 1 THEN AsignarIndirecto(d) ELSE d
  OBVIOUS
<1>4. Creciendo(d, a, m, c)
  <2>1. CASE a = 0
    BY <1>3, <2>1, PrimerosBloques
  <2>2. CASE a = 1
    BY <1>3, <2>2, UnIndirecto
  <2>3. CASE a > 1
    BY <1>3, <2>3, NadaCrecido
  <2> QED BY <2>1, <2>2, <2>3
<1>5. Crecer(d, a, n) = Asignados(m, c - 1, n - 2)
  <2>1. CASE a = 0
    BY <1>2, <1>3, <2>1 DEF Crecer, Asignados
  <2>2. CASE a = 1
    <3>1. a <= 1 /\ a # 0
      BY <2>2
    <3> QED BY <1>2, <1>3, <2>2, <3>1 DEF Crecer, Asignados
  <2>3. CASE a > 1
    <3>1. ~(a <= 1) /\ a # 0 /\ a # 1
      BY <2>3
    <3> QED BY <1>2, <1>3, <3>1 DEF Crecer, Asignados
  <2> QED BY <2>1, <2>2, <2>3
<1> HIDE DEF c
<1>6. PICK x, y : x = c - 1 /\ y = n - 2
  OBVIOUS
<1>7. PICK h : Turnos(h, m, x, N) /\ Asignados(m, x, y) = h[N]
  <2>1. x \in Nat /\ y \in Int /\ N = y - x + 1 /\ N \in Nat /\ m \in Estados
    BY <1>0, <1>2, <1>4, <1>6 DEF Creciendo, Crece
  <2> QED BY <2>1, BucleDeAsignar
<1> DEFINE S == {i \in 0..N : Creciendo(d, a, h[i], c + i)}
<1>8. 0 \in S
  BY <1>2, <1>4, <1>7 DEF Turnos
<1>9. ASSUME NEW i \in 0..(N - 1), i \in S
      PROVE  i + 1 \in S
  <2>1. /\ i + 1 \in 1..N /\ (i + 1) - 1 = i /\ c + i \in Nat /\ i \in Nat
        /\ x + (i + 1) - 1 = (c + i) - 1 /\ c + i >= 1 /\ c + i >= a
        /\ (c + i) + 1 = c + (i + 1) /\ i + 1 \in 0..N
    BY <1>2, <1>6
  <2>2. h[i + 1] = AsignarAlIndirecto(h[i], (c + i) - 1)
    BY <1>7, <2>1 DEF Turnos
  <2>3. Creciendo(d, a, h[i], c + i)
    BY <1>9
  <2>4. PICK k : k = c + i
    OBVIOUS
  <2>5. Creciendo(d, a, h[i + 1], k + 1)
    BY <2>1, <2>2, <2>3, <2>4, UnPuntero
  <2> QED BY <2>1, <2>4, <2>5
<1> HIDE DEF S
<1>10. N \in S
  <2>1. \A i \in 0..N : i \in S
    BY <1>2, <1>8, <1>9, Induccion
  <2> QED BY <1>2, <2>1
<1>11. c + N = n
  BY <1>0, <1>2
<1> QED BY <1>5, <1>6, <1>7, <1>10, <1>11 DEF S

-----------------------------------------------------------------------------
(* Shrinking from d, of a file of a blocks.  An image on the disk has      *)
(* changed no block that was not the file's.                               *)
DeOtro(d, a, b) == b \in d.mapa /\ \A k \in -1..(a - 1) : b # En(d, k)
ImagenDeAchicar(d, a, e) ==
  \A b \in Bloques : DeOtro(d, a, b) => e.bloques[b] = d.bloques[b]

AntesDeAchicar(d, a) ==
  /\ d \in Estados /\ d.alcanza /\ d.escrito = {} /\ Limpios(d.mapa, d.bloques)
  /\ a \in Nat /\ a >= 1 /\ a <= POR_BLOQUE + 1
  /\ \A k \in -1..(a - 1) : En(d, k) \in d.mapa
  /\ \A k, j \in -1..(a - 1) : En(d, k) = En(d, j) => k = j

(* What is left is as it was, and the positions of sueltas are free.       *)
Suelta(d, a, m, sueltas) ==
  /\ sueltas \subseteq -1..(a - 1)
  /\ m \in Estados /\ m.alcanza /\ m.mapa \subseteq d.mapa
  /\ \A b \in d.mapa : b \in m.mapa <=> \A k \in sueltas : b # En(d, k)
  /\ Limpios(m.mapa, m.bloques)
  /\ \A b \in m.mapa : b # d.f_ip => m.bloques[b] = d.bloques[b]
  /\ \A e \in m.escrito : ImagenDeAchicar(d, a, e)

(* With c blocks and the indirect one left.                                *)
Achicando(d, a, m, c) ==
  /\ Suelta(d, a, m, c..(a - 1))
  /\ m.f_dp = d.f_dp /\ m.f_ip = d.f_ip
  /\ \A k \in -1..(c - 1) : En(m, k) = En(d, k)

(* A shrinking starts with nothing done.                                   *)
LEMMA NadaAchicado ==
  ASSUME NEW d, NEW a, AntesDeAchicar(d, a)
  PROVE  Achicando(d, a, d, a)
<1>1. a..(a - 1) = {}
  BY DEF AntesDeAchicar
<1> QED BY <1>1 DEF AntesDeAchicar, Achicando, Suelta

(* desocupar_bloque of the position k of the file.                         *)
LEMMA UnoMenos ==
  ASSUME NEW d, NEW a \in Nat, AntesDeAchicar(d, a), NEW m, NEW sueltas,
         Suelta(d, a, m, sueltas), NEW k \in -1..(a - 1),
         NEW b, b = En(d, k), NEW r, r = Desocupar(m, b)
  PROVE  /\ Suelta(d, a, r, sueltas \union {k})
         /\ r.f_dp = m.f_dp /\ r.f_ip = m.f_ip
         /\ \A x \in Bloques \ {b} : r.bloques[x] = m.bloques[x]
<1>1. /\ m \in Estados /\ b \in d.mapa /\ d.mapa \in SUBSET Bloques
      /\ m.bloques \in Buffers /\ m.mapa \subseteq d.mapa /\ b \in Bloques
  BY DEF AntesDeAchicar, Suelta, Estados
<1>2. PICK bs : bs = [m.bloques EXCEPT ![b] = Ceros]
  OBVIOUS
<1>3. /\ r \in Estados
      /\ \E s \in Estados : /\ Deja(m, s, m.mapa \ {b}, m.bloques)
                            /\ Deja(s, r, m.mapa \ {b}, bs)
  BY <1>1, <1>2, DesocuparEs
<1>4. PICK s \in Estados : /\ Deja(m, s, m.mapa \ {b}, m.bloques)
                           /\ Deja(s, r, m.mapa \ {b}, bs)
  BY <1>3
<1>5. /\ r.mapa = m.mapa \ {b} /\ r.bloques = bs
      /\ r.f_dp = m.f_dp /\ r.f_ip = m.f_ip /\ r.alcanza = m.alcanza
  BY <1>4 DEF Deja
<1>6. bs[b] = Ceros /\ \A x \in Bloques \ {b} : bs[x] = m.bloques[x]
  BY <1>1, <1>2 DEF Buffers
<1>7. Limpios(r.mapa, bs)
  <2>1. Limpios(m.mapa, m.bloques)
    BY DEF Suelta
  <2> QED BY <1>5, <1>6, <2>1 DEF Limpios
<1>8. ASSUME NEW e \in r.escrito
      PROVE  ImagenDeAchicar(d, a, e)
  <2>1. \/ e \in m.escrito
        \/ e = Imagen(m.mapa \ {b}, m.bloques)
        \/ e = Imagen(m.mapa \ {b}, bs)
    BY <1>4 DEF Deja
  <2>2. CASE e \in m.escrito
    BY <2>2 DEF Suelta
  <2>3. CASE e \notin m.escrito
    <3> SUFFICES ASSUME NEW x \in Bloques, DeOtro(d, a, x)
                 PROVE  e.bloques[x] = d.bloques[x]
      BY DEF ImagenDeAchicar
    <3>1. e.bloques = m.bloques \/ e.bloques = bs
      BY <2>1, <2>3 DEF Imagen
    <3>2. -1 \in -1..(a - 1) /\ En(d, -1) = d.f_ip
      BY DEF En, Lugar
    <3>3. x # b /\ x # d.f_ip /\ x \in d.mapa
      BY <3>2 DEF DeOtro
    <3>4. m.bloques[x] = d.bloques[x]
      <4>1. CASE x \in m.mapa
        BY <3>3, <4>1 DEF Suelta
      <4>2. CASE x \notin m.mapa
        <5>1. PICK j \in sueltas : x = En(d, j)
          BY <3>3, <4>2 DEF Suelta
        <5> QED BY <5>1 DEF DeOtro, Suelta
      <4> QED BY <4>1, <4>2
    <3> QED BY <1>6, <3>1, <3>3, <3>4
  <2> QED BY <2>2, <2>3
<1>9. \A x \in d.mapa : x \in r.mapa <=> \A j \in sueltas \union {k} : x # En(d, j)
  BY <1>5 DEF Suelta
<1>10. \A x \in r.mapa : x # d.f_ip => r.bloques[x] = d.bloques[x]
  BY <1>1, <1>5, <1>6 DEF Suelta
<1>11. r.alcanza /\ r.mapa \subseteq d.mapa
  BY <1>1, <1>5 DEF Suelta
<1>12. Suelta(d, a, r, sueltas \union {k})
  BY <1>3, <1>5, <1>7, <1>8, <1>9, <1>10, <1>11 DEF Suelta
<1> QED BY <1>5, <1>6, <1>12

(* The last pointer of a file of c blocks and its block.                   *)
Soltar(m, i) == RemoverPuntero(Desocupar(m, Leidos(m.bloques[m.f_ip])[i]), i)

(* A turn of the loop.                                                     *)
LEMMA UnPunteroMenos ==
  ASSUME NEW d, NEW a \in Nat, AntesDeAchicar(d, a), NEW c \in 2..a,
         NEW m, Achicando(d, a, m, c), POR_BLOQUE \in Nat,
         NEW r, r = Soltar(m, c - 2)
  PROVE  Achicando(d, a, r, c - 1)
<1>1. PICK b : b = En(d, c - 1)
  OBVIOUS
<1>2. /\ m \in Estados /\ m.f_dp = d.f_dp /\ m.f_ip = d.f_ip
      /\ \A k \in -1..(c - 1) : En(m, k) = En(d, k)
      /\ Suelta(d, a, m, c..(a - 1)) /\ a <= POR_BLOQUE + 1
      /\ m.f_ip \in Bloques
  BY DEF Achicando, Suelta, AntesDeAchicar, Estados
<1>3. /\ c - 1 \in -1..(c - 1) /\ c - 1 \in -1..(a - 1) /\ c - 1 # -1 /\ c - 1 # 0
      /\ (c - 1) - 1 = c - 2 /\ c - 2 \in Nat /\ c - 2 \in 0..(POR_BLOQUE - 1)
      /\ -1 \in -1..(a - 1)
      /\ c..(a - 1) \union {c - 1} = (c - 1)..(a - 1)
  BY <1>2
<1>4. b = Leidos(m.bloques[m.f_ip])[c - 2]
  <2>1. En(m, c - 1) = Leidos(m.bloques[m.f_ip])[c - 2]
    BY <1>3 DEF En, Lugar, Resuelve
  <2> QED BY <1>1, <1>2, <1>3, <2>1
<1>5. b # d.f_ip /\ b \in Bloques
  <2>1. d.f_ip = En(d, -1)
    BY DEF En, Lugar
  <2>2. En(d, c - 1) \in d.mapa /\ d.mapa \in SUBSET Bloques
    BY <1>3 DEF AntesDeAchicar, Estados
  <2>3. En(d, c - 1) = En(d, -1) => c - 1 = -1
    BY <1>3 DEF AntesDeAchicar
  <2> QED BY <1>1, <1>3, <2>1, <2>2, <2>3
<1>6. PICK s : s = Desocupar(m, b)
  OBVIOUS
<1>7. /\ Suelta(d, a, s, (c - 1)..(a - 1))
      /\ s.f_dp = m.f_dp /\ s.f_ip = m.f_ip
      /\ \A x \in Bloques \ {b} : s.bloques[x] = m.bloques[x]
  <2>1. PICK k : k = c - 1
    OBVIOUS
  <2>2. k \in -1..(a - 1) /\ b = En(d, k)
    BY <1>1, <1>3, <2>1
  <2>3. PICK sueltas : sueltas = c..(a - 1)
    OBVIOUS
  <2>4. /\ Suelta(d, a, s, sueltas \union {k})
        /\ s.f_dp = m.f_dp /\ s.f_ip = m.f_ip
        /\ \A x \in Bloques \ {b} : s.bloques[x] = m.bloques[x]
    <3>1. Suelta(d, a, m, sueltas)
      BY <1>2, <2>3
    <3>2. a \in Nat /\ AntesDeAchicar(d, a)
      OBVIOUS
    <3> QED BY ONLY <1>6, <2>2, <3>1, <3>2, UnoMenos
  <2>5. sueltas \union {k} = (c - 1)..(a - 1)
    BY <1>3, <2>1, <2>3
  <2> QED BY <2>4, <2>5
<1>8. r = RemoverPuntero(s, c - 2)
  BY <1>4, <1>6 DEF Soltar
<1>9. /\ s \in Estados /\ r \in Estados /\ Deja(s, r, s.mapa, r.bloques)
      /\ \A x \in Bloques \ {s.f_ip} : r.bloques[x] = s.bloques[x]
      /\ \A i \in 0..(POR_BLOQUE - 1) : i < c - 2 =>
           Leidos(r.bloques[s.f_ip])[i] = Leidos(s.bloques[s.f_ip])[i]
  <2>1. s \in Estados
    BY <1>7 DEF Suelta
  <2>2. PICK i : i = c - 2
    OBVIOUS
  <2>3. i \in Nat /\ r = RemoverPuntero(s, i)
    BY <1>3, <1>8, <2>2
  <2>4. /\ r \in Estados /\ Deja(s, r, s.mapa, r.bloques)
        /\ \A x \in Bloques \ {s.f_ip} : r.bloques[x] = s.bloques[x]
        /\ \A j \in 0..(POR_BLOQUE - 1) : j < i =>
             Leidos(r.bloques[s.f_ip])[j] = Leidos(s.bloques[s.f_ip])[j]
    BY <2>1, <2>3, RemoverEs
  <2> QED BY <2>1, <2>2, <2>4
<1>10. /\ r.mapa = s.mapa /\ r.f_dp = d.f_dp /\ r.f_ip = d.f_ip
       /\ r.alcanza = s.alcanza
       /\ r.escrito = s.escrito \union {Imagen(s.mapa, r.bloques)}
  BY <1>2, <1>7, <1>9 DEF Deja
<1>11. \A k \in -1..(c - 2) : En(r, k) = En(d, k)
  <2> SUFFICES ASSUME NEW k \in -1..(c - 2) PROVE En(r, k) = En(d, k)
    OBVIOUS
  <2>1. k \in -1..(c - 1)
    OBVIOUS
  <2>2. En(m, k) = En(d, k)
    BY <1>2, <2>1
  <2>3. CASE k = -1 \/ k = 0
    BY <1>10, <2>3 DEF En, Lugar, Resuelve
  <2>4. CASE k # -1 /\ k # 0
    <3>1. k - 1 \in 0..(POR_BLOQUE - 1) /\ k - 1 < c - 2
      BY <1>3, <2>4
    <3>2. Leidos(r.bloques[s.f_ip])[k - 1] = Leidos(s.bloques[s.f_ip])[k - 1]
      BY <1>9, <3>1
    <3>3. s.bloques[m.f_ip] = m.bloques[m.f_ip]
      BY <1>2, <1>5, <1>7
    <3>4. r.f_ip = m.f_ip /\ s.f_ip = m.f_ip
      BY <1>2, <1>7, <1>10
    <3>5. /\ En(r, k) = Leidos(r.bloques[r.f_ip])[k - 1]
          /\ En(m, k) = Leidos(m.bloques[m.f_ip])[k - 1]
      BY <2>4 DEF En, Lugar, Resuelve
    <3> QED BY <2>2, <3>2, <3>3, <3>4, <3>5
  <2> QED BY <2>3, <2>4
<1>12. d.f_ip \in s.mapa /\ s.mapa \in SUBSET Bloques
  <2>1. d.f_ip = En(d, -1) /\ d.f_ip \in d.mapa
    BY <1>3 DEF En, Lugar, AntesDeAchicar
  <2>2. \A k \in (c - 1)..(a - 1) : k \in -1..(a - 1) /\ k # -1
    OBVIOUS
  <2>3. \A k \in (c - 1)..(a - 1) : d.f_ip # En(d, k)
    BY <1>3, <2>1, <2>2 DEF AntesDeAchicar
  <2> QED BY <1>7, <1>9, <2>1, <2>3 DEF Suelta, Estados
<1>13. Limpios(r.mapa, r.bloques)
  <2>1. Limpios(s.mapa, s.bloques)
    BY <1>7 DEF Suelta
  <2> QED BY <1>2, <1>7, <1>9, <1>10, <1>12, <2>1 DEF Limpios
<1>14. \A x \in r.mapa : x # d.f_ip => r.bloques[x] = d.bloques[x]
  BY <1>2, <1>7, <1>9, <1>10, <1>12 DEF Suelta
<1>15. ASSUME NEW e \in r.escrito
       PROVE  ImagenDeAchicar(d, a, e)
  <2>1. CASE e \in s.escrito
    BY <1>7, <2>1 DEF Suelta
  <2>2. CASE e = Imagen(s.mapa, r.bloques)
    <3> SUFFICES ASSUME NEW x \in Bloques, DeOtro(d, a, x)
                 PROVE  r.bloques[x] = d.bloques[x]
      BY <2>2 DEF ImagenDeAchicar, Imagen
    <3>1. x # En(d, -1) /\ x \in d.mapa
      BY <1>3 DEF DeOtro
    <3>2. x # d.f_ip
      BY <3>1 DEF En, Lugar
    <3>3. x \in s.mapa
      <4>1. \A k \in (c - 1)..(a - 1) : k \in -1..(a - 1)
        OBVIOUS
      <4>2. \A k \in (c - 1)..(a - 1) : x # En(d, k)
        BY <4>1 DEF DeOtro
      <4> QED BY <1>7, <3>1, <4>2 DEF Suelta
    <3> QED BY <1>10, <1>14, <3>2, <3>3
  <2> QED BY <1>10, <2>1, <2>2
<1>16. Suelta(d, a, r, (c - 1)..(a - 1))
  BY <1>7, <1>9, <1>10, <1>13, <1>14, <1>15 DEF Suelta
<1> QED BY <1>3, <1>10, <1>11, <1>16 DEF Achicando

(* The loop of truncar_archivo over the pointers, from b down to a, turn   *)
(* by turn.                                                                *)
Soltados(m, a, b) == FoldLeft(Soltar, m, Reverse(Rango(a, b)))
Vueltas(h, m, b, N) ==
  /\ h[0] = m
  /\ \A n \in 1..N : h[n] = Soltar(h[n - 1], b - n + 1)

(* One pointer in each turn.                                               *)
LEMMA BucleDeSoltar ==
  ASSUME NEW m \in Estados, NEW a \in Nat, NEW b \in Int, b < POR_BLOQUE,
         POR_BLOQUE \in Nat, NEW N \in Nat, N = b - a + 1
  PROVE  \E h : Vueltas(h, m, b, N) /\ Soltados(m, a, b) = h[N]
<1> DEFINE l == Reverse(Rango(a, b))
           T == Estados
           paso == [x \in (1..N) \X T |-> Soltar(x[2], b - x[1] + 1)]
           Sigue(it, s) == IF s = {} THEN m
                           ELSE Soltar(it[s \ {Max(s)}], b - Max(s) + 1)
           SigueD(it, s) == IF s = {} THEN m
                            ELSE Soltar(it[s \ {Max(s)}], l[Max(s)])
           D == DOMAIN l
           it == CHOOSE it : it = [s \in SUBSET D |-> SigueD(it, s)]
           h == [n \in 0..N |-> it[1..n]]
<1>1. D = 1..N /\ \A i \in 1..N : l[i] = b - i + 1
  <2>1. PICK s : s = Rango(a, b)
    OBVIOUS
  <2>2. s \in Seq(Int) /\ Len(s) = N /\ \A i \in 1..N : s[i] = a + i - 1
    BY <2>1 DEF Rango
  <2>3. Reverse(s) = [i \in 1..Len(s) |-> s[Len(s) - i + 1]]
    BY DEF Reverse
  <2>4. ASSUME NEW i \in 1..N PROVE s[N - i + 1] = b - i + 1
    <3>1. N - i + 1 \in 1..N /\ a + (N - i + 1) - 1 = b - i + 1
      OBVIOUS
    <3> QED BY <2>2, <3>1
  <2> QED BY <2>1, <2>2, <2>3, <2>4
<1>2. Soltados(m, a, b) = it[D]
  BY DEF Soltados, FoldLeft, MapThenFoldSet
<1>3. ASSUME NEW n \in 1..N, NEW t \in T
      PROVE  /\ paso[<<n, t>>] = Soltar(t, b - n + 1)
             /\ Soltar(t, b - n + 1) \in T
  <2>1. PICK i : i = b - n + 1
    OBVIOUS
  <2>2. i \in Nat /\ i \in 0..(POR_BLOQUE - 1)
    BY <2>1
  <2>3. t.f_ip \in Bloques /\ t.bloques[t.f_ip] \in Contenidos
    BY DEF Estados, Buffers
  <2>4. PICK x : x = Leidos(t.bloques[t.f_ip])[i]
    OBVIOUS
  <2>5. x \in Bloques
    BY <2>2, <2>3, <2>4, TiposDeBloque DEF Paginas
  <2>6. Desocupar(t, x) \in Estados
    BY <2>5, DesocuparEs
  <2>7. RemoverPuntero(Desocupar(t, x), i) \in Estados
    BY <2>2, <2>6, RemoverEs
  <2>8. Soltar(t, b - n + 1) \in T
    BY <2>1, <2>4, <2>7 DEF Soltar
  <2> QED BY <2>8
<1> HIDE DEF paso, T
<1>4. \A s \in SUBSET (1..N) : it[s] = Sigue(it, s)
  <2>1. m \in T /\ SePliega(N, T, paso)
    BY <1>3 DEF SePliega, T
  <2>2. PICK jt : Pliegue(jt, N, T, m, paso)
    <3> HIDE DEF it, h, l
    <3> QED BY <2>1, PliegueExiste
  <2>3. ASSUME NEW s \in SUBSET (1..N)
        PROVE  jt[s] = SigueD(jt, s) /\ \A kt : SigueD(kt, s) = Sigue(kt, s)
    <3>1. CASE s = {}
      BY <2>2, <3>1 DEF Pliegue, PasoDePliegue
    <3>2. CASE s # {}
      <4>1. Max(s) \in s
        <5> HIDE DEF it, h, l
        <5> QED BY <3>2, MaximoDe
      <4>2. l[Max(s)] = b - Max(s) + 1
        <5> HIDE DEF l
        <5> QED BY <1>1, <4>1
      <4>3. jt[s \ {Max(s)}] \in T /\ Max(s) \in 1..N
        BY <2>2, <4>1 DEF Pliegue
      <4>4. jt[s] = paso[<<Max(s), jt[s \ {Max(s)}]>>]
        BY <2>2, <3>2 DEF Pliegue, PasoDePliegue
      <4>5. jt[s] = Soltar(jt[s \ {Max(s)}], b - Max(s) + 1)
        BY <1>3, <4>3, <4>4
      <4>6. jt[s] = SigueD(jt, s)
        <5> HIDE DEF l
        <5> QED BY <3>2, <4>2, <4>5
      <4>7. \A kt : SigueD(kt, s) = Sigue(kt, s)
        <5> HIDE DEF l
        <5> QED BY <3>2, <4>2
      <4> QED
        BY <4>6, <4>7
    <3> QED BY <3>1, <3>2
  <2>4. jt = [s \in SUBSET D |-> SigueD(jt, s)]
    <3> HIDE DEF D, SigueD
    <3> QED BY <1>1, <2>2, <2>3 DEF Pliegue
  <2>5. it = [s \in SUBSET D |-> SigueD(it, s)]
    <3> HIDE DEF SigueD, D
    <3> QED BY <2>4
  <2> HIDE DEF it, SigueD, Sigue, D
  <2> QED
    BY <1>1, <2>3, <2>5
<1> HIDE DEF it, l, D
<1>5. h[0] = m
  <2>1. 1..0 = {} /\ {} \in SUBSET (1..N) /\ 0 \in 0..N
    OBVIOUS
  <2> QED BY <2>1, <1>4
<1>6. ASSUME NEW n \in 1..N
      PROVE  h[n] = Soltar(h[n - 1], b - n + 1)
  <2>1. 1..n # {} /\ Max(1..n) = n /\ (1..n) \ {n} = 1..(n - 1)
    BY Hasta
  <2>2. 1..n \in SUBSET (1..N)
    OBVIOUS
  <2>3. it[1..n] = Soltar(it[1..(n - 1)], b - n + 1)
    BY <1>4, <2>1, <2>2
  <2> QED
    BY <2>3
<1>7. h[N] = it[D]
  BY <1>1
<1>8. Soltados(m, a, b) = h[N]
  BY <1>2, <1>7
<1> HIDE DEF h
<1> QED
  BY ONLY <1>5, <1>6, <1>8 DEF Vueltas

(* What is left of a file of no block: the indirect one and the direct one.*)
Vaciar(m) ==
  LET sinIp == [Desocupar(m, m.f_ip) EXCEPT !.f_ip = 0]
  IN  [Desocupar(sinIp, sinIp.f_dp) EXCEPT !.f_dp = 0]

(* Pointers of the FCB say nothing of the blocks.                          *)
LEMMA PunteroEnCero ==
  ASSUME NEW d, NEW a, NEW m, NEW sueltas, Suelta(d, a, m, sueltas)
  PROVE  /\ Suelta(d, a, [m EXCEPT !.f_ip = 0], sueltas)
         /\ Suelta(d, a, [m EXCEPT !.f_dp = 0], sueltas)
         /\ [m EXCEPT !.f_ip = 0].f_dp = m.f_dp
<1>1. ASSUME NEW r, \/ r = [m EXCEPT !.f_ip = 0]
                    \/ r = [m EXCEPT !.f_dp = 0]
      PROVE  Suelta(d, a, r, sueltas)
  <2>1. /\ r \in Estados /\ r.mapa = m.mapa /\ r.bloques = m.bloques
        /\ r.alcanza = m.alcanza /\ r.escrito = m.escrito
    BY <1>1, TiposDeBloque DEF Suelta, Estados
  <2> QED BY <2>1 DEF Suelta
<1>2. [m EXCEPT !.f_ip = 0].f_dp = m.f_dp
  BY DEF Suelta, Estados
<1> QED BY <1>1, <1>2

(* The end of a shrinking to nothing.                                      *)
LEMMA Vaciado ==
  ASSUME NEW d, NEW a \in Nat, AntesDeAchicar(d, a), NEW m, Achicando(d, a, m, 1)
  PROVE  Suelta(d, a, Vaciar(m), -1..(a - 1)) /\ Vaciar(m).f_ip = 0
<1>1. /\ m.f_dp = d.f_dp /\ m.f_ip = d.f_ip /\ Suelta(d, a, m, 1..(a - 1))
      /\ -1 \in -1..(a - 1) /\ 0 \in -1..(a - 1)
      /\ (1..(a - 1) \union {-1}) \union {0} = -1..(a - 1)
  BY DEF Achicando, AntesDeAchicar
<1>2. PICK ip, dp : ip = d.f_ip /\ dp = d.f_dp
  OBVIOUS
<1>3. ip = En(d, -1) /\ dp = En(d, 0)
  BY <1>2 DEF En, Lugar, Resuelve
<1>4. PICK s : s = Desocupar(m, ip)
  OBVIOUS
<1>5. PICK k, j : k = -1 /\ j = 0
  OBVIOUS
<1>6. PICK u : u = 1..(a - 1)
  OBVIOUS
<1>7. Suelta(d, a, s, u \union {k}) /\ s.f_dp = m.f_dp
  <2>1. Suelta(d, a, m, u) /\ k \in -1..(a - 1) /\ ip = En(d, k)
    BY <1>1, <1>3, <1>5, <1>6
  <2>2. a \in Nat /\ AntesDeAchicar(d, a)
    OBVIOUS
  <2> QED BY ONLY <1>4, <2>1, <2>2, UnoMenos
<1>8. PICK t : t = [s EXCEPT !.f_ip = 0]
  OBVIOUS
<1>9. Suelta(d, a, t, u \union {k}) /\ t.f_dp = dp /\ t.f_ip = 0
  <2>1. s \in Estados
    BY <1>7 DEF Suelta
  <2>2. t.f_ip = 0
    BY <1>8, <2>1 DEF Estados
  <2> QED BY <1>1, <1>2, <1>7, <1>8, <2>2, PunteroEnCero
<1>10. PICK v : v = Desocupar(t, dp)
  OBVIOUS
<1>11. PICK w : w = u \union {k}
  OBVIOUS
<1>12. Suelta(d, a, v, w \union {j}) /\ v.f_ip = t.f_ip
  <2>1. Suelta(d, a, t, w) /\ j \in -1..(a - 1) /\ dp = En(d, j)
    BY <1>1, <1>3, <1>5, <1>9, <1>11
  <2>2. a \in Nat /\ AntesDeAchicar(d, a)
    OBVIOUS
  <2> QED BY ONLY <1>10, <2>1, <2>2, UnoMenos
<1>13. Vaciar(m) = [v EXCEPT !.f_dp = 0]
  BY <1>1, <1>2, <1>4, <1>8, <1>9, <1>10 DEF Vaciar
<1>14. Suelta(d, a, Vaciar(m), w \union {j})
  <2>1. PICK x : x = w \union {j}
    OBVIOUS
  <2>2. Suelta(d, a, v, x)
    BY <1>12, <2>1
  <2>3. Suelta(d, a, [v EXCEPT !.f_dp = 0], x)
    BY ONLY <2>2, PunteroEnCero
  <2> QED BY ONLY <1>13, <2>1, <2>3
<1>15. w \union {j} = -1..(a - 1)
  BY <1>1, <1>5, <1>6, <1>11
<1>16. Vaciar(m).f_ip = 0
  <2>1. v \in Estados
    BY <1>12 DEF Suelta
  <2>2. [v EXCEPT !.f_dp = 0].f_ip = v.f_ip
    BY <2>1 DEF Estados
  <2> QED BY <1>9, <1>12, <1>13, <2>2
<1> QED BY <1>14, <1>15, <1>16

(* The same of a file of which nothing is known.                           *)
LEMMA VaciarEs ==
  ASSUME NEW d \in Estados, NEW m, m = Vaciar(d)
  PROVE  LET otros == Bloques \ {d.f_ip, d.f_dp}
         IN  /\ m \in Estados /\ m.f_ip = 0 /\ m.alcanza = d.alcanza
             /\ m.mapa = d.mapa \ {d.f_ip, d.f_dp}
             /\ \A b \in otros : m.bloques[b] = d.bloques[b]
             /\ m.bloques[d.f_ip] = Ceros /\ m.bloques[d.f_dp] = Ceros
             /\ \A e \in m.escrito : \/ e \in d.escrito
                                    \/ \A b \in otros : e.bloques[b] = d.bloques[b]
<1>1. PICK ip, dp : ip = d.f_ip /\ dp = d.f_dp
  OBVIOUS
<1>2. /\ ip \in Bloques /\ dp \in Bloques /\ 0 \in Bloques /\ d.bloques \in Buffers
      /\ d.mapa \in SUBSET Bloques
  BY <1>1, TiposDeBloque DEF Estados
<1>3. PICK s : s = Desocupar(d, ip)
  OBVIOUS
<1>4. PICK bs, mapa : bs = [d.bloques EXCEPT ![ip] = Ceros] /\ mapa = d.mapa \ {ip}
  OBVIOUS
<1>5. s \in Estados /\ \E u \in Estados : /\ Deja(d, u, mapa, d.bloques)
                                        /\ Deja(u, s, mapa, bs)
  BY <1>2, <1>3, <1>4, DesocuparEs
<1>6. /\ s.mapa = mapa /\ s.bloques = bs /\ s.f_dp = dp /\ s.alcanza = d.alcanza
      /\ \A e \in s.escrito : e \in d.escrito \/ e.bloques = d.bloques \/ e.bloques = bs
  BY <1>1, <1>5 DEF Deja, Imagen
<1>7. PICK t : t = [s EXCEPT !.f_ip = 0]
  OBVIOUS
<1>8. /\ t \in Estados /\ t.mapa = mapa /\ t.bloques = bs /\ t.f_dp = dp /\ t.f_ip = 0
      /\ t.alcanza = d.alcanza /\ t.escrito = s.escrito
  BY <1>2, <1>5, <1>6, <1>7 DEF Estados
<1>9. PICK v : v = Desocupar(t, dp)
  OBVIOUS
<1>10. PICK cs, resto : cs = [bs EXCEPT ![dp] = Ceros] /\ resto = mapa \ {dp}
  OBVIOUS
<1>11. v \in Estados /\ \E u \in Estados : /\ Deja(t, u, resto, bs)
                                         /\ Deja(u, v, resto, cs)
  BY <1>2, <1>8, <1>9, <1>10, DesocuparEs
<1>12. /\ v.mapa = resto /\ v.bloques = cs /\ v.f_ip = 0 /\ v.alcanza = d.alcanza
       /\ \A e \in v.escrito : e \in s.escrito \/ e.bloques = bs \/ e.bloques = cs
  BY <1>8, <1>11 DEF Deja, Imagen
<1>13. m = [v EXCEPT !.f_dp = 0]
  BY <1>1, <1>3, <1>7, <1>8, <1>9 DEF Vaciar
<1>14. /\ m \in Estados /\ m.mapa = resto /\ m.bloques = cs /\ m.f_ip = 0
       /\ m.alcanza = d.alcanza /\ m.escrito = v.escrito
  BY <1>2, <1>11, <1>12, <1>13 DEF Estados
<1>15. /\ \A b \in Bloques \ {ip, dp} : cs[b] = d.bloques[b] /\ bs[b] = d.bloques[b]
       /\ cs[ip] = Ceros /\ cs[dp] = Ceros
  BY <1>2, <1>4, <1>10 DEF Buffers
<1>16. ASSUME NEW e \in m.escrito, e \notin d.escrito, NEW b \in Bloques \ {ip, dp}
       PROVE  e.bloques[b] = d.bloques[b]
  BY <1>6, <1>12, <1>14, <1>15, <1>16
<1> QED BY <1>1, <1>4, <1>10, <1>14, <1>15, <1>16

(* A shrinking is its loop and, for an empty file, the two blocks left.    *)
LEMMA AchicarEs ==
  ASSUME NEW d, NEW a, NEW n, NEW s, s = Soltados(d, Tope(n, 1) - 1, a - 2)
  PROVE  Achicar(d, a, n) = IF n > 0 THEN s ELSE Vaciar(s)
<1>1. PICK w : w = Rango(Tope(n, 1) - 1, a - 2)
  OBVIOUS
<1>2. PICK t : t = FoldLeft(Soltar, d, Reverse(w))
  OBVIOUS
<1>3. Achicar(d, a, n) = IF n > 0 THEN t ELSE Vaciar(t)
  BY <1>1, <1>2 DEF Achicar, Soltar, Vaciar, FoldLeft, MapThenFoldSet
<1>4. s = t
  BY <1>1, <1>2 DEF Soltados
<1> QED BY <1>3, <1>4

(* A shrinking to n blocks.                                                *)
LEMMA Achicado ==
  ASSUME NEW d, NEW a \in Nat, NEW n \in Nat, AntesDeAchicar(d, a),
         POR_BLOQUE \in Nat, n < a
  PROVE  LET m == Achicar(d, a, n)
         IN  IF n >= 1 THEN Achicando(d, a, m, n)
             ELSE Suelta(d, a, m, -1..(a - 1)) /\ m.f_ip = 0
<1> DEFINE c == IF n = 0 THEN 1 ELSE n
<1>0. PICK N : N = a - c
  OBVIOUS
<1>1. a >= 1 /\ a <= POR_BLOQUE + 1 /\ d \in Estados
  BY DEF AntesDeAchicar
<1>2. c \in Nat /\ c >= 1 /\ c <= a /\ N \in Nat /\ Tope(n, 1) = c
  BY <1>0, <1>1 DEF Tope
<1>3. PICK x, y : x = c - 1 /\ y = a - 2
  OBVIOUS
<1>4. PICK m : m = Soltados(d, x, y)
  OBVIOUS
<1>5. PICK h : Vueltas(h, d, y, N) /\ m = h[N]
  <2>1. x \in Nat /\ y \in Int /\ N = y - x + 1 /\ y < POR_BLOQUE
    BY <1>0, <1>1, <1>2, <1>3
  <2>2. PICK h : Vueltas(h, d, y, N) /\ Soltados(d, x, y) = h[N]
    BY <1>1, <1>2, <2>1, BucleDeSoltar
  <2> QED BY <1>4, <2>2
<1>6. Achicando(d, a, m, c)
  <2> DEFINE S == {i \in 0..N : Achicando(d, a, h[i], a - i)}
  <2>1. 0 \in S
    BY <1>2, <1>5, NadaAchicado DEF Vueltas
  <2>2. ASSUME NEW i \in 0..(N - 1), i \in S
        PROVE  i + 1 \in S
    <3>1. PICK k : k = a - i
      OBVIOUS
    <3>2. /\ i + 1 \in 1..N /\ (i + 1) - 1 = i /\ k \in 2..a
          /\ y - (i + 1) + 1 = k - 2 /\ a - (i + 1) = k - 1 /\ i + 1 \in 0..N
      BY <1>0, <1>1, <1>2, <1>3, <3>1
    <3>3. h[i + 1] = Soltar(h[i], k - 2)
      BY <1>5, <3>2 DEF Vueltas
    <3>4. Achicando(d, a, h[i], k)
      BY <2>2, <3>1
    <3>5. Achicando(d, a, h[i + 1], k - 1)
      BY <3>2, <3>3, <3>4, UnPunteroMenos
    <3> QED BY <3>2, <3>5
  <2> HIDE DEF S
  <2>3. \A i \in 0..N : i \in S
    BY <1>2, <2>1, <2>2, Induccion
  <2>4. N \in S /\ a - N = c
    BY <1>0, <1>2, <2>3
  <2> QED BY <1>5, <2>4 DEF S
<1>7. Achicar(d, a, n) = IF n > 0 THEN m ELSE Vaciar(m)
  BY <1>2, <1>3, <1>4, AchicarEs
<1>8. CASE n >= 1
  BY <1>6, <1>7, <1>8
<1>9. CASE n = 0
  <2>1. PICK s : s = Vaciar(m)
    OBVIOUS
  <2>2. Suelta(d, a, s, -1..(a - 1)) /\ s.f_ip = 0
    BY <1>6, <1>9, <2>1, Vaciado
  <2> QED BY <1>7, <1>9, <2>1, <2>2
<1> QED
  BY <1>8, <1>9
-----------------------------------------------------------------------------
(* The invariant.  The blocks of a file and where each of its positions is. *)
Ref(f, k) == Lugar(blocks_buffer, fcb[f], k)
PosDe(f) == Posiciones(Cuantos(f), fcb[f].f_ip)

Tipos ==
  /\ bitmap \subseteq Bloques /\ blocks_buffer \in Buffers
  /\ DOMAIN fcb \subseteq ARCHIVOS
  /\ \A f \in DOMAIN fcb : /\ fcb[f].f_size \in TAMANIOS \union {0}
                           /\ fcb[f].f_dp \in Bloques /\ fcb[f].f_ip \in Bloques
  /\ disco \in {"exacto", "pierde"} \union Finales

(* Every position of every file has a block of its own, in use; what is    *)
(* not in use is clean, and an empty file has no indirect block.           *)
Repartidos ==
  /\ \A f \in DOMAIN fcb : Cuantos(f) <= POR_BLOQUE + 1
  /\ \A f \in DOMAIN fcb : Cuantos(f) = 0 => fcb[f].f_ip = 0
  /\ \A f \in DOMAIN fcb : \A k \in PosDe(f) : Ref(f, k) \in bitmap
  /\ \A f, g \in DOMAIN fcb :
       \A k \in PosDe(f), j \in PosDe(g) :
         Ref(f, k) = Ref(g, j) => f = g /\ k = j
  /\ Limpios(bitmap, blocks_buffer)

Propio(f, b) == \E k \in PosDe(f) : b = Ref(f, k)
SinPerdidos == \A b \in bitmap : \E f \in DOMAIN fcb : Propio(f, b)

Inductivo ==
  /\ Tipos
  /\ Entero => Repartidos
  /\ disco = "exacto" => SinPerdidos

(* The blocks of the files other than f.                                   *)
Ajeno(f, b) == \E g \in DOMAIN fcb : g # f /\ Propio(g, b)
RespetaAjenos(f, bloques) ==
  \A b \in Bloques : Ajeno(f, b) => bloques[b] = blocks_buffer[b]

(* What truncating f to n blocks leaves: on the disk at any moment, and in *)
(* the end, if there were blocks for it.                                   *)
ImagenDeTruncar(f, n, e) ==
  /\ RespetaAjenos(f, e.bloques)
  /\ Cuantos(f) < n =>
       /\ bitmap \subseteq e.mapa /\ Limpios(e.mapa, e.bloques)
       /\ \A k \in 0..(Cuantos(f) - 1) :
            /\ Lugar(e.bloques, fcb[f], k) = Ref(f, k)
            /\ e.bloques[Ref(f, k)] = blocks_buffer[Ref(f, k)]
SuyoEn(m, n, b) == \E k \in Posiciones(n, m.f_ip) : b = En(m, k)
Completa(f, n, m) ==
  /\ n <= POR_BLOQUE + 1 /\ (n = 0 => m.f_ip = 0)
  /\ \A b \in Bloques : Ajeno(f, b) => b \in m.mapa
  /\ \A k \in Posiciones(n, m.f_ip) : En(m, k) \in m.mapa /\ ~Ajeno(f, En(m, k))
  /\ \A k, j \in Posiciones(n, m.f_ip) : En(m, k) = En(m, j) => k = j
  /\ Limpios(m.mapa, m.bloques)
  /\ SinPerdidos /\ ~Pierde(f, n) =>
       \A b \in m.mapa : Ajeno(f, b) \/ SuyoEn(m, n, b)
  /\ \A k \in 0..(n - 1) :
       IF k < Cuantos(f) THEN m.bloques[En(m, k)] = blocks_buffer[Ref(f, k)]
                         ELSE m.bloques[En(m, k)] = Ceros
Truncada(f, n, m) ==
  /\ m \in Estados /\ RespetaAjenos(f, m.bloques)
  /\ \A e \in m.escrito : ImagenDeTruncar(f, n, e)
  /\ m.alcanza => Completa(f, n, m)

(* The state in which truncar_archivo begins.                              *)
Partida(f) ==
  [mapa |-> bitmap, bloques |-> blocks_buffer, f_dp |-> fcb[f].f_dp,
   f_ip |-> fcb[f].f_ip, alcanza |-> TRUE, escrito |-> {}]

(* Those positions, case by case: a file of one block has the indirect one *)
(* when its FCB names it.                                                  *)
LEMMA PosicionesDe ==
  ASSUME NEW n \in Nat, NEW ip
  PROVE  /\ n > 1 \/ ip # 0 => Posiciones(n, ip) = -1..(n - 1)
         /\ n = 1 /\ ip = 0 => Posiciones(n, ip) = {0}
         /\ n = 0 /\ ip = 0 => Posiciones(n, ip) = {}
         /\ \A k \in Posiciones(n, ip) : k \in -1..(n - 1)
         /\ \A k \in 0..(n - 1) : k \in Posiciones(n, ip)
         /\ -1 \in Posiciones(n, ip) <=> (n > 1 \/ ip # 0)
BY DEF Posiciones

(* The number of blocks of a file is a number, whatever the sizes.         *)
LEMMA CantEnNat ==
  ASSUME Tipos, NEW f \in DOMAIN fcb
  PROVE  Cuantos(f) \in Nat
<1>1. fcb[f].f_size \in TAMANIOS \union {0}
  BY DEF Tipos
<1>2. TAMANIOS \subseteq Nat
  BY SupuestoArchivos
<1>3. fcb[f].f_size \in Nat
  <2>1. \A x \in TAMANIOS \union {0} : x \in Nat
    BY ONLY <1>2
  <2> QED BY ONLY <1>1, <2>1
<1> QED BY <1>3, CantidadDe DEF Cuantos

(* The number of blocks of a file, and its positions.                      *)
LEMMA CantDe ==
  ASSUME Tipos, NEW f \in DOMAIN fcb
  PROVE  /\ Cuantos(f) \in Nat /\ fcb[f].f_size \in Nat
         /\ 0 \in Nat /\ CalcularBloques(0) = 0
         /\ \A k \in PosDe(f) : k \in -1..(Cuantos(f) - 1)
         /\ \A k \in 0..(Cuantos(f) - 1) : k \in PosDe(f)
         /\ -1 \in PosDe(f) <=> (Cuantos(f) > 1 \/ fcb[f].f_ip # 0)
<1>1. fcb[f].f_size \in Nat
  <2>1. fcb[f].f_size \in TAMANIOS \union {0}
    BY DEF Tipos
  <2>2. TAMANIOS \subseteq Nat
    BY SupuestoArchivos
  <2>3. \A x \in TAMANIOS \union {0} : x \in Nat
    BY ONLY <2>2
  <2> QED BY ONLY <2>1, <2>3
<1>2. CalcularBloques(0) = 0
  BY CantidadDe
<1>3. PICK a, ip : a = Cuantos(f) /\ ip = fcb[f].f_ip
  OBVIOUS
<1>4. a \in Nat
  BY <1>3, CantEnNat
<1>5. PosDe(f) = Posiciones(a, ip)
  BY <1>3 DEF PosDe
<1> QED BY <1>1, <1>2, <1>3, <1>4, <1>5, PosicionesDe

(* The blocks of the others are in use and are not the file's.             *)
LEMMA AjenoEs ==
  ASSUME Tipos, Repartidos, NEW f \in DOMAIN fcb, NEW b, Ajeno(f, b)
  PROVE  b \in bitmap /\ b \in Bloques /\ \A k \in PosDe(f) : b # Ref(f, k)
<1>1. PICK g \in DOMAIN fcb : g # f /\ Propio(g, b)
  BY DEF Ajeno
<1>2. PICK k \in PosDe(g) : b = Ref(g, k)
  BY <1>1 DEF Propio
<1>3. b \in bitmap /\ \A j \in PosDe(f) : b # Ref(f, j)
  BY <1>1, <1>2 DEF Repartidos
<1> QED BY <1>3 DEF Tipos

(* Without lost blocks, a block in use is the file's or another's.         *)
LEMMA DeAlguien ==
  ASSUME SinPerdidos, NEW f \in DOMAIN fcb, NEW b \in bitmap
  PROVE  Ajeno(f, b) \/ Propio(f, b)
BY DEF SinPerdidos, Ajeno

(* The references of the files are their positions.                        *)
Clave(f, k) == IF k = -1 THEN <<f, "indirecto", 0>> ELSE <<f, "datos", k>>

(* Each position has a reference of its own, and there are no others.      *)
LEMMA ReferenciasSon ==
  ASSUME Tipos
  PROVE  /\ \A f \in DOMAIN fcb : \A k \in PosDe(f) :
              /\ Clave(f, k) \in TodasReferencias /\ Clave(f, k)[1] = f
              /\ Referido(Clave(f, k)) = Ref(f, k)
         /\ \A r \in TodasReferencias :
              \E f \in DOMAIN fcb : \E k \in PosDe(f) : r = Clave(f, k)
<1>1. ASSUME NEW f \in DOMAIN fcb, NEW k \in PosDe(f)
      PROVE  /\ Clave(f, k) \in Referencias(f) /\ Clave(f, k)[1] = f
             /\ Referido(Clave(f, k)) = Ref(f, k)
  <2>1. PICK a : a = Cuantos(f)
    OBVIOUS
  <2>2. /\ a \in Nat /\ k \in -1..(a - 1) /\ DOMAIN DeDatos(f) = 0..(a - 1)
        /\ -1 \in PosDe(f) <=> TieneIndirecto(f)
    BY <2>1, CantDe DEF DeDatos, TieneIndirecto
  <2>3. CASE k = -1
    <3>1. TieneIndirecto(f)
      BY <2>2, <2>3
    <3>2. Clave(f, k) = <<f, "indirecto", 0>>
      BY <2>3 DEF Clave
    <3>3. <<f, "indirecto", 0>>[2] = "indirecto" /\ <<f, "indirecto", 0>>[1] = f
      OBVIOUS
    <3>4. Referido(<<f, "indirecto", 0>>) = fcb[f].f_ip
      BY <3>3 DEF Referido
    <3>5. Ref(f, k) = fcb[f].f_ip
      BY <2>3 DEF Ref, Lugar
    <3>6. <<f, "indirecto", 0>> \in Referencias(f)
      BY <3>1, Zenon DEF Referencias
    <3> QED BY <3>2, <3>3, <3>4, <3>5, <3>6
  <2>4. CASE k # -1
    <3>1. k \in 0..(a - 1)
      BY <2>2, <2>4
    <3>2. Clave(f, k) = <<f, "datos", k>>
      BY <2>4 DEF Clave
    <3>3. Referido(<<f, "datos", k>>) = DeDatos(f)[k]
      BY DEF Referido
    <3>4. DeDatos(f)[k] = Resuelve(blocks_buffer, fcb[f], k)
      BY <2>1, <3>1 DEF DeDatos
    <3>5. <<f, "datos", k>>[1] = f
      OBVIOUS
    <3> QED BY <2>2, <2>4, <3>1, <3>2, <3>3, <3>4, <3>5 DEF Referencias, Ref, Lugar
  <2> QED BY <2>3, <2>4
<1>2. ASSUME NEW f \in DOMAIN fcb, NEW r \in Referencias(f)
      PROVE  \E k \in PosDe(f) : r = Clave(f, k)
  <2>1. PICK a : a = Cuantos(f)
    OBVIOUS
  <2>2. /\ a \in Nat /\ DOMAIN DeDatos(f) = 0..(a - 1)
        /\ -1 \in PosDe(f) <=> TieneIndirecto(f)
        /\ \A k \in 0..(a - 1) : k \in PosDe(f) /\ k # -1
    BY <2>1, CantDe DEF DeDatos, TieneIndirecto
  <2>3. \/ \E k \in 0..(a - 1) : r = <<f, "datos", k>>
        \/ r = <<f, "indirecto", 0>> /\ TieneIndirecto(f)
    BY <2>2 DEF Referencias
  <2>4. CASE \E k \in 0..(a - 1) : r = <<f, "datos", k>>
    BY <2>2, <2>4 DEF Clave
  <2>5. CASE r = <<f, "indirecto", 0>> /\ TieneIndirecto(f)
    BY <2>2, <2>5 DEF Clave
  <2> QED BY <2>3, <2>4, <2>5
<1> QED BY <1>1, <1>2 DEF TodasReferencias

(* A file of one block can be emptied without freeing block 0 of another.  *)
LEMMA CeroDeNadie ==
  ASSUME Tipos, NEW f \in DOMAIN fcb, ~LiberaElCero(f, 0),
         Cuantos(f) = 1, fcb[f].f_ip = 0
  PROVE  ~Ajeno(f, 0)
<1> SUFFICES ASSUME Ajeno(f, 0) PROVE FALSE
  OBVIOUS
<1>1. PICK g \in DOMAIN fcb : g # f /\ Propio(g, 0)
  BY DEF Ajeno
<1>2. PICK k \in PosDe(g) : 0 = Ref(g, k)
  BY <1>1 DEF Propio
<1>3. PICK r : r = Clave(g, k)
  OBVIOUS
<1>4. r \in TodasReferencias /\ r[1] = g /\ Referido(r) = 0
  BY <1>2, <1>3, ReferenciasSon
<1> QED BY <1>1, <1>4 DEF LiberaElCero

(* A truncation begins with the file as it is.                             *)
LEMMA PartidaEs ==
  ASSUME PunterosEnteros, Tipos, Repartidos, NEW f \in DOMAIN fcb
  PROVE  /\ Partida(f) \in Estados /\ Partida(f).mapa = bitmap
         /\ Partida(f).bloques = blocks_buffer
         /\ Partida(f).f_dp = fcb[f].f_dp /\ Partida(f).f_ip = fcb[f].f_ip
         /\ Partida(f).alcanza /\ Partida(f).escrito = {}
         /\ \A bs, k : Lugar(bs, Partida(f), k) = Lugar(bs, fcb[f], k)
         /\ \A k : En(Partida(f), k) = Ref(f, k)
         /\ \A k \in Quedan(Cuantos(f)) : k \in PosDe(f)
         /\ AntesDeCrecer(Partida(f), Cuantos(f))
         /\ Cuantos(f) >= 1 /\ -1 \in PosDe(f)
              => /\ AntesDeAchicar(Partida(f), Cuantos(f))
                 /\ PosDe(f) = -1..(Cuantos(f) - 1)
<1>1. PICK d : d = Partida(f)
  OBVIOUS
<1>2. /\ d \in Estados /\ d.mapa = bitmap /\ d.bloques = blocks_buffer
      /\ d.f_dp = fcb[f].f_dp /\ d.f_ip = fcb[f].f_ip
      /\ d.alcanza /\ d.escrito = {}
  BY <1>1 DEF Partida, Tipos, Estados
<1>3. \A bs, k : Lugar(bs, d, k) = Lugar(bs, fcb[f], k)
  BY <1>2 DEF Lugar, Resuelve
<1>4. \A k : En(d, k) = Ref(f, k)
  BY <1>2, <1>3 DEF En, Ref
<1>5. PICK a, P : a = Cuantos(f) /\ P = PosDe(f)
  OBVIOUS
<1>6. a \in Nat /\ a <= POR_BLOQUE + 1 /\ Limpios(d.mapa, d.bloques)
  BY <1>2, <1>5, CantDe DEF Repartidos
<1>7. /\ \A k \in P : En(d, k) \in d.mapa
      /\ \A k, j \in P : En(d, k) = En(d, j) => k = j
  BY <1>2, <1>4, <1>5 DEF Repartidos
<1>8. \A k \in Quedan(a) : k \in P
  <2>1. /\ a = 0 => Quedan(a) = {}
        /\ a = 1 => Quedan(a) = {0}
        /\ a > 1 => Quedan(a) = -1..(a - 1)
    BY <1>6, QuedanEs
  <2>2. /\ \A k \in 0..(a - 1) : k \in P
        /\ a > 1 => -1 \in P
    BY <1>5, CantDe
  <2> QED BY <1>6, <2>1, <2>2
<1>9. AntesDeCrecer(d, a)
  BY <1>2, <1>6, <1>7, <1>8 DEF AntesDeCrecer
<1>10. ASSUME a >= 1, -1 \in P
       PROVE  AntesDeAchicar(d, a) /\ P = -1..(a - 1)
  <2>1. P = -1..(a - 1)
    <3>1. PICK ip : ip = fcb[f].f_ip
      OBVIOUS
    <3>2. P = Posiciones(a, ip)
      BY <1>5, <3>1 DEF PosDe
    <3> QED BY <1>6, <1>10, <3>2, PosicionesDe
  <2> QED BY <1>2, <1>6, <1>7, <1>10, <2>1 DEF AntesDeAchicar
<1> QED BY <1>1, <1>2, <1>3, <1>4, <1>5, <1>8, <1>9, <1>10

(* What a growth leaves alone: the blocks of the others, and those of the  *)
(* file's data.                                                            *)
LEMMA QuietosRespetan ==
  ASSUME PunterosEnteros, Tipos, Repartidos, NEW f \in DOMAIN fcb,
         NEW bs, Quietos(Partida(f), Cuantos(f), bs)
  PROVE  /\ RespetaAjenos(f, bs)
         /\ \A k \in 0..(Cuantos(f) - 1) : bs[Ref(f, k)] = blocks_buffer[Ref(f, k)]
<1>1. PICK d, a : d = Partida(f) /\ a = Cuantos(f)
  OBVIOUS
<1>2. /\ d.mapa = bitmap /\ d.bloques = blocks_buffer
      /\ d.f_ip = Ref(f, -1) /\ a \in Nat
      /\ \A k \in 0..(a - 1) : k \in PosDe(f)
      /\ a > 1 => -1 \in PosDe(f)
  BY <1>1, PartidaEs, CantDe DEF Ref, Lugar
<1>3. ASSUME NEW b \in Bloques, Ajeno(f, b)
      PROVE  bs[b] = blocks_buffer[b]
  <2>1. b \in bitmap /\ (a <= 1 \/ b # d.f_ip)
    BY <1>2, <1>3, AjenoEs
  <2> QED BY <1>1, <1>2, <2>1 DEF Quietos
<1>4. ASSUME NEW k \in 0..(a - 1)
      PROVE  bs[Ref(f, k)] = blocks_buffer[Ref(f, k)]
  <2>1. Ref(f, k) \in bitmap
    BY <1>2 DEF Repartidos
  <2>2. a <= 1 \/ Ref(f, k) # d.f_ip
    <3> SUFFICES ASSUME ~(a <= 1) PROVE Ref(f, k) # d.f_ip
      OBVIOUS
    <3>1. k \in PosDe(f) /\ -1 \in PosDe(f) /\ k # -1
      BY <1>2
    <3> QED BY <1>2, <3>1 DEF Repartidos
  <2> QED BY <1>1, <1>2, <2>1, <2>2 DEF Quietos
<1> QED BY <1>1, <1>3, <1>4 DEF RespetaAjenos

(* An image of a growth is one of a truncation.                            *)
LEMMA ImagenCreciente ==
  ASSUME PunterosEnteros, Tipos, Repartidos, NEW f \in DOMAIN fcb, NEW n,
         NEW e, ImagenDeCrecer(Partida(f), Cuantos(f), e)
  PROVE  ImagenDeTruncar(f, n, e)
<1>1. PICK d, a : d = Partida(f) /\ a = Cuantos(f)
  OBVIOUS
<1>2. /\ d.mapa = bitmap
      /\ \A bs, k : Lugar(bs, d, k) = Lugar(bs, fcb[f], k)
      /\ \A k : En(d, k) = Ref(f, k)
  BY <1>1, PartidaEs
<1>3. Quietos(d, a, e.bloques) /\ bitmap \subseteq e.mapa /\ Limpios(e.mapa, e.bloques)
      /\ \A k \in 0..(a - 1) : Lugar(e.bloques, fcb[f], k) = Ref(f, k)
  BY <1>1, <1>2 DEF ImagenDeCrecer
<1>4. /\ RespetaAjenos(f, e.bloques)
      /\ \A k \in 0..(a - 1) : e.bloques[Ref(f, k)] = blocks_buffer[Ref(f, k)]
  BY <1>1, <1>3, QuietosRespetan
<1> QED BY <1>1, <1>3, <1>4 DEF ImagenDeTruncar

(* A growth from nothing to one block.                                     *)
LEMMA TruncadaAUno ==
  ASSUME PunterosEnteros, Tipos, Repartidos, NEW f \in DOMAIN fcb,
         Cuantos(f) = 0, NEW m, m = Crecer(Partida(f), 0, 1)
  PROVE  Truncada(f, 1, m)
<1>1. PICK d : d = Partida(f)
  OBVIOUS
<1>2. /\ d \in Estados /\ d.mapa = bitmap /\ d.bloques = blocks_buffer
      /\ d.f_ip = fcb[f].f_ip /\ d.alcanza /\ d.escrito = {}
      /\ bitmap \in SUBSET Bloques
  BY <1>1, PartidaEs DEF Tipos
<1>3. fcb[f].f_ip = 0 /\ Limpios(bitmap, blocks_buffer) /\ POR_BLOQUE \in Nat
  BY CabePuntero DEF Repartidos
<1>4. m = AsignarDirecto(d)
  BY <1>1, <1>2, CrecidoAUno
<1>5. PosDe(f) = {}
  BY <1>3, PosicionesDe DEF PosDe
<1>6. m \in Estados /\ \/ Libres(d) = {} /\ SinBloque(d, m)
                       \/ /\ m.f_dp \in Bloques \ d.mapa
                          /\ m.mapa = d.mapa \union {m.f_dp} /\ m.bloques = d.bloques
                          /\ m.f_ip = d.f_ip /\ m.alcanza = d.alcanza
                          /\ m.escrito = d.escrito \union {Imagen(m.mapa, d.bloques)}
  BY <1>2, <1>4, AsignarDirectoEs
<1>7. m.bloques = blocks_buffer /\ RespetaAjenos(f, m.bloques)
  BY <1>2, <1>6 DEF SinBloque, RespetaAjenos
<1>8. CASE Libres(d) = {} /\ SinBloque(d, m)
  <2>1. ~m.alcanza /\ m.escrito = {}
    BY <1>2, <1>8 DEF SinBloque
  <2> QED BY <1>6, <1>7, <2>1 DEF Truncada
<1>9. ASSUME /\ m.f_dp \in Bloques \ d.mapa
             /\ m.mapa = d.mapa \union {m.f_dp} /\ m.bloques = d.bloques
             /\ m.f_ip = d.f_ip /\ m.alcanza = d.alcanza
             /\ m.escrito = d.escrito \union {Imagen(m.mapa, d.bloques)}
      PROVE  Truncada(f, 1, m)
  <2>1. Limpios(m.mapa, m.bloques) /\ bitmap \subseteq m.mapa
    BY <1>2, <1>3, <1>9 DEF Limpios
  <2>2. ASSUME NEW e \in m.escrito PROVE ImagenDeTruncar(f, 1, e)
    <3>1. e = Imagen(m.mapa, d.bloques)
      BY <1>2, <1>9
    <3>2. e.mapa = m.mapa /\ e.bloques = m.bloques
      BY <1>9, <3>1 DEF Imagen
    <3>3. 0..(0 - 1) = {}
      OBVIOUS
    <3> QED BY <1>7, <2>1, <3>2, <3>3 DEF ImagenDeTruncar
  <2>3. Posiciones(1, m.f_ip) = {0}
    BY <1>2, <1>3, <1>9, PosicionesDe
  <2>4. En(m, 0) = m.f_dp
    BY DEF En, Lugar, Resuelve
  <2>5. \A b \in Bloques : Ajeno(f, b) => b \in bitmap
    BY AjenoEs
  <2>6. m.f_dp \in m.mapa /\ ~Ajeno(f, m.f_dp) /\ m.bloques[m.f_dp] = Ceros
    BY <1>2, <1>3, <1>9, <2>5 DEF Limpios
  <2>7. SinPerdidos => \A b \in m.mapa : Ajeno(f, b) \/ b = m.f_dp
    <3> SUFFICES ASSUME SinPerdidos, NEW b \in m.mapa, b # m.f_dp
                 PROVE  Ajeno(f, b)
      OBVIOUS
    <3>1. b \in bitmap
      BY <1>2, <1>9
    <3>2. ~Propio(f, b)
      BY <1>5 DEF Propio
    <3> QED BY <3>1, <3>2, DeAlguien
  <2>8. \A k \in 0..(1 - 1) : k = 0 /\ ~(k < 0)
    OBVIOUS
  <2>9. \A b : b = m.f_dp => SuyoEn(m, 1, b)
    BY <2>3, <2>4 DEF SuyoEn
  <2>10. Completa(f, 1, m)
    BY <1>3, <2>1, <2>3, <2>4, <2>5, <2>6, <2>7, <2>8, <2>9 DEF Completa
  <2> QED BY <1>6, <1>7, <2>2, <2>10 DEF Truncada
<1> QED BY <1>6, <1>8, <1>9

(* A growth to two blocks or more.                                         *)
LEMMA TruncadaCrece ==
  ASSUME PunterosEnteros, Tipos, Repartidos, NEW f \in DOMAIN fcb,
         NEW n \in Nat, n > 1, Cuantos(f) < n,
         NEW m, m = Crecer(Partida(f), Cuantos(f), n)
  PROVE  Truncada(f, n, m)
<1>1. PICK d, a : d = Partida(f) /\ a = Cuantos(f)
  OBVIOUS
<1>2. /\ d \in Estados /\ d.mapa = bitmap /\ d.bloques = blocks_buffer
      /\ \A k : En(d, k) = Ref(f, k)
      /\ AntesDeCrecer(d, a) /\ \A k \in Quedan(a) : k \in PosDe(f)
  BY <1>1, PartidaEs
<1>3. a \in Nat /\ n > 1 /\ a < n
  BY <1>1, CantDe
<1>4. Creciendo(d, a, m, n)
  BY <1>1, <1>2, <1>3, Crecido
<1>5. Posiciones(n, m.f_ip) = -1..(n - 1)
  BY <1>3, PosicionesDe
<1>6. /\ m \in Estados /\ bitmap \subseteq m.mapa /\ Quietos(d, a, m.bloques)
      /\ \A e \in m.escrito : ImagenDeCrecer(d, a, e)
  BY <1>2, <1>4 DEF Creciendo, Crece
<1>7. /\ \A k : k \in Quedan(a) => k \in -1..(a - 1)
      /\ \A k \in 0..(a - 1) : k \in Quedan(a)
      /\ a > 1 => Quedan(a) = -1..(a - 1)
  BY <1>3, QuedanEs
<1>8. /\ RespetaAjenos(f, m.bloques)
      /\ \A k \in 0..(a - 1) : m.bloques[Ref(f, k)] = blocks_buffer[Ref(f, k)]
  BY <1>1, <1>6, QuietosRespetan
<1>9. \A e \in m.escrito : ImagenDeTruncar(f, n, e)
  BY <1>1, <1>6, ImagenCreciente
<1>10. ASSUME m.alcanza
       PROVE  Completa(f, n, m)
  <2>1. /\ n <= POR_BLOQUE + 1
        /\ \A k \in -1..(n - 1) :
             En(m, k) \in m.mapa /\ (k \notin Quedan(a) => En(m, k) \notin bitmap)
        /\ \A k \in Quedan(a) : En(m, k) = Ref(f, k)
        /\ \A k, j \in -1..(n - 1) : En(m, k) = En(m, j) => k = j
        /\ \A k \in 0..(n - 1) : k >= a => m.bloques[En(m, k)] = Ceros
        /\ \A b \in m.mapa \ bitmap : \E k \in -1..(n - 1) : b = En(m, k)
        /\ Limpios(m.mapa, m.bloques)
    BY <1>2, <1>4, <1>10 DEF Creciendo, Tiene
  <2>2. \A b \in Bloques : Ajeno(f, b) => b \in m.mapa
    BY <1>6, AjenoEs
  <2>3. ASSUME NEW k \in -1..(n - 1) PROVE ~Ajeno(f, En(m, k))
    <3>1. CASE k \notin Quedan(a)
      BY <2>1, <3>1, AjenoEs
    <3>2. CASE k \in Quedan(a)
      BY <1>2, <2>1, <3>2, AjenoEs
    <3> QED BY <3>1, <3>2
  <2>4. ASSUME SinPerdidos, ~Pierde(f, n), NEW b \in m.mapa, ~Ajeno(f, b)
        PROVE  \E k \in -1..(n - 1) : b = En(m, k)
    <3>1. CASE b \notin bitmap
      BY <2>1, <3>1
    <3>2. CASE b \in bitmap
      <4>1. PICK k \in PosDe(f) : b = Ref(f, k)
        BY <2>4, <3>2, DeAlguien DEF Propio
      <4>2. k \in Quedan(a)
        <5>1. k \in -1..(a - 1)
          BY <1>1, <4>1, CantDe
        <5>2. CASE a > 1
          BY <1>7, <5>1, <5>2
        <5>3. CASE a = 1
          <6>1. fcb[f].f_ip = 0
            BY <1>1, <1>3, <2>4, <5>3 DEF Pierde
          <6>2. k # -1
            <7>1. -1 \in PosDe(f) <=> (a > 1 \/ fcb[f].f_ip # 0)
              BY <1>1, CantDe
            <7>2. ~(a > 1)
              BY <5>3
            <7> QED BY <4>1, <6>1, <7>1, <7>2
          <6>3. k \in 0..(a - 1)
            BY <1>3, <5>1, <6>2
          <6> QED BY <1>7, <6>3
        <5>4. CASE a = 0
          <6>1. fcb[f].f_ip = 0
            BY <1>1, <5>4 DEF Repartidos
          <6>2. PosDe(f) = {}
            BY <1>1, <5>4, <6>1, PosicionesDe DEF PosDe
          <6> QED BY <4>1, <6>2
        <5> QED BY <1>3, <5>2, <5>3, <5>4
      <4>3. k \in -1..(n - 1)
        BY <1>3, <1>7, <4>2
      <4> QED BY <2>1, <4>1, <4>2, <4>3
    <3> QED BY <3>1, <3>2
  <2>5. ASSUME NEW k \in 0..(n - 1), k < a
        PROVE  m.bloques[En(m, k)] = blocks_buffer[Ref(f, k)]
    <3>1. k \in 0..(a - 1)
      BY <1>3, <2>5
    <3> QED BY <1>7, <1>8, <2>1, <3>1
  <2>6. \A k \in 0..(n - 1) : ~(k < a) => k >= a
    BY <1>3
  <2>7. n # 0
    BY <1>3
  <2>8. SinPerdidos /\ ~Pierde(f, n) => \A b \in m.mapa : Ajeno(f, b) \/ SuyoEn(m, n, b)
    BY <1>5, <2>4 DEF SuyoEn
  <2> QED BY <1>1, <1>5, <2>1, <2>2, <2>3, <2>5, <2>6, <2>7, <2>8 DEF Completa
<1> QED BY <1>6, <1>8, <1>9, <1>10 DEF Truncada

(* Emptying a file of one block and no indirect one.                       *)
LEMMA TruncadaACero ==
  ASSUME PunterosEnteros, Tipos, Repartidos, NEW f \in DOMAIN fcb,
         Cuantos(f) = 1, fcb[f].f_ip = 0, NEW m, m = Achicar(Partida(f), 1, 0)
  PROVE  m \in Estados /\ m.alcanza /\ (~LiberaElCero(f, 0) => Truncada(f, 0, m))
<1>1. PICK d : d = Partida(f)
  OBVIOUS
<1>2. /\ d \in Estados /\ d.mapa = bitmap /\ d.bloques = blocks_buffer
      /\ d.f_ip = 0 /\ d.f_dp = Ref(f, 0) /\ d.alcanza /\ d.escrito = {}
      /\ bitmap \in SUBSET Bloques /\ d.f_dp \in Bloques
  BY <1>1, PartidaEs DEF Tipos, Ref, Lugar, Resuelve
<1>3. PICK x, y, N : x = 0 /\ y = -1 /\ N = 0
  OBVIOUS
<1>4. x \in Nat /\ y \in Int /\ y < POR_BLOQUE /\ POR_BLOQUE \in Nat
      /\ N \in Nat /\ N = y - x + 1
  BY <1>3, CabePuntero
<1>5. PICK h : Vueltas(h, d, y, N) /\ Soltados(d, x, y) = h[N]
  BY <1>2, <1>4, BucleDeSoltar
<1>6. Soltados(d, 0, -1) = d
  BY <1>3, <1>5 DEF Vueltas
<1>7. m = Vaciar(d)
  <2>1. PICK a, n : a = 1 /\ n = 0
    OBVIOUS
  <2>2. Tope(n, 1) - 1 = 0 /\ a - 2 = -1 /\ ~(n > 0)
    BY <2>1 DEF Tope
  <2>3. d = Soltados(d, Tope(n, 1) - 1, a - 2)
    BY <1>6, <2>2
  <2>4. Achicar(d, a, n) = Vaciar(d)
    BY <2>2, <2>3, AchicarEs
  <2> QED BY <1>1, <2>1, <2>4
<1>8. PICK dp : dp = d.f_dp
  OBVIOUS
<1>9. /\ m \in Estados /\ m.alcanza /\ m.f_ip = 0 /\ m.mapa = bitmap \ {0, dp}
      /\ \A b \in Bloques \ {0, dp} : m.bloques[b] = blocks_buffer[b]
      /\ m.bloques[0] = Ceros /\ m.bloques[dp] = Ceros
      /\ \A e \in m.escrito :
           \A b \in Bloques \ {0, dp} : e.bloques[b] = blocks_buffer[b]
  BY <1>2, <1>7, <1>8, VaciarEs
<1>10. ASSUME ~LiberaElCero(f, 0)
       PROVE  Truncada(f, 0, m)
  <2>1. 0 \in PosDe(f) /\ Propio(f, dp)
    <3>1. 0 \in 0..(Cuantos(f) - 1)
      OBVIOUS
    <3>2. 0 \in PosDe(f)
      BY <3>1, CantDe
    <3> QED BY <1>2, <1>8, <3>2 DEF Propio
  <2>2. ASSUME NEW b, Ajeno(f, b) PROVE b \in bitmap /\ b \in Bloques \ {0, dp}
    <3>1. b \in bitmap /\ b \in Bloques /\ b # dp
      BY <1>2, <1>8, <2>1, <2>2, AjenoEs
    <3>2. b # 0
      BY <1>10, <2>2, CeroDeNadie
    <3> QED BY <3>1, <3>2
  <2>3. RespetaAjenos(f, m.bloques)
    BY <1>9, <2>2 DEF RespetaAjenos
  <2>4. \A e \in m.escrito : ImagenDeTruncar(f, 0, e)
    <3>1. ~(Cuantos(f) < 0)
      OBVIOUS
    <3> QED BY <1>9, <2>2, <3>1 DEF ImagenDeTruncar, RespetaAjenos
  <2>5. Posiciones(0, m.f_ip) = {} /\ 0..(0 - 1) = {}
    BY <1>9, PosicionesDe
  <2>6. Limpios(m.mapa, m.bloques)
    <3>1. Limpios(bitmap, blocks_buffer)
      BY DEF Repartidos
    <3>2. ASSUME NEW b \in Bloques \ m.mapa PROVE m.bloques[b] = Ceros
      <4>1. b = 0 \/ b = dp \/ (b \in Bloques \ {0, dp} /\ b \notin bitmap)
        BY <1>9
      <4> QED BY <1>9, <3>1, <4>1 DEF Limpios
    <3> QED BY <3>2 DEF Limpios
  <2>7. SinPerdidos => \A b \in m.mapa : Ajeno(f, b)
    <3> SUFFICES ASSUME SinPerdidos, NEW b \in m.mapa PROVE Ajeno(f, b)
      OBVIOUS
    <3>1. b \in bitmap /\ b # dp
      BY <1>9
    <3>2. ~Propio(f, b)
      <4> SUFFICES ASSUME Propio(f, b) PROVE FALSE
        OBVIOUS
      <4>1. PICK k \in PosDe(f) : b = Ref(f, k)
        BY DEF Propio
      <4>2. k = 0
        <5>1. PosDe(f) = {0}
          BY PosicionesDe DEF PosDe
        <5> QED BY <4>1, <5>1
      <4> QED BY <1>2, <1>8, <3>1, <4>1, <4>2
    <3> QED BY <3>1, <3>2, DeAlguien
  <2>8. 0 <= POR_BLOQUE + 1
    BY <1>4
  <2>9. \A b \in Bloques : Ajeno(f, b) => b \in m.mapa
    BY <1>9, <2>2
  <2>10. Completa(f, 0, m)
    BY <1>9, <2>5, <2>6, <2>7, <2>8, <2>9 DEF Completa
  <2> QED BY <1>9, <2>3, <2>4, <2>10 DEF Truncada
<1> QED BY <1>9, <1>10

(* A shrinking of a file that has its indirect block.                      *)
LEMMA TruncadaAchica ==
  ASSUME PunterosEnteros, Tipos, Repartidos, NEW f \in DOMAIN fcb,
         NEW n \in Nat, n < Cuantos(f), -1 \in PosDe(f),
         NEW m, m = Achicar(Partida(f), Cuantos(f), n)
  PROVE  Truncada(f, n, m)
<1>1. PICK d, a, P : d = Partida(f) /\ a = Cuantos(f) /\ P = PosDe(f)
  OBVIOUS
<1>2. a \in Nat /\ a >= 1 /\ n < a
  BY <1>1, CantDe
<1>3. /\ d \in Estados /\ d.mapa = bitmap /\ d.bloques = blocks_buffer
      /\ d.f_ip = Ref(f, -1) /\ d.f_ip = fcb[f].f_ip
      /\ \A k : En(d, k) = Ref(f, k)
      /\ AntesDeAchicar(d, a) /\ P = -1..(a - 1)
  BY <1>1, <1>2, PartidaEs DEF Ref, Lugar
<1>4. POR_BLOQUE \in Nat
  BY CabePuntero
<1>5. IF n >= 1 THEN Achicando(d, a, m, n)
                ELSE Suelta(d, a, m, -1..(a - 1)) /\ m.f_ip = 0
  <2>1. m = Achicar(d, a, n)
    BY <1>1
  <2> QED BY <1>2, <1>3, <1>4, <2>1, Achicado
<1>6. PICK sueltas, Q : /\ sueltas = IF n >= 1 THEN n..(a - 1) ELSE -1..(a - 1)
                        /\ Q = Posiciones(n, m.f_ip)
  OBVIOUS
<1>7. /\ Suelta(d, a, m, sueltas)
      /\ n >= 1 => m.f_ip = fcb[f].f_ip /\ \A k \in -1..(n - 1) : En(m, k) = Ref(f, k)
      /\ n = 0 => m.f_ip = 0
  <2>1. CASE n >= 1
    BY <1>3, <1>5, <1>6, <2>1 DEF Achicando
  <2>2. CASE n = 0
    BY <1>5, <1>6, <2>2
  <2> QED BY <2>1, <2>2
<1>8. /\ \A k \in Q : k \in -1..(n - 1)
      /\ \A k \in 0..(n - 1) : k \in Q
      /\ n = 0 => Q = {}
      /\ n > 1 => Q = -1..(n - 1)
      /\ n = 1 /\ m.f_ip # 0 => Q = -1..(n - 1)
  BY <1>6, <1>7, PosicionesDe
<1>9. /\ sueltas \subseteq P
      /\ \A k \in Q : k \in P /\ k \notin sueltas /\ En(m, k) = Ref(f, k)
      /\ \A k \in 0..(n - 1) : k \in Q /\ k < a /\ k # -1
      /\ -1 \in P
  <2>1. CASE n >= 1
    BY <1>2, <1>3, <1>6, <1>7, <1>8, <2>1
  <2>2. CASE n = 0
    BY <1>2, <1>3, <1>6, <1>8, <2>2
  <2> QED BY <2>1, <2>2
<1>10. ~Pierde(f, n) => \A k \in P : k \in Q \/ k \in sueltas
  <2> SUFFICES ASSUME ~Pierde(f, n), NEW k \in P
               PROVE  k \in Q \/ k \in sueltas
    OBVIOUS
  <2>1. CASE n > 1
    BY <1>2, <1>3, <1>6, <1>8, <2>1
  <2>2. CASE n = 0
    BY <1>3, <1>6, <2>2
  <2>3. CASE n = 1
    <3>1. fcb[f].f_ip # 0
      BY <1>1, <1>2, <2>3 DEF Pierde
    <3>2. Q = -1..(n - 1) /\ sueltas = n..(a - 1)
      BY <1>6, <1>7, <1>8, <2>3, <3>1
    <3> QED BY <1>2, <1>3, <2>3, <3>2
  <2> QED BY <2>1, <2>2, <2>3
<1>11. /\ m \in Estados /\ m.mapa \subseteq bitmap
       /\ \A b \in bitmap : b \in m.mapa <=> \A k \in sueltas : b # Ref(f, k)
       /\ Limpios(m.mapa, m.bloques)
       /\ \A b \in m.mapa : b # d.f_ip => m.bloques[b] = blocks_buffer[b]
       /\ \A e \in m.escrito : ImagenDeAchicar(d, a, e)
  BY <1>3, <1>7 DEF Suelta
<1>12. \A b : Ajeno(f, b) => DeOtro(d, a, b)
  BY <1>1, <1>3, AjenoEs DEF DeOtro
<1>13. ASSUME NEW b, Ajeno(f, b)
       PROVE  b \in m.mapa /\ b # d.f_ip
  <2>1. b \in bitmap /\ \A k \in P : b # Ref(f, k)
    BY <1>1, <1>13, AjenoEs
  <2> QED BY <1>3, <1>9, <1>11, <2>1
<1>14. RespetaAjenos(f, m.bloques)
  BY <1>11, <1>13 DEF RespetaAjenos
<1>15. \A e \in m.escrito : ImagenDeTruncar(f, n, e)
  BY <1>1, <1>2, <1>3, <1>11, <1>12
     DEF ImagenDeTruncar, ImagenDeAchicar, RespetaAjenos
<1>16. /\ \A k \in P : Ref(f, k) \in bitmap
       /\ \A k, j \in P : Ref(f, k) = Ref(f, j) => k = j
       /\ a <= POR_BLOQUE + 1
  BY <1>1 DEF Repartidos
<1>17. \A k \in Q : En(m, k) \in m.mapa /\ ~Ajeno(f, En(m, k))
  <2> SUFFICES ASSUME NEW k \in Q
               PROVE  Ref(f, k) \in m.mapa /\ ~Ajeno(f, Ref(f, k))
    BY <1>9
  <2>1. k \in P /\ k \notin sueltas
    BY <1>9
  <2>2. \A j \in sueltas : Ref(f, k) # Ref(f, j)
    BY <1>9, <1>16, <2>1
  <2> QED BY <1>1, <1>11, <1>16, <2>1, <2>2, AjenoEs
<1>18. \A k, j \in Q : En(m, k) = En(m, j) => k = j
  BY <1>9, <1>16
<1>19. SinPerdidos /\ ~Pierde(f, n) =>
         \A b \in m.mapa : Ajeno(f, b) \/ SuyoEn(m, n, b)
  <2> SUFFICES ASSUME SinPerdidos, ~Pierde(f, n), NEW b \in m.mapa, ~Ajeno(f, b)
               PROVE  SuyoEn(m, n, b)
    OBVIOUS
  <2>1. b \in bitmap
    BY <1>11
  <2>2. PICK k \in P : b = Ref(f, k)
    BY <1>1, <2>1, DeAlguien DEF Propio
  <2>3. k \in Q
    BY <1>10, <1>11, <2>1, <2>2
  <2> QED BY <1>6, <1>9, <2>2, <2>3 DEF SuyoEn
<1>20. \A k \in 0..(n - 1) : m.bloques[En(m, k)] = blocks_buffer[Ref(f, k)]
  <2> SUFFICES ASSUME NEW k \in 0..(n - 1)
               PROVE  m.bloques[En(m, k)] = blocks_buffer[Ref(f, k)]
    OBVIOUS
  <2>1. k \in Q /\ k \in P /\ k # -1
    BY <1>9
  <2>2. Ref(f, k) # d.f_ip /\ En(m, k) = Ref(f, k) /\ En(m, k) \in m.mapa
    BY <1>3, <1>9, <1>16, <1>17, <2>1
  <2> QED BY <1>11, <2>2
<1>21. Completa(f, n, m)
  <2>1. n <= POR_BLOQUE + 1
    BY <1>2, <1>4, <1>16
  <2>2. \A k \in 0..(n - 1) : k < Cuantos(f)
    BY <1>1, <1>9
  <2> QED BY <1>6, <1>7, <1>11, <1>13, <1>17, <1>18, <1>19, <1>20, <2>1, <2>2
          DEF Completa
<1> QED BY <1>11, <1>14, <1>15, <1>21 DEF Truncada

(* A truncation that needs as many blocks as there were.                   *)
LEMMA TruncadaIgual ==
  ASSUME PunterosEnteros, Tipos, Repartidos, NEW f \in DOMAIN fcb,
         NEW m, m = Partida(f)
  PROVE  Truncada(f, Cuantos(f), m)
<1>1. /\ m \in Estados /\ m.mapa = bitmap /\ m.bloques = blocks_buffer
      /\ m.escrito = {} /\ m.f_ip = fcb[f].f_ip /\ \A k : En(m, k) = Ref(f, k)
  BY PartidaEs
<1>2. PICK a, P : a = Cuantos(f) /\ P = PosDe(f)
  OBVIOUS
<1>3. a \in Nat
  BY <1>2, CantDe
<1>4. /\ \A k \in P : Ref(f, k) \in bitmap
      /\ \A k, j \in P : Ref(f, k) = Ref(f, j) => k = j
      /\ a <= POR_BLOQUE + 1 /\ Limpios(bitmap, blocks_buffer)
      /\ a = 0 => m.f_ip = 0
  BY <1>1, <1>2 DEF Repartidos
<1>5. \A k \in 0..(a - 1) : k < a
  BY <1>3
<1>6. P = Posiciones(a, m.f_ip)
  BY <1>1, <1>2 DEF PosDe
<1>7. /\ \A b \in Bloques : Ajeno(f, b) => b \in m.mapa
      /\ \A k \in P : ~Ajeno(f, Ref(f, k))
  BY <1>1, <1>2, AjenoEs
<1>8. SinPerdidos => \A b \in m.mapa : Ajeno(f, b) \/ SuyoEn(m, a, b)
  <2> SUFFICES ASSUME SinPerdidos, NEW b \in m.mapa, ~Ajeno(f, b)
               PROVE  SuyoEn(m, a, b)
    OBVIOUS
  <2>1. Propio(f, b)
    BY <1>1, DeAlguien
  <2> QED BY <1>1, <1>2, <1>6, <2>1 DEF Propio, SuyoEn
<1>9. Completa(f, a, m)
  BY <1>1, <1>2, <1>4, <1>5, <1>6, <1>7, <1>8 DEF Completa
<1> QED BY <1>1, <1>2, <1>9 DEF Truncada, RespetaAjenos

(* truncar_archivo, to any size.                                           *)
LEMMA TruncadoEs ==
  ASSUME PunterosEnteros, Tipos, Repartidos, NEW f \in DOMAIN fcb,
         NEW s \in TAMANIOS
  PROVE  /\ CalcularBloques(s) \in Nat /\ Truncado(f, s) \in Estados
         /\ ~LiberaElCero(f, CalcularBloques(s))
              => Truncada(f, CalcularBloques(s), Truncado(f, s))
         /\ LiberaElCero(f, CalcularBloques(s)) => Truncado(f, s).alcanza
<1>1. PICK n, a : n = CalcularBloques(s) /\ a = Cuantos(f)
  OBVIOUS
<1>2. n \in Nat /\ a \in Nat
  <2>1. s \in Nat
    BY SupuestoArchivos
  <2> QED BY <1>1, <2>1, CantidadDe, CantDe
<1>3. Truncado(f, s) = IF a < n THEN Crecer(Partida(f), a, n)
                       ELSE IF a > n THEN Achicar(Partida(f), a, n) ELSE Partida(f)
  BY <1>1 DEF Truncado, Cuantos, Partida
<1>4. ASSUME a < n
      PROVE  /\ Truncado(f, s) \in Estados
             /\ ~LiberaElCero(f, n) => Truncada(f, n, Truncado(f, s))
  <2>1. CASE n > 1
    <3>1. Truncada(f, n, Truncado(f, s))
      BY <1>1, <1>2, <1>3, <1>4, <2>1, TruncadaCrece
    <3> QED BY <1>1, <1>2, <3>1 DEF Truncada
  <2>2. CASE ~(n > 1)
    <3>1. n = 1 /\ a = 0
      BY <1>2, <1>4, <2>2
    <3>2. Truncada(f, n, Truncado(f, s))
      BY <1>1, <1>3, <1>4, <3>1, TruncadaAUno
    <3> QED BY <1>1, <1>2, <3>2 DEF Truncada
  <2> QED BY <2>1, <2>2
<1>5. ASSUME n < a
      PROVE  /\ Truncado(f, s) \in Estados
             /\ ~LiberaElCero(f, n) => Truncada(f, n, Truncado(f, s))
  <2>1. ~(a < n) /\ a > n
    BY <1>2, <1>5
  <2>2. CASE -1 \in PosDe(f)
    <3>1. Truncada(f, n, Truncado(f, s))
      BY <1>1, <1>2, <1>3, <1>5, <2>1, <2>2, TruncadaAchica
    <3> QED BY <1>1, <1>2, <3>1 DEF Truncada
  <2>3. CASE -1 \notin PosDe(f)
    <3>1. ~(a > 1) /\ fcb[f].f_ip = 0
      BY <1>1, <2>3, CantDe
    <3>2. a = 1 /\ n = 0
      BY <1>2, <1>5, <3>1
    <3>3. /\ Truncado(f, s) \in Estados
          /\ ~LiberaElCero(f, 0) => Truncada(f, 0, Truncado(f, s))
      BY <1>1, <1>3, <2>1, <3>1, <3>2, TruncadaACero
    <3> QED BY <1>1, <1>2, <3>2, <3>3
  <2> QED BY <2>2, <2>3
<1>6. ASSUME n = a
      PROVE  /\ Truncado(f, s) \in Estados
             /\ ~LiberaElCero(f, n) => Truncada(f, n, Truncado(f, s))
  <2>1. ~(a < n) /\ ~(a > n)
    BY <1>2, <1>6
  <2>2. Truncada(f, n, Truncado(f, s))
    BY <1>1, <1>2, <1>3, <1>6, <2>1, TruncadaIgual
  <2> QED BY <1>1, <1>2, <2>2 DEF Truncada
<1>7. ASSUME LiberaElCero(f, n) PROVE Truncado(f, s).alcanza
  <2>1. a = 1 /\ n = 0 /\ fcb[f].f_ip = 0
    BY <1>1, <1>7 DEF LiberaElCero
  <2>2. Truncado(f, s) = Achicar(Partida(f), 1, 0)
    BY <1>3, <2>1
  <2> QED BY <1>1, <2>1, <2>2, TruncadaACero
<1> QED BY <1>1, <1>2, <1>4, <1>5, <1>6, <1>7

-----------------------------------------------------------------------------
(* What respects the blocks of the others leaves every other file as it    *)
(* was.                                                                    *)
Igual(g, bs) ==
  \A k \in PosDe(g) :
    /\ Lugar(bs, fcb[g], k) = Ref(g, k) /\ Ref(g, k) \in bitmap
    /\ bs[Ref(g, k)] = blocks_buffer[Ref(g, k)]

(* A position after the first is found by the indirect block.              *)
LEMMA LugarQuieto ==
  ASSUME Tipos, NEW g \in DOMAIN fcb, NEW bs,
         -1 \in PosDe(g) => bs[Ref(g, -1)] = blocks_buffer[Ref(g, -1)]
  PROVE  \A k \in PosDe(g) : Lugar(bs, fcb[g], k) = Ref(g, k)
<1> SUFFICES ASSUME NEW k \in PosDe(g)
             PROVE  Lugar(bs, fcb[g], k) = Ref(g, k)
  OBVIOUS
<1>1. CASE k = -1 \/ k = 0
  BY <1>1 DEF Ref, Lugar, Resuelve
<1>2. CASE ~(k = -1 \/ k = 0)
  <2>1. PICK n : n = Cuantos(g)
    OBVIOUS
  <2>2. n \in Nat /\ k \in -1..(n - 1)
    BY <2>1, CantDe
  <2>3. n > 1
    BY <1>2, <2>2
  <2>4. -1 \in PosDe(g)
    BY <2>1, <2>3, CantDe
  <2>5. bs[fcb[g].f_ip] = blocks_buffer[fcb[g].f_ip]
    BY <2>4 DEF Ref, Lugar
  <2> QED BY <1>2, <2>5 DEF Ref, Lugar, Resuelve
<1> QED BY <1>1, <1>2

(* A file is found where it was if its own blocks are as they were.        *)
LEMMA AjenosQuietos ==
  ASSUME Tipos, Repartidos, NEW f \in DOMAIN fcb, NEW g \in DOMAIN fcb, g # f,
         NEW bs, RespetaAjenos(f, bs)
  PROVE  /\ Igual(g, bs)
         /\ \A k \in PosDe(g) : Ajeno(f, Ref(g, k))
<1>1. ASSUME NEW k \in PosDe(g)
      PROVE  /\ Ajeno(f, Ref(g, k)) /\ Ref(g, k) \in bitmap
             /\ bs[Ref(g, k)] = blocks_buffer[Ref(g, k)]
  <2>1. Ref(g, k) \in bitmap /\ Ref(g, k) \in Bloques
    BY DEF Repartidos, Tipos
  <2>2. Ajeno(f, Ref(g, k))
    BY DEF Ajeno, Propio
  <2> QED BY <2>1, <2>2 DEF RespetaAjenos
<1>2. \A k \in PosDe(g) : Lugar(bs, fcb[g], k) = Ref(g, k)
  BY <1>1, LugarQuieto
<1> QED BY <1>1, <1>2 DEF Igual

(* A truncation that finds its blocks keeps the files apart, and loses no  *)
(* block but the indirect one of a file of one.                            *)
LEMMA AlTruncar ==
  ASSUME Tipos, Repartidos, NEW f \in DOMAIN fcb, NEW n \in Nat,
         NEW m, Truncada(f, n, m), m.alcanza,
         bitmap' = m.mapa, blocks_buffer' = m.bloques, DOMAIN fcb' = DOMAIN fcb,
         \A g \in DOMAIN fcb : g # f => fcb'[g] = fcb[g],
         CalcularBloques(fcb'[f].f_size) = n,
         fcb'[f].f_dp = m.f_dp, fcb'[f].f_ip = m.f_ip
  PROVE  Repartidos' /\ (SinPerdidos /\ ~Pierde(f, n) => SinPerdidos')
<1>1. /\ Cuantos(f)' = n /\ PosDe(f)' = Posiciones(n, m.f_ip)
      /\ \A g \in DOMAIN fcb : g # f => Cuantos(g)' = Cuantos(g) /\ PosDe(g)' = PosDe(g)
  BY DEF Cuantos, PosDe
<1>2. \A k : Ref(f, k)' = En(m, k)
  BY DEF Ref, En, Lugar, Resuelve
<1>3. /\ RespetaAjenos(f, m.bloques)
      /\ n <= POR_BLOQUE + 1 /\ (n = 0 => m.f_ip = 0)
      /\ \A b \in Bloques : Ajeno(f, b) => b \in m.mapa
      /\ \A k \in PosDe(f)' : En(m, k) \in m.mapa /\ ~Ajeno(f, En(m, k))
      /\ \A k, j \in PosDe(f)' : En(m, k) = En(m, j) => k = j
      /\ Limpios(m.mapa, m.bloques)
      /\ SinPerdidos /\ ~Pierde(f, n) =>
           \A b \in m.mapa : Ajeno(f, b) \/ SuyoEn(m, n, b)
  BY <1>1 DEF Truncada, Completa
<1>4. ASSUME NEW g \in DOMAIN fcb, g # f
      PROVE  \A k \in PosDe(g) :
               /\ Ref(g, k)' = Ref(g, k) /\ Ajeno(f, Ref(g, k))
               /\ Ref(g, k) \in m.mapa
  <2> SUFFICES ASSUME NEW k \in PosDe(g)
               PROVE  /\ Ref(g, k)' = Ref(g, k) /\ Ajeno(f, Ref(g, k))
                      /\ Ref(g, k) \in m.mapa
    OBVIOUS
  <2>1. /\ Lugar(m.bloques, fcb[g], k) = Ref(g, k) /\ Ajeno(f, Ref(g, k))
        /\ Ref(g, k) \in Bloques
    BY <1>3, <1>4, AjenosQuietos DEF Igual, Tipos
  <2>2. Ref(g, k)' = Lugar(m.bloques, fcb[g], k)
    BY <1>4 DEF Ref
  <2> QED BY <1>3, <2>1, <2>2
<1>5. /\ \A g \in DOMAIN fcb' : Cuantos(g)' <= POR_BLOQUE + 1
      /\ \A g \in DOMAIN fcb' : Cuantos(g)' = 0 => fcb'[g].f_ip = 0
  BY <1>1, <1>3 DEF Repartidos
<1>6. \A g \in DOMAIN fcb' : \A k \in PosDe(g)' : Ref(g, k)' \in bitmap'
  BY <1>1, <1>2, <1>3, <1>4
<1>7. ASSUME NEW g \in DOMAIN fcb, NEW h \in DOMAIN fcb,
             NEW k \in PosDe(g)', NEW j \in PosDe(h)',
             Ref(g, k)' = Ref(h, j)'
      PROVE  g = h /\ k = j
  <2>1. CASE g = f /\ h = f
    BY <1>1, <1>2, <1>3, <1>7, <2>1
  <2>2. CASE g # f /\ h # f
    BY <1>1, <1>4, <1>7, <2>2 DEF Repartidos
  <2>3. CASE g = f /\ h # f
    BY <1>1, <1>2, <1>3, <1>4, <1>7, <2>3
  <2>4. CASE g # f /\ h = f
    BY <1>1, <1>2, <1>3, <1>4, <1>7, <2>4
  <2> QED BY <2>1, <2>2, <2>3, <2>4
<1>8. Repartidos'
  BY <1>3, <1>5, <1>6, <1>7 DEF Repartidos, Limpios
<1>9. ASSUME SinPerdidos, ~Pierde(f, n), NEW b \in bitmap'
      PROVE  \E g \in DOMAIN fcb' : Propio(g, b)'
  <2>1. CASE Ajeno(f, b)
    <3>1. PICK g \in DOMAIN fcb : g # f /\ Propio(g, b)
      BY <2>1 DEF Ajeno
    <3>2. PICK k \in PosDe(g) : b = Ref(g, k)
      BY <3>1 DEF Propio
    <3>3. k \in PosDe(g)' /\ b = Ref(g, k)'
      BY <1>1, <1>4, <3>1, <3>2
    <3> QED BY <3>1, <3>3 DEF Propio
  <2>2. CASE ~Ajeno(f, b)
    <3>1. PICK k \in Posiciones(n, m.f_ip) : b = En(m, k)
      BY <1>3, <1>9, <2>2 DEF SuyoEn
    <3>2. k \in PosDe(f)' /\ b = Ref(f, k)'
      BY <1>1, <1>2, <3>1
    <3> QED BY <3>2 DEF Propio
  <2> QED BY <2>1, <2>2
<1>10. SinPerdidos /\ ~Pierde(f, n) => SinPerdidos'
  BY <1>9 DEF SinPerdidos
<1> QED BY <1>8, <1>10

(* A stop in a growth leaves every file where it was.                      *)
LEMMA AlCortar ==
  ASSUME Tipos, Repartidos, NEW f \in DOMAIN fcb, NEW n \in Nat,
         Cuantos(f) < n, NEW e, ImagenDeTruncar(f, n, e),
         bitmap' = e.mapa, blocks_buffer' = e.bloques, UNCHANGED fcb
  PROVE  /\ Repartidos'
         /\ \A g \in DOMAIN fcb : /\ Cuantos(g)' = Cuantos(g) /\ PosDe(g)' = PosDe(g)
                                  /\ \A k \in PosDe(g) : Ref(g, k)' = Ref(g, k)
                                  /\ \A k \in 0..(Cuantos(g) - 1) :
                                       e.bloques[Ref(g, k)] = blocks_buffer[Ref(g, k)]
<1>1. /\ RespetaAjenos(f, e.bloques)
      /\ bitmap \subseteq e.mapa /\ Limpios(e.mapa, e.bloques)
      /\ \A k \in 0..(Cuantos(f) - 1) :
           /\ Lugar(e.bloques, fcb[f], k) = Ref(f, k)
           /\ e.bloques[Ref(f, k)] = blocks_buffer[Ref(f, k)]
  BY DEF ImagenDeTruncar
<1>2. \A g \in DOMAIN fcb : Cuantos(g)' = Cuantos(g) /\ PosDe(g)' = PosDe(g)
  BY DEF Cuantos, PosDe
<1>3. \A g, k : Ref(g, k)' = Lugar(e.bloques, fcb[g], k)
  BY DEF Ref
<1>4. \A g \in DOMAIN fcb : /\ Cuantos(g) \in Nat
                            /\ \A k \in 0..(Cuantos(g) - 1) : k \in PosDe(g)
                            /\ \A k \in PosDe(g) : k \in -1..(Cuantos(g) - 1)
  BY CantDe
<1>5. ASSUME NEW g \in DOMAIN fcb
      PROVE  \A k \in PosDe(g) : Ref(g, k)' = Ref(g, k)
  <2>1. CASE g # f
    BY <1>1, <1>3, <2>1, AjenosQuietos DEF Igual
  <2>2. CASE g = f
    <3>1. ASSUME NEW k \in PosDe(g)
          PROVE  Lugar(e.bloques, fcb[f], k) = Ref(f, k)
      <4>1. CASE k = -1
        BY <4>1 DEF Ref, Lugar
      <4>2. CASE k # -1
        <5>1. PICK a : a = Cuantos(g)
          OBVIOUS
        <5>2. k \in 0..(a - 1)
          BY <1>4, <4>2, <5>1
        <5> QED BY <1>1, <2>2, <5>1, <5>2
      <4> QED BY <4>1, <4>2
    <3> QED BY <1>3, <2>2, <3>1
  <2> QED BY <2>1, <2>2
<1>6. ASSUME NEW g \in DOMAIN fcb
      PROVE  \A k \in 0..(Cuantos(g) - 1) :
               e.bloques[Ref(g, k)] = blocks_buffer[Ref(g, k)]
  <2>1. CASE g # f
    BY <1>1, <1>4, <2>1, AjenosQuietos DEF Igual
  <2>2. CASE g = f
    BY <1>1, <2>2
  <2> QED BY <2>1, <2>2
<1>7. Repartidos'
  BY <1>1, <1>2, <1>5 DEF Repartidos
<1> QED BY <1>2, <1>5, <1>6, <1>7

-----------------------------------------------------------------------------
(* The copies of a read or a write.  Block b takes the bytes of the file   *)
(* from the first that is asked for, or the block's, to the last.          *)
DesdeByte(o, b) == Tope(o, BLOCK_SIZE * b)
HastaByte(o, c, b) == IF o + c < BLOCK_SIZE * (b + 1) THEN o + c
                                                      ELSE BLOCK_SIZE * (b + 1)
CopiaDe(o, c, b) ==
  Copia(b, DesdeByte(o, b) - BLOCK_SIZE * b, DesdeByte(o, b) - o,
        HastaByte(o, c, b) - DesdeByte(o, b))
Trozos == [bloque : Int, desde : Int, pos : Int, cant : Int]
Pedazos == {t \in Seq(Trozos) : t # <<>>}
Son(t, o, c, ini, n) ==
  t \in Seq(Trozos) /\ Len(t) = n /\ \A i \in 1..n : t[i] = CopiaDe(o, c, ini + i - 1)

(* Where the next block begins.                                            *)
LEMMA Siguiente ==
  ASSUME NEW b \in Int
  PROVE  /\ BLOCK_SIZE * b \in Int /\ BLOCK_SIZE * (b + 1) = BLOCK_SIZE * b + BLOCK_SIZE
         /\ BLOCK_SIZE \in Nat \ {0}
         /\ \A a \in Int : a <= b => BLOCK_SIZE * a <= BLOCK_SIZE * b
<1>1. BLOCK_SIZE \in Nat \ {0}
  BY SupuestoArchivos
<1>2. BLOCK_SIZE * b \in Int /\ BLOCK_SIZE * (b + 1) = BLOCK_SIZE * b + BLOCK_SIZE
  BY <1>1
<1>3. ASSUME NEW a \in Int, a <= b PROVE BLOCK_SIZE * a <= BLOCK_SIZE * b
  <2>1. CASE a = b
    BY <1>2, <2>1
  <2>2. CASE a < b
    <3>1. BLOCK_SIZE * a \in Int /\ BLOCK_SIZE * a + BLOCK_SIZE <= BLOCK_SIZE * b
      BY <1>1, <2>2, Productos
    <3> QED BY <1>1, <1>2, <3>1
  <2> QED BY <1>3, <2>1, <2>2
<1> QED BY <1>1, <1>2, <1>3

(* The block of a byte.                                                    *)
LEMMA BloqueDeByte ==
  ASSUME NEW x \in Nat
  PROVE  /\ x \div BLOCK_SIZE \in Nat /\ x % BLOCK_SIZE \in Nat
         /\ x = BLOCK_SIZE * (x \div BLOCK_SIZE) + (x % BLOCK_SIZE)
         /\ BLOCK_SIZE * (x \div BLOCK_SIZE) <= x
         /\ x < BLOCK_SIZE * (x \div BLOCK_SIZE) + BLOCK_SIZE
         /\ \A b \in Int : BLOCK_SIZE * b <= x /\ x < BLOCK_SIZE * b + BLOCK_SIZE
                             => b = x \div BLOCK_SIZE
<1>1. BLOCK_SIZE \in Nat \ {0}
  BY SupuestoArchivos
<1>2. PICK q, r : q = x \div BLOCK_SIZE /\ r = x % BLOCK_SIZE
  OBVIOUS
<1>3. q \in Nat /\ r \in 0..(BLOCK_SIZE - 1) /\ x = BLOCK_SIZE * q + r
  BY <1>1, <1>2, Division
<1>4. BLOCK_SIZE * q \in Int
  BY <1>1, <1>3
<1>5. BLOCK_SIZE * q <= x /\ x < BLOCK_SIZE * q + BLOCK_SIZE
  BY <1>1, <1>3, <1>4
<1>6. ASSUME NEW b \in Int, BLOCK_SIZE * b <= x, x < BLOCK_SIZE * b + BLOCK_SIZE
      PROVE  b = q
  <2>1. BLOCK_SIZE * b \in Int
    BY <1>1
  <2>2. CASE b < q
    <3>1. BLOCK_SIZE * b + BLOCK_SIZE <= BLOCK_SIZE * q
      BY <1>1, <1>3, <2>2, Productos
    <3> QED BY <1>1, <1>4, <1>5, <1>6, <2>1, <3>1
  <2>3. CASE q < b
    <3>1. BLOCK_SIZE * q + BLOCK_SIZE <= BLOCK_SIZE * b
      BY <1>1, <1>3, <2>3, Productos
    <3> QED BY <1>1, <1>4, <1>5, <1>6, <2>1, <3>1
  <2> QED BY <1>3, <2>2, <2>3
<1> QED BY <1>2, <1>3, <1>5, <1>6

(* The turn of eferrait and eferrid for one more block.                    *)
OtraCopia(c, t, i) ==
  LET pos == Last(t).pos + Last(t).cant
      resta == c - pos
  IN  Append(t, Copia(i, 0, pos, IF resta > BLOCK_SIZE THEN BLOCK_SIZE ELSE resta))
Agregadas(c, primera, a, b) ==
  FoldLeft(LAMBDA t, i : OtraCopia(c, t, i), <<primera>>, Rango(a, b))
TurnosDeCopia(h, c, primera, a, N) ==
  /\ h[0] = <<primera>>
  /\ \A n \in 1..N : h[n] = OtraCopia(c, h[n - 1], a + n - 1)

(* One turn of the loop of copies adds a copy of some bytes.               *)
LEMMA OtraCopiaEs ==
  ASSUME NEW c \in Int, NEW t \in Pedazos, NEW i \in Int
  PROVE  OtraCopia(c, t, i) \in Pedazos
<1>1. t \in Seq(Trozos) /\ Len(t) \in 1..Len(t)
  BY DEF Pedazos
<1>2. PICK u : u = Last(t)
  OBVIOUS
<1>3. u \in Trozos
  BY <1>1, <1>2 DEF Last
<1>4. PICK z : z = Copia(i, 0, u.pos + u.cant,
                 IF c - (u.pos + u.cant) > BLOCK_SIZE THEN BLOCK_SIZE
                                                      ELSE c - (u.pos + u.cant))
  OBVIOUS
<1>5. z \in Trozos
  BY <1>3, <1>4, SupuestoArchivos DEF Copia, Trozos
<1>6. OtraCopia(c, t, i) = Append(t, z)
  BY <1>2, <1>4 DEF OtraCopia
<1>7. Append(t, z) \in Seq(Trozos) /\ Append(t, z) # <<>>
  BY <1>1, <1>5
<1> QED BY <1>6, <1>7 DEF Pedazos

CopianPorTurnos(c, p, a, b, N) ==
  \E h : TurnosDeCopia(h, c, p, a, N) /\ Agregadas(c, p, a, b) = h[N]

(* One block in each turn.                                                 *)
LEMMA BucleDeCopiar ==
  ASSUME NEW c \in Int, NEW p \in Trozos, NEW a \in Int, NEW b \in Int,
         NEW N \in Nat, N = b - a + 1
  PROVE  CopianPorTurnos(c, p, a, b, N)
<1> DEFINE l == Rango(a, b)
           T == Pedazos
           m == <<p>>
           paso == [x \in (1..N) \X T |-> OtraCopia(c, x[2], a + x[1] - 1)]
           Sigue(it, s) == IF s = {} THEN m
                           ELSE OtraCopia(c, it[s \ {Max(s)}], a + Max(s) - 1)
           SigueD(it, s) == IF s = {} THEN m
                            ELSE OtraCopia(c, it[s \ {Max(s)}], l[Max(s)])
           D == DOMAIN l
           it == CHOOSE it : it = [s \in SUBSET D |-> SigueD(it, s)]
           h == [n \in 0..N |-> it[1..n]]
<1>1. D = 1..N /\ \A i \in 1..N : l[i] = a + i - 1
  BY DEF Rango
<1>2. Agregadas(c, p, a, b) = it[D]
  BY DEF Agregadas, FoldLeft, MapThenFoldSet
<1>3. ASSUME NEW n \in 1..N, NEW t \in T
      PROVE  /\ paso[<<n, t>>] = OtraCopia(c, t, a + n - 1)
             /\ OtraCopia(c, t, a + n - 1) \in T
  <2>1. a + n - 1 \in Int
    OBVIOUS
  <2>2. OtraCopia(c, t, a + n - 1) \in T
    BY <2>1, OtraCopiaEs
  <2> QED BY <2>2
<1>0. m \in T
  BY DEF Pedazos
<1> HIDE DEF paso, T, m
<1>4. \A s \in SUBSET (1..N) : it[s] = Sigue(it, s)
  <2>1. m \in T /\ SePliega(N, T, paso)
    BY <1>0, <1>3 DEF SePliega
  <2>2. PICK jt : Pliegue(jt, N, T, m, paso)
    <3> HIDE DEF it, h, l
    <3> QED BY <2>1, PliegueExiste
  <2>3. ASSUME NEW s \in SUBSET (1..N)
        PROVE  jt[s] = SigueD(jt, s) /\ \A kt : SigueD(kt, s) = Sigue(kt, s)
    <3>1. CASE s = {}
      BY <2>2, <3>1 DEF Pliegue, PasoDePliegue
    <3>2. CASE s # {}
      <4>1. Max(s) \in s
        <5> HIDE DEF it, h, l
        <5> QED BY <3>2, MaximoDe
      <4>2. l[Max(s)] = a + Max(s) - 1
        <5> HIDE DEF l
        <5> QED BY <1>1, <4>1
      <4>3. jt[s \ {Max(s)}] \in T /\ Max(s) \in 1..N
        BY <2>2, <4>1 DEF Pliegue
      <4>4. jt[s] = paso[<<Max(s), jt[s \ {Max(s)}]>>]
        BY <2>2, <3>2 DEF Pliegue, PasoDePliegue
      <4>5. jt[s] = OtraCopia(c, jt[s \ {Max(s)}], a + Max(s) - 1)
        BY <1>3, <4>3, <4>4
      <4>6. jt[s] = SigueD(jt, s)
        <5> HIDE DEF l
        <5> QED BY <3>2, <4>2, <4>5
      <4>7. \A kt : SigueD(kt, s) = Sigue(kt, s)
        <5> HIDE DEF l
        <5> QED BY <3>2, <4>2
      <4> QED
        BY <4>6, <4>7
    <3> QED BY <3>1, <3>2
  <2>4. jt = [s \in SUBSET D |-> SigueD(jt, s)]
    <3> HIDE DEF D, SigueD
    <3> QED BY <1>1, <2>2, <2>3 DEF Pliegue
  <2>5. it = [s \in SUBSET D |-> SigueD(it, s)]
    <3> HIDE DEF SigueD, D
    <3> QED BY <2>4
  <2> HIDE DEF it, SigueD, Sigue, D
  <2> QED
    BY <1>1, <2>3, <2>5
<1> HIDE DEF it, l, D
<1>5. h[0] = <<p>>
  <2>1. 1..0 = {} /\ {} \in SUBSET (1..N) /\ 0 \in 0..N
    OBVIOUS
  <2> QED BY <2>1, <1>4 DEF m
<1>6. ASSUME NEW n \in 1..N
      PROVE  h[n] = OtraCopia(c, h[n - 1], a + n - 1)
  <2>1. 1..n # {} /\ Max(1..n) = n /\ (1..n) \ {n} = 1..(n - 1)
    BY Hasta
  <2>2. 1..n \in SUBSET (1..N)
    OBVIOUS
  <2>3. it[1..n] = OtraCopia(c, it[1..(n - 1)], a + n - 1)
    BY <1>4, <2>1, <2>2
  <2> QED
    BY <2>3
<1>7. h[N] = it[D]
  BY <1>1
<1>8. Agregadas(c, p, a, b) = h[N]
  BY <1>2, <1>7
<1> HIDE DEF h
<1> QED
  BY ONLY <1>5, <1>6, <1>8 DEF TurnosDeCopia, CopianPorTurnos

(* One turn adds the copy of the next block.                               *)
LEMMA TurnoDeCopia ==
  ASSUME NEW o \in Nat, NEW c \in Nat, NEW ini \in Nat, NEW n \in Nat, n >= 1,
         BLOCK_SIZE * ini <= o, o < BLOCK_SIZE * ini + BLOCK_SIZE,
         BLOCK_SIZE * (ini + n) <= o + c,
         NEW t, Son(t, o, c, ini, n)
  PROVE  Son(OtraCopia(c, t, ini + n), o, c, ini, n + 1)
<1>1. PICK b \in Nat : b = ini + n
  OBVIOUS
<1>2. PICK a \in Nat : a = ini + n - 1
  OBVIOUS
<1>3. PICK B, p, q, z : B = BLOCK_SIZE /\ p = BLOCK_SIZE * a /\ q = BLOCK_SIZE * b
                        /\ z = BLOCK_SIZE * ini
  OBVIOUS
<1>4. /\ B \in Nat \ {0} /\ p \in Int /\ q \in Int /\ z \in Int
      /\ q = p + B /\ BLOCK_SIZE * (b + 1) = q + B /\ BLOCK_SIZE * (a + 1) = q
      /\ z <= p
  <2>1. b = a + 1 /\ ini <= a
    BY <1>1, <1>2
  <2>2. a \in Int /\ b \in Int /\ ini \in Int
    OBVIOUS
  <2>3. /\ BLOCK_SIZE \in Nat \ {0} /\ BLOCK_SIZE * a \in Int
        /\ BLOCK_SIZE * (a + 1) = BLOCK_SIZE * a + BLOCK_SIZE
        /\ BLOCK_SIZE * ini <= BLOCK_SIZE * a
    BY ONLY <2>1, <2>2, Siguiente
  <2>4. BLOCK_SIZE * b \in Int /\ BLOCK_SIZE * (b + 1) = BLOCK_SIZE * b + BLOCK_SIZE
    BY ONLY <2>2, Siguiente
  <2>5. BLOCK_SIZE * ini \in Int
    BY ONLY <2>2, Siguiente
  <2> QED BY ONLY <1>3, <2>1, <2>3, <2>4, <2>5
<1>5. z <= o /\ o < z + B /\ q <= o + c
  BY <1>1, <1>3
<1>6. PICK s : s = o + c
  OBVIOUS
<1>7. s \in Nat /\ q <= s /\ c = s - o
  BY <1>5, <1>6
<1>8. HastaByte(o, c, a) = q
  BY <1>4, <1>6, <1>7 DEF HastaByte
<1>9. DesdeByte(o, b) = q
  BY <1>3, <1>4, <1>5 DEF DesdeByte, Tope
<1>10. HastaByte(o, c, b) = IF s < q + B THEN s ELSE q + B
  BY <1>4, <1>6 DEF HastaByte
<1>11. t \in Seq(Trozos) /\ Len(t) = n /\ \A i \in 1..n : t[i] = CopiaDe(o, c, ini + i - 1)
  BY DEF Son
<1>12. Last(t) = CopiaDe(o, c, a)
  <2>1. n \in 1..n
    OBVIOUS
  <2> QED BY <1>2, <1>11, <2>1 DEF Last
<1>13. PICK d : d = DesdeByte(o, a)
  OBVIOUS
<1>14. d \in Int
  BY <1>3, <1>4, <1>13 DEF DesdeByte, Tope
<1>15. Last(t).pos = d - o /\ Last(t).cant = q - d
  BY <1>8, <1>12, <1>13 DEF CopiaDe, Copia
<1>16. Last(t).pos + Last(t).cant = q - o
  BY <1>4, <1>14, <1>15
<1>17. c - (q - o) = s - q
  BY <1>4, <1>7
<1>18. OtraCopia(c, t, b) =
         Append(t, Copia(b, 0, q - o, IF s - q > B THEN B ELSE s - q))
  BY <1>3, <1>16, <1>17 DEF OtraCopia
<1>19. CopiaDe(o, c, b) = Copia(b, 0, q - o, IF s - q > B THEN B ELSE s - q)
  <2>1. CopiaDe(o, c, b) = Copia(b, q - q, q - o, (IF s < q + B THEN s ELSE q + B) - q)
    BY <1>3, <1>9, <1>10 DEF CopiaDe
  <2>2. q - q = 0 /\ (IF s < q + B THEN s ELSE q + B) - q = IF s - q > B THEN B ELSE s - q
    BY <1>4, <1>7
  <2> QED BY <2>1, <2>2
<1>20. PICK w : w = CopiaDe(o, c, b)
  OBVIOUS
<1>21. w \in Trozos
  BY <1>4, <1>7, <1>19, <1>20 DEF Copia, Trozos
<1>22. OtraCopia(c, t, ini + n) = Append(t, w)
  BY <1>1, <1>18, <1>19, <1>20
<1>23. PICK r : r = Append(t, w)
  OBVIOUS
<1>24. /\ r \in Seq(Trozos) /\ Len(r) = n + 1 /\ r[n + 1] = w
       /\ \A i \in 1..n : r[i] = t[i]
  BY <1>11, <1>21, <1>23
<1>25. ASSUME NEW i \in 1..(n + 1) PROVE r[i] = CopiaDe(o, c, ini + i - 1)
  <2>1. CASE i \in 1..n
    BY <1>11, <1>24, <2>1
  <2>2. CASE i = n + 1
    <3>1. ini + i - 1 = b
      BY <1>1, <2>2
    <3> QED BY <1>20, <1>24, <2>2, <3>1
  <2> QED BY <2>1, <2>2
<1>26. Son(r, o, c, ini, n + 1)
  BY <1>24, <1>25 DEF Son
<1> QED BY <1>22, <1>23, <1>26

(* The blocks between which a read or a write goes.                        *)
LEMMA Extremos ==
  ASSUME NEW o \in Nat, NEW c \in Nat
  PROVE  /\ o \div BLOCK_SIZE \in Nat /\ (o + c) \div BLOCK_SIZE \in Nat
         /\ o \div BLOCK_SIZE <= (o + c) \div BLOCK_SIZE
         /\ BLOCK_SIZE * (o \div BLOCK_SIZE) <= o
         /\ o < BLOCK_SIZE * (o \div BLOCK_SIZE) + BLOCK_SIZE
         /\ BLOCK_SIZE * ((o + c) \div BLOCK_SIZE) <= o + c
         /\ o + c < BLOCK_SIZE * ((o + c) \div BLOCK_SIZE) + BLOCK_SIZE
<1>1. PICK s : s = o + c
  OBVIOUS
<1>2. s \in Nat /\ o <= s
  BY <1>1
<1>3. PICK p, q : p = o \div BLOCK_SIZE /\ q = s \div BLOCK_SIZE
  OBVIOUS
<1>4. /\ p \in Nat /\ q \in Nat
      /\ BLOCK_SIZE * p <= o /\ o < BLOCK_SIZE * p + BLOCK_SIZE
      /\ BLOCK_SIZE * q <= s /\ s < BLOCK_SIZE * q + BLOCK_SIZE
  BY <1>2, <1>3, BloqueDeByte
<1>5. p <= q
  <2> SUFFICES ASSUME q < p PROVE FALSE
    BY <1>4
  <2>1. BLOCK_SIZE * q + BLOCK_SIZE <= BLOCK_SIZE * p
        /\ BLOCK_SIZE * p \in Int /\ BLOCK_SIZE * q \in Int /\ BLOCK_SIZE \in Nat \ {0}
    BY <1>4, Productos, SupuestoArchivos
  <2> QED BY <1>2, <1>4, <2>1
<1> QED BY <1>1, <1>3, <1>4, <1>5

(* eferrait and eferrid make one copy for each of those blocks.            *)
LEMMA CopiasSon ==
  ASSUME NEW o \in Nat, NEW c \in Nat, NEW ini, ini = o \div BLOCK_SIZE,
         NEW fin, fin = (o + c) \div BLOCK_SIZE
  PROVE  Son(Copias(o, c), o, c, ini, fin - ini + 1)
<1>1. /\ ini \in Nat /\ fin \in Nat /\ ini <= fin
      /\ BLOCK_SIZE * ini <= o /\ o < BLOCK_SIZE * ini + BLOCK_SIZE
      /\ BLOCK_SIZE * fin <= o + c /\ o + c < BLOCK_SIZE * fin + BLOCK_SIZE
  BY Extremos
<1>2. PICK B, z, s : B = BLOCK_SIZE /\ z = BLOCK_SIZE * ini /\ s = o + c
  OBVIOUS
<1>3. /\ B \in Nat \ {0} /\ z \in Int /\ BLOCK_SIZE * (ini + 1) = z + B
      /\ z <= o /\ o < z + B /\ s \in Nat /\ o <= s /\ c = s - o
  BY <1>1, <1>2, Siguiente
<1>4. DesdeByte(o, ini) = o
  BY <1>2, <1>3 DEF DesdeByte, Tope
<1>5. HastaByte(o, c, ini) = IF s < z + B THEN s ELSE z + B
  BY <1>2, <1>3 DEF HastaByte
<1>6. PICK p : p = Copia(ini, o - z, 0, IF s < z + B THEN s - o ELSE z + B - o)
  OBVIOUS
<1>7. p = CopiaDe(o, c, ini) /\ p \in Trozos
  <2>1. CopiaDe(o, c, ini) =
          Copia(ini, o - z, o - o, (IF s < z + B THEN s ELSE z + B) - o)
    BY <1>2, <1>4, <1>5 DEF CopiaDe
  <2>2. o - o = 0 /\ (IF s < z + B THEN s ELSE z + B) - o =
                     IF s < z + B THEN s - o ELSE z + B - o
    BY <1>3
  <2>3. p = CopiaDe(o, c, ini)
    BY <1>6, <2>1, <2>2
  <2>4. p \in Trozos
    BY <1>1, <1>3, <1>6 DEF Copia, Trozos
  <2> QED BY <2>3, <2>4
<1>8. Son(<<p>>, o, c, ini, 1)
  <2>1. <<p>> \in Seq(Trozos) /\ Len(<<p>>) = 1 /\ <<p>>[1] = p
    BY <1>7
  <2>2. \A i \in 1..1 : i = 1 /\ ini + i - 1 = ini
    BY <1>1
  <2> QED BY <1>7, <2>1, <2>2 DEF Son
<1>9. CASE ini = fin
  <2>1. s < z + B
    BY <1>1, <1>2, <1>9
  <2>2. p = Copia(ini, o - z, 0, c)
    BY <1>3, <1>6, <2>1
  <2>3. Copias(o, c) = <<Copia(ini, o - BLOCK_SIZE * ini, 0, c)>>
    BY <1>9 DEF Copias
  <2>4. Copias(o, c) = <<p>> /\ fin - ini + 1 = 1
    BY <1>1, <1>2, <1>9, <2>2, <2>3
  <2> QED BY <1>8, <2>4
<1>10. CASE ini # fin
  <2>1. z + B <= s
    <3>1. ini + 1 <= fin /\ ini + 1 \in Int
      BY <1>1, <1>10
    <3>2. BLOCK_SIZE * (ini + 1) <= BLOCK_SIZE * fin /\ BLOCK_SIZE * fin \in Int
      BY <1>1, <3>1, Siguiente
    <3> QED BY <1>1, <1>2, <1>3, <3>2
  <2>2. p = Copia(ini, o - z, 0, BLOCK_SIZE * (ini + 1) - o)
    <3>1. ~(s < z + B)
      BY <1>3, <2>1
    <3> QED BY <1>3, <1>6, <3>1
  <2>3. Copias(o, c) = Agregadas(c, Copia(ini, o - BLOCK_SIZE * ini, 0,
                                          BLOCK_SIZE * (ini + 1) - o), ini + 1, fin)
    BY <1>10 DEF Copias, Agregadas, OtraCopia, FoldLeft, MapThenFoldSet
  <2>4. Copias(o, c) = Agregadas(c, p, ini + 1, fin)
    BY <1>2, <2>2, <2>3
  <2>5. PICK N \in Nat : N = fin - ini
    <3>1. fin - ini \in Nat
      BY <1>1
    <3> QED BY <3>1
  <2>6. PICK a, h : a = ini + 1 /\ TurnosDeCopia(h, c, p, a, N) /\ Copias(o, c) = h[N]
    <3>1. ini + 1 \in Int /\ N = fin - (ini + 1) + 1
      BY <1>1, <2>5
    <3>2. PICK a \in Int : a = ini + 1
      BY <3>1
    <3>3. \E h : TurnosDeCopia(h, c, p, a, N) /\ Agregadas(c, p, a, fin) = h[N]
      <4>1. c \in Int /\ fin \in Int /\ N = fin - a + 1
        BY <1>1, <3>1, <3>2
      <4>2. a \in Int /\ N \in Nat /\ p \in Trozos
        BY <1>7
      <4>3. CopianPorTurnos(c, p, a, fin, N)
        BY ONLY <4>1, <4>2, BucleDeCopiar
      <4> QED BY ONLY <4>3 DEF CopianPorTurnos
    <3> QED BY <2>4, <3>2, <3>3
  <2> DEFINE S == {n \in 0..N : Son(h[n], o, c, ini, n + 1)}
  <2>7. 0 \in S
    <3>1. h[0] = <<p>> /\ 0 + 1 = 1 /\ 0 \in 0..N
      BY <2>6 DEF TurnosDeCopia
    <3> QED BY <1>8, <3>1
  <2>8. ASSUME NEW n \in 0..(N - 1), n \in S PROVE n + 1 \in S
    <3>1. PICK k : k = n + 1
      OBVIOUS
    <3>2. k \in 1..N /\ k \in Nat /\ k >= 1 /\ k - 1 = n /\ n \in 0..N /\ k \in 0..N
      BY <2>5, <3>1
    <3>3. h[k] = OtraCopia(c, h[n], ini + k)
      <4>1. h[k] = OtraCopia(c, h[k - 1], a + k - 1)
        BY <2>6, <3>2 DEF TurnosDeCopia
      <4>2. a + k - 1 = ini + k
        BY <1>1, <2>6, <3>2
      <4> QED BY <3>2, <4>1, <4>2
    <3>4. Son(h[n], o, c, ini, k)
      BY <2>8, <3>1
    <3>5. BLOCK_SIZE * (ini + k) <= o + c
      <4>1. PICK x \in Int : x = ini + k
        BY <1>1, <3>2
      <4>2. x <= fin
        BY <1>1, <2>5, <3>2, <4>1
      <4>3. BLOCK_SIZE * x <= BLOCK_SIZE * fin /\ BLOCK_SIZE * fin \in Int
            /\ BLOCK_SIZE * x \in Int
        BY <1>1, <4>2, Siguiente
      <4>4. BLOCK_SIZE * x <= o + c
        BY <1>1, <4>3
      <4> QED BY <4>1, <4>4
    <3>6. Son(OtraCopia(c, h[n], ini + k), o, c, ini, k + 1)
      BY <1>1, <3>2, <3>4, <3>5, TurnoDeCopia
    <3> QED BY <3>1, <3>2, <3>3, <3>6
  <2>9. N \in S
    <3> HIDE DEF S
    <3>1. \A n \in 0..N : n \in S
      BY <2>5, <2>7, <2>8, Induccion
    <3> QED BY <2>5, <3>1
  <2> QED BY <1>1, <2>5, <2>6, <2>9
<1> QED BY <1>9, <1>10

(* A copy of some byte is inside the block and inside the file.            *)
LEMMA CopiaDentro ==
  ASSUME NEW o \in Nat, NEW c \in Nat, NEW ini, ini = o \div BLOCK_SIZE,
         NEW fin, fin = (o + c) \div BLOCK_SIZE, NEW k \in ini..fin
  PROVE  LET t == CopiaDe(o, c, k)
         IN  /\ k \in Nat /\ t.cant \in Nat /\ t.desde \in Nat /\ t.pos \in Nat
             /\ t.desde + t.cant <= BLOCK_SIZE
             /\ BLOCK_SIZE * k + t.desde = o + t.pos /\ t.pos + t.cant <= c
             /\ t.cant = 0 <=> c = 0 \/ (k = fin /\ BLOCK_SIZE * fin = o + c)
             /\ t.cant # 0 => k < CalcularBloques(o + c)
<1>1. /\ ini \in Nat /\ fin \in Nat /\ ini <= fin
      /\ BLOCK_SIZE * ini <= o /\ o < BLOCK_SIZE * ini + BLOCK_SIZE
      /\ BLOCK_SIZE * fin <= o + c /\ o + c < BLOCK_SIZE * fin + BLOCK_SIZE
  BY Extremos
<1>2. PICK B, z, q, y, s : /\ B = BLOCK_SIZE /\ z = BLOCK_SIZE * ini /\ s = o + c
                           /\ q = BLOCK_SIZE * k /\ y = BLOCK_SIZE * fin
  OBVIOUS
<1>3. k \in Nat /\ ini <= k /\ k <= fin
  BY <1>1
<1>4. /\ B \in Nat \ {0} /\ q \in Int /\ BLOCK_SIZE * (k + 1) = q + B /\ z <= q
  BY <1>1, <1>2, <1>3, Siguiente
<1>5. y \in Int /\ q <= y
  BY <1>1, <1>2, <1>3, Siguiente
<1>6. z \in Int
  BY <1>1, <1>2, Siguiente
<1>7. /\ s \in Nat /\ z <= o /\ o < z + B /\ y <= s /\ s < y + B /\ o <= s /\ c = s - o
  BY <1>1, <1>2
<1>8. k < fin => q + B <= y
  <2> SUFFICES ASSUME k < fin PROVE q + B <= y
    OBVIOUS
  <2>1. k \in Int /\ fin \in Int /\ BLOCK_SIZE \in Nat \ {0}
    BY <1>1, <1>3, SupuestoArchivos
  <2> QED BY <1>2, <2>1, Productos
<1>9. ini < k => z + B <= q
  <2> SUFFICES ASSUME ini < k PROVE z + B <= q
    OBVIOUS
  <2>1. k \in Int /\ ini \in Int /\ BLOCK_SIZE \in Nat \ {0}
    BY <1>1, <1>3, SupuestoArchivos
  <2> QED BY <1>2, <2>1, Productos
<1>10. PICK d, e : d = DesdeByte(o, k) /\ e = HastaByte(o, c, k)
  OBVIOUS
<1>11. d = (IF o > q THEN o ELSE q) /\ e = IF s < q + B THEN s ELSE q + B
  BY <1>2, <1>4, <1>10 DEF DesdeByte, HastaByte, Tope
<1>12. PICK t : t = CopiaDe(o, c, k)
  OBVIOUS
<1>13. t.cant = e - d /\ t.desde = d - q /\ t.pos = d - o /\ t.bloque = k
  BY <1>2, <1>10, <1>12 DEF CopiaDe, Copia
<1>14. /\ d \in Int /\ e \in Int /\ d <= e /\ q <= d /\ o <= d /\ e <= q + B /\ e <= s
  <2>1. CASE ini = k
    <3>1. z = q
      BY <1>2, <2>1
    <3>2. IF k < fin THEN q + B <= s ELSE q = y
      BY <1>1, <1>2, <1>3, <1>4, <1>5, <1>7, <1>8
    <3> QED BY <1>4, <1>5, <1>7, <1>11, <3>1, <3>2
  <2>2. CASE ini < k
    <3>1. o < q
      BY <1>4, <1>6, <1>7, <1>9, <2>2
    <3> QED BY <1>4, <1>5, <1>7, <1>11, <3>1
  <2> QED BY <1>1, <1>3, <2>1, <2>2
<1>15. e = d <=> c = 0 \/ (k = fin /\ y = s)
  <2>1. CASE k < fin
    <3>1. q + B <= s /\ e = q + B
      BY <1>4, <1>5, <1>7, <1>8, <1>11, <2>1
    <3>2. o < q + B
      <4>1. CASE ini = k
        BY <1>2, <1>7, <4>1
      <4>2. CASE ini < k
        BY <1>4, <1>6, <1>7, <1>9, <4>2
      <4> QED BY <1>1, <1>3, <4>1, <4>2
    <3> QED BY <1>1, <1>3, <1>4, <1>7, <1>11, <2>1, <3>1, <3>2
  <2>2. CASE k = fin
    <3>1. q = y /\ e = s
      BY <1>2, <1>4, <1>7, <1>11, <2>2
    <3> QED BY <1>4, <1>5, <1>7, <1>11, <2>2, <3>1
  <2> QED BY <1>1, <1>3, <2>1, <2>2
<1>16. e # d => k < CalcularBloques(s)
  <2> SUFFICES ASSUME e # d PROVE k < CalcularBloques(s)
    OBVIOUS
  <2>1. fin = s \div BLOCK_SIZE
    BY <1>2
  <2>2. fin <= CalcularBloques(s) /\ CalcularBloques(s) \in Nat
    BY <1>7, <2>1, CantidadDe
  <2>3. CASE k < fin
    BY <1>1, <1>3, <2>2, <2>3
  <2>4. CASE k = fin
    <3>1. y # s
      BY <1>15, <2>4
    <3>2. PICK r : r = s % BLOCK_SIZE
      OBVIOUS
    <3>3. s = y + r /\ r \in Nat
      <4>1. s = BLOCK_SIZE * (s \div BLOCK_SIZE) + (s % BLOCK_SIZE) /\ s % BLOCK_SIZE \in Nat
        BY <1>7, BloqueDeByte
      <4> QED BY <1>2, <2>1, <3>2, <4>1
    <3>4. r # 0
      BY <1>5, <3>1, <3>3
    <3>5. CalcularBloques(s) = fin + 1
      BY <2>1, <3>2, <3>4 DEF CalcularBloques
    <3> QED BY <1>1, <2>4, <3>5
  <2> QED BY <1>1, <1>3, <2>3, <2>4
<1>17. /\ t.cant \in Nat /\ t.desde \in Nat /\ t.pos \in Nat
       /\ t.desde + t.cant <= B /\ q + t.desde = o + t.pos /\ t.pos + t.cant <= c
       /\ t.cant = 0 <=> e = d
  BY <1>4, <1>7, <1>13, <1>14
<1> QED BY <1>2, <1>3, <1>12, <1>15, <1>16, <1>17

-----------------------------------------------------------------------------
(* ESCRIBIR_ARCHIVO, copy by copy.                                         *)
EscribeTrozo(f, bs, t, z) ==
  IF t.cant = 0 THEN bs
  ELSE [bs EXCEPT ![Destino(bs, f, t.bloque, z)] = Datos(f, t.bloque)]
Escritos(f, m, l, z) == FoldLeft(LAMBDA bs, t : EscribeTrozo(f, bs, t, z), m, l)
TurnosDeEscribir(h, f, m, l, z, N) ==
  h[0] = m /\ \A n \in 1..N : h[n] = EscribeTrozo(f, h[n - 1], l[n], z)

(* One turn of the loop of writes leaves blocks of the right type.         *)
LEMMA EscribeTrozoEs ==
  ASSUME NEW f \in ARCHIVOS, NEW bs \in Buffers, NEW t, t.bloque \in Nat, NEW z
  PROVE  EscribeTrozo(f, bs, t, z) \in Buffers
<1>1. PICK x, y : x = Destino(bs, f, t.bloque, z) /\ y = Datos(f, t.bloque)
  OBVIOUS
<1>2. y \in Contenidos
  BY <1>1, TiposDeBloque
<1>3. [bs EXCEPT ![x] = y] \in Buffers
  BY <1>2 DEF Buffers
<1> QED BY <1>1, <1>3 DEF EscribeTrozo

(* One copy in each turn.                                                  *)
LEMMA BucleDeEscribir ==
  ASSUME NEW f \in ARCHIVOS, NEW m \in Buffers, NEW l \in Seq(Trozos), NEW z,
         NEW N \in Nat, N = Len(l), \A i \in 1..N : l[i].bloque \in Nat
  PROVE  \E h : TurnosDeEscribir(h, f, m, l, z, N) /\ Escritos(f, m, l, z) = h[N]
<1> DEFINE T == Buffers
           paso == [x \in (1..N) \X T |-> EscribeTrozo(f, x[2], l[x[1]], z)]
           Sigue(it, s) == IF s = {} THEN m
                           ELSE EscribeTrozo(f, it[s \ {Max(s)}], l[Max(s)], z)
           D == DOMAIN l
           it == CHOOSE it : it = [s \in SUBSET D |-> Sigue(it, s)]
           h == [n \in 0..N |-> it[1..n]]
<1>1. D = 1..N
  OBVIOUS
<1>2. Escritos(f, m, l, z) = it[D]
  BY DEF Escritos, FoldLeft, MapThenFoldSet
<1>3. ASSUME NEW n \in 1..N, NEW t \in T
      PROVE  /\ paso[<<n, t>>] = EscribeTrozo(f, t, l[n], z)
             /\ EscribeTrozo(f, t, l[n], z) \in T
  <2>1. EscribeTrozo(f, t, l[n], z) \in T
    BY EscribeTrozoEs
  <2> QED BY <2>1
<1> HIDE DEF paso, T
<1>4. \A s \in SUBSET (1..N) : it[s] = Sigue(it, s)
  <2>1. m \in T /\ SePliega(N, T, paso)
    BY <1>3 DEF SePliega, T
  <2>2. PICK jt : Pliegue(jt, N, T, m, paso)
    <3> HIDE DEF it, h
    <3> QED BY <2>1, PliegueExiste
  <2>3. ASSUME NEW s \in SUBSET (1..N)
        PROVE  jt[s] = Sigue(jt, s)
    <3>1. CASE s = {}
      BY <2>2, <3>1 DEF Pliegue, PasoDePliegue
    <3>2. CASE s # {}
      <4>1. Max(s) \in s
        <5> HIDE DEF it, h
        <5> QED BY <3>2, MaximoDe
      <4>2. jt[s \ {Max(s)}] \in T /\ Max(s) \in 1..N
        BY <2>2, <4>1 DEF Pliegue
      <4>3. jt[s] = paso[<<Max(s), jt[s \ {Max(s)}]>>]
        BY <2>2, <3>2 DEF Pliegue, PasoDePliegue
      <4>4. jt[s] = EscribeTrozo(f, jt[s \ {Max(s)}], l[Max(s)], z)
        BY <1>3, <4>2, <4>3
      <4> QED
        BY <3>2, <4>4
    <3> QED BY <3>1, <3>2
  <2>4. jt = [s \in SUBSET D |-> Sigue(jt, s)]
    <3> HIDE DEF D, Sigue
    <3> QED BY <1>1, <2>2, <2>3 DEF Pliegue
  <2>5. it = [s \in SUBSET D |-> Sigue(it, s)]
    <3> HIDE DEF Sigue, D
    <3> QED BY <2>4
  <2> HIDE DEF it, Sigue, D
  <2> QED
    BY <1>1, <2>5
<1> HIDE DEF it, D
<1>5. h[0] = m
  <2>1. 1..0 = {} /\ {} \in SUBSET (1..N) /\ 0 \in 0..N
    OBVIOUS
  <2> QED BY <2>1, <1>4
<1>6. ASSUME NEW n \in 1..N
      PROVE  h[n] = EscribeTrozo(f, h[n - 1], l[n], z)
  <2>1. 1..n # {} /\ Max(1..n) = n /\ (1..n) \ {n} = 1..(n - 1)
    BY Hasta
  <2>2. 1..n \in SUBSET (1..N)
    OBVIOUS
  <2>3. it[1..n] = EscribeTrozo(f, it[1..(n - 1)], l[n], z)
    BY <1>4, <2>1, <2>2
  <2> QED
    BY <2>3
<1>7. h[N] = it[D]
  BY <1>1
<1>8. Escritos(f, m, l, z) = h[N]
  BY <1>2, <1>7
<1> HIDE DEF h
<1> QED
  BY ONLY <1>5, <1>6, <1>8 DEF TurnosDeEscribir

-----------------------------------------------------------------------------
(* The copies leave blocks of the right type, wherever they go.            *)
LEMMA EscritosTipo ==
  ASSUME NEW f \in ARCHIVOS, blocks_buffer \in Buffers, NEW o \in Nat, NEW c \in Nat,
         NEW z
  PROVE  Escritos(f, blocks_buffer, Copias(o, c), z) \in Buffers
<1>1. PICK ini, fin : ini = o \div BLOCK_SIZE /\ fin = (o + c) \div BLOCK_SIZE
  OBVIOUS
<1>2. ini \in Nat /\ fin \in Nat /\ ini <= fin
  BY <1>1, Extremos
<1>3. PICK N \in Nat : N = fin - ini + 1
  <2>1. fin - ini + 1 \in Nat
    BY <1>2
  <2> QED BY <2>1
<1>4. PICK l : l = Copias(o, c)
  OBVIOUS
<1>5. l \in Seq(Trozos) /\ Len(l) = N /\ \A i \in 1..N : l[i] = CopiaDe(o, c, ini + i - 1)
  <2>1. Son(Copias(o, c), o, c, ini, fin - ini + 1)
    BY <1>1, CopiasSon
  <2>2. Son(l, o, c, ini, N)
    BY ONLY <1>3, <1>4, <2>1
  <2> QED BY <2>2 DEF Son
<1>6. \A i \in 1..N : l[i].bloque \in Nat
  <2>1. \A k : CopiaDe(o, c, k).bloque = k
    BY DEF CopiaDe, Copia
  <2>2. \A i \in 1..N : ini + i - 1 \in Nat
    BY <1>2
  <2> QED BY <1>5, <2>1, <2>2
<1>7. PICK h : /\ TurnosDeEscribir(h, f, blocks_buffer, l, z, N)
               /\ Escritos(f, blocks_buffer, l, z) = h[N]
  <2>1. PICK m : m = blocks_buffer
    OBVIOUS
  <2>2. m \in Buffers /\ l \in Seq(Trozos) /\ N = Len(l) /\ f \in ARCHIVOS
    BY <1>5, <2>1
  <2>3. PICK h : TurnosDeEscribir(h, f, m, l, z, N) /\ Escritos(f, m, l, z) = h[N]
    BY ONLY <1>3, <1>6, <2>2, BucleDeEscribir
  <2> QED BY <2>1, <2>3
<1> DEFINE S == {n \in 0..N : h[n] \in Buffers}
<1>8. 0 \in S
  BY <1>3, <1>7 DEF TurnosDeEscribir
<1>9. ASSUME NEW n \in 0..(N - 1), n \in S PROVE n + 1 \in S
  <2>1. n + 1 \in 1..N /\ (n + 1) - 1 = n /\ n + 1 \in 0..N
    BY <1>3
  <2>2. h[n + 1] = EscribeTrozo(f, h[n], l[n + 1], z)
    BY <1>7, <2>1 DEF TurnosDeEscribir
  <2>3. l[n + 1].bloque \in Nat /\ h[n] \in Buffers
    BY <1>6, <1>9, <2>1
  <2>4. h[n + 1] \in Buffers
    BY <2>2, <2>3, EscribeTrozoEs
  <2> QED BY <2>1, <2>4
<1>10. N \in S
  <2> HIDE DEF S
  <2>1. \A n \in 0..N : n \in S
    BY <1>3, <1>8, <1>9, Induccion
  <2> QED BY <1>3, <2>1
<1> QED BY <1>4, <1>7, <1>10

-----------------------------------------------------------------------------
(* The positions W of a file are written, and nothing else is.             *)
Marcado(f, bs, W) ==
  /\ bs \in Buffers /\ W \subseteq 0..(Cuantos(f) - 1)
  /\ \A k \in W : bs[Ref(f, k)] = Datos(f, k)
  /\ \A b \in Bloques : (\A k \in W : b # Ref(f, k)) => bs[b] = blocks_buffer[b]
Tocados(o, c) ==
  {k \in (o \div BLOCK_SIZE)..((o + c) \div BLOCK_SIZE) : CopiaDe(o, c, k).cant # 0}

(* Positions of data are positions, and with a second one the indirect     *)
(* block is another.                                                       *)
LEMMA PosicionDeDatos ==
  ASSUME Tipos, NEW f \in DOMAIN fcb, NEW k \in 0..(Cuantos(f) - 1)
  PROVE  /\ k \in Nat /\ k < Cuantos(f) /\ k \in PosDe(f)
         /\ k # 0 => -1 \in PosDe(f)
<1>1. PICK a : a = Cuantos(f)
  OBVIOUS
<1>2. a \in Nat /\ k \in 0..(a - 1) /\ k \in PosDe(f)
      /\ (a > 1 => -1 \in PosDe(f))
  BY <1>1, CantDe
<1>3. k \in Nat /\ k < a /\ (k # 0 => a > 1)
  BY <1>2
<1> QED BY <1>1, <1>2, <1>3

(* The copies only move data: pointers stay where they were.               *)
LEMMA MarcadoQuieto ==
  ASSUME Tipos, Repartidos, NEW f \in DOMAIN fcb, NEW W, NEW bs, Marcado(f, bs, W)
  PROVE  /\ \A k \in 0..(Cuantos(f) - 1) : Lugar(bs, fcb[f], k) = Ref(f, k)
         /\ \A k \in PosDe(f) \ W : bs[Ref(f, k)] = blocks_buffer[Ref(f, k)]
         /\ RespetaAjenos(f, bs)
<1>1. ASSUME NEW k \in PosDe(f), k \notin W
      PROVE  bs[Ref(f, k)] = blocks_buffer[Ref(f, k)]
  <2>1. Ref(f, k) \in Bloques
    BY DEF Repartidos, Tipos
  <2>2. \A j \in W : j \in PosDe(f)
    BY PosicionDeDatos DEF Marcado
  <2>3. \A j \in W : Ref(f, k) # Ref(f, j)
    BY <1>1, <2>2 DEF Repartidos
  <2> QED BY <2>1, <2>3 DEF Marcado
<1>2. ASSUME NEW k \in 0..(Cuantos(f) - 1)
      PROVE  Lugar(bs, fcb[f], k) = Ref(f, k)
  <2>0. k # -1
    BY PosicionDeDatos
  <2>1. CASE k = 0
    BY <2>0, <2>1 DEF Ref, Lugar, Resuelve
  <2>2. CASE k # 0
    <3>1. -1 \in PosDe(f)
      BY <2>2, PosicionDeDatos
    <3>2. -1 \notin W
      <4>1. \A j \in W : j \in Nat
        BY PosicionDeDatos DEF Marcado
      <4> QED BY <4>1
    <3>3. Ref(f, -1) = fcb[f].f_ip
      BY DEF Ref, Lugar
    <3>4. bs[fcb[f].f_ip] = blocks_buffer[fcb[f].f_ip]
      BY <1>1, <3>1, <3>2, <3>3
    <3> QED BY <2>0, <2>2, <3>4 DEF Ref, Lugar, Resuelve
  <2> QED BY <2>1, <2>2
<1>3. ASSUME NEW b \in Bloques, Ajeno(f, b)
      PROVE  bs[b] = blocks_buffer[b]
  <2>1. \A k \in W : k \in PosDe(f)
    BY PosicionDeDatos DEF Marcado
  <2> QED BY <1>3, <2>1, AjenoEs DEF Marcado
<1> QED BY <1>1, <1>2, <1>3 DEF RespetaAjenos

(* One copy.                                                               *)
LEMMA UnTrozo ==
  ASSUME Tipos, Repartidos, NEW f \in DOMAIN fcb, NEW W, NEW bs, Marcado(f, bs, W),
         NEW t, t.cant # 0, NEW k \in 0..(Cuantos(f) - 1), t.bloque = k,
         NEW z
  PROVE  Marcado(f, EscribeTrozo(f, bs, t, z), W \union {k})
<1>1. PICK x : x = Ref(f, k)
  OBVIOUS
<1>2. k \in PosDe(f) /\ k \in Nat /\ k # -1
  BY PosicionDeDatos
<1>3. x \in Bloques
  BY <1>1, <1>2 DEF Repartidos, Tipos
<1>4. Destino(bs, f, k, z) = x
  <2>1. Lugar(bs, fcb[f], k) = x
    BY <1>1, MarcadoQuieto
  <2>2. ~(k >= Tope(Cuantos(f), 1))
    <3>1. k < Cuantos(f) /\ Cuantos(f) \in Nat
      BY PosicionDeDatos, CantEnNat
    <3> QED BY <1>2, <3>1 DEF Tope
  <2>3. Destino(bs, f, k, z) = Resuelve(bs, fcb[f], k)
    BY <2>2 DEF Destino
  <2> QED BY <1>2, <2>1, <2>3 DEF Lugar
<1>5. PICK r : r = [bs EXCEPT ![x] = Datos(f, k)]
  OBVIOUS
<1>6. EscribeTrozo(f, bs, t, z) = r
  BY <1>4, <1>5 DEF EscribeTrozo
<1>7. f \in ARCHIVOS /\ Datos(f, k) \in Contenidos
  BY <1>2, TiposDeBloque DEF Tipos
<1>8. /\ r \in Buffers /\ r[x] = Datos(f, k)
      /\ \A b \in Bloques : b # x => r[b] = bs[b]
  <2>1. bs \in [Bloques -> Contenidos]
    BY DEF Marcado, Buffers
  <2> QED BY <1>3, <1>5, <1>7, <2>1 DEF Buffers
<1>9. ASSUME NEW j \in W, j # k PROVE r[Ref(f, j)] = Datos(f, j)
  <2>1. j \in PosDe(f)
    BY PosicionDeDatos DEF Marcado
  <2>2. Ref(f, j) # x /\ Ref(f, j) \in Bloques
    BY <1>1, <1>2, <1>9, <2>1 DEF Repartidos, Tipos
  <2> QED BY <1>8, <2>2 DEF Marcado
<1>10. \A j \in W \union {k} : r[Ref(f, j)] = Datos(f, j)
  BY <1>1, <1>8, <1>9
<1>11. ASSUME NEW b \in Bloques, \A j \in W \union {k} : b # Ref(f, j)
       PROVE  r[b] = blocks_buffer[b]
  <2>1. b # x /\ \A j \in W : b # Ref(f, j)
    BY <1>1, <1>11
  <2> QED BY <1>8, <2>1 DEF Marcado
<1>12. W \union {k} \subseteq 0..(Cuantos(f) - 1)
  BY DEF Marcado
<1>13. Marcado(f, r, W \union {k})
  BY <1>8, <1>10, <1>11, <1>12 DEF Marcado
<1> QED BY <1>6, <1>13

(* ESCRIBIR_ARCHIVO, whole.                                                *)
LEMMA EscritoEs ==
  ASSUME Tipos, Repartidos, NEW f \in DOMAIN fcb, NEW o \in Nat, NEW c \in Nat,
         Adentro(f, o, c), NEW z
  PROVE  Marcado(f, Escritos(f, blocks_buffer, Copias(o, c), z), Tocados(o, c))
<1>1. PICK ini, fin : ini = o \div BLOCK_SIZE /\ fin = (o + c) \div BLOCK_SIZE
  OBVIOUS
<1>2. ini \in Nat /\ fin \in Nat /\ ini <= fin
  BY <1>1, Extremos
<1>3. PICK N \in Nat : N = fin - ini + 1
  <2>1. fin - ini + 1 \in Nat
    BY <1>2
  <2> QED BY <2>1
<1>4. PICK l : l = Copias(o, c)
  OBVIOUS
<1>5. l \in Seq(Trozos) /\ Len(l) = N /\ \A i \in 1..N : l[i] = CopiaDe(o, c, ini + i - 1)
  <2>1. Son(Copias(o, c), o, c, ini, fin - ini + 1)
    BY <1>1, CopiasSon
  <2>2. Son(l, o, c, ini, N)
    BY ONLY <1>3, <1>4, <2>1
  <2> QED BY <2>2 DEF Son
<1>6. \A i \in 1..N : ini + i - 1 \in ini..fin
  BY <1>2, <1>3
<1>7. \A k : CopiaDe(o, c, k).bloque = k
  BY DEF CopiaDe, Copia
<1>8. \A i \in 1..N : l[i].bloque = ini + i - 1 /\ l[i].bloque \in Nat
  BY <1>2, <1>5, <1>6, <1>7
<1>9. f \in ARCHIVOS /\ blocks_buffer \in Buffers
  BY DEF Tipos
<1>10. PICK h : /\ TurnosDeEscribir(h, f, blocks_buffer, l, z, N)
                /\ Escritos(f, blocks_buffer, l, z) = h[N]
  BY <1>5, <1>8, <1>9, BucleDeEscribir
<1>11. \A k \in ini..fin : CopiaDe(o, c, k).cant # 0 => k \in 0..(Cuantos(f) - 1)
  <2> SUFFICES ASSUME NEW k \in ini..fin, CopiaDe(o, c, k).cant # 0
               PROVE  k \in 0..(Cuantos(f) - 1)
    OBVIOUS
  <2>1. PICK t, q : t = CopiaDe(o, c, k) /\ q = Cuantos(f)
    OBVIOUS
  <2>2. /\ k \in Nat /\ t.cant \in Nat /\ t.desde \in Nat /\ t.pos \in Nat
        /\ BLOCK_SIZE * k + t.desde = o + t.pos /\ t.pos + t.cant <= c
        /\ t.cant = 0 <=> c = 0 \/ (k = fin /\ BLOCK_SIZE * fin = o + c)
    BY <1>1, <2>1, CopiaDentro
  <2>3. q \in Nat /\ o + c <= BLOCK_SIZE * q /\ t.cant > 0
    BY <2>1, <2>2, CantEnNat DEF Adentro
  <2>4. BLOCK_SIZE \in Nat \ {0}
    BY SupuestoArchivos
  <2>5. CASE q = k
    <3>1. PICK x : x = BLOCK_SIZE * k
      OBVIOUS
    <3>2. x \in Nat
      BY <2>2, <2>4, <3>1
    <3> QED BY <2>2, <2>3, <2>5, <3>1, <3>2
  <2>6. CASE q < k
    <3>1. PICK x, y : x = BLOCK_SIZE * q /\ y = BLOCK_SIZE * k
      OBVIOUS
    <3>2. x \in Int /\ y \in Int /\ x + BLOCK_SIZE <= y
      BY <2>2, <2>3, <2>4, <2>6, <3>1, Productos
    <3> QED BY <2>2, <2>3, <2>4, <3>1, <3>2
  <2> QED BY <2>1, <2>2, <2>3, <2>5, <2>6
<1> DEFINE P(n) == {k \in ini..(ini + n - 1) : k <= fin /\ CopiaDe(o, c, k).cant # 0}
           S == {n \in 0..N : Marcado(f, h[n], P(n))}
<1>12. 0 \in S
  <2>1. P(0) = {}
    BY <1>2
  <2>2. h[0] = blocks_buffer
    BY <1>10 DEF TurnosDeEscribir
  <2>3. Marcado(f, h[0], {})
    BY <1>9, <2>2 DEF Marcado
  <2>4. 0 \in 0..N
    BY <1>3
  <2> HIDE DEF P
  <2> QED BY <2>1, <2>3, <2>4
<1>13. ASSUME NEW n \in 0..(N - 1), n \in S PROVE n + 1 \in S
  <2>1. PICK i : i = n + 1
    OBVIOUS
  <2>2. i \in 1..N /\ i - 1 = n /\ i \in 0..N
    BY <1>3, <2>1
  <2>3. PICK k : k = ini + i - 1
    OBVIOUS
  <2>4. k \in ini..fin /\ k = ini + n
    BY <1>2, <1>6, <2>2, <2>3
  <2>5. PICK t : t = l[i]
    OBVIOUS
  <2>6. t = CopiaDe(o, c, k) /\ t.bloque = k
    BY <1>5, <1>7, <2>2, <2>3, <2>5
  <2>7. h[i] = EscribeTrozo(f, h[n], t, z)
    BY <1>10, <2>2, <2>5 DEF TurnosDeEscribir
  <2>8. Marcado(f, h[n], P(n))
    BY <1>13
  <2>9. P(i) = IF t.cant = 0 THEN P(n) ELSE P(n) \union {k}
    <3>1. \A j : j \in ini..(ini + i - 1) <=> j \in ini..(ini + n - 1) \/ j = k
      BY <1>2, <2>1, <2>2, <2>4
    <3>2. k <= fin
      BY <1>2, <2>4
    <3> QED BY <2>6, <3>1, <3>2
  <2> HIDE DEF P
  <2>10. CASE t.cant = 0
    <3>1. h[i] = h[n] /\ P(i) = P(n)
      BY <2>7, <2>9, <2>10 DEF EscribeTrozo
    <3> QED BY <2>1, <2>2, <2>8, <3>1
  <2>11. CASE t.cant # 0
    <3>1. k \in 0..(Cuantos(f) - 1)
      BY <1>11, <2>4, <2>6, <2>11
    <3>2. Marcado(f, EscribeTrozo(f, h[n], t, z), P(n) \union {k})
      BY <2>6, <2>8, <2>11, <3>1, UnTrozo
    <3> QED BY <2>1, <2>2, <2>7, <2>9, <2>11, <3>2
  <2> QED BY <2>10, <2>11
<1>14. N \in S
  <2> HIDE DEF S
  <2>1. \A n \in 0..N : n \in S
    BY <1>3, <1>12, <1>13, Induccion
  <2> QED BY <1>3, <2>1
<1>15. P(N) = Tocados(o, c)
  <2>1. ini + N - 1 = fin
    BY <1>2, <1>3
  <2>2. \A k \in ini..fin : k <= fin
    BY <1>2
  <2> QED BY <1>1, <2>1, <2>2 DEF Tocados
<1> QED BY <1>4, <1>10, <1>14, <1>15

-----------------------------------------------------------------------------

(* The invariant is inductive, one lemma for each action.                  *)
LEMMA InicioInductivo == Init => Inductivo
<1> SUFFICES ASSUME Init PROVE Inductivo
  OBVIOUS
<1>1. DOMAIN fcb = {} /\ bitmap = {} /\ disco = "exacto"
  BY DEF Init
<1>2. blocks_buffer \in Buffers /\ \A b \in Bloques : blocks_buffer[b] = Ceros
  <2>1. Ceros \in Contenidos
    BY TiposDeBloque
  <2> QED BY <2>1 DEF Init, Buffers
<1>3. Tipos
  BY <1>1, <1>2 DEF Tipos
<1>4. Repartidos
  BY <1>1, <1>2 DEF Repartidos, Limpios
<1>5. SinPerdidos
  BY <1>1 DEF SinPerdidos
<1> QED BY <1>3, <1>4, <1>5 DEF Inductivo

(* Of a disk that is not followed only the types are asked.                *)
LEMMA FinalMantiene ==
  ASSUME Tipos', disco' \in Finales
  PROVE  Inductivo'
BY DEF Inductivo, Entero, Finales

(* Another file is the only change of a creation.                          *)
LEMMA CreadoEs ==
  ASSUME Tipos, NEW f \in ARCHIVOS, f \notin DOMAIN fcb, NEW c,
         c.f_size = 0, c.f_dp = 0, c.f_ip = 0,
         fcb' = ConFcb(f, c), bitmap' = bitmap, blocks_buffer' = blocks_buffer,
         disco' \in {"exacto", "pierde"} \union Finales
  PROVE  /\ DOMAIN fcb' = DOMAIN fcb \union {f} /\ fcb'[f] = c
         /\ \A g \in DOMAIN fcb : g # f /\ fcb'[g] = fcb[g]
         /\ Tipos'
<1>1. /\ DOMAIN fcb' = DOMAIN fcb \union {f} /\ fcb'[f] = c
      /\ \A g \in DOMAIN fcb : g # f /\ fcb'[g] = fcb[g]
  BY DEF ConFcb
<1>2. 0 \in Bloques
  BY TiposDeBloque
<1> QED BY <1>1, <1>2 DEF Tipos

(* crear_archivo: a file with no blocks takes nothing from the others.     *)
LEMMA CrearMantiene ==
  ASSUME Inductivo, NEW f \in ARCHIVOS, Crear(f)
  PROVE  Inductivo'
<1>1. PICK c : c = [f_size |-> 0, f_dp |-> 0, f_ip |-> 0]
  OBVIOUS
<1>2. /\ Entero /\ f \notin DOMAIN fcb /\ fcb' = ConFcb(f, c)
      /\ bitmap' = bitmap /\ blocks_buffer' = blocks_buffer /\ disco' = disco
      /\ c.f_size = 0 /\ c.f_dp = 0 /\ c.f_ip = 0
  BY <1>1 DEF Crear
<1>3. Tipos /\ Repartidos /\ (disco = "exacto" => SinPerdidos)
  BY <1>2 DEF Inductivo
<1>4. /\ DOMAIN fcb' = DOMAIN fcb \union {f} /\ fcb'[f] = c
      /\ \A g \in DOMAIN fcb : g # f /\ fcb'[g] = fcb[g]
      /\ Tipos'
  <2>1. disco' \in {"exacto", "pierde"} \union Finales
    BY <1>2 DEF Entero
  <2> QED BY ONLY <1>2, <1>3, <2>1, f \in ARCHIVOS, CreadoEs
<1>5. \A g \in DOMAIN fcb : /\ Cuantos(g)' = Cuantos(g) /\ PosDe(g)' = PosDe(g)
                            /\ \A k : Ref(g, k)' = Ref(g, k)
  BY <1>2, <1>4 DEF Cuantos, Ref, PosDe
<1>6. Cuantos(f)' = 0 /\ PosDe(f)' = {} /\ POR_BLOQUE + 1 >= 0
  <2>1. CalcularBloques(0) = 0
    BY CantidadDe
  <2>2. Cuantos(f)' = 0
    BY <1>2, <1>4, <2>1 DEF Cuantos
  <2>3. Posiciones(0, 0) = {}
    BY PosicionesDe
  <2>4. PosDe(f)' = {}
    BY <1>2, <1>4, <2>2, <2>3 DEF PosDe
  <2>5. POR_BLOQUE + 1 >= 0
    BY SupuestoArchivos DEF POR_BLOQUE
  <2> QED BY <2>2, <2>4, <2>5
<1>7. Repartidos'
  <2>1. /\ \A g \in DOMAIN fcb' : Cuantos(g)' <= POR_BLOQUE + 1
        /\ \A g \in DOMAIN fcb' : Cuantos(g)' = 0 => fcb'[g].f_ip = 0
    <3>1. 0 <= POR_BLOQUE + 1
      BY SupuestoArchivos DEF POR_BLOQUE
    <3> QED BY <1>2, <1>3, <1>4, <1>5, <1>6, <3>1 DEF Repartidos
  <2>2. \A g \in DOMAIN fcb' : \A k \in PosDe(g)' :
          g \in DOMAIN fcb /\ k \in PosDe(g) /\ Ref(g, k)' = Ref(g, k)
    BY <1>4, <1>5, <1>6
  <2>3. \A g, h \in DOMAIN fcb' :
          \A k \in PosDe(g)', j \in PosDe(h)' :
            Ref(g, k)' = Ref(h, j)' => g = h /\ k = j
    BY <1>3, <2>2 DEF Repartidos
  <2>4. Limpios(bitmap', blocks_buffer')
    BY <1>2, <1>3 DEF Repartidos
  <2>5. \A g \in DOMAIN fcb' : \A k \in PosDe(g)' : Ref(g, k)' \in bitmap'
    BY <1>2, <1>3, <2>2 DEF Repartidos
  <2> QED BY <2>1, <2>3, <2>4, <2>5 DEF Repartidos
<1>8. disco' = "exacto" => SinPerdidos'
  BY <1>2, <1>3, <1>4, <1>5 DEF SinPerdidos, Propio
<1> QED BY <1>4, <1>7, <1>8 DEF Inductivo

(* A stop in crear_archivo.                                                *)
LEMMA CorteCrearMantiene ==
  ASSUME Inductivo, NEW f \in ARCHIVOS, CorteCrear(f)
  PROVE  Inductivo'
<1>1. PICK c : c = FcbVacio
  OBVIOUS
<1>2. /\ f \notin DOMAIN fcb /\ fcb' = ConFcb(f, c) /\ bitmap' = bitmap
      /\ blocks_buffer' = blocks_buffer /\ disco' = "corte" /\ Tipos
      /\ c.f_size = 0 /\ c.f_dp = 0 /\ c.f_ip = 0 /\ "corte" \in Finales
  BY <1>1 DEF CorteCrear, FcbVacio, Inductivo, Finales
<1>3. Tipos'
  BY <1>2, CreadoEs
<1> QED BY <1>2, <1>3, FinalMantiene

(* What truncar_archivo computes, and on which file.                       *)
LEMMA AntesDeTruncar ==
  ASSUME PunterosEnteros, Inductivo, NEW f, Usable(f),
         NEW s \in TAMANIOS, NEW m, m = Truncado(f, s), NEW n, n = CalcularBloques(s)
  PROVE  /\ Tipos /\ Repartidos /\ f \in DOMAIN fcb /\ n \in Nat /\ s \in Nat
         /\ m \in Estados /\ m.alcanza \in BOOLEAN
         /\ ~LiberaElCero(f, n) => Truncada(f, n, m)
         /\ LiberaElCero(f, n) => m.alcanza
         /\ Cuantos(f) = n => m.escrito = {}
<1>1. Tipos /\ Repartidos /\ f \in DOMAIN fcb /\ s \in Nat
  BY SupuestoArchivos DEF Usable, Inductivo
<1>2. /\ n \in Nat /\ m \in Estados /\ (~LiberaElCero(f, n) => Truncada(f, n, m))
      /\ LiberaElCero(f, n) => m.alcanza
  BY <1>1, TruncadoEs
<1>3. ASSUME Cuantos(f) = n PROVE m.escrito = {}
  <2>1. ~(Cuantos(f) < n) /\ ~(Cuantos(f) > n)
    BY <1>2, <1>3
  <2>2. m = Partida(f)
    BY <2>1 DEF Truncado, Partida, Cuantos
  <2> QED BY <2>2 DEF Partida
<1> QED BY <1>1, <1>2, <1>3 DEF Estados

(* What truncar_archivo leaves in the history.                             *)
LEMMA HistoriaDeTruncar ==
  ASSUME NEW f, NEW s, Truncar(f, s), NEW m, m = Truncado(f, s),
         NEW n, n = CalcularBloques(s), m.alcanza \in BOOLEAN
  PROVE  \/ ~m.alcanza /\ disco' = "lleno"
         \/ m.alcanza /\ LiberaElCero(f, n) /\ disco' = "cero"
         \/ m.alcanza /\ ~LiberaElCero(f, n) /\ Pierde(f, n) /\ disco' = "pierde"
         \/ m.alcanza /\ ~LiberaElCero(f, n) /\ ~Pierde(f, n) /\ disco' = disco
<1>1. disco' = CASE ~m.alcanza                       -> "lleno"
                 [] m.alcanza /\ LiberaElCero(f, n)  -> "cero"
                 [] m.alcanza /\ Pierde(f, n)        -> "pierde"
                 [] OTHER                            -> disco
  BY DEF Truncar
<1>2. LiberaElCero(f, n) => ~Pierde(f, n)
  BY DEF LiberaElCero, Pierde
<1>3. CASE ~m.alcanza
  BY <1>1, <1>3
<1>4. CASE m.alcanza /\ LiberaElCero(f, n)
  BY <1>1, <1>2, <1>4
<1>5. CASE m.alcanza /\ ~LiberaElCero(f, n) /\ Pierde(f, n)
  BY <1>1, <1>5
<1>6. CASE m.alcanza /\ ~LiberaElCero(f, n) /\ ~Pierde(f, n)
  BY <1>1, <1>6
<1> QED BY <1>3, <1>4, <1>5, <1>6

(* truncar_archivo: the blocks of a file that did not run out are its own. *)
LEMMA TruncarMantiene ==
  ASSUME PunterosEnteros, Inductivo, NEW f \in ARCHIVOS,
         NEW s \in TAMANIOS, Truncar(f, s)
  PROVE  Inductivo'
<1>1. PICK m, n : m = Truncado(f, s) /\ n = CalcularBloques(s)
  OBVIOUS
<1>2. Usable(f)
  BY DEF Truncar
<1>3. /\ Tipos /\ Repartidos /\ f \in DOMAIN fcb /\ n \in Nat /\ m \in Estados
      /\ (~LiberaElCero(f, n) => Truncada(f, n, m))
  BY <1>1, <1>2, AntesDeTruncar
<1>4. /\ bitmap' = m.mapa /\ blocks_buffer' = m.bloques
      /\ fcb' = [fcb EXCEPT ![f] = [f_size |-> s, f_dp |-> m.f_dp, f_ip |-> m.f_ip]]
  BY <1>1 DEF Truncar
<1>5. /\ DOMAIN fcb' = DOMAIN fcb
      /\ \A g \in DOMAIN fcb : g # f => fcb'[g] = fcb[g]
      /\ fcb'[f].f_size = s /\ fcb'[f].f_dp = m.f_dp /\ fcb'[f].f_ip = m.f_ip
  BY <1>3, <1>4
<1>6. /\ m.mapa \subseteq Bloques /\ m.bloques \in Buffers
      /\ m.f_dp \in Bloques /\ m.f_ip \in Bloques /\ m.alcanza \in BOOLEAN
  BY <1>3 DEF Estados
<1>7. \/ disco' \in Finales
      \/ m.alcanza /\ ~LiberaElCero(f, n) /\ Pierde(f, n) /\ disco' = "pierde"
      \/ m.alcanza /\ ~LiberaElCero(f, n) /\ ~Pierde(f, n) /\ disco' = disco
  <2>1. \/ ~m.alcanza /\ disco' = "lleno"
        \/ m.alcanza /\ LiberaElCero(f, n) /\ disco' = "cero"
        \/ m.alcanza /\ ~LiberaElCero(f, n) /\ Pierde(f, n) /\ disco' = "pierde"
        \/ m.alcanza /\ ~LiberaElCero(f, n) /\ ~Pierde(f, n) /\ disco' = disco
    BY <1>1, <1>3, <1>6, HistoriaDeTruncar
  <2> QED BY <2>1 DEF Finales
<1>8. Tipos'
  BY <1>3, <1>4, <1>5, <1>6, <1>7 DEF Tipos
<1>9. CASE disco' \in Finales
  BY <1>8, <1>9, FinalMantiene
<1>10. CASE /\ m.alcanza /\ ~LiberaElCero(f, n)
            /\ \/ Pierde(f, n) /\ disco' = "pierde"
               \/ ~Pierde(f, n) /\ disco' = disco
  <2>1. CalcularBloques(fcb'[f].f_size) = n
    BY <1>1, <1>5
  <2>2. Repartidos' /\ (SinPerdidos /\ ~Pierde(f, n) => SinPerdidos')
    BY <1>3, <1>4, <1>5, <1>10, <2>1, AlTruncar
  <2> QED BY <1>8, <1>10, <2>2 DEF Inductivo
<1> QED BY <1>7, <1>9, <1>10

(* A stop in a growth leaves blocks that nobody has.                       *)
LEMMA CorteTruncarMantiene ==
  ASSUME PunterosEnteros, Inductivo, NEW f \in ARCHIVOS,
         NEW s \in TAMANIOS, CorteTruncar(f, s)
  PROVE  Inductivo'
<1>1. PICK m, n : m = Truncado(f, s) /\ n = CalcularBloques(s)
  OBVIOUS
<1>2. Usable(f)
  BY DEF CorteTruncar
<1>3. /\ Tipos /\ Repartidos /\ f \in DOMAIN fcb /\ n \in Nat /\ s \in Nat
      /\ m \in Estados /\ (~LiberaElCero(f, n) => Truncada(f, n, m))
      /\ (Cuantos(f) = n => m.escrito = {})
  BY <1>1, <1>2, AntesDeTruncar
<1>4. PICK e \in m.escrito : bitmap' = e.mapa /\ blocks_buffer' = e.bloques
  BY <1>1 DEF CorteTruncar
<1>5. fcb' = fcb /\ (disco' \in Finales \/ (disco' = "pierde" /\ s > fcb[f].f_size))
  <2>1. fcb' = fcb /\ disco' = TrasCorte(f, s)
    BY DEF CorteTruncar
  <2> QED BY <2>1 DEF TrasCorte, Finales
<1>6. e.mapa \subseteq Bloques /\ e.bloques \in Buffers
  <2>1. e \in Imagenes
    BY <1>3, <1>4 DEF Estados
  <2> QED BY <2>1 DEF Imagenes
<1>7. Tipos'
  BY <1>3, <1>4, <1>5, <1>6 DEF Tipos
<1>8. CASE disco' = "pierde" /\ s > fcb[f].f_size
  <2>1. Cuantos(f) <= n /\ Cuantos(f) \in Nat /\ n # 0
    <3>1. fcb[f].f_size \in Nat /\ s \in Nat
      BY <1>3, CantDe
    <3>2. fcb[f].f_size <= s /\ s # 0
      BY <1>8, <3>1
    <3> QED BY <1>1, <1>3, <3>1, <3>2, CantidadCrece, CantidadDe, CantEnNat DEF Cuantos
  <2>2. Cuantos(f) < n
    BY <1>3, <1>4, <2>1
  <2>3. ~LiberaElCero(f, n)
    BY <2>1 DEF LiberaElCero
  <2>4. ImagenDeTruncar(f, n, e)
    BY <1>3, <1>4, <2>3 DEF Truncada
  <2>5. Repartidos'
    BY <1>3, <1>4, <1>5, <2>2, <2>4, AlCortar
  <2> QED BY <1>7, <1>8, <2>5 DEF Inductivo
<1>9. CASE disco' \in Finales
  BY <1>7, <1>9, FinalMantiene
<1> QED BY <1>5, <1>8, <1>9

(* An FCB emptied by a stop leaves a disk that is not followed.            *)
LEMMA CorteFcbMantiene ==
  ASSUME PunterosEnteros, Inductivo, NEW f \in ARCHIVOS,
         NEW s \in TAMANIOS, CorteFcb(f, s)
  PROVE  Inductivo'
<1>1. PICK m, n : m = Truncado(f, s) /\ n = CalcularBloques(s)
  OBVIOUS
<1>2. Usable(f)
  BY DEF CorteFcb
<1>3. Tipos /\ f \in DOMAIN fcb /\ m \in Estados
  BY <1>1, <1>2, AntesDeTruncar
<1>4. /\ bitmap' = m.mapa /\ blocks_buffer' = m.bloques
      /\ fcb' = [fcb EXCEPT ![f] = FcbVacio] /\ disco' \in Finales
  BY <1>1 DEF CorteFcb, Finales
<1>5. /\ DOMAIN fcb' = DOMAIN fcb
      /\ \A g \in DOMAIN fcb : g # f => fcb'[g] = fcb[g]
      /\ fcb'[f].f_size = 0 /\ fcb'[f].f_dp = 0 /\ fcb'[f].f_ip = 0
  BY <1>3, <1>4 DEF FcbVacio
<1>6. m.mapa \subseteq Bloques /\ m.bloques \in Buffers /\ 0 \in Bloques
  BY <1>3, TiposDeBloque DEF Estados
<1>7. Tipos'
  BY <1>3, <1>4, <1>5, <1>6 DEF Tipos
<1> QED BY <1>4, <1>7, FinalMantiene

(* The blocks after the copies of a write.                                 *)
LEMMA EscritoDe ==
  ASSUME Tipos, NEW f \in DOMAIN fcb, NEW o \in POSICIONES, NEW c \in POSICIONES, NEW z
  PROVE  /\ o \in Nat /\ c \in Nat /\ Escrito(f, o, c, z) \in Buffers
         /\ Escrito(f, o, c, z) = Escritos(f, blocks_buffer, Copias(o, c), z)
<1>1. o \in Nat /\ c \in Nat /\ f \in ARCHIVOS /\ blocks_buffer \in Buffers
  BY SupuestoArchivos DEF Tipos
<1>2. Escrito(f, o, c, z) = Escritos(f, blocks_buffer, Copias(o, c), z)
  BY DEF Escrito, Escritos, EscribeTrozo, FoldLeft, MapThenFoldSet
<1> QED BY <1>1, <1>2, EscritosTipo

(* What ESCRIBIR_ARCHIVO does inside the file.                             *)
LEMMA EscribirEs ==
  ASSUME Inductivo, NEW f, NEW o \in POSICIONES, NEW c \in POSICIONES,
         Escribir(f, o, c), Adentro(f, o, c)
  PROVE  /\ Tipos /\ Repartidos /\ f \in DOMAIN fcb /\ o \in Nat /\ c \in Nat
         /\ Marcado(f, blocks_buffer', Tocados(o, c))
         /\ bitmap' = bitmap /\ fcb' = fcb /\ disco' = disco
<1>1. Tipos /\ Repartidos /\ f \in DOMAIN fcb
  BY DEF Escribir, Usable, Inductivo
<1>2. bitmap' = bitmap /\ fcb' = fcb /\ disco' = disco
  BY DEF Escribir
<1>3. PICK z : blocks_buffer' = Escrito(f, o, c, z)
  BY DEF Escribir
<1>4. o \in Nat /\ c \in Nat
      /\ blocks_buffer' = Escritos(f, blocks_buffer, Copias(o, c), z)
  BY <1>1, <1>3, EscritoDe
<1>5. Marcado(f, blocks_buffer', Tocados(o, c))
  BY <1>1, <1>4, EscritoEs
<1> QED BY <1>1, <1>2, <1>4, <1>5

(* A write leaves every block where it was.                                *)
LEMMA AlEscribir ==
  ASSUME Tipos, Repartidos, NEW f \in DOMAIN fcb, NEW W,
         Marcado(f, blocks_buffer', W), fcb' = fcb
  PROVE  \A g \in DOMAIN fcb : /\ Cuantos(g)' = Cuantos(g) /\ PosDe(g)' = PosDe(g)
                               /\ \A k \in PosDe(g) : Ref(g, k)' = Ref(g, k)
<1>1. PICK bs : bs = blocks_buffer'
  OBVIOUS
<1>2. /\ \A k \in 0..(Cuantos(f) - 1) : Lugar(bs, fcb[f], k) = Ref(f, k)
      /\ RespetaAjenos(f, bs)
  BY <1>1, MarcadoQuieto
<1>3. \A g, k : Ref(g, k)' = Lugar(bs, fcb[g], k)
  BY <1>1 DEF Ref
<1>4. ASSUME NEW g \in DOMAIN fcb, NEW k \in PosDe(g)
      PROVE  Lugar(bs, fcb[g], k) = Ref(g, k)
  <2>1. CASE g # f
    BY <1>2, <1>4, <2>1, AjenosQuietos DEF Igual
  <2>2. CASE g = f /\ k = -1
    BY <2>2 DEF Ref, Lugar
  <2>3. CASE g = f /\ k # -1
    <3>1. PICK a : a = Cuantos(f)
      OBVIOUS
    <3>2. a \in Nat /\ k \in -1..(a - 1)
      BY <1>4, <2>3, <3>1, CantDe
    <3>3. k \in 0..(a - 1)
      BY <2>3, <3>2
    <3> QED BY <1>2, <2>3, <3>1, <3>3
  <2> QED BY <2>1, <2>2, <2>3
<1> QED BY <1>3, <1>4 DEF Cuantos, PosDe

(* A write inside the file changes no pointer; after another, the disk is  *)
(* not followed.                                                           *)
LEMMA EscribirMantiene ==
  ASSUME Inductivo, NEW f \in ARCHIVOS,
         NEW o \in POSICIONES, NEW c \in POSICIONES, Escribir(f, o, c)
  PROVE  Inductivo'
<1>1. CASE Adentro(f, o, c)
  <2>1. /\ Tipos /\ Repartidos /\ f \in DOMAIN fcb
        /\ Marcado(f, blocks_buffer', Tocados(o, c))
        /\ bitmap' = bitmap /\ fcb' = fcb /\ disco' = disco
    BY <1>1, EscribirEs
  <2>2. Tipos'
    BY <2>1 DEF Tipos, Marcado
  <2>3. \A g \in DOMAIN fcb : /\ Cuantos(g)' = Cuantos(g) /\ PosDe(g)' = PosDe(g)
                              /\ \A k \in PosDe(g) : Ref(g, k)' = Ref(g, k)
    BY <2>1, AlEscribir
  <2>4. Limpios(bitmap', blocks_buffer')
    <3> SUFFICES ASSUME NEW b \in Bloques \ bitmap PROVE blocks_buffer'[b] = Ceros
      BY <2>1 DEF Limpios
    <3>1. \A k \in Tocados(o, c) : k \in PosDe(f)
      BY <2>1, PosicionDeDatos DEF Marcado
    <3>2. \A k \in Tocados(o, c) : b # Ref(f, k)
      BY <2>1, <3>1 DEF Repartidos
    <3> QED BY <2>1, <3>2 DEF Marcado, Repartidos, Limpios
  <2>5. Repartidos'
    BY <2>1, <2>3, <2>4 DEF Repartidos
  <2>6. SinPerdidos => SinPerdidos'
    BY <2>1, <2>3 DEF SinPerdidos, Propio
  <2> QED BY <2>1, <2>2, <2>5, <2>6 DEF Inductivo
<1>2. CASE ~Adentro(f, o, c)
  <2>1. /\ Tipos /\ f \in DOMAIN fcb /\ bitmap' = bitmap /\ fcb' = fcb
        /\ disco' = "afuera" /\ "afuera" \in Finales
    BY <1>2 DEF Escribir, Usable, Inductivo, Finales
  <2>2. PICK z : blocks_buffer' = Escrito(f, o, c, z)
    BY DEF Escribir
  <2>3. blocks_buffer' \in Buffers
    BY <2>1, <2>2, EscritoDe
  <2>4. Tipos'
    BY <2>1, <2>3 DEF Tipos
  <2> QED BY <2>1, <2>4, FinalMantiene
<1> QED BY <1>1, <1>2

(* So it is after a stop while bloques.dat is written again.               *)
LEMMA CorteEscribirMantiene ==
  ASSUME Inductivo, NEW f \in ARCHIVOS,
         NEW o \in POSICIONES, NEW c \in POSICIONES, CorteEscribir(f, o, c)
  PROVE  Inductivo'
<1>1. /\ Tipos /\ f \in DOMAIN fcb /\ bitmap' = bitmap /\ fcb' = fcb
      /\ disco' = "vaciado" /\ "vaciado" \in Finales
  BY DEF CorteEscribir, Usable, Inductivo, Finales
<1>2. PICK z, n : blocks_buffer' = [b \in Bloques |->
                    IF b < n THEN Escrito(f, o, c, z)[b] ELSE Ceros]
  BY DEF CorteEscribir
<1>3. Escrito(f, o, c, z) \in Buffers /\ Ceros \in Contenidos
  BY <1>1, EscritoDe, TiposDeBloque
<1>4. blocks_buffer' \in Buffers
  BY <1>2, <1>3 DEF Buffers
<1>5. Tipos'
  BY <1>1, <1>4 DEF Tipos
<1> QED BY <1>1, <1>5, FinalMantiene

(* Every step keeps the invariant.                                         *)
LEMMA PasoInductivo ==
  ASSUME PunterosEnteros, Inductivo, [Next]_vars
  PROVE  Inductivo'
<1>1. CASE UNCHANGED vars
  BY <1>1 DEF vars, Inductivo, Entero, Tipos, Repartidos, SinPerdidos, Propio, Cuantos,
              PosDe, Ref
<1>2. CASE Next
  <2>1. PICK f \in ARCHIVOS :
          \/ Crear(f) \/ CorteCrear(f)
          \/ \E n \in TAMANIOS : Truncar(f, n) \/ CorteTruncar(f, n) \/ CorteFcb(f, n)
          \/ \E offset, cantidad \in POSICIONES :
               Escribir(f, offset, cantidad) \/ CorteEscribir(f, offset, cantidad)
    BY <1>2 DEF Next
  <2>2. CASE Crear(f) \/ CorteCrear(f)
    BY <2>2, CrearMantiene, CorteCrearMantiene
  <2>3. CASE \E n \in TAMANIOS : Truncar(f, n) \/ CorteTruncar(f, n) \/ CorteFcb(f, n)
    BY <2>3, TruncarMantiene, CorteTruncarMantiene, CorteFcbMantiene
  <2>4. CASE \E offset, cantidad \in POSICIONES :
               Escribir(f, offset, cantidad) \/ CorteEscribir(f, offset, cantidad)
    BY <2>4, EscribirMantiene, CorteEscribirMantiene
  <2> QED BY <2>1, <2>2, <2>3, <2>4
<1> QED BY <1>1, <1>2

(* The files, the bitmap and the blocks agree in every reachable state.    *)
THEOREM InvarianteArchivos ==
  ASSUME PunterosEnteros
  PROVE  Spec => []Inductivo
<1>1. Init => Inductivo
  BY InicioInductivo
<1>2. Inductivo /\ [Next]_vars => Inductivo'
  BY PasoInductivo
<1> QED BY <1>1, <1>2, PTL DEF Spec

-----------------------------------------------------------------------------
(* The invariant gives the properties of the runs.                         *)
LEMMA InductivoDaTypeOK ==
  ASSUME Inductivo
  PROVE  TypeOK
<1>1. Tipos
  BY DEF Inductivo
<1>2. \A b \in Bloques : blocks_buffer[b] \in Contenidos
  BY <1>1 DEF Tipos, Buffers
<1>3. \A c \in Contenidos : c.clase \in {"ceros", "datos", "punteros"}
  BY DEF Contenidos, Ceros, Datos, Punteros
<1> QED BY <1>1, <1>2, <1>3 DEF Tipos, TypeOK

(* What is asked of a disk with lost blocks follows from the invariant.    *)
LEMMA InductivoDaCortes ==
  ASSUME Inductivo
  PROVE  CortesSoloPierden
<1> SUFFICES ASSUME Entero
             PROVE  /\ \A r \in TodasReferencias : Referido(r) \in bitmap
                    /\ \A r, t \in TodasReferencias : Referido(r) = Referido(t) => r = t
                    /\ \A b \in Bloques \ bitmap : blocks_buffer[b] = Ceros
  BY DEF CortesSoloPierden
<1>1. Tipos /\ Repartidos
  BY DEF Inductivo
<1>2. \A r \in TodasReferencias : \E f \in DOMAIN fcb : \E k \in PosDe(f) :
        r = Clave(f, k) /\ Referido(r) = Ref(f, k)
  BY <1>1, ReferenciasSon
<1>3. \A r \in TodasReferencias : Referido(r) \in bitmap
  BY <1>1, <1>2 DEF Repartidos
<1>4. ASSUME NEW r \in TodasReferencias, NEW t \in TodasReferencias,
             Referido(r) = Referido(t)
      PROVE  r = t
  <2>1. PICK f \in DOMAIN fcb : \E k \in PosDe(f) :
          r = Clave(f, k) /\ Referido(r) = Ref(f, k)
    BY <1>2
  <2>2. PICK g \in DOMAIN fcb : \E j \in PosDe(g) :
          t = Clave(g, j) /\ Referido(t) = Ref(g, j)
    BY <1>2
  <2> QED BY <1>1, <1>4, <2>1, <2>2 DEF Repartidos
<1> QED BY <1>1, <1>3, <1>4 DEF Repartidos, Limpios

(* So does that the bitmap has the blocks of the files and no other.       *)
LEMMA InductivoDaExactos ==
  ASSUME Inductivo
  PROVE  BloquesExactos
<1> SUFFICES ASSUME disco = "exacto"
             PROVE  /\ bitmap = {Referido(r) : r \in TodasReferencias}
                    /\ Cardinality(bitmap) = Cardinality(TodasReferencias)
  BY DEF BloquesExactos
<1>1. Tipos /\ Repartidos /\ SinPerdidos /\ CortesSoloPierden /\ Entero
  BY InductivoDaCortes DEF Inductivo, Entero
<1>2. /\ \A r \in TodasReferencias : Referido(r) \in bitmap
      /\ \A r, t \in TodasReferencias : Referido(r) = Referido(t) => r = t
  BY <1>1 DEF CortesSoloPierden
<1>3. \A b \in bitmap : \E r \in TodasReferencias : b = Referido(r)
  BY <1>1, ReferenciasSon DEF SinPerdidos, Propio
<1>4. bitmap = {Referido(r) : r \in TodasReferencias}
  BY <1>2, <1>3
<1>5. IsFiniteSet(bitmap)
  <2>1. 0 \in Int /\ BLOCK_COUNT - 1 \in Int
    BY SupuestoArchivos
  <2>2. IsFiniteSet(Bloques)
    BY <2>1, FS_Interval DEF Bloques
  <2> QED BY <1>1, <2>2, FS_Subset DEF Tipos
<1>6. PICK S : S = TodasReferencias
  OBVIOUS
<1>7. PICK F : F = [r \in S |-> Referido(r)]
  OBVIOUS
<1>8. F \in Injection(S, bitmap)
  BY <1>2, <1>6, <1>7 DEF Injection, IsInjective
<1>9. F \in Surjection(S, bitmap)
  BY <1>2, <1>3, <1>6, <1>7 DEF Surjection
<1>10. Cardinality(S) = Cardinality(bitmap)
  BY <1>5, <1>8, <1>9, FS_Injection
<1> QED BY <1>4, <1>6, <1>10

(* core.c, utils.c: the bitmap, the blocks and the FCBs keep their types.  *)
THEOREM ArchivosBienFormados ==
  ASSUME PunterosEnteros
  PROVE  Spec => []TypeOK
<1>1. Inductivo => TypeOK
  BY InductivoDaTypeOK
<1> QED BY <1>1, InvarianteArchivos, PTL

(* truncar_archivo: no block is shared, and none is lost.                  *)
THEOREM BloquesSiempreExactos ==
  ASSUME PunterosEnteros
  PROVE  Spec => []BloquesExactos
<1>1. Inductivo => BloquesExactos
  BY InductivoDaExactos
<1> QED BY <1>1, InvarianteArchivos, PTL

(* core.c:57-96, 143: stops inside growths only lose blocks.               *)
THEOREM CortesSiempreSoloPierden ==
  ASSUME PunterosEnteros
  PROVE  Spec => []CortesSoloPierden
<1>1. Inductivo => CortesSoloPierden
  BY InductivoDaCortes
<1> QED BY <1>1, InvarianteArchivos, PTL

-----------------------------------------------------------------------------
(* What a program finds in a block that holds c, as position k of f.       *)
Clase(c, f, k) ==
  CASE c = Ceros -> "ceros" [] c = Datos(f, k) -> "escrito" [] OTHER -> "ajeno"

(* Zeros and the data of a position are told apart.                        *)
LEMMA ClaseDe ==
  ASSUME Tipos, NEW f \in DOMAIN fcb, NEW k \in Nat
  PROVE  Clase(Ceros, f, k) = "ceros" /\ Clase(Datos(f, k), f, k) = "escrito"
<1>1. Datos(f, k) # Ceros
  BY TiposDeBloque DEF Tipos
<1> QED BY <1>1 DEF Clase

(* The contents of a file, position by position.                           *)
LEMMA ContenidoEs ==
  ASSUME Tipos, NEW f \in DOMAIN fcb
  PROVE  Contenido(f) = [i \in 1..Cuantos(f) |-> Clase(blocks_buffer[Ref(f, i - 1)], f, i - 1)]
<1>1. PICK a : a = Cuantos(f)
  OBVIOUS
<1>2. a \in Nat
  BY <1>1, CantEnNat
<1>3. ASSUME NEW i \in 1..a
      PROVE  Estado(f, i - 1) = Clase(blocks_buffer[Ref(f, i - 1)], f, i - 1)
  <2>1. PICK k : k = i - 1
    OBVIOUS
  <2>2. k \in 0..(a - 1) /\ k # -1
    BY <1>2, <2>1
  <2>3. DeDatos(f)[k] = Ref(f, k)
    BY <1>1, <2>2 DEF DeDatos, Cuantos, Ref, Lugar
  <2>4. Estado(f, k) = Clase(blocks_buffer[Ref(f, k)], f, k)
    BY <2>3 DEF Estado, Clase
  <2> QED BY <2>1, <2>4
<1>4. Contenido(f) = [i \in 1..a |-> Estado(f, i - 1)]
  BY <1>1 DEF Contenido, Cuantos
<1> QED BY <1>1, <1>3, <1>4

(* The same of the next state.                                             *)
LEMMA ContenidoDespues ==
  ASSUME Tipos', NEW f \in DOMAIN fcb'
  PROVE  Contenido(f)' =
           [i \in 1..Cuantos(f)' |-> Clase(blocks_buffer'[Ref(f, i - 1)'], f, i - 1)]
<1>1. PICK a : a = Cuantos(f)'
  OBVIOUS
<1>2. a \in Nat
  <2>1. fcb'[f].f_size \in TAMANIOS \union {0}
    BY DEF Tipos
  <2>2. TAMANIOS \subseteq Nat
    BY SupuestoArchivos
  <2>3. fcb'[f].f_size \in Nat
    <3>1. \A x \in TAMANIOS \union {0} : x \in Nat
      BY ONLY <2>2
    <3> QED BY ONLY <2>1, <3>1
  <2> QED BY <1>1, <2>3, CantidadDe DEF Cuantos
<1>3. ASSUME NEW i \in 1..a
      PROVE  Estado(f, i - 1)' = Clase(blocks_buffer'[Ref(f, i - 1)'], f, i - 1)
  <2>1. PICK k : k = i - 1
    OBVIOUS
  <2>2. k \in 0..(a - 1) /\ k # -1
    BY <1>2, <2>1
  <2>3. DeDatos(f)'[k] = Ref(f, k)'
    BY <1>1, <2>2 DEF DeDatos, Cuantos, Ref, Lugar
  <2>4. Estado(f, k)' = Clase(blocks_buffer'[Ref(f, k)'], f, k)
    BY <2>3 DEF Estado, Clase
  <2> QED BY <2>1, <2>4
<1>4. Contenido(f)' = [i \in 1..a |-> Estado(f, i - 1)']
  BY <1>1 DEF Contenido, Cuantos
<1> QED BY <1>1, <1>3, <1>4

(* A file whose blocks are where they were and hold what they held.        *)
LEMMA ContenidoQuieto ==
  ASSUME Tipos, Tipos', NEW g \in DOMAIN fcb, g \in DOMAIN fcb', Cuantos(g)' = Cuantos(g),
         \A k \in 0..(Cuantos(g) - 1) :
           Ref(g, k)' = Ref(g, k) /\ blocks_buffer'[Ref(g, k)] = blocks_buffer[Ref(g, k)]
  PROVE  Contenido(g)' = Contenido(g)
<1>1. PICK a : a = Cuantos(g)
  OBVIOUS
<1>2. a \in Nat
  BY <1>1, CantEnNat
<1>3. ASSUME NEW i \in 1..a
      PROVE  Clase(blocks_buffer'[Ref(g, i - 1)'], g, i - 1) =
               Clase(blocks_buffer[Ref(g, i - 1)], g, i - 1)
  <2>1. PICK k : k = i - 1
    OBVIOUS
  <2>2. k \in 0..(a - 1)
    BY <1>2, <2>1
  <2>3. Ref(g, k)' = Ref(g, k) /\ blocks_buffer'[Ref(g, k)] = blocks_buffer[Ref(g, k)]
    BY <1>1, <2>2
  <2> QED BY <2>1, <2>3
<1>4. Contenido(g) = [i \in 1..a |-> Clase(blocks_buffer[Ref(g, i - 1)], g, i - 1)]
  BY <1>1, ContenidoEs
<1>5. Contenido(g)' = [i \in 1..a |-> Clase(blocks_buffer'[Ref(g, i - 1)'], g, i - 1)]
  BY <1>1, ContenidoDespues
<1> QED BY <1>3, <1>4, <1>5

(* What respects the blocks of the others changes none of their contents.  *)
LEMMA OtrosIguales ==
  ASSUME Tipos, Repartidos, Tipos', NEW f \in DOMAIN fcb, NEW g \in DOMAIN fcb, g # f,
         RespetaAjenos(f, blocks_buffer'), g \in DOMAIN fcb', fcb'[g] = fcb[g]
  PROVE  Contenido(g)' = Contenido(g)
<1>1. Igual(g, blocks_buffer')
  BY AjenosQuietos
<1>2. Cuantos(g)' = Cuantos(g) /\ \A k : Ref(g, k)' = Lugar(blocks_buffer', fcb[g], k)
  BY DEF Cuantos, Ref
<1>3. \A k \in 0..(Cuantos(g) - 1) : k \in PosDe(g)
  BY PosicionDeDatos
<1>4. \A k \in 0..(Cuantos(g) - 1) :
        Ref(g, k)' = Ref(g, k) /\ blocks_buffer'[Ref(g, k)] = blocks_buffer[Ref(g, k)]
  BY <1>1, <1>2, <1>3 DEF Igual
<1> QED BY <1>2, <1>4, ContenidoQuieto

(* Whatever a step does, it does to one file.                              *)
Otros(f) ==
  \A g \in DOMAIN fcb \ {f} : g \in DOMAIN fcb' /\ Contenido(g)' = Contenido(g)

(* Neither block 0 was freed nor a write went past its file nor bloques.dat *)
(* was left half written.                                                  *)
Respetuoso == disco' \notin {"cero", "afuera", "vaciado"}

(* A truncation that frees nobody's block, finished or stopped.            *)
LEMMA TruncadoDeUno ==
  ASSUME PunterosEnteros, Inductivo, Inductivo', NEW f \in ARCHIVOS,
         NEW s \in TAMANIOS, Usable(f), ~LiberaElCero(f, CalcularBloques(s)),
         \/ blocks_buffer' = Truncado(f, s).bloques
         \/ \E e \in Truncado(f, s).escrito : blocks_buffer' = e.bloques,
         DOMAIN fcb' = DOMAIN fcb, \A g \in DOMAIN fcb : g # f => fcb'[g] = fcb[g]
  PROVE  Otros(f)
<1>1. PICK m, n : m = Truncado(f, s) /\ n = CalcularBloques(s)
  OBVIOUS
<1>2. Tipos /\ Tipos' /\ Repartidos /\ f \in DOMAIN fcb /\ Truncada(f, n, m)
  BY <1>1, AntesDeTruncar DEF Inductivo
<1>3. RespetaAjenos(f, blocks_buffer')
  BY <1>1, <1>2 DEF Truncada, ImagenDeTruncar
<1>4. \A g \in DOMAIN fcb \ {f} : Contenido(g)' = Contenido(g)
  BY <1>2, <1>3, OtrosIguales
<1> QED BY <1>4 DEF Otros

(* After a truncation that is respectful, block 0 was nobody else's.       *)
LEMMA RespetaElCero ==
  ASSUME PunterosEnteros, Inductivo, NEW f, NEW s \in TAMANIOS, Respetuoso,
         Truncar(f, s) \/ CorteTruncar(f, s) \/ CorteFcb(f, s)
  PROVE  Usable(f) /\ f \in DOMAIN fcb /\ ~LiberaElCero(f, CalcularBloques(s))
<1>1. PICK m, n : m = Truncado(f, s) /\ n = CalcularBloques(s)
  OBVIOUS
<1>2. Usable(f) /\ f \in DOMAIN fcb
  BY DEF Truncar, CorteTruncar, CorteFcb, Usable
<1>3. /\ m.alcanza \in BOOLEAN /\ (LiberaElCero(f, n) => m.alcanza)
      /\ Tipos /\ s \in Nat
  BY <1>1, <1>2, AntesDeTruncar
<1>4. CASE Truncar(f, s)
  <2>1. \/ ~m.alcanza \/ ~LiberaElCero(f, n) \/ disco' = "cero"
    BY <1>1, <1>3, <1>4, HistoriaDeTruncar
  <2> QED BY <1>1, <1>2, <1>3, <2>1 DEF Respetuoso
<1>5. CASE CorteTruncar(f, s)
  <2> SUFFICES ASSUME LiberaElCero(f, n) PROVE FALSE
    BY <1>1, <1>2
  <2>1. ~(s > fcb[f].f_size)
    <3>1. CalcularBloques(s) = 0 /\ CalcularBloques(fcb[f].f_size) = 1
      BY <1>1 DEF LiberaElCero, Cuantos
    <3>2. fcb[f].f_size \in Nat
      BY <1>2, <1>3, CantDe
    <3>3. ~(fcb[f].f_size <= s)
      BY <1>3, <3>1, <3>2, CantidadCrece
    <3> QED BY <1>3, <3>2, <3>3
  <2>2. TrasCorte(f, s) = "cero"
    BY <1>1, <2>1 DEF TrasCorte
  <2> QED BY <1>5, <2>2 DEF CorteTruncar, Respetuoso
<1>6. CASE CorteFcb(f, s)
  BY <1>1, <1>2, <1>6 DEF CorteFcb, Respetuoso
<1> QED BY <1>4, <1>5, <1>6

(* Every request and every stop leaves the other files as they were.       *)
LEMMA PasoDeUno ==
  ASSUME PunterosEnteros, Inductivo, Inductivo', Respetuoso, NEW f \in ARCHIVOS,
         \/ Crear(f) \/ CorteCrear(f)
         \/ \E n \in TAMANIOS : Truncar(f, n) \/ CorteTruncar(f, n) \/ CorteFcb(f, n)
         \/ \E offset, cantidad \in POSICIONES :
              Escribir(f, offset, cantidad) \/ CorteEscribir(f, offset, cantidad)
  PROVE  Otros(f)
<1>0. Tipos /\ Tipos'
  BY DEF Inductivo
<1>1. CASE Crear(f) \/ CorteCrear(f)
  <2>1. PICK c : /\ Repartidos /\ f \notin DOMAIN fcb /\ fcb' = ConFcb(f, c)
                 /\ bitmap' = bitmap /\ blocks_buffer' = blocks_buffer
    BY <1>1 DEF Crear, CorteCrear, Inductivo
  <2>2. \A g \in DOMAIN fcb : g \in DOMAIN fcb' /\ fcb'[g] = fcb[g]
    BY <2>1 DEF ConFcb
  <2>3. \A g \in DOMAIN fcb : Cuantos(g)' = Cuantos(g) /\ \A k : Ref(g, k)' = Ref(g, k)
    BY <2>1, <2>2 DEF Cuantos, Ref
  <2>4. \A g \in DOMAIN fcb : Contenido(g)' = Contenido(g)
    BY <1>0, <2>1, <2>2, <2>3, ContenidoQuieto
  <2> QED BY <2>2, <2>4 DEF Otros
<1>2. ASSUME NEW n \in TAMANIOS,
             Truncar(f, n) \/ CorteTruncar(f, n) \/ CorteFcb(f, n)
      PROVE  Otros(f)
  <2>1. Usable(f) /\ f \in DOMAIN fcb /\ ~LiberaElCero(f, CalcularBloques(n))
    BY <1>2, RespetaElCero
  <2>2. \/ blocks_buffer' = Truncado(f, n).bloques
        \/ \E e \in Truncado(f, n).escrito : blocks_buffer' = e.bloques
    BY <1>2 DEF Truncar, CorteTruncar, CorteFcb
  <2>3. DOMAIN fcb' = DOMAIN fcb /\ \A g \in DOMAIN fcb : g # f => fcb'[g] = fcb[g]
    BY <1>2, <2>1 DEF Truncar, CorteTruncar, CorteFcb
  <2> QED BY <2>1, <2>2, <2>3, TruncadoDeUno
<1>3. ASSUME NEW o \in POSICIONES, NEW c \in POSICIONES,
             Escribir(f, o, c) \/ CorteEscribir(f, o, c)
      PROVE  Otros(f)
  <2>1. Escribir(f, o, c) /\ Adentro(f, o, c)
    BY <1>3 DEF Escribir, CorteEscribir, Respetuoso
  <2>2. /\ Repartidos /\ f \in DOMAIN fcb /\ fcb' = fcb
        /\ Marcado(f, blocks_buffer', Tocados(o, c))
    BY <2>1, EscribirEs
  <2>3. RespetaAjenos(f, blocks_buffer')
    BY <1>0, <2>2, MarcadoQuieto
  <2>4. \A g \in DOMAIN fcb \ {f} : Contenido(g)' = Contenido(g)
    BY <1>0, <2>2, <2>3, OtrosIguales
  <2> QED BY <2>2, <2>4 DEF Otros
<1> QED BY <1>1, <1>2, <1>3

(* core.c:117, 143, utils.c:199: a truncation stopped after any of its     *)
(* writes, one that runs out of blocks, a write: no other file changes.    *)
THEOREM SiempreSoloElArchivo ==
  ASSUME PunterosEnteros
  PROVE  Spec => SoloElArchivo
<1>1. ASSUME Inductivo, Inductivo', [Next]_vars
      PROVE  [disco' \notin {"cero", "afuera", "vaciado"} =>
                \E f \in ARCHIVOS : \A g \in DOMAIN fcb \ {f} :
                  g \in DOMAIN fcb' /\ Contenido(g)' = Contenido(g)]_vars
  <2>1. CASE UNCHANGED vars
    BY <2>1
  <2>2. ASSUME Next, Respetuoso
        PROVE  \E f \in ARCHIVOS : \A g \in DOMAIN fcb \ {f} :
                 g \in DOMAIN fcb' /\ Contenido(g)' = Contenido(g)
    <3>1. PICK f \in ARCHIVOS :
            \/ Crear(f) \/ CorteCrear(f)
            \/ \E n \in TAMANIOS : Truncar(f, n) \/ CorteTruncar(f, n) \/ CorteFcb(f, n)
            \/ \E offset, cantidad \in POSICIONES :
                 Escribir(f, offset, cantidad) \/ CorteEscribir(f, offset, cantidad)
      BY <2>2 DEF Next
    <3>2. Otros(f)
      BY <1>1, <2>2, <3>1, PasoDeUno
    <3> QED BY <3>2 DEF Otros
  <2> QED BY <1>1, <2>1, <2>2 DEF Respetuoso
<1> QED BY <1>1, InvarianteArchivos, PTL DEF Spec, SoloElArchivo

-----------------------------------------------------------------------------
(* Blocks, pointers and FCBs implement files: each action does what the    *)
(* abstract one says, or nothing that a program can see.                   *)
Largos == {CalcularBloques(n) : n \in TAMANIOS}

(* With no FCB there are no files.                                         *)
LEMMA InicioArchivos == Init => Abstractos!Init
<1> SUFFICES ASSUME Init PROVE Abstractos!Init
  OBVIOUS
<1>1. DOMAIN fcb = {}
  BY DEF Init
<1>2. Archivos = [f \in {} |-> Contenido(f)]
  BY <1>1 DEF Archivos
<1>3. [f \in {} |-> Contenido(f)] = [f \in {} |-> <<>>]
  OBVIOUS
<1> QED BY <1>2, <1>3 DEF Abstractos!Init

(* A file is created with no blocks.                                       *)
LEMMA CrearImplementa ==
  ASSUME Inductivo, Inductivo', NEW f \in ARCHIVOS, Crear(f)
  PROVE  Abstractos!Crear(f)
<1>0. Tipos /\ Tipos'
  BY DEF Inductivo
<1>1. /\ f \notin DOMAIN fcb /\ DOMAIN fcb' = DOMAIN fcb \union {f}
      /\ fcb'[f].f_size = 0 /\ blocks_buffer' = blocks_buffer
      /\ \A g \in DOMAIN fcb : g # f /\ fcb'[g] = fcb[g]
  BY DEF Crear, ConFcb
<1>2. \A g \in DOMAIN fcb : Cuantos(g)' = Cuantos(g) /\ \A k : Ref(g, k)' = Ref(g, k)
  BY <1>1 DEF Cuantos, Ref
<1>3. \A g \in DOMAIN fcb : Contenido(g)' = Contenido(g)
  BY <1>0, <1>1, <1>2, ContenidoQuieto
<1>4. Contenido(f)' = <<>>
  <2>1. Cuantos(f)' = 0
    <3>1. CalcularBloques(0) = 0
      BY CantidadDe
    <3> QED BY <1>1, <3>1 DEF Cuantos
  <2>2. PICK c : c = Contenido(f)'
    OBVIOUS
  <2>3. DOMAIN c = 1..0
    BY <1>0, <1>1, <2>1, <2>2, ContenidoDespues
  <2>4. c = [i \in 1..0 |-> Clase(blocks_buffer'[Ref(f, i - 1)'], f, i - 1)]
    BY <1>0, <1>1, <2>1, <2>2, ContenidoDespues
  <2>5. c \in Seq({}) /\ Len(c) = 0
    BY <2>3, <2>4
  <2>6. c = <<>>
    BY <2>5
  <2> QED BY <2>2, <2>6
<1>5. DOMAIN Archivos = DOMAIN fcb /\ \A g \in DOMAIN fcb : Archivos[g] = Contenido(g)
  BY DEF Archivos
<1>6. Archivos' = [g \in DOMAIN fcb' |-> Contenido(g)']
  BY DEF Archivos
<1>7. Archivos' = [g \in DOMAIN Archivos \union {f} |->
                     IF g = f THEN <<>> ELSE Archivos[g]]
  BY <1>1, <1>3, <1>4, <1>5, <1>6
<1> QED BY <1>1, <1>5, <1>7 DEF Abstractos!Crear

(* A change of one file, as the abstraction sees it.                       *)
LEMMA CambiaUno ==
  ASSUME NEW f \in DOMAIN fcb, Otros(f), DOMAIN fcb' = DOMAIN fcb,
         NEW c, Contenido(f)' = c
  PROVE  /\ Archivos' = [Archivos EXCEPT ![f] = c]
         /\ f \in DOMAIN Archivos /\ Archivos[f] = Contenido(f)
         /\ c = Contenido(f) => Archivos' = Archivos
<1>1. /\ Archivos = [g \in DOMAIN fcb |-> Contenido(g)]
      /\ Archivos' = [g \in DOMAIN fcb |-> Contenido(g)']
  BY DEF Archivos
<1>2. \A g \in DOMAIN fcb : g # f => Contenido(g)' = Contenido(g)
  BY DEF Otros
<1> QED BY <1>1, <1>2

(* A truncation keeps the first blocks and adds zeros.                     *)
LEMMA TruncarImplementa ==
  ASSUME PunterosEnteros, Inductivo, Inductivo', NEW f \in ARCHIVOS,
         NEW s \in TAMANIOS, Truncar(f, s), Entero'
  PROVE  Abstractos!Truncar(f)
<1>1. PICK m, n : m = Truncado(f, s) /\ n = CalcularBloques(s)
  OBVIOUS
<1>2. Usable(f)
  BY DEF Truncar
<1>3. /\ Tipos /\ Repartidos /\ f \in DOMAIN fcb /\ n \in Nat
      /\ m \in Estados /\ m.alcanza /\ Truncada(f, n, m)
  <2>1. /\ Tipos /\ Repartidos /\ f \in DOMAIN fcb /\ n \in Nat /\ m \in Estados
        /\ m.alcanza \in BOOLEAN /\ (~LiberaElCero(f, n) => Truncada(f, n, m))
    BY <1>1, <1>2, AntesDeTruncar
  <2>2. m.alcanza /\ ~LiberaElCero(f, n)
    <3>1. \/ ~m.alcanza /\ disco' = "lleno"
          \/ m.alcanza /\ LiberaElCero(f, n) /\ disco' = "cero"
          \/ m.alcanza /\ ~LiberaElCero(f, n)
      BY <1>1, <2>1, HistoriaDeTruncar
    <3> QED BY <3>1 DEF Entero
  <2> QED BY <2>1, <2>2
<1>4. /\ blocks_buffer' = m.bloques
      /\ fcb' = [fcb EXCEPT ![f] = [f_size |-> s, f_dp |-> m.f_dp, f_ip |-> m.f_ip]]
  BY <1>1 DEF Truncar
<1>5. /\ DOMAIN fcb' = DOMAIN fcb
      /\ fcb'[f].f_size = s /\ fcb'[f].f_dp = m.f_dp /\ fcb'[f].f_ip = m.f_ip
  BY <1>3, <1>4
<1>6. Tipos' /\ f \in DOMAIN fcb'
  BY <1>3, <1>5 DEF Inductivo
<1>7. Cuantos(f)' = n /\ \A k : Ref(f, k)' = En(m, k)
  BY <1>1, <1>4, <1>5 DEF Cuantos, Ref, En, Lugar, Resuelve
<1>8. PICK a, c : a = Cuantos(f) /\ c = Contenido(f)
  OBVIOUS
<1>9. a \in Nat
  BY <1>3, <1>8, CantEnNat
<1>10. c = [i \in 1..a |-> Clase(blocks_buffer[Ref(f, i - 1)], f, i - 1)]
  BY <1>3, <1>8, ContenidoEs
<1>11. Len(c) = a
  BY <1>9, <1>10
<1>12. ASSUME NEW i \in 1..n
       PROVE  Clase(blocks_buffer'[Ref(f, i - 1)'], f, i - 1) =
                IF i <= Len(c) THEN c[i] ELSE "ceros"
  <2>1. PICK k : k = i - 1
    OBVIOUS
  <2>2. k \in 0..(n - 1) /\ k \in Nat /\ (k < a <=> i <= a)
    BY <1>3, <1>9, <2>1
  <2>3. m.bloques[En(m, k)] = IF k < a THEN blocks_buffer[Ref(f, k)] ELSE Ceros
    BY <1>3, <1>4, <1>8, <2>2 DEF Truncada, Completa
  <2>4. blocks_buffer'[Ref(f, k)'] = m.bloques[En(m, k)]
    BY <1>4, <1>7
  <2>5. CASE i <= a
    <3>1. i \in 1..a
      BY <1>3, <1>9, <2>5
    <3>2. c[i] = Clase(blocks_buffer[Ref(f, k)], f, k)
      BY <1>10, <2>1, <3>1
    <3> QED BY <1>11, <2>1, <2>2, <2>3, <2>4, <2>5, <3>2
  <2>6. CASE ~(i <= a)
    <3>1. Clase(Ceros, f, k) = "ceros"
      BY <1>3, <2>2, ClaseDe
    <3> QED BY <1>11, <2>1, <2>2, <2>3, <2>4, <2>6, <3>1
  <2> QED BY <2>5, <2>6
<1>13. PICK r : r = [i \in 1..n |-> IF i <= Len(c) THEN c[i] ELSE "ceros"]
  OBVIOUS
<1>14. Contenido(f)' = r
  <2>1. Contenido(f)' = [i \in 1..n |-> Clase(blocks_buffer'[Ref(f, i - 1)'], f, i - 1)]
    BY <1>6, <1>7, ContenidoDespues
  <2> QED BY <1>12, <1>13, <2>1
<1>15. Otros(f)
  <2>1. Respetuoso
    BY DEF Entero, Respetuoso
  <2> QED BY <2>1, PasoDeUno
<1>16. /\ Archivos' = [Archivos EXCEPT ![f] = r]
       /\ f \in DOMAIN Archivos /\ Archivos[f] = c
  BY <1>3, <1>5, <1>8, <1>14, <1>15, CambiaUno
<1>17. n \in Largos
  BY <1>1 DEF Largos
<1>18. Archivos' = [Archivos EXCEPT ![f] =
                      [i \in 1..n |-> IF i <= Len(@) THEN @[i] ELSE "ceros"]]
  BY <1>13, <1>16
<1> QED BY <1>16, <1>17, <1>18 DEF Abstractos!Truncar, Largos

(* A growth that was stopped has not happened.                             *)
LEMMA CorteTruncarNoSeVe ==
  ASSUME PunterosEnteros, Inductivo, Inductivo', NEW f \in ARCHIVOS,
         NEW s \in TAMANIOS, CorteTruncar(f, s), Entero'
  PROVE  Archivos' = Archivos
<1>1. PICK m, n : m = Truncado(f, s) /\ n = CalcularBloques(s)
  OBVIOUS
<1>2. Usable(f)
  BY DEF CorteTruncar
<1>3. /\ Tipos /\ Repartidos /\ f \in DOMAIN fcb /\ n \in Nat
      /\ Truncada(f, n, m) /\ (Cuantos(f) = n => m.escrito = {})
  <2>1. Respetuoso
    BY DEF Entero, Respetuoso
  <2>2. ~LiberaElCero(f, n)
    BY <1>1, <2>1, RespetaElCero
  <2> QED BY <1>1, <1>2, <2>2, AntesDeTruncar
<1>4. PICK e \in m.escrito : bitmap' = e.mapa /\ blocks_buffer' = e.bloques
  BY <1>1 DEF CorteTruncar
<1>5. s > fcb[f].f_size /\ fcb' = fcb
  <2>1. TrasCorte(f, s) \notin {"cero", "corte"} /\ fcb' = fcb
    BY DEF CorteTruncar, Entero
  <2> QED BY <2>1 DEF TrasCorte
<1>6. Cuantos(f) < n
  <2>1. fcb[f].f_size \in Nat /\ s \in Nat
    BY <1>3, CantDe, SupuestoArchivos
  <2>2. fcb[f].f_size <= s
    BY <1>5, <2>1
  <2>3. Cuantos(f) <= n /\ Cuantos(f) \in Nat
    BY <1>1, <1>3, <2>1, <2>2, CantidadCrece, CantEnNat DEF Cuantos
  <2> QED BY <1>3, <1>4, <2>3
<1>7. ImagenDeTruncar(f, n, e)
  BY <1>3, <1>4 DEF Truncada
<1>8. \A g \in DOMAIN fcb :
        /\ Cuantos(g)' = Cuantos(g)
        /\ \A k \in PosDe(g) : Ref(g, k)' = Ref(g, k)
        /\ \A k \in 0..(Cuantos(g) - 1) : blocks_buffer'[Ref(g, k)] = blocks_buffer[Ref(g, k)]
  BY <1>3, <1>4, <1>5, <1>6, <1>7, AlCortar
<1>9. \A g \in DOMAIN fcb : \A k \in 0..(Cuantos(g) - 1) : Ref(g, k)' = Ref(g, k)
  BY <1>3, <1>8, PosicionDeDatos
<1>10. Tipos'
  BY DEF Inductivo
<1>11. \A g \in DOMAIN fcb : Contenido(g)' = Contenido(g)
  BY <1>3, <1>5, <1>8, <1>9, <1>10, ContenidoQuieto
<1> QED BY <1>5, <1>11 DEF Archivos

(* The positions a write touches are consecutive.                          *)
LEMMA TocadosSon ==
  ASSUME NEW o \in Nat, NEW c \in Nat, Tocados(o, c) # {}
  PROVE  \E d \in Nat, h \in Nat : d <= h /\ Tocados(o, c) = d..h
<1>1. PICK ini, fin : ini = o \div BLOCK_SIZE /\ fin = (o + c) \div BLOCK_SIZE
  OBVIOUS
<1>2. ini \in Nat /\ fin \in Nat /\ ini <= fin
  BY <1>1, Extremos
<1>3. \A k \in ini..fin :
        CopiaDe(o, c, k).cant = 0 <=> c = 0 \/ (k = fin /\ BLOCK_SIZE * fin = o + c)
  BY <1>1, CopiaDentro
<1>4. Tocados(o, c) = {k \in ini..fin : CopiaDe(o, c, k).cant # 0}
  BY <1>1 DEF Tocados
<1>5. c # 0
  BY <1>3, <1>4
<1>6. CASE BLOCK_SIZE * fin = o + c
  <2>1. Tocados(o, c) = {k \in ini..fin : k # fin}
    BY <1>3, <1>4, <1>5, <1>6
  <2>2. {k \in ini..fin : k # fin} = ini..(fin - 1)
    BY <1>2
  <2>3. ini <= fin - 1 /\ fin - 1 \in Nat
    <3>1. PICK k : k \in ini..(fin - 1)
      BY <2>1, <2>2
    <3> QED BY <1>2, <3>1
  <2> QED BY <1>2, <2>1, <2>2, <2>3
<1>7. CASE BLOCK_SIZE * fin # o + c
  <2>1. Tocados(o, c) = ini..fin
    BY <1>3, <1>4, <1>5, <1>7
  <2> QED BY <1>2, <2>1
<1> QED BY <1>6, <1>7

(* A write marks the blocks between its first byte and its last.           *)
LEMMA EscribirImplementa ==
  ASSUME PunterosEnteros, Inductivo, Inductivo', NEW f \in ARCHIVOS,
         NEW o \in POSICIONES, NEW b \in POSICIONES, Escribir(f, o, b), Entero'
  PROVE  Abstractos!Escribir(f) \/ Archivos' = Archivos
<1>1. PICK W : W = Tocados(o, b)
  OBVIOUS
<1>2. /\ Tipos /\ Repartidos /\ f \in DOMAIN fcb /\ o \in Nat /\ b \in Nat
      /\ Marcado(f, blocks_buffer', W) /\ fcb' = fcb
  <2>1. Adentro(f, o, b)
    BY DEF Escribir, Entero
  <2> QED BY <1>1, <2>1, EscribirEs
<1>3. PICK a, c : a = Cuantos(f) /\ c = Contenido(f)
  OBVIOUS
<1>4. a \in Nat /\ W \subseteq 0..(a - 1)
  BY <1>2, <1>3, CantEnNat DEF Marcado
<1>5. c = [i \in 1..a |-> Clase(blocks_buffer[Ref(f, i - 1)], f, i - 1)]
  BY <1>2, <1>3, ContenidoEs
<1>6. Cuantos(f)' = a /\ \A k \in 0..(a - 1) : k \in PosDe(f) /\ Ref(f, k)' = Ref(f, k)
  <2>1. Cuantos(f)' = a /\ \A k \in PosDe(f) : Ref(f, k)' = Ref(f, k)
    BY <1>2, <1>3, AlEscribir
  <2>2. \A k \in 0..(a - 1) : k \in PosDe(f)
    BY <1>2, <1>3, PosicionDeDatos
  <2> QED BY <2>1, <2>2
<1>7. PICK bs : bs = blocks_buffer'
  OBVIOUS
<1>8. /\ \A k \in W : bs[Ref(f, k)] = Datos(f, k)
      /\ \A k \in 0..(a - 1) : k \notin W => bs[Ref(f, k)] = blocks_buffer[Ref(f, k)]
  <2>1. \A k \in PosDe(f) \ W : bs[Ref(f, k)] = blocks_buffer[Ref(f, k)]
    BY <1>2, <1>3, <1>7, MarcadoQuieto
  <2> QED BY <1>2, <1>6, <1>7, <2>1 DEF Marcado
<1>9. PICK r : r = [i \in 1..a |-> IF i - 1 \in W THEN "escrito" ELSE c[i]]
  OBVIOUS
<1>10. Contenido(f)' = r
  <2>1. Tipos' /\ f \in DOMAIN fcb'
    BY <1>2 DEF Inductivo
  <2>2. Contenido(f)' = [i \in 1..a |-> Clase(blocks_buffer'[Ref(f, i - 1)'], f, i - 1)]
    BY <1>6, <2>1, ContenidoDespues
  <2>3. ASSUME NEW i \in 1..a
        PROVE  Clase(blocks_buffer'[Ref(f, i - 1)'], f, i - 1) =
                 IF i - 1 \in W THEN "escrito" ELSE c[i]
    <3>1. PICK k : k = i - 1
      OBVIOUS
    <3>2. k \in 0..(a - 1) /\ k \in Nat
      BY <1>4, <3>1
    <3>3. Ref(f, k)' = Ref(f, k)
      BY <1>6, <3>2
    <3>4. CASE k \in W
      <4>1. Clase(Datos(f, k), f, k) = "escrito"
        BY <1>2, <3>2, ClaseDe
      <4> QED BY <1>7, <1>8, <3>1, <3>3, <3>4, <4>1
    <3>5. CASE k \notin W
      <4>1. c[i] = Clase(blocks_buffer[Ref(f, k)], f, k)
        BY <1>5, <3>1
      <4> QED BY <1>7, <1>8, <3>1, <3>2, <3>3, <3>5, <4>1
    <3> QED BY <3>4, <3>5
  <2> QED BY <1>9, <2>2, <2>3
<1>11. Otros(f)
  <2>1. Respetuoso
    BY DEF Entero, Respetuoso
  <2> QED BY <2>1, PasoDeUno
<1>12. /\ Archivos' = [Archivos EXCEPT ![f] = r]
       /\ f \in DOMAIN Archivos /\ Archivos[f] = c
       /\ r = c => Archivos' = Archivos
  BY <1>2, <1>3, <1>10, <1>11, CambiaUno
<1>13. DOMAIN c = 1..a /\ Len(c) = a
  BY <1>4, <1>5
<1>14. CASE W = {}
  <2>1. r = [i \in 1..a |-> c[i]]
    BY <1>9, <1>14
  <2>2. r = c
    BY <1>5, <2>1
  <2> QED BY <1>12, <2>2
<1>15. CASE W # {}
  <2>1. PICK d \in Nat, h \in Nat : d <= h /\ W = d..h
    BY <1>1, <1>2, <1>15, TocadosSon
  <2>2. PICK x, y : x = d + 1 /\ y = h + 1
    OBVIOUS
  <2>3. d \in W /\ h \in W
    BY <2>1
  <2>4. x \in 1..Len(c) /\ y \in x..Len(c)
    BY <1>4, <1>13, <2>1, <2>2, <2>3
  <2>5. \A i \in 1..a : i - 1 \in W <=> i \in x..y
    BY <1>4, <2>1, <2>2
  <2>6. r = [i \in DOMAIN c |-> IF i \in x..y THEN "escrito" ELSE c[i]]
    BY <1>9, <1>13, <2>5
  <2>7. Archivos' = [Archivos EXCEPT ![f] =
                       [i \in DOMAIN @ |-> IF i \in x..y THEN "escrito" ELSE @[i]]]
    BY <1>12, <2>6
  <2>8. x \in 1..Len(Archivos[f]) /\ y \in x..Len(Archivos[f])
    BY <1>12, <2>4
  <2> QED BY <1>12, <2>7, <2>8 DEF Abstractos!Escribir
<1> QED BY <1>14, <1>15

(* Every step of the blocks is one of the files, or none.                  *)
LEMMA PasoDeArchivos ==
  ASSUME PunterosEnteros, Inductivo, Inductivo', [Next]_vars
  PROVE  (Entero' => Abstractos!Next) \/ Archivos' = Archivos
<1>1. CASE UNCHANGED vars
  BY <1>1 DEF vars, Archivos, Contenido, Estado, DeDatos, Cuantos
<1>2. CASE Next
  <2> SUFFICES ASSUME Entero' PROVE Abstractos!Next \/ Archivos' = Archivos
    OBVIOUS
  <2>1. PICK f \in ARCHIVOS :
          \/ Crear(f) \/ CorteCrear(f)
          \/ \E n \in TAMANIOS : Truncar(f, n) \/ CorteTruncar(f, n) \/ CorteFcb(f, n)
          \/ \E offset, cantidad \in POSICIONES :
               Escribir(f, offset, cantidad) \/ CorteEscribir(f, offset, cantidad)
    BY <1>2 DEF Next
  <2>2. CASE Crear(f)
    BY <2>2, CrearImplementa DEF Abstractos!Next
  <2>3. CASE \E n \in TAMANIOS : Truncar(f, n)
    BY <2>3, TruncarImplementa DEF Abstractos!Next
  <2>4. CASE \E n \in TAMANIOS : CorteTruncar(f, n)
    BY <2>4, CorteTruncarNoSeVe
  <2>5. CASE \E offset, cantidad \in POSICIONES : Escribir(f, offset, cantidad)
    BY <2>5, EscribirImplementa DEF Abstractos!Next
  <2>6. /\ ~CorteCrear(f) /\ \A n : ~CorteFcb(f, n)
        /\ \A offset, cantidad : ~CorteEscribir(f, offset, cantidad)
    BY DEF CorteCrear, CorteFcb, CorteEscribir, Entero
  <2> QED BY <2>1, <2>2, <2>3, <2>4, <2>5, <2>6
<1> QED BY <1>1, <1>2

(* core.c, utils.c: what is in position k of a file is what was last       *)
(* written there, and zeros where nothing has been; a growth that was      *)
(* stopped has not happened.  It is so while the disk is Entero.           *)
THEOREM BloquesImplementanArchivos ==
  ASSUME PunterosEnteros
  PROVE  Spec => ImplementaArchivos
<1>1. Init => Abstractos!Init
  BY InicioArchivos
<1>2. ASSUME Inductivo, Inductivo', [Next]_vars
      PROVE  [Entero' => Abstractos!Next]_Archivos
  BY <1>2, PasoDeArchivos
<1> QED BY <1>1, <1>2, InvarianteArchivos, PTL DEF Spec, ImplementaArchivos

-----------------------------------------------------------------------------
(* The copies follow one another: each begins where the one before ends.   *)
LEMMA Encadenadas ==
  ASSUME NEW o \in Nat, NEW c \in Nat, NEW ini, ini = o \div BLOCK_SIZE,
         NEW fin, fin = (o + c) \div BLOCK_SIZE, NEW k \in ini..fin
  PROVE  LET t == CopiaDe(o, c, k)
         IN  /\ t.pos \in Int /\ t.cant \in Int
             /\ k = ini => t.pos = 0
             /\ k = fin => t.pos + t.cant = c
             /\ k # fin => CopiaDe(o, c, k + 1).pos = t.pos + t.cant
<1>1. /\ ini \in Nat /\ fin \in Nat /\ ini <= fin
      /\ BLOCK_SIZE * ini <= o /\ o < BLOCK_SIZE * ini + BLOCK_SIZE
      /\ BLOCK_SIZE * fin <= o + c /\ o + c < BLOCK_SIZE * fin + BLOCK_SIZE
  BY Extremos
<1>2. PICK B, z, q, y, s : /\ B = BLOCK_SIZE /\ z = BLOCK_SIZE * ini /\ s = o + c
                           /\ q = BLOCK_SIZE * k /\ y = BLOCK_SIZE * fin
  OBVIOUS
<1>3. k \in Nat /\ ini <= k /\ k <= fin
  BY <1>1
<1>4. /\ B \in Nat \ {0} /\ q \in Int /\ BLOCK_SIZE * (k + 1) = q + B /\ z <= q
  BY <1>1, <1>2, <1>3, Siguiente
<1>5. y \in Int
  BY <1>1, <1>2, Siguiente
<1>6. z \in Int
  BY <1>1, <1>2, Siguiente
<1>7. s \in Nat /\ z <= o /\ o < z + B /\ y <= s /\ s < y + B /\ o <= s /\ c = s - o
  BY <1>1, <1>2
<1>8. k < fin => q + B <= y
  <2> SUFFICES ASSUME k < fin PROVE q + B <= y
    OBVIOUS
  <2>1. k \in Int /\ fin \in Int /\ BLOCK_SIZE \in Nat \ {0}
    BY <1>1, <1>3, SupuestoArchivos
  <2> QED BY <1>2, <2>1, Productos
<1>9. PICK d, e : d = DesdeByte(o, k) /\ e = HastaByte(o, c, k)
  OBVIOUS
<1>10. d = (IF o > q THEN o ELSE q) /\ e = IF s < q + B THEN s ELSE q + B
  BY <1>2, <1>4, <1>9 DEF DesdeByte, HastaByte, Tope
<1>11. PICK t : t = CopiaDe(o, c, k)
  OBVIOUS
<1>12. t.cant = e - d /\ t.pos = d - o /\ d \in Int /\ e \in Int
  <2>1. t.cant = e - d /\ t.pos = d - o
    BY <1>9, <1>11 DEF CopiaDe, Copia
  <2>2. d \in Int /\ e \in Int
    BY <1>4, <1>7, <1>10
  <2> QED BY <2>1, <2>2
<1>13. t.pos + t.cant = e - o
  BY <1>12
<1>14. k = ini => t.pos = 0
  <2> SUFFICES ASSUME k = ini PROVE t.pos = 0
    OBVIOUS
  <2>1. z = q
    BY <1>2
  <2>2. d = o
    BY <1>4, <1>7, <1>10, <2>1
  <2> QED BY <1>12, <2>2
<1>15. k = fin => t.pos + t.cant = c
  <2> SUFFICES ASSUME k = fin PROVE t.pos + t.cant = c
    OBVIOUS
  <2>1. q = y
    BY <1>2
  <2>2. e = s
    BY <1>4, <1>7, <1>10, <2>1
  <2> QED BY <1>7, <1>13, <2>2
<1>16. k # fin => CopiaDe(o, c, k + 1).pos = t.pos + t.cant
  <2> SUFFICES ASSUME k # fin PROVE CopiaDe(o, c, k + 1).pos = t.pos + t.cant
    OBVIOUS
  <2>1. k < fin
    BY <1>1, <1>3
  <2>2. e = q + B
    BY <1>4, <1>5, <1>7, <1>8, <1>10, <2>1
  <2>3. PICK x : x = k + 1
    OBVIOUS
  <2>4. BLOCK_SIZE * x = q + B
    BY <1>4, <2>3
  <2>5. DesdeByte(o, x) = q + B
    <3>1. o <= q + B
      BY <1>4, <1>6, <1>7
    <3> QED BY <1>4, <2>4, <3>1 DEF DesdeByte, Tope
  <2>6. PICK g, w : g = DesdeByte(o, x) /\ w = CopiaDe(o, c, x).pos
    OBVIOUS
  <2>7. w = g - o
    BY <2>6 DEF CopiaDe, Copia
  <2>8. g = e
    BY <2>2, <2>5, <2>6
  <2>9. w = t.pos + t.cant
    BY <1>13, <2>7, <2>8
  <2> QED BY <2>3, <2>6, <2>9
<1> QED BY <1>11, <1>12, <1>14, <1>15, <1>16

(* The bytes that the copies move, added up copy by copy.                  *)
Sumadas(l) == FoldLeft(LAMBDA n, t : n + t.cant, 0, l)
TurnosDeSumar(h, l, N) ==
  h[0] = 0 /\ \A n \in 1..N : h[n] = h[n - 1] + l[n].cant

(* The sum of the sizes of the copies, turn by turn.                       *)
LEMMA BucleDeSumar ==
  ASSUME NEW l \in Seq(Trozos), NEW N \in Nat, N = Len(l)
  PROVE  \E h : TurnosDeSumar(h, l, N) /\ Sumadas(l) = h[N]
<1> DEFINE T == Int
           paso == [x \in (1..N) \X T |-> x[2] + l[x[1]].cant]
           Sigue(it, s) == IF s = {} THEN 0 ELSE it[s \ {Max(s)}] + l[Max(s)].cant
           D == DOMAIN l
           it == CHOOSE it : it = [s \in SUBSET D |-> Sigue(it, s)]
           h == [n \in 0..N |-> it[1..n]]
<1>1. D = 1..N /\ \A i \in 1..N : l[i].cant \in Int
  <2>1. D = 1..N /\ \A i \in 1..N : l[i] \in Trozos
    OBVIOUS
  <2> QED BY <2>1 DEF Trozos
<1>2. Sumadas(l) = it[D]
  BY DEF Sumadas, FoldLeft, MapThenFoldSet
<1>3. ASSUME NEW n \in 1..N, NEW t \in T
      PROVE  paso[<<n, t>>] = t + l[n].cant /\ t + l[n].cant \in T
  BY <1>1
<1> HIDE DEF paso
<1>4. \A s \in SUBSET (1..N) : it[s] = Sigue(it, s)
  <2>1. 0 \in T /\ SePliega(N, T, paso)
    <3> HIDE DEF T
    <3>1. 0 \in T
      BY DEF T
    <3> QED BY <1>3, <3>1 DEF SePliega
  <2>2. PICK jt : Pliegue(jt, N, T, 0, paso)
    <3> HIDE DEF it, h, T
    <3> QED BY <2>1, PliegueExiste
  <2>3. ASSUME NEW s \in SUBSET (1..N)
        PROVE  jt[s] = Sigue(jt, s)
    <3>1. CASE s = {}
      BY <2>2, <3>1 DEF Pliegue, PasoDePliegue
    <3>2. CASE s # {}
      <4>1. Max(s) \in s
        <5> HIDE DEF it, h
        <5> QED BY <3>2, MaximoDe
      <4>2. jt[s \ {Max(s)}] \in T /\ Max(s) \in 1..N
        BY <2>2, <4>1 DEF Pliegue
      <4>3. jt[s] = paso[<<Max(s), jt[s \ {Max(s)}]>>]
        BY <2>2, <3>2 DEF Pliegue, PasoDePliegue
      <4>4. jt[s] = jt[s \ {Max(s)}] + l[Max(s)].cant
        BY <1>3, <4>2, <4>3
      <4> QED
        BY <3>2, <4>4
    <3> QED BY <3>1, <3>2
  <2>4. jt = [s \in SUBSET D |-> Sigue(jt, s)]
    <3> HIDE DEF D, Sigue
    <3> QED BY <1>1, <2>2, <2>3 DEF Pliegue
  <2>5. it = [s \in SUBSET D |-> Sigue(it, s)]
    <3> HIDE DEF Sigue, D
    <3> QED BY <2>4
  <2> HIDE DEF it, Sigue, D
  <2> QED
    BY <1>1, <2>5
<1> HIDE DEF it, D
<1>5. h[0] = 0
  <2>1. 1..0 = {} /\ {} \in SUBSET (1..N) /\ 0 \in 0..N
    OBVIOUS
  <2> QED BY <2>1, <1>4
<1>6. ASSUME NEW n \in 1..N
      PROVE  h[n] = h[n - 1] + l[n].cant
  <2>1. 1..n # {} /\ Max(1..n) = n /\ (1..n) \ {n} = 1..(n - 1)
    BY Hasta
  <2>2. 1..n \in SUBSET (1..N)
    OBVIOUS
  <2>3. it[1..n] = it[1..(n - 1)] + l[n].cant
    BY <1>4, <2>1, <2>2
  <2> QED
    BY <2>3
<1>7. h[N] = it[D]
  BY <1>1
<1>8. Sumadas(l) = h[N]
  BY <1>2, <1>7
<1> HIDE DEF h
<1> QED
  BY ONLY <1>5, <1>6, <1>8 DEF TurnosDeSumar

(* Together they move what was asked for.                                  *)
LEMMA SumaDeCopias ==
  ASSUME NEW o \in Nat, NEW c \in Nat
  PROVE  Sumadas(Copias(o, c)) = c
<1>1. PICK ini, fin : ini = o \div BLOCK_SIZE /\ fin = (o + c) \div BLOCK_SIZE
  OBVIOUS
<1>2. ini \in Nat /\ fin \in Nat /\ ini <= fin
  BY <1>1, Extremos
<1>3. PICK N \in Nat : N = fin - ini + 1
  <2>1. fin - ini + 1 \in Nat
    BY <1>2
  <2> QED BY <2>1
<1>4. PICK l : l = Copias(o, c)
  OBVIOUS
<1>5. l \in Seq(Trozos) /\ Len(l) = N /\ \A i \in 1..N : l[i] = CopiaDe(o, c, ini + i - 1)
  <2>1. Son(Copias(o, c), o, c, ini, fin - ini + 1)
    BY <1>1, CopiasSon
  <2>2. Son(l, o, c, ini, N)
    BY ONLY <1>3, <1>4, <2>1
  <2> QED BY <2>2 DEF Son
<1>6. PICK h : TurnosDeSumar(h, l, N) /\ Sumadas(l) = h[N]
  BY <1>5, BucleDeSumar
<1>7. \A k \in ini..fin :
        /\ CopiaDe(o, c, k).pos \in Int /\ CopiaDe(o, c, k).cant \in Int
        /\ k = ini => CopiaDe(o, c, k).pos = 0
        /\ k = fin => CopiaDe(o, c, k).pos + CopiaDe(o, c, k).cant = c
        /\ k # fin => CopiaDe(o, c, k + 1).pos = CopiaDe(o, c, k).pos + CopiaDe(o, c, k).cant
  BY <1>1, Encadenadas
<1> DEFINE S == {n \in 0..N : n # 0 => h[n] = l[n].pos + l[n].cant}
<1>8. 0 \in S
  BY <1>3
<1>9. ASSUME NEW n \in 0..(N - 1), n \in S PROVE n + 1 \in S
  <2>1. PICK i, k : i = n + 1 /\ k = ini + n
    OBVIOUS
  <2>2. i \in 1..N /\ i - 1 = n /\ i \in 0..N /\ k \in ini..fin /\ ini + i - 1 = k
    BY <1>2, <1>3, <2>1
  <2>3. l[i] = CopiaDe(o, c, k) /\ h[i] = h[n] + l[i].cant
    BY <1>5, <1>6, <2>2 DEF TurnosDeSumar
  <2>4. h[n] = l[i].pos
    <3>1. CASE n = 0
      <4>1. k = ini /\ h[0] = 0
        BY <1>2, <1>6, <2>1, <3>1 DEF TurnosDeSumar
      <4> QED BY <1>7, <2>2, <2>3, <3>1, <4>1
    <3>2. CASE n # 0
      <4>1. PICK j : j = ini + n - 1
        OBVIOUS
      <4>2. n \in 1..N /\ j \in ini..fin /\ j # fin /\ j + 1 = k
        BY <1>2, <1>3, <2>1, <3>2, <4>1
      <4>3. l[n] = CopiaDe(o, c, j) /\ h[n] = l[n].pos + l[n].cant
        BY <1>5, <1>9, <3>2, <4>1, <4>2
      <4>4. CopiaDe(o, c, j + 1).pos = CopiaDe(o, c, j).pos + CopiaDe(o, c, j).cant
        BY <1>7, <4>2
      <4> QED BY <2>3, <4>2, <4>3, <4>4
    <3> QED BY <3>1, <3>2
  <2> QED BY <2>1, <2>2, <2>3, <2>4
<1>10. N \in S
  <2> HIDE DEF S
  <2>1. \A n \in 0..N : n \in S
    BY <1>3, <1>8, <1>9, Induccion
  <2> QED BY <1>3, <2>1
<1>11. N \in 1..N /\ fin \in ini..fin /\ ini + N - 1 = fin /\ N # 0
  BY <1>2, <1>3
<1>12. h[N] = l[N].pos + l[N].cant /\ l[N] = CopiaDe(o, c, fin)
  BY <1>5, <1>10, <1>11
<1>13. CopiaDe(o, c, fin).pos + CopiaDe(o, c, fin).cant = c
  BY <1>7, <1>11
<1> QED BY <1>4, <1>6, <1>12, <1>13

(* Every byte asked for is in one of the copies.                           *)
LEMMA CadaByte ==
  ASSUME NEW o \in Nat, NEW c \in Nat, NEW x \in Nat, x < c,
         NEW k, k = (o + x) \div BLOCK_SIZE
  PROVE  /\ k \in (o \div BLOCK_SIZE)..((o + c) \div BLOCK_SIZE)
         /\ CopiaDe(o, c, k).pos <= x
         /\ x < CopiaDe(o, c, k).pos + CopiaDe(o, c, k).cant
<1>1. PICK v, s : v = o + x /\ s = o + c
  OBVIOUS
<1>2. v \in Nat /\ s \in Nat /\ o <= v /\ v < s /\ v - o = x
  BY <1>1
<1>3. PICK B, q : B = BLOCK_SIZE /\ q = BLOCK_SIZE * k
  OBVIOUS
<1>4. k \in Nat /\ q <= v /\ v < q + B
  BY <1>1, <1>2, <1>3, BloqueDeByte
<1>5. q \in Int /\ BLOCK_SIZE * (k + 1) = q + B /\ B \in Nat
  BY <1>3, <1>4, Siguiente
<1>6. o \div BLOCK_SIZE \in Nat /\ o \div BLOCK_SIZE <= k
  BY <1>1, Extremos
<1>7. s \div BLOCK_SIZE \in Nat /\ k <= s \div BLOCK_SIZE
  <2>1. PICK w \in Nat : w = s - v
    <3>1. s - v \in Nat
      BY <1>2
    <3> QED BY <3>1
  <2>2. v + w = s
    BY <1>2, <2>1
  <2>3. (v + w) \div BLOCK_SIZE \in Nat
        /\ v \div BLOCK_SIZE <= (v + w) \div BLOCK_SIZE
    BY <1>2, <2>1, Extremos
  <2> QED BY <1>1, <2>2, <2>3
<1>8. PICK d, e : d = DesdeByte(o, k) /\ e = HastaByte(o, c, k)
  OBVIOUS
<1>9. d = (IF o > q THEN o ELSE q) /\ e = IF s < q + B THEN s ELSE q + B
  BY <1>1, <1>3, <1>5, <1>8 DEF DesdeByte, HastaByte, Tope
<1>10. d \in Int /\ e \in Int /\ d <= v /\ v < e
  BY <1>2, <1>4, <1>5, <1>9
<1>11. PICK t : t = CopiaDe(o, c, k)
  OBVIOUS
<1>12. t.pos = d - o /\ t.cant = e - d
  BY <1>8, <1>11 DEF CopiaDe, Copia
<1>13. t.pos <= x /\ x < t.pos + t.cant
  BY <1>2, <1>10, <1>12
<1>14. k \in (o \div BLOCK_SIZE)..(s \div BLOCK_SIZE)
  BY <1>4, <1>6, <1>7
<1> QED BY <1>1, <1>11, <1>13, <1>14

(* A copy takes its bytes from where they are, or to there.                *)
LEMMA ByteEnSuLugar ==
  ASSUME NEW o \in Nat, NEW c \in Nat,
         NEW k \in (o \div BLOCK_SIZE)..((o + c) \div BLOCK_SIZE),
         NEW t, t = CopiaDe(o, c, k), NEW j \in 0..(t.cant - 1)
  PROVE  /\ t.pos + j \in 0..(c - 1) /\ k \in Nat
         /\ (o + (t.pos + j)) \div BLOCK_SIZE = k
         /\ (o + (t.pos + j)) % BLOCK_SIZE = t.desde + j
         /\ t.desde \in Nat /\ j \in Nat
<1>1. PICK B, q : B = BLOCK_SIZE /\ q = BLOCK_SIZE * k
  OBVIOUS
<1>2. /\ k \in Nat /\ t.cant \in Nat /\ t.desde \in Nat /\ t.pos \in Nat
      /\ t.desde + t.cant <= B /\ q + t.desde = o + t.pos /\ t.pos + t.cant <= c
  BY <1>1, CopiaDentro
<1>3. q \in Int /\ B \in Nat
  BY <1>1, <1>2, Siguiente
<1>4. PICK p, d, n : p = t.pos /\ d = t.desde /\ n = t.cant
  OBVIOUS
<1>5. PICK v : v = o + (p + j)
  OBVIOUS
<1>6. /\ p + j \in 0..(c - 1) /\ v \in Nat /\ v = q + (d + j)
      /\ q <= v /\ v < q + B /\ j \in Nat
  BY <1>2, <1>3, <1>4, <1>5
<1>7. k = v \div BLOCK_SIZE
  BY <1>1, <1>2, <1>6, BloqueDeByte
<1>8. v = q + (v % BLOCK_SIZE) /\ v % BLOCK_SIZE \in Nat
  BY <1>1, <1>6, <1>7, BloqueDeByte
<1>9. v % BLOCK_SIZE = d + j
  BY <1>2, <1>3, <1>4, <1>6, <1>8
<1> QED BY <1>2, <1>4, <1>5, <1>6, <1>7, <1>9

(* The copies of one read or write, on a file.                             *)
LEMMA CopiasDelArchivo ==
  ASSUME Tipos, Repartidos, NEW f \in DOMAIN fcb, NEW o \in Nat, NEW b \in Nat,
         o + b <= fcb[f].f_size, fcb[f].f_size \in Nat
  PROVE  LET c == Copias(o, b)
             lleva(t) == {<<t.pos + j, BLOCK_SIZE * DeDatos(f)[t.bloque]
                                         + t.desde + j>> : j \in 0..(t.cant - 1)}
             lugar(n) == BLOCK_SIZE * DeDatos(f)[n \div BLOCK_SIZE] + (n % BLOCK_SIZE)
         IN  /\ \A i \in DOMAIN c : c[i].cant > 0 =>
                  /\ c[i].bloque \in DOMAIN DeDatos(f)
                  /\ c[i].desde + c[i].cant <= BLOCK_SIZE
             /\ UNION {lleva(c[i]) : i \in DOMAIN c}
                  = {<<j, lugar(o + j)>> : j \in 0..(b - 1)}
<1> DEFINE c == Copias(o, b)
           lleva(t) == {<<t.pos + j, BLOCK_SIZE * DeDatos(f)[t.bloque]
                                       + t.desde + j>> : j \in 0..(t.cant - 1)}
           lugar(n) == BLOCK_SIZE * DeDatos(f)[n \div BLOCK_SIZE] + (n % BLOCK_SIZE)
<1>1. PICK ini, fin : ini = o \div BLOCK_SIZE /\ fin = (o + b) \div BLOCK_SIZE
  OBVIOUS
<1>2. ini \in Nat /\ fin \in Nat /\ ini <= fin
  BY <1>1, Extremos
<1>3. PICK N \in Nat : N = fin - ini + 1
  <2>1. fin - ini + 1 \in Nat
    BY <1>2
  <2> QED BY <2>1
<1>4. DOMAIN c = 1..N /\ \A i \in 1..N : c[i] = CopiaDe(o, b, ini + i - 1)
  <2>1. Son(Copias(o, b), o, b, ini, fin - ini + 1)
    BY <1>1, CopiasSon
  <2>2. Son(Copias(o, b), o, b, ini, N)
    BY ONLY <1>3, <2>1
  <2>3. /\ Copias(o, b) \in Seq(Trozos) /\ Len(Copias(o, b)) = N
        /\ \A i \in 1..N : Copias(o, b)[i] = CopiaDe(o, b, ini + i - 1)
    BY <2>2 DEF Son
  <2> QED BY <2>3
<1> HIDE DEF c
<1>5. /\ \A i \in DOMAIN c : \E k \in ini..fin : c[i] = CopiaDe(o, b, k)
      /\ \A k \in ini..fin : \E i \in DOMAIN c : c[i] = CopiaDe(o, b, k)
  <2>1. \A i \in 1..N : ini + i - 1 \in ini..fin
    BY <1>2, <1>3
  <2>2. ASSUME NEW k \in ini..fin PROVE \E i \in 1..N : ini + i - 1 = k
    <3>1. k - ini + 1 \in 1..N /\ ini + (k - ini + 1) - 1 = k
      BY <1>2, <1>3
    <3> QED BY <3>1
  <2> QED BY <1>4, <2>1, <2>2
<1>6. PICK a : a = Cuantos(f)
  OBVIOUS
<1>7. a \in Nat /\ DOMAIN DeDatos(f) = 0..(a - 1)
  BY <1>6, CantEnNat DEF DeDatos, Cuantos
<1>8. ASSUME NEW k \in ini..fin
      PROVE  /\ CopiaDe(o, b, k).bloque = k /\ CopiaDe(o, b, k).cant \in Nat
             /\ CopiaDe(o, b, k).desde + CopiaDe(o, b, k).cant <= BLOCK_SIZE
             /\ CopiaDe(o, b, k).cant # 0 => k \in 0..(a - 1)
  <2>1. /\ k \in Nat /\ CopiaDe(o, b, k).cant \in Nat
        /\ CopiaDe(o, b, k).desde + CopiaDe(o, b, k).cant <= BLOCK_SIZE
        /\ CopiaDe(o, b, k).cant # 0 => k < CalcularBloques(o + b)
    BY <1>1, CopiaDentro
  <2>2. o + b \in Nat /\ CalcularBloques(o + b) \in Nat
    BY CantidadDe
  <2>3. CalcularBloques(o + b) <= a
    BY <1>6, <2>2, CantidadCrece DEF Cuantos
  <2>4. CopiaDe(o, b, k).cant # 0 => k \in 0..(a - 1)
    BY <1>7, <2>1, <2>2, <2>3
  <2> QED BY <2>1, <2>4 DEF CopiaDe, Copia
<1>9. \A i \in DOMAIN c : c[i].cant > 0 =>
        c[i].bloque \in DOMAIN DeDatos(f) /\ c[i].desde + c[i].cant <= BLOCK_SIZE
  <2> SUFFICES ASSUME NEW i \in DOMAIN c, c[i].cant > 0
               PROVE  /\ c[i].bloque \in DOMAIN DeDatos(f)
                      /\ c[i].desde + c[i].cant <= BLOCK_SIZE
    OBVIOUS
  <2>1. PICK k \in ini..fin : c[i] = CopiaDe(o, b, k)
    BY <1>5
  <2>2. c[i].cant # 0
    BY <1>8, <2>1
  <2> QED BY <1>7, <1>8, <2>1, <2>2
<1>10. ASSUME NEW k \in 0..(a - 1)
       PROVE  BLOCK_SIZE * DeDatos(f)[k] \in Int
  <2>1. PICK x : x = DeDatos(f)[k]
    OBVIOUS
  <2>2. k \in PosDe(f) /\ k # -1
    BY <1>6, PosicionDeDatos
  <2>3. x = Ref(f, k)
    BY <1>6, <2>1, <2>2 DEF DeDatos, Cuantos, Ref, Lugar
  <2>4. x \in Bloques
    BY <2>2, <2>3 DEF Repartidos, Tipos
  <2>5. x \in Int /\ BLOCK_SIZE \in Int
    BY <2>4, SupuestoArchivos DEF Bloques
  <2>6. BLOCK_SIZE * x \in Int
    BY <2>5
  <2> QED BY <2>1, <2>6
<1>11. ASSUME NEW k \in ini..fin, NEW t, t = CopiaDe(o, b, k), NEW j \in 0..(t.cant - 1)
       PROVE  /\ t.pos + j \in 0..(b - 1)
              /\ BLOCK_SIZE * DeDatos(f)[t.bloque] + t.desde + j = lugar(o + (t.pos + j))
  <2>1. /\ t.pos + j \in 0..(b - 1) /\ k \in Nat
        /\ (o + (t.pos + j)) \div BLOCK_SIZE = k
        /\ (o + (t.pos + j)) % BLOCK_SIZE = t.desde + j
        /\ t.desde \in Nat /\ j \in Nat
    <3>1. k \in (o \div BLOCK_SIZE)..((o + b) \div BLOCK_SIZE)
      BY <1>1
    <3> QED BY ONLY <1>11, <3>1, o \in Nat, b \in Nat, j \in 0..(t.cant - 1), ByteEnSuLugar
  <2>2. t.bloque = k /\ k \in 0..(a - 1)
    <3>1. t.cant # 0
      BY <1>8, <1>11
    <3> QED BY <1>8, <1>11, <3>1
  <2>3. PICK y : y = BLOCK_SIZE * DeDatos(f)[k]
    OBVIOUS
  <2>4. y \in Int
    BY <1>10, <2>2, <2>3
  <2>5. lugar(o + (t.pos + j)) = y + (t.desde + j)
    BY <2>1, <2>3
  <2>6. BLOCK_SIZE * DeDatos(f)[t.bloque] + t.desde + j = y + t.desde + j
    BY <2>2, <2>3
  <2>7. y + t.desde + j = y + (t.desde + j)
    <3>1. PICK d : d = t.desde
      OBVIOUS
    <3> QED BY <2>1, <2>4, <3>1
  <2> QED BY ONLY <2>1, <2>5, <2>6, <2>7
<1> HIDE DEF lugar
<1>12. ASSUME NEW w, w \in UNION {lleva(c[i]) : i \in DOMAIN c}
       PROVE  w \in {<<j, lugar(o + j)>> : j \in 0..(b - 1)}
  <2>1. PICK i \in DOMAIN c : w \in lleva(c[i])
    BY <1>12
  <2>2. PICK k \in ini..fin : c[i] = CopiaDe(o, b, k)
    BY <1>5
  <2>3. PICK t : t = c[i]
    OBVIOUS
  <2>4. PICK j \in 0..(t.cant - 1) :
          w = <<t.pos + j, BLOCK_SIZE * DeDatos(f)[t.bloque] + t.desde + j>>
    BY <2>1, <2>3
  <2>5. /\ t.pos + j \in 0..(b - 1)
        /\ BLOCK_SIZE * DeDatos(f)[t.bloque] + t.desde + j = lugar(o + (t.pos + j))
    BY <1>11, <2>2, <2>3
  <2>6. PICK x \in 0..(b - 1) : x = t.pos + j
    BY <2>5
  <2>7. w = <<x, lugar(o + x)>>
    BY ONLY <2>4, <2>5, <2>6
  <2> QED BY <2>7
<1>13. ASSUME NEW x \in 0..(b - 1)
       PROVE  <<x, lugar(o + x)>> \in UNION {lleva(c[i]) : i \in DOMAIN c}
  <2>1. PICK k : k = (o + x) \div BLOCK_SIZE
    OBVIOUS
  <2>2. x \in Nat /\ x < b
    OBVIOUS
  <2>3. k \in ini..fin /\ CopiaDe(o, b, k).pos <= x
        /\ x < CopiaDe(o, b, k).pos + CopiaDe(o, b, k).cant
    BY <1>1, <2>1, <2>2, CadaByte
  <2>4. PICK i \in DOMAIN c : c[i] = CopiaDe(o, b, k)
    BY <1>5, <2>3
  <2>5. PICK t : t = c[i]
    OBVIOUS
  <2>6. PICK j : j = x - t.pos
    OBVIOUS
  <2>7. t.pos \in Nat /\ t.cant \in Nat
    BY <1>1, <2>3, <2>4, <2>5, CopiaDentro
  <2>8. j \in 0..(t.cant - 1) /\ t.pos + j = x
    BY <2>2, <2>3, <2>4, <2>5, <2>6, <2>7
  <2>9. BLOCK_SIZE * DeDatos(f)[t.bloque] + t.desde + j = lugar(o + (t.pos + j))
    BY <1>11, <2>3, <2>4, <2>5, <2>8
  <2>10. <<t.pos + j, BLOCK_SIZE * DeDatos(f)[t.bloque] + t.desde + j>> \in lleva(t)
    BY <2>8
  <2>11. <<x, lugar(o + x)>> \in lleva(c[i])
    BY ONLY <2>5, <2>8, <2>9, <2>10
  <2> HIDE DEF lleva
  <2> QED BY <2>4, <2>11
<1>14. UNION {lleva(c[i]) : i \in DOMAIN c} = {<<j, lugar(o + j)>> : j \in 0..(b - 1)}
  <2> HIDE DEF lleva
  <2>1. ASSUME NEW w \in {<<j, lugar(o + j)>> : j \in 0..(b - 1)}
        PROVE  w \in UNION {lleva(c[i]) : i \in DOMAIN c}
    BY <1>13
  <2> QED BY <1>12, <2>1
<1> QED BY <1>9, <1>14 DEF c, lugar

(* The copies of a transfer are those of its bytes, one for each.          *)
LEMMA InductivoDaCopias ==
  ASSUME Inductivo
  PROVE  CopiasCorrectas
<1> SUFFICES ASSUME Entero, NEW f \in DOMAIN fcb,
                    NEW o \in POSICIONES, NEW b \in POSICIONES,
                    o + b <= fcb[f].f_size
             PROVE  LET c == Copias(o, b)
                        lleva(t) == {<<t.pos + j, BLOCK_SIZE * DeDatos(f)[t.bloque]
                                       + t.desde + j>> : j \in 0..(t.cant - 1)}
                        lugar(n) == BLOCK_SIZE * DeDatos(f)[n \div BLOCK_SIZE]
                                      + (n % BLOCK_SIZE)
                    IN  /\ \A i \in DOMAIN c : c[i].cant > 0 =>
                             /\ c[i].bloque \in DOMAIN DeDatos(f)
                             /\ c[i].desde + c[i].cant <= BLOCK_SIZE
                        /\ UNION {lleva(c[i]) : i \in DOMAIN c}
                             = {<<j, lugar(o + j)>> : j \in 0..(b - 1)}
                        /\ FoldLeft(LAMBDA n, t : n + t.cant, 0, c) = b
  BY DEF CopiasCorrectas
<1>1. Tipos /\ Repartidos
  BY DEF Inductivo
<1>2. o \in Nat /\ b \in Nat /\ fcb[f].f_size \in Nat
  BY <1>1, CantDe, SupuestoArchivos
<1>3. FoldLeft(LAMBDA n, t : n + t.cant, 0, Copias(o, b)) = b
  <2>1. Sumadas(Copias(o, b)) = b
    BY <1>2, SumaDeCopias
  <2> QED BY <2>1 DEF Sumadas
<1> QED BY <1>1, <1>2, <1>3, CopiasDelArchivo

(* eferrait and eferrid carry each byte to its place, once, and no other.  *)
THEOREM CopiasSiempreCorrectas ==
  ASSUME PunterosEnteros
  PROVE  Spec => []CopiasCorrectas
<1>1. ASSUME Inductivo PROVE CopiasCorrectas
  BY <1>1, InductivoDaCopias
<1> QED BY <1>1, InvarianteArchivos, PTL
=============================================================================
