--------------------------- MODULE MemoriaPruebas ---------------------------
(***************************************************************************)
(* Theorems about the segment allocator of memoria and the tables the      *)
(* kernel keeps of it, for any sizes of the memory, of segment 0 and of    *)
(* the tables, any set of processes and the three algorithms.  The         *)
(* inductive invariant is Orden: the lists are in order and share every    *)
(* byte above segment 0 (Sana), the tables tell of exactly the segments of *)
(* the list (Acuerdo), and a creation that waits for a compaction fits in  *)
(* the free bytes.                                                         *)
(***************************************************************************)
EXTENDS Memoria, SecuenciasPruebas

-----------------------------------------------------------------------------
(* The two lists of memoria: the holes and the segments are runs of bytes  *)
(* in increasing order.  What the sorted insertion, the joining of holes,  *)
(* the release of a segment, the three searches, the creation and the      *)
(* compaction do to them, for lists of any length.  Sana is what each of   *)
(* these operations keeps of a state of the allocator.                     *)

(* Suma adds the limits one after another.                                 *)
LEMMA SumaPasos ==
  ASSUME NEW S, NEW l \in Seq(S), \A i \in 1..Len(l) : l[i].limite \in Nat
  PROVE  \E h : /\ h[0] = 0
                /\ \A n \in 1..Len(l) : h[n] = h[n - 1] + l[n].limite
                /\ Suma(l) = h[Len(l)]
<1> DEFINE N == Len(l)
           paso == [x \in (1..N) \X Nat |-> x[2] + l[x[1]].limite]
           Sigue(it, s) == IF s = {} THEN 0
                           ELSE it[s \ {Max(s)}] + l[Max(s)].limite
           it == CHOOSE it : it = [s \in SUBSET DOMAIN l |-> Sigue(it, s)]
           h == [n \in 0..N |-> it[1..n]]
<1>1. N \in Nat /\ DOMAIN l = 1..N
  OBVIOUS
<1>2. \A n \in 1..N, t \in Nat : /\ paso[<<n, t>>] = t + l[n].limite
                                /\ t + l[n].limite \in Nat
  OBVIOUS
<1>3. Suma(l) = it[1..N]
  BY <1>1 DEF Suma, FoldLeft, MapThenFoldSet
<1> HIDE DEF paso
<1>4. \A s \in SUBSET (1..N) : it[s] = Sigue(it, s)
  <2>1. 0 \in Nat /\ SePliega(N, Nat, paso)
    BY <1>2 DEF SePliega
  <2>2. PICK jt : Pliegue(jt, N, Nat, 0, paso)
    <3> HIDE DEF N, it, h
    <3> QED BY <1>1, <2>1, PliegueExiste
  <2>3. ASSUME NEW s \in SUBSET (1..N)
        PROVE  jt[s] = Sigue(jt, s)
    <3>1. CASE s = {}
      BY <2>2, <3>1 DEF Pliegue, PasoDePliegue
    <3>2. CASE s # {}
      <4>1. Max(s) \in s
        <5> HIDE DEF N, it, h
        <5> QED BY <1>1, <3>2, MaximoDe
      <4> QED
        BY <1>2, <2>2, <3>2, <4>1 DEF Pliegue, PasoDePliegue
    <3> QED BY <3>1, <3>2
  <2>4. jt = [s \in SUBSET DOMAIN l |-> Sigue(jt, s)]
    BY <1>1, <2>2, <2>3 DEF Pliegue
  <2>5. it = [s \in SUBSET DOMAIN l |-> Sigue(it, s)]
    <3> HIDE DEF Sigue
    <3> QED BY <2>4
  <2> HIDE DEF it
  <2> QED
    BY <1>1, <2>5
<1> HIDE DEF it
<1>5. h[0] = 0
  <2>1. 1..0 = {} /\ {} \in SUBSET (1..N) /\ 0 \in 0..N
    BY <1>1
  <2> QED BY <2>1, <1>4
<1>6. ASSUME NEW n \in 1..N
      PROVE  h[n] = h[n - 1] + l[n].limite
  <2>1. 1..n # {} /\ Max(1..n) = n /\ (1..n) \ {n} = 1..(n - 1)
    BY <1>1, Hasta
  <2>2. 1..n \in SUBSET (1..N)
    BY <1>1
  <2>3. it[1..n] = it[1..(n - 1)] + l[n].limite
    BY <1>4, <2>1, <2>2
  <2> QED
    BY <1>1, <2>3
<1>7. Suma(l) = h[N]
  BY <1>1, <1>3
<1> HIDE DEF h
<1> QED
  BY <1>5, <1>6, <1>7

-----------------------------------------------------------------------------
(* The order of the lists, and the bytes they have.                        *)

(* Both lists hold runs of bytes, in order and none of them empty.         *)
EsTramo(S) == \A e \in S : e.base \in Nat /\ e.limite \in Nat
Fin(e) == e.base + e.limite
Ordenada(l) ==
  /\ \A i \in DOMAIN l : l[i].limite > 0
  /\ \A i, j \in DOMAIN l : i < j => Fin(l[i]) <= l[j].base
EsDe(e, x) == e.base <= x /\ x < Fin(e)
Cubre(l, x) == \E i \in DOMAIN l : EsDe(l[i], x)

(* The elements of smaller base come first: where list_add_sorted inserts. *)
LEMMA Lugar ==
  ASSUME NEW S, EsTramo(S), NEW l \in Seq(S), Ordenada(l), NEW b \in Nat
  PROVE  LET n == Cardinality({i \in DOMAIN l : l[i].base < b})
         IN  /\ n \in 0..Len(l)
             /\ \A i \in 1..n : l[i].base < b
             /\ \A i \in (n + 1)..Len(l) : l[i].base >= b
<1> DEFINE C == {i \in DOMAIN l : l[i].base < b}
           T == {k \in 1..(Len(l) + 1) : k = Len(l) + 1 \/ l[k].base >= b}
<1>1. Len(l) \in Nat /\ DOMAIN l = 1..Len(l)
  OBVIOUS
<1>2. \A i \in 1..Len(l) : l[i] \in S /\ l[i].base \in Nat /\ l[i].limite \in Nat
  BY <1>1 DEF EsTramo
<1>3. PICK m \in T : \A k \in T : m <= k
  <2>1. Len(l) + 1 \in T
    BY <1>1
  <2>2. T \in SUBSET Nat /\ T # {}
    BY <1>1, <2>1
  <2> HIDE DEF T
  <2> QED BY <2>2, Minimo
<1>4. \A i \in 1..(m - 1) : l[i].base < b
  <2>1. ASSUME NEW i \in 1..(m - 1) PROVE i \notin T /\ i \in 1..Len(l)
    BY <1>1, <1>3
  <2> QED BY <1>2, <2>1
<1>5. \A i \in m..Len(l) : l[i].base >= b
  <2> SUFFICES ASSUME NEW i \in m..Len(l) PROVE l[i].base >= b
    OBVIOUS
  <2>1. m \in 1..Len(l) /\ l[m].base >= b /\ i \in 1..Len(l)
    BY <1>1, <1>3
  <2>2. CASE i = m
    BY <2>1, <2>2
  <2>3. CASE i > m
    <3>1. Fin(l[m]) <= l[i].base
      BY <1>1, <2>1, <2>3 DEF Ordenada
    <3> QED BY <1>2, <2>1, <3>1 DEF Fin
  <2> QED BY <2>1, <2>2, <2>3
<1>6. C = 1..(m - 1)
  BY <1>1, <1>2, <1>3, <1>4, <1>5
<1>7. Cardinality(C) = m - 1
  <2>1. PICK k \in Nat : k = m - 1
    BY <1>1
  <2>2. Cardinality(1..k) = k
    BY <2>1, FS_Interval
  <2> HIDE DEF C
  <2> QED BY <1>6, <2>1, <2>2
<1> HIDE DEF C
<1> QED
  <2>1. m \in 1..(Len(l) + 1)
    OBVIOUS
  <2>2. m - 1 \in 0..Len(l) /\ (m - 1) + 1 = m
    BY <1>1, <2>1
  <2>3. Cardinality(C) \in 0..Len(l)
    BY <1>7, <2>2
  <2>4. \A i \in 1..Cardinality(C) : l[i].base < b
    BY <1>4, <1>7
  <2>5. \A i \in (Cardinality(C) + 1)..Len(l) : l[i].base >= b
    BY <1>5, <1>7, <2>2
  <2> QED
    BY <2>3, <2>4, <2>5 DEF C

(* list_add_sorted of a run of bytes that no run of the list has.          *)
LEMMA Agregado ==
  ASSUME NEW S, EsTramo(S), NEW l \in Seq(S), Ordenada(l),
         NEW x \in S, x.limite > 0,
         \A y \in Nat : ~(Cubre(l, y) /\ EsDe(x, y))
  PROVE  LET n == Cardinality({i \in DOMAIN l : l[i].base < x.base})
             t == AgregarOrdenado(l, x)
         IN  /\ n \in 0..Len(l)
             /\ t = InsertAt(l, n + 1, x)
             /\ t \in Seq(S) /\ Ordenada(t)
             /\ \A y \in Nat : Cubre(t, y) <=> Cubre(l, y) \/ EsDe(x, y)
<1> DEFINE n == Cardinality({i \in DOMAIN l : l[i].base < x.base})
           t == AgregarOrdenado(l, x)
<1>1. Len(l) \in Nat /\ DOMAIN l = 1..Len(l) /\ x.base \in Nat /\ x.limite \in Nat
  BY DEF EsTramo
<1>2. \A i \in 1..Len(l) : l[i] \in S /\ l[i].base \in Nat /\ l[i].limite \in Nat
  BY <1>1 DEF EsTramo
<1>3. /\ n \in 0..Len(l)
      /\ \A i \in 1..n : l[i].base < x.base
      /\ \A i \in (n + 1)..Len(l) : l[i].base >= x.base
  BY <1>1, Lugar
<1>4. t = InsertAt(l, n + 1, x)
  BY DEF AgregarOrdenado
<1> HIDE DEF n, t
<1>5. n + 1 \in 1..(Len(l) + 1) /\ n \in Nat
  BY <1>1, <1>3
<1>6. /\ t \in Seq(S) /\ Len(t) = Len(l) + 1 /\ DOMAIN t = 1..(Len(l) + 1)
      /\ \A j \in 1..(n + 1 - 1) : t[j] = l[j]
      /\ t[n + 1] = x
      /\ \A j \in (n + 1)..Len(l) : t[j + 1] = l[j]
  <2>1. PICK k \in 1..(Len(l) + 1) : k = n + 1
    BY <1>5
  <2>2. /\ InsertAt(l, k, x) \in Seq(S)
        /\ Len(InsertAt(l, k, x)) = Len(l) + 1
        /\ DOMAIN InsertAt(l, k, x) = 1..(Len(l) + 1)
        /\ \A j \in 1..(k - 1) : InsertAt(l, k, x)[j] = l[j]
        /\ InsertAt(l, k, x)[k] = x
        /\ \A j \in k..Len(l) : InsertAt(l, k, x)[j + 1] = l[j]
    BY InsertarTipo
  <2>3. t = InsertAt(l, k, x)
    BY <1>4, <2>1
  <2>4. /\ t \in Seq(S) /\ Len(t) = Len(l) + 1 /\ DOMAIN t = 1..(Len(l) + 1)
        /\ \A j \in 1..(k - 1) : t[j] = l[j]
        /\ t[k] = x
        /\ \A j \in k..Len(l) : t[j + 1] = l[j]
    BY <2>2, <2>3, Zenon
  <2> QED
    BY <1>1, <1>5, <2>1, <2>4
<1>7. ASSUME NEW i \in 1..n
      PROVE  Fin(l[i]) <= x.base
  <2>1. i \in 1..Len(l)
    BY <1>1, <1>3
  <2>2. CASE Fin(l[i]) > x.base
    <3>1. EsDe(l[i], x.base) /\ EsDe(x, x.base)
      BY <1>1, <1>2, <1>3, <2>1, <2>2 DEF EsDe, Fin
    <3> QED BY <1>1, <2>1, <3>1 DEF Cubre
  <2> QED
    BY <1>1, <1>2, <2>1, <2>2 DEF Fin
<1>8. ASSUME NEW i \in (n + 1)..Len(l)
      PROVE  Fin(x) <= l[i].base
  <2>1. i \in 1..Len(l)
    BY <1>1, <1>3
  <2>2. CASE Fin(x) > l[i].base
    <3>1. l[i].limite > 0
      BY <1>1, <2>1 DEF Ordenada
    <3>2. EsDe(l[i], l[i].base) /\ EsDe(x, l[i].base)
      BY <1>1, <1>2, <1>3, <2>1, <2>2, <3>1 DEF EsDe, Fin
    <3> QED BY <1>1, <1>2, <2>1, <3>2 DEF Cubre
  <2> QED
    BY <1>1, <1>2, <2>1, <2>2 DEF Fin
(* Where each element of the new list comes from.                          *)
<1>9. \A j \in 1..(Len(l) + 1) :
        \/ j <= n /\ j \in 1..n /\ j \in 1..Len(l) /\ t[j] = l[j]
        \/ j = n + 1 /\ t[j] = x
        \/ /\ j > n + 1 /\ j - 1 \in (n + 1)..Len(l) /\ j - 1 \in 1..Len(l)
           /\ t[j] = l[j - 1]
  <2> SUFFICES ASSUME NEW j \in 1..(Len(l) + 1), j > n + 1
               PROVE  /\ j - 1 \in (n + 1)..Len(l) /\ j - 1 \in 1..Len(l)
                      /\ t[j] = l[j - 1]
    BY <1>1, <1>3, <1>6
  <2>1. j - 1 \in (n + 1)..Len(l) /\ j - 1 \in 1..Len(l) /\ (j - 1) + 1 = j
    BY <1>1, <1>3
  <2> QED BY <1>6, <2>1
<1>10. Ordenada(t)
  <2>1. ASSUME NEW j \in DOMAIN t PROVE t[j].limite > 0
    <3>1. \A i \in 1..Len(l) : l[i].limite > 0
      BY <1>1 DEF Ordenada
    <3> QED BY <1>6, <1>9, <3>1
  <2>2. ASSUME NEW i \in DOMAIN t, NEW j \in DOMAIN t, i < j
        PROVE  Fin(t[i]) <= t[j].base
    <3>1. i \in 1..(Len(l) + 1) /\ j \in 1..(Len(l) + 1)
      BY <1>6
    <3>2. \A a, c \in 1..Len(l) : a < c => Fin(l[a]) <= l[c].base
      BY <1>1 DEF Ordenada
    <3>3. CASE j <= n
      BY <1>3, <1>9, <2>2, <3>1, <3>2, <3>3
    <3>4. CASE j = n + 1
      BY <1>3, <1>7, <1>9, <2>2, <3>1, <3>4
    <3>5. CASE j > n + 1
      <4>1. t[j] = l[j - 1] /\ j - 1 \in (n + 1)..Len(l) /\ j - 1 \in 1..Len(l)
        BY <1>3, <1>9, <3>1, <3>5
      <4>2. CASE i <= n
        <5>1. t[i] = l[i] /\ i \in 1..Len(l) /\ i < j - 1
          BY <1>3, <1>9, <3>1, <3>5, <4>2
        <5> QED BY <3>2, <4>1, <5>1
      <4>3. CASE i = n + 1
        <5>1. t[i] = x
          BY <1>6, <4>3
        <5> QED BY <1>8, <4>1, <5>1
      <4>4. CASE i > n + 1
        <5>1. t[i] = l[i - 1] /\ i - 1 \in 1..Len(l) /\ i - 1 < j - 1
          BY <1>3, <1>9, <2>2, <3>1, <4>4
        <5> QED BY <3>2, <4>1, <5>1
      <4> QED BY <1>3, <3>1, <4>2, <4>3, <4>4
    <3> QED BY <1>3, <3>1, <3>3, <3>4, <3>5
  <2> QED
    BY <2>1, <2>2 DEF Ordenada
<1>11. ASSUME NEW y \in Nat
       PROVE  Cubre(t, y) <=> Cubre(l, y) \/ EsDe(x, y)
  <2>1. ASSUME Cubre(t, y) PROVE Cubre(l, y) \/ EsDe(x, y)
    <3>1. PICK j \in 1..(Len(l) + 1) : EsDe(t[j], y)
      BY <1>6, <2>1 DEF Cubre
    <3> QED BY <1>1, <1>9, <3>1 DEF Cubre
  <2>2. ASSUME EsDe(x, y) PROVE Cubre(t, y)
    BY <1>5, <1>6, <2>2 DEF Cubre
  <2>3. ASSUME Cubre(l, y) PROVE Cubre(t, y)
    <3>1. PICK i \in 1..Len(l) : EsDe(l[i], y)
      BY <1>1, <2>3 DEF Cubre
    <3>2. CASE i <= n
      <4>1. i \in 1..(n + 1 - 1) /\ i \in DOMAIN t
        BY <1>1, <1>3, <1>6, <3>2
      <4> QED BY <1>6, <3>1, <4>1 DEF Cubre
    <3>3. CASE i > n
      <4>1. i \in (n + 1)..Len(l) /\ i + 1 \in DOMAIN t
        BY <1>1, <1>3, <1>6, <3>3
      <4> QED BY <1>6, <3>1, <4>1 DEF Cubre
    <3> QED BY <1>3, <3>2, <3>3
  <2> QED BY <2>1, <2>2, <2>3
<1> QED
  BY <1>3, <1>4, <1>6, <1>10, <1>11 DEF n, t

Hueco == [base : Nat, limite : Nat]
Toca(l, i) == i \in 1..(Len(l) - 1) /\ Contiguos(l[i], l[i + 1])
SinTocarse(l) == \A i \in 1..(Len(l) - 1) : ~Contiguos(l[i], l[i + 1])

(* What UnirSiguiente does to a list of holes in order.                    *)
Unido(l, i, t) ==
  /\ t \in Seq(Hueco) /\ Ordenada(t)
  /\ \A y \in Nat : Cubre(t, y) <=> Cubre(l, y)
  /\ Len(l) > 0 => Len(t) > 0 /\ t[1].base = l[1].base
  /\ ~Toca(l, i) => t = l
  /\ Toca(l, i) => \A j \in Int :
       Toca(t, j) => IF j < i THEN Toca(l, j) ELSE Toca(l, j + 1)

(* Two holes that touch become one of the same bytes.                      *)
LEMMA Union ==
  ASSUME NEW l \in Seq(Hueco), Ordenada(l), NEW i \in Int
  PROVE  Unido(l, i, UnirSiguiente(l, i))
<1>1. Len(l) \in Nat /\ DOMAIN l = 1..Len(l)
  OBVIOUS
<1>2. \A j \in 1..Len(l) : l[j] \in Hueco /\ l[j].base \in Nat /\ l[j].limite \in Nat
                           /\ l[j].limite > 0
  <2>1. \A j \in 1..Len(l) : l[j] \in Hueco
    BY <1>1
  <2>2. \A e \in Hueco : e.base \in Nat /\ e.limite \in Nat
    BY DEF Hueco
  <2> QED
    BY <1>1, <2>1, <2>2 DEF Ordenada
<1>3. CASE ~Toca(l, i)
  <2>1. UnirSiguiente(l, i) = l
    BY <1>3 DEF UnirSiguiente, Toca
  <2> QED
    BY <1>3, <2>1 DEF Unido
<1>4. CASE Toca(l, i)
  <2> DEFINE e == [base |-> l[i].base, limite |-> l[i].limite + l[i + 1].limite]
             m == [l EXCEPT ![i] = e]
  <2>1. i \in 1..(Len(l) - 1) /\ i \in 1..Len(l) /\ i + 1 \in 1..Len(l)
        /\ Fin(l[i]) = l[i + 1].base
    BY <1>1, <1>4 DEF Toca, Contiguos, Fin
  <2>2. [l EXCEPT ![i].limite = @ + l[i + 1].limite] = m
    <3>1. [l[i] EXCEPT !.limite = @ + l[i + 1].limite] = e
      BY <1>2, <2>1 DEF Hueco
    <3> QED BY <3>1
  <2>3. UnirSiguiente(l, i) = RemoveAt(m, i + 1)
    <3> HIDE DEF m
    <3> QED BY <1>4, <2>2 DEF UnirSiguiente, Toca
  <2>4. e \in Hueco /\ e.base = l[i].base /\ e.limite = l[i].limite + l[i + 1].limite
    <3>1. PICK b \in Nat, z \in Nat : b = l[i].base /\ z = l[i].limite + l[i + 1].limite
      BY <1>2, <2>1
    <3>2. e = [base |-> b, limite |-> z]
      BY <3>1
    <3> HIDE DEF e
    <3> QED BY <3>1, <3>2 DEF Hueco
  <2>5. m \in Seq(Hueco) /\ Len(m) = Len(l) /\ DOMAIN m = 1..Len(l)
        /\ m[i] = e /\ \A j \in 1..Len(l) : j # i => m[j] = l[j]
    <3> HIDE DEF e
    <3> QED BY <1>1, <2>1, <2>4
  <2> HIDE DEF m, e
  <2>6. PICK k \in DOMAIN m : k = i + 1
    BY <2>1, <2>5
  <2>7. PICK t : t = RemoveAt(m, k)
    OBVIOUS
  <2>8. /\ t \in Seq(Hueco) /\ Len(t) = Len(l) - 1 /\ DOMAIN t = 1..(Len(l) - 1)
        /\ \A j \in 1..(Len(l) - 1) : t[j] = IF j < k THEN m[j] ELSE m[j + 1]
    BY <2>5, <2>7, QuitarTipo
  <2>9. /\ t[i] = e
        /\ \A j \in 1..(Len(l) - 1) : j < i => t[j] = l[j]
        /\ \A j \in 1..(Len(l) - 1) : j > i => t[j] = l[j + 1]
    <3>1. i < k
      BY <2>1, <2>6
    <3>2. t[i] = e
      BY <2>1, <2>5, <2>8, <3>1
    <3>3. ASSUME NEW j \in 1..(Len(l) - 1), j < i PROVE t[j] = l[j]
      BY <1>1, <2>1, <2>5, <2>6, <2>8, <3>3
    <3>4. ASSUME NEW j \in 1..(Len(l) - 1), j > i PROVE t[j] = l[j + 1]
      <4>1. ~(j < k) /\ j + 1 \in 1..Len(l) /\ j + 1 # i
        BY <1>1, <2>1, <2>6, <3>4
      <4> QED BY <2>5, <2>8, <4>1
    <3> QED BY <3>2, <3>3, <3>4
  <2>10. Fin(e) = Fin(l[i + 1]) /\ e.limite > 0
    BY <1>2, <2>1, <2>4 DEF Fin
  <2>11. \A j \in 1..(Len(l) - 1) :
           /\ t[j].base = l[IF j <= i THEN j ELSE j + 1].base
           /\ Fin(t[j]) = Fin(l[IF j < i THEN j ELSE j + 1])
           /\ t[j].limite > 0
           /\ (IF j <= i THEN j ELSE j + 1) \in 1..Len(l)
           /\ (IF j < i THEN j ELSE j + 1) \in 1..Len(l)
    <3> SUFFICES ASSUME NEW j \in 1..(Len(l) - 1)
                 PROVE  /\ t[j].base = l[IF j <= i THEN j ELSE j + 1].base
                        /\ Fin(t[j]) = Fin(l[IF j < i THEN j ELSE j + 1])
                        /\ t[j].limite > 0
                        /\ (IF j <= i THEN j ELSE j + 1) \in 1..Len(l)
                        /\ (IF j < i THEN j ELSE j + 1) \in 1..Len(l)
      OBVIOUS
    <3>1. j \in 1..Len(l) /\ j + 1 \in 1..Len(l)
      BY <1>1
    <3>2. CASE j < i
      BY <1>2, <2>1, <2>9, <3>1, <3>2
    <3>3. CASE j = i
      BY <1>2, <2>1, <2>4, <2>9, <2>10, <3>1, <3>3
    <3>4. CASE j > i
      BY <1>2, <2>1, <2>9, <3>1, <3>4
    <3> QED BY <2>1, <3>2, <3>3, <3>4
  <2>12. Ordenada(t)
    <3>1. ASSUME NEW a \in 1..(Len(l) - 1), NEW c \in 1..(Len(l) - 1), a < c
          PROVE  Fin(t[a]) <= t[c].base
      <4>1. PICK u \in 1..Len(l) : u = IF a < i THEN a ELSE a + 1
        BY <2>11
      <4>2. PICK v \in 1..Len(l) : v = IF c <= i THEN c ELSE c + 1
        BY <2>11
      <4>3. u < v
        BY <2>1, <3>1, <4>1, <4>2
      <4>4. Fin(l[u]) <= l[v].base
        BY <1>1, <4>3 DEF Ordenada
      <4> QED BY <2>11, <4>1, <4>2, <4>4
    <3> QED BY <2>8, <2>11, <3>1 DEF Ordenada
  <2>13. ASSUME NEW y \in Nat
         PROVE  Cubre(t, y) <=> Cubre(l, y)
    <3>1. ASSUME Cubre(t, y) PROVE Cubre(l, y)
      <4>1. PICK j \in 1..(Len(l) - 1) : EsDe(t[j], y)
        BY <2>8, <3>1 DEF Cubre
      <4>2. CASE j = i
        <5>1. EsDe(l[i], y) \/ EsDe(l[i + 1], y)
          <6>1. l[i].base <= y /\ y < Fin(l[i + 1])
            BY <2>4, <2>9, <2>10, <4>1, <4>2 DEF EsDe
          <6> QED BY <1>2, <2>1, <6>1 DEF EsDe, Fin
        <5> QED BY <1>1, <2>1, <5>1 DEF Cubre
      <4>3. CASE j < i
        BY <1>1, <2>9, <4>1, <4>3 DEF Cubre
      <4>4. CASE j > i
        BY <1>1, <2>9, <4>1, <4>4 DEF Cubre
      <4> QED BY <2>1, <4>2, <4>3, <4>4
    <3>2. ASSUME Cubre(l, y) PROVE Cubre(t, y)
      <4>1. PICK j \in 1..Len(l) : EsDe(l[j], y)
        BY <1>1, <3>2 DEF Cubre
      <4>2. CASE j = i \/ j = i + 1
        <5>1. EsDe(t[i], y)
          <6>1. Fin(l[i]) <= Fin(l[i + 1]) /\ l[i].base <= l[i + 1].base
            BY <1>2, <2>1 DEF Fin
          <6>2. Fin(l[i]) \in Nat /\ Fin(l[i + 1]) \in Nat
            BY <1>2, <2>1 DEF Fin
          <6> QED BY <1>2, <2>1, <2>4, <2>9, <2>10, <4>1, <4>2, <6>1, <6>2 DEF EsDe
        <5> QED BY <2>1, <2>8, <5>1 DEF Cubre
      <4>3. CASE j < i
        <5>1. j \in 1..(Len(l) - 1) /\ t[j] = l[j]
          BY <1>1, <2>1, <2>9, <4>3
        <5> QED BY <2>8, <4>1, <5>1 DEF Cubre
      <4>4. CASE j > i + 1
        <5>1. j - 1 \in 1..(Len(l) - 1) /\ j - 1 > i /\ (j - 1) + 1 = j
          BY <1>1, <2>1, <4>4
        <5>2. t[j - 1] = l[j]
          BY <2>9, <5>1
        <5> QED BY <2>8, <4>1, <5>1, <5>2 DEF Cubre
      <4> QED BY <2>1, <4>2, <4>3, <4>4
    <3> QED BY <3>1, <3>2
  <2>14. ASSUME NEW j \in Int, Toca(t, j)
         PROVE  IF j < i THEN Toca(l, j) ELSE Toca(l, j + 1)
    <3>1. /\ j \in 1..(Len(l) - 2) /\ j \in 1..(Len(l) - 1)
          /\ j + 1 \in 1..(Len(l) - 1)
          /\ Fin(t[j]) = t[j + 1].base
      BY <1>1, <2>8, <2>14 DEF Toca, Contiguos, Fin
    <3>2. CASE j < i
      <4>1. Fin(l[j]) = l[j + 1].base
        BY <2>1, <2>11, <3>1, <3>2
      <4> QED BY <3>1, <3>2, <4>1 DEF Toca, Contiguos, Fin
    <3>3. CASE j >= i
      <4>1. Fin(l[j + 1]) = l[j + 2].base
        <5>1. ~(j < i) /\ ~(j + 1 <= i) /\ (j + 1) + 1 = j + 2
          BY <2>1, <3>1, <3>3
        <5> QED BY <2>11, <3>1, <5>1
      <4>2. j + 1 \in 1..(Len(l) - 1) /\ (j + 1) + 1 = j + 2 /\ ~(j < i)
        BY <1>1, <2>1, <3>1, <3>3
      <4> QED BY <4>1, <4>2 DEF Toca, Contiguos, Fin
    <3> QED BY <2>1, <3>2, <3>3
  <2>15. Len(t) > 0 /\ t[1].base = l[1].base
    <3>1. 1 \in 1..(Len(l) - 1) /\ 1 <= i
      BY <1>1, <2>1
    <3> QED BY <2>8, <2>11, <3>1
  <2>16. UnirSiguiente(l, i) = t
    BY <2>3, <2>6, <2>7
  <2> QED
    BY <1>4, <2>8, <2>12, <2>13, <2>14, <2>15, <2>16 DEF Unido
<1> QED
  BY <1>3, <1>4

(* borrar_segmento: the bytes given back become free, in a hole of their   *)
(* own or in a neighbour's, and no two holes touch.                        *)
LEMMA Liberacion ==
  ASSUME NEW l \in Seq(Hueco), Ordenada(l), SinTocarse(l),
         NEW x \in Hueco, x.limite > 0,
         \A y \in Nat : ~(Cubre(l, y) /\ EsDe(x, y))
  PROVE  LET n == Cardinality({i \in DOMAIN l : l[i].base < x.base}) + 1
             t == UnirSiguiente(UnirSiguiente(AgregarOrdenado(l, x), n), n - 1)
         IN  /\ t \in Seq(Hueco) /\ Ordenada(t) /\ SinTocarse(t)
             /\ \A y \in Nat : Cubre(t, y) <=> Cubre(l, y) \/ EsDe(x, y)
<1> DEFINE q == Cardinality({i \in DOMAIN l : l[i].base < x.base})
<1>1. Len(l) \in Nat /\ DOMAIN l = 1..Len(l) /\ EsTramo(Hueco)
  BY DEF EsTramo, Hueco
<1>2. PICK c : c = AgregarOrdenado(l, x)
  OBVIOUS
<1>3. /\ q \in 0..Len(l)
      /\ c = InsertAt(l, q + 1, x)
      /\ c \in Seq(Hueco) /\ Ordenada(c)
      /\ \A y \in Nat : Cubre(c, y) <=> Cubre(l, y) \/ EsDe(x, y)
  BY <1>1, <1>2, Agregado
<1> HIDE DEF q
<1>4. PICK n \in 1..(Len(l) + 1) : n = q + 1
  BY <1>1, <1>3
<1>5. /\ Len(c) = Len(l) + 1
      /\ \A j \in 1..(n - 1) : c[j] = l[j]
      /\ \A j \in n..Len(l) : c[j + 1] = l[j]
  <2>1. c = InsertAt(l, n, x)
    BY <1>3, <1>4
  <2> QED BY <2>1, InsertarTipo
<1>6. ASSUME NEW j \in Int, Toca(c, j)
      PROVE  j = n - 1 \/ j = n
  <2>1. j \in 1..Len(l) /\ Contiguos(c[j], c[j + 1])
    BY <1>1, <1>5, <1>6 DEF Toca
  <2>2. CASE j < n - 1
    <3>1. j \in 1..(n - 1) /\ j + 1 \in 1..(n - 1) /\ j \in 1..(Len(l) - 1)
      BY <1>1, <2>1, <2>2
    <3> QED BY <1>5, <2>1, <3>1 DEF SinTocarse
  <2>3. CASE j > n
    <3>1. /\ j \in n..Len(l) /\ j - 1 \in n..Len(l) /\ (j - 1) + 1 = j
          /\ j - 1 \in 1..(Len(l) - 1)
      BY <1>1, <2>1, <2>3
    <3>2. c[j] = l[j - 1] /\ c[j + 1] = l[j]
      BY <1>5, <3>1
    <3> QED BY <2>1, <3>1, <3>2 DEF SinTocarse
  <2> QED BY <2>2, <2>3
<1>7. PICK d : d = UnirSiguiente(c, n)
  OBVIOUS
<1>8. Unido(c, n, d)
  BY <1>3, <1>7, Union
<1>9. ASSUME NEW j \in Int, Toca(d, j)
      PROVE  j = n - 1
  <2>1. CASE Toca(c, n)
    <3>1. IF j < n THEN Toca(c, j) ELSE Toca(c, j + 1)
      BY <1>8, <1>9, <2>1 DEF Unido
    <3>2. CASE j < n
      BY <1>6, <3>1, <3>2
    <3>3. CASE j >= n
      <4>1. Toca(c, j + 1) /\ j + 1 \in Int
        BY <3>1, <3>3
      <4>2. j + 1 = n - 1 \/ j + 1 = n
        BY <1>6, <4>1
      <4> QED BY <3>3, <4>2
    <3> QED BY <3>2, <3>3
  <2>2. CASE ~Toca(c, n)
    <3>1. d = c
      BY <1>8, <2>2 DEF Unido
    <3>2. j = n - 1 \/ j = n
      BY <1>6, <1>9, <3>1
    <3> QED BY <1>9, <2>2, <3>1, <3>2
  <2> QED BY <2>1, <2>2
<1>10. PICK k \in Int : k = n - 1
  OBVIOUS
<1>11. PICK t : t = UnirSiguiente(d, k)
  OBVIOUS
<1>12. Unido(d, k, t)
  <2>1. d \in Seq(Hueco) /\ Ordenada(d)
    BY <1>8 DEF Unido
  <2> QED BY <1>11, <2>1, Union
<1>13. SinTocarse(t)
  <2>1. ASSUME NEW j \in Int, Toca(t, j)
        PROVE  FALSE
    <3>1. CASE Toca(d, k)
      <4>1. IF j < k THEN Toca(d, j) ELSE Toca(d, j + 1)
        BY <1>12, <2>1, <3>1 DEF Unido
      <4>2. CASE j < k
        BY <1>9, <1>10, <4>1, <4>2
      <4>3. CASE j >= k
        <5>1. Toca(d, j + 1) /\ j + 1 \in Int
          BY <4>1, <4>3
        <5>2. j + 1 = n - 1
          BY <1>9, <5>1
        <5> QED BY <1>10, <4>3, <5>2
      <4> QED BY <4>2, <4>3
    <3>2. CASE ~Toca(d, k)
      <4>1. t = d
        BY <1>12, <3>2 DEF Unido
      <4> QED BY <1>9, <1>10, <2>1, <3>2, <4>1
    <3> QED BY <3>1, <3>2
  <2> QED BY <2>1 DEF SinTocarse, Toca
<1>14. t \in Seq(Hueco) /\ Ordenada(t)
       /\ \A y \in Nat : Cubre(t, y) <=> Cubre(l, y) \/ EsDe(x, y)
  BY <1>3, <1>8, <1>12 DEF Unido
<1> DEFINE r(m) == UnirSiguiente(UnirSiguiente(AgregarOrdenado(l, x), m), m - 1)
           Bien(u) == /\ u \in Seq(Hueco) /\ Ordenada(u) /\ SinTocarse(u)
                      /\ \A y \in Nat : Cubre(u, y) <=> Cubre(l, y) \/ EsDe(x, y)
           Cierto(m) == Bien(r(m))
<1>15. Cierto(n)
  <2>1. r(n) = t
    BY <1>2, <1>7, <1>10, <1>11
  <2> HIDE DEF r
  <2>2. Bien(t)
    BY <1>13, <1>14
  <2> HIDE DEF Bien
  <2> QED BY <2>1, <2>2
<1>16. Cierto(q + 1)
  <2> HIDE DEF Cierto
  <2> QED BY <1>4, <1>15
<1> QED
  BY <1>16, Zenon DEF q

BytesDe(l) == {y \in Nat : Cubre(l, y)}

(* As many bytes as the limit says are added by a run that no other has.   *)
LEMMA Agranda ==
  ASSUME NEW A, IsFiniteSet(A), NEW b \in Nat, NEW n \in Nat,
         \A y \in b..(b + n - 1) : y \notin A
  PROVE  /\ IsFiniteSet(A \union (b..(b + n - 1)))
         /\ Cardinality(A \union (b..(b + n - 1))) = Cardinality(A) + n
<1>1. PICK c \in Int : c = b + n - 1
  OBVIOUS
<1>2. IsFiniteSet(b..c) /\ Cardinality(b..c) = n
  <2>1. IsFiniteSet(b..c) /\ Cardinality(b..c) = IF b > c THEN 0 ELSE c - b + 1
    BY FS_Interval
  <2>2. (IF b > c THEN 0 ELSE c - b + 1) = n
    BY <1>1
  <2> QED BY <2>1, <2>2
<1>3. A \intersect (b..c) = {}
  BY <1>1
<1>4. Cardinality({}) = 0
  BY FS_EmptySet
<1>5. /\ IsFiniteSet(A \union (b..c))
      /\ Cardinality(A \union (b..c)) =
           Cardinality(A) + Cardinality(b..c) - Cardinality(A \intersect (b..c))
  BY <1>2, FS_Union
<1>6. Cardinality(A) \in Nat
  BY FS_CardinalityType
<1>7. Cardinality(A \union (b..c)) = Cardinality(A) + n
  <2>1. Cardinality(A \intersect (b..c)) = 0
    BY <1>3, <1>4
  <2>2. PICK u : u = Cardinality(A \union (b..c))
    OBVIOUS
  <2>3. PICK v \in Nat : v = Cardinality(A)
    BY <1>6
  <2>4. u = v + n - 0
    BY <1>2, <1>5, <2>1, <2>2, <2>3, Zenon
  <2>5. u = v + n
    BY <2>4
  <2> QED BY <2>2, <2>3, <2>5
<1> QED
  BY <1>1, <1>5, <1>7

(* The bytes of one run.                                                   *)
LEMMA BytesDeUno ==
  ASSUME NEW e, e.base \in Nat, e.limite \in Nat
  PROVE  {y \in Nat : EsDe(e, y)} = e.base..(e.base + e.limite - 1)
  BY DEF EsDe, Fin

(* The sum of the limits of a list in order is how many bytes it has.      *)
LEMMA SumaBytes ==
  ASSUME NEW S, EsTramo(S), NEW l \in Seq(S), Ordenada(l)
  PROVE  IsFiniteSet(BytesDe(l)) /\ Suma(l) = Cardinality(BytesDe(l))
<1>1. Len(l) \in Nat /\ DOMAIN l = 1..Len(l)
  OBVIOUS
<1>2. \A i \in 1..Len(l) : /\ l[i] \in S /\ l[i].base \in Nat
                           /\ l[i].limite \in Nat
  BY <1>1 DEF EsTramo
<1>3. PICK h : /\ h[0] = 0
               /\ \A n \in 1..Len(l) : h[n] = h[n - 1] + l[n].limite
               /\ Suma(l) = h[Len(l)]
  BY <1>2, SumaPasos
<1> DEFINE N == Len(l)
           B(n) == {y \in Nat : \E i \in 1..n : EsDe(l[i], y)}
           P == {n \in 0..N : IsFiniteSet(B(n)) /\ h[n] = Cardinality(B(n))}
<1>4. 0 \in P
  <2>1. B(0) = {}
    OBVIOUS
  <2>2. IsFiniteSet({}) /\ Cardinality({}) = 0
    BY FS_EmptySet
  <2>3. 0 \in 0..N
    BY <1>1
  <2> QED BY <1>3, <2>1, <2>2, <2>3
<1>5. ASSUME NEW n \in 0..(N - 1), n \in P
      PROVE  n + 1 \in P
  <2>1. PICK m \in 1..N : m = n + 1 /\ m - 1 = n
    BY <1>1
  <2>2. PICK A : A = B(n)
    OBVIOUS
  <2>3. IsFiniteSet(A) /\ h[n] = Cardinality(A)
    BY <1>5, <2>2
  <2>4. PICK b \in Nat : b = l[m].base
    BY <1>2, <2>1
  <2>5. PICK t \in Nat : t = l[m].limite
    BY <1>2, <2>1
  <2>6. ASSUME NEW y \in b..(b + t - 1)
        PROVE  y \notin A
    <3> SUFFICES ASSUME y \in A PROVE FALSE
      OBVIOUS
    <3>1. PICK i \in 1..n : EsDe(l[i], y)
      BY <2>2
    <3>2. i \in 1..N /\ i < m
      BY <1>1, <2>1
    <3>3. Fin(l[i]) <= l[m].base
      BY <1>1, <3>2 DEF Ordenada
    <3>4. Fin(l[i]) \in Nat
      BY <1>1, <1>2, <3>2 DEF Fin
    <3> QED BY <2>4, <3>1, <3>3, <3>4 DEF EsDe
  <2>7. B(m) = A \union (b..(b + t - 1))
    <3>1. {y \in Nat : EsDe(l[m], y)} = b..(b + t - 1)
      BY <1>2, <2>1, <2>4, <2>5, BytesDeUno
    <3>2. 1..m = (1..n) \union {m}
      BY <2>1
    <3> QED BY <2>2, <3>1, <3>2
  <2>8. /\ IsFiniteSet(A \union (b..(b + t - 1)))
        /\ Cardinality(A \union (b..(b + t - 1))) = Cardinality(A) + t
    BY <2>3, <2>6, Agranda
  <2>9. h[m] = Cardinality(A) + t
    BY <1>3, <2>1, <2>3, <2>5
  <2> HIDE DEF B
  <2>10. IsFiniteSet(B(m)) /\ h[m] = Cardinality(B(m))
    BY <2>7, <2>8, <2>9, Zenon
  <2>11. m \in 0..N
    BY <1>1
  <2> QED BY <2>1, <2>10, <2>11
<1> HIDE DEF P
<1>6. \A n \in 0..N : n \in P
  BY <1>1, <1>4, <1>5, Induccion
<1>7. N \in P
  BY <1>1, <1>6
<1>8. B(N) = BytesDe(l)
  BY <1>1 DEF BytesDe, Cubre
<1> QED
  BY <1>3, <1>7, <1>8 DEF P

-----------------------------------------------------------------------------
(* The allocator in order, and the release of a segment.                   *)

Segmento == [pid : PIDS, id : IDS, base : Nat, limite : Nat]
Estados == [huecos : Seq(Hueco), segmentos : Seq(Segmento), libre : Int]

(* The allocator is in order: every byte above segment 0 is free or of one *)
(* segment, no two holes touch, and the free bytes have been counted.      *)
Reparte(h, g) ==
  \A y \in Nat : /\ ~(Cubre(h, y) /\ Cubre(g, y))
                 /\ Cubre(h, y) \/ Cubre(g, y)
                      <=> y \in TAM_SEGMENTO_0..(TAM_MEMORIA - 1)
Sana(m) ==
  /\ m \in Estados
  /\ Ordenada(m.huecos) /\ SinTocarse(m.huecos)
  /\ Ordenada(m.segmentos)
  /\ Reparte(m.huecos, m.segmentos)
  /\ m.libre = Cardinality(BytesDe(m.huecos))

(* Two segments in order do not begin at the same byte.                    *)
LEMMA BaseUnica ==
  ASSUME NEW S, EsTramo(S), NEW l \in Seq(S), Ordenada(l),
         NEW i \in DOMAIN l, NEW j \in DOMAIN l, l[i].base = l[j].base
  PROVE  i = j
<1>1. DOMAIN l = 1..Len(l) /\ Len(l) \in Nat
  OBVIOUS
<1>2. /\ l[i].base \in Nat /\ l[i].limite \in Nat
      /\ l[j].base \in Nat /\ l[j].limite \in Nat
  BY <1>1 DEF EsTramo
<1>3. l[i].limite > 0 /\ l[j].limite > 0
  BY DEF Ordenada
<1>4. ~(i < j)
  BY <1>2, <1>3 DEF Ordenada, Fin
<1>5. ~(j < i)
  BY <1>2, <1>3 DEF Ordenada, Fin
<1> QED BY <1>1, <1>4, <1>5

(* The search by base of borrar_segmento, 0 for none.                      *)
PorBase(l, b) == SelectInSeq(l, LAMBDA g : g.base = b)

(* borrar_segmento finds the segment by its base.                          *)
LEMMA Encontrado ==
  ASSUME NEW S, EsTramo(S), NEW l \in Seq(S), Ordenada(l),
         NEW k \in DOMAIN l, NEW b, b = l[k].base
  PROVE  PorBase(l, b) = k
<1> DEFINE I == {i \in 1..Len(l) : l[i].base = b}
<1>1. I = {k} /\ k \in Int
  BY BaseUnica
<1>2. Min(I) = k
  <2> HIDE DEF I
  <2>1. k \in I /\ I \in SUBSET Int /\ \A j \in I : k <= j
    BY <1>1
  <2> QED BY <2>1, MinimoEs
<1> QED
  BY <1>1, <1>2 DEF SelectInSeq, PorBase

(* A list in order stays so when a run leaves it, and loses its bytes.     *)
LEMMA Quitado ==
  ASSUME NEW S, EsTramo(S), NEW l \in Seq(S), Ordenada(l), NEW k \in DOMAIN l
  PROVE  /\ RemoveAt(l, k) \in Seq(S) /\ Ordenada(RemoveAt(l, k))
         /\ \A y \in Nat : Cubre(RemoveAt(l, k), y)
                             <=> Cubre(l, y) /\ ~EsDe(l[k], y)
<1> DEFINE t == RemoveAt(l, k)
           De(j) == IF j < k THEN j ELSE j + 1
<1>1. /\ Len(l) \in Nat /\ DOMAIN l = 1..Len(l)
      /\ \A i \in DOMAIN l : l[i].base \in Nat /\ l[i].limite \in Nat
  BY DEF EsTramo
<1>2. /\ t \in Seq(S) /\ DOMAIN t = 1..(Len(l) - 1)
      /\ \A j \in 1..(Len(l) - 1) : t[j] = IF j < k THEN l[j] ELSE l[j + 1]
  BY QuitarTipo
<1>3. \A j \in DOMAIN t : t[j] = l[De(j)] /\ De(j) \in DOMAIN l /\ De(j) # k
  BY <1>1, <1>2
<1> HIDE DEF t
<1>4. \A i, j \in DOMAIN t : i < j => De(i) < De(j)
  BY <1>1, <1>2
<1> HIDE DEF De
<1>5. Ordenada(t)
  BY <1>3, <1>4 DEF Ordenada
<1>6. ASSUME NEW y \in Nat, Cubre(t, y)
      PROVE  Cubre(l, y) /\ ~EsDe(l[k], y)
  <2>1. PICK j \in DOMAIN t : EsDe(t[j], y)
    BY <1>6 DEF Cubre
  <2>2. PICK i \in DOMAIN l : i = De(j) /\ i # k /\ EsDe(l[i], y)
    BY <1>3, <2>1
  <2>3. CASE i < k
    <3>1. Fin(l[i]) <= l[k].base
      BY <2>3 DEF Ordenada
    <3> QED BY <1>1, <2>2, <3>1 DEF EsDe, Fin, Cubre
  <2>4. CASE i > k
    <3>1. Fin(l[k]) <= l[i].base
      BY <2>4 DEF Ordenada
    <3> QED BY <1>1, <2>2, <3>1 DEF EsDe, Fin, Cubre
  <2> QED BY <1>1, <2>2, <2>3, <2>4
<1>7. ASSUME NEW y \in Nat, Cubre(l, y), ~EsDe(l[k], y)
      PROVE  Cubre(t, y)
  <2>1. PICK i \in DOMAIN l : EsDe(l[i], y) /\ i # k
    BY <1>7 DEF Cubre
  <2>2. PICK j \in DOMAIN t : De(j) = i
    <3>1. CASE i < k
      BY <1>1, <1>2, <3>1 DEF De
    <3>2. CASE i > k
      <4>1. i - 1 \in DOMAIN t /\ ~(i - 1 < k) /\ (i - 1) + 1 = i
        BY <1>1, <1>2, <3>2
      <4> QED BY <4>1 DEF De
    <3> QED BY <1>1, <2>1, <3>1, <3>2
  <2> QED BY <1>3, <2>1, <2>2 DEF Cubre
<1> QED
  BY <1>2, <1>5, <1>6, <1>7 DEF t

(* borrar_segmento of a segment that is there keeps the allocator in order. *)
LEMMA Borrado ==
  ASSUME NEW m, Sana(m), NEW k \in DOMAIN m.segmentos, NEW b, NEW t,
         b = m.segmentos[k].base, t = m.segmentos[k].limite
  PROVE  /\ Sana(BorrarSegmento(m, b, t))
         /\ BorrarSegmento(m, b, t).segmentos = RemoveAt(m.segmentos, k)
<1>1. PICK h : h = m.huecos
  OBVIOUS
<1>2. PICK g : g = m.segmentos
  OBVIOUS
<1>3. /\ h \in Seq(Hueco) /\ g \in Seq(Segmento) /\ m.libre \in Int
      /\ Ordenada(h) /\ SinTocarse(h) /\ Ordenada(g) /\ Reparte(h, g)
      /\ m.libre = Cardinality(BytesDe(h))
      /\ k \in DOMAIN g /\ b = g[k].base /\ t = g[k].limite
  BY <1>1, <1>2 DEF Sana, Estados
<1>4. EsTramo(Hueco) /\ EsTramo(Segmento)
  BY DEF EsTramo, Hueco, Segmento
<1>5. g[k] \in Segmento /\ b \in Nat /\ t \in Nat /\ t > 0
  BY <1>3, <1>4 DEF EsTramo, Ordenada
<1>6. PICK x \in Hueco : x = [base |-> b, limite |-> t]
  BY <1>5 DEF Hueco
<1>7. /\ x.base = b /\ x.limite = t /\ x.limite > 0
      /\ \A y : EsDe(x, y) <=> EsDe(g[k], y)
  BY <1>3, <1>5, <1>6 DEF EsDe, Fin
<1>8. \A y \in Nat : EsDe(x, y) => Cubre(g, y) /\ ~Cubre(h, y)
  BY <1>3, <1>7 DEF Cubre, Reparte
<1> DEFINE n == Cardinality({i \in DOMAIN h : h[i].base < x.base}) + 1
<1>9. PICK u : u = UnirSiguiente(UnirSiguiente(AgregarOrdenado(h, x), n), n - 1)
  OBVIOUS
<1>10. /\ u \in Seq(Hueco) /\ Ordenada(u) /\ SinTocarse(u)
       /\ \A y \in Nat : Cubre(u, y) <=> Cubre(h, y) \/ EsDe(x, y)
  <2>1. \A y \in Nat : ~(Cubre(h, y) /\ EsDe(x, y))
    BY <1>8
  <2> QED BY <1>3, <1>7, <1>9, <2>1, Liberacion
<1>11. PICK r : r = RemoveAt(g, k)
  OBVIOUS
<1>12. /\ r \in Seq(Segmento) /\ Ordenada(r)
       /\ \A y \in Nat : Cubre(r, y) <=> Cubre(g, y) /\ ~EsDe(g[k], y)
  BY <1>3, <1>4, <1>11, Quitado
<1>13. PICK d : d = BorrarSegmento(m, b, t)
  OBVIOUS
<1>14. d = [huecos |-> u, segmentos |-> r, libre |-> m.libre + t]
  <2>1. PorBase(g, b) = k
    BY <1>3, <1>4, Encontrado
  <2>2. n = Cardinality({i \in DOMAIN h : h[i].base < b}) + 1
    BY <1>7
  <2>3. d = [huecos    |-> UnirSiguiente(UnirSiguiente(AgregarOrdenado(h, x), n), n - 1),
             segmentos |-> RemoveAt(g, PorBase(g, b)),
             libre     |-> m.libre + t]
    BY <1>1, <1>2, <1>6, <1>13, <2>2, Zenon DEF BorrarSegmento, PorBase
  <2> HIDE DEF n
  <2> QED BY <1>9, <1>11, <2>1, <2>3
<1>15. Reparte(u, r)
  BY <1>3, <1>7, <1>8, <1>10, <1>12 DEF Reparte
<1>16. Cardinality(BytesDe(u)) = m.libre + t
  <2>1. PICK A : A = BytesDe(h)
    OBVIOUS
  <2>2. IsFiniteSet(A)
    BY <1>3, <1>4, <2>1, SumaBytes
  <2>3. {y \in Nat : EsDe(x, y)} = b..(b + t - 1)
    BY <1>5, <1>7, BytesDeUno
  <2>4. BytesDe(u) = A \union (b..(b + t - 1))
    BY <1>10, <2>1, <2>3 DEF BytesDe
  <2>5. \A y \in b..(b + t - 1) : y \notin A
    BY <1>8, <2>1, <2>3 DEF BytesDe
  <2>6. Cardinality(A \union (b..(b + t - 1))) = Cardinality(A) + t
    BY <1>5, <2>2, <2>5, Agranda
  <2> QED BY <1>3, <2>1, <2>4, <2>6
<1>17. /\ d \in Estados /\ d.huecos = u /\ d.segmentos = r
       /\ d.libre = m.libre + t
  BY <1>3, <1>5, <1>10, <1>12, <1>14 DEF Estados
<1>18. Sana(d)
  BY <1>10, <1>12, <1>15, <1>16, <1>17 DEF Sana
<1> QED
  BY <1>2, <1>11, <1>13, <1>17, <1>18

-----------------------------------------------------------------------------
(* The searches.                                                           *)

(* WORST goes through the holes and keeps the greatest it has met.         *)
LEMMA WorstPasos ==
  ASSUME NEW tam, LISTA_ESPACIOS_LIBRES \in Seq(Hueco),
         Len(LISTA_ESPACIOS_LIBRES) > 0
  PROVE  \E h : /\ h[0] = 1
                /\ \A n \in 1..Len(LISTA_ESPACIOS_LIBRES) :
                     h[n] = IF /\ n > 1
                               /\ LISTA_ESPACIOS_LIBRES[n].limite
                                    > LISTA_ESPACIOS_LIBRES[h[n - 1]].limite
                              THEN n ELSE h[n - 1]
                /\ BuscarWORST(tam) =
                     IF Entra(h[Len(LISTA_ESPACIOS_LIBRES)], tam)
                       THEN h[Len(LISTA_ESPACIOS_LIBRES)] ELSE 0
<1> DEFINE l == LISTA_ESPACIOS_LIBRES
           N == Len(l)
           op(k, i) == IF i > 1 /\ l[i].limite > l[k].limite THEN i ELSE k
           paso == [x \in (1..N) \X (1..N) |-> op(x[2], x[1])]
           Sigue(it, s) == IF s = {} THEN 1 ELSE op(it[s \ {Max(s)}], Max(s))
           SigueD(it, s) == IF s = {} THEN 1
                            ELSE op(it[s \ {Max(s)}], [i \in DOMAIN l |-> i][Max(s)])
           D == DOMAIN [i \in DOMAIN l |-> i]
           it == CHOOSE it : it = [s \in SUBSET D |-> SigueD(it, s)]
           h == [n \in 0..N |-> it[1..n]]
<1>1. N \in Nat /\ DOMAIN l = 1..N /\ D = 1..N /\ N > 0
  OBVIOUS
<1>2. BuscarWORST(tam) = IF Entra(it[D], tam) THEN it[D] ELSE 0
  BY DEF BuscarWORST, Candidato, FoldLeftDomain, FoldLeft, MapThenFoldSet
<1>3. ASSUME NEW n \in 1..N, NEW t \in 1..N
      PROVE  paso[<<n, t>>] = op(t, n) /\ op(t, n) \in 1..N
  OBVIOUS
<1> HIDE DEF paso, op
<1>4. \A s \in SUBSET (1..N) : it[s] = Sigue(it, s)
  <2>1. 1 \in 1..N /\ SePliega(N, 1..N, paso)
    BY <1>1, <1>3 DEF SePliega
  <2>2. PICK jt : Pliegue(jt, N, 1..N, 1, paso)
    <3> HIDE DEF N, it, h, l
    <3> QED BY <1>1, <2>1, PliegueExiste
  <2>3. ASSUME NEW s \in SUBSET (1..N)
        PROVE  jt[s] = SigueD(jt, s) /\ \A kt : SigueD(kt, s) = Sigue(kt, s)
    <3>1. CASE s = {}
      BY <2>2, <3>1 DEF Pliegue, PasoDePliegue
    <3>2. CASE s # {}
      <4>1. Max(s) \in s
        <5> HIDE DEF N, it, h, l
        <5> QED BY <1>1, <3>2, MaximoDe
      <4>2. [i \in DOMAIN l |-> i][Max(s)] = Max(s)
        BY <1>1, <4>1
      <4>3. jt[s \ {Max(s)}] \in 1..N /\ Max(s) \in 1..N
        BY <2>2, <4>1 DEF Pliegue
      <4>4. jt[s] = paso[<<Max(s), jt[s \ {Max(s)}]>>]
        BY <2>2, <3>2 DEF Pliegue, PasoDePliegue
      <4>5. jt[s] = op(jt[s \ {Max(s)}], Max(s))
        <5> HIDE DEF N
        <5> QED BY <1>3, <4>3, <4>4
      <4>6. jt[s] = SigueD(jt, s)
        BY <3>2, <4>2, <4>5
      <4>7. \A kt : SigueD(kt, s) = Sigue(kt, s)
        BY <3>2, <4>2
      <4> QED
        BY <4>6, <4>7
    <3> QED BY <3>1, <3>2
  <2>4. jt = [s \in SUBSET D |-> SigueD(jt, s)]
    BY <1>1, <2>2, <2>3 DEF Pliegue
  <2>5. it = [s \in SUBSET D |-> SigueD(it, s)]
    <3> HIDE DEF SigueD, D
    <3> QED BY <2>4
  <2> HIDE DEF it, SigueD, Sigue
  <2> QED
    BY <1>1, <2>3, <2>5
<1> HIDE DEF it
<1>5. h[0] = 1
  <2>1. 1..0 = {} /\ {} \in SUBSET (1..N) /\ 0 \in 0..N
    BY <1>1
  <2> QED BY <2>1, <1>4
<1>6. ASSUME NEW n \in 1..N
      PROVE  h[n] = op(h[n - 1], n)
  <2>1. 1..n # {} /\ Max(1..n) = n /\ (1..n) \ {n} = 1..(n - 1)
    BY <1>1, Hasta
  <2>2. 1..n \in SUBSET (1..N)
    BY <1>1
  <2>3. it[1..n] = op(it[1..(n - 1)], n)
    BY <1>4, <2>1, <2>2
  <2> QED
    BY <1>1, <2>3
<1>7. h[N] = it[D]
  BY <1>1
<1>8. BuscarWORST(tam) = IF Entra(h[N], tam) THEN h[N] ELSE 0
  BY <1>2, <1>7
<1>9. \A n \in 1..N : h[n] = IF n > 1 /\ l[n].limite > l[h[n - 1]].limite
                             THEN n ELSE h[n - 1]
  BY <1>6 DEF op
<1> HIDE DEF h
<1> QED
  BY <1>5, <1>8, <1>9

(* BEST goes through the holes and keeps one that is big enough.           *)
LEMMA BestPasos ==
  ASSUME NEW tam, LISTA_ESPACIOS_LIBRES \in Seq(Hueco),
         Len(LISTA_ESPACIOS_LIBRES) > 0
  PROVE  \E h : /\ h[0] = 1
                /\ \A n \in 1..Len(LISTA_ESPACIOS_LIBRES) :
                     h[n] = IF /\ n > 1
                               /\ Entra(n, tam) /\ ~Entra(h[n - 1], tam)
                              THEN n ELSE h[n - 1]
                /\ BuscarBEST(tam) =
                     IF Entra(h[Len(LISTA_ESPACIOS_LIBRES)], tam)
                       THEN h[Len(LISTA_ESPACIOS_LIBRES)] ELSE 0
<1> DEFINE l == LISTA_ESPACIOS_LIBRES
           N == Len(l)
           op(k, i) == IF i > 1 /\ Entra(i, tam) /\ ~Entra(k, tam) THEN i ELSE k
           paso == [x \in (1..N) \X (1..N) |-> op(x[2], x[1])]
           Sigue(it, s) == IF s = {} THEN 1 ELSE op(it[s \ {Max(s)}], Max(s))
           SigueD(it, s) == IF s = {} THEN 1
                            ELSE op(it[s \ {Max(s)}], [i \in DOMAIN l |-> i][Max(s)])
           D == DOMAIN [i \in DOMAIN l |-> i]
           it == CHOOSE it : it = [s \in SUBSET D |-> SigueD(it, s)]
           h == [n \in 0..N |-> it[1..n]]
<1>1. N \in Nat /\ DOMAIN l = 1..N /\ D = 1..N /\ N > 0
  OBVIOUS
<1>2. BuscarBEST(tam) = IF Entra(it[D], tam) THEN it[D] ELSE 0
  BY DEF BuscarBEST, Candidato, FoldLeftDomain, FoldLeft, MapThenFoldSet
<1>3. ASSUME NEW n \in 1..N, NEW t \in 1..N
      PROVE  paso[<<n, t>>] = op(t, n) /\ op(t, n) \in 1..N
  OBVIOUS
<1> HIDE DEF paso, op
<1>4. \A s \in SUBSET (1..N) : it[s] = Sigue(it, s)
  <2>1. 1 \in 1..N /\ SePliega(N, 1..N, paso)
    BY <1>1, <1>3 DEF SePliega
  <2>2. PICK jt : Pliegue(jt, N, 1..N, 1, paso)
    <3> HIDE DEF N, it, h, l
    <3> QED BY <1>1, <2>1, PliegueExiste
  <2>3. ASSUME NEW s \in SUBSET (1..N)
        PROVE  jt[s] = SigueD(jt, s) /\ \A kt : SigueD(kt, s) = Sigue(kt, s)
    <3>1. CASE s = {}
      BY <2>2, <3>1 DEF Pliegue, PasoDePliegue
    <3>2. CASE s # {}
      <4>1. Max(s) \in s
        <5> HIDE DEF N, it, h, l
        <5> QED BY <1>1, <3>2, MaximoDe
      <4>2. [i \in DOMAIN l |-> i][Max(s)] = Max(s)
        BY <1>1, <4>1
      <4>3. jt[s \ {Max(s)}] \in 1..N /\ Max(s) \in 1..N
        BY <2>2, <4>1 DEF Pliegue
      <4>4. jt[s] = paso[<<Max(s), jt[s \ {Max(s)}]>>]
        BY <2>2, <3>2 DEF Pliegue, PasoDePliegue
      <4>5. jt[s] = op(jt[s \ {Max(s)}], Max(s))
        <5> HIDE DEF N
        <5> QED BY <1>3, <4>3, <4>4
      <4>6. jt[s] = SigueD(jt, s)
        BY <3>2, <4>2, <4>5
      <4>7. \A kt : SigueD(kt, s) = Sigue(kt, s)
        BY <3>2, <4>2
      <4> QED
        BY <4>6, <4>7
    <3> QED BY <3>1, <3>2
  <2>4. jt = [s \in SUBSET D |-> SigueD(jt, s)]
    BY <1>1, <2>2, <2>3 DEF Pliegue
  <2>5. it = [s \in SUBSET D |-> SigueD(it, s)]
    <3> HIDE DEF SigueD, D
    <3> QED BY <2>4
  <2> HIDE DEF it, SigueD, Sigue
  <2> QED
    BY <1>1, <2>3, <2>5
<1> HIDE DEF it
<1>5. h[0] = 1
  <2>1. 1..0 = {} /\ {} \in SUBSET (1..N) /\ 0 \in 0..N
    BY <1>1
  <2> QED BY <2>1, <1>4
<1>6. ASSUME NEW n \in 1..N
      PROVE  h[n] = op(h[n - 1], n)
  <2>1. 1..n # {} /\ Max(1..n) = n /\ (1..n) \ {n} = 1..(n - 1)
    BY <1>1, Hasta
  <2>2. 1..n \in SUBSET (1..N)
    BY <1>1
  <2>3. it[1..n] = op(it[1..(n - 1)], n)
    BY <1>4, <2>1, <2>2
  <2> QED
    BY <1>1, <2>3
<1>7. h[N] = it[D]
  BY <1>1
<1>8. BuscarBEST(tam) = IF Entra(h[N], tam) THEN h[N] ELSE 0
  BY <1>2, <1>7
<1>9. \A n \in 1..N : h[n] = IF n > 1 /\ Entra(n, tam) /\ ~Entra(h[n - 1], tam)
                             THEN n ELSE h[n - 1]
  BY <1>6 DEF op
<1> HIDE DEF h
<1> QED
  BY <1>5, <1>8, <1>9

(* Min of a set of positions is one of them.                               *)
LEMMA MinimoDe ==
  ASSUME NEW N \in Nat, NEW s \in SUBSET (1..N), s # {}
  PROVE  Min(s) \in s /\ \A k \in s : Min(s) <= k
<1>1. PICK m \in s : \A k \in s : m <= k
  BY Minimo
<1>2. Min(s) = m
  <2>1. s \in SUBSET Int
    OBVIOUS
  <2> QED BY <1>1, <2>1, MinimoEs
<1> QED BY <1>1, <1>2

(* The answer of buscar_espacio_libre is a hole that will do, or 0 when    *)
(* none will.                                                              *)
Acierta(i, tam) ==
  /\ i \in 0..Len(LISTA_ESPACIOS_LIBRES)
  /\ i # 0 => Entra(i, tam)
  /\ i = 0 => \A k \in DOMAIN LISTA_ESPACIOS_LIBRES : ~Entra(k, tam)
Mayor(i) == \A k \in DOMAIN LISTA_ESPACIOS_LIBRES :
              LISTA_ESPACIOS_LIBRES[k].limite <= LISTA_ESPACIOS_LIBRES[i].limite

(* FIRST stops at the first hole that will do.                             *)
LEMMA FirstAcierta ==
  ASSUME NEW tam, LISTA_ESPACIOS_LIBRES \in Seq(Hueco)
  PROVE  Acierta(BuscarFIRST(tam), tam)
<1> DEFINE l == LISTA_ESPACIOS_LIBRES
           I == {i \in 1..Len(l) : l[i].limite >= tam}
<1>1. Len(l) \in Nat /\ DOMAIN l = 1..Len(l)
  OBVIOUS
<1>2. BuscarFIRST(tam) = IF I # {} THEN Min(I) ELSE 0
  BY DEF BuscarFIRST, SelectInSeq
<1>3. ASSUME I # {} PROVE Min(I) \in I
  <2>1. I \in SUBSET (1..Len(l))
    OBVIOUS
  <2> HIDE DEF I
  <2> QED BY <1>1, <1>3, <2>1, MinimoDe
<1> QED
  BY <1>1, <1>2, <1>3 DEF Acierta, Entra

(* WORST answers with a greatest hole, if that one will do.                *)
LEMMA WorstAcierta ==
  ASSUME NEW tam \in Nat, LISTA_ESPACIOS_LIBRES \in Seq(Hueco),
         Len(LISTA_ESPACIOS_LIBRES) > 0
  PROVE  /\ Acierta(BuscarWORST(tam), tam)
         /\ BuscarWORST(tam) # 0 => Mayor(BuscarWORST(tam))
<1> DEFINE l == LISTA_ESPACIOS_LIBRES
           N == Len(l)
<1>1. N \in Nat /\ DOMAIN l = 1..N /\ N > 0
  OBVIOUS
<1>2. \A i \in 1..N : l[i].limite \in Nat
  <2>1. \A i \in 1..N : l[i] \in Hueco
    BY <1>1
  <2>2. \A e \in Hueco : e.limite \in Nat
    BY DEF Hueco
  <2> QED BY <2>1, <2>2
<1>3. PICK h : /\ h[0] = 1
               /\ \A n \in 1..N : h[n] = IF n > 1 /\ l[n].limite > l[h[n - 1]].limite
                                           THEN n ELSE h[n - 1]
               /\ BuscarWORST(tam) = IF Entra(h[N], tam) THEN h[N] ELSE 0
  BY WorstPasos
<1> DEFINE P == {n \in 0..N : /\ h[n] \in 1..N
                              /\ \A i \in 1..n : l[i].limite <= l[h[n]].limite
                              /\ n < 2 => h[n] = 1}
<1> HIDE DEF N, l
<1>4. 0 \in P
  BY <1>1, <1>3
<1>5. ASSUME NEW n \in 0..(N - 1), n \in P
      PROVE  n + 1 \in P
  <2>1. PICK m \in 1..N : m = n + 1 /\ m - 1 = n
    BY <1>1
  <2>2. h[m] = IF m > 1 /\ l[m].limite > l[h[n]].limite THEN m ELSE h[n]
    BY <1>3, <2>1
  <2>3. /\ h[n] \in 1..N
        /\ \A i \in 1..n : l[i].limite <= l[h[n]].limite
        /\ n < 2 => h[n] = 1
    BY <1>5
  <2>4. h[m] \in 1..N /\ (m < 2 => h[m] = 1)
    <3>1. h[m] \in 1..N
      BY <2>2, <2>3
    <3>2. ASSUME m < 2 PROVE h[m] = 1
      <4>1. n < 2 /\ ~(m > 1)
        BY <2>1, <3>2
      <4>2. h[m] = h[n]
        BY <2>2, <4>1
      <4>3. h[n] = 1
        BY <2>3, <4>1
      <4> QED BY <4>2, <4>3
    <3> QED BY <3>1, <3>2
  <2>5. ASSUME NEW i \in 1..m
        PROVE  l[i].limite <= l[h[m]].limite
    <3>1. CASE m = 1
      BY <1>1, <1>2, <2>4, <3>1
    <3>2. CASE m > 1 /\ l[m].limite > l[h[n]].limite
      <4>1. h[m] = m
        BY <2>2, <3>2
      <4>2. CASE i = m
        BY <1>2, <2>1, <4>1, <4>2
      <4>3. CASE i # m
        <5>1. i \in 1..n /\ i \in 1..N
          BY <1>1, <2>1, <4>3
        <5> QED BY <1>2, <2>1, <2>3, <3>2, <4>1, <5>1
      <4> QED BY <4>2, <4>3
    <3>3. CASE m > 1 /\ ~(l[m].limite > l[h[n]].limite)
      <4>1. h[m] = h[n]
        BY <2>2, <3>3
      <4>2. CASE i = m
        BY <1>2, <2>1, <2>3, <3>3, <4>1, <4>2
      <4>3. CASE i # m
        <5>1. i \in 1..n
          BY <2>1, <4>3
        <5> QED BY <2>3, <4>1, <5>1
      <4> QED BY <4>2, <4>3
    <3> QED BY <2>1, <3>1, <3>2, <3>3
  <2>6. m \in P
    BY <1>1, <2>4, <2>5
  <2> QED BY <2>1, <2>6
<1> HIDE DEF P
<1>6. \A n \in 0..N : n \in P
  BY <1>1, <1>4, <1>5, Induccion
<1>7. PICK c \in 1..N : c = h[N] /\ \A i \in 1..N : l[i].limite <= l[c].limite
  <2>1. N \in P
    BY <1>1, <1>6
  <2> QED BY <2>1 DEF P
<1>8. BuscarWORST(tam) = IF l[c].limite >= tam THEN c ELSE 0
  BY <1>3, <1>7 DEF Entra, l
<1> QED
  BY <1>1, <1>2, <1>7, <1>8 DEF Acierta, Mayor, Entra, l, N

(* BEST answers with a hole that will do, if there is one.                 *)
LEMMA BestAcierta ==
  ASSUME NEW tam \in Nat, LISTA_ESPACIOS_LIBRES \in Seq(Hueco),
         Len(LISTA_ESPACIOS_LIBRES) > 0
  PROVE  Acierta(BuscarBEST(tam), tam)
<1> DEFINE N == Len(LISTA_ESPACIOS_LIBRES)
<1>1. N \in Nat /\ DOMAIN LISTA_ESPACIOS_LIBRES = 1..N /\ N > 0
  OBVIOUS
<1>2. PICK h : /\ h[0] = 1
               /\ \A n \in 1..N : h[n] = IF n > 1 /\ Entra(n, tam) /\ ~Entra(h[n - 1], tam)
                                           THEN n ELSE h[n - 1]
               /\ BuscarBEST(tam) = IF Entra(h[N], tam) THEN h[N] ELSE 0
  BY BestPasos
<1> DEFINE P == {n \in 0..N : /\ h[n] \in 1..N
                              /\ \A i \in 1..n : Entra(i, tam) => Entra(h[n], tam)
                              /\ n < 2 => h[n] = 1}
<1> HIDE DEF N
<1>3. 0 \in P
  BY <1>1, <1>2
<1>4. ASSUME NEW n \in 0..(N - 1), n \in P
      PROVE  n + 1 \in P
  <2>1. PICK m \in 1..N : m = n + 1 /\ m - 1 = n
    BY <1>1
  <2>2. h[m] = IF m > 1 /\ Entra(m, tam) /\ ~Entra(h[n], tam) THEN m ELSE h[n]
    BY <1>2, <2>1
  <2>3. h[n] \in 1..N /\ (\A i \in 1..n : Entra(i, tam) => Entra(h[n], tam))
        /\ (n < 2 => h[n] = 1)
    BY <1>4
  <2>4. h[m] \in 1..N /\ (m < 2 => h[m] = 1)
    <3>1. h[m] \in 1..N
      BY <2>2, <2>3
    <3>2. ASSUME m < 2 PROVE h[m] = 1
      <4>1. n < 2 /\ ~(m > 1)
        BY <2>1, <3>2
      <4> QED BY <2>2, <2>3, <4>1
    <3> QED BY <3>1, <3>2
  <2>5. ASSUME NEW i \in 1..m, Entra(i, tam)
        PROVE  Entra(h[m], tam)
    <3>1. CASE m = 1
      <4>1. i = 1
        BY <3>1
      <4> QED BY <2>4, <2>5, <3>1, <4>1
    <3>2. CASE i = m /\ m > 1
      BY <2>2, <2>5, <3>2
    <3>3. CASE i # m /\ m > 1
      <4>1. i \in 1..n
        BY <2>1, <3>3
      <4> QED BY <2>2, <2>3, <2>5, <4>1
    <3> QED BY <2>1, <3>1, <3>2, <3>3
  <2>6. m \in P
    BY <1>1, <2>4, <2>5
  <2> QED BY <2>1, <2>6
<1> HIDE DEF P
<1>5. \A n \in 0..N : n \in P
  BY <1>1, <1>3, <1>4, Induccion
<1>6. PICK c \in 1..N : c = h[N]
                        /\ \A i \in 1..N : Entra(i, tam) => Entra(c, tam)
  <2>1. N \in P
    BY <1>1, <1>5
  <2> QED BY <2>1 DEF P
<1>7. BuscarBEST(tam) = IF Entra(c, tam) THEN c ELSE 0
  BY <1>2, <1>6
<1> QED
  BY <1>1, <1>6, <1>7 DEF Acierta, N

(* buscar_espacio_libre, whatever the configuration.                       *)
LEMMA BusquedaAcierta ==
  ASSUME NEW tam \in Nat, LISTA_ESPACIOS_LIBRES \in Seq(Hueco),
         Len(LISTA_ESPACIOS_LIBRES) > 0, ALGORITMO_ASIGNACION \in ALGORITMOS
  PROVE  /\ Acierta(BuscarEspacio(tam), tam)
         /\ (ALGORITMO_ASIGNACION = "WORST" /\ BuscarEspacio(tam) # 0)
              => Mayor(BuscarEspacio(tam))
<1>1. ALGORITMO_ASIGNACION \in {"FIRST", "BEST", "WORST"}
  BY SupuestoMemoria
<1>2. CASE ALGORITMO_ASIGNACION = "FIRST"
  <2>1. BuscarEspacio(tam) = BuscarFIRST(tam)
    BY <1>2 DEF BuscarEspacio
  <2> QED BY <1>2, <2>1, FirstAcierta
<1>3. CASE ALGORITMO_ASIGNACION = "WORST"
  <2>1. BuscarEspacio(tam) = BuscarWORST(tam)
    BY <1>3 DEF BuscarEspacio
  <2> QED BY <1>3, <2>1, WorstAcierta
<1>4. CASE ALGORITMO_ASIGNACION = "BEST"
  <2>1. BuscarEspacio(tam) = BuscarBEST(tam)
    BY <1>4 DEF BuscarEspacio
  <2> QED BY <1>4, <2>1, BestAcierta
<1> QED BY <1>1, <1>2, <1>3, <1>4

-----------------------------------------------------------------------------
(* The creation of a segment.                                              *)

(* crear_segmento takes the bytes of the new segment from the beginning of *)
(* a hole, which leaves the list when nothing of it remains.               *)
Recorte(l, i, tam) ==
  IF l[i].limite = tam
    THEN RemoveAt(l, i)
    ELSE [l EXCEPT ![i] = [base   |-> l[i].base + tam,
                           limite |-> l[i].limite - tam]]

(* The holes stay apart, and lose those bytes.                             *)
LEMMA Recortado ==
  ASSUME NEW l \in Seq(Hueco), Ordenada(l), SinTocarse(l), NEW i \in DOMAIN l,
         NEW x, x.base = l[i].base, x.limite \in Nat, x.limite > 0,
         x.limite <= l[i].limite
  PROVE  /\ Recorte(l, i, x.limite) \in Seq(Hueco)
         /\ Ordenada(Recorte(l, i, x.limite))
         /\ SinTocarse(Recorte(l, i, x.limite))
         /\ \A y \in Nat : Cubre(Recorte(l, i, x.limite), y)
                             <=> Cubre(l, y) /\ ~EsDe(x, y)
<1>1. Len(l) \in Nat /\ DOMAIN l = 1..Len(l) /\ EsTramo(Hueco)
  BY DEF EsTramo, Hueco
<1>2. \A j \in 1..Len(l) : /\ l[j] \in Hueco /\ l[j].base \in Nat
                           /\ l[j].limite \in Nat /\ l[j].limite > 0
  BY <1>1 DEF EsTramo, Ordenada
<1>3. PICK tam \in Nat : tam = x.limite
  OBVIOUS
<1>4. PICK t : t = Recorte(l, i, tam)
  OBVIOUS
<1>5. CASE l[i].limite = tam
  <2>1. t = RemoveAt(l, i)
    BY <1>4, <1>5 DEF Recorte
  <2>2. /\ t \in Seq(Hueco) /\ Ordenada(t)
        /\ \A y \in Nat : Cubre(t, y) <=> Cubre(l, y) /\ ~EsDe(l[i], y)
    BY <1>1, <2>1, Quitado
  <2>3. \A y \in Nat : EsDe(x, y) <=> EsDe(l[i], y)
    BY <1>3, <1>5 DEF EsDe, Fin
  <2>4. /\ Len(t) = Len(l) - 1
        /\ \A j \in 1..(Len(l) - 1) : t[j] = IF j < i THEN l[j] ELSE l[j + 1]
    BY <2>1, QuitarTipo
  <2>5. ASSUME NEW j \in 1..(Len(t) - 1), Contiguos(t[j], t[j + 1])
        PROVE  FALSE
    <3>1. /\ j \in 1..Len(l) /\ j + 1 \in 1..Len(l) /\ j + 2 \in 1..Len(l)
          /\ j \in 1..(Len(l) - 1) /\ j + 1 \in 1..(Len(l) - 1)
          /\ (j + 1) + 1 = j + 2
      BY <1>1, <2>4
    <3>2. CASE j + 1 < i
      <4>1. t[j] = l[j] /\ t[j + 1] = l[j + 1]
        BY <1>1, <2>4, <3>1, <3>2
      <4> QED BY <2>5, <3>1, <4>1 DEF SinTocarse
    <3>3. CASE j >= i
      <4>1. t[j] = l[j + 1] /\ t[j + 1] = l[j + 2]
        BY <1>1, <2>4, <3>1, <3>3
      <4> QED BY <2>5, <3>1, <4>1 DEF SinTocarse
    <3>4. CASE j < i /\ j + 1 >= i
      <4>1. t[j] = l[j] /\ t[j + 1] = l[j + 2] /\ i = j + 1
        BY <1>1, <2>4, <3>1, <3>4
      <4>2. Fin(l[j]) <= l[j + 1].base /\ Fin(l[j + 1]) <= l[j + 2].base
        BY <1>1, <3>1 DEF Ordenada
      <4>3. Fin(l[j]) = l[j + 2].base
        BY <2>5, <4>1 DEF Contiguos, Fin
      <4>4. l[j + 1].base < Fin(l[j + 1]) /\ l[j + 1].base \in Nat
            /\ l[j + 2].base \in Nat /\ Fin(l[j + 1]) \in Nat
        BY <1>2, <3>1 DEF Fin
      <4> QED BY ONLY <4>2, <4>3, <4>4
    <3> QED BY <1>1, <3>1, <3>2, <3>3, <3>4
  <2> QED
    BY <1>3, <1>4, <2>2, <2>3, <2>5 DEF SinTocarse
<1>6. CASE l[i].limite # tam
  <2>1. PICK e \in Hueco : /\ e = [base   |-> l[i].base + tam,
                                   limite |-> l[i].limite - tam]
                           /\ e.base = l[i].base + tam
                           /\ e.limite = l[i].limite - tam
    <3>1. PICK b \in Nat : b = l[i].base + tam
      BY <1>1, <1>2, <1>3
    <3>2. PICK c \in Nat : c = l[i].limite - tam
      BY <1>1, <1>2, <1>3
    <3>3. [base |-> b, limite |-> c] \in Hueco
      BY DEF Hueco
    <3> QED BY <3>1, <3>2, <3>3
  <2>2. t = [l EXCEPT ![i] = e]
    BY <1>4, <1>6, <2>1 DEF Recorte
  <2>3. /\ t \in Seq(Hueco) /\ Len(t) = Len(l) /\ DOMAIN t = 1..Len(l)
        /\ t[i] = e
        /\ \A j \in 1..Len(l) : j # i => t[j] = l[j]
    BY <1>1, <2>2
  <2>4. \A j \in 1..Len(l) : /\ Fin(t[j]) = Fin(l[j]) /\ t[j].base >= l[j].base
                             /\ j = i => t[j].base = l[i].base + tam
                             /\ j # i => t[j].base = l[j].base
                             /\ t[j].base \in Nat /\ Fin(t[j]) \in Nat
                             /\ t[j].limite > 0
    <3> SUFFICES ASSUME NEW j \in 1..Len(l)
                 PROVE  /\ Fin(t[j]) = Fin(l[j]) /\ t[j].base >= l[j].base
                        /\ j = i => t[j].base = l[i].base + tam
                        /\ j # i => t[j].base = l[j].base
                        /\ t[j].base \in Nat /\ Fin(t[j]) \in Nat
                        /\ t[j].limite > 0
      OBVIOUS
    <3>1. CASE j = i
      <4>1. PICK b, z \in Nat : /\ b = l[i].base /\ z = l[i].limite /\ b \in Nat
                               /\ tam < z
        BY <1>2, <1>3, <1>6, <3>1
      <4>2. t[j].base = b + tam /\ t[j].limite = z - tam
        BY <2>1, <2>3, <3>1, <4>1
      <4>3. Fin(t[j]) = b + z /\ Fin(l[j]) = b + z
        BY <3>1, <4>1, <4>2 DEF Fin
      <4> QED BY <3>1, <4>1, <4>2, <4>3
    <3>2. CASE j # i
      BY <1>2, <2>3, <3>2 DEF Fin
    <3> QED BY <3>1, <3>2
  <2>5. Ordenada(t)
    <3>1. ASSUME NEW j \in 1..Len(l), NEW k \in 1..Len(l), j < k
          PROVE  Fin(t[j]) <= t[k].base
      <4>1. Fin(l[j]) <= l[k].base
        BY <1>1, <3>1 DEF Ordenada
      <4>2. Fin(t[j]) = Fin(l[j]) /\ t[k].base >= l[k].base
        BY <2>4
      <4>3. Fin(t[j]) \in Nat /\ t[k].base \in Nat /\ l[k].base \in Nat
        BY <1>2, <2>4
      <4> QED BY ONLY <4>1, <4>2, <4>3
    <3> QED BY <2>3, <2>4, <3>1 DEF Ordenada
  <2>6. ASSUME NEW j \in 1..(Len(t) - 1), Contiguos(t[j], t[j + 1])
        PROVE  FALSE
    <3>1. j \in 1..Len(l) /\ j + 1 \in 1..Len(l) /\ j \in 1..(Len(l) - 1)
      BY <1>1, <2>3
    <3>2. Fin(l[j]) = t[j + 1].base
      BY <2>4, <2>6, <3>1 DEF Contiguos, Fin
    <3>3. CASE j + 1 = i
      <4>1. Fin(l[j]) <= l[j + 1].base
        BY <1>1, <3>1 DEF Ordenada
      <4> QED BY <1>2, <1>3, <2>4, <3>1, <3>2, <3>3, <4>1
    <3>4. CASE j + 1 # i
      BY <2>4, <3>1, <3>2, <3>4 DEF SinTocarse, Contiguos, Fin
    <3> QED BY <3>3, <3>4
  <2>7. ASSUME NEW y \in Nat, NEW j \in 1..Len(l)
        PROVE  EsDe(t[j], y) <=> EsDe(l[j], y) /\ ~EsDe(x, y)
    <3>1. Fin(x) = l[i].base + tam
      BY <1>3 DEF Fin
    <3>2. CASE j = i
      BY <1>1, <1>2, <1>3, <2>4, <3>1, <3>2 DEF EsDe, Fin
    <3>3. CASE j < i
      <4>1. Fin(l[j]) <= l[i].base
        BY <1>1, <3>3 DEF Ordenada
      <4>2. ~(EsDe(l[j], y) /\ EsDe(x, y))
        <5>1. Fin(l[j]) \in Nat
          BY <1>2 DEF Fin
        <5> QED BY <1>1, <1>2, <4>1, <5>1 DEF EsDe
      <4>3. t[j] = l[j]
        BY <2>3, <3>3
      <4> QED BY <4>2, <4>3
    <3>4. CASE j > i
      <4>1. Fin(l[i]) <= l[j].base /\ t[j] = l[j]
        BY <1>1, <2>3, <3>4 DEF Ordenada
      <4>2. l[i].base + tam <= l[j].base
        BY <1>1, <1>2, <1>3, <4>1 DEF Fin
      <4> QED BY <1>1, <1>2, <3>1, <4>1, <4>2 DEF EsDe
    <3> QED BY <1>1, <3>2, <3>3, <3>4
  <2>8. \A y \in Nat : Cubre(t, y) <=> Cubre(l, y) /\ ~EsDe(x, y)
    BY <1>1, <2>3, <2>7 DEF Cubre
  <2> QED
    BY <1>3, <1>4, <2>3, <2>5, <2>6, <2>8 DEF SinTocarse
<1> QED
  BY <1>5, <1>6

(* The allocator with the new segment x in place of the beginning of hole i. *)
ConSegmento(m, i, x) ==
  [huecos    |-> Recorte(m.huecos, i, x.limite),
   segmentos |-> AgregarOrdenado(m.segmentos, x),
   libre     |-> m.libre - x.limite]

(* crear_segmento keeps the allocator in order.                            *)
LEMMA Creado ==
  ASSUME NEW m, Sana(m), NEW i \in DOMAIN m.huecos, NEW x \in Segmento,
         x.base = m.huecos[i].base, x.limite > 0,
         x.limite <= m.huecos[i].limite
  PROVE  Sana(ConSegmento(m, i, x))
<1>1. PICK h : h = m.huecos
  OBVIOUS
<1>2. PICK g : g = m.segmentos
  OBVIOUS
<1>3. /\ h \in Seq(Hueco) /\ g \in Seq(Segmento) /\ m.libre \in Int
      /\ Ordenada(h) /\ SinTocarse(h) /\ Ordenada(g) /\ Reparte(h, g)
      /\ m.libre = Cardinality(BytesDe(h))
      /\ i \in DOMAIN h /\ x.base = h[i].base /\ x.limite <= h[i].limite
  BY <1>1, <1>2 DEF Sana, Estados
<1>4. EsTramo(Hueco) /\ EsTramo(Segmento)
  BY DEF EsTramo, Hueco, Segmento
<1>5. x.base \in Nat /\ x.limite \in Nat /\ h[i].base \in Nat /\ h[i].limite \in Nat
  BY <1>3, <1>4 DEF EsTramo
<1>6. \A y \in Nat : EsDe(x, y) => Cubre(h, y) /\ ~Cubre(g, y)
  <2>1. \A y \in Nat : EsDe(x, y) => EsDe(h[i], y)
    BY <1>3, <1>5 DEF EsDe, Fin
  <2> QED BY <1>3, <2>1 DEF Cubre, Reparte
<1>7. PICK u : u = Recorte(h, i, x.limite)
  OBVIOUS
<1>8. /\ u \in Seq(Hueco) /\ Ordenada(u) /\ SinTocarse(u)
      /\ \A y \in Nat : Cubre(u, y) <=> Cubre(h, y) /\ ~EsDe(x, y)
  BY <1>3, <1>5, <1>7, Recortado
<1>9. PICK r : r = AgregarOrdenado(g, x)
  OBVIOUS
<1>10. /\ r \in Seq(Segmento) /\ Ordenada(r)
       /\ \A y \in Nat : Cubre(r, y) <=> Cubre(g, y) \/ EsDe(x, y)
  <2>1. \A y \in Nat : ~(Cubre(g, y) /\ EsDe(x, y))
    BY <1>6
  <2> QED BY <1>3, <1>4, <1>9, <2>1, Agregado
<1>11. Reparte(u, r)
  BY <1>3, <1>6, <1>8, <1>10 DEF Reparte
<1>12. Cardinality(BytesDe(u)) = m.libre - x.limite
  <2>1. PICK b \in Nat : b = x.base
    BY <1>5
  <2>2. PICK t \in Nat : t = x.limite
    BY <1>5
  <2>3. PICK A : A = BytesDe(u)
    OBVIOUS
  <2>4. IsFiniteSet(A)
    BY <1>4, <1>8, <2>3, SumaBytes
  <2>5. {y \in Nat : EsDe(x, y)} = b..(b + t - 1)
    BY <2>1, <2>2, BytesDeUno
  <2>6. BytesDe(h) = A \union (b..(b + t - 1))
    BY <1>6, <1>8, <2>3, <2>5 DEF BytesDe
  <2>7. \A y \in b..(b + t - 1) : y \notin A
    BY <1>8, <2>3, <2>5 DEF BytesDe
  <2>8. Cardinality(A \union (b..(b + t - 1))) = Cardinality(A) + t
    BY <2>4, <2>7, Agranda
  <2>9. Cardinality(A) \in Nat
    BY <2>4, FS_CardinalityType
  <2> QED BY <1>3, <2>2, <2>3, <2>6, <2>8, <2>9
<1>13. PICK d : d = ConSegmento(m, i, x)
  OBVIOUS
<1>14. /\ d \in Estados /\ d.huecos = u /\ d.segmentos = r
       /\ d.libre = m.libre - x.limite
  BY <1>1, <1>2, <1>3, <1>5, <1>7, <1>8, <1>9, <1>10, <1>13 DEF ConSegmento, Estados
<1> QED
  BY <1>8, <1>10, <1>11, <1>12, <1>13, <1>14 DEF Sana

-----------------------------------------------------------------------------
(* The compaction.                                                         *)

(* Joining holes gives a list of holes, whatever their order.              *)
LEMMA UnirTipo ==
  ASSUME NEW l \in Seq(Hueco), NEW i \in Int
  PROVE  /\ UnirSiguiente(l, i) \in Seq(Hueco)
         /\ Len(l) > 0 => Len(UnirSiguiente(l, i)) > 0
<1>1. Len(l) \in Nat /\ DOMAIN l = 1..Len(l)
  OBVIOUS
<1>2. CASE i \in 1..(Len(l) - 1) /\ Contiguos(l[i], l[i + 1])
  <2>1. i \in 1..Len(l) /\ i + 1 \in 1..Len(l) /\ Len(l) - 1 > 0
    BY <1>1, <1>2
  <2>2. l[i] \in Hueco /\ l[i + 1] \in Hueco
    BY <1>1, <2>1
  <2>3. PICK c \in Nat : c = l[i].limite + l[i + 1].limite
    BY <2>2 DEF Hueco
  <2>4. PICK m : m = [l EXCEPT ![i].limite = @ + l[i + 1].limite]
    OBVIOUS
  <2>5. [l[i] EXCEPT !.limite = c] \in Hueco
    BY <2>2 DEF Hueco
  <2>6. m = [l EXCEPT ![i] = [l[i] EXCEPT !.limite = c]]
    BY <2>3, <2>4
  <2>7. m \in Seq(Hueco) /\ Len(m) = Len(l) /\ DOMAIN m = 1..Len(l)
    BY <1>1, <2>1, <2>5, <2>6
  <2>8. PICK k \in DOMAIN m : k = i + 1
    BY <2>1, <2>7
  <2>9. RemoveAt(m, k) \in Seq(Hueco) /\ Len(RemoveAt(m, k)) = Len(m) - 1
    BY <2>7, QuitarTipo
  <2>10. UnirSiguiente(l, i) = RemoveAt(m, k)
    BY <1>2, <2>4, <2>8 DEF UnirSiguiente
  <2> QED BY <2>1, <2>7, <2>9, <2>10
<1>3. CASE ~(i \in 1..(Len(l) - 1) /\ Contiguos(l[i], l[i + 1]))
  BY <1>3 DEF UnirSiguiente
<1> QED BY <1>2, <1>3

(* The first hole and a segment when the segment is copied down to it.     *)
Corrido(h, t) == [h EXCEPT ![1] = [base   |-> h[1].base + t,
                                   limite |-> h[1].limite]]
Bajado(g, k, b) == [g EXCEPT ![k] = [pid |-> g[k].pid, id |-> g[k].id,
                                     base |-> b, limite |-> g[k].limite]]
Movida(m, k) ==
  [huecos    |-> UnirSiguiente(Corrido(m.huecos, m.segmentos[k].limite), 1),
   segmentos |-> Bajado(m.segmentos, k, m.huecos[1].base),
   libre     |-> m.libre]

(* The list of holes with the first of them moved up.                      *)
LEMMA CorridoTipo ==
  ASSUME NEW h \in Seq(Hueco), Len(h) > 0, NEW t \in Nat
  PROVE  /\ Corrido(h, t) \in Seq(Hueco) /\ Len(Corrido(h, t)) = Len(h)
         /\ Corrido(h, t)[1].base = h[1].base + t
         /\ Corrido(h, t)[1].limite = h[1].limite
         /\ \A j \in 1..Len(h) : j # 1 => Corrido(h, t)[j] = h[j]
<1>1. Len(h) \in Nat /\ DOMAIN h = 1..Len(h) /\ 1 \in 1..Len(h)
  OBVIOUS
<1>2. h[1] \in Hueco
  BY <1>1
<1>3. PICK e : e = [base |-> h[1].base + t, limite |-> h[1].limite]
  OBVIOUS
<1>4. e \in Hueco /\ e.base = h[1].base + t /\ e.limite = h[1].limite
  BY <1>2, <1>3 DEF Hueco
<1>5. Corrido(h, t) = [h EXCEPT ![1] = e]
  BY <1>3 DEF Corrido
<1> QED BY <1>1, <1>4, <1>5

(* The list of segments with one of them at another base.                  *)
LEMMA BajadoTipo ==
  ASSUME NEW g \in Seq(Segmento), NEW k \in DOMAIN g, NEW b \in Nat
  PROVE  /\ Bajado(g, k, b) \in Seq(Segmento) /\ Len(Bajado(g, k, b)) = Len(g)
         /\ Bajado(g, k, b)[k].base = b
         /\ \A j \in 1..Len(g) :
              /\ Bajado(g, k, b)[j].pid = g[j].pid
              /\ Bajado(g, k, b)[j].id = g[j].id
              /\ Bajado(g, k, b)[j].limite = g[j].limite
              /\ j # k => Bajado(g, k, b)[j] = g[j]
<1>1. Len(g) \in Nat /\ DOMAIN g = 1..Len(g)
  OBVIOUS
<1>2. g[k] \in Segmento
  OBVIOUS
<1>3. PICK e : e = [pid |-> g[k].pid, id |-> g[k].id, base |-> b,
                    limite |-> g[k].limite]
  OBVIOUS
<1>4. /\ e \in Segmento /\ e.base = b /\ e.limite = g[k].limite
      /\ e.pid = g[k].pid /\ e.id = g[k].id
  BY <1>2, <1>3 DEF Segmento
<1>5. Bajado(g, k, b) = [g EXCEPT ![k] = e]
  BY <1>3 DEF Bajado
<1> QED BY <1>1, <1>4, <1>5

ConHueco(N) == {m \in Estados : Len(m.huecos) > 0 /\ Len(m.segmentos) = N}

(* A step of compactar moves a segment above the first hole and no other.  *)
LEMMA Mueve ==
  ASSUME NEW N \in Nat, NEW m \in ConHueco(N), NEW k \in 1..N
  PROVE  /\ m.segmentos[k].base > m.huecos[1].base
              => MoverSegmento(m, k) = Movida(m, k)
         /\ ~(m.segmentos[k].base > m.huecos[1].base)
              => MoverSegmento(m, k) = m
         /\ MoverSegmento(m, k) \in ConHueco(N)
<1>1. /\ m \in Estados /\ m.huecos \in Seq(Hueco) /\ m.segmentos \in Seq(Segmento)
      /\ Len(m.huecos) > 0 /\ Len(m.segmentos) = N /\ DOMAIN m.segmentos = 1..N
      /\ m.libre \in Int
  BY DEF ConHueco, Estados
<1>2. PICK h : h = m.huecos
  OBVIOUS
<1>3. PICK g : g = m.segmentos
  OBVIOUS
<1>4. /\ h \in Seq(Hueco) /\ Len(h) > 0 /\ g \in Seq(Segmento) /\ Len(g) = N
      /\ DOMAIN g = 1..N /\ DOMAIN h = 1..Len(h) /\ 1 \in DOMAIN h
  BY <1>1, <1>2, <1>3
<1>5. h[1] \in Hueco /\ g[k] \in Segmento
  BY <1>4
<1>6. h[1].base \in Nat /\ g[k].limite \in Nat
  BY <1>5 DEF Hueco, Segmento
<1>7. ASSUME g[k].base > h[1].base
      PROVE  MoverSegmento(m, k) = Movida(m, k)
  <2>1. [h EXCEPT ![1].base = @ + g[k].limite] = Corrido(h, g[k].limite)
    <3>1. [h[1] EXCEPT !.base = @ + g[k].limite]
            = [base |-> h[1].base + g[k].limite, limite |-> h[1].limite]
      BY <1>5 DEF Hueco
    <3> QED BY <3>1 DEF Corrido
  <2>2. [g EXCEPT ![k].base = h[1].base] = Bajado(g, k, h[1].base)
    <3>1. [g[k] EXCEPT !.base = h[1].base]
            = [pid |-> g[k].pid, id |-> g[k].id, base |-> h[1].base,
               limite |-> g[k].limite]
      BY <1>5 DEF Segmento
    <3> QED BY <3>1 DEF Bajado
  <2>3. PICK u : u = UnirSiguiente(Corrido(h, g[k].limite), 1)
    OBVIOUS
  <2>4. MoverSegmento(m, k) = [m EXCEPT !.segmentos[k].base = h[1].base,
                                        !.huecos = u]
    BY <1>2, <1>3, <1>7, <2>1, <2>3 DEF MoverSegmento
  <2>5. [m EXCEPT !.segmentos[k].base = h[1].base, !.huecos = u]
          = [m EXCEPT !.segmentos = [g EXCEPT ![k].base = h[1].base],
                      !.huecos = u]
    BY <1>3
  <2>6. [m EXCEPT !.segmentos = Bajado(g, k, h[1].base), !.huecos = u]
          = [huecos |-> u, segmentos |-> Bajado(g, k, h[1].base),
             libre |-> m.libre]
    <3>1. PICK v : v = Bajado(g, k, h[1].base)
      OBVIOUS
    <3>2. PICK w : w = [m EXCEPT !.segmentos = v]
      OBVIOUS
    <3>3. w = [huecos |-> m.huecos, segmentos |-> v, libre |-> m.libre]
      BY <1>1, <3>2 DEF Estados
    <3>4. [w EXCEPT !.huecos = u]
            = [huecos |-> u, segmentos |-> v, libre |-> m.libre]
      BY <3>3
    <3>5. [m EXCEPT !.segmentos = v, !.huecos = u] = [w EXCEPT !.huecos = u]
      BY <3>2
    <3> QED BY <3>1, <3>4, <3>5
  <2> QED BY <1>2, <1>3, <2>2, <2>3, <2>4, <2>5, <2>6 DEF Movida
<1>8. ASSUME ~(g[k].base > h[1].base)
      PROVE  MoverSegmento(m, k) = m
  BY <1>2, <1>3, <1>8 DEF MoverSegmento
<1>9. Movida(m, k) \in ConHueco(N)
  <2>1. PICK u : u = UnirSiguiente(Corrido(h, g[k].limite), 1)
    OBVIOUS
  <2>2. u \in Seq(Hueco) /\ Len(u) > 0
    <3>1. PICK c : c = Corrido(h, g[k].limite)
      OBVIOUS
    <3>2. c \in Seq(Hueco) /\ Len(c) > 0
      BY <1>4, <1>6, <3>1, CorridoTipo
    <3> QED BY <2>1, <3>1, <3>2, UnirTipo
  <2>3. PICK v : v = Bajado(g, k, h[1].base)
    OBVIOUS
  <2>4. v \in Seq(Segmento) /\ Len(v) = N
    <3>1. PICK b : b = h[1].base
      OBVIOUS
    <3>2. b \in Nat
      BY <1>6, <3>1
    <3>3. v = Bajado(g, k, b)
      BY <2>3, <3>1
    <3> QED BY <1>4, <1>6, <3>2, <3>3, BajadoTipo
  <2>5. Movida(m, k) = [huecos |-> u, segmentos |-> v, libre |-> m.libre]
    BY <1>2, <1>3, <2>1, <2>3 DEF Movida
  <2> QED BY <1>1, <2>2, <2>4, <2>5 DEF ConHueco, Estados
<1> QED
  BY <1>2, <1>3, <1>7, <1>8, <1>9

(* The first n segments are below the first hole.                          *)
Bajo(m, n) == \A j \in 1..n : Fin(m.segmentos[j]) <= m.huecos[1].base

(* One segment of m has been copied down at most, and is the same but for  *)
(* its base.                                                               *)
Conserva(m, d) ==
  /\ Len(d.segmentos) = Len(m.segmentos)
  /\ \A j \in 1..Len(m.segmentos) :
       /\ d.segmentos[j].pid = m.segmentos[j].pid
       /\ d.segmentos[j].id = m.segmentos[j].id
       /\ d.segmentos[j].limite = m.segmentos[j].limite
       /\ d.segmentos[j].base <= m.segmentos[j].base
  /\ d.libre = m.libre

(* When the segments before k are below the first hole and k is not, only  *)
(* the bytes of that hole are between them: k begins where it ends.        *)
LEMMA SigueAlHueco ==
  ASSUME NEW m, Sana(m), Len(m.huecos) > 0, NEW k \in DOMAIN m.segmentos,
         Bajo(m, k - 1), m.segmentos[k].base > m.huecos[1].base
  PROVE  m.segmentos[k].base = Fin(m.huecos[1])
<1>1. PICK h : h = m.huecos
  OBVIOUS
<1>2. PICK g : g = m.segmentos
  OBVIOUS
<1>3. /\ h \in Seq(Hueco) /\ g \in Seq(Segmento)
      /\ Ordenada(h) /\ SinTocarse(h) /\ Ordenada(g) /\ Reparte(h, g)
      /\ Len(h) > 0 /\ k \in DOMAIN g
      /\ \A j \in 1..(k - 1) : Fin(g[j]) <= h[1].base
      /\ g[k].base > h[1].base
  BY <1>1, <1>2 DEF Sana, Estados, Bajo
<1>4. /\ DOMAIN h = 1..Len(h) /\ Len(h) \in Nat /\ 1 \in DOMAIN h
      /\ DOMAIN g = 1..Len(g) /\ Len(g) \in Nat
  BY <1>3
<1>5. EsTramo(Hueco) /\ EsTramo(Segmento)
  BY DEF EsTramo, Hueco, Segmento
<1>6. /\ \A i \in DOMAIN h : h[i].base \in Nat /\ h[i].limite \in Nat
                             /\ h[i].limite > 0 /\ Fin(h[i]) \in Nat
      /\ \A i \in DOMAIN g : g[i].base \in Nat /\ g[i].limite \in Nat
                             /\ g[i].limite > 0 /\ Fin(g[i]) \in Nat
  BY <1>3, <1>4, <1>5 DEF EsTramo, Ordenada, Fin
<1>7. PICK y \in Nat : y = Fin(h[1])
  BY <1>4, <1>6
<1>8. PICK s \in Nat : s = g[k].base
  BY <1>3, <1>6
<1>9. PICK b \in Nat : b = h[1].base
  BY <1>4, <1>6
<1>10. b < s /\ b <= y
  <2>1. h[1].limite \in Nat
    BY <1>4, <1>6
  <2>2. y = b + h[1].limite
    BY <1>7, <1>9 DEF Fin
  <2>3. b < s
    BY <1>3, <1>8, <1>9
  <2> QED BY <2>1, <2>2, <2>3
<1>11. EsDe(g[k], s) /\ Cubre(g, s) /\ ~Cubre(h, s)
  <2>1. EsDe(g[k], s)
    BY <1>3, <1>6, <1>8 DEF EsDe, Fin
  <2> QED BY <1>3, <2>1 DEF Cubre, Reparte
<1>12. y <= s
  <2>1. ~EsDe(h[1], s)
    BY <1>4, <1>11 DEF Cubre
  <2> QED BY <1>7, <1>9, <1>10, <2>1 DEF EsDe
<1>13. ASSUME y < s PROVE FALSE
  <2>1. b = h[1].base /\ b <= y /\ b < s
    BY <1>9, <1>10
  <2>2. Cubre(h, b)
    <3>1. EsDe(h[1], b)
      BY <1>4, <1>6, <2>1 DEF EsDe, Fin
    <3> QED BY <1>4, <3>1 DEF Cubre
  <2>3. s \in TAM_SEGMENTO_0..(TAM_MEMORIA - 1)
        /\ b \in TAM_SEGMENTO_0..(TAM_MEMORIA - 1)
    BY <1>3, <1>11, <2>2 DEF Reparte
  <2>4. y \in TAM_SEGMENTO_0..(TAM_MEMORIA - 1)
    BY <1>13, <2>1, <2>3, SupuestoMemoria
  <2>5. Cubre(h, y) \/ Cubre(g, y)
    BY <1>3, <2>4 DEF Reparte
  <2>6. CASE Cubre(h, y)
    <3>1. PICK i \in DOMAIN h : EsDe(h[i], y)
      BY <2>6 DEF Cubre
    <3>2. i # 1
      BY <1>4, <1>6, <1>7, <3>1 DEF EsDe
    <3>3. i > 1 /\ h[i].base = y
      <4>1. i > 1
        BY <1>4, <3>2
      <4>2. Fin(h[1]) <= h[i].base
        BY <1>3, <1>4, <4>1 DEF Ordenada
      <4> QED BY <1>6, <1>7, <3>1, <4>1, <4>2 DEF EsDe
    <3>4. CASE i = 2
      <4>1. 1 \in 1..(Len(h) - 1) /\ 1 + 1 = 2
        BY <1>4, <3>4
      <4>2. Contiguos(h[1], h[2])
        BY <1>7, <3>3, <3>4 DEF Contiguos, Fin
      <4> QED BY <1>3, <4>1, <4>2 DEF SinTocarse
    <3>5. CASE i > 2
      <4>1. 2 \in DOMAIN h
        BY <1>4, <3>5
      <4>2. Fin(h[1]) <= h[2].base /\ Fin(h[2]) <= h[i].base
        BY <1>3, <1>4, <3>5, <4>1 DEF Ordenada
      <4> QED BY <1>6, <1>7, <3>3, <4>1, <4>2 DEF Fin
    <3> QED BY <1>4, <3>3, <3>4, <3>5
  <2>7. CASE Cubre(g, y)
    <3>1. PICK j \in DOMAIN g : EsDe(g[j], y)
      BY <2>7 DEF Cubre
    <3>2. CASE j < k
      <4>1. Fin(g[j]) <= b
        BY <1>3, <1>4, <2>1, <3>2
      <4> QED BY <1>6, <2>1, <3>1, <4>1 DEF EsDe
    <3>3. CASE j = k
      BY <1>8, <1>13, <3>1, <3>3 DEF EsDe
    <3>4. CASE j > k
      <4>1. Fin(g[k]) <= g[j].base
        BY <1>3, <3>4 DEF Ordenada
      <4>2. s <= Fin(g[k])
        BY <1>3, <1>6, <1>8 DEF Fin
      <4> QED BY <1>3, <1>6, <1>13, <3>1, <4>1, <4>2 DEF EsDe
    <3> QED BY <1>3, <1>4, <3>2, <3>3, <3>4
  <2> QED BY <2>5, <2>6, <2>7
<1> QED
  BY <1>1, <1>2, <1>7, <1>8, <1>12, <1>13

(* The bytes of the other elements of a list.                              *)
Resto(l, k, y) == \E i \in DOMAIN l : i # k /\ EsDe(l[i], y)

(* A list in order is one of its runs and the rest, which do not overlap.  *)
LEMMA UnoYResto ==
  ASSUME NEW S, EsTramo(S), NEW l \in Seq(S), Ordenada(l), NEW k \in DOMAIN l
  PROVE  \A y \in Nat : /\ Cubre(l, y) <=> Resto(l, k, y) \/ EsDe(l[k], y)
                        /\ ~(Resto(l, k, y) /\ EsDe(l[k], y))
<1>1. DOMAIN l = 1..Len(l) /\ Len(l) \in Nat
  OBVIOUS
<1>2. \A i \in DOMAIN l : l[i].base \in Nat /\ Fin(l[i]) \in Nat
  BY DEF EsTramo, Fin
<1> SUFFICES ASSUME NEW y \in Nat
             PROVE  /\ Cubre(l, y) <=> Resto(l, k, y) \/ EsDe(l[k], y)
                    /\ ~(Resto(l, k, y) /\ EsDe(l[k], y))
  OBVIOUS
<1>3. Cubre(l, y) <=> Resto(l, k, y) \/ EsDe(l[k], y)
  BY DEF Cubre, Resto
<1>4. ASSUME Resto(l, k, y), EsDe(l[k], y) PROVE FALSE
  <2>1. PICK i \in DOMAIN l : i # k /\ EsDe(l[i], y)
    BY <1>4 DEF Resto
  <2>2. CASE i < k
    <3>1. Fin(l[i]) <= l[k].base
      BY <2>2 DEF Ordenada
    <3> QED BY <1>2, <1>4, <2>1, <3>1 DEF EsDe
  <2>3. CASE i > k
    <3>1. Fin(l[k]) <= l[i].base
      BY <2>3 DEF Ordenada
    <3> QED BY <1>2, <1>4, <2>1, <3>1 DEF EsDe
  <2> QED BY <1>1, <2>1, <2>2, <2>3
<1> QED BY <1>3, <1>4

(* Moving a segment down to the first hole, and the hole above it.         *)
LEMMA Corrimiento ==
  ASSUME NEW m, Sana(m), Len(m.huecos) > 0, NEW k \in DOMAIN m.segmentos,
         Bajo(m, k - 1), m.segmentos[k].base > m.huecos[1].base
  PROVE  /\ Sana(Movida(m, k)) /\ Bajo(Movida(m, k), k)
         /\ Conserva(m, Movida(m, k))
<1>1. PICK h : h = m.huecos
  OBVIOUS
<1>2. PICK g : g = m.segmentos
  OBVIOUS
<1>3. /\ h \in Seq(Hueco) /\ g \in Seq(Segmento) /\ m.libre \in Int
      /\ Ordenada(h) /\ SinTocarse(h) /\ Ordenada(g) /\ Reparte(h, g)
      /\ m.libre = Cardinality(BytesDe(h))
      /\ Len(h) > 0 /\ k \in DOMAIN g
      /\ \A j \in 1..(k - 1) : Fin(g[j]) <= h[1].base
      /\ g[k].base > h[1].base
  BY <1>1, <1>2 DEF Sana, Estados, Bajo
<1>4. /\ DOMAIN h = 1..Len(h) /\ Len(h) \in Nat /\ 1 \in DOMAIN h
      /\ DOMAIN g = 1..Len(g) /\ Len(g) \in Nat
  BY <1>3
<1>5. EsTramo(Hueco) /\ EsTramo(Segmento)
  BY DEF EsTramo, Hueco, Segmento
<1>6. /\ \A i \in DOMAIN h : h[i].base \in Nat /\ h[i].limite \in Nat
                             /\ h[i].limite > 0 /\ Fin(h[i]) \in Nat
      /\ \A i \in DOMAIN g : g[i].base \in Nat /\ g[i].limite \in Nat
                             /\ g[i].limite > 0 /\ Fin(g[i]) \in Nat
  <2>1. /\ \A i \in DOMAIN h : h[i].base \in Nat /\ h[i].limite \in Nat
                               /\ h[i].limite > 0
        /\ \A i \in DOMAIN g : g[i].base \in Nat /\ g[i].limite \in Nat
                               /\ g[i].limite > 0
    BY <1>3, <1>4, <1>5 DEF EsTramo, Ordenada
  <2> QED BY <2>1 DEF Fin
<1>7. PICK b \in Nat : b = h[1].base
  BY <1>4, <1>6
<1>8. PICK t \in Nat : t = h[1].limite
  BY <1>4, <1>6
<1>9. PICK z \in Nat : z = g[k].limite
  BY <1>3, <1>6
<1>10. Fin(h[1]) = b + t /\ g[k].base = b + t /\ Fin(g[k]) = b + t + z
       /\ t > 0 /\ z > 0
  <2>1. g[k].base = Fin(h[1])
    BY <1>1, <1>2, SigueAlHueco
  <2>2. t > 0 /\ z > 0
    BY <1>3, <1>4, <1>6, <1>8, <1>9
  <2> QED BY <1>7, <1>8, <1>9, <2>1, <2>2 DEF Fin
(* The list of holes before the join.                                      *)
<1>11. PICK c : c = Corrido(h, z)
  OBVIOUS
<1>12. /\ c \in Seq(Hueco) /\ Len(c) = Len(h) /\ DOMAIN c = DOMAIN h
       /\ c[1].base = b + z /\ c[1].limite = t
       /\ \A j \in DOMAIN h : j # 1 => c[j] = h[j]
  <2>1. /\ c \in Seq(Hueco) /\ Len(c) = Len(h)
        /\ c[1].base = h[1].base + z /\ c[1].limite = h[1].limite
        /\ \A j \in 1..Len(h) : j # 1 => c[j] = h[j]
    BY <1>3, <1>11, CorridoTipo
  <2> QED BY <1>4, <1>7, <1>8, <2>1
<1>13. ASSUME NEW i \in DOMAIN h, i # 1
       PROVE  h[i].base >= b + t + z
  <2>1. i > 1
    BY <1>4, <1>13
  <2>2. b + t <= h[i].base
    BY <1>3, <1>4, <1>10, <2>1 DEF Ordenada
  <2>3. ASSUME h[i].base < b + t + z PROVE FALSE
    <3>1. PICK y \in Nat : y = h[i].base
      BY <1>6
    <3>2. EsDe(h[i], y) /\ EsDe(g[k], y)
      BY <1>6, <1>10, <2>2, <2>3, <3>1 DEF EsDe, Fin
    <3> QED BY <1>3, <3>2 DEF Cubre, Reparte
  <2> QED BY <1>6, <2>3
<1>14. Ordenada(c)
  <2>1. \A i \in DOMAIN c : c[i].limite > 0
    BY <1>6, <1>10, <1>12
  <2>2. ASSUME NEW i \in DOMAIN c, NEW j \in DOMAIN c, i < j
        PROVE  Fin(c[i]) <= c[j].base
    <3>1. j # 1 /\ c[j] = h[j] /\ i \in DOMAIN h /\ j \in DOMAIN h
      BY <1>4, <1>12, <2>2
    <3>2. CASE i = 1
      <4>1. Fin(c[i]) = b + t + z
        BY <1>12, <3>2 DEF Fin
      <4> QED BY <1>13, <3>1, <4>1
    <3>3. CASE i # 1
      BY <1>3, <1>12, <2>2, <3>1, <3>3 DEF Ordenada
    <3> QED BY <3>2, <3>3
  <2> QED BY <2>1, <2>2 DEF Ordenada
<1>15. \A j \in Int : Toca(c, j) => j = 1
  <2> SUFFICES ASSUME NEW j \in Int, Toca(c, j), j # 1 PROVE FALSE
    OBVIOUS
  <2>1. /\ j \in 1..(Len(h) - 1) /\ j \in DOMAIN h /\ j + 1 \in DOMAIN h
        /\ j + 1 # 1 /\ Contiguos(c[j], c[j + 1])
    BY <1>4, <1>12 DEF Toca
  <2> QED BY <1>3, <1>12, <2>1 DEF SinTocarse
(* The list of holes after it.                                             *)
<1>16. PICK u : u = UnirSiguiente(c, 1)
  OBVIOUS
<1>17. Unido(c, 1, u)
  BY <1>12, <1>14, <1>16, Union
<1>18. /\ u \in Seq(Hueco) /\ Ordenada(u) /\ Len(u) > 0 /\ u[1].base = b + z
       /\ \A y \in Nat : Cubre(u, y) <=> Cubre(c, y)
  BY <1>3, <1>12, <1>17 DEF Unido
<1>19. SinTocarse(u)
  <2>1. ASSUME NEW j \in Int, Toca(u, j) PROVE FALSE
    <3>1. CASE Toca(c, 1)
      <4>1. IF j < 1 THEN Toca(c, j) ELSE Toca(c, j + 1)
        BY <1>17, <2>1, <3>1 DEF Unido
      <4>2. j >= 1 /\ j + 1 \in Int
        BY <2>1 DEF Toca
      <4>3. Toca(c, j + 1)
        BY <4>1, <4>2
      <4>4. j + 1 = 1
        BY <1>15, <4>2, <4>3
      <4> QED BY <4>2, <4>4
    <3>2. CASE ~Toca(c, 1)
      <4>1. u = c
        BY <1>17, <3>2 DEF Unido
      <4> QED BY <1>15, <2>1, <3>2, <4>1
    <3> QED BY <3>1, <3>2
  <2> QED BY <2>1 DEF SinTocarse, Toca
(* The list of segments.                                                   *)
<1>20. PICK v : v = Bajado(g, k, b)
  OBVIOUS
<1>21. /\ v \in Seq(Segmento) /\ Len(v) = Len(g) /\ DOMAIN v = DOMAIN g
       /\ v[k].base = b /\ v[k].limite = z
       /\ \A j \in DOMAIN g : /\ v[j].pid = g[j].pid /\ v[j].id = g[j].id
                              /\ v[j].limite = g[j].limite
                              /\ j # k => v[j] = g[j]
  <2>1. /\ v \in Seq(Segmento) /\ Len(v) = Len(g) /\ v[k].base = b
        /\ \A j \in 1..Len(g) : /\ v[j].pid = g[j].pid /\ v[j].id = g[j].id
                                /\ v[j].limite = g[j].limite
                                /\ j # k => v[j] = g[j]
    BY <1>3, <1>20, BajadoTipo
  <2> QED BY <1>3, <1>4, <1>9, <2>1
<1>22. Fin(v[k]) = b + z /\ v[k].base <= g[k].base
  BY <1>10, <1>21 DEF Fin
<1>23. Ordenada(v)
  <2>1. \A i \in DOMAIN v : v[i].limite > 0
    BY <1>6, <1>21
  <2>2. ASSUME NEW i \in DOMAIN v, NEW j \in DOMAIN v, i < j
        PROVE  Fin(v[i]) <= v[j].base
    <3>1. i \in DOMAIN g /\ j \in DOMAIN g /\ Fin(g[i]) <= g[j].base
      BY <1>3, <1>21, <2>2 DEF Ordenada
    <3>2. CASE i = k
      <4>1. j # k /\ v[j] = g[j]
        BY <1>21, <2>2, <3>1, <3>2
      <4> QED BY <1>6, <1>10, <1>22, <3>1, <3>2, <4>1
    <3>3. CASE j = k
      <4>1. i # k /\ v[i] = g[i] /\ i \in 1..(k - 1)
        BY <1>4, <1>21, <2>2, <3>1, <3>3
      <4> QED BY <1>3, <1>7, <1>21, <3>3, <4>1
    <3>4. CASE i # k /\ j # k
      BY <1>21, <3>1, <3>4
    <3> QED BY <3>2, <3>3, <3>4
  <2> QED BY <2>1, <2>2 DEF Ordenada
(* The bytes of both.                                                      *)
<1> DEFINE RH(y) == Resto(h, 1, y)
           RG(y) == Resto(g, k, y)
<1>24. /\ \A y : Resto(c, 1, y) <=> RH(y)
       /\ \A y : Resto(v, k, y) <=> RG(y)
  BY <1>12, <1>21 DEF Resto
<1>25. \A y \in Nat : /\ EsDe(h[1], y) <=> b <= y /\ y < b + t
                      /\ EsDe(c[1], y) <=> b + z <= y /\ y < b + z + t
                      /\ EsDe(g[k], y) <=> b + t <= y /\ y < b + t + z
                      /\ EsDe(v[k], y) <=> b <= y /\ y < b + z
  BY <1>7, <1>10, <1>12, <1>21, <1>22 DEF EsDe, Fin
<1>26. \A y \in Nat : /\ Cubre(h, y) <=> RH(y) \/ EsDe(h[1], y)
                      /\ ~(RH(y) /\ EsDe(h[1], y))
                      /\ Cubre(c, y) <=> RH(y) \/ EsDe(c[1], y)
                      /\ ~(RH(y) /\ EsDe(c[1], y))
                      /\ Cubre(g, y) <=> RG(y) \/ EsDe(g[k], y)
                      /\ ~(RG(y) /\ EsDe(g[k], y))
                      /\ Cubre(v, y) <=> RG(y) \/ EsDe(v[k], y)
  <2>1. \A y \in Nat : /\ Cubre(h, y) <=> Resto(h, 1, y) \/ EsDe(h[1], y)
                       /\ ~(Resto(h, 1, y) /\ EsDe(h[1], y))
    BY <1>3, <1>4, <1>5, UnoYResto
  <2>2. \A y \in Nat : /\ Cubre(c, y) <=> Resto(c, 1, y) \/ EsDe(c[1], y)
                       /\ ~(Resto(c, 1, y) /\ EsDe(c[1], y))
    BY <1>4, <1>5, <1>12, <1>14, UnoYResto
  <2>3. \A y \in Nat : /\ Cubre(g, y) <=> Resto(g, k, y) \/ EsDe(g[k], y)
                       /\ ~(Resto(g, k, y) /\ EsDe(g[k], y))
    BY <1>3, <1>5, UnoYResto
  <2>4. \A y \in Nat : /\ Cubre(v, y) <=> Resto(v, k, y) \/ EsDe(v[k], y)
                       /\ ~(Resto(v, k, y) /\ EsDe(v[k], y))
    BY <1>3, <1>5, <1>21, <1>23, UnoYResto
  <2> QED BY <1>24, <2>1, <2>2, <2>3, <2>4
<1> HIDE DEF RH, RG
<1>27. ASSUME NEW y \in Nat
       PROVE  /\ ~(Cubre(u, y) /\ Cubre(v, y))
              /\ Cubre(u, y) \/ Cubre(v, y) <=> Cubre(h, y) \/ Cubre(g, y)
  <2>1. ~(Cubre(h, y) /\ Cubre(g, y))
    BY <1>3 DEF Reparte
  <2>2. EsDe(h[1], y) \/ EsDe(g[k], y) <=> EsDe(c[1], y) \/ EsDe(v[k], y)
    BY <1>10, <1>25
  <2>3. ~(EsDe(c[1], y) /\ EsDe(v[k], y))
    BY <1>25
  <2> QED BY <1>18, <1>26, <2>1, <2>2, <2>3
<1>28. Reparte(u, v)
  BY <1>3, <1>27 DEF Reparte
<1>29. Cardinality(BytesDe(u)) = m.libre
  <2>1. PICK A : A = {y \in Nat : RH(y)}
    OBVIOUS
  <2>2. IsFiniteSet(A)
    <3>1. IsFiniteSet(BytesDe(h))
      BY <1>3, <1>5, SumaBytes
    <3>2. A \in SUBSET BytesDe(h)
      BY <1>26, <2>1 DEF BytesDe
    <3> QED BY <3>1, <3>2, FS_Subset
  <2>3. PICK d \in Nat : d = b + z
    OBVIOUS
  <2>4. BytesDe(h) = A \union (b..(b + t - 1))
    BY <1>25, <1>26, <2>1 DEF BytesDe
  <2>5. BytesDe(u) = A \union (d..(d + t - 1))
    BY <1>18, <1>25, <1>26, <2>1, <2>3 DEF BytesDe
  <2>6. \A y \in b..(b + t - 1) : y \notin A
    BY <1>25, <1>26, <2>1
  <2>7. \A y \in d..(d + t - 1) : y \notin A
    BY <1>25, <1>26, <2>1, <2>3
  <2>8. Cardinality(A \union (b..(b + t - 1))) = Cardinality(A) + t
    BY <2>2, <2>6, Agranda
  <2>9. Cardinality(A \union (d..(d + t - 1))) = Cardinality(A) + t
    BY <2>2, <2>7, Agranda
  <2> QED BY <1>3, <2>4, <2>5, <2>8, <2>9
<1>30. PICK d : d = Movida(m, k)
  OBVIOUS
<1>31. d = [huecos |-> u, segmentos |-> v, libre |-> m.libre]
  BY <1>1, <1>2, <1>7, <1>9, <1>11, <1>16, <1>20, <1>30 DEF Movida
<1>32. d \in Estados /\ d.huecos = u /\ d.segmentos = v /\ d.libre = m.libre
  BY <1>3, <1>18, <1>21, <1>31 DEF Estados
<1>33. Sana(d)
  BY <1>18, <1>19, <1>23, <1>28, <1>29, <1>32 DEF Sana
<1>34. Bajo(d, k)
  <2>1. ASSUME NEW j \in 1..k PROVE Fin(v[j]) <= u[1].base
    <3>1. CASE j = k
      BY <1>18, <1>22, <3>1
    <3>2. CASE j # k
      <4>1. j \in 1..(k - 1) /\ j \in DOMAIN g
        BY <1>3, <1>4, <3>2
      <4>2. Fin(v[j]) <= b
        BY <1>3, <1>7, <1>21, <3>2, <4>1
      <4> QED BY <1>6, <1>18, <1>21, <3>2, <4>1, <4>2
    <3> QED BY <3>1, <3>2
  <2> QED BY <1>32, <2>1 DEF Bajo
<1>35. Conserva(m, d)
  <2>1. ASSUME NEW j \in DOMAIN g PROVE v[j].base <= g[j].base
    <3>1. CASE j = k
      BY <1>22, <3>1
    <3>2. CASE j # k
      BY <1>6, <1>21, <3>2
    <3> QED BY <3>1, <3>2
  <2> QED BY <1>2, <1>4, <1>21, <1>32, <2>1 DEF Conserva
<1> QED
  BY <1>30, <1>33, <1>34, <1>35

(* What is known of the elements of a list of segments.                    *)
LEMMA SegmentosTipo ==
  ASSUME NEW g \in Seq(Segmento)
  PROVE  \A j \in 1..Len(g) : /\ g[j] \in Segmento
                               /\ g[j].pid \in PIDS /\ g[j].id \in IDS
                               /\ g[j].base \in Nat /\ g[j].limite \in Nat
<1>1. \A j \in 1..Len(g) : g[j] \in Segmento
  OBVIOUS
<1>2. \A e \in Segmento : /\ e.pid \in PIDS /\ e.id \in IDS
                          /\ e.base \in Nat /\ e.limite \in Nat
  BY DEF Segmento
<1> QED BY <1>1, <1>2

(* A segment that does not begin above the first hole is all below it.     *)
LEMMA YaAbajo ==
  ASSUME NEW m, Sana(m), Len(m.huecos) > 0, NEW k \in DOMAIN m.segmentos,
         ~(m.segmentos[k].base > m.huecos[1].base)
  PROVE  Fin(m.segmentos[k]) <= m.huecos[1].base
<1>1. /\ m.huecos \in Seq(Hueco) /\ m.segmentos \in Seq(Segmento)
      /\ Ordenada(m.huecos) /\ Ordenada(m.segmentos)
      /\ Reparte(m.huecos, m.segmentos)
  BY DEF Sana, Estados
<1>2. PICK e : e = m.huecos[1]
  OBVIOUS
<1>3. PICK f : f = m.segmentos[k]
  OBVIOUS
<1>4. 1 \in DOMAIN m.huecos
  BY <1>1
<1>5. /\ e \in Hueco /\ e.base \in Nat /\ e.limite \in Nat /\ e.limite > 0
      /\ f \in Segmento /\ f.base \in Nat /\ f.limite \in Nat /\ f.limite > 0
  <2>1. e \in Hueco /\ f \in Segmento
    BY <1>1, <1>2, <1>3, <1>4
  <2>2. e.limite > 0 /\ f.limite > 0
    BY <1>1, <1>2, <1>3, <1>4 DEF Ordenada
  <2> QED BY <2>1, <2>2 DEF Hueco, Segmento
<1>6. ASSUME Fin(f) > e.base PROVE FALSE
  <2>1. PICK y \in Nat : y = e.base
    BY <1>5
  <2>2. EsDe(e, y) /\ EsDe(f, y)
    BY <1>2, <1>3, <1>5, <1>6, <2>1 DEF EsDe, Fin
  <2> QED BY <1>1, <1>2, <1>3, <1>4, <2>1, <2>2 DEF Cubre, Reparte
<1> QED BY <1>2, <1>3, <1>5, <1>6 DEF Fin

(* With every segment below the first hole there is no other hole.         *)
LEMMA UnHueco ==
  ASSUME NEW m, Sana(m), Len(m.huecos) > 0, Bajo(m, Len(m.segmentos))
  PROVE  Len(m.huecos) = 1
<1>1. PICK h : h = m.huecos
  OBVIOUS
<1>2. PICK g : g = m.segmentos
  OBVIOUS
<1>3. /\ h \in Seq(Hueco) /\ g \in Seq(Segmento)
      /\ Ordenada(h) /\ SinTocarse(h) /\ Ordenada(g) /\ Reparte(h, g)
      /\ Len(h) > 0 /\ DOMAIN h = 1..Len(h) /\ Len(h) \in Nat
      /\ DOMAIN g = 1..Len(g) /\ Len(g) \in Nat
      /\ \A j \in 1..Len(g) : Fin(g[j]) <= h[1].base
  BY <1>1, <1>2 DEF Sana, Estados, Bajo
<1>4. EsTramo(Hueco) /\ EsTramo(Segmento)
  BY DEF EsTramo, Hueco, Segmento
<1>5. /\ \A i \in DOMAIN h : h[i].base \in Nat /\ h[i].limite \in Nat
                             /\ h[i].limite > 0 /\ Fin(h[i]) \in Nat
      /\ \A i \in DOMAIN g : Fin(g[i]) \in Nat
  BY <1>3, <1>4 DEF EsTramo, Ordenada, Fin
<1>6. ASSUME Len(h) > 1 PROVE FALSE
  <2>1. 1 \in DOMAIN h /\ 2 \in DOMAIN h /\ 1 \in 1..(Len(h) - 1) /\ 1 + 1 = 2
    BY <1>3, <1>6
  <2>2. PICK y \in Nat : y = Fin(h[1])
    BY <1>5, <2>1
  <2>3. y < h[2].base /\ h[1].base < y
    <3>1. Fin(h[1]) <= h[2].base
      BY <1>3, <2>1 DEF Ordenada
    <3>2. ~Contiguos(h[1], h[2])
      BY <1>3, <2>1 DEF SinTocarse
    <3> QED BY <1>5, <2>1, <2>2, <3>1, <3>2 DEF Contiguos, Fin
  <2>4. PICK b \in Nat : b = h[1].base /\ b < y
    BY <1>5, <2>1, <2>3
  <2>5. PICK c \in Nat : c = h[2].base /\ y < c
    BY <1>5, <2>1, <2>3
  <2>6. Cubre(h, b) /\ Cubre(h, c)
    <3>1. EsDe(h[1], b) /\ EsDe(h[2], c)
      BY <1>5, <2>1, <2>4, <2>5 DEF EsDe, Fin
    <3> QED BY <2>1, <3>1 DEF Cubre
  <2>7. b \in TAM_SEGMENTO_0..(TAM_MEMORIA - 1)
        /\ c \in TAM_SEGMENTO_0..(TAM_MEMORIA - 1)
    BY <1>3, <2>6 DEF Reparte
  <2>8. y \in TAM_SEGMENTO_0..(TAM_MEMORIA - 1)
    BY <2>4, <2>5, <2>7, SupuestoMemoria
  <2>9. Cubre(h, y) \/ Cubre(g, y)
    BY <1>3, <2>8 DEF Reparte
  <2>10. CASE Cubre(g, y)
    <3>1. PICK j \in DOMAIN g : EsDe(g[j], y)
      BY <2>10 DEF Cubre
    <3>2. Fin(g[j]) <= b
      BY <1>3, <2>4
    <3> QED BY <1>5, <2>4, <3>1, <3>2 DEF EsDe
  <2>11. CASE Cubre(h, y)
    <3>1. PICK i \in DOMAIN h : EsDe(h[i], y)
      BY <2>11 DEF Cubre
    <3>2. i # 1
      BY <1>5, <2>1, <2>2, <3>1 DEF EsDe
    <3>3. i # 2
      BY <2>5, <3>1 DEF EsDe
    <3>4. i > 2
      BY <1>3, <3>2, <3>3
    <3>5. Fin(h[2]) <= h[i].base
      BY <1>3, <2>1, <3>4 DEF Ordenada
    <3>6. c <= Fin(h[2]) /\ Fin(h[2]) \in Nat /\ h[i].base \in Nat
      BY <1>5, <2>1, <2>5 DEF Fin
    <3> QED BY <2>5, <3>1, <3>5, <3>6 DEF EsDe
  <2> QED BY <2>9, <2>10, <2>11
<1>7. Len(h) = 1
  BY <1>3, <1>6
<1> QED BY <1>1, <1>7

(* compactar goes through the segments in their order.                     *)
LEMMA CompactaPasos ==
  ASSUME LISTA_GLOBAL_SEGMENTOS \in Seq(Segmento),
         EstadoMemoria \in ConHueco(Len(LISTA_GLOBAL_SEGMENTOS))
  PROVE  \E h : /\ h[0] = EstadoMemoria
                /\ \A n \in 1..Len(LISTA_GLOBAL_SEGMENTOS) :
                     h[n] = MoverSegmento(h[n - 1], n)
                /\ Compactada = h[Len(LISTA_GLOBAL_SEGMENTOS)]
<1> DEFINE l == LISTA_GLOBAL_SEGMENTOS
           N == Len(l)
           E == EstadoMemoria
           T == ConHueco(N)
           paso == [x \in (1..N) \X T |-> MoverSegmento(x[2], x[1])]
           Sigue(it, s) == IF s = {} THEN E
                           ELSE MoverSegmento(it[s \ {Max(s)}], Max(s))
           SigueD(it, s) == IF s = {} THEN E
                            ELSE MoverSegmento(it[s \ {Max(s)}],
                                               [i \in DOMAIN l |-> i][Max(s)])
           D == DOMAIN [i \in DOMAIN l |-> i]
           it == CHOOSE it : it = [s \in SUBSET D |-> SigueD(it, s)]
           h == [n \in 0..N |-> it[1..n]]
<1>1. N \in Nat /\ DOMAIN l = 1..N /\ D = 1..N
  OBVIOUS
<1>2. Compactada = it[D]
  BY DEF Compactada, FoldLeftDomain, FoldLeft, MapThenFoldSet
<1>3. ASSUME NEW n \in 1..N, NEW t \in T
      PROVE  paso[<<n, t>>] = MoverSegmento(t, n) /\ MoverSegmento(t, n) \in T
  <2>1. MoverSegmento(t, n) \in T
    <3> HIDE DEF N
    <3> QED BY <1>1, Mueve
  <2> QED BY <2>1
<1> HIDE DEF paso, T
<1>4. \A s \in SUBSET (1..N) : it[s] = Sigue(it, s)
  <2>1. E \in T /\ SePliega(N, T, paso)
    BY <1>1, <1>3 DEF SePliega, T
  <2>2. PICK jt : Pliegue(jt, N, T, E, paso)
    <3> HIDE DEF N, it, h, l, E
    <3> QED BY <1>1, <2>1, PliegueExiste
  <2>3. ASSUME NEW s \in SUBSET (1..N)
        PROVE  jt[s] = SigueD(jt, s) /\ \A kt : SigueD(kt, s) = Sigue(kt, s)
    <3>1. CASE s = {}
      BY <2>2, <3>1 DEF Pliegue, PasoDePliegue
    <3>2. CASE s # {}
      <4>1. Max(s) \in s
        <5> HIDE DEF N, it, h, l
        <5> QED BY <1>1, <3>2, MaximoDe
      <4>2. [i \in DOMAIN l |-> i][Max(s)] = Max(s)
        BY <1>1, <4>1
      <4>3. jt[s \ {Max(s)}] \in T /\ Max(s) \in 1..N
        BY <2>2, <4>1 DEF Pliegue
      <4>4. jt[s] = paso[<<Max(s), jt[s \ {Max(s)}]>>]
        BY <2>2, <3>2 DEF Pliegue, PasoDePliegue
      <4>5. jt[s] = MoverSegmento(jt[s \ {Max(s)}], Max(s))
        <5> HIDE DEF N
        <5> QED BY <1>3, <4>3, <4>4
      <4>6. jt[s] = SigueD(jt, s)
        BY <3>2, <4>2, <4>5
      <4>7. \A kt : SigueD(kt, s) = Sigue(kt, s)
        BY <3>2, <4>2
      <4> QED
        BY <4>6, <4>7
    <3> QED BY <3>1, <3>2
  <2>4. jt = [s \in SUBSET D |-> SigueD(jt, s)]
    BY <1>1, <2>2, <2>3 DEF Pliegue
  <2>5. it = [s \in SUBSET D |-> SigueD(it, s)]
    <3> HIDE DEF SigueD, D
    <3> QED BY <2>4
  <2> HIDE DEF it, SigueD, Sigue
  <2> QED
    BY <1>1, <2>3, <2>5
<1> HIDE DEF it
<1>5. h[0] = E
  <2>1. 1..0 = {} /\ {} \in SUBSET (1..N) /\ 0 \in 0..N
    BY <1>1
  <2> QED BY <2>1, <1>4
<1>6. ASSUME NEW n \in 1..N
      PROVE  h[n] = MoverSegmento(h[n - 1], n)
  <2>1. 1..n # {} /\ Max(1..n) = n /\ (1..n) \ {n} = 1..(n - 1)
    BY <1>1, Hasta
  <2>2. 1..n \in SUBSET (1..N)
    BY <1>1
  <2>3. it[1..n] = MoverSegmento(it[1..(n - 1)], n)
    BY <1>4, <2>1, <2>2
  <2> QED
    BY <1>1, <2>3
<1>7. h[N] = it[D]
  BY <1>1
<1>8. Compactada = h[N]
  BY <1>2, <1>7
<1> HIDE DEF h
<1> QED
  BY <1>5, <1>6, <1>8

(* compactar leaves one hole, above every segment, and moves no segment up. *)
LEMMA Compacta ==
  ASSUME Sana(EstadoMemoria), Len(LISTA_ESPACIOS_LIBRES) > 0
  PROVE  /\ Sana(Compactada) /\ Len(Compactada.huecos) = 1
         /\ Conserva(EstadoMemoria, Compactada)
<1> DEFINE N == Len(LISTA_GLOBAL_SEGMENTOS)
<1>1. PICK E : E = EstadoMemoria
  OBVIOUS
<1>2. /\ E.huecos = LISTA_ESPACIOS_LIBRES /\ E.segmentos = LISTA_GLOBAL_SEGMENTOS
      /\ E \in Estados /\ LISTA_GLOBAL_SEGMENTOS \in Seq(Segmento)
      /\ Len(E.huecos) > 0 /\ Len(E.segmentos) = N /\ Sana(E) /\ N \in Nat
  <2>1. E \in Estados /\ Sana(E)
    BY <1>1 DEF Sana
  <2>2. E.huecos = LISTA_ESPACIOS_LIBRES /\ E.segmentos = LISTA_GLOBAL_SEGMENTOS
    BY <1>1 DEF EstadoMemoria
  <2>3. E.segmentos \in Seq(Segmento)
    BY <2>1 DEF Estados
  <2> QED BY <2>1, <2>2, <2>3
<1>3. E \in ConHueco(N)
  BY <1>2 DEF ConHueco
<1>4. PICK h : /\ h[0] = E
               /\ \A n \in 1..N : h[n] = MoverSegmento(h[n - 1], n)
               /\ Compactada = h[N]
  BY <1>1, <1>2, <1>3, CompactaPasos
<1> HIDE DEF N
<1> DEFINE P == {n \in 0..N : /\ Sana(h[n]) /\ Len(h[n].huecos) > 0
                              /\ Bajo(h[n], n) /\ Conserva(E, h[n])}
<1>5. 0 \in P
  <2>1. Bajo(E, 0)
    BY DEF Bajo
  <2>2. Conserva(E, E)
    <3>1. E.segmentos \in Seq(Segmento)
      BY <1>2
    <3>2. \A j \in 1..Len(E.segmentos) : E.segmentos[j].base \in Nat
      BY <3>1, SegmentosTipo
    <3> QED BY <3>2 DEF Conserva
  <2> QED BY <1>2, <1>4, <2>1, <2>2
<1>6. ASSUME NEW n \in 0..(N - 1), n \in P
      PROVE  n + 1 \in P
  <2>1. PICK k \in 1..N : k = n + 1 /\ k - 1 = n
    BY <1>2
  <2>2. PICK m : m = h[n]
    OBVIOUS
  <2>3. PICK d : d = h[k]
    OBVIOUS
  <2>4. /\ Sana(m) /\ Len(m.huecos) > 0 /\ Bajo(m, k - 1) /\ Conserva(E, m)
    BY <1>6, <2>1, <2>2
  <2>5. d = MoverSegmento(m, k)
    BY <1>4, <2>1, <2>2, <2>3
  <2>6. m \in Estados /\ Len(m.segmentos) = N /\ m.segmentos \in Seq(Segmento)
        /\ k \in DOMAIN m.segmentos /\ m \in ConHueco(N)
    <3>1. m \in Estados /\ Len(m.segmentos) = N
      BY <1>2, <2>4 DEF Sana, Conserva
    <3> QED BY <2>4, <3>1 DEF Estados, ConHueco
  <2>7. ASSUME m.segmentos[k].base > m.huecos[1].base
        PROVE  /\ Sana(d) /\ Len(d.huecos) > 0 /\ Bajo(d, k)
               /\ Conserva(E, d)
    <3>1. d = Movida(m, k)
      BY <1>2, <2>5, <2>6, <2>7, Mueve
    <3>2. Sana(d) /\ Bajo(d, k) /\ Conserva(m, d)
      BY <2>4, <2>6, <2>7, <3>1, Corrimiento
    <3>3. Len(d.huecos) > 0
      <4>1. d \in ConHueco(N)
        BY <1>2, <2>5, <2>6, Mueve
      <4> QED BY <4>1 DEF ConHueco
    <3>4. Conserva(E, d)
      <4>1. d.segmentos \in Seq(Segmento) /\ Len(d.segmentos) = N
        BY <2>6, <3>2 DEF Sana, Estados, Conserva
      <4>2. \A j \in 1..N : E.segmentos[j].base \in Nat
        BY <1>2, SegmentosTipo
      <4>3. \A j \in 1..N : m.segmentos[j].base \in Nat
        BY <2>6, SegmentosTipo
      <4>4. \A j \in 1..N : d.segmentos[j].base \in Nat
        BY <4>1, SegmentosTipo
      <4>5. ASSUME NEW j \in 1..N
            PROVE  d.segmentos[j].base <= E.segmentos[j].base
        <5>1. d.segmentos[j].base <= m.segmentos[j].base
          BY <2>6, <3>2 DEF Conserva
        <5>2. m.segmentos[j].base <= E.segmentos[j].base
          BY <1>2, <2>4 DEF Conserva
        <5> QED BY <4>2, <4>3, <4>4, <5>1, <5>2
      <4> QED BY <1>2, <2>4, <2>6, <3>2, <4>5 DEF Conserva
    <3> QED BY <3>2, <3>3, <3>4
  <2>8. ASSUME ~(m.segmentos[k].base > m.huecos[1].base)
        PROVE  /\ Sana(d) /\ Len(d.huecos) > 0 /\ Bajo(d, k)
               /\ Conserva(E, d)
    <3>1. d = m
      BY <1>2, <2>5, <2>6, <2>8, Mueve
    <3>2. Fin(m.segmentos[k]) <= m.huecos[1].base
      BY <2>4, <2>6, <2>8, YaAbajo
    <3>3. Bajo(d, k)
      <4>1. ASSUME NEW j \in 1..k PROVE Fin(m.segmentos[j]) <= m.huecos[1].base
        <5>1. CASE j = k
          BY <3>2, <5>1
        <5>2. CASE j # k
          <6>1. j \in 1..(k - 1)
            BY <5>2
          <6> QED BY <2>4, <6>1 DEF Bajo
        <5> QED BY <5>1, <5>2
      <4> QED BY <3>1, <4>1 DEF Bajo
    <3> QED BY <2>4, <3>1, <3>3
  <2>9. k \in P
    BY <1>2, <2>3, <2>7, <2>8
  <2> HIDE DEF P
  <2> QED BY <2>1, <2>9
<1> HIDE DEF P
<1>7. \A n \in 0..N : n \in P
  BY <1>2, <1>5, <1>6, Induccion
<1>8. PICK c : c = h[N]
  OBVIOUS
<1>9. Sana(c) /\ Len(c.huecos) > 0 /\ Bajo(c, N) /\ Conserva(E, c)
  <2>1. N \in P
    BY <1>2, <1>7
  <2> QED BY <1>8, <2>1 DEF P
<1>10. Len(c.segmentos) = N
  BY <1>2, <1>9 DEF Conserva
<1>11. Len(c.huecos) = 1
  BY <1>9, <1>10, UnHueco
<1> QED
  BY <1>1, <1>4, <1>8, <1>9, <1>11
-----------------------------------------------------------------------------

(* The tables, and the end of a process.                                   *)

Tablas == [PIDS -> [IDS -> [base : Nat, tam : Nat, activo : BOOLEAN]]]

(* A set of tables tells of the segments of a list and of no other.        *)
Acuerdo(t, g) ==
  /\ \A k \in DOMAIN g : /\ t[g[k].pid][g[k].id].activo
                         /\ t[g[k].pid][g[k].id].base = g[k].base
                         /\ t[g[k].pid][g[k].id].tam = g[k].limite
  /\ \A p \in PIDS, i \in IDS :
       t[p][i].activo => \E k \in DOMAIN g : g[k].pid = p /\ g[k].id = i

(* No segment is twice in a list in order that a table tells of.           *)
LEMMA AcuerdoUnico ==
  ASSUME NEW g \in Seq(Segmento), Ordenada(g), NEW t, Acuerdo(t, g),
         NEW k \in DOMAIN g, NEW j \in DOMAIN g,
         g[k].pid = g[j].pid, g[k].id = g[j].id
  PROVE  k = j
<1>1. g[k].base = g[j].base
  BY DEF Acuerdo
<1>2. EsTramo(Segmento)
  BY DEF EsTramo, Segmento
<1> QED BY <1>1, <1>2, BaseUnica

(* The tables when the segment of a list is deleted.                       *)
SinUno(t, u, p, id) ==
  /\ ~u[p][id].activo
  /\ \A q \in PIDS, i \in IDS : (q # p \/ i # id) => u[q][i] = t[q][i]

(* Deleting a segment by the base and the size its table gives.            *)
LEMMA BorraUno ==
  ASSUME NEW m, Sana(m), NEW t \in Tablas, Acuerdo(t, m.segmentos),
         NEW p \in PIDS, NEW id \in IDS, t[p][id].activo,
         NEW u \in Tablas, SinUno(t, u, p, id),
         NEW b, b = t[p][id].base, NEW z, z = t[p][id].tam
  PROVE  /\ Sana(BorrarSegmento(m, b, z))
         /\ Acuerdo(u, BorrarSegmento(m, b, z).segmentos)
<1>1. PICK g : g = m.segmentos
  OBVIOUS
<1>2. /\ g \in Seq(Segmento) /\ Ordenada(g) /\ Acuerdo(t, g)
      /\ DOMAIN g = 1..Len(g) /\ Len(g) \in Nat
  BY <1>1 DEF Sana, Estados
<1>3. PICK k \in DOMAIN g : g[k].pid = p /\ g[k].id = id
  BY <1>2 DEF Acuerdo
<1>4. b = g[k].base /\ z = g[k].limite
  BY <1>2, <1>3 DEF Acuerdo
<1>5. PICK d : d = BorrarSegmento(m, b, z)
  OBVIOUS
<1>6. Sana(d) /\ d.segmentos = RemoveAt(g, k)
  BY <1>1, <1>3, <1>4, <1>5, Borrado
<1>7. PICK r : r = RemoveAt(g, k)
  OBVIOUS
<1>8. /\ DOMAIN r = 1..(Len(g) - 1)
      /\ \A j \in 1..(Len(g) - 1) : r[j] = IF j < k THEN g[j] ELSE g[j + 1]
  BY <1>2, <1>7, QuitarTipo
<1>9. ASSUME NEW j \in DOMAIN r
      PROVE  \E i \in DOMAIN g : i # k /\ r[j] = g[i]
  <2>1. CASE j < k
    BY <1>2, <1>8, <2>1
  <2>2. CASE j >= k
    <3>1. j + 1 \in DOMAIN g /\ j + 1 # k
      BY <1>2, <1>8, <2>2
    <3> QED BY <1>8, <2>2, <3>1
  <2> QED BY <1>2, <1>8, <2>1, <2>2
<1>10. ASSUME NEW i \in DOMAIN g, i # k
       PROVE  \E j \in DOMAIN r : r[j] = g[i]
  <2>1. CASE i < k
    BY <1>2, <1>8, <2>1
  <2>2. CASE i > k
    <3>1. i - 1 \in DOMAIN r /\ ~(i - 1 < k) /\ (i - 1) + 1 = i
      BY <1>2, <1>8, <2>2
    <3> QED BY <1>8, <3>1
  <2> QED BY <1>2, <1>10, <2>1, <2>2
<1>11. ASSUME NEW j \in DOMAIN r
       PROVE  /\ u[r[j].pid][r[j].id].activo
              /\ u[r[j].pid][r[j].id].base = r[j].base
              /\ u[r[j].pid][r[j].id].tam = r[j].limite
  <2>1. PICK i \in DOMAIN g : i # k /\ r[j] = g[i]
    BY <1>9
  <2>2. g[i].pid # p \/ g[i].id # id
    BY <1>2, <1>3, <2>1, AcuerdoUnico
  <2>3. g[i].pid \in PIDS /\ g[i].id \in IDS
    BY <1>2, SegmentosTipo
  <2>4. u[g[i].pid][g[i].id] = t[g[i].pid][g[i].id]
    BY <2>2, <2>3 DEF SinUno
  <2> QED BY <1>2, <2>1, <2>4 DEF Acuerdo
<1>12. ASSUME NEW q \in PIDS, NEW i \in IDS, u[q][i].activo
       PROVE  \E j \in DOMAIN r : r[j].pid = q /\ r[j].id = i
  <2>1. (q # p \/ i # id) /\ t[q][i].activo
    BY <1>12 DEF SinUno
  <2>2. PICK n \in DOMAIN g : g[n].pid = q /\ g[n].id = i
    BY <1>2, <2>1 DEF Acuerdo
  <2>3. n # k
    BY <1>3, <2>1, <2>2
  <2> QED BY <1>10, <2>2, <2>3
<1>13. Acuerdo(u, r)
  BY <1>11, <1>12 DEF Acuerdo
<1> QED
  BY <1>5, <1>6, <1>7, <1>13

(* borrar_segmento keeps the lists being lists, whatever it is asked for.  *)
LEMMA BorrarTipo ==
  ASSUME NEW m \in Estados, NEW b \in Nat, NEW z \in Nat
  PROVE  BorrarSegmento(m, b, z) \in Estados
<1>1. PICK h : h = m.huecos
  OBVIOUS
<1>2. PICK g : g = m.segmentos
  OBVIOUS
<1>3. /\ h \in Seq(Hueco) /\ Len(h) \in Nat /\ DOMAIN h = 1..Len(h)
      /\ g \in Seq(Segmento) /\ Len(g) \in Nat /\ DOMAIN g = 1..Len(g)
      /\ m.libre \in Int
  BY <1>1, <1>2 DEF Estados
<1>4. PICK x : x = [base |-> b, limite |-> z]
  OBVIOUS
<1>5. x \in Hueco /\ x.base = b
  BY <1>4 DEF Hueco
<1>6. PICK q : q = Cardinality({i \in DOMAIN h : h[i].base < b})
  OBVIOUS
<1>7. q \in 0..Len(h)
  <2>1. IsFiniteSet(1..Len(h)) /\ Cardinality(1..Len(h)) = Len(h)
    <3>1. PICK a \in Nat : a = Len(h)
      BY <1>3
    <3>2. /\ IsFiniteSet(1..a)
          /\ Cardinality(1..a) = IF 1 > a THEN 0 ELSE a - 1 + 1
      BY FS_Interval
    <3>3. (IF 1 > a THEN 0 ELSE a - 1 + 1) = a
      OBVIOUS
    <3> QED BY <3>1, <3>2, <3>3
  <2>2. {i \in DOMAIN h : h[i].base < b} \in SUBSET (1..Len(h))
    BY <1>3
  <2>3. /\ IsFiniteSet({i \in DOMAIN h : h[i].base < b})
        /\ Cardinality({i \in DOMAIN h : h[i].base < b}) <= Cardinality(1..Len(h))
    BY <2>1, <2>2, FS_Subset
  <2>4. q \in Nat
    BY <1>6, <2>3, FS_CardinalityType
  <2> QED BY <1>3, <1>6, <2>1, <2>3, <2>4
<1>8. PICK n \in 1..(Len(h) + 1) : n = q + 1
  BY <1>3, <1>7
<1>9. PICK c : c = AgregarOrdenado(h, x)
  OBVIOUS
<1>10. c \in Seq(Hueco)
  <2>1. c = InsertAt(h, n, x)
    BY <1>5, <1>6, <1>8, <1>9 DEF AgregarOrdenado
  <2> QED BY <1>3, <1>5, <2>1, InsertarTipo
<1>11. PICK k \in Int : k = n - 1
  OBVIOUS
<1>12. PICK u : u = UnirSiguiente(UnirSiguiente(c, n), k)
  OBVIOUS
<1>13. u \in Seq(Hueco)
  <2>1. PICK v : v = UnirSiguiente(c, n)
    OBVIOUS
  <2>2. v \in Seq(Hueco)
    BY <1>10, <2>1, UnirTipo
  <2> QED BY <1>12, <2>1, <2>2, UnirTipo
<1>14. PICK s : s = PorBase(g, b)
  OBVIOUS
<1>15. RemoveAt(g, s) \in Seq(Segmento)
  <2> DEFINE I == {i \in 1..Len(g) : g[i].base = b}
  <2>1. s = IF I # {} THEN Min(I) ELSE 0
    BY <1>14 DEF PorBase, SelectInSeq
  <2>2. s \in 0..Len(g)
    <3>1. I \in SUBSET (1..Len(g))
      OBVIOUS
    <3> HIDE DEF I
    <3>2. I # {} => Min(I) \in I
      BY <1>3, <3>1, MinimoDe
    <3>3. I # {} => Min(I) \in 1..Len(g)
      BY <3>1, <3>2
    <3>4. CASE I = {}
      BY <1>3, <2>1, <3>4
    <3>5. CASE I # {}
      BY <1>3, <2>1, <3>3, <3>5
    <3> QED BY <3>4, <3>5
  <2>3. CASE s \in DOMAIN g
    BY <1>3, <2>3, QuitarTipo
  <2>4. CASE s = 0
    <3>1. PICK a : a = SubSeq(g, 1, s - 1)
      OBVIOUS
    <3>2. PICK e : e = SubSeq(g, s + 1, Len(g))
      OBVIOUS
    <3>3. a \in Seq(Segmento)
      BY <1>3, <2>4, <3>1
    <3>4. e \in Seq(Segmento)
      BY <1>3, <2>4, <3>2
    <3> QED BY <3>1, <3>2, <3>3, <3>4 DEF RemoveAt
  <2> QED BY <1>3, <2>2, <2>3, <2>4
<1>16. PICK w : w = RemoveAt(g, s)
  OBVIOUS
<1>17. BorrarSegmento(m, b, z) = [huecos |-> u, segmentos |-> w, libre |-> m.libre + z]
  <2>1. k = (q + 1) - 1 /\ n = q + 1
    BY <1>8, <1>11
  <2>2. BorrarSegmento(m, b, z) =
          [huecos    |-> UnirSiguiente(UnirSiguiente(AgregarOrdenado(h, x), q + 1), (q + 1) - 1),
           segmentos |-> RemoveAt(g, PorBase(g, b)),
           libre     |-> m.libre + z]
    BY <1>1, <1>2, <1>4, <1>6, Zenon DEF BorrarSegmento, PorBase
  <2> QED BY <1>9, <1>12, <1>14, <1>16, <2>1, <2>2
<1> QED
  BY <1>3, <1>13, <1>15, <1>16, <1>17 DEF Estados

(* The release of one entry of a table, as terminar_proceso does it.       *)
Baja(p, m, i) ==
  IF tabla_segmentos[p][i].activo
    THEN BorrarSegmento(m, tabla_segmentos[p][i].base,
                        tabla_segmentos[p][i].tam)
    ELSE m

(* terminar_proceso goes through the table in its order.                   *)
LEMMA LiberaPasos ==
  ASSUME NEW p \in PIDS, tabla_segmentos \in Tablas, EstadoMemoria \in Estados
  PROVE  \E h : /\ h[0] = EstadoMemoria
                /\ \A n \in IDS : h[n] = Baja(p, h[n - 1], n)
                /\ Liberado(p) = h[CANT_SEGMENTOS - 1]
<1> DEFINE l == tabla_segmentos[p]
           N == CANT_SEGMENTOS - 1
           E == EstadoMemoria
           paso == [x \in (1..N) \X Estados |-> Baja(p, x[2], x[1])]
           Sigue(it, s) == IF s = {} THEN E
                           ELSE Baja(p, it[s \ {Max(s)}], Max(s))
           SigueD(it, s) == IF s = {} THEN E
                            ELSE Baja(p, it[s \ {Max(s)}],
                                      [i \in DOMAIN l |-> i][Max(s)])
           D == DOMAIN [i \in DOMAIN l |-> i]
           it == CHOOSE it : it = [s \in SUBSET D |-> SigueD(it, s)]
           h == [n \in 0..N |-> it[1..n]]
<1>1. N \in Nat /\ DOMAIN l = 1..N /\ D = 1..N /\ IDS = 1..N
      /\ \A i \in 1..N : l[i].base \in Nat /\ l[i].tam \in Nat
  <2>1. IDS = 1..N /\ N \in Nat
    BY SupuestoMemoria DEF IDS
  <2>2. l \in [IDS -> [base : Nat, tam : Nat, activo : BOOLEAN]]
    BY DEF Tablas
  <2>3. \A i \in IDS : l[i] \in [base : Nat, tam : Nat, activo : BOOLEAN]
    BY <2>2
  <2> QED BY <2>1, <2>2, <2>3
<1>2. Liberado(p) = it[D]
  BY DEF Liberado, FoldLeftDomain, FoldLeft, MapThenFoldSet, Baja
<1>3. ASSUME NEW n \in 1..N, NEW t \in Estados
      PROVE  paso[<<n, t>>] = Baja(p, t, n) /\ Baja(p, t, n) \in Estados
  <2>1. Baja(p, t, n) \in Estados
    <3>1. PICK b \in Nat : b = tabla_segmentos[p][n].base
      BY <1>1
    <3>2. PICK z \in Nat : z = tabla_segmentos[p][n].tam
      BY <1>1
    <3>3. BorrarSegmento(t, b, z) \in Estados
      BY BorrarTipo
    <3> QED BY <3>1, <3>2, <3>3 DEF Baja
  <2> QED BY <2>1
<1> HIDE DEF paso
<1>4. \A s \in SUBSET (1..N) : it[s] = Sigue(it, s)
  <2>1. E \in Estados /\ SePliega(N, Estados, paso)
    BY <1>1, <1>3 DEF SePliega
  <2>2. PICK jt : Pliegue(jt, N, Estados, E, paso)
    <3> HIDE DEF N, it, h, l, E
    <3> QED BY <1>1, <2>1, PliegueExiste
  <2>3. ASSUME NEW s \in SUBSET (1..N)
        PROVE  jt[s] = SigueD(jt, s) /\ \A kt : SigueD(kt, s) = Sigue(kt, s)
    <3>1. CASE s = {}
      BY <2>2, <3>1 DEF Pliegue, PasoDePliegue
    <3>2. CASE s # {}
      <4>1. Max(s) \in s
        <5> HIDE DEF N, it, h, l
        <5> QED BY <1>1, <3>2, MaximoDe
      <4>2. [i \in DOMAIN l |-> i][Max(s)] = Max(s)
        BY <1>1, <4>1
      <4>3. jt[s \ {Max(s)}] \in Estados /\ Max(s) \in 1..N
        BY <2>2, <4>1 DEF Pliegue
      <4>4. jt[s] = paso[<<Max(s), jt[s \ {Max(s)}]>>]
        BY <2>2, <3>2 DEF Pliegue, PasoDePliegue
      <4>5. jt[s] = Baja(p, jt[s \ {Max(s)}], Max(s))
        <5> HIDE DEF N
        <5> QED BY <1>3, <4>3, <4>4
      <4>6. jt[s] = SigueD(jt, s)
        BY <3>2, <4>2, <4>5
      <4>7. \A kt : SigueD(kt, s) = Sigue(kt, s)
        BY <3>2, <4>2
      <4> QED
        BY <4>6, <4>7
    <3> QED BY <3>1, <3>2
  <2>4. jt = [s \in SUBSET D |-> SigueD(jt, s)]
    BY <1>1, <2>2, <2>3 DEF Pliegue
  <2>5. it = [s \in SUBSET D |-> SigueD(it, s)]
    <3> HIDE DEF SigueD, D
    <3> QED BY <2>4
  <2> HIDE DEF it, SigueD, Sigue
  <2> QED
    BY <1>1, <2>3, <2>5
<1> HIDE DEF it
<1>5. h[0] = E
  <2>1. 1..0 = {} /\ {} \in SUBSET (1..N) /\ 0 \in 0..N
    BY <1>1
  <2> QED BY <2>1, <1>4
<1>6. ASSUME NEW n \in 1..N
      PROVE  h[n] = Baja(p, h[n - 1], n)
  <2>1. 1..n # {} /\ Max(1..n) = n /\ (1..n) \ {n} = 1..(n - 1)
    BY <1>1, Hasta
  <2>2. 1..n \in SUBSET (1..N)
    BY <1>1
  <2>3. it[1..n] = Baja(p, it[1..(n - 1)], n)
    BY <1>4, <2>1, <2>2
  <2> QED
    BY <1>1, <2>3
<1>7. h[N] = it[D]
  BY <1>1
<1>8. Liberado(p) = h[N]
  BY <1>2, <1>7
<1> HIDE DEF h
<1> QED
  BY <1>1, <1>5, <1>6, <1>8

(* The tables when the first n entries of p have been released.            *)
TablaHasta(p, n) ==
  [tabla_segmentos EXCEPT ![p] =
     [i \in IDS |-> IF i <= n THEN Inactivo ELSE tabla_segmentos[p][i]]]

(* They are tables, and differ in those entries alone.                     *)
LEMMA HastaTipo ==
  ASSUME NEW p \in PIDS, NEW n \in Nat, tabla_segmentos \in Tablas
  PROVE  /\ TablaHasta(p, n) \in Tablas
         /\ \A i \in IDS : TablaHasta(p, n)[p][i] =
              IF i <= n THEN Inactivo ELSE tabla_segmentos[p][i]
         /\ \A q \in PIDS : q # p => TablaHasta(p, n)[q] = tabla_segmentos[q]
<1> DEFINE E == [base : Nat, tam : Nat, activo : BOOLEAN]
<1>1. PICK f : f = [i \in IDS |-> IF i <= n THEN Inactivo
                                  ELSE tabla_segmentos[p][i]]
  OBVIOUS
<1>2. Inactivo \in E
  BY DEF Inactivo
<1>3. tabla_segmentos \in [PIDS -> [IDS -> E]]
  BY DEF Tablas
<1> HIDE DEF E
<1>4. f \in [IDS -> E]
  BY <1>1, <1>2, <1>3
<1>5. [tabla_segmentos EXCEPT ![p] = f] \in [PIDS -> [IDS -> E]]
  BY <1>3, <1>4
<1>6. TablaHasta(p, n) = [tabla_segmentos EXCEPT ![p] = f]
  BY <1>1 DEF TablaHasta
<1> QED
  BY <1>1, <1>3, <1>5, <1>6 DEF Tablas, E

(* After the release the allocator is in order, without the process.       *)
LEMMA Libera ==
  ASSUME NEW p \in PIDS, tabla_segmentos \in Tablas, Sana(EstadoMemoria),
         Acuerdo(tabla_segmentos, LISTA_GLOBAL_SEGMENTOS)
  PROVE  /\ Sana(Liberado(p))
         /\ Acuerdo([tabla_segmentos EXCEPT ![p] = [i \in IDS |-> Inactivo]],
                    Liberado(p).segmentos)
<1> DEFINE N == CANT_SEGMENTOS - 1
<1>1. N \in Nat /\ IDS = 1..N
  BY SupuestoMemoria DEF IDS
<1>2. EstadoMemoria \in Estados
      /\ EstadoMemoria.segmentos = LISTA_GLOBAL_SEGMENTOS
  BY DEF Sana, EstadoMemoria
<1>3. PICK h : /\ h[0] = EstadoMemoria
               /\ \A n \in IDS : h[n] = Baja(p, h[n - 1], n)
               /\ Liberado(p) = h[N]
  BY <1>2, LiberaPasos
<1> HIDE DEF N
<1> DEFINE P == {n \in 0..N : Sana(h[n]) /\ Acuerdo(TablaHasta(p, n), h[n].segmentos)}
<1>4. 0 \in P
  <2>1. TablaHasta(p, 0) = tabla_segmentos
    <3>1. [i \in IDS |-> IF i <= 0 THEN Inactivo ELSE tabla_segmentos[p][i]]
            = tabla_segmentos[p]
      BY <1>1 DEF Tablas
    <3> QED BY <3>1 DEF TablaHasta, Tablas
  <2> QED BY <1>1, <1>2, <1>3, <2>1
<1>5. ASSUME NEW n \in 0..(N - 1), n \in P
      PROVE  n + 1 \in P
  <2>1. PICK k \in IDS : k = n + 1 /\ k - 1 = n /\ k \in 1..N
    BY <1>1
  <2>2. PICK m : m = h[n]
    OBVIOUS
  <2>3. PICK d : d = h[k]
    OBVIOUS
  <2>4. PICK t : t = TablaHasta(p, n)
    OBVIOUS
  <2>5. PICK u : u = TablaHasta(p, k)
    OBVIOUS
  <2>6. /\ t \in Tablas
        /\ \A i \in IDS : t[p][i] = IF i <= n THEN Inactivo ELSE tabla_segmentos[p][i]
        /\ \A q \in PIDS : q # p => t[q] = tabla_segmentos[q]
    BY <2>4, HastaTipo
  <2>7. /\ u \in Tablas
        /\ \A i \in IDS : u[p][i] = IF i <= k THEN Inactivo ELSE tabla_segmentos[p][i]
        /\ \A q \in PIDS : q # p => u[q] = tabla_segmentos[q]
    BY <1>1, <2>1, <2>5, HastaTipo
  <2>8. Sana(m) /\ Acuerdo(t, m.segmentos)
    BY <1>5, <2>2, <2>4
  <2>9. d = Baja(p, m, k)
    BY <1>3, <2>1, <2>2, <2>3
  <2>10. t[p][k] = tabla_segmentos[p][k]
    BY <1>1, <2>1, <2>6
  <2>11. SinUno(t, u, p, k)
    <3>1. ~u[p][k].activo
      BY <1>1, <2>1, <2>7 DEF Inactivo
    <3>2. ASSUME NEW q \in PIDS, NEW i \in IDS, q # p \/ i # k
          PROVE  u[q][i] = t[q][i]
      <4>1. CASE q # p
        BY <2>6, <2>7, <4>1
      <4>2. CASE q = p
        <5>1. i <= k <=> i <= n
          BY <1>1, <2>1, <3>2, <4>2
        <5> QED BY <2>6, <2>7, <4>2, <5>1
      <4> QED BY <4>1, <4>2
    <3> QED BY <3>1, <3>2 DEF SinUno
  <2>12. CASE tabla_segmentos[p][k].activo
    <3>1. PICK b : b = t[p][k].base
      OBVIOUS
    <3>2. PICK z : z = t[p][k].tam
      OBVIOUS
    <3>3. d = BorrarSegmento(m, b, z)
      BY <2>9, <2>10, <2>12, <3>1, <3>2 DEF Baja
    <3>4. t[p][k].activo
      BY <2>10, <2>12
    <3>5. Sana(d) /\ Acuerdo(u, d.segmentos)
      BY <2>6, <2>7, <2>8, <2>11, <3>1, <3>2, <3>3, <3>4, BorraUno
    <3>6. k \in P
      BY <1>1, <2>1, <2>3, <2>5, <3>5
    <3> HIDE DEF P
    <3> QED BY <2>1, <3>6
  <2>13. CASE ~tabla_segmentos[p][k].activo
    <3>1. d = m
      BY <2>9, <2>13 DEF Baja
    <3>2. \A q \in PIDS, i \in IDS : /\ u[q][i].activo => t[q][i].activo
                                     /\ t[q][i].activo => u[q][i] = t[q][i]
      <4> SUFFICES ASSUME NEW q \in PIDS, NEW i \in IDS
                   PROVE  /\ u[q][i].activo => t[q][i].activo
                          /\ t[q][i].activo => u[q][i] = t[q][i]
        OBVIOUS
      <4>1. CASE q # p \/ i # k
        BY <2>11, <4>1 DEF SinUno
      <4>2. CASE q = p /\ i = k
        BY <2>10, <2>11, <2>13, <4>2 DEF SinUno
      <4> QED BY <4>1, <4>2
    <3>3. PICK g : g = m.segmentos
      OBVIOUS
    <3>4. Acuerdo(u, g)
      <4>1. Acuerdo(t, g) /\ g \in Seq(Segmento)
        BY <2>8, <3>3 DEF Sana, Estados
      <4>2. \A j \in DOMAIN g : g[j].pid \in PIDS /\ g[j].id \in IDS
        BY <4>1, SegmentosTipo
      <4>3. ASSUME NEW j \in DOMAIN g
            PROVE  u[g[j].pid][g[j].id] = t[g[j].pid][g[j].id]
        BY <3>2, <4>1, <4>2 DEF Acuerdo
      <4> QED BY <3>2, <4>1, <4>3 DEF Acuerdo
    <3>5. Sana(d) /\ Acuerdo(u, d.segmentos)
      BY <2>8, <3>1, <3>3, <3>4
    <3>6. k \in P
      BY <1>1, <2>1, <2>3, <2>5, <3>5
    <3> HIDE DEF P
    <3> QED BY <2>1, <3>6
  <2> HIDE DEF P
  <2> QED BY <2>12, <2>13
<1> HIDE DEF P
<1>6. \A n \in 0..N : n \in P
  BY <1>1, <1>4, <1>5, Induccion
<1>7. Sana(h[N]) /\ Acuerdo(TablaHasta(p, N), h[N].segmentos)
  <2>1. N \in P
    BY <1>1, <1>6
  <2> QED BY <2>1 DEF P
<1>8. TablaHasta(p, N) = [tabla_segmentos EXCEPT ![p] = [i \in IDS |-> Inactivo]]
  <2>1. [i \in IDS |-> IF i <= N THEN Inactivo ELSE tabla_segmentos[p][i]]
          = [i \in IDS |-> Inactivo]
    BY <1>1
  <2> QED BY <2>1 DEF TablaHasta
<1> QED
  BY <1>3, <1>7, <1>8

-----------------------------------------------------------------------------
(* The invariant, kept by each request.                                    *)

(* What holds of the allocator, of the tables and of the creation that     *)
(* waits for a compaction in every state.                                  *)
PedidoPosible(q, m, t) ==
  \/ q = SinPedido
  \/ /\ q \in [estado : {"compactar", "reintentar"}, pid : PIDS, id : IDS,
               tam : TAMANIOS]
     /\ q.tam <= m.libre
     /\ ~t[q.pid][q.id].activo
     /\ q.estado = "reintentar" => Len(m.huecos) = 1

EnOrden(a, m, t, q) ==
  /\ a \in ALGORITMOS
  /\ Sana(m)
  /\ t \in Tablas /\ Acuerdo(t, m.segmentos)
  /\ PedidoPosible(q, m, t)

Orden == EnOrden(ALGORITMO_ASIGNACION, EstadoMemoria, tabla_segmentos, pedido)

(* When a request is not greater than the free bytes there is a hole.      *)
LEMMA HayHueco ==
  ASSUME NEW m, Sana(m), NEW tam \in TAMANIOS, tam <= m.libre
  PROVE  Len(m.huecos) > 0
<1>1. tam \in Nat /\ tam > 0
  BY SupuestoMemoria
<1>2. m.huecos \in Seq(Hueco) /\ Len(m.huecos) \in Nat
      /\ DOMAIN m.huecos = 1..Len(m.huecos)
      /\ m.libre = Cardinality(BytesDe(m.huecos))
  BY DEF Sana, Estados
<1>3. ASSUME Len(m.huecos) = 0 PROVE FALSE
  <2>1. BytesDe(m.huecos) = {}
    BY <1>2, <1>3 DEF BytesDe, Cubre
  <2>2. m.libre = 0
    BY <1>2, <2>1, FS_EmptySet
  <2> QED BY <1>1, <2>2
<1> QED BY <1>2, <1>3

(* The lists and the total are the fields of the state.                    *)
LEMMA Campos ==
  /\ EstadoMemoria.huecos = LISTA_ESPACIOS_LIBRES
  /\ EstadoMemoria.segmentos = LISTA_GLOBAL_SEGMENTOS
  /\ EstadoMemoria.libre = ESPACIO_LIBRE_TOTAL
  BY DEF EstadoMemoria

(* QuedaMemoria leaves the allocator in the state it is given.             *)
LEMMA Queda ==
  ASSUME NEW m \in Estados, QuedaMemoria(m)
  PROVE  EstadoMemoria' = m
<1>1. m = [huecos |-> m.huecos, segmentos |-> m.segmentos, libre |-> m.libre]
  BY DEF Estados
<1>2. EstadoMemoria' = [huecos |-> m.huecos, segmentos |-> m.segmentos,
                        libre |-> m.libre]
  BY DEF QuedaMemoria, EstadoMemoria
<1> QED BY <1>1, <1>2

(* levantar_estructuras_administrativas.                                   *)
LEMMA OrdenInit == Init => Orden
<1> SUFFICES ASSUME Init PROVE Orden
  OBVIOUS
<1>1. PICK b \in Nat : b = TAM_SEGMENTO_0
  BY SupuestoMemoria
<1>2. PICK z \in Nat : z = TAM_MEMORIA - TAM_SEGMENTO_0 /\ z > 0
                       /\ b + z = TAM_MEMORIA
  BY <1>1, SupuestoMemoria
<1>3. PICK e \in Hueco : e = [base |-> b, limite |-> z] /\ e.base = b /\ e.limite = z
  <2>1. [base |-> b, limite |-> z] \in Hueco
    BY DEF Hueco
  <2> QED BY <2>1
<1>4. PICK h : h = <<e>>
  OBVIOUS
<1>5. h \in Seq(Hueco) /\ Len(h) = 1 /\ DOMAIN h = 1..1 /\ h[1] = e
  BY <1>4
<1>6. PICK g : g = <<>>
  OBVIOUS
<1>7. g \in Seq(Segmento) /\ Len(g) = 0 /\ DOMAIN g = {}
  BY <1>6
<1>8. PICK m : m = EstadoMemoria
  OBVIOUS
<1>9. m = [huecos |-> h, segmentos |-> g, libre |-> z]
  BY <1>1, <1>2, <1>3, <1>4, <1>6, <1>8 DEF Init, EstadoMemoria
<1>10. /\ m \in Estados /\ m.huecos = h /\ m.segmentos = g /\ m.libre = z
  BY <1>5, <1>7, <1>9 DEF Estados
<1>11. Ordenada(h) /\ SinTocarse(h) /\ Ordenada(g)
  <2>1. \A i, j \in 1..1 : ~(i < j)
    OBVIOUS
  <2>2. e.limite > 0
    BY <1>2, <1>3
  <2>3. Ordenada(h)
    BY <1>5, <2>1, <2>2 DEF Ordenada
  <2>4. SinTocarse(h)
    BY <1>5 DEF SinTocarse
  <2> QED BY <1>7, <2>3, <2>4 DEF Ordenada
<1>12. \A y \in Nat : Cubre(h, y) <=> b <= y /\ y < b + z
  BY <1>3, <1>5 DEF Cubre, EsDe, Fin
<1>13. Reparte(h, g)
  <2>1. \A y : ~Cubre(g, y)
    BY <1>7 DEF Cubre
  <2>2. \A y \in Nat : y \in TAM_SEGMENTO_0..(TAM_MEMORIA - 1) <=> b <= y /\ y < b + z
    BY <1>1, <1>2
  <2> QED BY <1>12, <2>1, <2>2 DEF Reparte
<1>14. Cardinality(BytesDe(h)) = z
  <2>1. PICK c \in Int : c = b + z - 1
    OBVIOUS
  <2>2. BytesDe(h) = b..c
    BY <1>12, <2>1 DEF BytesDe
  <2>3. Cardinality(b..c) = IF b > c THEN 0 ELSE c - b + 1
    BY FS_Interval
  <2> QED BY <1>2, <2>1, <2>2, <2>3
<1>15. Sana(m)
  BY <1>10, <1>11, <1>13, <1>14 DEF Sana
<1>16. /\ tabla_segmentos \in Tablas
       /\ \A p \in PIDS, i \in IDS : ~tabla_segmentos[p][i].activo
  BY DEF Init, Inactivo, Tablas
<1>17. Acuerdo(tabla_segmentos, g)
  BY <1>7, <1>16 DEF Acuerdo
<1>18. pedido = SinPedido /\ ALGORITMO_ASIGNACION \in ALGORITMOS
  BY DEF Init
<1> QED
  BY <1>8, <1>10, <1>15, <1>16, <1>17, <1>18 DEF Orden, EnOrden, PedidoPosible

(* The end of a process.                                                   *)
LEMMA OrdenLibera ==
  ASSUME Orden, NEW p \in PIDS, LiberarTodo(p), UNCHANGED ALGORITMO_ASIGNACION
  PROVE  Orden'
<1>1. /\ Sana(EstadoMemoria) /\ tabla_segmentos \in Tablas
      /\ Acuerdo(tabla_segmentos, LISTA_GLOBAL_SEGMENTOS)
      /\ ALGORITMO_ASIGNACION \in ALGORITMOS
  BY Campos DEF Orden, EnOrden
<1>2. PICK u : u = [tabla_segmentos EXCEPT ![p] = [i \in IDS |-> Inactivo]]
  OBVIOUS
<1>3. PICK d : d = Liberado(p)
  OBVIOUS
<1>4. Sana(d) /\ Acuerdo(u, d.segmentos)
  BY <1>1, <1>2, <1>3, Libera
<1>5. u \in Tablas
  <2>1. Inactivo \in [base : Nat, tam : Nat, activo : BOOLEAN]
    BY DEF Inactivo
  <2> HIDE DEF Inactivo
  <2> QED BY <1>1, <1>2, <2>1 DEF Tablas
<1>6. EstadoMemoria' = d /\ tabla_segmentos' = u /\ pedido' = SinPedido
  <2>1. d \in Estados /\ QuedaMemoria(d)
    BY <1>3, <1>4 DEF LiberarTodo, Sana
  <2> QED BY <1>2, <2>1, Queda DEF LiberarTodo
<1> QED
  BY <1>1, <1>4, <1>5, <1>6 DEF Orden, EnOrden, PedidoPosible

(* The tables when a segment is created.                                   *)
LEMMA AcuerdoNuevo ==
  ASSUME NEW g \in Seq(Segmento), NEW t \in Tablas, Acuerdo(t, g),
         NEW x \in Segmento, ~t[x.pid][x.id].activo,
         NEW n \in 1..(Len(g) + 1), NEW u \in Tablas,
         u[x.pid][x.id] = [base |-> x.base, tam |-> x.limite, activo |-> TRUE],
         \A q \in PIDS, i \in IDS : (q # x.pid \/ i # x.id) => u[q][i] = t[q][i]
  PROVE  Acuerdo(u, InsertAt(g, n, x))
<1>1. PICK r : r = InsertAt(g, n, x)
  OBVIOUS
<1>2. DOMAIN g = 1..Len(g) /\ Len(g) \in Nat
  OBVIOUS
<1>3. /\ DOMAIN r = 1..(Len(g) + 1)
      /\ \A j \in 1..(n - 1) : r[j] = g[j]
      /\ r[n] = x
      /\ \A j \in n..Len(g) : r[j + 1] = g[j]
  BY <1>1, InsertarTipo
<1>4. ASSUME NEW j \in DOMAIN r
      PROVE  r[j] = x \/ \E i \in DOMAIN g : r[j] = g[i]
  <2>1. CASE j < n
    BY <1>2, <1>3, <2>1
  <2>2. CASE j > n
    <3>1. j - 1 \in n..Len(g) /\ (j - 1) + 1 = j /\ j - 1 \in DOMAIN g
      BY <1>2, <1>3, <2>2
    <3> QED BY <1>3, <3>1
  <2> QED BY <1>2, <1>3, <2>1, <2>2
<1>5. ASSUME NEW i \in DOMAIN g
      PROVE  \E j \in DOMAIN r : r[j] = g[i]
  <2>1. CASE i < n
    BY <1>2, <1>3, <2>1
  <2>2. CASE i >= n
    <3>1. i \in n..Len(g) /\ i + 1 \in DOMAIN r
      BY <1>2, <1>3, <2>2
    <3> QED BY <1>3, <3>1
  <2> QED BY <1>2, <2>1, <2>2
<1>6. ASSUME NEW j \in DOMAIN r
      PROVE  /\ u[r[j].pid][r[j].id].activo
             /\ u[r[j].pid][r[j].id].base = r[j].base
             /\ u[r[j].pid][r[j].id].tam = r[j].limite
  <2>1. CASE r[j] = x
    BY <2>1
  <2>2. ASSUME NEW i \in DOMAIN g, r[j] = g[i]
        PROVE  /\ u[g[i].pid][g[i].id].activo
               /\ u[g[i].pid][g[i].id].base = g[i].base
               /\ u[g[i].pid][g[i].id].tam = g[i].limite
    <3>1. g[i].pid \in PIDS /\ g[i].id \in IDS
      BY <1>2, SegmentosTipo
    <3>2. g[i].pid # x.pid \/ g[i].id # x.id
      BY DEF Acuerdo
    <3>3. u[g[i].pid][g[i].id] = t[g[i].pid][g[i].id]
      BY <3>1, <3>2
    <3> QED BY <3>3 DEF Acuerdo
  <2> QED BY <1>4, <2>1, <2>2
<1>7. ASSUME NEW q \in PIDS, NEW i \in IDS, u[q][i].activo
      PROVE  \E j \in DOMAIN r : r[j].pid = q /\ r[j].id = i
  <2>1. CASE q = x.pid /\ i = x.id
    BY <1>2, <1>3, <2>1
  <2>2. CASE q # x.pid \/ i # x.id
    <3>1. t[q][i].activo
      BY <1>7, <2>2
    <3>2. PICK k \in DOMAIN g : g[k].pid = q /\ g[k].id = i
      BY <3>1 DEF Acuerdo
    <3> QED BY <1>5, <3>2
  <2> QED BY <2>1, <2>2
<1> QED
  BY <1>1, <1>6, <1>7 DEF Acuerdo

(* crear_segmento, when there is a hole for the segment.                   *)
LEMMA OrdenCreado ==
  ASSUME Orden, NEW p \in PIDS, NEW id \in IDS, NEW tam \in TAMANIOS,
         ~tabla_segmentos[p][id].activo, ESPACIO_LIBRE_TOTAL >= tam,
         SegmentoCreado(p, id, tam), UNCHANGED ALGORITMO_ASIGNACION
  PROVE  Orden'
<1>1. PICK m : m = EstadoMemoria
  OBVIOUS
<1>2. PICK g : g = LISTA_GLOBAL_SEGMENTOS
  OBVIOUS
<1>3. PICK h : h = LISTA_ESPACIOS_LIBRES
  OBVIOUS
<1>4. /\ m.huecos = h /\ m.segmentos = g /\ m.libre = ESPACIO_LIBRE_TOTAL
      /\ Sana(m) /\ tabla_segmentos \in Tablas /\ Acuerdo(tabla_segmentos, g)
      /\ ALGORITMO_ASIGNACION \in ALGORITMOS
  BY <1>1, <1>2, <1>3, Campos DEF Orden, EnOrden
<1>5. h \in Seq(Hueco) /\ g \in Seq(Segmento) /\ m.libre \in Int /\ Ordenada(h)
      /\ Len(h) \in Nat /\ DOMAIN h = 1..Len(h)
      /\ Ordenada(g)
  BY <1>4 DEF Sana, Estados
<1>6. tam \in Nat /\ tam > 0
  BY SupuestoMemoria
<1>7. tam <= m.libre
  BY <1>4, <1>5, <1>6
<1>8. Len(h) > 0
  BY <1>4, <1>7, HayHueco
<1>9. PICK i : i = BuscarEspacio(tam)
  OBVIOUS
<1>10. i \in DOMAIN h /\ h[i].limite >= tam
  <2>1. Acierta(i, tam)
    BY <1>3, <1>4, <1>5, <1>6, <1>8, <1>9, BusquedaAcierta
  <2>2. i # 0
    BY <1>9 DEF SegmentoCreado
  <2> QED BY <1>3, <1>5, <2>1, <2>2 DEF Acierta, Entra
<1>11. PICK e : e = h[i]
  OBVIOUS
<1>12. e \in Hueco /\ e.base \in Nat /\ e.limite \in Nat /\ e.limite >= tam
  <2>1. e \in Hueco
    BY <1>5, <1>10, <1>11
  <2> QED BY <1>10, <1>11, <2>1 DEF Hueco
<1>13. PICK x : x = [pid |-> p, id |-> id, base |-> e.base, limite |-> tam]
  OBVIOUS
<1>14. /\ x \in Segmento /\ x.base = e.base /\ x.limite = tam
       /\ x.pid = p /\ x.id = id
  BY <1>6, <1>12, <1>13 DEF Segmento
<1>15. PICK d : d = ConSegmento(m, i, x)
  OBVIOUS
<1>16. Sana(d)
  BY <1>4, <1>6, <1>10, <1>11, <1>12, <1>14, <1>15, Creado
<1>17. EstadoMemoria' = d
  <2>1. /\ LISTA_ESPACIOS_LIBRES' = Recorte(h, i, tam)
        /\ LISTA_GLOBAL_SEGMENTOS' = AgregarOrdenado(g, x)
        /\ ESPACIO_LIBRE_TOTAL' = m.libre - tam
    BY <1>2, <1>3, <1>4, <1>9, <1>11, <1>13 DEF SegmentoCreado, Recorte
  <2>2. EstadoMemoria' = [huecos    |-> Recorte(h, i, tam),
                          segmentos |-> AgregarOrdenado(g, x),
                          libre     |-> m.libre - tam]
    BY <2>1 DEF EstadoMemoria
  <2> QED BY <1>4, <1>14, <1>15, <2>2 DEF ConSegmento
<1>18. PICK u : u = tabla_segmentos'
  OBVIOUS
<1>19. /\ u \in Tablas
       /\ u[p][id] = [base |-> x.base, tam |-> x.limite, activo |-> TRUE]
       /\ \A q \in PIDS, j \in IDS : (q # p \/ j # id) => u[q][j] = tabla_segmentos[q][j]
  <2>1. PICK f : f = [base |-> x.base, tam |-> x.limite, activo |-> TRUE]
    OBVIOUS
  <2>2. u = [tabla_segmentos EXCEPT ![p][id] = f]
    BY <1>3, <1>9, <1>11, <1>14, <1>18, <2>1 DEF SegmentoCreado
  <2>3. f \in [base : Nat, tam : Nat, activo : BOOLEAN]
    BY <1>6, <1>12, <1>14, <2>1
  <2> QED BY <1>4, <2>1, <2>2, <2>3 DEF Tablas
<1>20. d.segmentos = AgregarOrdenado(g, x)
  BY <1>4, <1>15 DEF ConSegmento
<1>21. Acuerdo(u, d.segmentos)
  <2>1. EsTramo(Segmento)
    BY DEF EsTramo, Segmento
  <2>2. PICK n \in 1..(Len(g) + 1) : AgregarOrdenado(g, x) = InsertAt(g, n, x)
    <3>1. PICK q : q = Cardinality({j \in DOMAIN g : g[j].base < x.base})
      OBVIOUS
    <3>2. q \in 0..Len(g)
      BY <1>5, <1>12, <1>14, <2>1, <3>1, Lugar
    <3>3. q + 1 \in 1..(Len(g) + 1)
      BY <1>5, <3>2
    <3> QED BY <3>1, <3>3 DEF AgregarOrdenado
  <2> QED BY <1>4, <1>5, <1>14, <1>19, <1>20, <2>2, AcuerdoNuevo
<1>22. pedido' = SinPedido
  BY DEF SegmentoCreado
<1> QED
  BY <1>4, <1>16, <1>17, <1>18, <1>19, <1>21, <1>22 DEF Orden, EnOrden, PedidoPosible

(* MEMORIA_CREATE_SEGMENT and the three reactions to its answer.           *)
LEMMA OrdenCrear ==
  ASSUME Orden, NEW p \in PIDS, NEW id \in IDS, NEW tam \in TAMANIOS,
         ~tabla_segmentos[p][id].activo,
         CrearSegmento(p, id, tam), UNCHANGED ALGORITMO_ASIGNACION
  PROVE  Orden'
<1>1. CASE LiberarTodo(p)
  BY <1>1, OrdenLibera
<1>2. CASE ESPACIO_LIBRE_TOTAL >= tam /\ SegmentoCreado(p, id, tam)
  BY <1>2, OrdenCreado
<1>3. CASE /\ ESPACIO_LIBRE_TOTAL >= tam
           /\ pedido' = [estado |-> "compactar", pid |-> p, id |-> id, tam |-> tam]
           /\ UNCHANGED <<memoria, tabla_segmentos>>
  <2>1. EstadoMemoria' = EstadoMemoria
    BY <1>3 DEF memoria, EstadoMemoria
  <2>2. tam \in Nat /\ EstadoMemoria.libre \in Int
    BY SupuestoMemoria DEF Orden, EnOrden, Sana, Estados
  <2>3. tam <= EstadoMemoria.libre
    BY <1>3, <2>2, Campos
  <2>4. PedidoPosible(pedido', EstadoMemoria, tabla_segmentos)
    BY <1>3, <2>3 DEF PedidoPosible
  <2> QED BY <1>3, <2>1, <2>4 DEF Orden, EnOrden
<1> QED
  BY <1>1, <1>2, <1>3 DEF CrearSegmento

(* The tables with the bases that memoria sends after a compaction.        *)
Actualizada(t, g) ==
  [p \in PIDS |-> [i \in IDS |->
     LET s == {k \in DOMAIN g : g[k].pid = p /\ g[k].id = i}
     IN  IF s = {} THEN t[p][i]
         ELSE [t[p][i] EXCEPT !.base = g[Max(s)].base]]]

(* They tell of the list they were read from.                              *)
LEMMA AcuerdoActualizada ==
  ASSUME NEW g \in Seq(Segmento), Ordenada(g), NEW t \in Tablas, Acuerdo(t, g),
         NEW r \in Seq(Segmento), Len(r) = Len(g),
         \A j \in 1..Len(g) : /\ r[j].pid = g[j].pid /\ r[j].id = g[j].id
                              /\ r[j].limite = g[j].limite
  PROVE  /\ Actualizada(t, r) \in Tablas
         /\ Acuerdo(Actualizada(t, r), r)
         /\ \A p \in PIDS, i \in IDS :
              Actualizada(t, r)[p][i].activo = t[p][i].activo
<1> DEFINE s(p, i) == {k \in DOMAIN r : r[k].pid = p /\ r[k].id = i}
           N == Len(g)
           E == [base : Nat, tam : Nat, activo : BOOLEAN]
<1>1. PICK u : u = Actualizada(t, r)
  OBVIOUS
<1>2. DOMAIN g = 1..N /\ DOMAIN r = 1..N /\ N \in Nat
  OBVIOUS
<1>3. \A k \in 1..N : /\ r[k].pid \in PIDS /\ r[k].id \in IDS
                      /\ r[k].base \in Nat /\ r[k].limite \in Nat
  BY SegmentosTipo
<1>4. ASSUME NEW k \in 1..N
      PROVE  Max(s(r[k].pid, r[k].id)) = k /\ k \in s(r[k].pid, r[k].id)
  <2>1. k \in s(r[k].pid, r[k].id)
    BY <1>2
  <2>2. ASSUME NEW j \in s(r[k].pid, r[k].id) PROVE j = k
    <3>1. j \in DOMAIN g /\ g[j].pid = g[k].pid /\ g[j].id = g[k].id
      BY <1>2
    <3> QED BY <1>2, <3>1, AcuerdoUnico
  <2>3. s(r[k].pid, r[k].id) \in SUBSET Int
    BY <1>2
  <2> HIDE DEF s
  <2> QED BY <2>1, <2>2, <2>3, MaximoEs
<1>5. \A p \in PIDS, i \in IDS :
        u[p][i] = IF s(p, i) = {} THEN t[p][i]
                  ELSE [t[p][i] EXCEPT !.base = r[Max(s(p, i))].base]
  BY <1>1 DEF Actualizada
<1> HIDE DEF N
<1>6. ASSUME NEW p \in PIDS, NEW i \in IDS
      PROVE  \/ s(p, i) = {} /\ u[p][i] = t[p][i]
             \/ \E k \in 1..N : /\ r[k].pid = p /\ r[k].id = i
                                /\ u[p][i] = [t[p][i] EXCEPT !.base = r[k].base]
  <2>1. CASE s(p, i) = {}
    BY <1>5, <2>1
  <2>2. CASE s(p, i) # {}
    <3>1. PICK k \in 1..N : r[k].pid = p /\ r[k].id = i
      BY <1>2, <2>2
    <3>2. Max(s(p, i)) = k
      BY <1>4, <3>1
    <3> HIDE DEF s
    <3>3. u[p][i] = [t[p][i] EXCEPT !.base = r[k].base]
      BY <1>5, <2>2, <3>2
    <3> QED BY <3>1, <3>3
  <2> QED BY <2>1, <2>2
<1>7. \A p \in PIDS, i \in IDS : t[p][i] \in E
  BY DEF Tablas
<1>8. ASSUME NEW p \in PIDS, NEW i \in IDS
      PROVE  /\ u[p][i] \in E
             /\ u[p][i].activo = t[p][i].activo /\ u[p][i].tam = t[p][i].tam
  <2>1. CASE u[p][i] = t[p][i]
    BY <1>7, <2>1
  <2>2. ASSUME NEW k \in 1..N, u[p][i] = [t[p][i] EXCEPT !.base = r[k].base]
        PROVE  /\ u[p][i] \in E
               /\ u[p][i].activo = t[p][i].activo /\ u[p][i].tam = t[p][i].tam
    <3>1. PICK e \in E : e = t[p][i]
      BY <1>7
    <3>2. PICK b \in Nat : b = r[k].base
      BY <1>3
    <3>3. PICK v : v = [e EXCEPT !.base = b]
      OBVIOUS
    <3>4. v \in E /\ v.activo = e.activo /\ v.tam = e.tam
      BY ONLY <3>3, e \in E, b \in Nat
    <3> QED BY ONLY <2>2, <3>1, <3>2, <3>3, <3>4
  <2>3. \/ u[p][i] = t[p][i]
        \/ \E k \in 1..N : u[p][i] = [t[p][i] EXCEPT !.base = r[k].base]
    BY <1>6
  <2>4. CASE \E k \in 1..N : u[p][i] = [t[p][i] EXCEPT !.base = r[k].base]
    <3>1. PICK k \in 1..N : u[p][i] = [t[p][i] EXCEPT !.base = r[k].base]
      BY ONLY <2>4
    <3> QED BY ONLY <3>1, <2>2
  <2> QED BY ONLY <2>1, <2>3, <2>4
<1>9. u \in Tablas
  <2> HIDE DEF E
  <2>1. u = [p \in PIDS |-> [i \in IDS |-> u[p][i]]]
    BY <1>1 DEF Actualizada
  <2>2. u \in [PIDS -> [IDS -> E]]
    BY <1>8, <2>1
  <2> QED BY <2>2 DEF Tablas, E
<1>10. ASSUME NEW k \in DOMAIN r
       PROVE  /\ u[r[k].pid][r[k].id].activo
              /\ u[r[k].pid][r[k].id].base = r[k].base
              /\ u[r[k].pid][r[k].id].tam = r[k].limite
  <2>1. PICK p \in PIDS : p = r[k].pid
    BY <1>2, <1>3
  <2>2. PICK i \in IDS : i = r[k].id
    BY <1>2, <1>3
  <2>3. t[p][i].activo /\ t[p][i].tam = r[k].limite
    BY <1>2, <2>1, <2>2 DEF Acuerdo
  <2>4. s(p, i) # {} /\ Max(s(p, i)) = k
    BY <1>2, <1>4, <2>1, <2>2
  <2>5. u[p][i] = [t[p][i] EXCEPT !.base = r[k].base]
    <3> HIDE DEF s
    <3> QED BY <1>5, <2>4
  <2>6. u[p][i].base = r[k].base
    BY <1>7, <2>5
  <2> QED BY <1>8, <2>1, <2>2, <2>3, <2>6
<1>11. ASSUME NEW p \in PIDS, NEW i \in IDS, u[p][i].activo
       PROVE  \E k \in DOMAIN r : r[k].pid = p /\ r[k].id = i
  <2>1. t[p][i].activo
    BY <1>8, <1>11
  <2> QED BY <1>2, <2>1 DEF Acuerdo, N
<1>12. Acuerdo(u, r)
  BY <1>10, <1>11 DEF Acuerdo
<1> QED
  BY <1>1, <1>8, <1>9, <1>12

(* MEMORIA_COMPACT and the new bases.                                      *)
LEMMA OrdenCompactar ==
  ASSUME Orden, Compactar, UNCHANGED ALGORITMO_ASIGNACION
  PROVE  Orden'
<1>1. PICK m : m = EstadoMemoria
  OBVIOUS
<1>2. PICK g : g = LISTA_GLOBAL_SEGMENTOS
  OBVIOUS
<1>3. PICK t : t = tabla_segmentos
  OBVIOUS
<1>4. /\ m.huecos = LISTA_ESPACIOS_LIBRES /\ m.segmentos = g
      /\ m.libre = ESPACIO_LIBRE_TOTAL
      /\ Sana(m) /\ t \in Tablas /\ Acuerdo(t, g)
      /\ ALGORITMO_ASIGNACION \in ALGORITMOS
  BY <1>1, <1>2, <1>3, Campos DEF Orden, EnOrden
<1>5. /\ pedido \in [estado : {"compactar", "reintentar"}, pid : PIDS, id : IDS,
                     tam : TAMANIOS]
      /\ pedido.estado = "compactar"
      /\ pedido.tam <= m.libre
      /\ ~t[pedido.pid][pedido.id].activo
  BY <1>1, <1>3 DEF Orden, EnOrden, PedidoPosible, Compactar, SinPedido
<1>6. PICK c : c = Compactada
  OBVIOUS
<1>7. Sana(c) /\ Len(c.huecos) = 1 /\ Conserva(m, c)
  <2>1. pedido.tam \in TAMANIOS
    BY <1>5
  <2>2. Len(LISTA_ESPACIOS_LIBRES) > 0
    BY <1>4, <1>5, <2>1, HayHueco
  <2> QED BY <1>1, <1>4, <1>6, <2>2, Compacta
<1>8. PICK r : r = c.segmentos
  OBVIOUS
<1>9. /\ g \in Seq(Segmento) /\ r \in Seq(Segmento) /\ Len(r) = Len(g)
      /\ Ordenada(g)
      /\ \A j \in 1..Len(g) : /\ r[j].pid = g[j].pid /\ r[j].id = g[j].id
                              /\ r[j].limite = g[j].limite
  BY <1>4, <1>7, <1>8 DEF Conserva, Sana, Estados
<1>10. PICK u : u = Actualizada(t, r)
  OBVIOUS
<1>11. /\ u \in Tablas /\ Acuerdo(u, r)
       /\ \A p \in PIDS, i \in IDS : u[p][i].activo = t[p][i].activo
  BY <1>4, <1>9, <1>10, AcuerdoActualizada
<1>12. EstadoMemoria' = c
  <2>1. c \in Estados /\ QuedaMemoria(c)
    BY <1>6, <1>7 DEF Compactar, Sana
  <2> QED BY <2>1, Queda
<1>13. tabla_segmentos' = u
  BY <1>3, <1>6, <1>8, <1>10 DEF Compactar, Actualizada
<1>14. PedidoPosible(pedido', c, u)
  <2>1. pedido' = [pedido EXCEPT !.estado = "reintentar"]
    BY DEF Compactar
  <2>2. PICK q : q = pedido'
    OBVIOUS
  <2>3. /\ q \in [estado : {"compactar", "reintentar"}, pid : PIDS, id : IDS,
                  tam : TAMANIOS]
        /\ q.tam = pedido.tam /\ q.pid = pedido.pid /\ q.id = pedido.id
    BY <1>5, <2>1, <2>2
  <2>4. c.libre = m.libre
    BY <1>7 DEF Conserva
  <2>5. q.pid \in PIDS /\ q.id \in IDS
    BY <2>3
  <2> QED BY <1>5, <1>7, <1>11, <2>2, <2>3, <2>4, <2>5 DEF PedidoPosible
<1> QED
  BY <1>4, <1>7, <1>8, <1>11, <1>12, <1>13, <1>14 DEF Orden, EnOrden

(* DELETE_SEGMENT.                                                         *)
LEMMA OrdenBorrar ==
  ASSUME Orden, NEW p \in PIDS, NEW id \in IDS, Borrar(p, id),
         UNCHANGED ALGORITMO_ASIGNACION
  PROVE  Orden'
<1>1. PICK m : m = EstadoMemoria
  OBVIOUS
<1>2. PICK t : t = tabla_segmentos
  OBVIOUS
<1>3. /\ Sana(m) /\ t \in Tablas /\ Acuerdo(t, m.segmentos)
      /\ ALGORITMO_ASIGNACION \in ALGORITMOS
      /\ t[p][id].activo /\ pedido = SinPedido
  BY <1>1, <1>2 DEF Orden, EnOrden, Borrar
<1>4. PICK u : u = tabla_segmentos'
  OBVIOUS
<1>5. /\ u \in Tablas /\ SinUno(t, u, p, id)
  <2>1. PICK f : f = Inactivo
    OBVIOUS
  <2>2. u = [t EXCEPT ![p][id] = f]
    BY <1>2, <1>4, <2>1 DEF Borrar
  <2>3. f \in [base : Nat, tam : Nat, activo : BOOLEAN] /\ ~f.activo
    BY <2>1 DEF Inactivo
  <2> QED BY <1>3, <2>2, <2>3 DEF Tablas, SinUno
<1>6. PICK b : b = t[p][id].base
  OBVIOUS
<1>7. PICK z : z = t[p][id].tam
  OBVIOUS
<1>8. PICK d : d = BorrarSegmento(m, b, z)
  OBVIOUS
<1>9. Sana(d) /\ Acuerdo(u, d.segmentos)
  BY <1>3, <1>5, <1>6, <1>7, <1>8, BorraUno
<1>10. EstadoMemoria' = d
  <2>1. d \in Estados /\ QuedaMemoria(d)
    BY <1>1, <1>2, <1>6, <1>7, <1>8, <1>9 DEF Borrar, Sana
  <2> QED BY <2>1, Queda
<1>11. pedido' = SinPedido
  BY <1>3 DEF Borrar
<1> QED
  BY <1>3, <1>4, <1>5, <1>9, <1>10, <1>11 DEF Orden, EnOrden, PedidoPosible

(* Every request keeps the order, the one that waits for its turn included. *)
LEMMA OrdenPaso == Orden /\ [Next]_vars => Orden'
<1> SUFFICES ASSUME Orden, [Next]_vars PROVE Orden'
  OBVIOUS
<1>1. CASE UNCHANGED vars
  BY <1>1 DEF vars, memoria, Orden, EstadoMemoria
<1>2. CASE Next
  <2>1. UNCHANGED ALGORITMO_ASIGNACION
    BY <1>2 DEF Next
  <2>2. ASSUME NEW p \in PIDS, NEW id \in IDS, NEW tam \in TAMANIOS,
               Crear(p, id, tam)
        PROVE  Orden'
    BY <2>1, <2>2, OrdenCrear DEF Crear
  <2>3. ASSUME NEW p \in PIDS, NEW id \in IDS, Borrar(p, id)
        PROVE  Orden'
    BY <2>1, <2>3, OrdenBorrar
  <2>4. ASSUME NEW p \in PIDS, Terminar(p)
        PROVE  Orden'
    BY <2>1, <2>4, OrdenLibera DEF Terminar
  <2>5. CASE Compactar
    BY <2>1, <2>5, OrdenCompactar
  <2>6. CASE Reintentar
    <3>1. /\ pedido.pid \in PIDS /\ pedido.id \in IDS /\ pedido.tam \in TAMANIOS
          /\ ~tabla_segmentos[pedido.pid][pedido.id].activo
      BY <2>6 DEF Reintentar, Orden, EnOrden, PedidoPosible, SinPedido
    <3>2. PICK p \in PIDS : p = pedido.pid
      BY <3>1
    <3>3. PICK id \in IDS : id = pedido.id
      BY <3>1
    <3>4. PICK tam \in TAMANIOS : tam = pedido.tam
      BY <3>1
    <3>5. ~tabla_segmentos[p][id].activo /\ CrearSegmento(p, id, tam)
      BY <2>6, <3>1, <3>2, <3>3, <3>4 DEF Reintentar
    <3> QED BY <2>1, <3>5, OrdenCrear
  <2> QED BY <1>2, <2>2, <2>3, <2>4, <2>5, <2>6 DEF Next, Pedido
<1> QED BY <1>1, <1>2

(* The inductive invariant of the allocator and of the tables, for any     *)
(* sizes of memory, of segment 0 and of the tables, any processes and the  *)
(* three algorithms.                                                       *)
THEOREM SiempreOrden == Spec => []Orden
<1>1. Init => Orden
  BY OrdenInit
<1>2. Orden /\ [Next]_vars => Orden'
  BY OrdenPaso
<1> QED
  BY <1>1, <1>2, PTL DEF Spec

-----------------------------------------------------------------------------
(* What follows from the invariant.                                        *)

(* The runs of bytes of the model's properties are those of the proofs.    *)
LEMMA BytesDeLista ==
  ASSUME NEW S, EsTramo(S), NEW l \in Seq(S)
  PROVE  UNION {Bytes(l[i].base, l[i].limite) : i \in DOMAIN l} = BytesDe(l)
<1>1. DOMAIN l = 1..Len(l)
  OBVIOUS
<1>2. \A i \in DOMAIN l : l[i].base \in Nat /\ l[i].limite \in Nat
  BY <1>1 DEF EsTramo
<1>3. \A i \in DOMAIN l :
        Bytes(l[i].base, l[i].limite) = {y \in Nat : EsDe(l[i], y)}
  BY <1>2, BytesDeUno DEF Bytes
<1> QED BY <1>3 DEF BytesDe, Cubre

(* What the invariant says of the lists and of the total.                  *)
LEMMA DeOrden ==
  ASSUME Orden
  PROVE  /\ LISTA_ESPACIOS_LIBRES \in Seq(Hueco)
         /\ LISTA_GLOBAL_SEGMENTOS \in Seq(Segmento)
         /\ Ordenada(LISTA_ESPACIOS_LIBRES) /\ SinTocarse(LISTA_ESPACIOS_LIBRES)
         /\ Ordenada(LISTA_GLOBAL_SEGMENTOS)
         /\ Reparte(LISTA_ESPACIOS_LIBRES, LISTA_GLOBAL_SEGMENTOS)
         /\ ESPACIO_LIBRE_TOTAL = Cardinality(BytesDe(LISTA_ESPACIOS_LIBRES))
         /\ ESPACIO_LIBRE_TOTAL \in Nat
         /\ ESPACIO_LIBRE_TOTAL = Suma(LISTA_ESPACIOS_LIBRES)
         /\ BytesLibres = BytesDe(LISTA_ESPACIOS_LIBRES)
         /\ BytesUsados = BytesDe(LISTA_GLOBAL_SEGMENTOS)
         /\ tabla_segmentos \in Tablas
         /\ Acuerdo(tabla_segmentos, LISTA_GLOBAL_SEGMENTOS)
         /\ PedidoPosible(pedido, EstadoMemoria, tabla_segmentos)
         /\ ALGORITMO_ASIGNACION \in ALGORITMOS
<1>1. EsTramo(Hueco) /\ EsTramo(Segmento)
  BY DEF EsTramo, Hueco, Segmento
<1>2. Sana(EstadoMemoria)
  BY DEF Orden, EnOrden
<1>3. /\ LISTA_ESPACIOS_LIBRES \in Seq(Hueco)
      /\ LISTA_GLOBAL_SEGMENTOS \in Seq(Segmento)
      /\ Ordenada(LISTA_ESPACIOS_LIBRES) /\ SinTocarse(LISTA_ESPACIOS_LIBRES)
      /\ Ordenada(LISTA_GLOBAL_SEGMENTOS)
      /\ Reparte(LISTA_ESPACIOS_LIBRES, LISTA_GLOBAL_SEGMENTOS)
      /\ ESPACIO_LIBRE_TOTAL = Cardinality(BytesDe(LISTA_ESPACIOS_LIBRES))
  <2>1. EstadoMemoria.huecos \in Seq(Hueco) /\ EstadoMemoria.segmentos \in Seq(Segmento)
    BY <1>2 DEF Sana, Estados
  <2> QED BY <1>2, <2>1, Campos DEF Sana
<1>4. /\ IsFiniteSet(BytesDe(LISTA_ESPACIOS_LIBRES))
      /\ Suma(LISTA_ESPACIOS_LIBRES) = Cardinality(BytesDe(LISTA_ESPACIOS_LIBRES))
  BY <1>1, <1>3, SumaBytes
<1>5. BytesLibres = BytesDe(LISTA_ESPACIOS_LIBRES)
  BY <1>1, <1>3, BytesDeLista DEF BytesLibres
<1>6. BytesUsados = BytesDe(LISTA_GLOBAL_SEGMENTOS)
  BY <1>1, <1>3, BytesDeLista DEF BytesUsados
<1>7. ESPACIO_LIBRE_TOTAL \in Nat
  BY <1>3, <1>4, FS_CardinalityType
<1>8. /\ tabla_segmentos \in Tablas
      /\ Acuerdo(tabla_segmentos, LISTA_GLOBAL_SEGMENTOS)
      /\ PedidoPosible(pedido, EstadoMemoria, tabla_segmentos)
      /\ ALGORITMO_ASIGNACION \in ALGORITMOS
  BY Campos DEF Orden, EnOrden
<1> QED BY <1>3, <1>4, <1>5, <1>6, <1>7, <1>8

(* The bytes above segment 0 are those of the holes and those of the       *)
(* segments, and there are as many of them as both sums say.               *)
LEMMA OrdenParticion == Orden => Particion
<1> SUFFICES ASSUME Orden PROVE Particion
  OBVIOUS
<1>1. PICK h : h = LISTA_ESPACIOS_LIBRES
  OBVIOUS
<1>2. PICK g : g = LISTA_GLOBAL_SEGMENTOS
  OBVIOUS
<1>3. /\ h \in Seq(Hueco) /\ g \in Seq(Segmento)
      /\ Ordenada(h) /\ Ordenada(g) /\ Reparte(h, g)
      /\ ESPACIO_LIBRE_TOTAL = Suma(h)
      /\ BytesLibres = BytesDe(h) /\ BytesUsados = BytesDe(g)
  BY <1>1, <1>2, DeOrden
<1>4. EsTramo(Hueco) /\ EsTramo(Segmento)
  BY DEF EsTramo, Hueco, Segmento
<1>5. /\ IsFiniteSet(BytesDe(h)) /\ Suma(h) = Cardinality(BytesDe(h))
      /\ IsFiniteSet(BytesDe(g)) /\ Suma(g) = Cardinality(BytesDe(g))
  BY <1>3, <1>4, SumaBytes
<1>6. PICK a \in Nat : a = TAM_SEGMENTO_0
  BY SupuestoMemoria
<1>7. PICK b \in Int : b = TAM_MEMORIA - 1 /\ a <= b
  BY <1>6, SupuestoMemoria
<1>8. BytesDe(h) \union BytesDe(g) = a..b
  BY <1>3, <1>6, <1>7 DEF BytesDe, Reparte
<1>9. BytesDe(h) \intersect BytesDe(g) = {}
  BY <1>3 DEF BytesDe, Reparte
<1>10. Cardinality(a..b) = b - a + 1
  <2>1. Cardinality(a..b) = IF a > b THEN 0 ELSE b - a + 1
    BY FS_Interval
  <2> QED BY <1>7, <2>1
<1>11. Cardinality(BytesDe(h) \union BytesDe(g)) =
         Cardinality(BytesDe(h)) + Cardinality(BytesDe(g))
           - Cardinality(BytesDe(h) \intersect BytesDe(g))
  BY <1>5, FS_Union
<1>12. PICK n \in Nat : n = Suma(h)
  BY <1>5, FS_CardinalityType
<1>13. PICK m \in Nat : m = Suma(g)
  BY <1>5, FS_CardinalityType
<1>14. Cardinality({}) = 0
  BY FS_EmptySet
<1>15. b - a + 1 = n + m - 0
  BY <1>5, <1>8, <1>9, <1>10, <1>11, <1>12, <1>13, <1>14, Zenon
<1>16. Suma(h) + Suma(g) = TAM_MEMORIA - TAM_SEGMENTO_0
  BY <1>6, <1>7, <1>12, <1>13, <1>15, SupuestoMemoria
<1>17. a..b = TAM_SEGMENTO_0..(TAM_MEMORIA - 1)
  BY <1>6, <1>7
<1> QED
  BY <1>1, <1>2, <1>3, <1>8, <1>16, <1>17 DEF Particion

(* The types follow from the lists being in order.                         *)
LEMMA OrdenTypeOK == Orden => TypeOK
<1> SUFFICES ASSUME Orden PROVE TypeOK
  OBVIOUS
<1>1. /\ LISTA_ESPACIOS_LIBRES \in Seq(Hueco)
      /\ LISTA_GLOBAL_SEGMENTOS \in Seq(Segmento)
      /\ ESPACIO_LIBRE_TOTAL \in Nat
      /\ ESPACIO_LIBRE_TOTAL = Suma(LISTA_ESPACIOS_LIBRES)
      /\ Ordenada(LISTA_GLOBAL_SEGMENTOS)
      /\ tabla_segmentos \in Tablas
      /\ PedidoPosible(pedido, EstadoMemoria, tabla_segmentos)
  BY DeOrden
<1>2. ESPACIO_LIBRE_TOTAL \in 0..TAM_MEMORIA
  <2>1. Suma(LISTA_GLOBAL_SEGMENTOS) \in Nat
    <3>1. EsTramo(Segmento)
      BY DEF EsTramo, Segmento
    <3> QED BY <1>1, <3>1, SumaBytes, FS_CardinalityType
  <2>2. ESPACIO_LIBRE_TOTAL + Suma(LISTA_GLOBAL_SEGMENTOS)
          = TAM_MEMORIA - TAM_SEGMENTO_0
    BY OrdenParticion DEF Particion
  <2> QED BY <1>1, <2>1, <2>2, SupuestoMemoria
<1>3. pedido.estado \in {"ninguno", "compactar", "reintentar"}
  BY <1>1 DEF PedidoPosible, SinPedido
<1> QED BY <1>1, <1>2, <1>3 DEF TypeOK, Hueco, Segmento, Tablas

(* Holes in order that do not touch are apart.                             *)
LEMMA OrdenConsolidada == Orden => Consolidada
<1> SUFFICES ASSUME Orden PROVE Consolidada
  OBVIOUS
<1>1. PICK h : h = LISTA_ESPACIOS_LIBRES
  OBVIOUS
<1>2. h \in Seq(Hueco) /\ Ordenada(h) /\ SinTocarse(h)
  BY <1>1, DeOrden
<1>3. DOMAIN h = 1..Len(h) /\ Len(h) \in Nat
  BY <1>2
<1>4. \A i \in DOMAIN h : h[i].base \in Nat /\ h[i].limite \in Nat
  <2>1. EsTramo(Hueco)
    BY DEF EsTramo, Hueco
  <2> QED BY <1>2, <1>3, <2>1 DEF EsTramo
<1>5. ASSUME NEW i \in 1..(Len(h) - 1)
      PROVE  h[i].base + h[i].limite < h[i + 1].base
  <2>1. i \in DOMAIN h /\ i + 1 \in DOMAIN h /\ i < i + 1
    BY <1>3
  <2>2. Fin(h[i]) <= h[i + 1].base
    BY <1>2, <2>1 DEF Ordenada
  <2>3. ~Contiguos(h[i], h[i + 1])
    BY <1>2 DEF SinTocarse
  <2> QED BY <1>4, <2>1, <2>2, <2>3 DEF Contiguos, Fin
<1> QED BY <1>1, <1>2, <1>5 DEF Consolidada, Ordenada

(* A request no greater than the free bytes is searched for in holes.      *)
LEMMA Busqueda ==
  ASSUME Orden, NEW tam \in TAMANIOS, tam <= ESPACIO_LIBRE_TOTAL
  PROVE  /\ Acierta(BuscarEspacio(tam), tam)
         /\ (ALGORITMO_ASIGNACION = "WORST" /\ BuscarEspacio(tam) # 0)
              => Mayor(BuscarEspacio(tam))
<1>1. Len(LISTA_ESPACIOS_LIBRES) > 0
  BY HayHueco, Campos DEF Orden, EnOrden
<1>2. tam \in Nat
  BY SupuestoMemoria
<1> QED BY <1>1, <1>2, DeOrden, BusquedaAcierta

(* WORST finds a largest hole.                                             *)
LEMMA OrdenWorst == Orden => WorstElMayor
  BY Busqueda DEF WorstElMayor, Mayor

(* A search that finds a hole finds one that is big enough.                *)
LEMMA OrdenBusqueda == Orden => BusquedaCompleta
<1> SUFFICES ASSUME Orden PROVE BusquedaCompleta
  OBVIOUS
<1>1. ASSUME NEW tam \in TAMANIOS, tam <= ESPACIO_LIBRE_TOTAL
      PROVE  BuscarEspacio(tam) = 0
               <=> \A i \in DOMAIN LISTA_ESPACIOS_LIBRES : ~Entra(i, tam)
  <2>1. Acierta(BuscarEspacio(tam), tam)
    BY <1>1, Busqueda
  <2>2. /\ LISTA_ESPACIOS_LIBRES \in Seq(Hueco)
        /\ DOMAIN LISTA_ESPACIOS_LIBRES = 1..Len(LISTA_ESPACIOS_LIBRES)
    BY DeOrden
  <2>3. PICK i : i = BuscarEspacio(tam)
    OBVIOUS
  <2>4. i # 0 => i \in DOMAIN LISTA_ESPACIOS_LIBRES
    BY <2>1, <2>2, <2>3 DEF Acierta
  <2> QED BY <2>1, <2>3, <2>4 DEF Acierta
<1> QED
  BY <1>1, OrdenWorst DEF BusquedaCompleta

(* What the active entries say is the list, as sets.                       *)
LEMMA OrdenTablas == Orden => TablasDeAcuerdo
<1> SUFFICES ASSUME Orden PROVE TablasDeAcuerdo
  OBVIOUS
<1>1. PICK g : g = LISTA_GLOBAL_SEGMENTOS
  OBVIOUS
<1>2. PICK t : t = tabla_segmentos
  OBVIOUS
<1>3. g \in Seq(Segmento) /\ Acuerdo(t, g) /\ DOMAIN g = 1..Len(g)
  BY <1>1, <1>2, DeOrden
<1> DEFINE De(s) == [pid |-> s[1], id |-> s[2], base |-> t[s[1]][s[2]].base,
                     limite |-> t[s[1]][s[2]].tam]
           A == {s \in PIDS \X IDS : t[s[1]][s[2]].activo}
<1>4. \A k \in DOMAIN g :
        /\ <<g[k].pid, g[k].id>> \in A
        /\ De(<<g[k].pid, g[k].id>>) = g[k]
  <2> SUFFICES ASSUME NEW k \in DOMAIN g
               PROVE  /\ <<g[k].pid, g[k].id>> \in A
                      /\ De(<<g[k].pid, g[k].id>>) = g[k]
    OBVIOUS
  <2>1. g[k] \in Segmento /\ g[k].pid \in PIDS /\ g[k].id \in IDS
    BY <1>3, SegmentosTipo
  <2>2. /\ t[g[k].pid][g[k].id].activo
        /\ t[g[k].pid][g[k].id].base = g[k].base
        /\ t[g[k].pid][g[k].id].tam = g[k].limite
    BY <1>3 DEF Acuerdo
  <2>3. g[k] = [pid |-> g[k].pid, id |-> g[k].id, base |-> g[k].base,
                limite |-> g[k].limite]
    BY <2>1 DEF Segmento
  <2>4. <<g[k].pid, g[k].id>> \in A
    BY <2>1, <2>2
  <2>5. De(<<g[k].pid, g[k].id>>) =
          [pid |-> g[k].pid, id |-> g[k].id, base |-> g[k].base,
           limite |-> g[k].limite]
    BY <2>2
  <2> QED BY <2>3, <2>4, <2>5
<1>5. ASSUME NEW s \in A
      PROVE  \E k \in DOMAIN g : De(s) = g[k]
  <2>1. PICK p \in PIDS, i \in IDS : s = <<p, i>> /\ t[p][i].activo
    OBVIOUS
  <2>2. PICK k \in DOMAIN g : g[k].pid = p /\ g[k].id = i
    BY <1>3, <2>1 DEF Acuerdo
  <2>3. De(<<p, i>>) = g[k]
    <3> HIDE DEF De
    <3> QED BY <1>4, <2>2
  <2> HIDE DEF De
  <2> QED BY <2>1, <2>3
<1>6. {De(s) : s \in A} = {g[k] : k \in DOMAIN g}
  <2> HIDE DEF De, A
  <2> QED BY <1>4, <1>5
<1>7. {[pid |-> s[1], id |-> s[2], base |-> t[s[1]][s[2]].base,
         limite |-> t[s[1]][s[2]].tam] :
          s \in {s \in PIDS \X IDS : t[s[1]][s[2]].activo}}
       = {g[k] : k \in DOMAIN g}
  BY <1>6
<1> HIDE DEF De, A
<1> QED BY <1>1, <1>2, <1>7 DEF TablasDeAcuerdo

(* After a compaction the only hole has all the free bytes.                *)
LEMMA OrdenUnaCompactacion == Orden => UnaCompactacionAlcanza
<1> SUFFICES ASSUME Orden, pedido.estado = "reintentar"
             PROVE  /\ Len(LISTA_ESPACIOS_LIBRES) = 1
                    /\ pedido.tam <= ESPACIO_LIBRE_TOTAL
                    /\ BuscarEspacio(pedido.tam) # 0
  BY DEF UnaCompactacionAlcanza
<1>1. /\ pedido.tam \in TAMANIOS /\ pedido.tam <= ESPACIO_LIBRE_TOTAL
      /\ Len(LISTA_ESPACIOS_LIBRES) = 1
  BY DeOrden, Campos DEF PedidoPosible, SinPedido
<1>2. PICK h : h = LISTA_ESPACIOS_LIBRES
  OBVIOUS
<1>3. PICK tam \in TAMANIOS : tam = pedido.tam
  BY <1>1
<1>4. /\ h \in Seq(Hueco) /\ Len(h) = 1 /\ DOMAIN h = {1}
      /\ ESPACIO_LIBRE_TOTAL = Cardinality(BytesDe(h))
      /\ tam <= ESPACIO_LIBRE_TOTAL
  <2>1. h \in Seq(Hueco) /\ Len(h) = 1
    BY <1>1, <1>2, DeOrden
  <2>2. DOMAIN h = {1}
    BY <2>1
  <2> QED BY <1>1, <1>2, <1>3, <2>1, <2>2, DeOrden
<1>5. h[1].base \in Nat /\ h[1].limite \in Nat
  <2>1. h[1] \in Hueco
    BY <1>4
  <2> QED BY <2>1 DEF Hueco
<1>6. ESPACIO_LIBRE_TOTAL = h[1].limite
  <2>1. PICK b \in Nat : b = h[1].base
    BY <1>5
  <2>2. PICK z \in Nat : z = h[1].limite
    BY <1>5
  <2>3. BytesDe(h) = b..(b + z - 1)
    <3>1. BytesDe(h) = {y \in Nat : EsDe(h[1], y)}
      BY <1>4 DEF BytesDe, Cubre
    <3> QED BY <1>5, <2>1, <2>2, <3>1, BytesDeUno
  <2>4. PICK c \in Int : c = b + z - 1
    OBVIOUS
  <2>5. Cardinality(b..c) = IF b > c THEN 0 ELSE c - b + 1
    BY FS_Interval
  <2>6. (IF b > c THEN 0 ELSE c - b + 1) = z
    BY <2>4
  <2> QED BY <1>4, <2>2, <2>3, <2>4, <2>5, <2>6
<1>7. Entra(1, tam)
  <2>1. tam \in Nat
    BY SupuestoMemoria
  <2> QED BY <1>2, <1>4, <1>5, <1>6, <2>1 DEF Entra
<1>8. BuscarEspacio(tam) # 0
  <2>1. Acierta(BuscarEspacio(tam), tam)
    BY <1>4, Busqueda
  <2> QED BY <1>2, <1>4, <1>7, <2>1 DEF Acierta
<1> QED BY <1>1, <1>3, <1>8

-----------------------------------------------------------------------------
(* Type correctness of both lists, of the total and of the tables.         *)
THEOREM TipoCorrecto == Spec => []TypeOK
  BY SiempreOrden, OrdenTypeOK, PTL

(* No byte is lost and none is given twice, for any size of memory, and    *)
(* ESPACIO_LIBRE_TOTAL, kept by additions of its own, is the free part.    *)
THEOREM CadaByteUnDuenio == Spec => []Particion
  BY SiempreOrden, OrdenParticion, PTL

(* borrar_segmento and compactar leave no two holes that touch.            *)
THEOREM HuecosConsolidados == Spec => []Consolidada
  BY SiempreOrden, OrdenConsolidada, PTL

(* buscar_espacio_libre asks for a compaction only when no hole would do,  *)
(* with each of the three algorithms, and WORST chooses a largest one.     *)
THEOREM BusquedaCorrecta == Spec => []BusquedaCompleta
  BY SiempreOrden, OrdenBusqueda, PTL

(* The tables of the kernel and the list of memoria tell the same story,   *)
(* also after a compaction.                                                *)
THEOREM TablasConcuerdan == Spec => []TablasDeAcuerdo
  BY SiempreOrden, OrdenTablas, PTL

(* solicitar_compactacion is never followed by another one, nor by a       *)
(* refusal.                                                                *)
THEOREM CompactarUnaVez == Spec => []UnaCompactacionAlcanza
  BY SiempreOrden, OrdenUnaCompactacion, PTL

-----------------------------------------------------------------------------
(* The refinement of segmented memory.                                     *)

(* The bytes of a segment as its table gives them; a segment that is not   *)
(* active has none.                                                        *)
Zona(t, s) == Bytes(t[s[1]][s[2]].base, t[s[1]][s[2]].tam)
Zonas(t) == [s \in PIDS \X IDS |-> Zona(t, s)]
Limpia(t) == \A p \in PIDS, i \in IDS : ~t[p][i].activo => t[p][i].tam = 0

(* The bytes of an active segment are those of its entry in the list.      *)
DeSegmento(t, g, s, k) ==
  /\ g[k].pid = s[1] /\ g[k].id = s[2]
  /\ Zona(t, s) = Bytes(g[k].base, g[k].limite)

(* An active segment has bytes, and one that is not has none.              *)
LEMMA ZonaDe ==
  ASSUME NEW t \in Tablas, Limpia(t), NEW g \in Seq(Segmento), Ordenada(g),
         Acuerdo(t, g), NEW s \in PIDS \X IDS
  PROVE  /\ ~t[s[1]][s[2]].activo => Zona(t, s) = {}
         /\ t[s[1]][s[2]].activo =>
              Zona(t, s) # {} /\ \E k \in DOMAIN g : DeSegmento(t, g, s, k)
<1>1. s[1] \in PIDS /\ s[2] \in IDS
  OBVIOUS
<1>2. PICK p \in PIDS : p = s[1]
  BY <1>1
<1>3. PICK i \in IDS : i = s[2]
  BY <1>1
<1>4. t[p][i].base \in Nat /\ t[p][i].tam \in Nat
  BY DEF Tablas
<1>5. Zona(t, s) = t[p][i].base..(t[p][i].base + t[p][i].tam - 1)
  BY <1>2, <1>3 DEF Zona, Bytes
<1>6. ASSUME ~t[p][i].activo PROVE Zona(t, s) = {}
  <2>1. t[p][i].tam = 0
    BY <1>6 DEF Limpia
  <2> QED BY <1>4, <1>5, <2>1
<1>7. ASSUME t[p][i].activo
      PROVE  Zona(t, s) # {} /\ \E k \in DOMAIN g : DeSegmento(t, g, s, k)
  <2>1. PICK k \in DOMAIN g : g[k].pid = p /\ g[k].id = i
    BY <1>7 DEF Acuerdo
  <2>2. t[p][i].base = g[k].base /\ t[p][i].tam = g[k].limite
    BY <2>1 DEF Acuerdo
  <2>3. g[k].limite > 0
    BY DEF Ordenada
  <2>4. Zona(t, s) # {}
    <3>1. t[p][i].base \in Zona(t, s)
      BY <1>4, <1>5, <2>2, <2>3
    <3> QED BY <3>1
  <2>5. DeSegmento(t, g, s, k)
    BY <1>2, <1>3, <2>1, <2>2 DEF DeSegmento, Zona
  <2> QED BY <2>4, <2>5
<1> QED BY <1>2, <1>3, <1>6, <1>7

(* Together the segments of the tables have the bytes of the list.         *)
LEMMA ZonasUsadas ==
  ASSUME NEW t \in Tablas, Limpia(t), NEW g \in Seq(Segmento), Ordenada(g),
         Acuerdo(t, g)
  PROVE  UNION {Zonas(t)[s] : s \in PIDS \X IDS} = BytesDe(g)
<1>1. EsTramo(Segmento)
  BY DEF EsTramo, Segmento
<1>2. UNION {Bytes(g[i].base, g[i].limite) : i \in DOMAIN g} = BytesDe(g)
  BY <1>1, BytesDeLista
<1>3. \A s \in PIDS \X IDS : Zonas(t)[s] = Zona(t, s)
  BY DEF Zonas
<1>4. ASSUME NEW s \in PIDS \X IDS
      PROVE  \/ Zona(t, s) = {}
             \/ \E k \in DOMAIN g : Zona(t, s) = Bytes(g[k].base, g[k].limite)
  BY ZonaDe DEF DeSegmento
<1>5. ASSUME NEW k \in DOMAIN g
      PROVE  \E s \in PIDS \X IDS : Zona(t, s) = Bytes(g[k].base, g[k].limite)
  <2>1. g[k].pid \in PIDS /\ g[k].id \in IDS
    BY SegmentosTipo
  <2>2. PICK s \in PIDS \X IDS : s[1] = g[k].pid /\ s[2] = g[k].id
    <3>1. <<g[k].pid, g[k].id>> \in PIDS \X IDS
      BY <2>1
    <3> QED BY <3>1
  <2>3. t[s[1]][s[2]].base = g[k].base /\ t[s[1]][s[2]].tam = g[k].limite
    BY <2>2 DEF Acuerdo
  <2>4. Zona(t, s) = Bytes(g[k].base, g[k].limite)
    BY <2>3 DEF Zona
  <2> QED BY <2>4
<1> HIDE DEF Zona
<1>6. UNION {Zona(t, s) : s \in PIDS \X IDS}
        = UNION {Bytes(g[i].base, g[i].limite) : i \in DOMAIN g}
  <2> DEFINE B(k) == Bytes(g[k].base, g[k].limite)
  <2>1. \A s \in PIDS \X IDS :
          Zona(t, s) = {} \/ \E k \in DOMAIN g : Zona(t, s) = B(k)
    BY <1>4
  <2>2. \A k \in DOMAIN g : \E s \in PIDS \X IDS : Zona(t, s) = B(k)
    BY <1>5
  <2> HIDE DEF B
  <2>3. UNION {Zona(t, s) : s \in PIDS \X IDS} = UNION {B(k) : k \in DOMAIN g}
    BY <2>1, <2>2
  <2> QED BY <2>3 DEF B
<1>7. {Zonas(t)[s] : s \in PIDS \X IDS} = {Zona(t, s) : s \in PIDS \X IDS}
  BY <1>3
<1> QED BY <1>2, <1>6, <1>7

EnZonas == Orden /\ Limpia(tabla_segmentos)

(* A segment that ends to be active is left with no bytes.                 *)
LEMMA LimpiaPaso ==
  ASSUME Orden, Limpia(tabla_segmentos), [Next]_vars
  PROVE  Limpia(tabla_segmentos')
<1>1. PICK t : t = tabla_segmentos
  OBVIOUS
<1>2. PICK u : u = tabla_segmentos'
  OBVIOUS
<1>3. t \in Tablas /\ Limpia(t)
  BY <1>1, DeOrden
<1>4. Inactivo.tam = 0
  BY DEF Inactivo
<1>5. ASSUME u = t PROVE Limpia(u)
  BY <1>3, <1>5
<1>6. ASSUME NEW p \in PIDS, LiberarTodo(p) PROVE Limpia(u)
  <2>1. u = [t EXCEPT ![p] = [i \in IDS |-> Inactivo]]
    BY <1>1, <1>2, <1>6 DEF LiberarTodo
  <2>2. \A q \in PIDS, i \in IDS : u[q][i] = IF q = p THEN Inactivo ELSE t[q][i]
    BY <1>3, <2>1 DEF Tablas
  <2> QED BY <1>3, <1>4, <2>2 DEF Limpia
<1>7. ASSUME NEW p \in PIDS, NEW id \in IDS, NEW tam \in TAMANIOS,
             CrearSegmento(p, id, tam)
      PROVE  Limpia(u)
  <2>1. CASE SegmentoCreado(p, id, tam)
    <3>1. PICK f : f.activo /\ u = [t EXCEPT ![p][id] = f]
      <4>1. PICK b : b = LISTA_ESPACIOS_LIBRES[BuscarEspacio(tam)].base
        OBVIOUS
      <4>2. PICK f : f = [base |-> b, tam |-> tam, activo |-> TRUE]
        OBVIOUS
      <4>3. u = [t EXCEPT ![p][id] = f]
        BY <1>1, <1>2, <2>1, <4>1, <4>2 DEF SegmentoCreado
      <4>4. f.activo
        BY <4>2
      <4> QED BY <4>3, <4>4
    <3>2. \A q \in PIDS, i \in IDS :
            u[q][i] = IF q = p /\ i = id THEN f ELSE t[q][i]
      BY <1>3, <3>1 DEF Tablas
    <3> QED BY <1>3, <3>1, <3>2 DEF Limpia
  <2> QED BY <1>1, <1>2, <1>5, <1>6, <1>7, <2>1 DEF CrearSegmento
<1>8. ASSUME Compactar PROVE Limpia(u)
  <2>1. PICK r : r = Compactada.segmentos
    OBVIOUS
  <2>2. u = Actualizada(t, r)
    BY <1>1, <1>2, <1>8, <2>1 DEF Compactar, Actualizada
  <2>3. ASSUME NEW q \in PIDS, NEW i \in IDS
        PROVE  u[q][i].activo = t[q][i].activo /\ u[q][i].tam = t[q][i].tam
    <3>1. PICK b : u[q][i] = t[q][i] \/ u[q][i] = [t[q][i] EXCEPT !.base = b]
      BY <2>2 DEF Actualizada
    <3>2. t[q][i] \in [base : Nat, tam : Nat, activo : BOOLEAN]
      BY <1>3 DEF Tablas
    <3> QED BY <3>1, <3>2
  <2> QED BY <1>3, <2>3 DEF Limpia
<1>9. ASSUME NEW p \in PIDS, NEW id \in IDS, Borrar(p, id) PROVE Limpia(u)
  <2>1. u = [t EXCEPT ![p][id] = Inactivo]
    BY <1>1, <1>2, <1>9 DEF Borrar
  <2>2. \A q \in PIDS, i \in IDS :
          u[q][i] = IF q = p /\ i = id THEN Inactivo ELSE t[q][i]
    BY <1>3, <2>1 DEF Tablas
  <2> QED BY <1>3, <1>4, <2>2 DEF Limpia
<1>10. ASSUME Reintentar PROVE Limpia(u)
  <2>1. pedido.pid \in PIDS /\ pedido.id \in IDS /\ pedido.tam \in TAMANIOS
    BY <1>10, DeOrden DEF Reintentar, PedidoPosible, SinPedido
  <2> QED BY <1>7, <1>10, <2>1 DEF Reintentar
<1>11. Limpia(u)
  <2>1. CASE UNCHANGED vars
    BY <1>1, <1>2, <1>5, <2>1 DEF vars
  <2>2. CASE Next
    <3>1. ASSUME NEW p \in PIDS, NEW id \in IDS, NEW tam \in TAMANIOS,
                 Crear(p, id, tam)
          PROVE  Limpia(u)
      BY <1>7, <3>1 DEF Crear
    <3>2. ASSUME NEW p \in PIDS, Terminar(p) PROVE Limpia(u)
      BY <1>6, <3>2 DEF Terminar
    <3> QED
      BY <1>8, <1>9, <1>10, <2>2, <3>1, <3>2 DEF Next, Pedido
  <2> QED BY <2>1, <2>2
<1> QED BY <1>2, <1>11

(* The invariant of the refinement.                                        *)
LEMMA SiempreEnZonas == Spec => []EnZonas
<1>1. Init => Limpia(tabla_segmentos)
  BY DEF Init, Limpia, Inactivo
<1>2. Init => EnZonas
  BY <1>1, OrdenInit DEF EnZonas
<1>3. ASSUME EnZonas, [Next]_vars PROVE EnZonas'
  <2>1. Orden'
    BY <1>3, OrdenPaso DEF EnZonas
  <2>2. Limpia(tabla_segmentos')
    BY <1>3, LimpiaPaso DEF EnZonas
  <2> QED BY <2>1, <2>2 DEF EnZonas, Limpia
<1> QED BY <1>2, <1>3, PTL DEF Spec

ZonasAhora == Zonas(tabla_segmentos)
Arriba == TAM_SEGMENTO_0..(TAM_MEMORIA - 1)

(* What the refinement reads of a state.                                   *)
LEMMA DeZonas ==
  ASSUME EnZonas
  PROVE  /\ tabla_segmentos \in Tablas /\ Limpia(tabla_segmentos)
         /\ LISTA_GLOBAL_SEGMENTOS \in Seq(Segmento)
         /\ Ordenada(LISTA_GLOBAL_SEGMENTOS)
         /\ Acuerdo(tabla_segmentos, LISTA_GLOBAL_SEGMENTOS)
         /\ UNION {ZonasAhora[s] : s \in PIDS \X IDS} = BytesDe(LISTA_GLOBAL_SEGMENTOS)
         /\ BytesDe(LISTA_GLOBAL_SEGMENTOS) \subseteq Arriba
         /\ BytesDe(LISTA_ESPACIOS_LIBRES) \subseteq Arriba
<1>1. /\ tabla_segmentos \in Tablas /\ Limpia(tabla_segmentos)
      /\ LISTA_GLOBAL_SEGMENTOS \in Seq(Segmento)
      /\ Ordenada(LISTA_GLOBAL_SEGMENTOS)
      /\ Acuerdo(tabla_segmentos, LISTA_GLOBAL_SEGMENTOS)
      /\ Reparte(LISTA_ESPACIOS_LIBRES, LISTA_GLOBAL_SEGMENTOS)
  BY DeOrden DEF EnZonas
<1>2. UNION {ZonasAhora[s] : s \in PIDS \X IDS} = BytesDe(LISTA_GLOBAL_SEGMENTOS)
  BY <1>1, ZonasUsadas DEF ZonasAhora
<1>3. Arriba \subseteq Nat
  BY SupuestoMemoria DEF Arriba
<1>4. /\ BytesDe(LISTA_GLOBAL_SEGMENTOS) \subseteq Arriba
      /\ BytesDe(LISTA_ESPACIOS_LIBRES) \subseteq Arriba
  BY <1>1, <1>3 DEF Reparte, BytesDe, Arriba
<1> QED BY <1>1, <1>2, <1>4

(* The tables and the zones when one segment changes, and when a process   *)
(* gets a new table.                                                       *)
ConEntrada(t, p, id, f) == [t EXCEPT ![p][id] = f]
ConZona(z, s, b) == [z EXCEPT ![s] = b]
SinTabla(t, p) == [t EXCEPT ![p] = [i \in IDS |-> Inactivo]]
Vaciada(z, p) == [s \in PIDS \X IDS |-> IF s[1] = p THEN {} ELSE z[s]]

(* The next zones when one entry of one table changes.                     *)
LEMMA UnaZona ==
  ASSUME NEW t \in Tablas, NEW p \in PIDS, NEW id \in IDS, NEW f, NEW u,
         u = ConEntrada(t, p, id, f)
  PROVE  Zonas(u) = ConZona(Zonas(t), <<p, id>>, Bytes(f.base, f.tam))
<1>1. \A q \in PIDS, i \in IDS :
        u[q][i] = IF q = p /\ i = id THEN f ELSE t[q][i]
  BY DEF Tablas, ConEntrada
<1>2. ASSUME NEW s \in PIDS \X IDS
      PROVE  Zona(u, s) = IF s = <<p, id>> THEN Bytes(f.base, f.tam)
                          ELSE Zona(t, s)
  <2>1. PICK q \in PIDS, i \in IDS : s = <<q, i>>
    OBVIOUS
  <2> QED BY <1>1, <2>1 DEF Zona
<1> HIDE DEF Zona
<1>3. <<p, id>> \in PIDS \X IDS
  OBVIOUS
<1> QED BY <1>2, <1>3 DEF Zonas, ConZona

(* The next zones when a process gets a new table.                         *)
LEMMA SinZonas ==
  ASSUME NEW t \in Tablas, NEW p \in PIDS, NEW u,
         u = SinTabla(t, p)
  PROVE  Zonas(u) = Vaciada(Zonas(t), p)
<1>1. \A q \in PIDS, i \in IDS :
        u[q][i] = IF q = p THEN Inactivo ELSE t[q][i]
  BY DEF Tablas, SinTabla
<1>2. Bytes(Inactivo.base, Inactivo.tam) = {}
  BY DEF Bytes, Inactivo
<1>3. ASSUME NEW s \in PIDS \X IDS
      PROVE  Zona(u, s) = IF s[1] = p THEN {} ELSE Zona(t, s)
  <2>1. PICK q \in PIDS, i \in IDS : s = <<q, i>>
    OBVIOUS
  <2>2. s[1] = q /\ Zona(u, s) = Bytes(u[q][i].base, u[q][i].tam)
        /\ Zona(t, s) = Bytes(t[q][i].base, t[q][i].tam)
    BY <2>1 DEF Zona
  <2>3. CASE q = p
    BY <1>1, <1>2, <2>2, <2>3
  <2>4. CASE q # p
    BY <1>1, <2>2, <2>4
  <2> QED BY <2>3, <2>4
<1> HIDE DEF Zona
<1> QED BY <1>3 DEF Zonas, Vaciada

(* The end of a process empties its segments.                              *)
LEMMA LiberarVacia ==
  ASSUME EnZonas, NEW p \in PIDS, LiberarTodo(p)
  PROVE  Abstracta!Vaciar(p)
<1>1. tabla_segmentos \in Tablas
  BY DeZonas
<1>2. Zonas(tabla_segmentos') = Vaciada(Zonas(tabla_segmentos), p)
  <2>1. PICK u : u = tabla_segmentos'
    OBVIOUS
  <2>2. PICK t \in Tablas : t = tabla_segmentos
    BY <1>1
  <2>3. u = SinTabla(t, p)
    BY <2>1, <2>2 DEF LiberarTodo, SinTabla
  <2>4. Zonas(u) = Vaciada(Zonas(t), p)
    BY <2>3, SinZonas
  <2> QED BY <2>1, <2>2, <2>4
<1> QED
  BY <1>2 DEF Abstracta!Vaciar, Abstracta!Segmentos, Vaciada, Zonas, Zona

(* DELETE_SEGMENT leaves an active segment with no bytes.                  *)
LEMMA BorrarVacia ==
  ASSUME EnZonas, NEW p \in PIDS, NEW id \in IDS, Borrar(p, id)
  PROVE  Abstracta!Borrar(<<p, id>>)
<1>1. /\ tabla_segmentos \in Tablas /\ Limpia(tabla_segmentos)
      /\ LISTA_GLOBAL_SEGMENTOS \in Seq(Segmento)
      /\ Ordenada(LISTA_GLOBAL_SEGMENTOS)
      /\ Acuerdo(tabla_segmentos, LISTA_GLOBAL_SEGMENTOS)
  BY DeZonas
<1>2. PICK s \in PIDS \X IDS : s = <<p, id>>
  OBVIOUS
<1>3. Zonas(tabla_segmentos)[s] # {}
  <2>1. tabla_segmentos[s[1]][s[2]].activo
    BY <1>2 DEF Borrar
  <2>2. Zona(tabla_segmentos, s) # {}
    BY <1>1, <2>1, ZonaDe
  <2> HIDE DEF Zona
  <2> QED BY <2>2 DEF Zonas
<1>4. Zonas(tabla_segmentos') = ConZona(Zonas(tabla_segmentos), s, {})
  <2>1. PICK f : f = Inactivo
    OBVIOUS
  <2>2. Bytes(f.base, f.tam) = {}
    BY <2>1 DEF Bytes, Inactivo
  <2>3. PICK t \in Tablas : t = tabla_segmentos
    BY <1>1
  <2>4. PICK u : u = tabla_segmentos'
    OBVIOUS
  <2>5. u = ConEntrada(t, p, id, f)
    BY <2>1, <2>3, <2>4 DEF Borrar, ConEntrada
  <2>6. Zonas(u) = ConZona(Zonas(t), <<p, id>>, Bytes(f.base, f.tam))
    BY <2>5, UnaZona
  <2> QED BY <1>2, <2>2, <2>3, <2>4, <2>6
<1> QED
  BY <1>2, <1>3, <1>4 DEF Abstracta!Borrar, ConZona, Zonas, Zona

(* crear_segmento gives free bytes to a segment that had none.             *)
LEMMA CreaZona ==
  ASSUME EnZonas, NEW p \in PIDS, NEW id \in IDS, NEW tam \in TAMANIOS,
         ~tabla_segmentos[p][id].activo, ESPACIO_LIBRE_TOTAL >= tam,
         SegmentoCreado(p, id, tam)
  PROVE  Abstracta!Crear(<<p, id>>, tam)
<1>1. PICK h : h = LISTA_ESPACIOS_LIBRES
  OBVIOUS
<1>2. PICK g : g = LISTA_GLOBAL_SEGMENTOS
  OBVIOUS
<1>3. PICK t \in Tablas : t = tabla_segmentos
  BY DeZonas
<1>4. /\ h \in Seq(Hueco) /\ DOMAIN h = 1..Len(h) /\ Len(h) \in Nat
      /\ g \in Seq(Segmento) /\ Ordenada(g) /\ Acuerdo(t, g) /\ Limpia(t)
      /\ Reparte(h, g)
      /\ UNION {Zonas(t)[s] : s \in PIDS \X IDS} = BytesDe(g)
      /\ BytesDe(h) \subseteq Arriba
  BY <1>1, <1>2, <1>3, DeOrden, DeZonas DEF EnZonas, ZonasAhora
<1>5. tam \in Nat /\ tam > 0 /\ tam <= ESPACIO_LIBRE_TOTAL
  BY DeOrden, SupuestoMemoria DEF EnZonas
<1>6. PICK i : i = BuscarEspacio(tam)
  OBVIOUS
<1>7. i \in DOMAIN h /\ h[i].limite >= tam
  <2>1. Acierta(i, tam)
    BY <1>5, <1>6, Busqueda DEF EnZonas
  <2>2. i # 0
    BY <1>6 DEF SegmentoCreado
  <2> QED BY <1>1, <1>4, <2>1, <2>2 DEF Acierta, Entra
<1>8. h[i].base \in Nat /\ h[i].limite \in Nat
  <2>1. h[i] \in Hueco
    BY <1>4, <1>7
  <2> QED BY <2>1 DEF Hueco
<1>9. PICK b \in Nat : b = h[i].base
  BY <1>8
<1>10. PICK nueva : nueva = b..(b + tam - 1)
  OBVIOUS
<1>11. nueva \subseteq BytesDe(h) /\ b \in nueva
  <2>1. ASSUME NEW y \in nueva PROVE y \in BytesDe(h)
    <3>1. y \in Nat /\ b <= y /\ y < b + tam
      BY <1>5, <1>10
    <3>2. EsDe(h[i], y)
      BY <1>5, <1>7, <1>8, <1>9, <3>1 DEF EsDe, Fin
    <3> QED BY <1>7, <3>1, <3>2 DEF BytesDe, Cubre
  <2>2. b \in nueva
    BY <1>5, <1>10
  <2> QED BY <2>1, <2>2
<1>12. nueva \subseteq Arriba /\ b \in Arriba /\ nueva \intersect BytesDe(g) = {}
  <2>1. BytesDe(h) \intersect BytesDe(g) = {}
    BY <1>4 DEF Reparte, BytesDe
  <2> QED BY <1>4, <1>11, <2>1
<1>13. PICK s \in PIDS \X IDS : s = <<p, id>>
  OBVIOUS
<1>14. Zonas(t)[s] = {}
  <2>1. ~t[s[1]][s[2]].activo
    BY <1>3, <1>13
  <2>2. Zona(t, s) = {}
    BY <1>4, <2>1, ZonaDe
  <2> HIDE DEF Zona
  <2> QED BY <2>2 DEF Zonas
<1>15. Zonas(tabla_segmentos') = ConZona(Zonas(t), s, nueva)
  <2>1. PICK f : f = [base |-> b, tam |-> tam, activo |-> TRUE]
    OBVIOUS
  <2>2. Bytes(f.base, f.tam) = nueva
    BY <1>10, <2>1 DEF Bytes
  <2>3. PICK u : u = tabla_segmentos'
    OBVIOUS
  <2>4. u = ConEntrada(t, p, id, f)
    BY <1>1, <1>3, <1>6, <1>9, <2>1, <2>3 DEF SegmentoCreado, ConEntrada
  <2>5. Zonas(u) = ConZona(Zonas(t), <<p, id>>, Bytes(f.base, f.tam))
    BY <2>4, UnaZona
  <2> QED BY <1>13, <2>2, <2>3, <2>5
<1>16. nueva \intersect UNION {Zonas(t)[x] : x \in PIDS \X IDS} = {}
  BY <1>4, <1>12
<1>17. /\ Zonas(tabla_segmentos)[s] = {}
       /\ nueva \intersect UNION {Zonas(tabla_segmentos)[x] : x \in PIDS \X IDS} = {}
       /\ Zonas(tabla_segmentos') = ConZona(Zonas(tabla_segmentos), s, nueva)
  BY <1>3, <1>14, <1>15, <1>16
<1>18. b \in Abstracta!Usuario /\ nueva \subseteq Abstracta!Usuario
  BY <1>12 DEF Abstracta!Usuario, Arriba
<1>19. nueva \intersect Abstracta!Bytes(Zonas(tabla_segmentos)) = {}
  BY <1>17 DEF Abstracta!Bytes, Abstracta!Segmentos
<1> HIDE DEF Zona
<1>20. Abstracta!Crear(s, tam)
  BY <1>10, <1>17, <1>18, <1>19 DEF Abstracta!Crear, ConZona, Zonas, Zona
<1> QED
  BY <1>13, <1>20 DEF Abstracta!Crear

(* The same segments in the same order, none of them further up.           *)
Bajados(g, r) ==
  /\ Len(r) = Len(g)
  /\ \A j \in 1..Len(g) : /\ r[j].pid = g[j].pid /\ r[j].id = g[j].id
                          /\ r[j].limite = g[j].limite
                          /\ r[j].base <= g[j].base

(* Two sets of tables that tell of such lists.                             *)
Cuentan(t, g, u, r) ==
  /\ t \in Tablas /\ Limpia(t) /\ g \in Seq(Segmento) /\ Ordenada(g)
  /\ Acuerdo(t, g) /\ BytesDe(g) \subseteq Arriba
  /\ u \in Tablas /\ Limpia(u) /\ r \in Seq(Segmento) /\ Ordenada(r)
  /\ Acuerdo(u, r) /\ BytesDe(r) \subseteq Arriba
  /\ Bajados(g, r)

(* A segment is the same element of both lists, or active in no table.     *)
LEMMA Pareja ==
  ASSUME NEW t, NEW g, NEW u, NEW r, Cuentan(t, g, u, r), NEW s \in PIDS \X IDS
  PROVE  \/ Zona(t, s) = {} /\ Zona(u, s) = {}
         \/ \E k \in DOMAIN g : DeSegmento(t, g, s, k) /\ DeSegmento(u, r, s, k)
<1>1. /\ t \in Tablas /\ Limpia(t) /\ g \in Seq(Segmento) /\ Ordenada(g)
      /\ Acuerdo(t, g) /\ Len(g) \in Nat /\ DOMAIN g = 1..Len(g)
      /\ u \in Tablas /\ Limpia(u) /\ r \in Seq(Segmento) /\ Ordenada(r)
      /\ Acuerdo(u, r) /\ DOMAIN r = 1..Len(g)
      /\ \A j \in 1..Len(g) : r[j].pid = g[j].pid /\ r[j].id = g[j].id
  BY DEF Cuentan, Bajados
<1>2. CASE ~t[s[1]][s[2]].activo
  <2>1. ASSUME u[s[1]][s[2]].activo PROVE FALSE
    <3>1. PICK k \in DOMAIN r : r[k].pid = s[1] /\ r[k].id = s[2]
      BY <1>1, <2>1, ZonaDe DEF DeSegmento
    <3>2. k \in DOMAIN g /\ g[k].pid = s[1] /\ g[k].id = s[2]
      BY <1>1, <3>1
    <3>3. t[g[k].pid][g[k].id].activo
      BY <1>1, <3>2 DEF Acuerdo
    <3> QED BY <1>2, <3>2, <3>3
  <2> QED BY <1>1, <1>2, <2>1, ZonaDe
<1>3. CASE t[s[1]][s[2]].activo
  <2>1. PICK k \in DOMAIN g : DeSegmento(t, g, s, k)
    BY <1>1, <1>3, ZonaDe
  <2>2. r[k].pid = s[1] /\ r[k].id = s[2] /\ k \in DOMAIN r
    BY <1>1, <2>1 DEF DeSegmento
  <2>3. u[r[k].pid][r[k].id].activo
    BY <1>1, <2>2 DEF Acuerdo
  <2>4. PICK j \in DOMAIN r : DeSegmento(u, r, s, j)
    BY <1>1, <2>2, <2>3, ZonaDe
  <2>5. r[j].pid = r[k].pid /\ r[j].id = r[k].id
    BY <2>2, <2>4 DEF DeSegmento
  <2>6. j = k
    BY <1>1, <2>2, <2>5, AcuerdoUnico
  <2> QED BY <2>1, <2>4, <2>6
<1> QED BY <1>2, <1>3

(* A compaction slides each segment down and reorders none.                *)
LEMMA Desliza ==
  ASSUME NEW t, NEW g, NEW u, NEW r, Cuentan(t, g, u, r)
  PROVE  /\ \A s \in PIDS \X IDS :
              /\ Zona(u, s) \subseteq Arriba
              /\ Abstracta!Desliza(Zona(t, s), Zona(u, s))
         /\ \A s, q \in PIDS \X IDS :
              Abstracta!Abajo(Zona(t, s), Zona(t, q))
                => Abstracta!Abajo(Zona(u, s), Zona(u, q))
<1>1. /\ g \in Seq(Segmento) /\ Ordenada(g) /\ BytesDe(g) \subseteq Arriba
      /\ Len(g) \in Nat /\ DOMAIN g = 1..Len(g)
      /\ r \in Seq(Segmento) /\ Ordenada(r) /\ BytesDe(r) \subseteq Arriba
      /\ DOMAIN r = 1..Len(g)
      /\ \A j \in 1..Len(g) : r[j].limite = g[j].limite /\ r[j].base <= g[j].base
  BY DEF Cuentan, Bajados
<1>2. \A j \in 1..Len(g) :
        /\ g[j].base \in Nat /\ g[j].limite \in Nat /\ g[j].limite > 0
        /\ r[j].base \in Nat /\ r[j].limite \in Nat
  BY <1>1, SegmentosTipo DEF Ordenada
<1>3. /\ UNION {Bytes(g[i].base, g[i].limite) : i \in DOMAIN g} = BytesDe(g)
      /\ UNION {Bytes(r[i].base, r[i].limite) : i \in DOMAIN r} = BytesDe(r)
  <2>1. EsTramo(Segmento)
    BY DEF EsTramo, Segmento
  <2> QED BY <1>1, <2>1, BytesDeLista
<1>4. \A j \in 1..Len(g) : /\ Bytes(g[j].base, g[j].limite) \subseteq Arriba
                           /\ Bytes(r[j].base, r[j].limite) \subseteq Arriba
  BY <1>1, <1>3
<1>5. ASSUME NEW s \in PIDS \X IDS
      PROVE  /\ Zona(u, s) \subseteq Arriba
             /\ Abstracta!Desliza(Zona(t, s), Zona(u, s))
  <2>1. CASE Zona(t, s) = {} /\ Zona(u, s) = {}
    <3>1. 0 \in 0..TAM_MEMORIA /\ Zona(u, s) = {x - 0 : x \in Zona(t, s)}
      BY <2>1, SupuestoMemoria
    <3> QED BY <2>1, <3>1 DEF Abstracta!Desliza
  <2>2. ASSUME NEW k \in DOMAIN g, DeSegmento(t, g, s, k), DeSegmento(u, r, s, k)
        PROVE  /\ Zona(u, s) \subseteq Arriba
               /\ Abstracta!Desliza(Zona(t, s), Zona(u, s))
    <3>1. PICK b \in Nat : b = g[k].base
      BY <1>1, <1>2
    <3>2. PICK a \in Nat : a = r[k].base
      BY <1>1, <1>2
    <3>3. PICK z \in Nat : z = g[k].limite /\ z > 0
      BY <1>1, <1>2
    <3>4. a <= b /\ Zona(t, s) = b..(b + z - 1) /\ Zona(u, s) = a..(a + z - 1)
      BY <1>1, <2>2, <3>1, <3>2, <3>3 DEF DeSegmento, Bytes
    <3>5. b \in Arriba
      <4>1. b \in b..(b + z - 1)
        BY <3>3
      <4>2. Zona(t, s) \subseteq Arriba
        BY <1>1, <1>4, <2>2 DEF DeSegmento
      <4> QED BY <3>4, <4>1, <4>2
    <3>6. PICK d : d = b - a
      OBVIOUS
    <3>7. d \in 0..TAM_MEMORIA
      BY <3>4, <3>5, <3>6, SupuestoMemoria DEF Arriba
    <3>8. a..(a + z - 1) = {x - d : x \in b..(b + z - 1)}
      <4>1. ASSUME NEW y \in a..(a + z - 1)
            PROVE  y \in {x - d : x \in b..(b + z - 1)}
        <5>1. y + d \in b..(b + z - 1) /\ (y + d) - d = y
          BY <3>6
        <5> QED BY <5>1
      <4>2. ASSUME NEW x \in b..(b + z - 1) PROVE x - d \in a..(a + z - 1)
        BY <3>6
      <4> QED BY <4>1, <4>2
    <3>9. Zona(u, s) \subseteq Arriba
      BY <1>1, <1>4, <2>2 DEF DeSegmento
    <3> QED BY <3>4, <3>7, <3>8, <3>9 DEF Abstracta!Desliza
  <2> QED BY <2>1, <2>2, Pareja
<1>6. ASSUME NEW s \in PIDS \X IDS, NEW q \in PIDS \X IDS,
             Abstracta!Abajo(Zona(t, s), Zona(t, q))
      PROVE  Abstracta!Abajo(Zona(u, s), Zona(u, q))
  <2>1. CASE Zona(u, s) = {} \/ Zona(u, q) = {}
    BY <2>1 DEF Abstracta!Abajo
  <2>2. CASE Zona(u, s) # {} /\ Zona(u, q) # {}
    <3>1. PICK k \in DOMAIN g : DeSegmento(t, g, s, k) /\ DeSegmento(u, r, s, k)
      BY <2>2, Pareja
    <3>2. PICK j \in DOMAIN g : DeSegmento(t, g, q, j) /\ DeSegmento(u, r, q, j)
      BY <2>2, Pareja
    <3>3. g[k].base < g[j].base
      <4>1. /\ g[k].base \in Zona(t, s) /\ g[j].base \in Zona(t, q)
        <5>1. \A x, z \in Nat : z > 0 => x \in Bytes(x, z)
          BY DEF Bytes
        <5>2. /\ g[k].base \in Nat /\ g[k].limite \in Nat /\ g[k].limite > 0
              /\ g[j].base \in Nat /\ g[j].limite \in Nat /\ g[j].limite > 0
          BY <1>1, <1>2
        <5> QED BY <3>1, <3>2, <5>1, <5>2 DEF DeSegmento
      <4> QED BY <1>6, <4>1 DEF Abstracta!Abajo
    <3>4. k < j
      <4>1. ASSUME j < k PROVE FALSE
        <5>1. Fin(g[j]) <= g[k].base
          BY <1>1, <4>1 DEF Ordenada
        <5> QED BY <1>1, <1>2, <3>3, <5>1 DEF Fin
      <4> QED BY <1>1, <1>2, <3>3, <4>1
    <3>5. Fin(r[k]) <= r[j].base
      BY <1>1, <3>4 DEF Ordenada
    <3>6. PICK a \in Nat : a = r[k].base
      BY <1>1, <1>2
    <3>7. PICK z \in Nat : z = r[k].limite
      BY <1>1, <1>2
    <3>8. PICK b \in Nat : b = r[j].base
      BY <1>1, <1>2
    <3>9. PICK w \in Nat : w = r[j].limite
      BY <1>1, <1>2
    <3>10. /\ Zona(u, s) = a..(a + z - 1) /\ Zona(u, q) = b..(b + w - 1)
           /\ a + z <= b
      BY <3>1, <3>2, <3>5, <3>6, <3>7, <3>8, <3>9 DEF DeSegmento, Bytes, Fin
    <3>11. \A x \in a..(a + z - 1), y \in b..(b + w - 1) : x < y
      BY <3>10
    <3> QED BY <3>10, <3>11 DEF Abstracta!Abajo
  <2> QED BY <2>1, <2>2
<1> QED BY <1>5, <1>6

(* compactar and the kernel's new bases.                                   *)
LEMMA CompactarDesliza ==
  ASSUME EnZonas, EnZonas', Compactar
  PROVE  Abstracta!Compactar
<1>1. PICK t : t = tabla_segmentos
  OBVIOUS
<1>2. PICK g : g = LISTA_GLOBAL_SEGMENTOS
  OBVIOUS
<1>3. PICK u : u = tabla_segmentos'
  OBVIOUS
<1>4. PICK r : r = LISTA_GLOBAL_SEGMENTOS'
  OBVIOUS
<1>5. /\ t \in Tablas /\ Limpia(t) /\ g \in Seq(Segmento) /\ Ordenada(g)
      /\ Acuerdo(t, g) /\ BytesDe(g) \subseteq Arriba
  BY <1>1, <1>2, DeZonas
<1>6. /\ u \in Tablas /\ Limpia(u) /\ r \in Seq(Segmento) /\ Ordenada(r)
      /\ Acuerdo(u, r) /\ BytesDe(r) \subseteq Arriba
  <2>1. (EnZonas => /\ tabla_segmentos \in Tablas /\ Limpia(tabla_segmentos)
                    /\ LISTA_GLOBAL_SEGMENTOS \in Seq(Segmento)
                    /\ Ordenada(LISTA_GLOBAL_SEGMENTOS)
                    /\ Acuerdo(tabla_segmentos, LISTA_GLOBAL_SEGMENTOS)
                    /\ BytesDe(LISTA_GLOBAL_SEGMENTOS) \subseteq Arriba)'
    BY DeZonas, PTL
  <2> QED BY <1>3, <1>4, <2>1
<1>7. Bajados(g, r)
  <2>1. /\ Sana(EstadoMemoria) /\ ESPACIO_LIBRE_TOTAL \in Nat
        /\ pedido.tam \in TAMANIOS /\ pedido.tam <= ESPACIO_LIBRE_TOTAL
    BY DeOrden, Campos DEF EnZonas, Orden, EnOrden, Compactar, PedidoPosible,
                           SinPedido
  <2>2. Len(LISTA_ESPACIOS_LIBRES) > 0
    BY <2>1, HayHueco, Campos
  <2>3. Conserva(EstadoMemoria, Compactada)
    BY <2>1, <2>2, Compacta
  <2>4. r = Compactada.segmentos
    BY <1>4 DEF Compactar, QuedaMemoria
  <2> QED BY <1>2, <2>3, <2>4, Campos DEF Conserva, Bajados
<1>8. Cuentan(t, g, u, r)
  BY <1>5, <1>6, <1>7 DEF Cuentan
<1>9. /\ \A s \in PIDS \X IDS :
           /\ Zona(u, s) \subseteq Arriba
           /\ Abstracta!Desliza(Zona(t, s), Zona(u, s))
      /\ \A s, q \in PIDS \X IDS :
           Abstracta!Abajo(Zona(t, s), Zona(t, q))
             => Abstracta!Abajo(Zona(u, s), Zona(u, q))
  BY <1>8, Desliza
<1>10. /\ \A s \in PIDS \X IDS : Zonas(t)[s] = Zona(t, s) /\ Zonas(u)[s] = Zona(u, s)
       /\ Zonas(u) \in [PIDS \X IDS -> SUBSET Arriba]
  <2> HIDE DEF Zona
  <2> QED BY <1>9 DEF Zonas
<1>11. /\ \A s \in PIDS \X IDS :
            Abstracta!Desliza(Zonas(t)[s], Zonas(u)[s])
       /\ \A s, q \in PIDS \X IDS :
            Abstracta!Abajo(Zonas(t)[s], Zonas(t)[q])
              => Abstracta!Abajo(Zonas(u)[s], Zonas(u)[q])
  <2> HIDE DEF Zona, Zonas
  <2> QED BY <1>9, <1>10
<1> HIDE DEF Zona
<1>12. /\ Zonas(tabla_segmentos') \in [PIDS \X IDS -> SUBSET Arriba]
       /\ \A s \in PIDS \X IDS :
            Abstracta!Desliza(Zonas(tabla_segmentos)[s], Zonas(tabla_segmentos')[s])
       /\ \A s, q \in PIDS \X IDS :
            Abstracta!Abajo(Zonas(tabla_segmentos)[s], Zonas(tabla_segmentos)[q])
              => Abstracta!Abajo(Zonas(tabla_segmentos')[s],
                                 Zonas(tabla_segmentos')[q])
  BY <1>1, <1>3, <1>10, <1>11
<1> QED
  BY <1>12 DEF Abstracta!Compactar, Abstracta!Segmentos, Abstracta!Usuario,
               Arriba, Zonas, Zona

(* Every request is a step of segmented memory, or changes no segment.     *)
LEMMA PasoMemoria ==
  ASSUME EnZonas, EnZonas', [Next]_vars
  PROVE  Abstracta!Next \/ UNCHANGED tabla_segmentos
<1>1. ASSUME NEW p \in PIDS, LiberarTodo(p)
      PROVE  Abstracta!Next
  BY <1>1, LiberarVacia DEF Abstracta!Next
<1>2. ASSUME NEW p \in PIDS, NEW id \in IDS, NEW tam \in TAMANIOS,
             ~tabla_segmentos[p][id].activo, CrearSegmento(p, id, tam)
      PROVE  Abstracta!Next \/ UNCHANGED tabla_segmentos
  <2>1. PICK s \in Abstracta!Segmentos : s = <<p, id>>
    BY DEF Abstracta!Segmentos
  <2>2. CASE ESPACIO_LIBRE_TOTAL < tam /\ LiberarTodo(p)
    BY <1>1, <2>2
  <2>3. CASE ESPACIO_LIBRE_TOTAL >= tam /\ SegmentoCreado(p, id, tam)
    <3>1. Abstracta!Crear(<<p, id>>, tam)
      BY <1>2, <2>3, CreaZona
    <3>2. \E x \in Abstracta!Segmentos, n \in TAMANIOS : Abstracta!Crear(x, n)
      BY <2>1, <3>1
    <3> QED BY <3>2 DEF Abstracta!Next
  <2> QED BY <1>2, <2>2, <2>3 DEF CrearSegmento
<1>3. ASSUME NEW p \in PIDS, NEW id \in IDS, Borrar(p, id)
      PROVE  Abstracta!Next
  <2>1. Abstracta!Borrar(<<p, id>>)
    BY <1>3, BorrarVacia
  <2>2. <<p, id>> \in Abstracta!Segmentos
    BY DEF Abstracta!Segmentos
  <2> QED BY <2>1, <2>2 DEF Abstracta!Next
<1>4. CASE Compactar
  BY <1>4, CompactarDesliza DEF Abstracta!Next
<1>5. CASE Reintentar
  <2>1. /\ pedido.pid \in PIDS /\ pedido.id \in IDS /\ pedido.tam \in TAMANIOS
        /\ ~tabla_segmentos[pedido.pid][pedido.id].activo
    BY <1>5, DeOrden DEF EnZonas, Reintentar, PedidoPosible, SinPedido
  <2>2. PICK p \in PIDS : p = pedido.pid
    BY <2>1
  <2>3. PICK id \in IDS : id = pedido.id
    BY <2>1
  <2>4. PICK tam \in TAMANIOS : tam = pedido.tam
    BY <2>1
  <2>5. ~tabla_segmentos[p][id].activo /\ CrearSegmento(p, id, tam)
    BY <1>5, <2>1, <2>2, <2>3, <2>4 DEF Reintentar
  <2> QED BY <1>2, <2>5
<1>6. ASSUME NEW p \in PIDS, NEW id \in IDS, NEW tam \in TAMANIOS,
             Crear(p, id, tam)
      PROVE  Abstracta!Next \/ UNCHANGED tabla_segmentos
  BY <1>2, <1>6 DEF Crear
<1>7. ASSUME NEW p \in PIDS, Terminar(p) PROVE Abstracta!Next
  BY <1>1, <1>7 DEF Terminar
<1>8. CASE UNCHANGED vars
  BY <1>8 DEF vars
<1> QED
  BY <1>3, <1>4, <1>5, <1>6, <1>7, <1>8 DEF Next, Pedido

(* memoria's utils.c and the kernel's core.c implement segmented memory:   *)
(* allocations are of free bytes, a release gives back what was given, and *)
(* a compaction slides the segments without losing, resizing or reordering *)
(* any of them.                                                            *)
THEOREM MemoriaSegmentada == Spec => ImplementaMemoria
<1>1. Init => Abstracta!Init
  <2>1. Bytes(Inactivo.base, Inactivo.tam) = {}
    BY DEF Bytes, Inactivo
  <2> QED BY <2>1 DEF Init, Abstracta!Init, Abstracta!Segmentos
<1>2. Spec => []EnZonas
  BY SiempreEnZonas
<1>3. EnZonas /\ EnZonas' /\ [Next]_vars
        => (Abstracta!Next \/ UNCHANGED tabla_segmentos)
  BY PasoMemoria
<1>4. ASSUME Abstracta!Next \/ UNCHANGED tabla_segmentos
      PROVE  Abstracta!Next \/ UNCHANGED
               [s \in PIDS \X IDS |-> Bytes(tabla_segmentos[s[1]][s[2]].base,
                                            tabla_segmentos[s[1]][s[2]].tam)]
  BY <1>4
<1> QED
  BY <1>1, <1>2, <1>3, <1>4, PTL DEF Spec, ImplementaMemoria, Abstracta!Spec
=============================================================================
