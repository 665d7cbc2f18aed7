--------------------------- MODULE RecursosPruebas ---------------------------
(***************************************************************************)
(* Theorems about WAIT, SIGNAL and the release of the resources of a       *)
(* process that ends.                                                      *)
(***************************************************************************)
EXTENDS Recursos, SecuenciasPruebas

Asignacion == [nombre : RECURSOS, instancias_asignadas : Nat \ {0}]
Listas == Seq(Asignacion)

(* The steps of the loop of terminar_proceso and what each one keeps.      *)
EnExterno == [paso : {"externo"}, pid : PROCESOS, i : Nat, cant : Nat]
EnInterno ==
  [paso : {"interno"}, pid : PROCESOS, i : Nat, cant : Nat,
   nombre : RECURSOS, instancias : Nat \ {0}]
EnCaido == [paso : {"caido"}, pid : PROCESOS]

Tipos ==
  /\ instancias_disponibles \in [RECURSOS -> Int]
  /\ cola_bloqueados \in [RECURSOS -> Seq(PROCESOS)]
  /\ recursos_asignados \in [PROCESOS -> Listas]
  /\ fin \in {SinFin} \union EnExterno \union EnInterno \union EnCaido

Turno ==
  /\ READY \subseteq PROCESOS /\ RUNNING \in PROCESOS \union {NULO}
  /\ llamadas \in [PROCESOS -> 0..LARGO_PROGRAMA]
  /\ regalos \in [RECURSOS -> Nat]

(* A resource is once in the list of a process.                            *)
SinRepetir(s) ==
  \A i, j \in 1..Len(s) : s[i].nombre = s[j].nombre => i = j
UnaVezCadaUno == \A p \in PROCESOS : SinRepetir(recursos_asignados[p])

(* The instances of r that a list notes.                                   *)
Notadas(s, r) ==
  IF PorNombre(s, r) = 0 THEN 0 ELSE s[PorNombre(s, r)].instancias_asignadas

(* The release: the list loses at most its first resource, because the     *)
(* inner loop that follows starts at an index which is no longer 0 and so  *)
(* signals less instances than the process has.                            *)
Vuelta ==
  LET s == recursos_asignados[fin.pid]
  IN  /\ fin.paso = "externo" =>
           \/ fin.i = 0 /\ Len(s) = fin.cant
           \/ fin.i >= 2 /\ Len(s) = fin.cant - 1
      /\ fin.paso = "interno" =>
           \/ /\ fin.i < fin.instancias
              /\ Len(s) = fin.cant
              /\ Notadas(s, fin.nombre) = fin.instancias - fin.i
           \/ /\ fin.i >= 1
              /\ Len(s) = fin.cant - 1
              /\ fin.i < fin.instancias =>
                   Notadas(s, fin.nombre) > fin.instancias - fin.i
      /\ fin.paso = "caido" => Len(s) >= 2

DeRecursos == Tipos /\ UnaVezCadaUno /\ ColaExacta /\ Vuelta

-----------------------------------------------------------------------------
(* What recurso_asignado finds in the list of a process.                   *)
LEMMA IndiceEs ==
  \A p, r : Indice(p, r) = PorNombre(recursos_asignados[p], r)
BY DEF Indice, PorNombre, SelectInSeq

(* Where a resource is in a list that has it once.                         *)
LEMMA NotadasDe ==
  ASSUME NEW s \in Listas, NEW r
  PROVE  /\ PorNombre(s, r) \in 0..Len(s)
         /\ Notadas(s, r) \in Nat
         /\ Notadas(s, r) = 0 <=> PorNombre(s, r) = 0
         /\ PorNombre(s, r) # 0 => s[PorNombre(s, r)].nombre = r
         /\ SinRepetir(s) => \A i \in 1..Len(s) : s[i].nombre = r =>
              Notadas(s, r) = s[i].instancias_asignadas
<1>1. s \in Seq(Asignacion) /\ Len(s) \in Nat
  BY DEF Listas
<1>2. \/ PorNombre(s, r) = 0 /\ \A j \in 1..Len(s) : s[j].nombre # r
      \/ PorNombre(s, r) \in 1..Len(s) /\ s[PorNombre(s, r)].nombre = r
  BY <1>1, BusquedaPorNombre
<1>3. \A i \in 1..Len(s) : s[i].instancias_asignadas \in Nat \ {0}
  <2> TAKE i \in 1..Len(s)
  <2>1. s[i] \in Asignacion
    BY <1>1
  <2> QED
    BY <2>1 DEF Asignacion
<1>4. CASE PorNombre(s, r) = 0
  BY <1>1, <1>2, <1>4 DEF Notadas
<1>5. CASE PorNombre(s, r) # 0
  BY <1>1, <1>2, <1>3, <1>5 DEF Notadas, SinRepetir
<1> QED
  BY <1>4, <1>5

(* asignar_recurso on a list.                                              *)
ConUnaMas(s, r) ==
  IF PorNombre(s, r) = 0
    THEN Append(s, [nombre |-> r, instancias_asignadas |-> 1])
    ELSE [s EXCEPT ![PorNombre(s, r)].instancias_asignadas = @ + 1]

(* desasignar_recurso on a list.                                           *)
ConUnaMenos(s, r) ==
  IF PorNombre(s, r) = 0 THEN s
  ELSE IF s[PorNombre(s, r)].instancias_asignadas = 1
    THEN RemoveAt(s, PorNombre(s, r))
    ELSE [s EXCEPT ![PorNombre(s, r)].instancias_asignadas = @ - 1]

(* Writing the instances of one element changes nothing else.              *)
LEMMA EscribirUna ==
  ASSUME NEW s \in Listas, SinRepetir(s), NEW i \in 1..Len(s),
         NEW e \in Asignacion, e.nombre = s[i].nombre
  PROVE  /\ [s EXCEPT ![i] = e] \in Listas
         /\ SinRepetir([s EXCEPT ![i] = e])
         /\ Len([s EXCEPT ![i] = e]) = Len(s)
         /\ Notadas([s EXCEPT ![i] = e], e.nombre) = e.instancias_asignadas
<1> DEFINE t == [s EXCEPT ![i] = e]
<1>1. s \in Seq(Asignacion) /\ Len(s) \in Nat
  BY DEF Listas
<1>5. t \in Listas /\ Len(t) = Len(s)
  BY <1>1, ExceptSeq DEF Listas
<1>6. t[i] = e /\ \A j \in 1..Len(s) : j # i => t[j] = s[j]
  BY <1>1
<1> HIDE DEF t
<1>7. \A j \in 1..Len(s) : t[j].nombre = s[j].nombre
  BY <1>6
<1>8. SinRepetir(t)
  BY <1>5, <1>7 DEF SinRepetir
<1>9. Notadas(t, e.nombre) = e.instancias_asignadas
  <2>1. i \in 1..Len(t) /\ t[i] = e
    BY <1>5, <1>6
  <2>2. \A j \in 1..Len(t) : t[j].nombre = e.nombre =>
          Notadas(t, e.nombre) = t[j].instancias_asignadas
    BY <1>5, <1>8, NotadasDe
  <2> QED
    BY <2>1, <2>2
<1> QED
  BY <1>5, <1>8, <1>9 DEF t

(* Noting one instance more keeps the list well formed.                    *)
LEMMA PonerUna ==
  ASSUME NEW s \in Listas, SinRepetir(s), NEW r \in RECURSOS
  PROVE  ConUnaMas(s, r) \in Listas /\ SinRepetir(ConUnaMas(s, r))
<1> DEFINE i == PorNombre(s, r)
           e == [nombre |-> r, instancias_asignadas |-> 1]
<1>1. s \in Seq(Asignacion) /\ Len(s) \in Nat
  BY DEF Listas
<1>2. \/ i = 0 /\ \A j \in 1..Len(s) : s[j].nombre # r
      \/ i \in 1..Len(s) /\ s[i].nombre = r
  BY <1>1, BusquedaPorNombre
<1>3. e \in Asignacion /\ e.nombre = r
  BY DEF Asignacion
<1> HIDE DEF i, e
<1>4. CASE i = 0
  <2> DEFINE t == Append(s, e)
  <2>1. t \in Seq(Asignacion) /\ Len(t) = Len(s) + 1
    BY <1>1, <1>3
  <2>2. t[Len(s) + 1] = e /\ \A j \in 1..Len(s) : t[j] = s[j]
    BY <1>1
  <2>3. ConUnaMas(s, r) = t
    BY <1>4 DEF ConUnaMas, i, e
  <2> HIDE DEF t
  <2>4. \A j \in 1..Len(t) : j = Len(s) + 1 \/ j \in 1..Len(s)
    BY <1>1, <2>1
  <2>5. SinRepetir(t)
    BY <1>2, <1>3, <1>4, <2>2, <2>4, <1>1 DEF SinRepetir
  <2> QED
    BY <2>1, <2>3, <2>5 DEF Listas
<1>5. CASE i \in 1..Len(s)
  <2> DEFINE u == [nombre |-> r,
                   instancias_asignadas |-> s[i].instancias_asignadas + 1]
  <2>1. s[i] \in Asignacion /\ s[i].nombre = r
    BY <1>1, <1>2, <1>5
  <2>2. /\ u \in Asignacion /\ u.nombre = s[i].nombre
        /\ u = [s[i] EXCEPT !.instancias_asignadas = @ + 1]
    BY <2>1 DEF Asignacion
  <2>3. ConUnaMas(s, r) = [s EXCEPT ![i] = [s[i] EXCEPT
                                          !.instancias_asignadas = @ + 1]]
    BY <1>1, <1>5 DEF ConUnaMas, i
  <2> HIDE DEF u
  <2>4. ConUnaMas(s, r) = [s EXCEPT ![i] = u]
    BY <2>2, <2>3
  <2>5. u \in Asignacion /\ u.nombre = s[i].nombre
    BY <2>2
  <2> QED
    BY <1>5, <2>4, <2>5, EscribirUna
<1> QED
  BY <1>2, <1>4, <1>5

(* Taking one instance away: the resource leaves the list with its last    *)
(* one.                                                                    *)
LEMMA SacarUna ==
  ASSUME NEW s \in Listas, SinRepetir(s), NEW r \in RECURSOS
  PROVE  LET t == ConUnaMenos(s, r)
         IN  /\ t \in Listas /\ SinRepetir(t)
             /\ Notadas(s, r) = 1 => Len(t) = Len(s) - 1
             /\ Notadas(s, r) > 1 => /\ Len(t) = Len(s)
                                     /\ Notadas(t, r) = Notadas(s, r) - 1
<1> DEFINE i == PorNombre(s, r)
           t == ConUnaMenos(s, r)
<1>1. s \in Seq(Asignacion) /\ Len(s) \in Nat
  BY DEF Listas
<1>2. /\ Notadas(s, r) \in Nat
      /\ Notadas(s, r) = 0 <=> i = 0
  BY NotadasDe
<1>3. i # 0 => /\ i \in 1..Len(s) /\ s[i].nombre = r
               /\ Notadas(s, r) = s[i].instancias_asignadas
  BY <1>1, BusquedaPorNombre DEF Notadas
<1>4. CASE i = 0
  <2>1. t = s
    BY <1>4 DEF ConUnaMenos
  <2> QED
    BY <1>2, <1>4, <2>1
<1>5. CASE i # 0 /\ Notadas(s, r) = 1
  <2>1. t = RemoveAt(s, i)
    BY <1>3, <1>5 DEF ConUnaMenos
  <2> HIDE DEF i, t
  <2>2. /\ t \in Seq(Asignacion) /\ Len(t) = Len(s) - 1
        /\ \A j \in 1..(Len(s) - 1) : t[j] = IF j < i THEN s[j] ELSE s[j + 1]
    BY <1>1, <1>3, <1>5, <2>1, QuitarTipo
  <2>3. SinRepetir(t)
    <3> SUFFICES ASSUME NEW j \in 1..Len(t), NEW k \in 1..Len(t),
                        t[j].nombre = t[k].nombre
                 PROVE  j = k
      BY DEF SinRepetir
    <3>1. /\ t[j] = IF j < i THEN s[j] ELSE s[j + 1]
          /\ t[k] = IF k < i THEN s[k] ELSE s[k + 1]
      BY <2>2
    <3>2. j \in 1..Len(s) /\ j + 1 \in 1..Len(s)
      BY <1>1, <2>2
    <3>3. k \in 1..Len(s) /\ k + 1 \in 1..Len(s)
      BY <1>1, <2>2
    <3> QED
      BY <1>1, <1>3, <1>5, <3>1, <3>2, <3>3 DEF SinRepetir
  <2> QED
    BY <1>5, <2>2, <2>3 DEF Listas, t
<1>6. CASE i # 0 /\ Notadas(s, r) > 1
  <2> DEFINE u == [nombre |-> r,
                   instancias_asignadas |-> s[i].instancias_asignadas - 1]
  <2>1. s[i] \in Asignacion /\ s[i].nombre = r /\ i \in 1..Len(s)
    BY <1>1, <1>3, <1>6
  <2>2. /\ u \in Asignacion /\ u.nombre = s[i].nombre
        /\ u = [s[i] EXCEPT !.instancias_asignadas = @ - 1]
        /\ u.nombre = r /\ u.instancias_asignadas = Notadas(s, r) - 1
    BY <1>3, <1>6, <2>1 DEF Asignacion
  <2>3. i # 0 /\ s[i].instancias_asignadas # 1
    BY <1>3, <1>6
  <2>4. t = [s EXCEPT ![i] = u]
    BY <2>2, <2>3 DEF ConUnaMenos
  <2> HIDE DEF i, t, u
  <2>5. /\ t \in Listas /\ SinRepetir(t) /\ Len(t) = Len(s)
        /\ Notadas(t, u.nombre) = u.instancias_asignadas
    BY <2>1, <2>2, <2>4, EscribirUna
  <2> QED
    BY <1>6, <2>2, <2>5 DEF t
<1> QED
  BY <1>2, <1>4, <1>5, <1>6

-----------------------------------------------------------------------------
(* asignar_recurso and desasignar_recurso write the list of the process.   *)
LEMMA AsignarEs ==
  ASSUME NEW p \in PROCESOS, NEW r \in RECURSOS, Tipos, UnaVezCadaUno,
         Asignar(p, r)
  PROVE  /\ recursos_asignados' \in [PROCESOS -> Listas]
         /\ UnaVezCadaUno'
<1> DEFINE s == recursos_asignados[p]
<1>1. s \in Listas /\ SinRepetir(s)
  BY DEF Tipos, UnaVezCadaUno
<1>2. recursos_asignados' = [recursos_asignados EXCEPT ![p] = ConUnaMas(s, r)]
  <2>1. Indice(p, r) = PorNombre(s, r)
    BY IndiceEs
  <2> QED
    BY <2>1 DEF Asignar, ConUnaMas, Tipos
<1>3. ConUnaMas(s, r) \in Listas /\ SinRepetir(ConUnaMas(s, r))
  BY <1>1, PonerUna
<1> QED
  BY <1>2, <1>3 DEF Tipos, UnaVezCadaUno

(* ... and a SIGNAL takes one instance off the count of that resource      *)
(* alone.                                                                  *)
LEMMA DesasignarEs ==
  ASSUME NEW p \in PROCESOS, NEW r \in RECURSOS, Tipos, UnaVezCadaUno,
         Desasignar(p, r)
  PROVE  /\ recursos_asignados' \in [PROCESOS -> Listas]
         /\ recursos_asignados'[p] = ConUnaMenos(recursos_asignados[p], r)
         /\ \A q \in PROCESOS : q # p =>
              recursos_asignados'[q] = recursos_asignados[q]
         /\ UnaVezCadaUno'
<1> DEFINE s == recursos_asignados[p]
<1>1. s \in Listas /\ SinRepetir(s)
  BY DEF Tipos, UnaVezCadaUno
<1>2. recursos_asignados' = [recursos_asignados EXCEPT ![p] = ConUnaMenos(s, r)]
  <2>1. Indice(p, r) = PorNombre(s, r)
    BY IndiceEs
  <2> QED
    BY <2>1 DEF Desasignar, ConUnaMenos, Tipos
<1>3. ConUnaMenos(s, r) \in Listas /\ SinRepetir(ConUnaMenos(s, r))
  BY <1>1, SacarUna
<1> QED
  BY <1>2, <1>3 DEF Tipos, UnaVezCadaUno

(* signal_recurso: one instance more, and one process less in the queue if *)
(* there was one.                                                          *)
LEMMA SignalEs ==
  ASSUME NEW p \in PROCESOS, NEW r \in RECURSOS, Tipos, UnaVezCadaUno,
         ColaExacta, READY \subseteq PROCESOS, SignalRecurso(p, r)
  PROVE  /\ instancias_disponibles' \in [RECURSOS -> Int]
         /\ cola_bloqueados' \in [RECURSOS -> Seq(PROCESOS)]
         /\ READY' \subseteq PROCESOS
         /\ ColaExacta'
<1> USE DEF Tipos
<1>1. instancias_disponibles' =
        [instancias_disponibles EXCEPT ![r] = instancias_disponibles[r] + 1]
  BY DEF SignalRecurso
<1>2. instancias_disponibles[r] \in Int /\ cola_bloqueados[r] \in Seq(PROCESOS)
  OBVIOUS
<1>3. CASE cola_bloqueados[r] # <<>>
  <2> DEFINE c == cola_bloqueados[r]
  <2>1. /\ cola_bloqueados' = [cola_bloqueados EXCEPT ![r] = Tail(c)]
        /\ READY' = READY \union {Head(c)}
    BY <1>3 DEF SignalRecurso
  <2>2. Tail(c) \in Seq(PROCESOS) /\ Head(c) \in PROCESOS
        /\ Len(Tail(c)) = Len(c) - 1 /\ Len(c) \in Nat \ {0}
    BY <1>2, <1>3
  <2>3. Len(c) = IF instancias_disponibles[r] < 0
                   THEN -instancias_disponibles[r] ELSE 0
    BY DEF ColaExacta
  <2> HIDE DEF c
  <2>4. ColaExacta'
    BY <1>1, <1>2, <2>1, <2>2, <2>3 DEF ColaExacta
  <2> QED
    BY <1>1, <1>2, <2>1, <2>2, <2>4
<1>4. CASE cola_bloqueados[r] = <<>>
  <2>1. UNCHANGED <<cola_bloqueados, READY>>
    BY <1>4 DEF SignalRecurso
  <2>2. Len(cola_bloqueados[r]) = 0
    BY <1>4
  <2>3. ColaExacta'
    BY <1>1, <1>2, <2>1, <2>2 DEF ColaExacta
  <2> QED
    BY <1>1, <1>2, <2>1, <2>3
<1> QED
  BY <1>3, <1>4

(* Nothing of the resources changes where only the processes move.         *)
LEMMA RecursosQuietos ==
  ASSUME DeRecursos,
         UNCHANGED <<instancias_disponibles, cola_bloqueados,
                     recursos_asignados, fin>>
  PROVE  DeRecursos'
BY DEF DeRecursos, Tipos, UnaVezCadaUno, ColaExacta, Vuelta

(* Init: no process has anything and no queue has anybody.                 *)
LEMMA InicioRecursos == Init => DeRecursos /\ Turno
<1> SUFFICES ASSUME Init PROVE DeRecursos /\ Turno
  OBVIOUS
<1> USE DEF Init
<1>1. <<>> \in Seq(PROCESOS) /\ <<>> \in Listas /\ Len(<<>>) = 0
  BY DEF Listas
<1>2. \A r \in RECURSOS : INSTANCIAS[r] \in Nat
  BY SupuestoRecursos
<1>3. instancias_disponibles \in [RECURSOS -> Int]
  BY SupuestoRecursos
<1>4. Tipos
  BY <1>1, <1>3 DEF Tipos
<1>5. UnaVezCadaUno
  BY <1>1 DEF UnaVezCadaUno, SinRepetir
<1>6. ColaExacta
  BY <1>1, <1>2 DEF ColaExacta
<1>7. Vuelta
  BY DEF Vuelta, SinFin
<1>8. Turno
  BY SupuestoRecursos DEF Turno
<1> QED
  BY <1>4, <1>5, <1>6, <1>7, <1>8 DEF DeRecursos

(* WAIT: the queue grows by one exactly when the count goes below 0.       *)
LEMMA PasoWait ==
  ASSUME DeRecursos, Turno, NEW p \in PROCESOS, NEW r \in RECURSOS, Wait(p, r)
  PROVE  /\ DeRecursos' /\ RUNNING' \in {RUNNING, NULO}
         /\ UNCHANGED <<READY, regalos>>
<1> USE DEF DeRecursos
<1>1. fin = SinFin /\ fin' = SinFin
  BY DEF Wait, Llamada
<1>2. recursos_asignados' \in [PROCESOS -> Listas] /\ UnaVezCadaUno'
  BY AsignarEs DEF Wait
<1>3. instancias_disponibles' =
        [instancias_disponibles EXCEPT ![r] = instancias_disponibles[r] - 1]
  BY DEF Wait
<1>4. instancias_disponibles[r] \in Int /\ cola_bloqueados[r] \in Seq(PROCESOS)
  BY DEF Tipos
<1>5. Len(cola_bloqueados[r]) = IF instancias_disponibles[r] < 0
                                  THEN -instancias_disponibles[r] ELSE 0
  BY DEF ColaExacta
<1>6. /\ cola_bloqueados' \in [RECURSOS -> Seq(PROCESOS)]
      /\ ColaExacta'
  <2>1. CASE Falta(r)
    <3> DEFINE c == Append(cola_bloqueados[r], p)
    <3>1. cola_bloqueados' = [cola_bloqueados EXCEPT ![r] = c]
      BY <2>1 DEF Wait, Bloquear
    <3>2. c \in Seq(PROCESOS) /\ Len(c) = Len(cola_bloqueados[r]) + 1
      BY <1>4
    <3> HIDE DEF c
    <3>3. ColaExacta'
      <4> SUFFICES ASSUME NEW q \in RECURSOS
                   PROVE  Len(cola_bloqueados'[q]) =
                            IF instancias_disponibles'[q] < 0
                              THEN -instancias_disponibles'[q] ELSE 0
        BY DEF ColaExacta
      <4>1. CASE q = r
        <5>1. cola_bloqueados'[r] = c
          BY <3>1 DEF Tipos
        <5>2. instancias_disponibles'[r] = instancias_disponibles[r] - 1
          BY <1>3 DEF Tipos
        <5>3. instancias_disponibles[r] - 1 < 0
          BY <2>1 DEF Falta
        <5>4. Len(c) = -(instancias_disponibles[r] - 1)
          BY <1>4, <1>5, <3>2, <5>3
        <5> QED
          BY <4>1, <5>1, <5>2, <5>3, <5>4
      <4>2. CASE q # r
        BY <1>3, <3>1, <4>2 DEF Tipos, ColaExacta
      <4> QED
        BY <4>1, <4>2
    <3> QED
      BY <3>1, <3>2, <3>3 DEF Tipos
  <2>2. CASE ~Falta(r)
    <3>1. UNCHANGED cola_bloqueados
      BY <2>2 DEF Wait
    <3>2. ColaExacta'
      <4> SUFFICES ASSUME NEW q \in RECURSOS
                   PROVE  Len(cola_bloqueados[q]) =
                            IF instancias_disponibles'[q] < 0
                              THEN -instancias_disponibles'[q] ELSE 0
        BY <3>1 DEF ColaExacta
      <4>1. CASE q = r
        BY <1>3, <1>4, <1>5, <2>2, <4>1 DEF Tipos, Falta
      <4>2. CASE q # r
        BY <1>3, <4>2 DEF Tipos, ColaExacta
      <4> QED
        BY <4>1, <4>2
    <3> QED
      BY <3>1, <3>2 DEF Tipos
  <2> QED
    BY <2>1, <2>2
<1>7. instancias_disponibles' \in [RECURSOS -> Int]
  BY <1>3, <1>4 DEF Tipos
<1>8. Tipos'
  BY <1>1, <1>2, <1>6, <1>7 DEF Tipos
<1>9. Vuelta'
  BY <1>1 DEF Vuelta, SinFin
<1>10. RUNNING' \in {RUNNING, NULO} /\ UNCHANGED <<READY, regalos>>
  BY DEF Wait, Bloquear
<1> QED
  BY <1>2, <1>6, <1>8, <1>9, <1>10

(* SIGNAL while no process is being ended.                                 *)
LEMMA PasoSignal ==
  ASSUME DeRecursos, Turno, NEW p \in PROCESOS, NEW r \in RECURSOS,
         Signal(p, r)
  PROVE  /\ DeRecursos' /\ READY' \subseteq PROCESOS
         /\ regalos' \in [RECURSOS -> Nat]
<1>1. fin = SinFin /\ fin' = SinFin /\ SignalRecurso(p, r)
  BY DEF Signal, Llamada
<1>2. /\ instancias_disponibles' \in [RECURSOS -> Int]
      /\ cola_bloqueados' \in [RECURSOS -> Seq(PROCESOS)]
      /\ READY' \subseteq PROCESOS /\ ColaExacta'
  BY <1>1, SignalEs DEF DeRecursos, Turno
<1>3. recursos_asignados' \in [PROCESOS -> Listas] /\ UnaVezCadaUno'
  BY <1>1, DesasignarEs DEF DeRecursos, SignalRecurso
<1>4. Tipos' /\ Vuelta'
  BY <1>1, <1>2, <1>3 DEF Tipos, Vuelta, SinFin
<1>5. regalos' \in [RECURSOS -> Nat]
  BY DEF Signal, Turno
<1> QED
  BY <1>2, <1>3, <1>4, <1>5 DEF DeRecursos

(* The end of a process begins with the number of its resources.           *)
LEMMA PasoComenzar ==
  ASSUME DeRecursos, NEW p \in PROCESOS, ComenzarFin(p),
         UNCHANGED <<instancias_disponibles, cola_bloqueados,
                     recursos_asignados>>
  PROVE  DeRecursos'
<1>1. recursos_asignados[p] \in Listas
  BY DEF DeRecursos, Tipos
<1>2. Len(recursos_asignados[p]) \in Nat
  BY <1>1 DEF Listas
<1>3. /\ fin' \in EnExterno /\ fin'.paso = "externo" /\ fin'.i = 0
      /\ fin'.pid = p /\ fin'.cant = Len(recursos_asignados[p])
  BY <1>2 DEF ComenzarFin, EnExterno
<1>4. Vuelta'
  BY <1>3 DEF Vuelta
<1>5. Tipos' /\ UnaVezCadaUno' /\ ColaExacta'
  BY <1>3 DEF DeRecursos, Tipos, UnaVezCadaUno, ColaExacta
<1> QED
  BY <1>4, <1>5 DEF DeRecursos

(* The outer loop reads the next resource, or falls past the end: then the *)
(* index is the length of the list, and at least 2.                        *)
LEMMA PasoExterno == ASSUME DeRecursos, FinExterno PROVE DeRecursos'
<1> DEFINE s == recursos_asignados[fin.pid]
<1>1. fin \in EnExterno
  BY DEF DeRecursos, Tipos, FinExterno, SinFin, EnInterno, EnCaido
<1>2. s \in Listas /\ SinRepetir(s)
  BY <1>1 DEF DeRecursos, Tipos, UnaVezCadaUno, EnExterno
<1>3. s \in Seq(Asignacion) /\ Len(s) \in Nat
  BY <1>2 DEF Listas
<1>4. /\ fin.pid \in PROCESOS /\ fin.i \in Nat /\ fin.cant \in Nat
      /\ fin.i < fin.cant /\ fin.paso = "externo"
  BY <1>1 DEF EnExterno, FinExterno, QuedaRecurso
<1>5. \/ fin.i = 0 /\ Len(s) = fin.cant
      \/ fin.i >= 2 /\ Len(s) = fin.cant - 1
  BY <1>4 DEF DeRecursos, Vuelta
<1>6. UnaVezCadaUno' /\ ColaExacta' /\ UNCHANGED <<instancias_disponibles,
        cola_bloqueados, recursos_asignados>>
  BY DEF DeRecursos, UnaVezCadaUno, ColaExacta, FinExterno
<1>7. CASE fin.i < Len(s)
  <2> DEFINE a == s[fin.i + 1]
  <2>1. fin.i + 1 \in 1..Len(s)
    BY <1>3, <1>4, <1>7
  <2>2. a \in Asignacion
    BY <1>3, <2>1
  <2>3. fin' = [paso |-> "interno", pid |-> fin.pid, i |-> fin.i,
                cant |-> fin.cant, nombre |-> a.nombre,
                instancias |-> a.instancias_asignadas]
    BY <1>7 DEF FinExterno
  <2>4. Notadas(s, a.nombre) = a.instancias_asignadas
    BY <1>2, <2>1, NotadasDe
  <2> HIDE DEF a, s
  <2>5. /\ a.nombre \in RECURSOS /\ a.instancias_asignadas \in Nat \ {0}
    BY <2>2 DEF Asignacion
  <2>6. fin' \in EnInterno
    BY <1>4, <2>3, <2>5 DEF EnInterno
  <2>7. /\ fin'.paso = "interno" /\ fin'.pid = fin.pid /\ fin'.i = fin.i
        /\ fin'.cant = fin.cant /\ fin'.nombre = a.nombre
        /\ fin'.instancias = a.instancias_asignadas
    BY <2>3
  <2>8. recursos_asignados'[fin'.pid] = s
    BY <1>6, <2>7 DEF s
  <2>9. Vuelta'
    BY <1>4, <1>5, <2>4, <2>5, <2>7, <2>8 DEF Vuelta
  <2>10. Tipos'
    BY <1>6, <2>6 DEF DeRecursos, Tipos
  <2> QED
    BY <1>6, <2>9, <2>10 DEF DeRecursos
<1>8. CASE ~(fin.i < Len(s))
  <2>1. fin' = [paso |-> "caido", pid |-> fin.pid]
    BY <1>8 DEF FinExterno
  <2>2. fin' \in EnCaido /\ fin'.paso = "caido" /\ fin'.pid = fin.pid
    BY <1>4, <2>1 DEF EnCaido
  <2>3. Len(s) >= 2
    BY <1>3, <1>4, <1>5, <1>8
  <2>4. Vuelta'
    BY <1>6, <2>2, <2>3 DEF Vuelta
  <2>5. Tipos'
    BY <1>6, <2>2 DEF DeRecursos, Tipos
  <2> QED
    BY <1>6, <2>4, <2>5 DEF DeRecursos
<1> QED
  BY <1>7, <1>8

(* The inner loop gives one instance back: the resource leaves the list    *)
(* only with the last instance of the first resource.                      *)
LEMMA PasoInterno ==
  ASSUME DeRecursos, Turno, FinInterno
  PROVE  DeRecursos' /\ READY' \subseteq PROCESOS
<1> DEFINE p == fin.pid
           r == fin.nombre
           s == recursos_asignados[p]
           t == ConUnaMenos(s, r)
<1>1. fin \in EnInterno
  BY DEF DeRecursos, Tipos, FinInterno, SinFin, EnExterno, EnCaido
<1>2. /\ p \in PROCESOS /\ r \in RECURSOS /\ fin.i \in Nat
      /\ fin.cant \in Nat /\ fin.instancias \in Nat /\ fin.paso = "interno"
  BY <1>1 DEF EnInterno
<1>3. fin.i < fin.instancias /\ SignalRecurso(p, r)
  BY DEF FinInterno
<1>4. s \in Listas /\ SinRepetir(s)
  BY <1>2 DEF DeRecursos, Tipos, UnaVezCadaUno
<1>5. /\ instancias_disponibles' \in [RECURSOS -> Int]
      /\ cola_bloqueados' \in [RECURSOS -> Seq(PROCESOS)]
      /\ READY' \subseteq PROCESOS /\ ColaExacta'
  BY <1>2, <1>3, SignalEs DEF DeRecursos, Turno
<1>6. /\ recursos_asignados' \in [PROCESOS -> Listas] /\ UnaVezCadaUno'
      /\ recursos_asignados'[p] = t
  BY <1>2, <1>3, DesasignarEs DEF DeRecursos, SignalRecurso
<1>7. /\ fin' \in EnInterno /\ fin'.paso = "interno" /\ fin'.pid = p
      /\ fin'.i = fin.i + 1 /\ fin'.cant = fin.cant /\ fin'.nombre = r
      /\ fin'.instancias = fin.instancias
  BY <1>1 DEF FinInterno, EnInterno
<1>8. Tipos'
  BY <1>5, <1>6, <1>7 DEF Tipos
<1>9. /\ Notadas(s, r) = 1 => Len(t) = Len(s) - 1
      /\ Notadas(s, r) > 1 => Len(t) = Len(s) /\ Notadas(t, r) = Notadas(s, r) - 1
  BY <1>2, <1>4, SacarUna
<1>10. Notadas(s, r) \in Nat /\ Len(s) \in Nat
  BY <1>4, NotadasDe DEF Listas
<1>11. \/ Len(s) = fin.cant /\ Notadas(s, r) = fin.instancias - fin.i
       \/ /\ fin.i >= 1 /\ Len(s) = fin.cant - 1
          /\ Notadas(s, r) > fin.instancias - fin.i
  BY <1>2, <1>3 DEF DeRecursos, Vuelta
<1> HIDE DEF p, r, s, t
<1>12. Vuelta'
  <2>1. CASE Notadas(s, r) = 1
    BY <1>2, <1>3, <1>6, <1>7, <1>9, <1>10, <1>11, <2>1 DEF Vuelta
  <2>2. CASE Notadas(s, r) > 1
    BY <1>2, <1>3, <1>6, <1>7, <1>9, <1>10, <1>11, <2>2 DEF Vuelta
  <2>3. Notadas(s, r) >= 1
    BY <1>2, <1>3, <1>10, <1>11
  <2> QED
    BY <1>10, <2>1, <2>2, <2>3
<1> QED
  BY <1>5, <1>6, <1>8, <1>12 DEF DeRecursos

(* The inner loop is over, and the index has gone past 1.                  *)
LEMMA PasoSiguiente == ASSUME DeRecursos, FinSiguiente PROVE DeRecursos'
<1>1. fin \in EnInterno
  BY DEF DeRecursos, Tipos, FinSiguiente, SinFin, EnExterno, EnCaido
<1>2. /\ fin.pid \in PROCESOS /\ fin.i \in Nat /\ fin.cant \in Nat
      /\ fin.instancias \in Nat \ {0} /\ fin.paso = "interno"
  BY <1>1 DEF EnInterno
<1>3. /\ fin' \in EnExterno /\ fin'.paso = "externo" /\ fin'.pid = fin.pid
      /\ fin'.i = fin.i + 1 /\ fin'.cant = fin.cant
  BY <1>2 DEF FinSiguiente, EnExterno
<1>4. UNCHANGED <<instancias_disponibles, cola_bloqueados, recursos_asignados>>
  BY DEF FinSiguiente
<1>5. fin.i >= fin.instancias
  BY DEF FinSiguiente
<1>6. Vuelta'
  BY <1>2, <1>3, <1>4, <1>5 DEF DeRecursos, Vuelta
<1>7. Tipos' /\ UnaVezCadaUno' /\ ColaExacta'
  BY <1>3, <1>4 DEF DeRecursos, Tipos, UnaVezCadaUno, ColaExacta
<1> QED
  BY <1>6, <1>7 DEF DeRecursos

(* The end is over: the list is emptied.                                   *)
LEMMA PasoListo == ASSUME DeRecursos, FinListo PROVE DeRecursos'
<1>1. <<>> \in Listas /\ SinRepetir(<<>>)
  BY DEF Listas, SinRepetir
<1>2. recursos_asignados' = [recursos_asignados EXCEPT ![fin.pid] = <<>>]
      /\ fin' = SinFin /\ UNCHANGED <<instancias_disponibles, cola_bloqueados>>
  BY DEF FinListo
<1>3. Tipos' /\ UnaVezCadaUno'
  BY <1>1, <1>2 DEF DeRecursos, Tipos, UnaVezCadaUno
<1>4. Vuelta' /\ ColaExacta'
  BY <1>2 DEF DeRecursos, Vuelta, ColaExacta, SinFin
<1> QED
  BY <1>3, <1>4 DEF DeRecursos

(* A call is counted once.                                                 *)
LEMMA LlamadaCuenta ==
  ASSUME Turno, NEW p \in PROCESOS, Llamada(p)
  PROVE  llamadas' \in [PROCESOS -> 0..LARGO_PROGRAMA]
BY SupuestoRecursos DEF Turno, Llamada

(* Every step keeps the invariant.                                         *)
LEMMA PasoRecursos ==
  ASSUME DeRecursos, Turno, Next
  PROVE  DeRecursos' /\ Turno'
<1>1. CASE Despachar
  <2>1. DeRecursos'
    BY <1>1, RecursosQuietos DEF Despachar
  <2>2. Turno'
    BY <1>1 DEF Turno, Despachar
  <2> QED
    BY <2>1, <2>2
<1>2. ASSUME NEW p \in PROCESOS, NEW r \in RECURSOS, Wait(p, r)
      PROVE  DeRecursos' /\ Turno'
  <2>1. /\ DeRecursos' /\ RUNNING' \in {RUNNING, NULO}
        /\ UNCHANGED <<READY, regalos>>
    BY <1>2, PasoWait
  <2>2. llamadas' \in [PROCESOS -> 0..LARGO_PROGRAMA]
    BY <1>2, LlamadaCuenta DEF Wait
  <2> QED
    BY <2>1, <2>2 DEF Turno
<1>3. ASSUME NEW p \in PROCESOS, NEW r \in RECURSOS, Signal(p, r)
      PROVE  DeRecursos' /\ Turno'
  <2>1. /\ DeRecursos' /\ READY' \subseteq PROCESOS
        /\ regalos' \in [RECURSOS -> Nat]
    BY <1>3, PasoSignal
  <2>2. llamadas' \in [PROCESOS -> 0..LARGO_PROGRAMA]
    BY <1>3, LlamadaCuenta DEF Signal
  <2>3. UNCHANGED RUNNING
    BY <1>3 DEF Signal
  <2> QED
    BY <2>1, <2>2, <2>3 DEF Turno
<1>4. ASSUME NEW p \in PROCESOS, LlamadaDesconocida(p, DESCONOCIDO)
      PROVE  DeRecursos' /\ Turno'
  <2>1. DeRecursos'
    BY <1>4, PasoComenzar DEF LlamadaDesconocida
  <2>2. llamadas' \in [PROCESOS -> 0..LARGO_PROGRAMA]
    BY <1>4, LlamadaCuenta DEF LlamadaDesconocida
  <2>3. RUNNING' = NULO /\ UNCHANGED <<READY, regalos>>
    BY <1>4 DEF LlamadaDesconocida, ComenzarFin
  <2> QED
    BY <2>1, <2>2, <2>3 DEF Turno
<1>5. ASSUME NEW p \in PROCESOS, Exit(p)
      PROVE  DeRecursos' /\ Turno'
  <2>1. DeRecursos'
    BY <1>5, PasoComenzar DEF Exit
  <2>2. Turno'
    BY <1>5 DEF Exit, ComenzarFin, Turno
  <2> QED
    BY <2>1, <2>2
<1>6. ASSUME NEW p \in PROCESOS, Yield(p)
      PROVE  DeRecursos' /\ Turno'
  <2>1. DeRecursos'
    BY <1>6, RecursosQuietos DEF Yield
  <2>2. Turno'
    BY <1>6 DEF Yield, Turno
  <2> QED
    BY <2>1, <2>2
<1>7. CASE FinExterno
  BY <1>7, PasoExterno DEF FinExterno, Turno
<1>8. CASE FinInterno
  <2>1. DeRecursos' /\ READY' \subseteq PROCESOS
    BY <1>8, PasoInterno
  <2>2. UNCHANGED <<RUNNING, llamadas, regalos>>
    BY <1>8 DEF FinInterno
  <2> QED
    BY <2>1, <2>2 DEF Turno
<1>9. CASE FinSiguiente
  BY <1>9, PasoSiguiente DEF FinSiguiente, Turno
<1>10. CASE FinListo
  BY <1>10, PasoListo DEF FinListo, Turno
<1> QED
  BY <1>1, <1>2, <1>3, <1>4, <1>5, <1>6, <1>7, <1>8, <1>9, <1>10
     DEF Next, Pasos

(* The parts say what the runs check.                                      *)
LEMMA TiposDe == ASSUME DeRecursos, Turno PROVE TypeOK /\ CaidaConTres
<1>1. fin.paso \in {"no", "externo", "interno", "caido"}
  BY DEF DeRecursos, Tipos, SinFin, EnExterno, EnInterno, EnCaido
<1>2. recursos_asignados \in
        [PROCESOS -> Seq([nombre : RECURSOS, instancias_asignadas : Nat \ {0}])]
  BY DEF DeRecursos, Tipos, Listas, Asignacion
<1>3. TypeOK
  BY <1>1, <1>2 DEF DeRecursos, Tipos, Turno, TypeOK
<1>4. CaidaConTres
  BY DEF DeRecursos, Vuelta, CaidaConTres
<1> QED
  BY <1>3, <1>4

-----------------------------------------------------------------------------
(* Two lists that have the same elements of a name note the same instances *)
(* under it.                                                               *)
LEMMA NotadasIguales ==
  ASSUME NEW s \in Listas, NEW t \in Listas, SinRepetir(s), SinRepetir(t), NEW r,
         \A i \in 1..Len(s) : s[i].nombre = r => \E j \in 1..Len(t) : t[j] = s[i],
         \A j \in 1..Len(t) : t[j].nombre = r => \E i \in 1..Len(s) : s[i] = t[j]
  PROVE  Notadas(t, r) = Notadas(s, r)
<1>1. ASSUME NEW u \in Listas
      PROVE  \/ Notadas(u, r) = 0 /\ \A i \in 1..Len(u) : u[i].nombre # r
             \/ \E i \in 1..Len(u) : /\ u[i].nombre = r
                                     /\ Notadas(u, r) = u[i].instancias_asignadas
  <2>1. u \in Seq(Asignacion)
    BY DEF Listas
  <2> QED BY <2>1, BusquedaPorNombre DEF Notadas
<1>2. \A i \in 1..Len(t) : t[i].nombre = r =>
        Notadas(t, r) = t[i].instancias_asignadas
  BY NotadasDe
<1>3. CASE Notadas(s, r) = 0 /\ \A i \in 1..Len(s) : s[i].nombre # r
  BY <1>1, <1>3
<1>4. CASE \E i \in 1..Len(s) : /\ s[i].nombre = r
                                /\ Notadas(s, r) = s[i].instancias_asignadas
  BY <1>2, <1>4
<1> QED
  BY <1>1, <1>3, <1>4

(* asignar_recurso counts one more of its resource, and the others stay.   *)
LEMMA NotadasMas ==
  ASSUME NEW s \in Listas, SinRepetir(s), NEW q \in RECURSOS, NEW r
  PROVE  Notadas(ConUnaMas(s, q), r) = Notadas(s, r) + IF r = q THEN 1 ELSE 0
<1> DEFINE i == PorNombre(s, q)
           e == [nombre |-> q, instancias_asignadas |-> 1]
           t == ConUnaMas(s, q)
<1>1. s \in Seq(Asignacion) /\ Len(s) \in Nat
  BY DEF Listas
<1>2. \/ i = 0 /\ \A j \in 1..Len(s) : s[j].nombre # q
      \/ i \in 1..Len(s) /\ s[i].nombre = q
  BY <1>1, BusquedaPorNombre
<1>3. e.nombre = q /\ e.instancias_asignadas = 1
  OBVIOUS
<1>4. t \in Listas /\ SinRepetir(t)
  BY PonerUna
<1>5. Notadas(s, r) \in Nat /\ Notadas(s, q) \in Nat
  BY NotadasDe
<1>6. t = IF i = 0 THEN Append(s, e)
          ELSE [s EXCEPT ![i].instancias_asignadas = @ + 1]
  BY DEF ConUnaMas
<1>7. Notadas(s, q) = IF i = 0 THEN 0 ELSE s[i].instancias_asignadas
  BY DEF Notadas
<1>8. \A j \in 1..Len(t) : t[j].nombre = q => Notadas(t, q) = t[j].instancias_asignadas
  BY <1>4, NotadasDe
<1> HIDE DEF i, e, t
<1>9. CASE i = 0
  <2>1. t = Append(s, e)
    BY <1>6, <1>9
  <2>2. /\ Len(t) = Len(s) + 1 /\ t[Len(s) + 1] = e
        /\ \A j \in 1..Len(s) : t[j] = s[j]
    BY <1>1, <2>1
  <2>3. CASE r = q
    <3>1. Notadas(t, q) = 1
      BY <1>1, <1>3, <1>8, <2>2
    <3> QED BY <1>7, <1>9, <2>3, <3>1 DEF t
  <2>4. CASE r # q
    <3>1. \A j \in 1..Len(t) : j = Len(s) + 1 \/ j \in 1..Len(s)
      BY <1>1, <2>2
    <3>2. \A j \in 1..Len(s) : j \in 1..Len(t)
      BY <1>1, <2>2
    <3>3. Notadas(t, r) = Notadas(s, r)
      BY <1>3, <1>4, <2>2, <2>4, <3>1, <3>2, NotadasIguales
    <3> QED BY <1>5, <2>4, <3>3 DEF t
  <2> QED BY <2>3, <2>4
<1>10. CASE i \in 1..Len(s) /\ s[i].nombre = q
  <2>1. i # 0 /\ s[i] \in Asignacion
    BY <1>1, <1>10
  <2>2. t = [s EXCEPT ![i].instancias_asignadas = @ + 1]
    BY <1>6, <2>1
  <2>3. /\ Len(t) = Len(s)
        /\ \A j \in 1..Len(s) : j # i => t[j] = s[j]
        /\ t[i] = [s[i] EXCEPT !.instancias_asignadas = @ + 1]
    BY <1>1, <1>10, <2>2
  <2>4. t[i].nombre = q /\ t[i].instancias_asignadas = s[i].instancias_asignadas + 1
    BY <1>10, <2>1, <2>3 DEF Asignacion
  <2>5. CASE r = q
    <3>1. Notadas(t, q) = s[i].instancias_asignadas + 1
      BY <1>8, <1>10, <2>3, <2>4
    <3> QED BY <1>7, <2>1, <2>5, <3>1 DEF t
  <2>6. CASE r # q
    <3>1. \A j \in 1..Len(s) : s[j].nombre = r => j # i
      BY <1>10, <2>6
    <3>2. \A j \in 1..Len(t) : t[j].nombre = r => j # i
      BY <2>4, <2>6
    <3>3. \A j \in 1..Len(s) : s[j].nombre = r => j \in 1..Len(t) /\ t[j] = s[j]
      BY <2>3, <3>1
    <3>4. \A j \in 1..Len(t) : t[j].nombre = r => j \in 1..Len(s) /\ s[j] = t[j]
      BY <2>3, <3>2
    <3>5. Notadas(t, r) = Notadas(s, r)
      BY <1>4, <3>3, <3>4, NotadasIguales
    <3> QED BY <1>5, <2>6, <3>5 DEF t
  <2> QED BY <2>5, <2>6
<1> QED
  BY <1>2, <1>9, <1>10

(* desasignar_recurso counts one less of its resource, if there was one,   *)
(* and the others stay.                                                    *)
LEMMA NotadasMenos ==
  ASSUME NEW s \in Listas, SinRepetir(s), NEW q \in RECURSOS, Notadas(s, q) # 0,
         NEW r
  PROVE  Notadas(ConUnaMenos(s, q), r) = Notadas(s, r) - IF r = q THEN 1 ELSE 0
<1> DEFINE i == PorNombre(s, q)
           t == ConUnaMenos(s, q)
<1>1. s \in Seq(Asignacion) /\ Len(s) \in Nat
  BY DEF Listas
<1>2. i \in 1..Len(s) /\ s[i].nombre = q /\ i # 0
  BY NotadasDe
<1>3. Notadas(s, q) = s[i].instancias_asignadas
  BY <1>2 DEF Notadas
<1>4. t \in Listas /\ SinRepetir(t)
  BY SacarUna
<1>5. Notadas(s, r) \in Nat /\ Notadas(s, q) \in Nat
  BY NotadasDe
<1>6. t = IF s[i].instancias_asignadas = 1 THEN RemoveAt(s, i)
          ELSE [s EXCEPT ![i].instancias_asignadas = @ - 1]
  BY <1>2 DEF ConUnaMenos
<1>7. Notadas(s, q) > 1 => Notadas(t, q) = Notadas(s, q) - 1
  BY SacarUna
<1> HIDE DEF i, t
<1>8. CASE s[i].instancias_asignadas = 1
  <2>1. t = RemoveAt(s, i)
    BY <1>6, <1>8
  <2>2. /\ Len(t) = Len(s) - 1
        /\ \A j \in 1..(Len(s) - 1) : t[j] = IF j < i THEN s[j] ELSE s[j + 1]
    <3>1. i \in DOMAIN s
      BY <1>1, <1>2
    <3> QED BY <1>1, <2>1, <3>1, QuitarTipo
  <2>3. \A j \in 1..Len(t) : \E k \in 1..Len(s) : k # i /\ t[j] = s[k]
    <3> TAKE j \in 1..Len(t)
    <3>1. CASE j < i
      BY <1>1, <1>2, <2>2, <3>1
    <3>2. CASE ~(j < i)
      <4>1. j + 1 \in 1..Len(s) /\ j + 1 # i /\ t[j] = s[j + 1]
        BY <1>1, <1>2, <2>2, <3>2
      <4> QED BY <4>1
    <3> QED BY <3>1, <3>2
  <2>4. \A k \in 1..Len(s) : k # i => \E j \in 1..Len(t) : t[j] = s[k]
    <3> SUFFICES ASSUME NEW k \in 1..Len(s), k # i
                 PROVE  \E j \in 1..Len(t) : t[j] = s[k]
      OBVIOUS
    <3>1. CASE k < i
      <4>1. k \in 1..Len(t) /\ t[k] = s[k]
        BY <1>1, <1>2, <2>2, <3>1
      <4> QED BY <4>1
    <3>2. CASE ~(k < i)
      <4>1. k - 1 \in 1..Len(t) /\ ~(k - 1 < i) /\ (k - 1) + 1 = k
        BY <1>1, <1>2, <2>2, <3>2
      <4>2. t[k - 1] = s[k]
        BY <2>2, <4>1
      <4> QED BY <4>1, <4>2
    <3> QED BY <3>1, <3>2
  <2>5. CASE r = q
    <3>1. \A j \in 1..Len(t) : t[j].nombre # q
      BY <1>2, <2>3 DEF SinRepetir
    <3>2. Notadas(t, q) = 0
      <4>1. /\ PorNombre(t, q) \in 0..Len(t)
            /\ Notadas(t, q) = 0 <=> PorNombre(t, q) = 0
            /\ PorNombre(t, q) # 0 => t[PorNombre(t, q)].nombre = q
        BY <1>4, NotadasDe
      <4>2. Len(t) \in Nat
        BY <1>4 DEF Listas
      <4> QED BY <3>1, <4>1, <4>2
    <3> QED BY <1>3, <1>8, <2>5, <3>2 DEF t
  <2>6. CASE r # q
    <3>1. \A k \in 1..Len(s) : s[k].nombre = r => k # i
      BY <1>2, <2>6
    <3>2. Notadas(t, r) = Notadas(s, r)
      BY <1>4, <2>3, <2>4, <3>1, NotadasIguales
    <3> QED BY <1>5, <2>6, <3>2 DEF t
  <2> QED BY <2>5, <2>6
<1>9. CASE s[i].instancias_asignadas # 1
  <2>1. s[i] \in Asignacion
    BY <1>1, <1>2
  <2>2. t = [s EXCEPT ![i].instancias_asignadas = @ - 1]
    BY <1>6, <1>9
  <2>3. /\ Len(t) = Len(s)
        /\ \A j \in 1..Len(s) : j # i => t[j] = s[j]
        /\ t[i] = [s[i] EXCEPT !.instancias_asignadas = @ - 1]
    BY <1>1, <1>2, <2>2
  <2>4. t[i].nombre = q
    BY <1>2, <2>1, <2>3 DEF Asignacion
  <2>5. CASE r = q
    <3>1. Notadas(s, q) > 1
      BY <1>3, <1>5, <1>9
    <3> QED BY <1>7, <2>5, <3>1 DEF t
  <2>6. CASE r # q
    <3>1. \A j \in 1..Len(s) : s[j].nombre = r => j # i
      BY <1>2, <2>6
    <3>2. \A j \in 1..Len(t) : t[j].nombre = r => j # i
      BY <2>4, <2>6
    <3>3. \A j \in 1..Len(s) : s[j].nombre = r => j \in 1..Len(t) /\ t[j] = s[j]
      BY <2>3, <3>1
    <3>4. \A j \in 1..Len(t) : t[j].nombre = r => j \in 1..Len(s) /\ s[j] = t[j]
      BY <2>3, <3>2
    <3>5. Notadas(t, r) = Notadas(s, r)
      BY <1>4, <3>3, <3>4, NotadasIguales
    <3> QED BY <1>5, <2>6, <3>5 DEF t
  <2> QED BY <2>5, <2>6
<1> QED
  BY <1>8, <1>9

-----------------------------------------------------------------------------
(* The instances of r that the lists of all the processes note, and the    *)
(* element that the sum takes first.                                       *)
DeTodos(r) == [p \in PROCESOS |-> Notadas(recursos_asignados[p], r)]
Primero == [s \in SUBSET PROCESOS |-> CHOOSE x \in s : TRUE]

(* Those available and those noted never exceed the configuration's and    *)
(* those that came from nowhere: they add up to it until a process ends    *)
(* without having given all of its back.                                   *)
Cuenta ==
  \A r \in RECURSOS :
    \E it : /\ EsSuma(it, DeTodos(r), PROCESOS, Primero)
            /\ instancias_disponibles[r] + it[PROCESOS]
                 <= INSTANCIAS[r] + regalos[r]

(* The sum takes one of the processes left.                                *)
LEMMA PrimeroElige == Elige(Primero, PROCESOS)
<1> SUFFICES ASSUME NEW s \in SUBSET PROCESOS, s # {}
             PROVE  Primero[s] \in s
  BY DEF Elige
<1>1. Primero[s] = CHOOSE x \in s : TRUE
  BY DEF Primero
<1> QED
  BY <1>1

(* What the lists note is a number of each process.                        *)
DeTodosSonNumeros == \A r : DeTodos(r) \in [PROCESOS -> Int]

(* ... in every state of the right type.                                   *)
LEMMA DeTodosTipo == Tipos => DeTodosSonNumeros
<1> SUFFICES ASSUME Tipos, NEW r PROVE DeTodos(r) \in [PROCESOS -> Int]
  BY DEF DeTodosSonNumeros
<1>1. \A p \in PROCESOS : recursos_asignados[p] \in Listas
  BY DEF Tipos
<1>2. \A p \in PROCESOS : Notadas(recursos_asignados[p], r) \in Nat
  BY <1>1, NotadasDe
<1> QED
  BY <1>2 DEF DeTodos

(* The count does not change with the lists and the instances.             *)
LEMMA CuentaQuieta ==
  ASSUME Cuenta,
         UNCHANGED <<instancias_disponibles, recursos_asignados, regalos>>
  PROVE  Cuenta'
<1>1. \A r : DeTodos(r)' = DeTodos(r)
  BY DEF DeTodos
<1> QED
  BY <1>1 DEF Cuenta

(* Nothing is noted at the beginning.                                      *)
LEMMA InicioCuenta == Init => Cuenta
<1> SUFFICES ASSUME Init, NEW r \in RECURSOS
             PROVE  \E it : /\ EsSuma(it, DeTodos(r), PROCESOS, Primero)
                            /\ instancias_disponibles[r] + it[PROCESOS]
                                 <= INSTANCIAS[r] + regalos[r]
  BY DEF Cuenta
<1>1. Tipos
  BY InicioRecursos DEF DeRecursos
<1>2. PICK f : f = DeTodos(r)
  OBVIOUS
<1>3. ASSUME NEW p \in PROCESOS PROVE f[p] = 0
  <2>1. recursos_asignados[p] = <<>> /\ <<>> \in Listas
    BY DEF Init, Listas
  <2>2. PorNombre(<<>>, r) \in 0..Len(<<>>)
    BY <2>1, NotadasDe
  <2>3. PorNombre(<<>>, r) = 0
    BY <2>2
  <2> QED BY <1>2, <2>1, <2>3 DEF DeTodos, Notadas
<1>4. f \in [PROCESOS -> Int]
  BY <1>1, <1>2, DeTodosTipo DEF DeTodosSonNumeros
<1> DEFINE it == [s \in SUBSET PROCESOS |-> 0]
<1>5. EsSuma(it, f, PROCESOS, Primero)
  <2>1. ASSUME NEW s \in SUBSET PROCESOS
        PROVE  it[s] = PasoDeSuma(it, s, f, Primero)
    <3>1. CASE s = {}
      BY <3>1 DEF PasoDeSuma
    <3>2. CASE s # {}
      <4>1. PICK x \in s : x = Primero[s]
        BY <3>2, PrimeroElige DEF Elige
      <4>2. f[x] = 0 /\ it[s \ {x}] = 0 /\ it[s] = 0
        BY <1>3
      <4> HIDE DEF it
      <4> QED BY <3>2, <4>1, <4>2 DEF PasoDeSuma
    <3> QED BY <3>1, <3>2
  <2> QED BY <2>1 DEF EsSuma
<1>6. it[PROCESOS] = 0
  OBVIOUS
<1>7. instancias_disponibles[r] = INSTANCIAS[r] /\ INSTANCIAS[r] \in Int
      /\ regalos[r] = 0
  BY SupuestoRecursos DEF Init
<1> HIDE DEF it
<1> QED
  BY <1>2, <1>5, <1>6, <1>7

(* WAIT takes one instance and notes it; SIGNAL gives one back that was    *)
(* noted, or one that came from nowhere.                                   *)
LEMMA CuentaDeUno ==
  ASSUME Tipos, UnaVezCadaUno, Tipos', Cuenta, Turno,
         NEW p \in PROCESOS, NEW q \in RECURSOS, NEW t, NEW n \in Int,
         recursos_asignados' = [recursos_asignados EXCEPT ![p] = t],
         instancias_disponibles' = [instancias_disponibles EXCEPT ![q] = n],
         \/ /\ n = instancias_disponibles[q] - 1
            /\ t = ConUnaMas(recursos_asignados[p], q)
            /\ UNCHANGED regalos
         \/ /\ n = instancias_disponibles[q] + 1
            /\ t = ConUnaMenos(recursos_asignados[p], q)
            /\ Notadas(recursos_asignados[p], q) # 0
            /\ UNCHANGED regalos
         \/ /\ n = instancias_disponibles[q] + 1
            /\ t = recursos_asignados[p]
            /\ regalos' = [regalos EXCEPT ![q] = @ + 1]
  PROVE  Cuenta'
<1> SUFFICES ASSUME NEW r \in RECURSOS
             PROVE  \E jt : /\ EsSuma(jt, DeTodos(r)', PROCESOS, Primero)
                            /\ instancias_disponibles'[r] + jt[PROCESOS]
                                 <= INSTANCIAS[r] + regalos'[r]
  BY DEF Cuenta
<1>1. PICK f : f = DeTodos(r)
  OBVIOUS
<1>2. PICK g : g = DeTodos(r)'
  OBVIOUS
<1>3. f \in [PROCESOS -> Int]
  BY <1>1, DeTodosTipo DEF DeTodosSonNumeros
<1>4. g \in [PROCESOS -> Int]
  <2>1. DeTodosSonNumeros'
    BY DeTodosTipo, PTL
  <2> QED BY <1>2, <2>1 DEF DeTodosSonNumeros
<1>5. PICK it : /\ EsSuma(it, f, PROCESOS, Primero)
                /\ instancias_disponibles[r] + it[PROCESOS]
                     <= INSTANCIAS[r] + regalos[r]
  BY <1>1 DEF Cuenta
<1>6. it[PROCESOS] \in Int /\ instancias_disponibles[r] \in Int
      /\ instancias_disponibles[q] \in Int /\ INSTANCIAS[r] \in Int
      /\ regalos[r] \in Int
  <2>1. it[PROCESOS] \in Int
    BY <1>5 DEF EsSuma
  <2>2. INSTANCIAS[r] \in Nat
    BY SupuestoRecursos
  <2> QED BY <2>1, <2>2 DEF Tipos, Turno
<1>7. recursos_asignados[p] \in Listas /\ SinRepetir(recursos_asignados[p])
  BY DEF Tipos, UnaVezCadaUno
<1>8. \A x \in PROCESOS : x # p => g[x] = f[x]
  BY <1>1, <1>2 DEF DeTodos, Tipos
<1>9. f[p] = Notadas(recursos_asignados[p], r) /\ g[p] = Notadas(t, r)
  BY <1>1, <1>2 DEF DeTodos, Tipos
<1>10. instancias_disponibles'[r] = IF r = q THEN n ELSE instancias_disponibles[r]
  BY DEF Tipos
<1>11. f[p] \in Int
  BY <1>3
<1>12. CASE r # q
  <2>1. Notadas(t, r) = Notadas(recursos_asignados[p], r)
    <3>1. CASE t = ConUnaMas(recursos_asignados[p], q)
      <4>1. Notadas(ConUnaMas(recursos_asignados[p], q), r) =
              Notadas(recursos_asignados[p], r) + IF r = q THEN 1 ELSE 0
        BY <1>7, NotadasMas
      <4> QED BY <1>9, <1>11, <1>12, <3>1, <4>1
    <3>2. CASE /\ t = ConUnaMenos(recursos_asignados[p], q)
               /\ Notadas(recursos_asignados[p], q) # 0
      <4>1. Notadas(ConUnaMenos(recursos_asignados[p], q), r) =
              Notadas(recursos_asignados[p], r) - IF r = q THEN 1 ELSE 0
        BY <1>7, <3>2, NotadasMenos
      <4> QED BY <1>9, <1>11, <1>12, <3>2, <4>1
    <3>3. CASE t = recursos_asignados[p]
      BY <3>3
    <3> QED BY <3>1, <3>2, <3>3
  <2>2. \A x \in PROCESOS : g[x] = f[x]
    BY <1>8, <1>9, <2>1
  <2>3. g = f
    BY <1>3, <1>4, <2>2
  <2>4. regalos'[r] = regalos[r]
    BY <1>12 DEF Turno
  <2> QED BY <1>2, <1>5, <1>10, <1>12, <2>3, <2>4
<1>13. CASE r = q /\ n = instancias_disponibles[q] - 1
                 /\ t = ConUnaMas(recursos_asignados[p], q)
                 /\ UNCHANGED regalos
  <2>1. Notadas(ConUnaMas(recursos_asignados[p], q), r) =
          Notadas(recursos_asignados[p], r) + IF r = q THEN 1 ELSE 0
    BY <1>7, NotadasMas
  <2>2. g[p] = f[p] + 1
    BY <1>9, <1>13, <2>1
  <2>3. PICK jt : EsSuma(jt, g, PROCESOS, Primero) /\ jt[PROCESOS] = it[PROCESOS] + 1
    BY <1>3, <1>4, <1>5, <1>8, <2>2, PrimeroElige, SupuestoProcesos, SumaDeUno
  <2> QED BY <1>2, <1>5, <1>6, <1>10, <1>13, <2>3
<1>14. CASE /\ r = q /\ n = instancias_disponibles[q] + 1
            /\ t = ConUnaMenos(recursos_asignados[p], q)
            /\ Notadas(recursos_asignados[p], q) # 0
            /\ UNCHANGED regalos
  <2>1. Notadas(ConUnaMenos(recursos_asignados[p], q), r) =
          Notadas(recursos_asignados[p], r) - IF r = q THEN 1 ELSE 0
    BY <1>7, <1>14, NotadasMenos
  <2>2. g[p] = f[p] - 1
    BY <1>9, <1>14, <2>1
  <2>3. PICK jt : EsSuma(jt, g, PROCESOS, Primero) /\ jt[PROCESOS] = it[PROCESOS] - 1
    BY <1>3, <1>4, <1>5, <1>8, <2>2, PrimeroElige, SupuestoProcesos, SumaDeUno
  <2> QED BY <1>2, <1>5, <1>6, <1>10, <1>14, <2>3
<1>15. CASE /\ r = q /\ n = instancias_disponibles[q] + 1
            /\ t = recursos_asignados[p]
            /\ regalos' = [regalos EXCEPT ![q] = @ + 1]
  <2>1. \A x \in PROCESOS : g[x] = f[x]
    BY <1>8, <1>9, <1>15
  <2>2. g = f
    BY <1>3, <1>4, <2>1
  <2>3. regalos'[r] = regalos[r] + 1
    BY <1>15 DEF Turno
  <2> QED BY <1>2, <1>5, <1>6, <1>10, <1>15, <2>2, <2>3
<1> QED
  BY <1>12, <1>13, <1>14, <1>15

(* The end of a process forgets whatever its list still notes.             *)
LEMMA CuentaListo ==
  ASSUME Tipos, Tipos', Cuenta, Turno, FinListo
  PROVE  Cuenta'
<1> SUFFICES ASSUME NEW r \in RECURSOS
             PROVE  \E jt : /\ EsSuma(jt, DeTodos(r)', PROCESOS, Primero)
                            /\ instancias_disponibles'[r] + jt[PROCESOS]
                                 <= INSTANCIAS[r] + regalos'[r]
  BY DEF Cuenta
<1>1. PICK f : f = DeTodos(r)
  OBVIOUS
<1>2. PICK g : g = DeTodos(r)'
  OBVIOUS
<1>3. f \in [PROCESOS -> Int]
  BY <1>1, DeTodosTipo DEF DeTodosSonNumeros
<1>4. g \in [PROCESOS -> Int]
  <2>1. DeTodosSonNumeros'
    BY DeTodosTipo, PTL
  <2> QED BY <1>2, <2>1 DEF DeTodosSonNumeros
<1>5. PICK it : /\ EsSuma(it, f, PROCESOS, Primero)
                /\ instancias_disponibles[r] + it[PROCESOS]
                     <= INSTANCIAS[r] + regalos[r]
  BY <1>1 DEF Cuenta
<1>6. PICK jt : EsSuma(jt, g, PROCESOS, Primero)
  BY <1>4, PrimeroElige, SupuestoProcesos, SumaExiste
<1>7. ASSUME NEW x \in PROCESOS PROVE g[x] <= f[x]
  <2>1. PICK s \in Listas : s = recursos_asignados[x]
    BY DEF Tipos
  <2>2. f[x] = Notadas(s, r) /\ g[x] = Notadas(recursos_asignados'[x], r)
    BY <1>1, <1>2, <2>1 DEF DeTodos
  <2>3. Notadas(s, r) \in Nat
    BY NotadasDe
  <2>4. recursos_asignados'[x] = <<>> \/ recursos_asignados'[x] = s
    BY <2>1 DEF FinListo, Tipos
  <2>5. Notadas(<<>>, r) = 0
    <3>1. <<>> \in Listas
      BY DEF Listas
    <3>2. PorNombre(<<>>, r) \in 0..Len(<<>>)
      BY <3>1, NotadasDe
    <3>3. PorNombre(<<>>, r) = 0
      BY <3>2
    <3> QED BY <3>3 DEF Notadas
  <2> QED BY <2>2, <2>3, <2>4, <2>5
<1>8. jt[PROCESOS] <= it[PROCESOS]
  BY <1>3, <1>4, <1>5, <1>6, <1>7, PrimeroElige, SupuestoProcesos, SumaMenor
<1>9. /\ it[PROCESOS] \in Int /\ jt[PROCESOS] \in Int
      /\ instancias_disponibles'[r] = instancias_disponibles[r]
      /\ instancias_disponibles[r] \in Int /\ INSTANCIAS[r] \in Int
      /\ regalos'[r] = regalos[r] /\ regalos[r] \in Int
  <2>1. it[PROCESOS] \in Int /\ jt[PROCESOS] \in Int
    BY <1>5, <1>6 DEF EsSuma
  <2>2. INSTANCIAS[r] \in Nat
    BY SupuestoRecursos
  <2> QED BY <2>1, <2>2 DEF Tipos, Turno, FinListo
<1> QED
  BY <1>2, <1>5, <1>6, <1>8, <1>9

(* Every step keeps the count.                                             *)
LEMMA PasoCuenta ==
  ASSUME DeRecursos, DeRecursos', Cuenta, Turno, Next
  PROVE  Cuenta'
<1>1. Tipos /\ UnaVezCadaUno /\ Tipos' /\ Vuelta
  BY DEF DeRecursos
<1>2. ASSUME NEW p \in PROCESOS, NEW r \in RECURSOS, Wait(p, r) PROVE Cuenta'
  <2>1. PICK s \in Listas : s = recursos_asignados[p]
    BY <1>1 DEF Tipos
  <2>2. PICK t : t = ConUnaMas(s, r)
    OBVIOUS
  <2>3. recursos_asignados' = [recursos_asignados EXCEPT ![p] = t]
    <3>1. Indice(p, r) = PorNombre(s, r)
      BY <2>1, IndiceEs
    <3> QED BY <1>2, <2>1, <2>2, <3>1 DEF Wait, Asignar, ConUnaMas
  <2>4. PICK n \in Int : n = instancias_disponibles[r] - 1
    BY <1>1 DEF Tipos
  <2>5. instancias_disponibles' = [instancias_disponibles EXCEPT ![r] = n]
    BY <1>2, <2>4 DEF Wait
  <2>6. UNCHANGED regalos
    BY <1>2 DEF Wait
  <2> QED BY <1>1, <2>1, <2>2, <2>3, <2>4, <2>5, <2>6, CuentaDeUno
<1>3. ASSUME NEW p \in PROCESOS, NEW r \in RECURSOS, SignalRecurso(p, r),
             Notadas(recursos_asignados[p], r) # 0, UNCHANGED regalos
      PROVE  Cuenta'
  <2>1. PICK s \in Listas : s = recursos_asignados[p]
    BY <1>1 DEF Tipos
  <2>2. PICK t : t = ConUnaMenos(s, r)
    OBVIOUS
  <2>3. recursos_asignados' = [recursos_asignados EXCEPT ![p] = t]
    <3>1. Indice(p, r) = PorNombre(s, r)
      BY <2>1, IndiceEs
    <3> QED BY <1>3, <2>1, <2>2, <3>1 DEF SignalRecurso, Desasignar, ConUnaMenos
  <2>4. PICK n \in Int : n = instancias_disponibles[r] + 1
    BY <1>1 DEF Tipos
  <2>5. instancias_disponibles' = [instancias_disponibles EXCEPT ![r] = n]
    BY <1>3, <2>4 DEF SignalRecurso
  <2> QED BY <1>1, <1>3, <2>1, <2>2, <2>3, <2>4, <2>5, CuentaDeUno
<1>4. ASSUME NEW p \in PROCESOS, NEW r \in RECURSOS, Signal(p, r) PROVE Cuenta'
  <2>1. PICK s \in Listas : s = recursos_asignados[p]
    BY <1>1 DEF Tipos
  <2>2. Indice(p, r) = PorNombre(s, r) /\ SignalRecurso(p, r)
    BY <1>4, <2>1, IndiceEs DEF Signal
  <2>3. Notadas(s, r) = 0 <=> PorNombre(s, r) = 0
    BY NotadasDe
  <2>4. CASE Notadas(s, r) # 0
    <3>1. UNCHANGED regalos
      BY <1>4, <2>2, <2>3, <2>4 DEF Signal
    <3> QED BY <1>3, <2>1, <2>2, <2>4, <3>1
  <2>5. CASE Notadas(s, r) = 0
    <3>1. regalos' = [regalos EXCEPT ![r] = @ + 1]
      BY <1>4, <2>2, <2>3, <2>5 DEF Signal
    <3>2. recursos_asignados' = [recursos_asignados EXCEPT ![p] = s]
      BY <2>1, <2>2, <2>3, <2>5 DEF SignalRecurso, Desasignar
    <3>3. PICK n \in Int : n = instancias_disponibles[r] + 1
      BY <1>1 DEF Tipos
    <3>4. instancias_disponibles' = [instancias_disponibles EXCEPT ![r] = n]
      BY <2>2, <3>3 DEF SignalRecurso
    <3> QED BY <1>1, <2>1, <3>1, <3>2, <3>3, <3>4, CuentaDeUno
  <2> QED BY <2>4, <2>5
<1>5. CASE FinInterno
  <2>1. fin \in EnInterno
    BY <1>1, <1>5 DEF Tipos, FinInterno, SinFin, EnExterno, EnCaido
  <2>2. /\ fin.pid \in PROCESOS /\ fin.nombre \in RECURSOS /\ fin.i \in Nat
        /\ fin.instancias \in Nat /\ fin.paso = "interno"
    BY <2>1 DEF EnInterno
  <2>3. PICK k : k = Notadas(recursos_asignados[fin.pid], fin.nombre)
    OBVIOUS
  <2>4. k \in Nat
    BY <1>1, <2>2, <2>3, NotadasDe DEF Tipos
  <2>5. fin.i < fin.instancias
    BY <1>5 DEF FinInterno
  <2>6. k = fin.instancias - fin.i \/ k > fin.instancias - fin.i
    BY <1>1, <2>2, <2>3, <2>5 DEF Vuelta
  <2>7. k # 0
    BY <2>2, <2>4, <2>5, <2>6
  <2> QED BY <1>3, <1>5, <2>2, <2>3, <2>7 DEF FinInterno
<1>6. CASE FinListo
  BY <1>1, <1>6, CuentaListo
<1>7. ASSUME UNCHANGED <<instancias_disponibles, recursos_asignados, regalos>>
      PROVE  Cuenta'
  BY <1>7, CuentaQuieta
<1>8. CASE Despachar \/ FinExterno \/ FinSiguiente
  BY <1>7, <1>8 DEF Despachar, FinExterno, FinSiguiente
<1>9. ASSUME NEW p \in PROCESOS,
             LlamadaDesconocida(p, DESCONOCIDO) \/ Exit(p) \/ Yield(p)
      PROVE  Cuenta'
  BY <1>7, <1>9 DEF LlamadaDesconocida, Exit, Yield
<1> QED
  BY <1>2, <1>4, <1>5, <1>6, <1>8, <1>9 DEF Next, Pasos

-----------------------------------------------------------------------------
(* The inductive invariant of the resources holds.                         *)
THEOREM InvarianteRecursos == Spec => [](DeRecursos /\ Turno)
<1>1. Init => DeRecursos /\ Turno
  BY InicioRecursos
<1>2. DeRecursos /\ Turno /\ [Next]_vars => (DeRecursos /\ Turno)'
  <2>1. ASSUME DeRecursos, Turno, UNCHANGED vars PROVE (DeRecursos /\ Turno)'
    BY <2>1, RecursosQuietos DEF vars, Turno
  <2> QED
    BY <2>1, PasoRecursos
<1> QED
  BY <1>1, <1>2, PTL DEF Spec
=============================================================================
