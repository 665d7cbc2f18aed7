------------------------ MODULE TablaArchivosPruebas ------------------------
(***************************************************************************)
(* Theorems about the table of open files together with the resources:     *)
(* where a process waits, who has each file, and that the table implements *)
(* a lock per file granted in the order of the opens.                      *)
(***************************************************************************)
EXTENDS TablaArchivos, RecursosPruebas

Abierto == [nombre : ARCHIVOS, puntero : POSICIONES]
Abiertas == Seq(Abierto)

TablaTipos ==
  /\ DOMAIN tabla_archivos \subseteq ARCHIVOS
  /\ \A f \in DOMAIN tabla_archivos : tabla_archivos[f] \in Seq(PROCESOS)
  /\ archivos_abiertos \in [PROCESOS -> Abiertas]
  /\ sin_cerrar \subseteq DOMAIN tabla_archivos

(* How often p is in the queue of c.                                       *)
EnCola(p, c) == CuantasVeces(ColaDe(c), p)

(* The processes that the kernel has in its hands, and so wait for nothing. *)
EnManos ==
  READY \union {RUNNING} \union (IF fin = SinFin THEN {} ELSE {fin.pid})

(* A process that waits is in one queue, once, and in nobody's hands.      *)
EnUnaCola ==
  \A p \in PROCESOS, c \in Cosas : EnCola(p, c) # 0 =>
    /\ EnCola(p, c) = 1
    /\ p \notin EnManos
    /\ \A d \in Cosas \ {c} : EnCola(p, d) = 0

(* The names in the list of a process, and how often f is among them.      *)
Nombres(s) == [i \in 1..Len(s) |-> s[i].nombre]
Cuantos(s, f) == CuantasVeces(Nombres(s), f)

(* A file of the table that was not left open has one owner: whoever has   *)
(* it in his list once more than he is in its queue.  Nobody has any other *)
(* file.                                                                   *)
TieneUnoMas(f, o) ==
  \A p \in PROCESOS :
    Cuantos(archivos_abiertos[p], f) = EnCola(p, f) + IF p = o THEN 1 ELSE 0

Repartidos ==
  \A f \in ARCHIVOS :
    IF f \in DOMAIN tabla_archivos \ sin_cerrar
      THEN \E o \in PROCESOS : TieneUnoMas(f, o)
      ELSE TieneUnoMas(f, NULO)

(* The process that runs is not ready.                                     *)
Suelto == RUNNING \notin READY

Comun == DeRecursos /\ Turno /\ TablaTipos /\ EnUnaCola /\ Suelto

-----------------------------------------------------------------------------
(* A queue is a list of processes, and waiting is being in it.             *)
LEMMA ColasTipo ==
  ASSUME Tipos, TablaTipos, NEW c \in Cosas, NEW p
  PROVE  /\ ColaDe(c) \in Seq(PROCESOS)
         /\ EnCola(p, c) \in Nat
         /\ EsperaPor(p, c) <=> EnCola(p, c) # 0
<1>1. ColaDe(c) \in Seq(PROCESOS)
  <2>1. <<>> \in Seq(PROCESOS)
    OBVIOUS
  <2> QED
    BY <2>1 DEF Tipos, TablaTipos, ColaDe, Cosas
<1>2. /\ EnCola(p, c) \in Nat
      /\ EnCola(p, c) = 0 <=> \A i \in DOMAIN ColaDe(c) : ColaDe(c)[i] # p
  BY <1>1, AparicionesFinitas DEF EnCola
<1>3. EsperaPor(p, c) <=> \E i \in DOMAIN ColaDe(c) : ColaDe(c)[i] = p
  <2>1. ToSet(ColaDe(c)) = {ColaDe(c)[i] : i \in DOMAIN ColaDe(c)}
    BY DEF ToSet
  <2> QED
    BY <2>1 DEF EsperaPor
<1> QED
  BY <1>1, <1>2, <1>3

(* Nobody waits for anything else where the queues stay and no process     *)
(* comes into the kernel's hands.                                          *)
LEMMA ColasQuietas ==
  ASSUME EnUnaCola, \A c \in Cosas : ColaDe(c)' = ColaDe(c),
         EnManos' \subseteq EnManos \union {NULO}
  PROVE  EnUnaCola'
<1>1. \A p \in PROCESOS, c \in Cosas : EnCola(p, c)' = EnCola(p, c)
  BY DEF EnCola
<1>2. NULO \notin PROCESOS
  BY SupuestoRecursos
<1> QED
  BY <1>1, <1>2 DEF EnUnaCola

(* The process that ran goes to the end of one queue.                      *)
LEMMA UnoSeEncola ==
  ASSUME EnUnaCola, Tipos, TablaTipos, NEW p \in PROCESOS, NEW c \in Cosas,
         \A d \in Cosas : ColaDe(d)' = IF d = c THEN Append(ColaDe(c), p)
                                                ELSE ColaDe(d),
         p \in EnManos, p \notin EnManos',
         EnManos' \subseteq EnManos \union {NULO}
  PROVE  EnUnaCola'
<1>1. ASSUME NEW q \in PROCESOS, NEW d \in Cosas
      PROVE  /\ EnCola(q, d) \in Nat
             /\ EnCola(q, d)' = EnCola(q, d) +
                  (IF d = c /\ p = q THEN 1 ELSE 0)
  <2>1. EnCola(q, d) \in Nat /\ ColaDe(d) \in Seq(PROCESOS)
    BY ColasTipo
  <2>2. CASE d = c
    <3>1. EnCola(q, d)' = CuantasVeces(Append(ColaDe(c), p), q)
      BY <2>2 DEF EnCola
    <3>2. CuantasVeces(Append(ColaDe(c), p), q) =
            CuantasVeces(ColaDe(c), q) + IF p = q THEN 1 ELSE 0
      BY <2>1, <2>2, VecesAppend
    <3> QED
      BY <2>1, <2>2, <3>1, <3>2 DEF EnCola
  <2>3. CASE d # c
    <3>1. EnCola(q, d)' = EnCola(q, d)
      BY <2>3 DEF EnCola
    <3> QED
      BY <2>1, <2>3, <3>1
  <2> QED
    BY <2>1, <2>2, <2>3
<1>2. NULO \notin PROCESOS
  BY SupuestoRecursos
<1>3. \A d \in Cosas : EnCola(p, d) = 0
  BY DEF EnUnaCola
<1> SUFFICES ASSUME NEW q \in PROCESOS, NEW d \in Cosas, EnCola(q, d)' # 0
             PROVE  /\ EnCola(q, d)' = 1
                    /\ q \notin EnManos'
                    /\ \A e \in Cosas \ {d} : EnCola(q, e)' = 0
  BY DEF EnUnaCola
<1>4. CASE q = p
  <2>1. \A e \in Cosas : EnCola(q, e)' = IF e = c THEN 1 ELSE 0
    BY <1>1, <1>3, <1>4
  <2> QED
    BY <1>4, <2>1
<1>5. CASE q # p
  <2>1. \A e \in Cosas : EnCola(q, e)' = EnCola(q, e)
    BY <1>1, <1>5
  <2> QED
    BY <1>2, <2>1 DEF EnUnaCola
<1> QED
  BY <1>4, <1>5

(* The head of one queue comes into the kernel's hands.                    *)
LEMMA UnoSale ==
  ASSUME EnUnaCola, Tipos, TablaTipos, NEW c \in Cosas, ColaDe(c) # <<>>,
         \A d \in Cosas : ColaDe(d)' = IF d = c THEN Tail(ColaDe(c))
                                                ELSE ColaDe(d),
         EnManos' \subseteq EnManos \union {Head(ColaDe(c)), NULO}
  PROVE  /\ EnUnaCola'
         /\ Head(ColaDe(c)) \in PROCESOS /\ Head(ColaDe(c)) \notin EnManos
<1>1. ColaDe(c) \in Seq(PROCESOS) /\ Head(ColaDe(c)) \in PROCESOS
  <2>1. ColaDe(c) \in Seq(PROCESOS)
    BY ColasTipo
  <2> QED
    BY <2>1
<1>2. PICK h \in PROCESOS : h = Head(ColaDe(c))
  BY <1>1
<1>3. ASSUME NEW q \in PROCESOS, NEW d \in Cosas
      PROVE  /\ EnCola(q, d) \in Nat
             /\ EnCola(q, d)' \in Nat
             /\ EnCola(q, d)' = EnCola(q, d) -
                  (IF d = c /\ h = q THEN 1 ELSE 0)
  <2>1. EnCola(q, d) \in Nat /\ ColaDe(d) \in Seq(PROCESOS)
    BY ColasTipo
  <2>2. CASE d = c
    <3>1. EnCola(q, d)' = CuantasVeces(Tail(ColaDe(c)), q)
      BY <2>2 DEF EnCola
    <3>2. CuantasVeces(Tail(ColaDe(c)), q) =
            CuantasVeces(ColaDe(c), q) - IF h = q THEN 1 ELSE 0
      BY <1>1, <1>2, VecesTail
    <3>3. Tail(ColaDe(c)) \in Seq(PROCESOS)
      BY <1>1
    <3>4. CuantasVeces(Tail(ColaDe(c)), q) \in Nat
      BY <3>3, AparicionesFinitas
    <3> QED
      BY <2>1, <2>2, <3>1, <3>2, <3>4 DEF EnCola
  <2>3. CASE d # c
    <3>1. EnCola(q, d)' = EnCola(q, d)
      BY <2>3 DEF EnCola
    <3> QED
      BY <2>1, <2>3, <3>1
  <2> QED
    BY <2>1, <2>2, <2>3
<1>4. EnCola(h, c) # 0
  BY <1>2, <1>3
<1>5. /\ EnCola(h, c) = 1 /\ h \notin EnManos
      /\ \A d \in Cosas \ {c} : EnCola(h, d) = 0
  BY <1>2, <1>4 DEF EnUnaCola
<1>10. EnManos' \subseteq EnManos \union {h, NULO}
  BY <1>2
<1>6. \A d \in Cosas : EnCola(h, d)' = 0
  BY <1>2, <1>3, <1>5
<1>7. \A q \in PROCESOS \ {h}, d \in Cosas : EnCola(q, d)' = EnCola(q, d)
  BY <1>3
<1>8. NULO \notin PROCESOS
  BY SupuestoRecursos
<1>9. EnUnaCola'
  <2> SUFFICES ASSUME NEW q \in PROCESOS, NEW d \in Cosas, EnCola(q, d)' # 0
               PROVE  /\ EnCola(q, d)' = 1
                      /\ q \notin EnManos'
                      /\ \A e \in Cosas \ {d} : EnCola(q, e)' = 0
    BY DEF EnUnaCola
  <2>1. q # h
    BY <1>6
  <2>2. \A e \in Cosas : EnCola(q, e)' = EnCola(q, e)
    BY <1>7, <2>1
  <2> QED
    BY <1>10, <1>8, <2>1, <2>2 DEF EnUnaCola
<1> QED
  BY <1>2, <1>5, <1>9

(* What a step of the resources does to the queues.                        *)
LEMMA ColasDeRecursos ==
  ASSUME UNCHANGED tabla_archivos, NEW r \in RECURSOS, NEW x, Tipos,
         cola_bloqueados' = [cola_bloqueados EXCEPT ![r] = x]
  PROVE  \A d \in Cosas : ColaDe(d)' = IF d = r THEN x ELSE ColaDe(d)
BY DEF ColaDe, Cosas, Tipos

(* The queues stay if neither the table nor the resources' queues change.  *)
LEMMA ColasIguales ==
  ASSUME UNCHANGED <<tabla_archivos, cola_bloqueados>>
  PROVE  \A d \in Cosas : ColaDe(d)' = ColaDe(d)
BY DEF ColaDe

-----------------------------------------------------------------------------
(* A signal wakes the first of the queue, if there is one.                 *)
LEMMA SignalEspera ==
  ASSUME DeRecursos, TablaTipos, EnUnaCola, Suelto, UNCHANGED tabla_archivos,
         NEW p \in PROCESOS, NEW r \in RECURSOS, SignalRecurso(p, r),
         UNCHANGED RUNNING,
         fin' = SinFin => fin = SinFin,
         fin' # SinFin => fin # SinFin /\ fin'.pid = fin.pid
  PROVE  EnUnaCola' /\ Suelto'
<1>1. CASE cola_bloqueados[r] # <<>>
  <2>1. /\ cola_bloqueados' =
             [cola_bloqueados EXCEPT ![r] = Tail(cola_bloqueados[r])]
        /\ READY' = READY \union {Head(cola_bloqueados[r])}
    BY <1>1 DEF SignalRecurso
  <2>2. r \in Cosas /\ ColaDe(r) = cola_bloqueados[r]
    BY DEF Cosas, ColaDe
  <2>3. \A d \in Cosas : ColaDe(d)' = IF d = r THEN Tail(ColaDe(r))
                                               ELSE ColaDe(d)
    BY <2>1, <2>2, ColasDeRecursos DEF DeRecursos
  <2>4. EnManos' \subseteq EnManos \union {Head(ColaDe(r)), NULO}
    BY <2>1, <2>2 DEF EnManos
  <2>5. /\ EnUnaCola'
        /\ Head(ColaDe(r)) \in PROCESOS /\ Head(ColaDe(r)) \notin EnManos
    BY <1>1, <2>2, <2>3, <2>4, UnoSale DEF DeRecursos
  <2>6. Suelto'
    BY <2>1, <2>2, <2>5 DEF Suelto, EnManos
  <2> QED
    BY <2>5, <2>6
<1>2. CASE cola_bloqueados[r] = <<>>
  <2>1. UNCHANGED <<cola_bloqueados, READY>>
    BY <1>2 DEF SignalRecurso
  <2>2. EnManos' \subseteq EnManos \union {NULO}
    BY <2>1 DEF EnManos
  <2>3. EnUnaCola'
    BY <2>1, <2>2, ColasIguales, ColasQuietas
  <2> QED
    BY <2>1, <2>3 DEF Suelto
<1> QED
  BY <1>1, <1>2

(* WAIT: the process that runs goes to one queue, or goes on.              *)
LEMMA WaitEspera ==
  ASSUME DeRecursos, Turno, TablaTipos, EnUnaCola, Suelto,
         UNCHANGED tabla_archivos,
         NEW p \in PROCESOS, NEW r \in RECURSOS, Wait(p, r)
  PROVE  EnUnaCola' /\ Suelto'
<1>1. /\ RUNNING = p /\ fin = SinFin /\ UNCHANGED <<READY, fin>>
  BY DEF Wait, Llamada
<1>2. CASE Falta(r)
  <2>1. /\ cola_bloqueados' =
             [cola_bloqueados EXCEPT ![r] = Append(cola_bloqueados[r], p)]
        /\ RUNNING' = NULO
    BY <1>2 DEF Wait, Bloquear
  <2>2. r \in Cosas /\ ColaDe(r) = cola_bloqueados[r]
    BY DEF Cosas, ColaDe
  <2>3. \A d \in Cosas : ColaDe(d)' = IF d = r THEN Append(ColaDe(r), p)
                                               ELSE ColaDe(d)
    BY <2>1, <2>2, ColasDeRecursos DEF DeRecursos
  <2>4. /\ p \in EnManos /\ p \notin EnManos'
        /\ EnManos' \subseteq EnManos \union {NULO}
    BY <1>1, <2>1, SupuestoRecursos DEF EnManos, Suelto
  <2>5. EnUnaCola'
    BY <2>2, <2>3, <2>4, UnoSeEncola DEF DeRecursos
  <2> QED
    BY <1>1, <2>1, <2>5, SupuestoRecursos DEF Suelto, Turno
<1>3. CASE ~Falta(r)
  <2>1. UNCHANGED <<cola_bloqueados, RUNNING>>
    BY <1>3 DEF Wait
  <2>2. EnManos' \subseteq EnManos \union {NULO}
    BY <1>1, <2>1 DEF EnManos
  <2>3. EnUnaCola'
    BY <2>1, <2>2, ColasIguales, ColasQuietas
  <2> QED
    BY <1>1, <2>1, <2>3 DEF Suelto
<1> QED
  BY <1>2, <1>3

(* The steps of the resources that touch no queue.                         *)
LEMMA QuietoEspera ==
  ASSUME EnUnaCola, Suelto, UNCHANGED <<tabla_archivos, cola_bloqueados>>,
         EnManos' \subseteq EnManos \union {NULO}, RUNNING' \notin READY'
  PROVE  EnUnaCola' /\ Suelto'
BY ColasIguales, ColasQuietas DEF Suelto

(* Every step of the resources keeps each process in one place.            *)
LEMMA PasosEspera ==
  ASSUME Comun, Next, UNCHANGED tabla_archivos
  PROVE  EnUnaCola' /\ Suelto'
<1> USE DEF Comun
<1>1. NULO \notin PROCESOS /\ READY \subseteq PROCESOS
  BY SupuestoRecursos DEF Turno
<1>2. CASE Despachar
  <2>1. EnManos' \subseteq EnManos \union {NULO} /\ RUNNING' \notin READY'
    BY <1>2 DEF Despachar, EnManos
  <2> QED
    BY <1>2, <2>1, QuietoEspera DEF Despachar
<1>3. ASSUME NEW p \in PROCESOS, NEW r \in RECURSOS, Wait(p, r)
      PROVE  EnUnaCola' /\ Suelto'
  BY <1>3, WaitEspera
<1>4. ASSUME NEW p \in PROCESOS, NEW r \in RECURSOS, Signal(p, r)
      PROVE  EnUnaCola' /\ Suelto'
  <2>1. SignalRecurso(p, r) /\ UNCHANGED <<RUNNING, fin>>
    BY <1>4 DEF Signal
  <2> QED
    BY <2>1, SignalEspera
<1>5. ASSUME NEW p \in PROCESOS,
             LlamadaDesconocida(p, DESCONOCIDO) \/ Exit(p)
      PROVE  EnUnaCola' /\ Suelto'
  <2>1. /\ RUNNING = p /\ fin = SinFin /\ RUNNING' = NULO /\ fin'.pid = p
        /\ UNCHANGED <<cola_bloqueados, READY>>
    BY <1>5 DEF LlamadaDesconocida, Exit, Llamada, ComenzarFin
  <2>2. EnManos' \subseteq EnManos \union {NULO} /\ RUNNING' \notin READY'
    BY <1>1, <2>1 DEF EnManos
  <2> QED
    BY <2>1, <2>2, QuietoEspera
<1>6. ASSUME NEW p \in PROCESOS, Yield(p)
      PROVE  EnUnaCola' /\ Suelto'
  <2>1. EnManos' \subseteq EnManos \union {NULO} /\ RUNNING' \notin READY'
    BY <1>1, <1>6 DEF Yield, EnManos
  <2> QED
    BY <1>6, <2>1, QuietoEspera DEF Yield
<1>7. CASE FinExterno \/ FinSiguiente
  <2>1. /\ fin # SinFin /\ fin'.pid = fin.pid
        /\ UNCHANGED <<cola_bloqueados, READY, RUNNING>>
    BY <1>7 DEF FinExterno, FinSiguiente, SinFin
  <2>2. EnManos' \subseteq EnManos \union {NULO} /\ RUNNING' \notin READY'
    BY <2>1 DEF EnManos, Suelto
  <2> QED
    BY <2>1, <2>2, QuietoEspera
<1>8. CASE FinInterno
  <2>1. fin \in EnInterno
    BY <1>8 DEF DeRecursos, Tipos, FinInterno, SinFin, EnExterno, EnCaido
  <2>2. /\ fin.pid \in PROCESOS /\ fin.nombre \in RECURSOS
        /\ SignalRecurso(fin.pid, fin.nombre) /\ UNCHANGED RUNNING
        /\ fin # SinFin /\ fin' # SinFin /\ fin'.pid = fin.pid
    BY <1>8, <2>1 DEF EnInterno, FinInterno, SinFin
  <2> QED
    BY <2>2, SignalEspera
<1>9. CASE FinListo
  <2>1. EnManos' \subseteq EnManos \union {NULO} /\ RUNNING' \notin READY'
    BY <1>9 DEF FinListo, EnManos, Suelto
  <2> QED
    BY <1>9, <2>1, QuietoEspera DEF FinListo
<1> QED
  BY <1>2, <1>3, <1>4, <1>5, <1>6, <1>7, <1>8, <1>9 DEF Next, Pasos

-----------------------------------------------------------------------------
(* The names of a list are as many as the list.                            *)
LEMMA NombresTipo ==
  ASSUME NEW s \in Abiertas
  PROVE  /\ s \in Seq(Abierto) /\ Len(s) \in Nat /\ DOMAIN s = 1..Len(s)
         /\ Nombres(s) \in Seq(ARCHIVOS) /\ Len(Nombres(s)) = Len(s)
         /\ \A f : Apariciones(Nombres(s), f) =
                     {i \in DOMAIN s : s[i].nombre = f}
<1>1. s \in Seq(Abierto) /\ Len(s) \in Nat /\ DOMAIN s = 1..Len(s)
  BY DEF Abiertas
<1>2. ASSUME NEW i \in 1..Len(s) PROVE s[i].nombre \in ARCHIVOS
  <2>1. s[i] \in Abierto
    BY <1>1
  <2> QED
    BY <2>1 DEF Abierto
<1>3. Nombres(s) \in [1..Len(s) -> ARCHIVOS]
  BY <1>2 DEF Nombres
<1>4. Nombres(s) \in Seq(ARCHIVOS) /\ Len(Nombres(s)) = Len(s)
  BY <1>1, <1>3, IsASeq, LenProperties
<1>5. \A f : Apariciones(Nombres(s), f) = {i \in DOMAIN s : s[i].nombre = f}
  BY <1>1 DEF Apariciones, Nombres
<1> QED
  BY <1>1, <1>4, <1>5

(* Counting the files of a process is counting their names.                *)
LEMMA AbiertosCuentan ==
  ASSUME TablaTipos, NEW p \in PROCESOS, NEW f
  PROVE  /\ Abiertos(p, f) = Cuantos(archivos_abiertos[p], f)
         /\ Cuantos(archivos_abiertos[p], f) \in Nat
         /\ Cuantos(archivos_abiertos[p], f) = 0 <=>
              \A i \in DOMAIN archivos_abiertos[p] :
                archivos_abiertos[p][i].nombre # f
<1> DEFINE s == archivos_abiertos[p]
<1>1. s \in Abiertas
  BY DEF TablaTipos
<1>2. /\ Nombres(s) \in Seq(ARCHIVOS) /\ Len(Nombres(s)) = Len(s)
      /\ Apariciones(Nombres(s), f) = {i \in DOMAIN s : s[i].nombre = f}
  BY <1>1, NombresTipo
<1>3. /\ CuantasVeces(Nombres(s), f) \in Nat
      /\ CuantasVeces(Nombres(s), f) = 0 <=>
           \A i \in DOMAIN Nombres(s) : Nombres(s)[i] # f
  BY <1>2, AparicionesFinitas
<1>4. \A i \in DOMAIN s : i \in DOMAIN Nombres(s) /\ Nombres(s)[i] = s[i].nombre
  BY <1>1, NombresTipo DEF Nombres
<1>5. DOMAIN Nombres(s) = DOMAIN s
  BY <1>1, NombresTipo DEF Nombres
<1> QED
  BY <1>2, <1>3, <1>4, <1>5 DEF Abiertos, Cuantos, CuantasVeces

(* list_add of an open file adds its name.                                 *)
LEMMA AnotarCuenta ==
  ASSUME NEW s \in Abiertas, NEW a \in Abierto, NEW f
  PROVE  /\ Append(s, a) \in Abiertas
         /\ Cuantos(Append(s, a), f) =
              Cuantos(s, f) + IF a.nombre = f THEN 1 ELSE 0
<1> DEFINE t == Append(s, a)
<1>1. /\ s \in Seq(Abierto) /\ Len(s) \in Nat
      /\ Nombres(s) \in Seq(ARCHIVOS) /\ Len(Nombres(s)) = Len(s)
  BY NombresTipo
<1>2. t \in Seq(Abierto) /\ Len(t) = Len(s) + 1
      /\ t[Len(s) + 1] = a /\ \A i \in 1..Len(s) : t[i] = s[i]
  BY <1>1
<1>3. a.nombre \in ARCHIVOS
  BY DEF Abierto
<1> HIDE DEF t
<1>4. t \in Abiertas
  BY <1>2 DEF Abiertas
<1>5. Nombres(t) \in Seq(ARCHIVOS) /\ Len(Nombres(t)) = Len(s) + 1
  BY <1>2, <1>4, NombresTipo
<1>6. Nombres(t) = Append(Nombres(s), a.nombre)
  <2> DEFINE u == Append(Nombres(s), a.nombre)
  <2>1. u \in Seq(ARCHIVOS) /\ Len(u) = Len(s) + 1
        /\ u[Len(s) + 1] = a.nombre
        /\ \A i \in 1..Len(s) : u[i] = Nombres(s)[i]
    BY <1>1, <1>3, AppendProperties
  <2> HIDE DEF u
  <2>2. ASSUME NEW i \in 1..(Len(s) + 1) PROVE Nombres(t)[i] = u[i]
    <3>1. Nombres(t)[i] = t[i].nombre
      BY <1>2 DEF Nombres
    <3>2. CASE i \in 1..Len(s)
      BY <1>2, <2>1, <3>1, <3>2 DEF Nombres
    <3>3. CASE i = Len(s) + 1
      BY <1>2, <2>1, <3>1, <3>3
    <3> QED
      BY <1>1, <3>2, <3>3
  <2> QED
    BY <1>5, <2>1, <2>2, SeqEqual DEF u
<1>7. CuantasVeces(Append(Nombres(s), a.nombre), f) =
        CuantasVeces(Nombres(s), f) + IF a.nombre = f THEN 1 ELSE 0
  BY <1>1, <1>3, VecesAppend
<1> QED
  BY <1>4, <1>6, <1>7 DEF Cuantos, t

(* list_remove of an open file takes its name away.                        *)
LEMMA SacarCuenta ==
  ASSUME NEW s \in Abiertas, NEW i \in 1..Len(s), NEW f
  PROVE  /\ RemoveAt(s, i) \in Abiertas
         /\ Cuantos(RemoveAt(s, i), f) =
              Cuantos(s, f) - IF s[i].nombre = f THEN 1 ELSE 0
<1> DEFINE t == RemoveAt(s, i)
           u == RemoveAt(Nombres(s), i)
<1>1. /\ s \in Seq(Abierto) /\ Len(s) \in Nat /\ DOMAIN s = 1..Len(s)
      /\ Nombres(s) \in Seq(ARCHIVOS) /\ Len(Nombres(s)) = Len(s)
      /\ DOMAIN Nombres(s) = 1..Len(s)
  BY NombresTipo DEF Nombres
<1>2. /\ t \in Seq(Abierto) /\ Len(t) = Len(s) - 1
      /\ \A j \in 1..(Len(s) - 1) : t[j] = IF j < i THEN s[j] ELSE s[j + 1]
  BY <1>1, QuitarTipo
<1>3. /\ u \in Seq(ARCHIVOS) /\ Len(u) = Len(s) - 1
      /\ \A j \in 1..(Len(s) - 1) :
           u[j] = IF j < i THEN Nombres(s)[j] ELSE Nombres(s)[j + 1]
  BY <1>1, QuitarTipo
<1>4. CuantasVeces(u, f) =
        CuantasVeces(Nombres(s), f) - IF Nombres(s)[i] = f THEN 1 ELSE 0
  BY <1>1, VecesRemoveAt
<1> HIDE DEF t, u
<1>5. t \in Abiertas
  BY <1>2 DEF Abiertas
<1>6. Nombres(t) \in Seq(ARCHIVOS) /\ Len(Nombres(t)) = Len(s) - 1
  BY <1>2, <1>5, NombresTipo
<1>7. ASSUME NEW j \in 1..(Len(s) - 1) PROVE Nombres(t)[j] = u[j]
  <2>1. Nombres(t)[j] = t[j].nombre
    BY <1>2 DEF Nombres
  <2>2. j \in 1..Len(s) /\ j + 1 \in 1..Len(s)
    BY <1>1
  <2> QED
    BY <1>2, <1>3, <2>1, <2>2 DEF Nombres
<1>8. Nombres(t) = u
  BY <1>3, <1>6, <1>7, SeqEqual
<1>9. Nombres(s)[i] = s[i].nombre
  BY DEF Nombres
<1> QED
  BY <1>4, <1>5, <1>8, <1>9 DEF Cuantos, t

(* fseek changes no name.                                                  *)
LEMMA MoverCuenta ==
  ASSUME NEW s \in Abiertas, NEW i \in 1..Len(s), NEW n \in POSICIONES
  PROVE  LET t == [s EXCEPT ![i].puntero = n]
         IN  t \in Abiertas /\ Nombres(t) = Nombres(s)
<1> DEFINE e == [s[i] EXCEPT !.puntero = n]
           t == [s EXCEPT ![i].puntero = n]
<1>1. s \in Seq(Abierto) /\ Len(s) \in Nat /\ DOMAIN s = 1..Len(s)
  BY NombresTipo
<1>2. s[i] \in Abierto
  BY <1>1
<1>3. e \in Abierto /\ e.nombre = s[i].nombre
  BY <1>2 DEF Abierto
<1>4. t = [s EXCEPT ![i] = e]
  OBVIOUS
<1> HIDE DEF e, t
<1>5. t \in Seq(Abierto) /\ Len(t) = Len(s)
  BY <1>1, <1>3, <1>4, ExceptSeq
<1>6. \A j \in 1..Len(s) : t[j].nombre = s[j].nombre
  BY <1>1, <1>3, <1>4
<1>7. Nombres(t) = Nombres(s)
  BY <1>5, <1>6 DEF Nombres
<1> QED
  BY <1>5, <1>7 DEF Abiertas, t

-----------------------------------------------------------------------------
(* The process that runs, or is being ended, waits for nothing.            *)
LEMMA QuienEstaNoEspera ==
  ASSUME EnUnaCola, NEW p \in PROCESOS, p \in EnManos
  PROVE  \A c \in Cosas : EnCola(p, c) = 0
BY DEF EnUnaCola

(* Nobody is in the queue of a file that is not in the table.              *)
LEMMA SinCola ==
  ASSUME NEW f \in ARCHIVOS, ColaDe(f) = <<>>
  PROVE  \A p \in PROCESOS : EnCola(p, f) = 0
<1>1. <<>> \in Seq(PROCESOS) /\ DOMAIN <<>> = {}
  OBVIOUS
<1>2. \A p : CuantasVeces(<<>>, p) = 0
  BY <1>1, AparicionesFinitas
<1> QED
  BY <1>2 DEF EnCola

(* The queue of a file is the table's.                                     *)
LEMMA ColaDeArchivo ==
  \A f \in ARCHIVOS :
    /\ f \in Cosas
    /\ ColaDe(f) = IF f \in DOMAIN tabla_archivos THEN tabla_archivos[f]
                                                  ELSE <<>>
BY SupuestoArchivos DEF ColaDe, Cosas

(* ... and so it is after a step, by the table it leaves.                  *)
LEMMA ColaDeArchivoPrima ==
  \A f \in ARCHIVOS :
    ColaDe(f)' = IF f \in DOMAIN tabla_archivos' THEN tabla_archivos'[f]
                                                ELSE <<>>
BY SupuestoArchivos DEF ColaDe

(* An owner stays where neither the queue nor the lists change.            *)
LEMMA SigueIgual ==
  ASSUME NEW g \in ARCHIVOS, NEW o, ColaDe(g)' = ColaDe(g),
         \A q \in PROCESOS : Cuantos(archivos_abiertos'[q], g) =
                              Cuantos(archivos_abiertos[q], g)
  PROVE  TieneUnoMas(g, o)' <=> TieneUnoMas(g, o)
<1>1. \A q \in PROCESOS : EnCola(q, g)' = EnCola(q, g)
  BY DEF EnCola
<1>2. \A q \in PROCESOS : Cuantos(archivos_abiertos[q], g)' =
                           Cuantos(archivos_abiertos[q], g)
  BY DEF Cuantos, Nombres
<1> QED
  BY <1>1, <1>2 DEF TieneUnoMas

(* A step about one file leaves the other ones as they are.                *)
LEMMA LosDemasArchivos ==
  ASSUME Repartidos, NEW f \in ARCHIVOS,
         \A g \in ARCHIVOS \ {f} :
           /\ ColaDe(g)' = ColaDe(g)
           /\ \A q \in PROCESOS : Cuantos(archivos_abiertos'[q], g) =
                                   Cuantos(archivos_abiertos[q], g)
           /\ (g \in DOMAIN tabla_archivos \ sin_cerrar) <=>
                (g \in DOMAIN tabla_archivos' \ sin_cerrar'),
         IF f \in DOMAIN tabla_archivos' \ sin_cerrar'
           THEN \E o \in PROCESOS : TieneUnoMas(f, o)'
           ELSE TieneUnoMas(f, NULO)'
  PROVE  Repartidos'
<1>1. ASSUME NEW g \in ARCHIVOS \ {f}, NEW o
      PROVE  TieneUnoMas(g, o)' <=> TieneUnoMas(g, o)
  BY SigueIgual
<1>2. ASSUME NEW g \in ARCHIVOS
      PROVE  IF g \in DOMAIN tabla_archivos' \ sin_cerrar'
               THEN \E o \in PROCESOS : TieneUnoMas(g, o)'
               ELSE TieneUnoMas(g, NULO)'
  <2>1. CASE g = f
    BY <2>1
  <2>2. CASE g # f
    BY <1>1, <2>2 DEF Repartidos
  <2> QED
    BY <2>1, <2>2
<1> QED
  BY <1>2 DEF Repartidos

(* F_OPEN of a file that is not in the table: the process is its owner.    *)
LEMMA PasoAbrirLibre ==
  ASSUME Comun, Repartidos, NEW p \in PROCESOS, NEW f \in ARCHIVOS,
         AbrirLibre(p, f)
  PROVE  /\ TablaTipos' /\ EnUnaCola' /\ Suelto' /\ Repartidos'
         /\ TieneUnoMas(f, p)'
         /\ \A o : \A g \in ARCHIVOS \ {f} : TieneUnoMas(g, o) => TieneUnoMas(g, o)'
         /\ \A g \in Cosas : ColaDe(g)' = ColaDe(g)
<1> USE DEF Comun
<1> DEFINE s == archivos_abiertos[p]
           a == [nombre |-> f, puntero |-> 0]
<1>1. /\ f \notin DOMAIN tabla_archivos /\ RUNNING = p /\ fin = SinFin
      /\ UNCHANGED <<cola_bloqueados, fin, READY, RUNNING, sin_cerrar>>
      /\ archivos_abiertos' = [archivos_abiertos EXCEPT ![p] = Append(s, a)]
      /\ tabla_archivos' = [g \in DOMAIN tabla_archivos \union {f} |->
                              IF g = f THEN <<>> ELSE tabla_archivos[g]]
  BY DEF AbrirLibre, Llamada, Anotar, recursosVars
<1>2. s \in Abiertas /\ a \in Abierto /\ a.nombre = f
  BY SupuestoArchivos DEF TablaTipos, Abierto
<1> HIDE DEF s, a
<1>3. /\ Append(s, a) \in Abiertas
      /\ \A g : Cuantos(Append(s, a), g) = Cuantos(s, g) + IF f = g THEN 1 ELSE 0
  BY <1>2, AnotarCuenta
<1>4. /\ archivos_abiertos' \in [PROCESOS -> Abiertas]
      /\ archivos_abiertos'[p] = Append(s, a)
      /\ \A q \in PROCESOS : q # p => archivos_abiertos'[q] = archivos_abiertos[q]
  BY <1>1, <1>3 DEF TablaTipos
<1>5. TablaTipos'
  <2>1. <<>> \in Seq(PROCESOS)
    OBVIOUS
  <2> QED
    BY <1>1, <1>4, <2>1 DEF TablaTipos
<1>6. \A d \in Cosas : ColaDe(d)' = ColaDe(d)
  BY <1>1 DEF ColaDe
<1>7. EnUnaCola' /\ Suelto'
  <2>1. EnManos' \subseteq EnManos \union {NULO}
    BY <1>1 DEF EnManos
  <2> QED
    BY <1>1, <1>6, <2>1, ColasQuietas DEF Suelto
<1>8. \A q \in PROCESOS, g \in ARCHIVOS :
        /\ Cuantos(archivos_abiertos[q], g) \in Nat
        /\ Cuantos(archivos_abiertos'[q], g) =
             Cuantos(archivos_abiertos[q], g) + IF q = p /\ g = f THEN 1 ELSE 0
  <2> TAKE q \in PROCESOS, g \in ARCHIVOS
  <2>1. Cuantos(archivos_abiertos[q], g) \in Nat
    BY AbiertosCuentan
  <2>2. CASE q = p
    BY <1>3, <1>4, <2>1, <2>2 DEF s
  <2>3. CASE q # p
    BY <1>4, <2>1, <2>3
  <2> QED
    BY <2>2, <2>3
<1>9. \A q \in PROCESOS : EnCola(q, f) = 0 /\ EnCola(q, f)' = 0
  <2>1. ColaDe(f) = <<>>
    BY <1>1, ColaDeArchivo
  <2>2. f \in Cosas
    BY ColaDeArchivo
  <2>3. \A q \in PROCESOS : EnCola(q, f) = 0
    BY <2>1, SinCola
  <2> QED
    BY <1>6, <2>2, <2>3 DEF EnCola
<1>10. TieneUnoMas(f, NULO)
  BY <1>1 DEF Repartidos
<1>11. TieneUnoMas(f, p)'
  <2>1. \A q \in PROCESOS : q # NULO
    BY SupuestoRecursos
  <2>2. \A q \in PROCESOS : Cuantos(archivos_abiertos[q], f) = 0
    BY <1>9, <1>10, <2>1 DEF TieneUnoMas
  <2>3. \A q \in PROCESOS : Cuantos(archivos_abiertos'[q], f) =
                             IF q = p THEN 1 ELSE 0
    BY <1>8, <2>2
  <2>4. \A q \in PROCESOS : Cuantos(archivos_abiertos[q], f)' =
                             Cuantos(archivos_abiertos'[q], f)
    BY DEF Cuantos, Nombres
  <2> QED
    BY <1>9, <2>3, <2>4 DEF TieneUnoMas
<1>12. f \in DOMAIN tabla_archivos' \ sin_cerrar'
  BY <1>1 DEF TablaTipos
<1>13. \A g \in ARCHIVOS \ {f} :
         (g \in DOMAIN tabla_archivos \ sin_cerrar) <=>
           (g \in DOMAIN tabla_archivos' \ sin_cerrar')
  BY <1>1
<1>14. \A g \in ARCHIVOS : g \in Cosas
  BY DEF Cosas
<1>15. Repartidos'
  BY <1>6, <1>8, <1>11, <1>12, <1>13, <1>14, LosDemasArchivos
<1>16. \A o : \A g \in ARCHIVOS \ {f} : TieneUnoMas(g, o) => TieneUnoMas(g, o)'
  BY <1>6, <1>8, <1>14, SigueIgual
<1> QED
  BY <1>5, <1>6, <1>7, <1>11, <1>15, <1>16

(* F_OPEN of a file that has an owner: the process has it noted and waits, *)
(* so that the owner stays the same.                                       *)
LEMMA PasoAbrirTomado ==
  ASSUME Comun, Repartidos, NEW p \in PROCESOS, NEW f \in ARCHIVOS,
         AbrirTomado(p, f)
  PROVE  /\ TablaTipos' /\ EnUnaCola' /\ Suelto' /\ Repartidos'
         /\ \A o : \A g \in ARCHIVOS : TieneUnoMas(g, o) => TieneUnoMas(g, o)'
         /\ \A g \in Cosas : ColaDe(g)' = IF g = f THEN Append(ColaDe(f), p)
                                                   ELSE ColaDe(g)
<1> USE DEF Comun
<1> DEFINE s == archivos_abiertos[p]
           a == [nombre |-> f, puntero |-> 0]
           c == tabla_archivos[f]
<1>1. /\ f \in DOMAIN tabla_archivos /\ RUNNING = p /\ fin = SinFin
      /\ RUNNING' = NULO
      /\ UNCHANGED <<cola_bloqueados, fin, READY, sin_cerrar>>
      /\ archivos_abiertos' = [archivos_abiertos EXCEPT ![p] = Append(s, a)]
      /\ tabla_archivos' = [tabla_archivos EXCEPT ![f] = Append(c, p)]
  BY DEF AbrirTomado, Llamada, Anotar, DejarCPU, recursosVars
<1>2. s \in Abiertas /\ a \in Abierto /\ a.nombre = f /\ c \in Seq(PROCESOS)
  BY <1>1, SupuestoArchivos DEF TablaTipos, Abierto
<1> HIDE DEF s, a
<1>3. /\ Append(s, a) \in Abiertas
      /\ \A g : Cuantos(Append(s, a), g) = Cuantos(s, g) + IF f = g THEN 1 ELSE 0
  BY <1>2, AnotarCuenta
<1>4. /\ archivos_abiertos' \in [PROCESOS -> Abiertas]
      /\ archivos_abiertos'[p] = Append(s, a)
      /\ \A q \in PROCESOS : q # p => archivos_abiertos'[q] = archivos_abiertos[q]
  BY <1>1, <1>3 DEF TablaTipos
<1>5. TablaTipos'
  <2>1. Append(c, p) \in Seq(PROCESOS)
    BY <1>2
  <2> QED
    BY <1>1, <1>4, <2>1 DEF TablaTipos
<1>6. f \in Cosas /\ ColaDe(f) = c
  BY <1>1, ColaDeArchivo
<1>7. \A d \in Cosas : ColaDe(d)' = IF d = f THEN Append(ColaDe(f), p)
                                             ELSE ColaDe(d)
  <2>1. f \notin RECURSOS
    BY SupuestoArchivos
  <2> HIDE DEF c
  <2>2. \A d \in Cosas : d # f => ColaDe(d)' = ColaDe(d)
    BY <1>1 DEF ColaDe
  <2>3. ColaDe(f)' = Append(c, p)
    BY <1>1, <2>1 DEF ColaDe
  <2> QED
    BY <1>6, <2>2, <2>3
<1>8. EnUnaCola' /\ Suelto'
  <2>1. /\ p \in EnManos /\ p \notin EnManos'
        /\ EnManos' \subseteq EnManos \union {NULO}
    BY <1>1, SupuestoRecursos DEF EnManos, Suelto
  <2>2. EnUnaCola'
    BY <1>6, <1>7, <2>1, UnoSeEncola DEF DeRecursos
  <2> QED
    BY <1>1, <2>2, SupuestoRecursos DEF Suelto, Turno
<1>9. \A q \in PROCESOS, g \in ARCHIVOS :
        /\ Cuantos(archivos_abiertos[q], g) \in Nat
        /\ Cuantos(archivos_abiertos'[q], g) =
             Cuantos(archivos_abiertos[q], g) + IF q = p /\ g = f THEN 1 ELSE 0
  <2> TAKE q \in PROCESOS, g \in ARCHIVOS
  <2>1. Cuantos(archivos_abiertos[q], g) \in Nat
    BY AbiertosCuentan
  <2>2. CASE q = p
    BY <1>3, <1>4, <2>1, <2>2 DEF s
  <2>3. CASE q # p
    BY <1>4, <2>1, <2>3
  <2> QED
    BY <2>2, <2>3
<1>10. \A q \in PROCESOS :
         /\ EnCola(q, f) \in Nat
         /\ EnCola(q, f)' = EnCola(q, f) + IF q = p THEN 1 ELSE 0
  <2> TAKE q \in PROCESOS
  <2>1. EnCola(q, f)' = CuantasVeces(Append(c, p), q)
    BY <1>6, <1>7 DEF EnCola
  <2>2. CuantasVeces(Append(c, p), q) =
          CuantasVeces(c, q) + IF p = q THEN 1 ELSE 0
    BY <1>2, VecesAppend
  <2>3. CuantasVeces(c, q) \in Nat
    BY <1>2, AparicionesFinitas
  <2> HIDE DEF c
  <2> QED
    BY <1>6, <2>1, <2>2, <2>3 DEF EnCola
<1>11. \A o : TieneUnoMas(f, o) => TieneUnoMas(f, o)'
  <2>1. \A q \in PROCESOS : Cuantos(archivos_abiertos[q], f)' =
                             Cuantos(archivos_abiertos'[q], f)
    BY DEF Cuantos, Nombres
  <2> SUFFICES ASSUME NEW o, TieneUnoMas(f, o), NEW q \in PROCESOS
               PROVE  Cuantos(archivos_abiertos[q], f)' =
                        EnCola(q, f)' + IF q = o THEN 1 ELSE 0
    BY DEF TieneUnoMas
  <2>2. Cuantos(archivos_abiertos[q], f) = EnCola(q, f) + IF q = o THEN 1 ELSE 0
    BY DEF TieneUnoMas
  <2> QED
    BY <1>9, <1>10, <2>1, <2>2
<1>12. \A g \in ARCHIVOS \ {f} :
         (g \in DOMAIN tabla_archivos \ sin_cerrar) <=>
           (g \in DOMAIN tabla_archivos' \ sin_cerrar')
  BY <1>1
<1>13. \A g \in ARCHIVOS : g \in Cosas
  BY DEF Cosas
<1>14. Repartidos'
  <2>1. IF f \in DOMAIN tabla_archivos' \ sin_cerrar'
          THEN \E o \in PROCESOS : TieneUnoMas(f, o)'
          ELSE TieneUnoMas(f, NULO)'
    BY <1>1, <1>11 DEF Repartidos
  <2> QED
    BY <1>7, <1>9, <1>12, <1>13, <2>1, LosDemasArchivos
<1>15. \A o : \A g \in ARCHIVOS : TieneUnoMas(g, o) => TieneUnoMas(g, o)'
  <2> TAKE o
  <2> TAKE g \in ARCHIVOS
  <2>1. CASE g = f
    BY <1>11, <2>1
  <2>2. CASE g # f
    BY <1>7, <1>9, <1>13, <2>2, SigueIgual
  <2> QED
    BY <2>1, <2>2
<1> QED
  BY <1>5, <1>7, <1>8, <1>14, <1>15

(* Only its owner can close a file: whoever runs waits for nothing, so a   *)
(* file in its list is its own.                                            *)
LEMMA QuienCorreEsDuenio ==
  ASSUME TablaTipos, EnUnaCola, Repartidos, NEW p \in PROCESOS, p \in EnManos,
         NEW f \in ARCHIVOS, Cuantos(archivos_abiertos[p], f) # 0
  PROVE  /\ f \in DOMAIN tabla_archivos \ sin_cerrar
         /\ TieneUnoMas(f, p) /\ Cuantos(archivos_abiertos[p], f) = 1
<1>1. EnCola(p, f) = 0
  BY QuienEstaNoEspera DEF Cosas
<1>2. p # NULO
  BY SupuestoRecursos
<1>3. f \in DOMAIN tabla_archivos \ sin_cerrar
  BY <1>1, <1>2 DEF Repartidos, TieneUnoMas
<1>4. PICK o \in PROCESOS : TieneUnoMas(f, o)
  BY <1>3 DEF Repartidos
<1>5. o = p
  BY <1>1, <1>4 DEF TieneUnoMas
<1> QED
  BY <1>1, <1>3, <1>4, <1>5 DEF TieneUnoMas

(* verificar_string_en_lista finds a file exactly when it is in the list.  *)
LEMMA IndiceArchivoEs ==
  ASSUME TablaTipos, NEW p \in PROCESOS, NEW f \in ARCHIVOS
  PROVE  /\ IndiceArchivo(p, f) = PorNombre(archivos_abiertos[p], f)
         /\ IndiceArchivo(p, f) = 0 <=> Cuantos(archivos_abiertos[p], f) = 0
         /\ IndiceArchivo(p, f) # 0 =>
              /\ IndiceArchivo(p, f) \in 1..Len(archivos_abiertos[p])
              /\ archivos_abiertos[p][IndiceArchivo(p, f)].nombre = f
<1> DEFINE s == archivos_abiertos[p]
<1>1. IndiceArchivo(p, f) = PorNombre(s, f)
  BY DEF IndiceArchivo, PorNombre, SelectInSeq
<1>2. s \in Abiertas
  BY DEF TablaTipos
<1>3. s \in Seq(Abierto) /\ Len(s) \in Nat /\ DOMAIN s = 1..Len(s)
  BY <1>2, NombresTipo
<1>4. Cuantos(s, f) = 0 <=> \A i \in DOMAIN s : s[i].nombre # f
  BY AbiertosCuentan
<1>5. \/ PorNombre(s, f) = 0 /\ \A j \in 1..Len(s) : s[j].nombre # f
      \/ PorNombre(s, f) \in 1..Len(s) /\ s[PorNombre(s, f)].nombre = f
  BY <1>3, BusquedaPorNombre
<1> HIDE DEF s
<1>6. CASE PorNombre(s, f) = 0
  BY <1>1, <1>3, <1>4, <1>5, <1>6 DEF s
<1>7. CASE PorNombre(s, f) # 0
  BY <1>1, <1>3, <1>4, <1>5, <1>7 DEF s
<1> QED
  BY <1>6, <1>7

(* Whoever the file goes to when it is closed: the first of its queue.     *)
Heredero(f) == IF ColaDe(f) = <<>> THEN NULO ELSE Head(ColaDe(f))

(* F_CLOSE by the owner: the next of the queue is the owner, or the file   *)
(* leaves the table.                                                       *)
LEMMA PasoCerrar ==
  ASSUME Comun, Repartidos, NEW p \in PROCESOS, NEW f \in ARCHIVOS,
         Cerrar(p, f), IndiceArchivo(p, f) # 0
  PROVE  /\ TablaTipos' /\ EnUnaCola' /\ Suelto' /\ Repartidos'
         /\ TieneUnoMas(f, p) /\ f \in DOMAIN tabla_archivos \ sin_cerrar
         /\ \E o \in PROCESOS \union {NULO} :
              /\ o = Heredero(f) /\ o # p /\ TieneUnoMas(f, o)'
              /\ o \in PROCESOS <=> f \in DOMAIN tabla_archivos'
              /\ o # NULO => EnCola(o, f) = 1
         /\ DOMAIN tabla_archivos' \union {f} = DOMAIN tabla_archivos
         /\ \A o : \A g \in ARCHIVOS \ {f} : TieneUnoMas(g, o) => TieneUnoMas(g, o)'
         /\ \A g \in Cosas :
              ColaDe(g)' = IF g = f /\ ColaDe(f) # <<>> THEN Tail(ColaDe(f))
                                                       ELSE ColaDe(g)
<1> USE DEF Comun
<1> DEFINE s == archivos_abiertos[p]
           i == IndiceArchivo(p, f)
           c == tabla_archivos[f]
<1>1. /\ RUNNING = p /\ fin = SinFin
      /\ UNCHANGED <<cola_bloqueados, fin, RUNNING, sin_cerrar>>
      /\ archivos_abiertos' = [archivos_abiertos EXCEPT ![p] = RemoveAt(s, i)]
      /\ f \in DOMAIN tabla_archivos => Entregar(f)
  BY DEF Cerrar, Llamada, recursosVars
<1>2. s \in Abiertas /\ i \in 1..Len(s) /\ s[i].nombre = f
      /\ Cuantos(s, f) # 0
  BY IndiceArchivoEs DEF TablaTipos
<1>3. p \in EnManos /\ p # NULO
  BY <1>1, SupuestoRecursos DEF EnManos
<1>4. /\ f \in DOMAIN tabla_archivos \ sin_cerrar
      /\ TieneUnoMas(f, p) /\ Cuantos(s, f) = 1
  BY <1>2, <1>3, QuienCorreEsDuenio
<1> HIDE DEF s, i
<1>5. /\ RemoveAt(s, i) \in Abiertas
      /\ \A g : Cuantos(RemoveAt(s, i), g) = Cuantos(s, g) - IF f = g THEN 1 ELSE 0
  BY <1>2, SacarCuenta
<1>6. /\ archivos_abiertos' \in [PROCESOS -> Abiertas]
      /\ archivos_abiertos'[p] = RemoveAt(s, i)
      /\ \A q \in PROCESOS : q # p => archivos_abiertos'[q] = archivos_abiertos[q]
  BY <1>1, <1>5 DEF TablaTipos
<1>7. \A q \in PROCESOS, g \in ARCHIVOS :
        /\ Cuantos(archivos_abiertos[q], g) \in Nat
        /\ Cuantos(archivos_abiertos'[q], g) =
             Cuantos(archivos_abiertos[q], g) - IF q = p /\ g = f THEN 1 ELSE 0
  <2> TAKE q \in PROCESOS, g \in ARCHIVOS
  <2>1. Cuantos(archivos_abiertos[q], g) \in Nat
    BY AbiertosCuentan
  <2>2. CASE q = p
    BY <1>5, <1>6, <2>1, <2>2 DEF s
  <2>3. CASE q # p
    BY <1>6, <2>1, <2>3
  <2> QED
    BY <2>2, <2>3
<1>8. f \in Cosas /\ f \notin RECURSOS /\ ColaDe(f) = c /\ c \in Seq(PROCESOS)
  BY <1>4, ColaDeArchivo, SupuestoArchivos DEF TablaTipos
<1>9. \A g \in ARCHIVOS : g \in Cosas
  BY DEF Cosas
<1>10. \A q \in PROCESOS :
         /\ Cuantos(archivos_abiertos[q], f) =
              EnCola(q, f) + IF q = p THEN 1 ELSE 0
         /\ EnCola(q, f) \in Nat
         /\ Cuantos(archivos_abiertos'[q], f) = EnCola(q, f)
         /\ Cuantos(archivos_abiertos[q], f)' = Cuantos(archivos_abiertos'[q], f)
  <2> TAKE q \in PROCESOS
  <2>1. Cuantos(archivos_abiertos[q], f) = EnCola(q, f) + IF q = p THEN 1 ELSE 0
    BY <1>4 DEF TieneUnoMas
  <2>2. EnCola(q, f) \in Nat
    BY <1>8, ColasTipo DEF DeRecursos
  <2>3. Cuantos(archivos_abiertos[q], f)' = Cuantos(archivos_abiertos'[q], f)
    BY DEF Cuantos, Nombres
  <2> QED
    BY <1>7, <2>1, <2>2, <2>3
<1>11. Head(c) \in PROCESOS \/ c = <<>>
  BY <1>8
<1>12. CASE c # <<>>
  <2>1. PICK h \in PROCESOS : h = Head(c)
    BY <1>11, <1>12
  <2>2. /\ tabla_archivos' = [tabla_archivos EXCEPT ![f] = Tail(c)]
        /\ READY' = READY \union {h}
    BY <1>1, <1>4, <1>12, <2>1 DEF Entregar
  <2>3. Tail(c) \in Seq(PROCESOS)
    BY <1>8, <1>12
  <2> HIDE DEF c
  <2>4. TablaTipos'
    BY <1>1, <1>4, <1>6, <2>2, <2>3 DEF TablaTipos
  <2>5. \A d \in Cosas : ColaDe(d)' = IF d = f THEN Tail(ColaDe(f)) ELSE ColaDe(d)
    <3>1. \A d \in Cosas : d # f => ColaDe(d)' = ColaDe(d)
      BY <1>1, <2>2 DEF ColaDe
    <3>2. ColaDe(f)' = Tail(c)
      BY <1>4, <1>8, <2>2 DEF ColaDe
    <3> QED
      BY <1>8, <3>1, <3>2
  <2>6. EnManos' \subseteq EnManos \union {Head(ColaDe(f)), NULO}
    BY <1>1, <1>8, <2>1, <2>2 DEF EnManos
  <2>7. EnUnaCola' /\ Head(ColaDe(f)) \notin EnManos
    BY <1>8, <1>12, <2>5, <2>6, UnoSale DEF DeRecursos
  <2>8. Suelto' /\ h # p
    BY <1>1, <1>3, <1>8, <2>1, <2>2, <2>7 DEF Suelto, EnManos
  <2>9. \A q \in PROCESOS :
          EnCola(q, f)' = EnCola(q, f) - IF q = h THEN 1 ELSE 0
    <3> TAKE q \in PROCESOS
    <3>1. EnCola(q, f)' = CuantasVeces(Tail(c), q)
      BY <1>8, <2>5 DEF EnCola
    <3>2. CuantasVeces(Tail(c), q) =
            CuantasVeces(c, q) - IF Head(c) = q THEN 1 ELSE 0
      BY <1>8, <1>12, VecesTail
    <3> QED
      BY <1>8, <2>1, <3>1, <3>2 DEF EnCola
  <2>10. TieneUnoMas(f, h)'
    <3> SUFFICES ASSUME NEW q \in PROCESOS
                 PROVE  Cuantos(archivos_abiertos[q], f)' =
                          EnCola(q, f)' + IF q = h THEN 1 ELSE 0
      BY DEF TieneUnoMas
    <3> QED
      BY <1>10, <2>9
  <2>11. h \in PROCESOS /\ h # NULO /\ h = Heredero(f)
    BY <1>8, <1>12, <2>1, SupuestoRecursos DEF Heredero
  <2>12. EnCola(h, f) # 0
    <3>1. 1 \in DOMAIN c /\ c[1] = h
      BY <1>8, <1>12, <2>1, ColaEsQuitar
    <3>2. \E j \in DOMAIN c : c[j] = h
      BY <3>1
    <3>3. CuantasVeces(c, h) # 0
      BY <1>8, <3>2, AparicionesFinitas
    <3> QED
      BY <1>8, <3>3 DEF EnCola
  <2>13. EnCola(h, f) = 1
    BY <1>8, <2>12 DEF EnUnaCola
  <2>14. f \in DOMAIN tabla_archivos' \ sin_cerrar'
         /\ DOMAIN tabla_archivos' = DOMAIN tabla_archivos
    BY <1>1, <1>4, <2>2
  <2>15. \A g \in ARCHIVOS \ {f} :
           /\ ColaDe(g)' = ColaDe(g)
           /\ \A q \in PROCESOS : Cuantos(archivos_abiertos'[q], g) =
                                   Cuantos(archivos_abiertos[q], g)
           /\ (g \in DOMAIN tabla_archivos \ sin_cerrar) <=>
                (g \in DOMAIN tabla_archivos' \ sin_cerrar')
    BY <1>1, <1>7, <1>9, <2>5, <2>14
  <2>16. Repartidos'
    BY <2>10, <2>14, <2>15, LosDemasArchivos
  <2>17. \A o : \A g \in ARCHIVOS \ {f} : TieneUnoMas(g, o) => TieneUnoMas(g, o)'
    BY <2>15, SigueIgual
  <2>18. \A g \in Cosas :
           ColaDe(g)' = IF g = f /\ ColaDe(f) # <<>> THEN Tail(ColaDe(f))
                                                    ELSE ColaDe(g)
    BY <1>8, <1>12, <2>5
  <2> QED
    BY <1>4, <2>4, <2>7, <2>8, <2>10, <2>11, <2>13, <2>14, <2>16, <2>17, <2>18
<1>13. CASE c = <<>>
  <2>1. /\ tabla_archivos' =
             Restrict(tabla_archivos, DOMAIN tabla_archivos \ {f})
        /\ UNCHANGED READY
    BY <1>1, <1>4, <1>13 DEF Entregar
  <2>2. /\ DOMAIN tabla_archivos' = DOMAIN tabla_archivos \ {f}
        /\ \A g \in DOMAIN tabla_archivos' :
             tabla_archivos'[g] = tabla_archivos[g]
    BY <2>1 DEF Restrict
  <2> HIDE DEF c
  <2>3. TablaTipos'
    BY <1>1, <1>4, <1>6, <2>2 DEF TablaTipos
  <2>4. \A d \in Cosas : ColaDe(d)' = ColaDe(d)
    <3>1. \A d \in Cosas : d # f => ColaDe(d)' = ColaDe(d)
      BY <1>1, <2>2 DEF ColaDe
    <3>2. ColaDe(f)' = <<>>
      BY <1>8, <2>2 DEF ColaDe
    <3> QED
      BY <1>8, <1>13, <3>1, <3>2
  <2>5. EnUnaCola' /\ Suelto'
    <3>1. EnManos' \subseteq EnManos \union {NULO}
      BY <1>1, <2>1 DEF EnManos
    <3> QED
      BY <1>1, <2>1, <2>4, <3>1, ColasQuietas DEF Suelto
  <2>6. \A q \in PROCESOS : EnCola(q, f)' = EnCola(q, f)
    BY <1>8, <2>4 DEF EnCola
  <2>7. TieneUnoMas(f, NULO)'
    <3> SUFFICES ASSUME NEW q \in PROCESOS
                 PROVE  Cuantos(archivos_abiertos[q], f)' =
                          EnCola(q, f)' + IF q = NULO THEN 1 ELSE 0
      BY DEF TieneUnoMas
    <3>1. q # NULO
      BY SupuestoRecursos
    <3> QED
      BY <1>10, <2>6, <3>1
  <2>8. NULO = Heredero(f) /\ NULO \notin PROCESOS
        /\ f \notin DOMAIN tabla_archivos'
        /\ DOMAIN tabla_archivos' \union {f} = DOMAIN tabla_archivos
    BY <1>4, <1>8, <1>13, <2>2, SupuestoRecursos DEF Heredero
  <2>9. \A g \in ARCHIVOS \ {f} :
          /\ ColaDe(g)' = ColaDe(g)
          /\ \A q \in PROCESOS : Cuantos(archivos_abiertos'[q], g) =
                                  Cuantos(archivos_abiertos[q], g)
          /\ (g \in DOMAIN tabla_archivos \ sin_cerrar) <=>
               (g \in DOMAIN tabla_archivos' \ sin_cerrar')
    BY <1>1, <1>7, <1>9, <2>2, <2>4
  <2>10. Repartidos'
    BY <2>7, <2>8, <2>9, LosDemasArchivos
  <2>11. \A o : \A g \in ARCHIVOS \ {f} : TieneUnoMas(g, o) => TieneUnoMas(g, o)'
    BY <2>9, SigueIgual
  <2>12. \A g \in Cosas :
           ColaDe(g)' = IF g = f /\ ColaDe(f) # <<>> THEN Tail(ColaDe(f))
                                                    ELSE ColaDe(g)
    BY <1>8, <1>13, <2>4
  <2> QED
    BY <1>3, <1>4, <2>3, <2>5, <2>7, <2>8, <2>10, <2>11, <2>12
<1> QED
  BY <1>12, <1>13

(* Nothing happens to any file where the table and the lists of names stay. *)
LEMMA ArchivosIguales ==
  ASSUME Repartidos, UNCHANGED <<tabla_archivos, sin_cerrar>>,
         \A g \in ARCHIVOS : ColaDe(g)' = ColaDe(g),
         \A q \in PROCESOS :
           Nombres(archivos_abiertos'[q]) = Nombres(archivos_abiertos[q])
  PROVE  /\ Repartidos'
         /\ \A o : \A g \in ARCHIVOS : TieneUnoMas(g, o)' <=> TieneUnoMas(g, o)
<1>1. \A o : \A g \in ARCHIVOS : TieneUnoMas(g, o)' <=> TieneUnoMas(g, o)
  BY SigueIgual DEF Cuantos
<1> QED
  BY <1>1 DEF Repartidos

(* F_SEEK changes a position and no name.                                  *)
LEMMA PasoMover ==
  ASSUME Comun, Repartidos, NEW p \in PROCESOS, NEW f \in ARCHIVOS,
         NEW n \in POSICIONES, CambiarPuntero(p, f, n)
  PROVE  /\ TablaTipos' /\ EnUnaCola' /\ Suelto' /\ Repartidos'
         /\ \A q \in PROCESOS :
              Nombres(archivos_abiertos'[q]) = Nombres(archivos_abiertos[q])
         /\ \A g \in Cosas : ColaDe(g)' = ColaDe(g)
<1> USE DEF Comun
<1> DEFINE s == archivos_abiertos[p]
           i == IndiceArchivo(p, f)
           t == IF i = 0 THEN s ELSE [s EXCEPT ![i].puntero = n]
<1>1. /\ UNCHANGED <<cola_bloqueados, fin, READY, RUNNING, tabla_archivos,
                     sin_cerrar>>
      /\ archivos_abiertos' = [archivos_abiertos EXCEPT ![p] = t]
  BY DEF CambiarPuntero, recursosVars
<1>2. s \in Abiertas /\ (i # 0 => i \in 1..Len(s))
  BY IndiceArchivoEs DEF TablaTipos
<1> HIDE DEF s, i
<1>3. t \in Abiertas /\ Nombres(t) = Nombres(s)
  BY <1>2, MoverCuenta
<1> HIDE DEF t
<1>4. archivos_abiertos' \in [PROCESOS -> Abiertas]
  BY <1>1, <1>3 DEF TablaTipos
<1>5. \A q \in PROCESOS :
        Nombres(archivos_abiertos'[q]) = Nombres(archivos_abiertos[q])
  BY <1>1, <1>3 DEF TablaTipos, s
<1>6. \A d \in Cosas : ColaDe(d)' = ColaDe(d)
  BY <1>1, ColasIguales
<1>7. EnUnaCola' /\ Suelto'
  <2>1. EnManos' \subseteq EnManos \union {NULO}
    BY <1>1 DEF EnManos
  <2> QED
    BY <1>1, <1>6, <2>1, ColasQuietas DEF Suelto
<1>8. TablaTipos'
  BY <1>1, <1>4 DEF TablaTipos
<1>9. Repartidos'
  <2>1. \A g \in ARCHIVOS : ColaDe(g)' = ColaDe(g)
    BY <1>6 DEF Cosas
  <2> QED
    BY <1>1, <1>5, <2>1, ArchivosIguales
<1> QED
  BY <1>5, <1>6, <1>7, <1>8, <1>9

(* F_CLOSE of a file the process has not opened changes nothing.           *)
LEMMA PasoCerrarAjeno ==
  ASSUME Comun, Repartidos, NEW p \in PROCESOS, NEW f \in ARCHIVOS,
         Cerrar(p, f), IndiceArchivo(p, f) = 0
  PROVE  /\ TablaTipos' /\ EnUnaCola' /\ Suelto' /\ Repartidos'
         /\ UNCHANGED archivosVars
         /\ \A g \in Cosas : ColaDe(g)' = ColaDe(g)
<1> USE DEF Comun
<1>1. UNCHANGED <<cola_bloqueados, fin, READY, RUNNING, tabla_archivos,
                  sin_cerrar, archivos_abiertos>>
  BY DEF Cerrar, recursosVars
<1>2. \A d \in Cosas : ColaDe(d)' = ColaDe(d)
  BY <1>1, ColasIguales
<1>3. EnUnaCola' /\ Suelto'
  <2>1. EnManos' \subseteq EnManos \union {NULO}
    BY <1>1 DEF EnManos
  <2> QED
    BY <1>1, <1>2, <2>1, ColasQuietas DEF Suelto
<1>4. TablaTipos'
  BY <1>1 DEF TablaTipos
<1>5. Repartidos'
  <2>1. \A g \in ARCHIVOS : ColaDe(g)' = ColaDe(g)
    BY <1>2 DEF Cosas
  <2> QED
    BY <1>1, <2>1, ArchivosIguales
<1> QED
  BY <1>1, <1>2, <1>3, <1>4, <1>5 DEF archivosVars

(* The files stay as they are while the resources move.                    *)
LEMMA PasoRecursosArchivos ==
  ASSUME Comun, Repartidos, Pasos, UNCHANGED archivosVars
  PROVE  /\ TablaTipos' /\ EnUnaCola' /\ Suelto' /\ Repartidos'
         /\ \A g \in ARCHIVOS : ColaDe(g)' = ColaDe(g)
<1> USE DEF Comun
<1>1. UNCHANGED <<tabla_archivos, sin_cerrar, archivos_abiertos>>
  BY DEF archivosVars
<1>2. \A g \in ARCHIVOS : ColaDe(g)' = ColaDe(g)
  BY <1>1, ColaDeArchivo, ColaDeArchivoPrima
<1>3. Repartidos'
  BY <1>1, <1>2, ArchivosIguales
<1>4. EnUnaCola' /\ Suelto'
  BY <1>1, PasosEspera DEF Next
<1> QED
  BY <1>1, <1>2, <1>3, <1>4 DEF TablaTipos

(* A process ends with the files it has: nobody is told, and the table     *)
(* keeps them without an owner.                                            *)
LEMMA PasoFinConArchivos ==
  ASSUME Comun, Repartidos, FinConArchivos
  PROVE  /\ TablaTipos' /\ EnUnaCola' /\ Suelto' /\ Repartidos'
         /\ fin.pid \in PROCESOS /\ fin.pid \in EnManos
         /\ \A g \in Cosas : ColaDe(g)' = ColaDe(g)
         /\ UNCHANGED tabla_archivos
         /\ \A g \in ARCHIVOS, o \in PROCESOS \ {fin.pid} :
              TieneUnoMas(g, o) => TieneUnoMas(g, o)'
         /\ \A g \in ARCHIVOS :
              g \in sin_cerrar' <=>
                \/ g \in sin_cerrar
                \/ g \in DOMAIN tabla_archivos /\ TieneUnoMas(g, fin.pid)
<1> USE DEF Comun
<1>1. /\ FinListo /\ UNCHANGED <<tabla_archivos, cola_bloqueados, READY, RUNNING>>
      /\ fin' = SinFin
      /\ archivos_abiertos' = [archivos_abiertos EXCEPT ![fin.pid] = <<>>]
      /\ sin_cerrar' = sin_cerrar \union
             {a.nombre : a \in ToSet(archivos_abiertos[fin.pid])}
  BY DEF FinConArchivos, FinListo
<1>2. fin \in EnExterno /\ fin # SinFin
  BY <1>1 DEF FinListo, DeRecursos, Tipos, SinFin, EnInterno, EnCaido
<1>3. fin.pid \in PROCESOS /\ fin.pid \in EnManos
  BY <1>2 DEF EnExterno, EnManos
<1>4. PICK p \in PROCESOS : p = fin.pid
  BY <1>3
<1>5. <<>> \in Abiertas /\ DOMAIN <<>> = {} /\ <<>> \in Seq(PROCESOS)
  BY DEF Abiertas
<1>6. /\ archivos_abiertos' \in [PROCESOS -> Abiertas]
      /\ archivos_abiertos'[p] = <<>>
      /\ \A q \in PROCESOS : q # p => archivos_abiertos'[q] = archivos_abiertos[q]
  BY <1>1, <1>4, <1>5 DEF TablaTipos
<1>7. \A g \in Cosas : ColaDe(g)' = ColaDe(g)
  BY <1>1, ColasIguales
<1>8. \A g \in ARCHIVOS : g \in Cosas
  BY DEF Cosas
<1>9. EnUnaCola' /\ Suelto'
  <2>1. EnManos' \subseteq EnManos \union {NULO}
    BY <1>1 DEF EnManos
  <2> QED
    BY <1>1, <1>7, <2>1, ColasQuietas DEF Suelto
<1>10. \A g \in ARCHIVOS :
         (\E a \in ToSet(archivos_abiertos[p]) : a.nombre = g) <=>
           Cuantos(archivos_abiertos[p], g) # 0
  <2> DEFINE s == archivos_abiertos[p]
  <2>1. ToSet(s) = {s[j] : j \in DOMAIN s}
    BY DEF ToSet
  <2> HIDE DEF s
  <2>2. \A g \in ARCHIVOS :
          Cuantos(s, g) = 0 <=> \A j \in DOMAIN s : s[j].nombre # g
    BY AbiertosCuentan DEF s
  <2>3. \A g \in ARCHIVOS :
          (\E a \in ToSet(s) : a.nombre = g) <=> Cuantos(s, g) # 0
    BY <2>1, <2>2
  <2> QED
    BY <2>3 DEF s
<1>11. \A g \in ARCHIVOS : g \in sin_cerrar' <=>
         g \in sin_cerrar \/ Cuantos(archivos_abiertos[p], g) # 0
  <2>1. \A g \in ARCHIVOS : g \in sin_cerrar' <=>
          g \in sin_cerrar \/ \E a \in ToSet(archivos_abiertos[p]) : a.nombre = g
    BY <1>1, <1>4
  <2> QED
    BY <1>10, <2>1
<1>12. ASSUME NEW g \in ARCHIVOS
       PROVE  /\ EnCola(p, g) = 0 /\ EnCola(p, g)' = 0
              /\ Cuantos(archivos_abiertos[p], g) # 0 =>
                   /\ g \in DOMAIN tabla_archivos \ sin_cerrar
                   /\ TieneUnoMas(g, p)
                   /\ Cuantos(archivos_abiertos[p], g) = 1
              /\ TieneUnoMas(g, p) => Cuantos(archivos_abiertos[p], g) # 0
  <2>1. EnCola(p, g) = 0
    BY <1>3, <1>4, <1>8, QuienEstaNoEspera
  <2>2. EnCola(p, g)' = 0
    BY <1>7, <1>8, <2>1 DEF EnCola
  <2>3. TieneUnoMas(g, p) => Cuantos(archivos_abiertos[p], g) = 0 + 1
    BY <2>1 DEF TieneUnoMas
  <2> QED
    BY <1>3, <1>4, <2>1, <2>2, <2>3, QuienCorreEsDuenio
<1>13. \A g \in ARCHIVOS, q \in PROCESOS :
         /\ EnCola(q, g)' = EnCola(q, g)
         /\ Cuantos(archivos_abiertos[q], g)' =
              IF q = p THEN 0 ELSE Cuantos(archivos_abiertos[q], g)
  <2> TAKE g \in ARCHIVOS, q \in PROCESOS
  <2>1. EnCola(q, g)' = EnCola(q, g)
    BY <1>7, <1>8 DEF EnCola
  <2>2. Cuantos(archivos_abiertos[q], g)' = Cuantos(archivos_abiertos'[q], g)
    BY DEF Cuantos, Nombres
  <2>3. Cuantos(<<>>, g) = 0
    <3>1. Nombres(<<>>) \in Seq(ARCHIVOS) /\ Len(Nombres(<<>>)) = 0
      BY <1>5, NombresTipo
    <3>2. DOMAIN Nombres(<<>>) = {}
      BY <3>1
    <3> QED
      BY <3>1, <3>2, AparicionesFinitas DEF Cuantos
  <2>4. CASE q = p
    BY <1>6, <2>1, <2>2, <2>3, <2>4
  <2>5. CASE q # p
    BY <1>6, <2>1, <2>2, <2>5
  <2> QED
    BY <2>4, <2>5
<1>14. ASSUME NEW g \in ARCHIVOS, NEW o, o # p, TieneUnoMas(g, o)
       PROVE  TieneUnoMas(g, o)'
  <2> SUFFICES ASSUME NEW q \in PROCESOS
               PROVE  Cuantos(archivos_abiertos[q], g)' =
                        EnCola(q, g)' + IF q = o THEN 1 ELSE 0
    BY DEF TieneUnoMas
  <2>1. Cuantos(archivos_abiertos[q], g) = EnCola(q, g) + IF q = o THEN 1 ELSE 0
    BY <1>14 DEF TieneUnoMas
  <2>2. CASE q = p
    BY <1>12, <1>13, <1>14, <2>2
  <2>3. CASE q # p
    BY <1>13, <2>1, <2>3
  <2> QED
    BY <2>2, <2>3
<1>15. TablaTipos'
  <2>1. {a.nombre : a \in ToSet(archivos_abiertos[p])} \subseteq DOMAIN tabla_archivos
    <3> SUFFICES ASSUME NEW a \in ToSet(archivos_abiertos[p])
                 PROVE  a.nombre \in DOMAIN tabla_archivos
      OBVIOUS
    <3>1. a \in Abierto
      <4>1. archivos_abiertos[p] \in Seq(Abierto)
        BY DEF TablaTipos, Abiertas
      <4> QED
        BY <4>1 DEF ToSet
    <3>2. a.nombre \in ARCHIVOS
      BY <3>1 DEF Abierto
    <3> QED
      BY <1>10, <1>12, <3>2
  <2> QED
    BY <1>1, <1>4, <1>6, <2>1 DEF TablaTipos
<1>16. ASSUME NEW g \in ARCHIVOS, TieneUnoMas(g, p)
       PROVE  TieneUnoMas(g, NULO)'
  <2> SUFFICES ASSUME NEW q \in PROCESOS
               PROVE  Cuantos(archivos_abiertos[q], g)' =
                        EnCola(q, g)' + IF q = NULO THEN 1 ELSE 0
    BY DEF TieneUnoMas
  <2>1. Cuantos(archivos_abiertos[q], g) = EnCola(q, g) + IF q = p THEN 1 ELSE 0
    BY <1>16 DEF TieneUnoMas
  <2>2. q # NULO
    BY SupuestoRecursos
  <2>3. CASE q = p
    BY <1>12, <1>13, <2>2, <2>3
  <2>4. CASE q # p
    BY <1>13, <2>1, <2>2, <2>4
  <2> QED
    BY <2>3, <2>4
<1>17. Repartidos'
  <2> SUFFICES ASSUME NEW g \in ARCHIVOS
               PROVE  IF g \in DOMAIN tabla_archivos' \ sin_cerrar'
                        THEN \E o \in PROCESOS : TieneUnoMas(g, o)'
                        ELSE TieneUnoMas(g, NULO)'
    BY DEF Repartidos
  <2>1. CASE Cuantos(archivos_abiertos[p], g) # 0
    BY <1>11, <1>12, <1>16, <2>1
  <2>2. CASE Cuantos(archivos_abiertos[p], g) = 0
    <3>1. g \in DOMAIN tabla_archivos' \ sin_cerrar' <=>
            g \in DOMAIN tabla_archivos \ sin_cerrar
      BY <1>1, <1>11, <2>2
    <3>2. CASE g \in DOMAIN tabla_archivos \ sin_cerrar
      <4>1. PICK o \in PROCESOS : TieneUnoMas(g, o)
        BY <3>2 DEF Repartidos
      <4>2. o # p
        BY <1>12, <2>2, <4>1
      <4> QED
        BY <1>14, <3>1, <3>2, <4>1, <4>2
    <3>3. CASE g \notin DOMAIN tabla_archivos \ sin_cerrar
      <4>1. TieneUnoMas(g, NULO) /\ NULO # p
        BY <3>3, SupuestoRecursos DEF Repartidos
      <4> QED
        BY <1>14, <3>1, <3>3, <4>1
    <3> QED
      BY <3>2, <3>3
  <2> QED
    BY <2>1, <2>2
<1>18. \A g \in ARCHIVOS, o \in PROCESOS \ {fin.pid} :
         TieneUnoMas(g, o) => TieneUnoMas(g, o)'
  BY <1>4, <1>14
<1>19. \A g \in ARCHIVOS :
         g \in sin_cerrar' <=>
           \/ g \in sin_cerrar
           \/ g \in DOMAIN tabla_archivos /\ TieneUnoMas(g, fin.pid)
  BY <1>4, <1>11, <1>12
<1> QED
  BY <1>1, <1>3, <1>7, <1>9, <1>15, <1>17, <1>18, <1>19

-----------------------------------------------------------------------------
(* The files' calls leave the resources alone and the processes' state     *)
(* well typed.                                                             *)
LEMMA ArchivosRecursos ==
  ASSUME Comun, NEW p \in PROCESOS, NEW f \in ARCHIVOS,
         \/ AbrirLibre(p, f) \/ AbrirTomado(p, f) \/ Cerrar(p, f)
         \/ \E n \in POSICIONES : CambiarPuntero(p, f, n)
  PROVE  DeRecursos' /\ Turno'
<1> USE DEF Comun
<1>1. /\ UNCHANGED recursosVars /\ Llamada(p)
      /\ RUNNING' \in {RUNNING, NULO}
  BY DEF AbrirLibre, AbrirTomado, Cerrar, CambiarPuntero, DejarCPU
<1>2. DeRecursos'
  BY <1>1, RecursosQuietos DEF recursosVars
<1>3. READY' \subseteq PROCESOS
  <2>1. CASE UNCHANGED READY
    BY <2>1 DEF Turno
  <2>2. ASSUME f \in DOMAIN tabla_archivos, tabla_archivos[f] # <<>>,
               READY' = READY \union {Head(tabla_archivos[f])}
        PROVE  READY' \subseteq PROCESOS
    <3>1. tabla_archivos[f] \in Seq(PROCESOS)
      BY <2>2 DEF TablaTipos
    <3>2. Head(tabla_archivos[f]) \in PROCESOS
      BY <2>2, <3>1
    <3> QED
      BY <2>2, <3>2 DEF Turno
  <2> QED
    BY <2>1, <2>2 DEF AbrirLibre, AbrirTomado, Cerrar, CambiarPuntero, Entregar
<1>4. llamadas' \in [PROCESOS -> 0..LARGO_PROGRAMA]
  BY <1>1, LlamadaCuenta
<1> QED
  BY <1>1, <1>2, <1>3, <1>4 DEF Turno, recursosVars

(* Init: the table is empty.                                               *)
LEMMA InicioTabla == InitTabla => Comun /\ Repartidos
<1> SUFFICES ASSUME InitTabla PROVE Comun /\ Repartidos
  OBVIOUS
<1> USE DEF InitTabla
<1>1. DeRecursos /\ Turno
  BY InicioRecursos
<1>2. /\ tabla_archivos = [f \in {} |-> <<>>] /\ sin_cerrar = {}
      /\ archivos_abiertos = [p \in PROCESOS |-> <<>>]
      /\ cola_bloqueados = [r \in RECURSOS |-> <<>>]
      /\ READY = PROCESOS /\ RUNNING = NULO
  BY DEF Init
<1>3. <<>> \in Abiertas /\ DOMAIN <<>> = {} /\ <<>> \in Seq(PROCESOS)
  BY DEF Abiertas
<1>4. TablaTipos
  BY <1>2, <1>3 DEF TablaTipos
<1>5. \A c \in Cosas : ColaDe(c) = <<>>
  BY <1>2 DEF Cosas, ColaDe
<1>6. \A p \in PROCESOS, c \in Cosas : EnCola(p, c) = 0
  <2>1. \A p : CuantasVeces(<<>>, p) = 0
    BY <1>3, AparicionesFinitas
  <2> QED
    BY <1>5, <2>1 DEF EnCola
<1>7. EnUnaCola /\ Suelto
  BY <1>2, <1>6, SupuestoRecursos DEF EnUnaCola, Suelto
<1>8. Repartidos
  <2> SUFFICES ASSUME NEW f \in ARCHIVOS PROVE TieneUnoMas(f, NULO)
    BY <1>2 DEF Repartidos
  <2> SUFFICES ASSUME NEW q \in PROCESOS
               PROVE  Cuantos(archivos_abiertos[q], f) =
                        EnCola(q, f) + IF q = NULO THEN 1 ELSE 0
    BY DEF TieneUnoMas
  <2>1. Cuantos(archivos_abiertos[q], f) = 0
    BY <1>2, <1>3, <1>4, AbiertosCuentan
  <2>2. q # NULO /\ f \in Cosas
    BY SupuestoRecursos DEF Cosas
  <2> QED
    BY <1>6, <2>1, <2>2
<1> QED
  BY <1>1, <1>4, <1>7, <1>8 DEF Comun

(* Every step keeps the invariant of the table.                            *)
LEMMA PasoTabla ==
  ASSUME Comun, Repartidos, [NextTabla]_varsTabla
  PROVE  Comun' /\ Repartidos'
<1>1. CASE Pasos /\ UNCHANGED archivosVars
  BY <1>1, PasoRecursos, PasoRecursosArchivos DEF Comun, Next
<1>2. CASE FinConArchivos
  <2>1. FinListo
    BY <1>2 DEF FinConArchivos
  <2> QED
    BY <1>2, <2>1, PasoRecursos, PasoFinConArchivos DEF Comun, Next
<1>3. ASSUME NEW p \in PROCESOS, NEW f \in ARCHIVOS,
             \/ AbrirLibre(p, f) \/ AbrirTomado(p, f) \/ Cerrar(p, f)
             \/ \E n \in POSICIONES : CambiarPuntero(p, f, n)
      PROVE  Comun' /\ Repartidos'
  <2>1. DeRecursos' /\ Turno'
    BY <1>3, ArchivosRecursos
  <2>2. CASE AbrirLibre(p, f)
    BY <2>1, <2>2, PasoAbrirLibre DEF Comun
  <2>3. CASE AbrirTomado(p, f)
    BY <2>1, <2>3, PasoAbrirTomado DEF Comun
  <2>4. CASE Cerrar(p, f)
    <3>1. CASE IndiceArchivo(p, f) = 0
      BY <2>1, <2>4, <3>1, PasoCerrarAjeno DEF Comun
    <3>2. CASE IndiceArchivo(p, f) # 0
      BY <2>1, <2>4, <3>2, PasoCerrar DEF Comun
    <3> QED
      BY <3>1, <3>2
  <2>5. ASSUME NEW n \in POSICIONES, CambiarPuntero(p, f, n)
        PROVE  Comun' /\ Repartidos'
    BY <2>1, <2>5, PasoMover DEF Comun
  <2> QED
    BY <1>3, <2>2, <2>3, <2>4, <2>5
<1>4. CASE UNCHANGED varsTabla
  <2>1. UNCHANGED <<instancias_disponibles, cola_bloqueados, recursos_asignados,
                    READY, RUNNING, fin, llamadas, regalos, tabla_archivos,
                    archivos_abiertos, sin_cerrar>>
    BY <1>4 DEF varsTabla, vars, archivosVars
  <2>2. DeRecursos' /\ Turno'
    BY <2>1, RecursosQuietos DEF Comun, Turno
  <2>3. \A c \in Cosas : ColaDe(c)' = ColaDe(c)
    BY <2>1, ColasIguales
  <2>4. EnUnaCola' /\ Suelto'
    <3>1. EnManos' \subseteq EnManos \union {NULO}
      BY <2>1 DEF EnManos
    <3> QED
      BY <2>1, <2>3, <3>1, ColasQuietas DEF Comun, Suelto
  <2>5. Repartidos'
    <3>1. \A g \in ARCHIVOS : ColaDe(g)' = ColaDe(g)
      BY <2>3 DEF Cosas
    <3> QED
      BY <2>1, <3>1, ArchivosIguales
  <2>6. TablaTipos'
    BY <2>1 DEF Comun, TablaTipos
  <2> QED
    BY <2>2, <2>4, <2>5, <2>6 DEF Comun
<1> QED
  BY <1>1, <1>2, <1>3, <1>4 DEF NextTabla

(* Who the owner is: the one with the file once more than he waits for it. *)
LEMMA QuienEsDuenio ==
  ASSUME Comun, Repartidos, NEW f \in ARCHIVOS, NEW o, TieneUnoMas(f, o),
         NEW p \in PROCESOS
  PROVE  Duenio(p, f) <=> p = o
<1>1. f \in Cosas
  BY DEF Cosas
<1>2. /\ EnCola(p, f) \in Nat
      /\ EsperaPor(p, f) <=> EnCola(p, f) # 0
  BY <1>1, ColasTipo DEF Comun, DeRecursos
<1>3. EnCola(p, f) # 0 => EnCola(p, f) = 1
  BY <1>1 DEF Comun, EnUnaCola
<1>4. Abiertos(p, f) = EnCola(p, f) + IF p = o THEN 1 ELSE 0
  BY AbiertosCuentan DEF TieneUnoMas, Comun
<1> QED
  BY <1>2, <1>3, <1>4 DEF Duenio

(* The parts of the invariant say what the runs check.                     *)
LEMMA TablaDicen ==
  ASSUME Comun, Repartidos
  PROVE  /\ TypeOKTabla /\ ColaExacta /\ CaidaConTres
         /\ EsperaUnaCosa /\ UnDuenio
<1> USE DEF Comun
<1>1. TypeOK /\ CaidaConTres
  BY TiposDe
<1>2. TypeOKTabla
  BY <1>1 DEF TypeOKTabla, TablaTipos, Abiertas, Abierto
<1>3. ColaExacta
  BY DEF DeRecursos
<1>4. EsperaUnaCosa
  <2> SUFFICES ASSUME NEW p \in PROCESOS, NEW c \in Cosas, EsperaPor(p, c)
               PROVE  /\ p \notin READY \union {RUNNING}
                      /\ fin.paso # "no" => p # fin.pid
                      /\ Cardinality({i \in DOMAIN ColaDe(c) :
                                        ColaDe(c)[i] = p}) = 1
                      /\ \A d \in Cosas \ {c} : ~EsperaPor(p, d)
    BY DEF EsperaUnaCosa
  <2>1. \A d \in Cosas : EsperaPor(p, d) <=> EnCola(p, d) # 0
    BY ColasTipo DEF DeRecursos
  <2>2. /\ EnCola(p, c) = 1 /\ p \notin EnManos
        /\ \A d \in Cosas \ {c} : EnCola(p, d) = 0
    BY <2>1 DEF EnUnaCola
  <2>3. fin.paso # "no" => fin # SinFin
    BY DEF SinFin
  <2>4. Cardinality({i \in DOMAIN ColaDe(c) : ColaDe(c)[i] = p}) = 1
    BY <2>2 DEF EnCola, CuantasVeces, Apariciones
  <2> QED
    BY <2>1, <2>2, <2>3, <2>4 DEF EnManos
<1>5. UnDuenio
  <2> SUFFICES ASSUME NEW f \in ARCHIVOS
               PROVE  Cardinality({p \in PROCESOS : Duenio(p, f)}) =
                        IF f \in DOMAIN tabla_archivos \ sin_cerrar THEN 1 ELSE 0
    BY DEF UnDuenio
  <2>1. CASE f \in DOMAIN tabla_archivos \ sin_cerrar
    <3>1. PICK o \in PROCESOS : TieneUnoMas(f, o)
      BY <2>1 DEF Repartidos
    <3>2. {p \in PROCESOS : Duenio(p, f)} = {o}
      BY <3>1, QuienEsDuenio
    <3> QED
      BY <2>1, <3>2, FS_Singleton
  <2>2. CASE f \notin DOMAIN tabla_archivos \ sin_cerrar
    <3>1. TieneUnoMas(f, NULO) /\ NULO \notin PROCESOS
      BY <2>2, SupuestoRecursos DEF Repartidos
    <3>2. {p \in PROCESOS : Duenio(p, f)} = {}
      BY <3>1, QuienEsDuenio
    <3> QED
      BY <2>2, <3>2, FS_EmptySet
  <2> QED
    BY <2>1, <2>2
<1> QED
  BY <1>1, <1>2, <1>3, <1>4, <1>5

-----------------------------------------------------------------------------
(* The inductive invariant of the table together with the resources.       *)
THEOREM InvarianteTabla == SpecTabla => [](Comun /\ Repartidos)
<1>1. InitTabla => Comun /\ Repartidos
  BY InicioTabla
<1>2. Comun /\ Repartidos /\ [NextTabla]_varsTabla => (Comun /\ Repartidos)'
  BY PasoTabla
<1> QED
  BY <1>1, <1>2, PTL DEF SpecTabla

(* The type invariant of the table and of the resources.                   *)
THEOREM TipoCorrectoTabla == SpecTabla => []TypeOKTabla
<1>1. Comun /\ Repartidos => TypeOKTabla
  BY TablaDicen
<1> QED
  BY <1>1, InvarianteTabla, PTL

(* core.c:218-226 and 266-283: a resource's count is negative by exactly   *)
(* the number of processes in its queue, for any number of processes,      *)
(* resources and instances.                                                *)
THEOREM CuentaDeCola == SpecTabla => []ColaExacta
<1>1. Comun /\ Repartidos => ColaExacta
  BY TablaDicen
<1> QED
  BY <1>1, InvarianteTabla, PTL

(* core.c:142: the loop falls past the end of the list only for a process  *)
(* that ends with three resources or more, whatever their instances.       *)
THEOREM CaidaSoloConTres == SpecTabla => []CaidaConTres
<1>1. Comun /\ Repartidos => CaidaConTres
  BY TablaDicen
<1> QED
  BY <1>1, InvarianteTabla, PTL

(* A process waits in one queue, once, and then nobody runs it, has it     *)
(* ready or ends it: a signal or a close cannot wake it twice.             *)
THEOREM EsperaEnUnLugar == SpecTabla => []EsperaUnaCosa
<1>1. Comun /\ Repartidos => EsperaUnaCosa
  BY TablaDicen
<1> QED
  BY <1>1, InvarianteTabla, PTL

(* core.c:405-497: a file in the table has exactly one owner, or none once *)
(* its owner has ended with it open.                                       *)
THEOREM DuenioUnico == SpecTabla => []UnDuenio
<1>1. Comun /\ Repartidos => UnDuenio
  BY TablaDicen
<1> QED
  BY <1>1, InvarianteTabla, PTL

-----------------------------------------------------------------------------
(* The processes that wait for a resource are as many as its queue is      *)
(* long, because each of them is in it once.                               *)
LEMMA EnEspera ==
  ASSUME Comun, NEW r \in RECURSOS
  PROVE  Cardinality({p \in PROCESOS : Espera(p, r)}) = Len(cola_bloqueados[r])
<1> DEFINE W == {p \in PROCESOS : Espera(p, r)}
<1>1. PICK s \in Seq(PROCESOS) : s = cola_bloqueados[r]
  BY DEF Comun, DeRecursos, Tipos
<1>2. Len(s) \in Nat /\ DOMAIN s = 1..Len(s)
  OBVIOUS
<1>3. r \in Cosas /\ ColaDe(r) = s
  BY <1>1 DEF Cosas, ColaDe
<1>4. \A i \in 1..Len(s) : s[i] \in W
  <2> TAKE i \in 1..Len(s)
  <2>1. s[i] \in PROCESOS /\ s[i] \in ToSet(s)
    BY <1>2 DEF ToSet
  <2> QED BY <1>1, <2>1 DEF Espera
<1>5. \A p \in W : \E i \in 1..Len(s) : s[i] = p
  BY <1>1, <1>2 DEF Espera, ToSet
<1>6. ASSUME NEW i \in 1..Len(s), NEW j \in 1..Len(s), s[i] = s[j]
      PROVE  i = j
  <2>1. PICK p \in PROCESOS : p = s[i]
    BY <1>2
  <2>2. i \in Apariciones(s, p) /\ j \in Apariciones(s, p)
    BY <1>2, <1>6, <2>1 DEF Apariciones
  <2>3. IsFiniteSet(Apariciones(s, p)) /\ CuantasVeces(s, p) \in Nat
    BY AparicionesFinitas
  <2>4. Apariciones(s, p) # {}
    BY <2>2
  <2>5. EnCola(p, r) # 0
    BY <1>3, <2>3, <2>4, FS_EmptySet DEF EnCola, CuantasVeces
  <2>6. Cardinality(Apariciones(s, p)) = 1
    BY <1>3, <2>5 DEF Comun, EnUnaCola, EnCola, CuantasVeces
  <2>7. PICK x : Apariciones(s, p) = {x}
    BY <2>3, <2>6, FS_Singleton
  <2> QED BY <2>2, <2>7
<1> DEFINE f == [i \in 1..Len(s) |-> s[i]]
<1>7. ExistsBijection(1..Len(s), W)
  <2> HIDE DEF W
  <2>1. f \in [1..Len(s) -> W]
    BY <1>4
  <2>2. \A i, j \in 1..Len(s) : f[i] = f[j] => i = j
    BY <1>6
  <2>3. \A p \in W : \E i \in 1..Len(s) : f[i] = p
    BY <1>5
  <2> HIDE DEF f
  <2>4. f \in Bijection(1..Len(s), W)
    BY <2>1, <2>2, <2>3, Fun_IsBij
  <2> QED BY <2>4 DEF ExistsBijection
<1>8. IsFiniteSet(1..Len(s)) /\ Cardinality(1..Len(s)) = Len(s)
  BY <1>2, FS_Interval
<1> HIDE DEF W
<1>9. Cardinality(W) = Cardinality(1..Len(s))
  BY <1>7, <1>8, FS_Bijection
<1> QED
  BY <1>1, <1>8, <1>9 DEF W

(* What satisfies the recursion of a sum of numbers is one.                *)
LEMMA SumaTipada ==
  ASSUME NEW g \in [PROCESOS -> Int], NEW it,
         \E h : it = [s \in SUBSET PROCESOS |-> h[s]],
         \A s \in SUBSET PROCESOS : it[s] = PasoDeSuma(it, s, g, Primero)
  PROVE  EsSuma(it, g, PROCESOS, Primero)
<1> DEFINE B == {s \in SUBSET PROCESOS : it[s] \in Int}
<1>1. {} \in B
  <2>1. it[{}] = PasoDeSuma(it, {}, g, Primero)
    OBVIOUS
  <2> QED BY <2>1 DEF PasoDeSuma
<1>2. ASSUME NEW s \in SUBSET PROCESOS, s # {}, \A x \in s : s \ {x} \in B
      PROVE  s \in B
  <2>1. PICK c \in s : c = Primero[s]
    BY <1>2, PrimeroElige DEF Elige
  <2>2. it[s] = g[c] + it[s \ {c}] /\ it[s \ {c}] \in Int /\ g[c] \in Int
    BY <1>2, <2>1 DEF PasoDeSuma
  <2> QED BY <2>2
<1> HIDE DEF B
<1>3. \A s \in SUBSET PROCESOS : s \in B
  <2>1. B \in SUBSET SUBSET PROCESOS
    BY DEF B
  <2> QED BY <1>1, <1>2, <2>1, SupuestoProcesos, InduccionConjuntos
<1> QED
  BY <1>3 DEF B, EsSuma

(* The instances of r in the hands of processes that do not wait for them. *)
Poseidas(r) ==
  MapThenSumSet(LAMBDA p : Asignadas(p, r) - (IF Espera(p, r) THEN 1 ELSE 0),
                PROCESOS)

(* The sum of the property is the one that the lemmas are about.           *)
LEMMA SumaDeLaPropiedad ==
  ASSUME NEW r,
         NEW g, g = [p \in PROCESOS |->
                       Asignadas(p, r) - (IF Espera(p, r) THEN 1 ELSE 0)],
         g \in [PROCESOS -> Int]
  PROVE  \E it : /\ EsSuma(it, g, PROCESOS, Primero)
                 /\ Poseidas(r) = it[PROCESOS]
<1> DEFINE Sigue(h, s) ==
             IF s = {} THEN 0
             ELSE (Asignadas(CHOOSE x \in s : TRUE, r)
                     - (IF Espera(CHOOSE x \in s : TRUE, r) THEN 1 ELSE 0))
                  + h[s \ {CHOOSE x \in s : TRUE}]
           it == CHOOSE h : h = [s \in SUBSET PROCESOS |-> Sigue(h, s)]
<1>1. Poseidas(r) = it[PROCESOS]
  BY DEF Poseidas, MapThenSumSet, MapThenFoldSet
<1>2. ASSUME NEW h, NEW s \in SUBSET PROCESOS
      PROVE  Sigue(h, s) = PasoDeSuma(h, s, g, Primero)
  <2>1. CASE s = {}
    BY <2>1 DEF PasoDeSuma
  <2>2. CASE s # {}
    <3>1. PICK c : c = CHOOSE x \in s : TRUE
      OBVIOUS
    <3>2. c \in s
      BY <2>2, <3>1
    <3>3. Primero[s] = c
      BY <3>1 DEF Primero
    <3>4. Sigue(h, s) = (Asignadas(c, r) - (IF Espera(c, r) THEN 1 ELSE 0))
                          + h[s \ {c}]
      BY <2>2, <3>1
    <3>5. g[c] = Asignadas(c, r) - (IF Espera(c, r) THEN 1 ELSE 0)
      BY <3>2
    <3> HIDE DEF Sigue
    <3> QED BY <2>2, <3>3, <3>4, <3>5 DEF PasoDeSuma
  <2> QED BY <2>1, <2>2
<1> HIDE DEF it
<1>3. PICK jt : EsSuma(jt, g, PROCESOS, Primero)
  BY PrimeroElige, SupuestoProcesos, SumaExiste
<1>4. jt = [s \in SUBSET PROCESOS |-> Sigue(jt, s)]
  <2>1. \A s \in SUBSET PROCESOS : jt[s] = Sigue(jt, s)
    <3> HIDE DEF Sigue
    <3> QED BY <1>2, <1>3 DEF EsSuma
  <2> HIDE DEF Sigue
  <2> QED BY <1>3, <2>1 DEF EsSuma
<1>5. it = [s \in SUBSET PROCESOS |-> Sigue(it, s)]
  <2> HIDE DEF Sigue
  <2> QED BY <1>4 DEF it
<1>6. \A s \in SUBSET PROCESOS : it[s] = PasoDeSuma(it, s, g, Primero)
  <2> HIDE DEF Sigue
  <2> QED BY <1>2, <1>5
<1> HIDE DEF Sigue
<1>7. EsSuma(it, g, PROCESOS, Primero)
  <2>1. \E h : it = [s \in SUBSET PROCESOS |-> h[s]]
    BY <1>5
  <2> QED BY <1>6, <2>1, SumaTipada
<1> QED
  BY <1>1, <1>7

(* Who waits has been noted the instance he waits for; the rest are at     *)
(* most the configuration's and those that came from nowhere.              *)
LEMMA CuentaExcluye ==
  ASSUME Comun, Cuenta
  PROVE  Exclusion
<1> SUFFICES ASSUME NEW r \in RECURSOS
             PROVE  Poseidas(r) <= INSTANCIAS[r] + regalos[r]
  BY DEF Exclusion, Poseidas
<1>1. PICK f : f = DeTodos(r)
  OBVIOUS
<1>2. PICK it : /\ EsSuma(it, f, PROCESOS, Primero)
                /\ instancias_disponibles[r] + it[PROCESOS]
                     <= INSTANCIAS[r] + regalos[r]
  BY <1>1 DEF Cuenta
<1>3. f \in [PROCESOS -> Int]
  BY <1>1, DeTodosTipo DEF DeTodosSonNumeros, Comun, DeRecursos
<1>4. PICK W \in SUBSET PROCESOS : W = {p \in PROCESOS : Espera(p, r)}
  OBVIOUS
<1>5. PICK g : g = [p \in PROCESOS |->
                      Asignadas(p, r) - (IF Espera(p, r) THEN 1 ELSE 0)]
  OBVIOUS
<1>6. ASSUME NEW p \in PROCESOS
      PROVE  /\ g[p] = f[p] - (IF p \in W THEN 1 ELSE 0)
             /\ f[p] \in Int
  <2>1. Asignadas(p, r) = f[p]
    <3>1. Indice(p, r) = PorNombre(recursos_asignados[p], r)
      BY IndiceEs
    <3> QED BY <1>1, <3>1 DEF Asignadas, DeTodos, Notadas
  <2>2. g[p] = Asignadas(p, r) - (IF Espera(p, r) THEN 1 ELSE 0)
    BY <1>5
  <2>3. p \in W <=> Espera(p, r)
    BY <1>4
  <2> QED BY <1>3, <2>1, <2>2, <2>3
<1>7. g \in [PROCESOS -> Int]
  <2>1. \A p \in PROCESOS : g[p] \in Int
    BY <1>6
  <2> QED BY <1>5, <2>1
<1>8. PICK jt : /\ EsSuma(jt, g, PROCESOS, Primero)
                /\ Poseidas(r) = jt[PROCESOS]
  BY <1>5, <1>7, SumaDeLaPropiedad
<1>9. jt[PROCESOS] = it[PROCESOS] - Cardinality(W)
  <2>1. \A p \in PROCESOS : g[p] = f[p] - (IF p \in W THEN 1 ELSE 0)
    BY <1>6
  <2> QED
    BY ONLY <1>2, <1>3, <1>7, <1>8, <2>1, PrimeroElige, SupuestoProcesos,
       SumaDifiere
<1>10. Cardinality(W) = Len(cola_bloqueados[r])
  BY <1>4, EnEspera
<1>11. Len(cola_bloqueados[r]) = IF instancias_disponibles[r] < 0
                                   THEN -instancias_disponibles[r] ELSE 0
  BY DEF Comun, DeRecursos, ColaExacta
<1>12. instancias_disponibles[r] \in Int /\ it[PROCESOS] \in Int
       /\ INSTANCIAS[r] \in Nat /\ regalos[r] \in Nat
  <2>1. it[PROCESOS] \in Int
    BY <1>2 DEF EsSuma
  <2> QED BY <2>1, SupuestoRecursos DEF Comun, DeRecursos, Tipos, Turno
<1>13. jt[PROCESOS] <= INSTANCIAS[r] + regalos[r]
  BY <1>2, <1>9, <1>10, <1>11, <1>12
<1> QED
  BY <1>8, <1>13

(* Every step of the table and the resources keeps the count.              *)
LEMMA PasoCuentaTabla ==
  ASSUME Comun, Comun', Cuenta, [NextTabla]_varsTabla
  PROVE  Cuenta'
<1>1. CASE Pasos \/ FinListo
  BY <1>1, PasoCuenta DEF Next, Comun
<1>2. ASSUME UNCHANGED recursosVars PROVE Cuenta'
  BY <1>2, CuentaQuieta DEF recursosVars
<1>3. CASE UNCHANGED varsTabla
  BY <1>2, <1>3 DEF varsTabla, vars, recursosVars
<1>4. ASSUME NEW p \in PROCESOS, NEW f \in ARCHIVOS,
             \/ AbrirLibre(p, f) \/ AbrirTomado(p, f) \/ Cerrar(p, f)
             \/ \E n \in POSICIONES : CambiarPuntero(p, f, n)
      PROVE  Cuenta'
  BY <1>2, <1>4 DEF AbrirLibre, AbrirTomado, Cerrar, CambiarPuntero
<1> QED
  BY <1>1, <1>3, <1>4 DEF NextTabla, FinConArchivos

(* core.c:205-226 and 246-283: the instances in the hands of processes     *)
(* that are not waiting for them never exceed those of the configuration   *)
(* and one more for each SIGNAL by a process that had none, for any number *)
(* of processes, resources and instances, although a process is noted the  *)
(* instance before it has it, its end forgets some, and a signal hands one *)
(* over without looking at who gave it.                                    *)
THEOREM ExclusionMutua == SpecTabla => []Exclusion
<1>1. InitTabla => Comun /\ Cuenta
  BY InicioTabla, InicioCuenta DEF InitTabla
<1>2. Comun /\ Comun' /\ Cuenta /\ [NextTabla]_varsTabla => Cuenta'
  BY PasoCuentaTabla
<1>3. Comun /\ Cuenta => Exclusion
  BY CuentaExcluye
<1> QED
  BY <1>1, <1>2, <1>3, InvarianteTabla, PTL DEF SpecTabla

-----------------------------------------------------------------------------
(* A process that ended has nothing; whoever is neither in the kernel's    *)
(* hands nor in a queue is one.                                            *)
SinNada(p) == recursos_asignados[p] = <<>> /\ archivos_abiertos[p] = <<>>
EnAlgunLado ==
  \A p \in PROCESOS :
    p \in EnManos \/ SinNada(p) \/ \E c \in Cosas : EsperaPor(p, c)

(* Only the actor of a step changes its lists; who leaves a queue comes    *)
(* into the kernel's hands, and nobody but the actor leaves them.          *)
LEMMA EnAlgunLadoSigue ==
  ASSUME EnAlgunLado, NEW a,
         \A p \in PROCESOS : p # a =>
           /\ recursos_asignados'[p] = recursos_asignados[p]
           /\ archivos_abiertos'[p] = archivos_abiertos[p],
         a \in PROCESOS =>
           \/ a \in EnManos'
           \/ recursos_asignados'[a] = <<>> /\ archivos_abiertos'[a] = <<>>
           \/ \E c \in Cosas : EsperaPor(a, c)',
         \A p \in PROCESOS : p \in EnManos => p = a \/ p \in EnManos',
         \A p \in PROCESOS, c \in Cosas : EsperaPor(p, c) =>
           EsperaPor(p, c)' \/ p \in EnManos'
  PROVE  EnAlgunLado'
BY DEF EnAlgunLado, SinNada

(* Who is in a queue stays in it when another one comes behind him.        *)
LEMMA EnColaDetras ==
  ASSUME Tipos, TablaTipos, NEW c \in Cosas, NEW p \in PROCESOS,
         ColaDe(c)' = Append(ColaDe(c), p)
  PROVE  EsperaPor(p, c)' /\ \A q : EsperaPor(q, c) => EsperaPor(q, c)'
<1>1. PICK s \in Seq(PROCESOS) : s = ColaDe(c)
  BY ColasTipo
<1>2. PICK t : t = Append(s, p)
  OBVIOUS
<1>3. /\ DOMAIN s = 1..Len(s) /\ DOMAIN t = 1..(Len(s) + 1) /\ Len(s) \in Nat
      /\ t[Len(s) + 1] = p /\ \A i \in 1..Len(s) : t[i] = s[i]
  BY <1>2
<1>4. \A q : EsperaPor(q, c) <=> \E i \in DOMAIN s : s[i] = q
  BY <1>1 DEF EsperaPor, ToSet
<1>5. \A q : EsperaPor(q, c)' <=> \E i \in DOMAIN t : t[i] = q
  BY <1>1, <1>2 DEF EsperaPor, ToSet
<1>6. Len(s) + 1 \in DOMAIN t /\ \A i \in DOMAIN s : i \in DOMAIN t
  BY <1>3
<1> QED
  BY <1>3, <1>4, <1>5, <1>6

(* When a queue loses its head, who was in it stays, or is that one.       *)
LEMMA EnColaDelante ==
  ASSUME Tipos, TablaTipos, NEW c \in Cosas, ColaDe(c) # <<>>,
         ColaDe(c)' = Tail(ColaDe(c))
  PROVE  \A q : EsperaPor(q, c) => EsperaPor(q, c)' \/ q = Head(ColaDe(c))
<1>1. PICK s \in Seq(PROCESOS) : s = ColaDe(c)
  BY ColasTipo
<1>2. PICK t : t = Tail(s)
  OBVIOUS
<1>3. /\ DOMAIN s = 1..Len(s) /\ DOMAIN t = 1..(Len(s) - 1) /\ Len(s) \in Nat
      /\ Head(s) = s[1] /\ \A i \in 1..(Len(s) - 1) : t[i] = s[i + 1]
  BY <1>1, <1>2
<1>4. \A q : EsperaPor(q, c) <=> \E i \in DOMAIN s : s[i] = q
  BY <1>1 DEF EsperaPor, ToSet
<1>5. \A q : EsperaPor(q, c)' <=> \E i \in DOMAIN t : t[i] = q
  BY <1>1, <1>2 DEF EsperaPor, ToSet
<1>6. ASSUME NEW i \in DOMAIN s, i # 1
      PROVE  i - 1 \in DOMAIN t /\ t[i - 1] = s[i]
  <2>1. i - 1 \in 1..(Len(s) - 1) /\ (i - 1) + 1 = i
    BY <1>3, <1>6
  <2> QED BY <1>3, <2>1
<1> QED
  BY <1>1, <1>3, <1>4, <1>5, <1>6

(* The queues that stay keep who is in them.                               *)
LEMMA EnColaQuieta ==
  ASSUME NEW c, ColaDe(c)' = ColaDe(c)
  PROVE  \A q : EsperaPor(q, c) => EsperaPor(q, c)'
BY DEF EsperaPor

(* SIGNAL: the head of the queue is ready, and the actor stays in hand.    *)
LEMMA SignalEnAlgunLado ==
  ASSUME Comun, EnAlgunLado, UNCHANGED <<tabla_archivos, archivos_abiertos>>,
         NEW p \in PROCESOS, NEW r \in RECURSOS, SignalRecurso(p, r),
         p \in EnManos', UNCHANGED RUNNING,
         fin # SinFin => fin' # SinFin /\ fin'.pid = fin.pid
  PROVE  EnAlgunLado'
<1> USE DEF Comun
<1>1. \A q \in PROCESOS : q # p =>
        /\ recursos_asignados'[q] = recursos_asignados[q]
        /\ archivos_abiertos'[q] = archivos_abiertos[q]
  BY DesasignarEs DEF SignalRecurso, DeRecursos
<1>2. CASE cola_bloqueados[r] # <<>>
  <2>1. /\ cola_bloqueados' =
             [cola_bloqueados EXCEPT ![r] = Tail(cola_bloqueados[r])]
        /\ READY' = READY \union {Head(cola_bloqueados[r])}
    BY <1>2 DEF SignalRecurso
  <2>2. r \in Cosas /\ ColaDe(r) = cola_bloqueados[r]
    BY DEF Cosas, ColaDe
  <2>3. \A d \in Cosas : ColaDe(d)' = IF d = r THEN Tail(ColaDe(r))
                                               ELSE ColaDe(d)
    BY <2>1, <2>2, ColasDeRecursos DEF DeRecursos
  <2>4. EnManos \subseteq EnManos' /\ Head(ColaDe(r)) \in EnManos'
    BY <2>1, <2>2 DEF EnManos
  <2>5. ASSUME NEW q \in PROCESOS, NEW d \in Cosas, EsperaPor(q, d)
        PROVE  EsperaPor(q, d)' \/ q \in EnManos'
    <3>1. CASE d = r
      BY <1>2, <2>2, <2>3, <2>4, <2>5, <3>1, EnColaDelante DEF DeRecursos
    <3>2. CASE d # r
      BY <2>3, <2>5, <3>2, EnColaQuieta
    <3> QED BY <3>1, <3>2
  <2> QED BY <1>1, <2>4, <2>5, EnAlgunLadoSigue
<1>3. CASE cola_bloqueados[r] = <<>>
  <2>1. UNCHANGED <<cola_bloqueados, READY>>
    BY <1>3 DEF SignalRecurso
  <2>2. EnManos \subseteq EnManos'
    BY <2>1 DEF EnManos
  <2>3. \A q \in PROCESOS, d \in Cosas : EsperaPor(q, d) => EsperaPor(q, d)'
    BY <2>1, ColasIguales, EnColaQuieta
  <2> QED BY <1>1, <2>2, <2>3, EnAlgunLadoSigue
<1> QED
  BY <1>2, <1>3

(* WAIT: the actor goes to the end of a queue, or stays in hand.           *)
LEMMA WaitEnAlgunLado ==
  ASSUME Comun, EnAlgunLado, UNCHANGED <<tabla_archivos, archivos_abiertos>>,
         NEW p \in PROCESOS, NEW r \in RECURSOS, Wait(p, r)
  PROVE  EnAlgunLado'
<1> USE DEF Comun
<1>1. /\ RUNNING = p /\ fin = SinFin /\ UNCHANGED <<READY, fin>>
  BY DEF Wait, Llamada
<1>2. \A q \in PROCESOS : q # p =>
        /\ recursos_asignados'[q] = recursos_asignados[q]
        /\ archivos_abiertos'[q] = archivos_abiertos[q]
  BY DEF Wait, Asignar, DeRecursos, Tipos
<1>3. \A q \in PROCESOS : q \in EnManos => q = p \/ q \in EnManos'
  BY <1>1 DEF EnManos
<1>4. CASE Falta(r)
  <2>1. cola_bloqueados' =
          [cola_bloqueados EXCEPT ![r] = Append(cola_bloqueados[r], p)]
    BY <1>4 DEF Wait, Bloquear
  <2>2. r \in Cosas /\ ColaDe(r) = cola_bloqueados[r]
    BY DEF Cosas, ColaDe
  <2>3. \A d \in Cosas : ColaDe(d)' = IF d = r THEN Append(ColaDe(r), p)
                                               ELSE ColaDe(d)
    BY <2>1, <2>2, ColasDeRecursos DEF DeRecursos
  <2>4. EsperaPor(p, r)' /\ \A q : EsperaPor(q, r) => EsperaPor(q, r)'
    BY <2>2, <2>3, EnColaDetras DEF DeRecursos
  <2>5. \A q \in PROCESOS, d \in Cosas : EsperaPor(q, d) => EsperaPor(q, d)'
    BY <2>3, <2>4, EnColaQuieta
  <2> QED BY <1>2, <1>3, <2>2, <2>4, <2>5, EnAlgunLadoSigue
<1>5. CASE ~Falta(r)
  <2>1. UNCHANGED <<cola_bloqueados, RUNNING>>
    BY <1>5 DEF Wait
  <2>2. p \in EnManos'
    BY <1>1, <2>1 DEF EnManos
  <2>3. \A q \in PROCESOS, d \in Cosas : EsperaPor(q, d) => EsperaPor(q, d)'
    BY <2>1, ColasIguales, EnColaQuieta
  <2> QED BY <1>2, <1>3, <2>2, <2>3, EnAlgunLadoSigue
<1> QED
  BY <1>4, <1>5

(* A step that changes neither lists nor queues, and from which everybody  *)
(* who was in hand comes out in hand.                                      *)
LEMMA QuietoEnAlgunLado ==
  ASSUME EnAlgunLado,
         UNCHANGED <<tabla_archivos, cola_bloqueados, archivos_abiertos,
                     recursos_asignados>>,
         \A p \in PROCESOS : p \in EnManos => p \in EnManos'
  PROVE  EnAlgunLado'
<1>1. \A q \in PROCESOS, d \in Cosas : EsperaPor(q, d) => EsperaPor(q, d)'
  BY ColasIguales, EnColaQuieta
<1> QED
  BY <1>1, EnAlgunLadoSigue, SupuestoRecursos

(* Every step of the resources but the last one of an end.                 *)
LEMMA PasosEnAlgunLado ==
  ASSUME Comun, EnAlgunLado, Pasos, UNCHANGED archivosVars
  PROVE  EnAlgunLado'
<1> USE DEF Comun
<1>0. UNCHANGED <<tabla_archivos, archivos_abiertos>>
  BY DEF archivosVars
<1>1. CASE Despachar
  <2>1. EnManos \subseteq EnManos' \union {NULO}
    BY <1>1 DEF Despachar, EnManos
  <2> QED BY <1>0, <1>1, <2>1, QuietoEnAlgunLado, SupuestoRecursos DEF Despachar
<1>2. ASSUME NEW p \in PROCESOS, NEW r \in RECURSOS, Wait(p, r)
      PROVE  EnAlgunLado'
  BY <1>0, <1>2, WaitEnAlgunLado
<1>3. ASSUME NEW p \in PROCESOS, NEW r \in RECURSOS, Signal(p, r)
      PROVE  EnAlgunLado'
  <2>1. SignalRecurso(p, r) /\ UNCHANGED <<RUNNING, fin>> /\ RUNNING = p
    BY <1>3 DEF Signal, Llamada
  <2>2. p \in EnManos'
    BY <2>1 DEF EnManos
  <2> QED BY <1>0, <2>1, <2>2, SignalEnAlgunLado
<1>4. ASSUME NEW p \in PROCESOS,
             LlamadaDesconocida(p, DESCONOCIDO) \/ Exit(p)
      PROVE  EnAlgunLado'
  <2>1. /\ RUNNING = p /\ fin = SinFin /\ fin'.pid = p /\ fin' # SinFin
        /\ UNCHANGED <<cola_bloqueados, READY, recursos_asignados>>
    BY <1>4 DEF LlamadaDesconocida, Exit, Llamada, ComenzarFin, SinFin
  <2>2. EnManos \subseteq EnManos'
    BY <2>1 DEF EnManos
  <2> QED BY <1>0, <2>1, <2>2, QuietoEnAlgunLado
<1>5. ASSUME NEW p \in PROCESOS, Yield(p) PROVE EnAlgunLado'
  <2>1. EnManos \subseteq EnManos'
    BY <1>5 DEF Yield, EnManos
  <2> QED BY <1>0, <1>5, <2>1, QuietoEnAlgunLado DEF Yield
<1>6. CASE FinExterno \/ FinSiguiente
  <2>1. /\ fin # SinFin /\ fin' # SinFin /\ fin'.pid = fin.pid
        /\ UNCHANGED <<cola_bloqueados, READY, RUNNING, recursos_asignados>>
    BY <1>6 DEF FinExterno, FinSiguiente, SinFin
  <2>2. EnManos \subseteq EnManos'
    BY <2>1 DEF EnManos
  <2> QED BY <1>0, <2>1, <2>2, QuietoEnAlgunLado
<1>7. CASE FinInterno
  <2>1. fin \in EnInterno
    BY <1>7 DEF DeRecursos, Tipos, FinInterno, SinFin, EnExterno, EnCaido
  <2>2. /\ fin.pid \in PROCESOS /\ fin.nombre \in RECURSOS
        /\ SignalRecurso(fin.pid, fin.nombre) /\ UNCHANGED RUNNING
        /\ fin # SinFin /\ fin' # SinFin /\ fin'.pid = fin.pid
    BY <1>7, <2>1 DEF EnInterno, FinInterno, SinFin
  <2>3. fin.pid \in EnManos'
    BY <2>2 DEF EnManos
  <2> QED BY <1>0, <2>2, <2>3, SignalEnAlgunLado
<1> QED
  BY <1>1, <1>2, <1>3, <1>4, <1>5, <1>6, <1>7 DEF Pasos

(* Every step of the table and the resources.                              *)
LEMMA PasoEnAlgunLado ==
  ASSUME Comun, Repartidos, EnAlgunLado, [NextTabla]_varsTabla
  PROVE  EnAlgunLado'
<1>1. CASE Pasos /\ UNCHANGED archivosVars
  BY <1>1, PasosEnAlgunLado
<1>2. CASE UNCHANGED varsTabla
  <2>1. EnManos' = EnManos
    BY <1>2 DEF varsTabla, vars, EnManos
  <2> QED
    BY <1>2, <2>1, QuietoEnAlgunLado DEF varsTabla, vars, archivosVars
<1>3. CASE FinConArchivos
  <2>1. PICK a \in PROCESOS : a = fin.pid
    BY <1>3, PasoFinConArchivos
  <2>2. /\ recursos_asignados' = [recursos_asignados EXCEPT ![a] = <<>>]
        /\ archivos_abiertos' = [archivos_abiertos EXCEPT ![a] = <<>>]
        /\ UNCHANGED <<READY, RUNNING>>
    BY <1>3, <2>1 DEF FinConArchivos, FinListo
  <2>3. /\ \A p \in PROCESOS : p # a =>
             /\ recursos_asignados'[p] = recursos_asignados[p]
             /\ archivos_abiertos'[p] = archivos_abiertos[p]
        /\ recursos_asignados'[a] = <<>> /\ archivos_abiertos'[a] = <<>>
    BY <2>2 DEF Comun, DeRecursos, Tipos, TablaTipos
  <2>4. \A q \in PROCESOS, d \in Cosas : EsperaPor(q, d) => EsperaPor(q, d)'
    BY <1>3, PasoFinConArchivos, EnColaQuieta
  <2>5. \A q \in PROCESOS : q \in EnManos => q = a \/ q \in EnManos'
    BY <2>1, <2>2 DEF EnManos
  <2> QED BY <2>3, <2>4, <2>5, EnAlgunLadoSigue
<1>4. ASSUME NEW p \in PROCESOS, NEW f \in ARCHIVOS,
             \/ AbrirLibre(p, f) \/ AbrirTomado(p, f) \/ Cerrar(p, f)
             \/ \E n \in POSICIONES : CambiarPuntero(p, f, n)
      PROVE  EnAlgunLado'
  <2>1. /\ RUNNING = p /\ UNCHANGED <<recursos_asignados, fin>>
        /\ f \in Cosas
    BY <1>4 DEF AbrirLibre, AbrirTomado, Cerrar, CambiarPuntero, Llamada,
       recursosVars, Cosas
  <2>2. \A q \in PROCESOS : q # p => archivos_abiertos'[q] = archivos_abiertos[q]
    BY <1>4 DEF AbrirLibre, AbrirTomado, Cerrar, CambiarPuntero, Anotar, Comun,
       TablaTipos
  <2>3. CASE AbrirTomado(p, f)
    <3>1. \A q \in PROCESOS : q \in EnManos => q = p \/ q \in EnManos'
      BY <2>1, <2>3 DEF AbrirTomado, EnManos
    <3>2. \A g \in Cosas : ColaDe(g)' = IF g = f THEN Append(ColaDe(f), p)
                                                 ELSE ColaDe(g)
      BY <2>3, PasoAbrirTomado
    <3>3. EsperaPor(p, f)' /\ \A q : EsperaPor(q, f) => EsperaPor(q, f)'
      BY <2>1, <3>2, EnColaDetras DEF Comun, DeRecursos
    <3>4. \A q \in PROCESOS, d \in Cosas : EsperaPor(q, d) => EsperaPor(q, d)'
      BY <3>2, <3>3, EnColaQuieta
    <3> QED BY <2>1, <2>2, <3>1, <3>3, <3>4, EnAlgunLadoSigue
  <2>4. ASSUME UNCHANGED <<READY, RUNNING>>, \A g \in Cosas : ColaDe(g)' = ColaDe(g)
        PROVE  EnAlgunLado'
    <3>1. p \in EnManos' /\ EnManos' = EnManos
      BY <2>1, <2>4 DEF EnManos
    <3>2. \A q \in PROCESOS, d \in Cosas : EsperaPor(q, d) => EsperaPor(q, d)'
      BY <2>4, EnColaQuieta
    <3> QED BY <2>1, <2>2, <3>1, <3>2, EnAlgunLadoSigue
  <2>5. CASE AbrirLibre(p, f)
    <3>1. UNCHANGED <<READY, RUNNING>>
      BY <2>5 DEF AbrirLibre
    <3> QED BY <2>4, <2>5, <3>1, PasoAbrirLibre
  <2>6. ASSUME NEW n \in POSICIONES, CambiarPuntero(p, f, n) PROVE EnAlgunLado'
    <3>1. UNCHANGED <<READY, RUNNING>>
      BY <2>6 DEF CambiarPuntero
    <3> QED BY <2>4, <2>6, <3>1, PasoMover
  <2>7. CASE Cerrar(p, f) /\ IndiceArchivo(p, f) = 0
    <3>1. UNCHANGED <<READY, RUNNING>>
      BY <2>7 DEF Cerrar
    <3> QED BY <2>4, <2>7, <3>1, PasoCerrarAjeno
  <2>8. CASE Cerrar(p, f) /\ IndiceArchivo(p, f) # 0
    <3>1. /\ f \in DOMAIN tabla_archivos
          /\ \A g \in Cosas : ColaDe(g)' =
               IF g = f /\ ColaDe(f) # <<>> THEN Tail(ColaDe(f)) ELSE ColaDe(g)
      BY <2>8, PasoCerrar
    <3>2. UNCHANGED RUNNING /\ Entregar(f)
      BY <2>8, <3>1 DEF Cerrar
    <3>3. ColaDe(f) = tabla_archivos[f]
      BY <3>1, ColaDeArchivo
    <3>4. CASE ColaDe(f) # <<>>
      <4>1. READY' = READY \union {Head(ColaDe(f))}
        BY <3>2, <3>3, <3>4 DEF Entregar
      <4>2. /\ EnManos \subseteq EnManos' /\ Head(ColaDe(f)) \in EnManos'
            /\ p \in EnManos'
        BY <2>1, <3>2, <4>1 DEF EnManos
      <4>3. ASSUME NEW q \in PROCESOS, NEW d \in Cosas, EsperaPor(q, d)
            PROVE  EsperaPor(q, d)' \/ q \in EnManos'
        <5>1. CASE d = f
          BY <2>1, <3>1, <3>4, <4>2, <4>3, <5>1, EnColaDelante DEF Comun, DeRecursos
        <5>2. CASE d # f
          BY <3>1, <4>3, <5>2, EnColaQuieta
        <5> QED BY <5>1, <5>2
      <4> QED BY <2>1, <2>2, <4>2, <4>3, EnAlgunLadoSigue
    <3>5. CASE ColaDe(f) = <<>>
      <4>1. UNCHANGED READY
        BY <3>2, <3>3, <3>5 DEF Entregar
      <4> QED BY <2>4, <3>1, <3>2, <3>5, <4>1
    <3> QED BY <3>4, <3>5
  <2> QED BY <1>4, <2>3, <2>5, <2>6, <2>7, <2>8
<1> QED
  BY <1>1, <1>2, <1>3, <1>4 DEF NextTabla

-----------------------------------------------------------------------------
(* The instances of r that all the processes are noted.                    *)
Anotadas(r) == MapThenSumSet(LAMBDA p : Asignadas(p, r), PROCESOS)

(* That sum too is one the lemmas are about.                               *)
LEMMA SumaDeAnotadas ==
  ASSUME NEW r, NEW g, g = [p \in PROCESOS |-> Asignadas(p, r)],
         g \in [PROCESOS -> Int]
  PROVE  \E it : EsSuma(it, g, PROCESOS, Primero) /\ Anotadas(r) = it[PROCESOS]
<1> DEFINE Sigue(h, s) ==
             IF s = {} THEN 0
             ELSE Asignadas(CHOOSE x \in s : TRUE, r)
                  + h[s \ {CHOOSE x \in s : TRUE}]
           it == CHOOSE h : h = [s \in SUBSET PROCESOS |-> Sigue(h, s)]
<1>1. Anotadas(r) = it[PROCESOS]
  BY DEF Anotadas, MapThenSumSet, MapThenFoldSet
<1>2. ASSUME NEW h, NEW s \in SUBSET PROCESOS
      PROVE  Sigue(h, s) = PasoDeSuma(h, s, g, Primero)
  <2>1. CASE s = {}
    BY <2>1 DEF PasoDeSuma
  <2>2. CASE s # {}
    <3>1. PICK c : c = CHOOSE x \in s : TRUE
      OBVIOUS
    <3>2. c \in s
      BY <2>2, <3>1
    <3>3. Primero[s] = c
      BY <3>1 DEF Primero
    <3>4. Sigue(h, s) = Asignadas(c, r) + h[s \ {c}]
      BY <2>2, <3>1
    <3>5. g[c] = Asignadas(c, r)
      BY <3>2
    <3> HIDE DEF Sigue
    <3> QED BY <2>2, <3>3, <3>4, <3>5 DEF PasoDeSuma
  <2> QED BY <2>1, <2>2
<1> HIDE DEF it
<1>3. PICK jt : EsSuma(jt, g, PROCESOS, Primero)
  BY PrimeroElige, SupuestoProcesos, SumaExiste
<1>4. jt = [s \in SUBSET PROCESOS |-> Sigue(jt, s)]
  <2>1. \A s \in SUBSET PROCESOS : jt[s] = Sigue(jt, s)
    <3> HIDE DEF Sigue
    <3> QED BY <1>2, <1>3 DEF EsSuma
  <2> HIDE DEF Sigue
  <2> QED BY <1>3, <2>1 DEF EsSuma
<1>5. it = [s \in SUBSET PROCESOS |-> Sigue(it, s)]
  <2> HIDE DEF Sigue
  <2> QED BY <1>4 DEF it
<1>6. \A s \in SUBSET PROCESOS : it[s] = PasoDeSuma(it, s, g, Primero)
  <2> HIDE DEF Sigue
  <2> QED BY <1>2, <1>5
<1> HIDE DEF Sigue
<1>7. EsSuma(it, g, PROCESOS, Primero)
  <2>1. \E h : it = [s \in SUBSET PROCESOS |-> h[s]]
    BY <1>5
  <2> QED BY <1>6, <2>1, SumaTipada
<1> QED
  BY <1>1, <1>7

(* Where a process waits for a resource that has instances, none of them   *)
(* lost, one process has an instance that it is not waiting for.           *)
LEMMA AlguienLoTiene ==
  ASSUME Comun, NEW r \in RECURSOS, NEW p \in PROCESOS, EsperaPor(p, r),
         ~Perdida(r), ~DeNadie(r)
  PROVE  \E q \in PROCESOS : LoTiene(q, r) /\ recursos_asignados[q] # <<>>
<1>1. ColaDe(r) = cola_bloqueados[r]
  BY DEF ColaDe
<1>2. PICK f : f = DeTodos(r)
  OBVIOUS
<1>3. f \in [PROCESOS -> Int]
  BY <1>2, DeTodosTipo DEF DeTodosSonNumeros, Comun, DeRecursos
<1>4. \A q \in PROCESOS : Asignadas(q, r) = f[q]
  <2> TAKE q \in PROCESOS
  <2>1. Indice(q, r) = PorNombre(recursos_asignados[q], r)
    BY IndiceEs
  <2> QED BY <1>2, <2>1 DEF Asignadas, DeTodos, Notadas
<1>5. f = [q \in PROCESOS |-> Asignadas(q, r)]
  BY <1>2, <1>4 DEF DeTodos
<1>6. PICK it : EsSuma(it, f, PROCESOS, Primero) /\ Anotadas(r) = it[PROCESOS]
  BY <1>3, <1>5, SumaDeAnotadas
<1>7. ~(instancias_disponibles[r] + it[PROCESOS] < INSTANCIAS[r])
  BY <1>6 DEF Perdida, Anotadas
<1>8. INSTANCIAS[r] \in Nat \ {0} /\ instancias_disponibles[r] \in Int
  BY SupuestoRecursos DEF DeNadie, Comun, DeRecursos, Tipos
<1>9. PICK W \in SUBSET PROCESOS : W = {q \in PROCESOS : Espera(q, r)}
  OBVIOUS
<1>10. Cardinality(W) = Len(cola_bloqueados[r])
  BY <1>9, EnEspera
<1>11. Len(cola_bloqueados[r]) = IF instancias_disponibles[r] < 0
                                   THEN -instancias_disponibles[r] ELSE 0
  BY DEF Comun, DeRecursos, ColaExacta
<1>12. p \in W
  BY <1>1, <1>9 DEF EsperaPor, Espera
<1>13. Cardinality(W) # 0 /\ Cardinality(W) \in Nat
  <2>1. IsFiniteSet(W)
    BY SupuestoProcesos, FS_Subset
  <2> QED BY <1>12, <2>1, FS_EmptySet, FS_CardinalityType
<1>14. Cardinality(W) = -instancias_disponibles[r]
  BY <1>8, <1>10, <1>11, <1>13
<1>15. PICK g : g = [q \in PROCESOS |-> f[q] - (IF q \in W THEN 1 ELSE 0)]
  OBVIOUS
<1>16. g \in [PROCESOS -> Int]
  BY <1>3, <1>15
<1>17. PICK jt : EsSuma(jt, g, PROCESOS, Primero)
  BY <1>16, PrimeroElige, SupuestoProcesos, SumaExiste
<1>18. jt[PROCESOS] = it[PROCESOS] - Cardinality(W)
  <2>1. \A q \in PROCESOS : g[q] = f[q] - (IF q \in W THEN 1 ELSE 0)
    BY <1>15
  <2> QED
    BY ONLY <1>3, <1>6, <1>16, <1>17, <2>1, PrimeroElige, SupuestoProcesos,
       SumaDifiere
<1>19. it[PROCESOS] \in Int
  BY <1>6 DEF EsSuma
<1>20. jt[PROCESOS] > 0
  BY <1>7, <1>8, <1>14, <1>18, <1>19
<1>21. \E q \in PROCESOS : g[q] > 0
  <2> SUFFICES ASSUME \A q \in PROCESOS : ~(g[q] > 0) PROVE FALSE
    OBVIOUS
  <2>1. PICK c : c = [q \in PROCESOS |-> 0]
    OBVIOUS
  <2>2. c \in [PROCESOS -> Int] /\ {} \in SUBSET PROCESOS
    BY <2>1
  <2>3. PICK kt : EsSuma(kt, c, PROCESOS, Primero)
    BY <2>2, PrimeroElige, SupuestoProcesos, SumaExiste
  <2>4. \A q \in PROCESOS : g[q] <= c[q]
    BY <1>16, <2>1
  <2>5. jt[PROCESOS] <= kt[PROCESOS]
    BY ONLY <1>16, <1>17, <2>2, <2>3, <2>4, PrimeroElige, SupuestoProcesos,
       SumaMenor
  <2>6. PICK u : u = [s \in SUBSET PROCESOS |-> 0]
    OBVIOUS
  <2>7. EsSuma(u, c, PROCESOS, Primero)
    <3>1. ASSUME NEW s \in SUBSET PROCESOS
          PROVE  u[s] = PasoDeSuma(u, s, c, Primero)
      <4>1. CASE s = {}
        BY <2>6, <4>1 DEF PasoDeSuma
      <4>2. CASE s # {}
        <5>1. PICK x \in s : x = Primero[s]
          BY <4>2, PrimeroElige DEF Elige
        <5>2. c[x] = 0 /\ u[s \ {x}] = 0 /\ u[s] = 0
          BY <2>1, <2>6
        <5> QED BY <4>2, <5>1, <5>2 DEF PasoDeSuma
      <4> QED BY <4>1, <4>2
    <3> QED BY <2>6, <3>1 DEF EsSuma
  <2>8. kt[PROCESOS] <= u[PROCESOS]
    <3>1. \A q \in PROCESOS : c[q] <= c[q]
      BY <2>1
    <3> QED
      BY ONLY <2>2, <2>3, <2>7, <3>1, PrimeroElige, SupuestoProcesos, SumaMenor
  <2>9. u[PROCESOS] = 0 /\ jt[PROCESOS] \in Int /\ kt[PROCESOS] \in Int
    BY <1>17, <2>3, <2>6 DEF EsSuma
  <2> QED BY <1>20, <2>5, <2>8, <2>9
<1>22. PICK q \in PROCESOS : g[q] > 0
  BY <1>21
<1>23. f[q] > (IF Espera(q, r) THEN 1 ELSE 0) /\ f[q] # 0
  BY <1>3, <1>9, <1>15, <1>22
<1>24. LoTiene(q, r)
  BY <1>4, <1>23 DEF LoTiene
<1>25. recursos_asignados[q] # <<>>
  <2> SUFFICES ASSUME recursos_asignados[q] = <<>> PROVE FALSE
    OBVIOUS
  <2>1. <<>> \in Listas
    BY DEF Listas
  <2>2. PorNombre(<<>>, r) \in 0..Len(<<>>)
    BY <2>1, NotadasDe
  <2>3. PorNombre(<<>>, r) = 0
    BY <2>2
  <2> QED BY <1>2, <1>23, <2>3 DEF DeTodos, Notadas
<1> QED
  BY <1>24, <1>25

(* ... and so for a file that its owner has not left open.                 *)
LEMMA AlguienTieneElArchivo ==
  ASSUME Comun, Repartidos, NEW f \in ARCHIVOS, NEW p \in PROCESOS,
         EsperaPor(p, f), ~Perdida(f)
  PROVE  \E q \in PROCESOS : LoTiene(q, f) /\ archivos_abiertos[q] # <<>>
<1>1. f \notin RECURSOS /\ f \in Cosas
  BY SupuestoArchivos DEF Cosas
<1>2. f \notin sin_cerrar
  BY <1>1 DEF Perdida
<1>3. f \in DOMAIN tabla_archivos
  <2> SUFFICES ASSUME f \notin DOMAIN tabla_archivos PROVE FALSE
    OBVIOUS
  <2>1. ColaDe(f) = <<>>
    BY ColaDeArchivo
  <2>2. EnCola(p, f) = 0
    BY <2>1, SinCola
  <2> QED BY <1>1, <2>2, ColasTipo DEF Comun, DeRecursos
<1>4. PICK o \in PROCESOS : TieneUnoMas(f, o)
  BY <1>2, <1>3 DEF Repartidos
<1>5. LoTiene(o, f)
  BY <1>1, <1>4, QuienEsDuenio DEF LoTiene
<1>6. archivos_abiertos[o] # <<>>
  <2> SUFFICES ASSUME archivos_abiertos[o] = <<>> PROVE FALSE
    OBVIOUS
  <2>1. EnCola(o, f) \in Nat
    BY <1>1, ColasTipo DEF Comun, DeRecursos
  <2>2. Cuantos(<<>>, f) # 0
    BY <1>4, <2>1 DEF TieneUnoMas
  <2>3. Nombres(<<>>) \in Seq({}) /\ DOMAIN Nombres(<<>>) = {}
    BY DEF Nombres
  <2>4. CuantasVeces(Nombres(<<>>), f) = 0
    BY <2>3, AparicionesFinitas
  <2> QED BY <2>2, <2>4 DEF Cuantos
<1> QED
  BY <1>5, <1>6

(* With nobody in the kernel's hands, whoever has something waits: so all  *)
(* those who wait are a cycle, unless something was lost or never was.     *)
LEMMA AtascoDe ==
  ASSUME Comun, Repartidos, EnAlgunLado
  PROVE  AtascoExplicado
<1> DEFINE E == {p \in PROCESOS : \E c \in Cosas : EsperaPor(p, c)}
<1> SUFFICES ASSUME READY = {}, RUNNING = NULO, fin = SinFin, E # {},
                    ~ \E p \in E, c \in Cosas :
                        EsperaPor(p, c) /\ (Perdida(c) \/ DeNadie(c))
             PROVE  \E s \in (SUBSET E) \ {{}} : Ciclo(s)
  BY DEF AtascoExplicado
<1>1. \A q \in PROCESOS : q \notin EnManos
  BY SupuestoRecursos DEF EnManos
<1>2. \A q \in PROCESOS :
        recursos_asignados[q] # <<>> \/ archivos_abiertos[q] # <<>> => q \in E
  BY <1>1 DEF EnAlgunLado, SinNada
<1>3. ASSUME NEW p \in E
      PROVE  \E c \in Cosas, q \in E : EsperaPor(p, c) /\ LoTiene(q, c)
  <2>1. PICK c \in Cosas : p \in PROCESOS /\ EsperaPor(p, c)
    OBVIOUS
  <2>2. ~Perdida(c) /\ ~DeNadie(c)
    BY <2>1
  <2>3. \E q \in PROCESOS :
          /\ LoTiene(q, c)
          /\ recursos_asignados[q] # <<>> \/ archivos_abiertos[q] # <<>>
    <3>1. CASE c \in RECURSOS
      BY <2>1, <2>2, <3>1, AlguienLoTiene
    <3>2. CASE c \in ARCHIVOS
      BY <2>1, <2>2, <3>2, AlguienTieneElArchivo
    <3> QED BY <3>1, <3>2 DEF Cosas
  <2> HIDE DEF E
  <2> QED BY <1>2, <2>1, <2>3
<1>4. Ciclo(E)
  <2> HIDE DEF E
  <2> QED BY <1>3 DEF Ciclo
<1> HIDE DEF E
<1> QED
  BY <1>4

(* core.c:167, 225 and 418: if nobody is left to run and somebody waits,   *)
(* there is a cycle of waits, or something that a process which ended did  *)
(* not give back, or a resource without instances, for any number of       *)
(* processes, resources, files and instances.                              *)
THEOREM AtascosExplicados == SpecTabla => []AtascoExplicado
<1>1. InitTabla => EnAlgunLado
  <2> SUFFICES ASSUME InitTabla PROVE EnAlgunLado
    OBVIOUS
  <2>1. \A p \in PROCESOS : recursos_asignados[p] = <<>> /\ archivos_abiertos[p] = <<>>
    BY DEF InitTabla, Init
  <2> QED BY <2>1 DEF EnAlgunLado, SinNada
<1>2. Comun /\ Repartidos /\ EnAlgunLado /\ [NextTabla]_varsTabla => EnAlgunLado'
  BY PasoEnAlgunLado
<1>3. Comun /\ Repartidos /\ EnAlgunLado => AtascoExplicado
  BY AtascoDe
<1> QED
  BY <1>1, <1>2, <1>3, InvarianteTabla, PTL DEF SpecTabla

-----------------------------------------------------------------------------
(* The position of f in a list: that of its first entry.                   *)
Puntero(s, f) == s[PorNombre(s, f)].puntero

(* Who waits for a file he does not have starts from 0 when he gets it.    *)
DesdeCero ==
  \A p \in PROCESOS, f \in ARCHIVOS :
    EnCola(p, f) = 1 /\ Cuantos(archivos_abiertos[p], f) = 1 =>
      Puntero(archivos_abiertos[p], f) = 0

Todo == Comun /\ Repartidos /\ DesdeCero

(* The first entry with a name is the one a search finds.                  *)
LEMMA PrimeroEs ==
  ASSUME NEW s \in Abiertas, NEW f, NEW i \in 1..Len(s), s[i].nombre = f,
         \A j \in 1..(i - 1) : s[j].nombre # f
  PROVE  PorNombre(s, f) = i
<1>1. s \in Seq(Abierto) /\ Len(s) \in Nat
  BY NombresTipo
<1>2. \/ PorNombre(s, f) = 0 /\ \A j \in 1..Len(s) : s[j].nombre # f
      \/ /\ PorNombre(s, f) \in 1..Len(s) /\ s[PorNombre(s, f)].nombre = f
         /\ \A j \in 1..(PorNombre(s, f) - 1) : s[j].nombre # f
  BY <1>1, BusquedaPorNombre
<1> DEFINE k == PorNombre(s, f)
<1> HIDE DEF k
<1>3. /\ k \in 1..Len(s) /\ s[k].nombre = f
      /\ \A j \in 1..(k - 1) : s[j].nombre # f
  BY <1>2 DEF k
<1>4. ~(i < k) /\ ~(k < i)
  <2>1. i < k => i \in 1..(k - 1)
    BY <1>1, <1>3
  <2>2. k < i => k \in 1..(i - 1)
    BY <1>1, <1>3
  <2> QED
    BY <1>3, <2>1, <2>2
<1> QED
  BY <1>1, <1>3, <1>4 DEF k

(* An entry is found when its name is counted.                             *)
LEMMA SeEncuentra ==
  ASSUME NEW s \in Abiertas, NEW f
  PROVE  /\ Cuantos(s, f) # 0 =>
              /\ PorNombre(s, f) \in 1..Len(s)
              /\ s[PorNombre(s, f)].nombre = f
              /\ \A j \in 1..(PorNombre(s, f) - 1) : s[j].nombre # f
         /\ Cuantos(s, f) = 0 => \A j \in 1..Len(s) : s[j].nombre # f
<1>1. /\ s \in Seq(Abierto) /\ Len(s) \in Nat
      /\ Nombres(s) \in Seq(ARCHIVOS) /\ Len(Nombres(s)) = Len(s)
      /\ DOMAIN Nombres(s) = 1..Len(s)
  BY NombresTipo DEF Nombres
<1>2. Cuantos(s, f) = 0 <=> \A j \in DOMAIN Nombres(s) : Nombres(s)[j] # f
  BY <1>1, AparicionesFinitas DEF Cuantos
<1>3. \A j \in 1..Len(s) : Nombres(s)[j] = s[j].nombre
  BY DEF Nombres
<1>4. \/ PorNombre(s, f) = 0 /\ \A j \in 1..Len(s) : s[j].nombre # f
      \/ /\ PorNombre(s, f) \in 1..Len(s) /\ s[PorNombre(s, f)].nombre = f
         /\ \A j \in 1..(PorNombre(s, f) - 1) : s[j].nombre # f
  BY <1>1, BusquedaPorNombre
<1> QED
  BY <1>1, <1>2, <1>3, <1>4

(* list_add leaves the positions that were there.                          *)
LEMMA PunteroAppend ==
  ASSUME NEW s \in Abiertas, NEW a \in Abierto, NEW f
  PROVE  /\ Cuantos(s, f) # 0 => Puntero(Append(s, a), f) = Puntero(s, f)
         /\ Cuantos(s, f) = 0 /\ a.nombre = f =>
              Puntero(Append(s, a), f) = a.puntero
<1> DEFINE t == Append(s, a)
           k == PorNombre(s, f)
<1>1. s \in Seq(Abierto) /\ Len(s) \in Nat
  BY NombresTipo
<1>2. t \in Seq(Abierto) /\ Len(t) = Len(s) + 1
      /\ t[Len(s) + 1] = a /\ \A i \in 1..Len(s) : t[i] = s[i]
  BY <1>1
<1> HIDE DEF t, k
<1>3. t \in Abiertas
  BY <1>2 DEF Abiertas
<1>4. CASE Cuantos(s, f) # 0
  <2>1. /\ k \in 1..Len(s) /\ s[k].nombre = f
        /\ \A j \in 1..(k - 1) : s[j].nombre # f
    BY <1>4, SeEncuentra DEF k
  <2>2. /\ k \in 1..Len(t) /\ t[k] = s[k]
        /\ \A j \in 1..(k - 1) : t[j] = s[j]
    BY <1>1, <1>2, <2>1
  <2>3. PorNombre(t, f) = k
    BY <1>3, <2>1, <2>2, PrimeroEs
  <2> QED
    BY <1>4, <2>2, <2>3 DEF Puntero, t, k
<1>5. CASE Cuantos(s, f) = 0 /\ a.nombre = f
  <2>1. \A j \in 1..Len(s) : s[j].nombre # f
    BY <1>5, SeEncuentra
  <2> DEFINE m == Len(s) + 1
  <2>2. /\ m \in 1..Len(t) /\ t[m].nombre = f
        /\ \A j \in 1..(m - 1) : t[j].nombre # f
    BY <1>1, <1>2, <1>5, <2>1
  <2> HIDE DEF m
  <2>3. PorNombre(t, f) = m
    BY <1>3, <2>2, PrimeroEs
  <2> QED
    BY <1>2, <1>5, <2>3 DEF Puntero, t, m
<1> QED
  BY <1>4, <1>5

(* list_remove of one file leaves the positions of the others.             *)
LEMMA PunteroRemoveAt ==
  ASSUME NEW s \in Abiertas, NEW i \in 1..Len(s), NEW f, s[i].nombre # f,
         Cuantos(s, f) # 0
  PROVE  Puntero(RemoveAt(s, i), f) = Puntero(s, f)
<1> DEFINE t == RemoveAt(s, i)
           k == PorNombre(s, f)
           m == IF k < i THEN k ELSE k - 1
<1>1. s \in Seq(Abierto) /\ Len(s) \in Nat /\ DOMAIN s = 1..Len(s)
  BY NombresTipo
<1>2. /\ t \in Seq(Abierto) /\ Len(t) = Len(s) - 1
      /\ \A j \in 1..(Len(s) - 1) : t[j] = IF j < i THEN s[j] ELSE s[j + 1]
  BY <1>1, QuitarTipo
<1> HIDE DEF t, k
<1>3. t \in Abiertas
  BY <1>2 DEF Abiertas
<1>4. /\ k \in 1..Len(s) /\ s[k].nombre = f
      /\ \A j \in 1..(k - 1) : s[j].nombre # f
  BY SeEncuentra DEF k
<1>5. k # i
  BY <1>4
<1>6. m \in 1..(Len(s) - 1) /\ t[m] = s[k]
  <2>1. CASE k < i
    BY <1>1, <1>2, <1>4, <2>1
  <2>2. CASE k > i
    <3>1. m = k - 1 /\ m \in 1..(Len(s) - 1) /\ ~(m < i) /\ m + 1 = k
      BY <1>1, <1>4, <2>2
    <3> QED
      BY <1>2, <3>1
  <2> QED
    BY <1>1, <1>4, <1>5, <2>1, <2>2
<1>7. \A j \in 1..(m - 1) : t[j].nombre # f
  <2> TAKE j \in 1..(m - 1)
  <2>1. j \in 1..(Len(s) - 1) /\ j \in 1..(k - 1)
    BY <1>1, <1>4, <1>6
  <2>2. CASE j < i
    BY <1>2, <1>4, <2>1, <2>2
  <2>3. CASE ~(j < i)
    <3>1. t[j] = s[j + 1]
      BY <1>2, <2>1, <2>3
    <3>2. j + 1 \in 1..(k - 1)
      BY <1>1, <1>4, <1>5, <1>6, <2>1, <2>3
    <3> QED
      BY <1>4, <3>1, <3>2
  <2> QED
    BY <2>2, <2>3
<1> HIDE DEF m
<1>8. PorNombre(t, f) = m
  BY <1>2, <1>3, <1>4, <1>6, <1>7, PrimeroEs
<1> QED
  BY <1>6, <1>8 DEF Puntero, t, k

(* A list with the position of f moved to n.                               *)
Movido(s, f, n) == [s EXCEPT ![PorNombre(s, f)].puntero = n]

(* fseek writes the position of one file.                                  *)
LEMMA PunteroMover ==
  ASSUME NEW s \in Abiertas, NEW f, Cuantos(s, f) # 0, NEW n \in POSICIONES
  PROVE  /\ Puntero(Movido(s, f, n), f) = n
         /\ \A g : g # f /\ Cuantos(s, g) # 0 =>
              Puntero(Movido(s, f, n), g) = Puntero(s, g)
<1> DEFINE i == PorNombre(s, f)
           t == [s EXCEPT ![i].puntero = n]
<1>1. s \in Seq(Abierto) /\ Len(s) \in Nat
  BY NombresTipo
<1>2. /\ i \in 1..Len(s) /\ s[i].nombre = f
      /\ \A j \in 1..(i - 1) : s[j].nombre # f
  BY SeEncuentra
<1> HIDE DEF i
<1>3. t \in Abiertas
  BY <1>2, MoverCuenta
<1>4. s[i] \in Abierto
  BY <1>1, <1>2
<1>5. /\ Len(t) = Len(s)
      /\ \A j \in 1..Len(s) : j # i => t[j] = s[j]
      /\ t[i] = [s[i] EXCEPT !.puntero = n]
  BY <1>1, <1>2
<1>6. t[i].puntero = n /\ t[i].nombre = f
  BY <1>2, <1>4, <1>5 DEF Abierto
<1> HIDE DEF t
<1>7. \A j \in 1..Len(s) : t[j].nombre = s[j].nombre
  BY <1>2, <1>5, <1>6
<1>8. Puntero(t, f) = n
  <2>1. \A j \in 1..(i - 1) : t[j].nombre # f
    BY <1>1, <1>2, <1>7
  <2>2. PorNombre(t, f) = i
    BY <1>2, <1>3, <1>5, <1>6, <2>1, PrimeroEs
  <2> QED
    BY <1>6, <2>2 DEF Puntero
<1>9. ASSUME NEW g, g # f, Cuantos(s, g) # 0
      PROVE  Puntero(t, g) = Puntero(s, g)
  <2> DEFINE k == PorNombre(s, g)
  <2>1. /\ k \in 1..Len(s) /\ s[k].nombre = g
        /\ \A j \in 1..(k - 1) : s[j].nombre # g
    BY <1>9, SeEncuentra
  <2> HIDE DEF k
  <2>2. k # i /\ t[k] = s[k]
    BY <1>2, <1>5, <1>9, <2>1
  <2>3. /\ k \in 1..Len(t) /\ t[k].nombre = g
        /\ \A j \in 1..(k - 1) : t[j].nombre # g
    BY <1>1, <1>5, <1>7, <2>1
  <2>4. PorNombre(t, g) = k
    BY <1>3, <2>3, PrimeroEs
  <2> QED
    BY <2>2, <2>4 DEF Puntero, k
<1>10. Movido(s, f, n) = t
  BY DEF Movido, t, i
<1> QED
  BY <1>8, <1>9, <1>10

(* Counting and searching read nothing but the list.                       *)
LEMMA ListaPrima ==
  ASSUME NEW q \in PROCESOS, NEW g
  PROVE  /\ Cuantos(archivos_abiertos[q], g)' = Cuantos(archivos_abiertos'[q], g)
         /\ Puntero(archivos_abiertos[q], g)' = Puntero(archivos_abiertos'[q], g)
<1>1. Cuantos(archivos_abiertos[q], g)' = Cuantos(archivos_abiertos'[q], g)
  BY DEF Cuantos, Nombres
<1>2. Puntero(archivos_abiertos[q], g)' = Puntero(archivos_abiertos'[q], g)
  BY DEF Puntero
<1> QED
  BY <1>1, <1>2

(* Nobody new comes to wait, and only the list of a process that does not  *)
(* wait changes.                                                           *)
LEMMA DesdeCeroSigue ==
  ASSUME EnUnaCola, DesdeCero, NEW p \in PROCESOS, p \in EnManos,
         \A q \in PROCESOS \ {p} : archivos_abiertos'[q] = archivos_abiertos[q],
         \A q \in PROCESOS, g \in ARCHIVOS :
           EnCola(q, g)' = 1 => EnCola(q, g) = 1
  PROVE  DesdeCero'
<1> SUFFICES ASSUME NEW q \in PROCESOS, NEW g \in ARCHIVOS,
                    EnCola(q, g)' = 1,
                    Cuantos(archivos_abiertos[q], g)' = 1
             PROVE  Puntero(archivos_abiertos[q], g)' = 0
  BY DEF DesdeCero
<1>1. EnCola(q, g) = 1
  OBVIOUS
<1>2. q # p
  BY <1>1, QuienEstaNoEspera DEF Cosas
<1>3. /\ Cuantos(archivos_abiertos[q], g)' = Cuantos(archivos_abiertos[q], g)
      /\ Puntero(archivos_abiertos[q], g)' = Puntero(archivos_abiertos[q], g)
  BY <1>2, ListaPrima
<1> QED
  BY <1>1, <1>3 DEF DesdeCero

(* Nobody waits more where the queues of the files stay.                   *)
LEMMA EsperasQuietas ==
  ASSUME \A g \in Cosas : ColaDe(g)' = ColaDe(g)
  PROVE  \A q \in PROCESOS, g \in ARCHIVOS : EnCola(q, g)' = EnCola(q, g)
BY DEF EnCola, Cosas

(* Whoever asks for a taken file has it noted with position 0.             *)
LEMMA DesdeCeroTomado ==
  ASSUME Todo, NEW p \in PROCESOS, NEW f \in ARCHIVOS, AbrirTomado(p, f)
  PROVE  DesdeCero'
<1> DEFINE s == archivos_abiertos[p]
           a == [nombre |-> f, puntero |-> 0]
<1>1. /\ f \in DOMAIN tabla_archivos /\ RUNNING = p
      /\ archivos_abiertos' = [archivos_abiertos EXCEPT ![p] = Append(s, a)]
  BY DEF AbrirTomado, Llamada, Anotar
<1>2. s \in Abiertas /\ a \in Abierto /\ a.nombre = f /\ a.puntero = 0
  BY SupuestoArchivos DEF Todo, Comun, TablaTipos, Abierto
<1>3. \A g \in Cosas : ColaDe(g)' = IF g = f THEN Append(ColaDe(f), p)
                                            ELSE ColaDe(g)
  BY PasoAbrirTomado DEF Todo
<1>4. p \in EnManos /\ f \in Cosas
  BY <1>1 DEF EnManos, Cosas
<1>5. \A q \in PROCESOS, g \in ARCHIVOS :
        (q # p \/ g # f) => EnCola(q, g)' = EnCola(q, g)
  <2> TAKE q \in PROCESOS, g \in ARCHIVOS
  <2>1. ColaDe(f) \in Seq(PROCESOS) /\ g \in Cosas
    BY <1>4, ColasTipo DEF Todo, Comun, DeRecursos, Cosas
  <2>2. CASE g # f
    BY <1>3, <2>1, <2>2 DEF EnCola
  <2>3. CASE g = f /\ q # p
    <3>1. CuantasVeces(Append(ColaDe(f), p), q) =
            CuantasVeces(ColaDe(f), q) + IF p = q THEN 1 ELSE 0
      BY <2>1, VecesAppend
    <3>2. CuantasVeces(ColaDe(f), q) \in Nat
      BY <2>1, AparicionesFinitas
    <3>3. CuantasVeces(Append(ColaDe(f), p), q) = CuantasVeces(ColaDe(f), q)
      BY <2>3, <3>1, <3>2
    <3>4. ColaDe(f)' = Append(ColaDe(f), p)
      BY <1>3, <1>4
    <3>5. EnCola(q, f)' = EnCola(q, f)
      BY <3>3, <3>4 DEF EnCola
    <3> QED
      BY <2>3, <3>5
  <2> QED
    BY <2>2, <2>3
<1> HIDE DEF s, a
<1>6. archivos_abiertos'[p] = Append(s, a)
      /\ \A q \in PROCESOS \ {p} : archivos_abiertos'[q] = archivos_abiertos[q]
  BY <1>1 DEF Todo, Comun, TablaTipos
<1> SUFFICES ASSUME NEW q \in PROCESOS, NEW g \in ARCHIVOS,
                    EnCola(q, g)' = 1,
                    Cuantos(archivos_abiertos[q], g)' = 1
             PROVE  Puntero(archivos_abiertos[q], g)' = 0
  BY DEF DesdeCero
<1>7. /\ Cuantos(archivos_abiertos[q], g)' = Cuantos(archivos_abiertos'[q], g)
      /\ Puntero(archivos_abiertos[q], g)' = Puntero(archivos_abiertos'[q], g)
  BY ListaPrima
<1>8. CASE q # p
  BY <1>5, <1>6, <1>7, <1>8 DEF Todo, DesdeCero
<1>9. CASE q = p
  <2>1. g = f
    <3>1. EnCola(p, g) = 0
      BY <1>4, QuienEstaNoEspera DEF Todo, Comun, Cosas
    <3> QED
      BY <1>5, <1>9, <3>1
  <2>2. Cuantos(Append(s, a), f) = Cuantos(s, f) + 1 /\ Cuantos(s, f) \in Nat
    BY <1>2, AnotarCuenta, AbiertosCuentan DEF s, Todo, Comun
  <2>3. Cuantos(s, f) = 0
    <3>1. Cuantos(archivos_abiertos'[p], f) = 1
      BY <1>7, <1>9, <2>1
    <3> QED
      BY <1>6, <2>2, <3>1
  <2>4. Puntero(Append(s, a), f) = 0
    BY <1>2, <2>3, PunteroAppend
  <2> QED
    BY <1>6, <1>7, <1>9, <2>1, <2>4
<1> QED
  BY <1>8, <1>9

(* The head of a queue leaves it, and nobody else moves.                   *)
LEMMA ColaMenosUno ==
  ASSUME Comun, NEW f \in ARCHIVOS,
         \A g \in Cosas :
           ColaDe(g)' = IF g = f /\ ColaDe(f) # <<>> THEN Tail(ColaDe(f))
                                                    ELSE ColaDe(g)
  PROVE  \A q \in PROCESOS, g \in ARCHIVOS :
           EnCola(q, g)' = 1 => EnCola(q, g) = 1
<1> SUFFICES ASSUME NEW q \in PROCESOS, NEW g \in ARCHIVOS, EnCola(q, g)' = 1
             PROVE  EnCola(q, g) = 1
  OBVIOUS
<1>1. g \in Cosas /\ f \in Cosas
  BY DEF Cosas
<1>2. CASE g = f /\ ColaDe(f) # <<>>
  <2>1. ColaDe(f)' = Tail(ColaDe(f)) /\ ColaDe(f) \in Seq(PROCESOS)
    BY <1>1, <1>2, ColasTipo DEF Comun, DeRecursos
  <2>2. CuantasVeces(Tail(ColaDe(f)), q) =
          CuantasVeces(ColaDe(f), q) - IF Head(ColaDe(f)) = q THEN 1 ELSE 0
    BY <1>2, <2>1, VecesTail
  <2>3. EnCola(q, f)' = CuantasVeces(Tail(ColaDe(f)), q)
    BY <2>1 DEF EnCola
  <2>4. EnCola(q, f) \in Nat
    BY <1>1, ColasTipo DEF Comun, DeRecursos
  <2>5. EnCola(q, f) # 0
    BY <1>2, <2>2, <2>3, <2>4 DEF EnCola
  <2> QED
    BY <1>1, <1>2, <2>5 DEF Comun, EnUnaCola
<1>3. CASE ~(g = f /\ ColaDe(f) # <<>>)
  BY <1>1, <1>3 DEF EnCola
<1> QED
  BY <1>2, <1>3

(* Every step keeps the positions of those who wait at 0.                  *)
LEMMA PasoDesdeCero ==
  ASSUME Todo, [NextTabla]_varsTabla
  PROVE  DesdeCero'
<1> USE DEF Todo
<1>1. ASSUME UNCHANGED <<archivos_abiertos, tabla_archivos>>
      PROVE  DesdeCero'
  <2>1. \A q \in PROCESOS, g \in ARCHIVOS : EnCola(q, g)' = EnCola(q, g)
    BY <1>1, ColaDeArchivo, ColaDeArchivoPrima DEF EnCola
  <2>2. \A q \in PROCESOS, g \in ARCHIVOS :
          /\ Cuantos(archivos_abiertos[q], g)' = Cuantos(archivos_abiertos[q], g)
          /\ Puntero(archivos_abiertos[q], g)' = Puntero(archivos_abiertos[q], g)
    BY <1>1, ListaPrima
  <2> QED
    BY <2>1, <2>2 DEF DesdeCero
<1>2. CASE FinConArchivos
  <2>1. /\ fin.pid \in PROCESOS /\ fin.pid \in EnManos
        /\ \A g \in Cosas : ColaDe(g)' = ColaDe(g)
    BY <1>2, PasoFinConArchivos
  <2>2. PICK p \in PROCESOS : p = fin.pid
    BY <2>1
  <2>3. \A q \in PROCESOS \ {p} : archivos_abiertos'[q] = archivos_abiertos[q]
    BY <1>2, <2>2 DEF FinConArchivos, Comun, TablaTipos
  <2> QED
    BY <2>1, <2>2, <2>3, EsperasQuietas, DesdeCeroSigue DEF Comun
<1>3. ASSUME NEW p \in PROCESOS, NEW f \in ARCHIVOS,
             \/ AbrirLibre(p, f) \/ AbrirTomado(p, f) \/ Cerrar(p, f)
             \/ \E n \in POSICIONES : CambiarPuntero(p, f, n)
      PROVE  DesdeCero'
  <2>1. p \in EnManos
    BY <1>3 DEF AbrirLibre, AbrirTomado, Cerrar, CambiarPuntero, Llamada, EnManos
  <2>2. \A q \in PROCESOS \ {p} : archivos_abiertos'[q] = archivos_abiertos[q]
    BY <1>3 DEF AbrirLibre, AbrirTomado, Cerrar, CambiarPuntero, Anotar,
                Comun, TablaTipos
  <2>3. ASSUME \A g \in Cosas : ColaDe(g)' = ColaDe(g) PROVE DesdeCero'
    BY <2>1, <2>2, <2>3, EsperasQuietas, DesdeCeroSigue DEF Comun
  <2>4. CASE AbrirLibre(p, f)
    BY <2>3, <2>4, PasoAbrirLibre
  <2>5. CASE AbrirTomado(p, f)
    BY <2>5, DesdeCeroTomado
  <2>6. CASE Cerrar(p, f) /\ IndiceArchivo(p, f) = 0
    BY <2>3, <2>6, PasoCerrarAjeno
  <2>7. CASE Cerrar(p, f) /\ IndiceArchivo(p, f) # 0
    <3>1. \A g \in Cosas :
            ColaDe(g)' = IF g = f /\ ColaDe(f) # <<>> THEN Tail(ColaDe(f))
                                                     ELSE ColaDe(g)
      BY <2>7, PasoCerrar
    <3>2. \A q \in PROCESOS, g \in ARCHIVOS :
            EnCola(q, g)' = 1 => EnCola(q, g) = 1
      BY <3>1, ColaMenosUno
    <3> QED
      BY <2>1, <2>2, <3>2, DesdeCeroSigue DEF Comun
  <2>8. ASSUME NEW n \in POSICIONES, CambiarPuntero(p, f, n)
        PROVE  DesdeCero'
    BY <2>3, <2>8, PasoMover
  <2> QED
    BY <1>3, <2>4, <2>5, <2>6, <2>7, <2>8
<1>4. CASE (Pasos /\ UNCHANGED archivosVars) \/ UNCHANGED varsTabla
  BY <1>1, <1>4 DEF varsTabla, archivosVars
<1> QED
  BY <1>2, <1>3, <1>4 DEF NextTabla

(* Every step keeps the whole invariant, and it holds at the beginning.    *)
LEMMA TodoEsInductivo ==
  /\ InitTabla => Todo
  /\ Todo /\ [NextTabla]_varsTabla => Todo'
<1>1. ASSUME InitTabla PROVE Todo
  <2>1. Comun /\ Repartidos
    BY <1>1, InicioTabla
  <2>2. archivos_abiertos = [p \in PROCESOS |-> <<>>]
    BY <1>1 DEF InitTabla
  <2>3. \A p \in PROCESOS, f \in ARCHIVOS : Cuantos(archivos_abiertos[p], f) = 0
    BY <2>1, <2>2, AbiertosCuentan DEF Comun
  <2> QED
    BY <2>1, <2>3 DEF Todo, DesdeCero
<1>2. ASSUME Todo, [NextTabla]_varsTabla PROVE Todo'
  BY <1>2, PasoTabla, PasoDesdeCero DEF Todo
<1> QED
  BY <1>1, <1>2

-----------------------------------------------------------------------------
(* Who a file belongs to, in the terms of the lists.                       *)
Pertenece(f, d) ==
  \/ d = NULO /\ f \notin DOMAIN tabla_archivos
  \/ d = DESCONOCIDO /\ f \in sin_cerrar
  \/ d \in PROCESOS /\ TieneUnoMas(f, d)

(* Each file belongs to one, and the abstract state says to whom and where *)
(* its position is.                                                        *)
BienAbstraido ==
  \A f \in ARCHIVOS :
    /\ \E d : Pertenece(f, d)
    /\ ColasAbstractas[f] = ColaDe(f)
    /\ \A d : Pertenece(f, d) =>
         /\ DuenioAbstracto[f] = d
         /\ PosicionAbstracta[f] =
              IF d \in PROCESOS THEN Puntero(archivos_abiertos[d], f) ELSE 0

(* The mapping finds the owner that the invariant says there is.           *)
LEMMA QuienLoTiene == Todo => BienAbstraido
<1> SUFFICES ASSUME Todo, NEW f \in ARCHIVOS
             PROVE  /\ \E d : Pertenece(f, d)
                    /\ ColasAbstractas[f] = ColaDe(f)
                    /\ \A d : Pertenece(f, d) =>
                         /\ DuenioAbstracto[f] = d
                         /\ PosicionAbstracta[f] =
                              IF d \in PROCESOS
                                THEN Puntero(archivos_abiertos[d], f) ELSE 0
  BY DEF BienAbstraido
<1> USE DEF Todo
<1>1. \E d : Pertenece(f, d)
  BY DEF Pertenece, Repartidos
<1>2. ColasAbstractas[f] = ColaDe(f)
  BY DEF ColasAbstractas
<1>3. sin_cerrar \subseteq DOMAIN tabla_archivos
  BY DEF Comun, TablaTipos
<1>4. ASSUME NEW d, Pertenece(f, d) PROVE DuenioAbstracto[f] = d
  <2>1. CASE d = NULO /\ f \notin DOMAIN tabla_archivos
    BY <2>1 DEF DuenioAbstracto
  <2>2. CASE d = DESCONOCIDO /\ f \in sin_cerrar
    BY <1>3, <2>2 DEF DuenioAbstracto
  <2>3. CASE d \in PROCESOS /\ TieneUnoMas(f, d)
    <3>1. \A p \in PROCESOS : Duenio(p, f) <=> p = d
      BY <2>3, QuienEsDuenio
    <3>2. f \in DOMAIN tabla_archivos \ sin_cerrar
      <4>1. SUFFICES ASSUME f \notin DOMAIN tabla_archivos \ sin_cerrar
                     PROVE  FALSE
        OBVIOUS
      <4>2. TieneUnoMas(f, NULO)
        BY <4>1 DEF Repartidos
      <4>3. Duenio(d, f) <=> d = NULO
        BY <2>3, <4>2, QuienEsDuenio
      <4> QED
        BY <2>3, <3>1, <4>3, SupuestoRecursos
    <3>3. (CHOOSE p \in PROCESOS : Duenio(p, f)) = d
      BY <2>3, <3>1
    <3> QED
      BY <3>2, <3>3 DEF DuenioAbstracto
  <2> QED
    BY <1>4, <2>1, <2>2, <2>3 DEF Pertenece
<1>5. ASSUME NEW d, Pertenece(f, d)
      PROVE  PosicionAbstracta[f] =
               IF d \in PROCESOS THEN Puntero(archivos_abiertos[d], f) ELSE 0
  <2>1. DuenioAbstracto[f] = d
    BY <1>4, <1>5
  <2>2. d \in PROCESOS =>
          IndiceArchivo(d, f) = PorNombre(archivos_abiertos[d], f)
    BY IndiceArchivoEs DEF Comun
  <2> QED
    BY <2>1, <2>2 DEF PosicionAbstracta, Puntero
<1> QED
  BY <1>1, <1>2, <1>4, <1>5

(* The three abstract variables are functions on the files.                *)
Funciones ==
  /\ DuenioAbstracto = [g \in ARCHIVOS |-> DuenioAbstracto[g]]
  /\ ColasAbstractas = [g \in ARCHIVOS |-> ColasAbstractas[g]]
  /\ PosicionAbstracta = [g \in ARCHIVOS |-> PosicionAbstracta[g]]

(* They are by definition.                                                 *)
LEMMA SonFunciones == Funciones
<1>1. DuenioAbstracto = [g \in ARCHIVOS |-> DuenioAbstracto[g]]
  BY DEF DuenioAbstracto
<1>2. ColasAbstractas = [g \in ARCHIVOS |-> ColasAbstractas[g]]
  BY DEF ColasAbstractas
<1>3. PosicionAbstracta = [g \in ARCHIVOS |-> PosicionAbstracta[g]]
  BY DEF PosicionAbstracta
<1> QED
  BY <1>1, <1>2, <1>3 DEF Funciones

(* An abstract variable that changes at one file, or at none.              *)
LEMMA CambiaEnUno ==
  ASSUME NEW f \in ARCHIVOS, NEW d, NEW c, NEW n,
         \A g \in ARCHIVOS :
           /\ DuenioAbstracto'[g] = IF g = f THEN d ELSE DuenioAbstracto[g]
           /\ ColasAbstractas'[g] = IF g = f THEN c ELSE ColasAbstractas[g]
           /\ PosicionAbstracta'[g] = IF g = f THEN n ELSE PosicionAbstracta[g]
  PROVE  /\ DuenioAbstracto' = [DuenioAbstracto EXCEPT ![f] = d]
         /\ ColasAbstractas' = [ColasAbstractas EXCEPT ![f] = c]
         /\ PosicionAbstracta' = [PosicionAbstracta EXCEPT ![f] = n]
<1>1. Funciones /\ Funciones'
  BY SonFunciones, PTL
<1> QED
  BY <1>1 DEF Funciones

(* A file whose owner a step does not touch keeps it, and its position.    *)
LEMMA SigueSuDuenio ==
  ASSUME Todo, Todo', NEW g \in ARCHIVOS,
         \A o \in PROCESOS : TieneUnoMas(g, o) =>
           /\ TieneUnoMas(g, o)'
           /\ Puntero(archivos_abiertos'[o], g) = Puntero(archivos_abiertos[o], g),
         g \in DOMAIN tabla_archivos' <=> g \in DOMAIN tabla_archivos,
         g \in sin_cerrar => g \in sin_cerrar'
  PROVE  /\ DuenioAbstracto'[g] = DuenioAbstracto[g]
         /\ PosicionAbstracta'[g] = PosicionAbstracta[g]
<1>1. PICK d : Pertenece(g, d)
  BY QuienLoTiene DEF BienAbstraido
<1>2. Pertenece(g, d)'
  BY <1>1 DEF Pertenece
<1>3. /\ DuenioAbstracto[g] = d
      /\ PosicionAbstracta[g] =
            IF d \in PROCESOS THEN Puntero(archivos_abiertos[d], g) ELSE 0
  BY <1>1, QuienLoTiene DEF BienAbstraido
<1>4. BienAbstraido'
  BY QuienLoTiene, PTL
<1>5. /\ DuenioAbstracto'[g] = d
      /\ PosicionAbstracta'[g] =
            IF d \in PROCESOS THEN Puntero(archivos_abiertos[d], g)' ELSE 0
  BY <1>2, <1>4 DEF BienAbstraido
<1>6. d \in PROCESOS => TieneUnoMas(g, d)
  BY <1>1, <1>3, SupuestoArchivos, SupuestoRecursos DEF Pertenece
<1>7. d \in PROCESOS => Puntero(archivos_abiertos[d], g)' =
                          Puntero(archivos_abiertos[d], g)
  BY <1>6, ListaPrima
<1> QED
  BY <1>3, <1>5, <1>7

(* The queues of the abstract state are those of the files.                *)
LEMMA SusColas ==
  \A g \in ARCHIVOS :
    /\ ColasAbstractas[g] = ColaDe(g)
    /\ ColasAbstractas'[g] = ColaDe(g)'
<1>1. \A g \in ARCHIVOS : ColasAbstractas[g] = ColaDe(g)
  BY DEF ColasAbstractas
<1>2. \A g \in ARCHIVOS : ColasAbstractas'[g] = ColaDe(g)'
  BY DEF ColasAbstractas
<1> QED
  BY <1>1, <1>2

(* Who runs or is being ended does not wait for any file.                  *)
LEMMA NoEsperaTurno ==
  ASSUME Todo, NEW p \in PROCESOS, p \in EnManos
  PROVE  ~Turnos!Esperando(p)
<1>1. SUFFICES ASSUME NEW g \in ARCHIVOS, Turnos!Contains(ColasAbstractas[g], p)
               PROVE  FALSE
  BY DEF Turnos!Esperando
<1>2. g \in Cosas /\ ColasAbstractas[g] = ColaDe(g)
  BY SusColas DEF Cosas
<1>3. EnCola(p, g) = 0 /\ ColaDe(g) \in Seq(PROCESOS)
  BY <1>2, QuienEstaNoEspera, ColasTipo DEF Todo, Comun, DeRecursos
<1>4. ~EsperaPor(p, g)
  BY <1>2, <1>3, ColasTipo DEF Todo, Comun, DeRecursos
<1>5. \A i \in 1..Len(ColaDe(g)) : ColaDe(g)[i] # p
  <2>1. ToSet(ColaDe(g)) = {ColaDe(g)[i] : i \in DOMAIN ColaDe(g)}
    BY DEF ToSet
  <2> QED
    BY <1>3, <1>4, <2>1 DEF EsperaPor
<1> QED
  BY <1>1, <1>2, <1>5 DEF Turnos!Contains

(* Noting one file more moves nobody's position.                           *)
LEMMA AnotarNoMueve ==
  ASSUME Todo, NEW p \in PROCESOS, NEW f \in ARCHIVOS, Anotar(p, f)
  PROVE  /\ \A g \in ARCHIVOS, o \in PROCESOS : TieneUnoMas(g, o) =>
              Puntero(archivos_abiertos'[o], g) = Puntero(archivos_abiertos[o], g)
         /\ Cuantos(archivos_abiertos[p], f) = 0 =>
              Puntero(archivos_abiertos'[p], f) = 0
<1> DEFINE s == archivos_abiertos[p]
           a == [nombre |-> f, puntero |-> 0]
<1>1. s \in Abiertas /\ a \in Abierto /\ a.nombre = f /\ a.puntero = 0
  BY SupuestoArchivos DEF Todo, Comun, TablaTipos, Abierto
<1>2. /\ archivos_abiertos'[p] = Append(s, a)
      /\ \A q \in PROCESOS : q # p => archivos_abiertos'[q] = archivos_abiertos[q]
  BY DEF Anotar, Todo, Comun, TablaTipos
<1> HIDE DEF s, a
<1>3. Cuantos(s, f) = 0 => Puntero(Append(s, a), f) = 0
  BY <1>1, PunteroAppend
<1>4. ASSUME NEW g \in ARCHIVOS, NEW o \in PROCESOS, TieneUnoMas(g, o)
      PROVE  Puntero(archivos_abiertos'[o], g) = Puntero(archivos_abiertos[o], g)
  <2>1. EnCola(o, g) \in Nat
    BY ColasTipo DEF Todo, Comun, DeRecursos, Cosas
  <2>2. Cuantos(archivos_abiertos[o], g) # 0
    BY <1>4, <2>1 DEF TieneUnoMas
  <2>3. CASE o = p
    <3>1. Cuantos(s, g) # 0
      BY <2>2, <2>3 DEF s
    <3>2. Puntero(Append(s, a), g) = Puntero(s, g)
      BY <1>1, <3>1, PunteroAppend
    <3> QED
      BY <1>2, <2>3, <3>2 DEF s
  <2>4. CASE o # p
    BY <1>2, <2>4
  <2> QED
    BY <2>3, <2>4
<1> QED
  BY <1>2, <1>3, <1>4 DEF s

(* F_OPEN of a free file takes the lock.                                   *)
LEMMA AbrirLibreToma ==
  ASSUME Todo, Todo', NEW p \in PROCESOS, NEW f \in ARCHIVOS, AbrirLibre(p, f)
  PROVE  Turnos!Tomar(p, f)
<1>1. /\ f \notin DOMAIN tabla_archivos /\ RUNNING = p /\ Anotar(p, f)
      /\ UNCHANGED sin_cerrar
      /\ DOMAIN tabla_archivos' = DOMAIN tabla_archivos \union {f}
  BY DEF AbrirLibre, Llamada
<1>2. /\ TieneUnoMas(f, p)'
      /\ \A o : \A g \in ARCHIVOS \ {f} : TieneUnoMas(g, o) => TieneUnoMas(g, o)'
      /\ \A g \in ARCHIVOS : ColaDe(g)' = ColaDe(g)
  BY PasoAbrirLibre DEF Todo, Cosas
<1>3. p \in EnManos
  BY <1>1 DEF EnManos
<1>4. /\ DuenioAbstracto[f] = NULO /\ PosicionAbstracta[f] = 0
  BY <1>1, QuienLoTiene, SupuestoRecursos DEF BienAbstraido, Pertenece
<1>5. BienAbstraido'
  BY QuienLoTiene, PTL
<1>6. DuenioAbstracto'[f] = p /\ PosicionAbstracta'[f] = 0
  <2>1. Pertenece(f, p)'
    BY <1>2 DEF Pertenece
  <2>2. /\ DuenioAbstracto'[f] = p
        /\ PosicionAbstracta'[f] = Puntero(archivos_abiertos[p], f)'
    BY <1>5, <2>1 DEF BienAbstraido
  <2>3. Cuantos(archivos_abiertos[p], f) = 0
    <3>1. TieneUnoMas(f, NULO) /\ p # NULO
      BY <1>1, SupuestoRecursos DEF Todo, Repartidos
    <3>2. EnCola(p, f) = 0
      BY <1>3, QuienEstaNoEspera DEF Todo, Comun, Cosas
    <3> QED
      BY <3>1, <3>2 DEF TieneUnoMas
  <2>4. Puntero(archivos_abiertos'[p], f) = 0
    BY <1>1, <2>3, AnotarNoMueve
  <2> QED
    BY <2>2, <2>4, ListaPrima
<1>7. ASSUME NEW g \in ARCHIVOS \ {f}
      PROVE  /\ DuenioAbstracto'[g] = DuenioAbstracto[g]
             /\ PosicionAbstracta'[g] = PosicionAbstracta[g]
  <2>1. \A o \in PROCESOS : TieneUnoMas(g, o) =>
          /\ TieneUnoMas(g, o)'
          /\ Puntero(archivos_abiertos'[o], g) = Puntero(archivos_abiertos[o], g)
    BY <1>1, <1>2, AnotarNoMueve
  <2> QED
    BY <1>1, <2>1, SigueSuDuenio
<1>8. \A g \in ARCHIVOS :
        /\ DuenioAbstracto'[g] = IF g = f THEN p ELSE DuenioAbstracto[g]
        /\ ColasAbstractas'[g] = IF g = f THEN ColasAbstractas[f]
                                          ELSE ColasAbstractas[g]
        /\ PosicionAbstracta'[g] = IF g = f THEN PosicionAbstracta[f]
                                            ELSE PosicionAbstracta[g]
  BY <1>2, <1>4, <1>6, <1>7, SusColas
<1>9. /\ DuenioAbstracto' = [DuenioAbstracto EXCEPT ![f] = p]
      /\ ColasAbstractas' = [ColasAbstractas EXCEPT ![f] = ColasAbstractas[f]]
      /\ PosicionAbstracta' = [PosicionAbstracta EXCEPT ![f] = PosicionAbstracta[f]]
  <2> DEFINE c == ColasAbstractas[f]
             n == PosicionAbstracta[f]
  <2> QED
    BY <1>8, CambiaEnUno
<1>10. ColasAbstractas' = ColasAbstractas /\ PosicionAbstracta' = PosicionAbstracta
  BY <1>9, SonFunciones DEF Funciones
<1> QED
  BY <1>3, <1>4, <1>9, <1>10, NoEsperaTurno DEF Turnos!Tomar

(* F_OPEN of a taken file goes to the end of its queue.                    *)
LEMMA AbrirTomadoEspera ==
  ASSUME Todo, Todo', NEW p \in PROCESOS, NEW f \in ARCHIVOS, AbrirTomado(p, f)
  PROVE  Turnos!Esperar(p, f)
<1>1. /\ f \in DOMAIN tabla_archivos /\ RUNNING = p /\ Anotar(p, f)
      /\ UNCHANGED sin_cerrar
      /\ DOMAIN tabla_archivos' = DOMAIN tabla_archivos
  BY DEF AbrirTomado, Llamada
<1>2. /\ \A o : \A g \in ARCHIVOS : TieneUnoMas(g, o) => TieneUnoMas(g, o)'
      /\ \A g \in ARCHIVOS : ColaDe(g)' = IF g = f THEN Append(ColaDe(f), p)
                                                  ELSE ColaDe(g)
  BY PasoAbrirTomado DEF Todo, Cosas
<1>3. p \in EnManos
  BY <1>1 DEF EnManos
<1>4. DuenioAbstracto[f] # NULO
  <2>1. PICK d : Pertenece(f, d) /\ DuenioAbstracto[f] = d
    BY QuienLoTiene DEF BienAbstraido
  <2> QED
    BY <1>1, <2>1, SupuestoRecursos, SupuestoArchivos DEF Pertenece
<1>5. ASSUME NEW g \in ARCHIVOS
      PROVE  /\ DuenioAbstracto'[g] = DuenioAbstracto[g]
             /\ PosicionAbstracta'[g] = PosicionAbstracta[g]
  <2>1. \A o \in PROCESOS : TieneUnoMas(g, o) =>
          /\ TieneUnoMas(g, o)'
          /\ Puntero(archivos_abiertos'[o], g) = Puntero(archivos_abiertos[o], g)
    BY <1>1, <1>2, AnotarNoMueve
  <2> QED
    BY <1>1, <2>1, SigueSuDuenio
<1>6. \A g \in ARCHIVOS :
        /\ DuenioAbstracto'[g] = IF g = f THEN DuenioAbstracto[f]
                                          ELSE DuenioAbstracto[g]
        /\ ColasAbstractas'[g] = IF g = f THEN Append(ColasAbstractas[f], p)
                                          ELSE ColasAbstractas[g]
        /\ PosicionAbstracta'[g] = IF g = f THEN PosicionAbstracta[f]
                                            ELSE PosicionAbstracta[g]
  BY <1>2, <1>5, SusColas
<1>7. /\ DuenioAbstracto' = [DuenioAbstracto EXCEPT ![f] = DuenioAbstracto[f]]
      /\ ColasAbstractas' =
           [ColasAbstractas EXCEPT ![f] = Append(ColasAbstractas[f], p)]
      /\ PosicionAbstracta' = [PosicionAbstracta EXCEPT ![f] = PosicionAbstracta[f]]
  <2>1. PICK c : c = Append(ColasAbstractas[f], p)
    OBVIOUS
  <2>2. PICK d, n : d = DuenioAbstracto[f] /\ n = PosicionAbstracta[f]
    OBVIOUS
  <2>3. \A g \in ARCHIVOS :
          /\ DuenioAbstracto'[g] = IF g = f THEN d ELSE DuenioAbstracto[g]
          /\ ColasAbstractas'[g] = IF g = f THEN c ELSE ColasAbstractas[g]
          /\ PosicionAbstracta'[g] = IF g = f THEN n ELSE PosicionAbstracta[g]
    BY <1>6, <2>1, <2>2
  <2>4. /\ DuenioAbstracto' = [DuenioAbstracto EXCEPT ![f] = d]
        /\ ColasAbstractas' = [ColasAbstractas EXCEPT ![f] = c]
        /\ PosicionAbstracta' = [PosicionAbstracta EXCEPT ![f] = n]
    BY <2>3, CambiaEnUno
  <2> QED
    BY <2>1, <2>2, <2>4
<1>8. DuenioAbstracto' = DuenioAbstracto /\ PosicionAbstracta' = PosicionAbstracta
  BY <1>7, SonFunciones DEF Funciones
<1> QED
  BY <1>3, <1>4, <1>7, <1>8, NoEsperaTurno DEF Turnos!Esperar

(* F_CLOSE by the owner hands the lock to the first of the queue, whose    *)
(* position is 0.                                                          *)
LEMMA CerrarSuelta ==
  ASSUME Todo, Todo', NEW p \in PROCESOS, NEW f \in ARCHIVOS, Cerrar(p, f),
         IndiceArchivo(p, f) # 0
  PROVE  Turnos!Soltar(p, f)
<1> DEFINE s == archivos_abiertos[p]
           i == IndiceArchivo(p, f)
<1>1. /\ RUNNING = p /\ UNCHANGED sin_cerrar
      /\ archivos_abiertos' = [archivos_abiertos EXCEPT ![p] = RemoveAt(s, i)]
  BY DEF Cerrar, Llamada
<1>2. s \in Abiertas /\ i \in 1..Len(s) /\ s[i].nombre = f
  BY IndiceArchivoEs DEF Todo, Comun, TablaTipos
<1> HIDE DEF s, i
<1>3. /\ archivos_abiertos'[p] = RemoveAt(s, i)
      /\ \A q \in PROCESOS : q # p => archivos_abiertos'[q] = archivos_abiertos[q]
  BY <1>1 DEF Todo, Comun, TablaTipos
<1>4. /\ TieneUnoMas(f, p) /\ f \in DOMAIN tabla_archivos \ sin_cerrar
      /\ DOMAIN tabla_archivos' \union {f} = DOMAIN tabla_archivos
      /\ \A o : \A g \in ARCHIVOS \ {f} : TieneUnoMas(g, o) => TieneUnoMas(g, o)'
      /\ \A g \in ARCHIVOS :
           ColaDe(g)' = IF g = f /\ ColaDe(f) # <<>> THEN Tail(ColaDe(f))
                                                    ELSE ColaDe(g)
  BY PasoCerrar DEF Todo, Cosas
<1>5. PICK o \in PROCESOS \union {NULO} :
        /\ o = Heredero(f) /\ o # p /\ TieneUnoMas(f, o)'
        /\ o \in PROCESOS <=> f \in DOMAIN tabla_archivos'
        /\ o # NULO => EnCola(o, f) = 1
  BY PasoCerrar DEF Todo
<1>6. BienAbstraido /\ BienAbstraido'
  BY QuienLoTiene, PTL
<1>7. DuenioAbstracto[f] = p
  BY <1>4, <1>6 DEF BienAbstraido, Pertenece
<1>8. DuenioAbstracto'[f] = o /\ PosicionAbstracta'[f] = 0
  <2>1. Pertenece(f, o)'
    BY <1>5, SupuestoRecursos DEF Pertenece
  <2>2. /\ DuenioAbstracto'[f] = o
        /\ PosicionAbstracta'[f] =
             IF o \in PROCESOS THEN Puntero(archivos_abiertos[o], f)' ELSE 0
    BY <1>6, <2>1 DEF BienAbstraido
  <2>3. ASSUME o \in PROCESOS PROVE Puntero(archivos_abiertos[o], f)' = 0
    <3>1. EnCola(o, f) = 1
      BY <1>5, <2>3, SupuestoRecursos
    <3>2. Cuantos(archivos_abiertos[o], f) = 1
      BY <1>4, <1>5, <2>3, <3>1 DEF TieneUnoMas
    <3>3. Puntero(archivos_abiertos[o], f) = 0
      BY <2>3, <3>1, <3>2 DEF Todo, DesdeCero
    <3> QED
      BY <1>3, <1>5, <2>3, <3>3, ListaPrima
  <2> QED
    BY <2>2, <2>3
<1>9. ASSUME NEW g \in ARCHIVOS \ {f}
      PROVE  /\ DuenioAbstracto'[g] = DuenioAbstracto[g]
             /\ PosicionAbstracta'[g] = PosicionAbstracta[g]
  <2>1. ASSUME NEW q \in PROCESOS, TieneUnoMas(g, q)
        PROVE  Puntero(archivos_abiertos'[q], g) = Puntero(archivos_abiertos[q], g)
    <3>1. CASE q = p
      <4>1. EnCola(p, g) \in Nat
        BY ColasTipo DEF Todo, Comun, DeRecursos, Cosas
      <4>2. Cuantos(s, g) # 0
        BY <2>1, <3>1, <4>1 DEF TieneUnoMas, s
      <4>3. Puntero(RemoveAt(s, i), g) = Puntero(s, g)
        BY <1>2, <4>2, PunteroRemoveAt
      <4> QED
        BY <1>3, <3>1, <4>3 DEF s
    <3>2. CASE q # p
      BY <1>3, <3>2
    <3> QED
      BY <3>1, <3>2
  <2> QED
    BY <1>1, <1>4, <2>1, SigueSuDuenio
<1>10. \A g \in ARCHIVOS :
         /\ DuenioAbstracto'[g] = IF g = f THEN o ELSE DuenioAbstracto[g]
         /\ ColasAbstractas'[g] =
              IF g = f THEN IF ColasAbstractas[f] = <<>> THEN ColasAbstractas[f]
                            ELSE Tail(ColasAbstractas[f])
              ELSE ColasAbstractas[g]
         /\ PosicionAbstracta'[g] = IF g = f THEN 0 ELSE PosicionAbstracta[g]
  BY <1>4, <1>8, <1>9, SusColas
<1>11. /\ DuenioAbstracto' = [DuenioAbstracto EXCEPT ![f] = o]
       /\ ColasAbstractas' = [ColasAbstractas EXCEPT ![f] =
             IF ColasAbstractas[f] = <<>> THEN ColasAbstractas[f]
             ELSE Tail(ColasAbstractas[f])]
       /\ PosicionAbstracta' = [PosicionAbstracta EXCEPT ![f] = 0]
  <2>1. PICK c : c = IF ColasAbstractas[f] = <<>> THEN ColasAbstractas[f]
                     ELSE Tail(ColasAbstractas[f])
    OBVIOUS
  <2>2. \A g \in ARCHIVOS :
          /\ DuenioAbstracto'[g] = IF g = f THEN o ELSE DuenioAbstracto[g]
          /\ ColasAbstractas'[g] = IF g = f THEN c ELSE ColasAbstractas[g]
          /\ PosicionAbstracta'[g] = IF g = f THEN 0 ELSE PosicionAbstracta[g]
    BY <1>10, <2>1
  <2>3. /\ DuenioAbstracto' = [DuenioAbstracto EXCEPT ![f] = o]
        /\ ColasAbstractas' = [ColasAbstractas EXCEPT ![f] = c]
        /\ PosicionAbstracta' = [PosicionAbstracta EXCEPT ![f] = 0]
    BY <2>2, CambiaEnUno
  <2> QED
    BY <2>1, <2>3
<1>12. o = IF ColasAbstractas[f] = <<>> THEN NULO ELSE Head(ColasAbstractas[f])
  BY <1>5, SusColas DEF Heredero
<1>13. ~Turnos!Esperando(p)
  BY <1>1, NoEsperaTurno DEF EnManos
<1> QED
  BY <1>7, <1>11, <1>12, <1>13 DEF Turnos!Soltar

(* F_SEEK by the owner moves the position of that file.                    *)
LEMMA CambiarPunteroMueve ==
  ASSUME Todo, Todo', NEW p \in PROCESOS, NEW f \in ARCHIVOS,
         NEW n \in POSICIONES, CambiarPuntero(p, f, n), IndiceArchivo(p, f) # 0
  PROVE  Turnos!Mover(p, f)
<1> DEFINE s == archivos_abiertos[p]
           t == Movido(s, f, n)
<1>1. /\ RUNNING = p /\ UNCHANGED <<tabla_archivos, sin_cerrar>>
      /\ IndiceArchivo(p, f) = PorNombre(s, f) /\ Cuantos(s, f) # 0
      /\ s \in Abiertas
  BY IndiceArchivoEs DEF CambiarPuntero, Llamada, Todo, Comun, TablaTipos
<1>2. archivos_abiertos' = [archivos_abiertos EXCEPT ![p] = t]
  <2> DEFINE i == IndiceArchivo(p, f)
  <2>1. archivos_abiertos' = [archivos_abiertos EXCEPT ![p] =
          IF i = 0 THEN s ELSE [s EXCEPT ![i].puntero = n]]
    BY DEF CambiarPuntero
  <2>2. i # 0 /\ i = PorNombre(s, f)
    BY <1>1
  <2> HIDE DEF i
  <2> QED
    BY <2>1, <2>2 DEF Movido
<1> HIDE DEF s
<1>3. /\ Puntero(t, f) = n
      /\ \A g : g # f /\ Cuantos(s, g) # 0 => Puntero(t, g) = Puntero(s, g)
  BY <1>1, PunteroMover
<1> HIDE DEF t
<1>4. /\ archivos_abiertos'[p] = t
      /\ \A q \in PROCESOS : q # p => archivos_abiertos'[q] = archivos_abiertos[q]
  BY <1>2 DEF Todo, Comun, TablaTipos
<1>5. p \in EnManos
  BY <1>1 DEF EnManos
<1>6. TieneUnoMas(f, p)
  BY <1>1, <1>5, QuienCorreEsDuenio DEF Todo, Comun, s
<1>7. /\ \A g \in ARCHIVOS : ColaDe(g)' = ColaDe(g)
      /\ \A o : \A g \in ARCHIVOS : TieneUnoMas(g, o)' <=> TieneUnoMas(g, o)
  <2>1. /\ \A q \in PROCESOS :
             Nombres(archivos_abiertos'[q]) = Nombres(archivos_abiertos[q])
        /\ \A g \in ARCHIVOS : ColaDe(g)' = ColaDe(g)
    BY PasoMover DEF Todo, Cosas
  <2> QED
    BY <1>1, <2>1, ArchivosIguales DEF Todo
<1>8. BienAbstraido /\ BienAbstraido'
  BY QuienLoTiene, PTL
<1>9. DuenioAbstracto[f] = p
  BY <1>6, <1>8 DEF BienAbstraido, Pertenece
<1>10. DuenioAbstracto'[f] = p /\ PosicionAbstracta'[f] = n
  <2>1. Pertenece(f, p)'
    BY <1>6, <1>7 DEF Pertenece
  <2>2. /\ DuenioAbstracto'[f] = p
        /\ PosicionAbstracta'[f] = Puntero(archivos_abiertos[p], f)'
    BY <1>8, <2>1 DEF BienAbstraido
  <2> QED
    BY <1>3, <1>4, <2>2, ListaPrima
<1>11. ASSUME NEW g \in ARCHIVOS \ {f}
       PROVE  /\ DuenioAbstracto'[g] = DuenioAbstracto[g]
              /\ PosicionAbstracta'[g] = PosicionAbstracta[g]
  <2>1. ASSUME NEW q \in PROCESOS, TieneUnoMas(g, q)
        PROVE  Puntero(archivos_abiertos'[q], g) = Puntero(archivos_abiertos[q], g)
    <3>1. CASE q = p
      <4>1. EnCola(p, g) \in Nat
        BY ColasTipo DEF Todo, Comun, DeRecursos, Cosas
      <4>2. Cuantos(s, g) # 0
        BY <2>1, <3>1, <4>1 DEF TieneUnoMas, s
      <4> QED
        BY <1>3, <1>4, <3>1, <4>2 DEF s
    <3>2. CASE q # p
      BY <1>4, <3>2
    <3> QED
      BY <3>1, <3>2
  <2> QED
    BY <1>1, <1>7, <2>1, SigueSuDuenio
<1>12. \A g \in ARCHIVOS :
         /\ DuenioAbstracto'[g] = IF g = f THEN p ELSE DuenioAbstracto[g]
         /\ ColasAbstractas'[g] = IF g = f THEN ColasAbstractas[f]
                                           ELSE ColasAbstractas[g]
         /\ PosicionAbstracta'[g] = IF g = f THEN n ELSE PosicionAbstracta[g]
  BY <1>7, <1>10, <1>11, SusColas
<1>13. /\ DuenioAbstracto' = [DuenioAbstracto EXCEPT ![f] = p]
       /\ ColasAbstractas' = [ColasAbstractas EXCEPT ![f] = ColasAbstractas[f]]
       /\ PosicionAbstracta' = [PosicionAbstracta EXCEPT ![f] = n]
  BY <1>12, CambiaEnUno
<1>14. DuenioAbstracto' = DuenioAbstracto /\ ColasAbstractas' = ColasAbstractas
  BY <1>9, <1>13, SonFunciones DEF Funciones
<1> QED
  BY <1>5, <1>9, <1>13, <1>14, NoEsperaTurno DEF Turnos!Mover

(* terminar_proceso leaves the files of the process without an owner.      *)
LEMMA FinAbandona ==
  ASSUME Todo, Todo', FinConArchivos
  PROVE  \E p \in PROCESOS : Turnos!Abandonar(p)
<1>1. /\ fin.pid \in PROCESOS /\ fin.pid \in EnManos
      /\ \A g \in ARCHIVOS : ColaDe(g)' = ColaDe(g)
      /\ UNCHANGED tabla_archivos
      /\ \A g \in ARCHIVOS, o \in PROCESOS \ {fin.pid} :
           TieneUnoMas(g, o) => TieneUnoMas(g, o)'
      /\ \A g \in ARCHIVOS :
           g \in sin_cerrar' <=>
             \/ g \in sin_cerrar
             \/ g \in DOMAIN tabla_archivos /\ TieneUnoMas(g, fin.pid)
  BY PasoFinConArchivos DEF Todo, Cosas
<1>2. PICK p \in PROCESOS : p = fin.pid
  BY <1>1
<1>3. \A q \in PROCESOS : q # p => archivos_abiertos'[q] = archivos_abiertos[q]
  BY <1>2 DEF FinConArchivos, Todo, Comun, TablaTipos
<1>4. BienAbstraido /\ BienAbstraido'
  BY QuienLoTiene, PTL
<1>5. ASSUME NEW g \in ARCHIVOS
      PROVE  /\ DuenioAbstracto'[g] = IF DuenioAbstracto[g] = p THEN DESCONOCIDO
                                      ELSE DuenioAbstracto[g]
             /\ PosicionAbstracta'[g] = IF DuenioAbstracto[g] = p THEN 0
                                        ELSE PosicionAbstracta[g]
  <2>1. PICK d : Pertenece(g, d) /\ DuenioAbstracto[g] = d
    BY <1>4 DEF BienAbstraido
  <2>2. CASE d = p
    <3>1. TieneUnoMas(g, p)
      BY <2>1, <2>2, SupuestoRecursos, SupuestoArchivos DEF Pertenece
    <3>2. Cuantos(archivos_abiertos[p], g) # 0
      <4>1. EnCola(p, g) \in Nat
        BY ColasTipo DEF Todo, Comun, DeRecursos, Cosas
      <4> QED
        BY <3>1, <4>1 DEF TieneUnoMas
    <3>3. g \in DOMAIN tabla_archivos
      BY <1>1, <1>2, <3>2, QuienCorreEsDuenio DEF Todo, Comun
    <3>4. g \in sin_cerrar'
      BY <1>1, <1>2, <3>1, <3>3
    <3>5. Pertenece(g, DESCONOCIDO)'
      BY <3>4 DEF Pertenece
    <3>6. DuenioAbstracto'[g] = DESCONOCIDO /\ PosicionAbstracta'[g] = 0
      BY <1>4, <3>5, SupuestoArchivos DEF BienAbstraido
    <3> QED
      BY <2>1, <2>2, <3>6
  <2>3. CASE d # p
    <3>1. ASSUME NEW o \in PROCESOS, TieneUnoMas(g, o) PROVE o # p
      <4>1. Pertenece(g, o)
        BY <3>1 DEF Pertenece
      <4> QED
        BY <1>4, <2>1, <2>3, <4>1 DEF BienAbstraido
    <3>2. \A o \in PROCESOS : TieneUnoMas(g, o) =>
            /\ TieneUnoMas(g, o)'
            /\ Puntero(archivos_abiertos'[o], g) = Puntero(archivos_abiertos[o], g)
      BY <1>1, <1>2, <1>3, <3>1
    <3>3. /\ DuenioAbstracto'[g] = DuenioAbstracto[g]
          /\ PosicionAbstracta'[g] = PosicionAbstracta[g]
      BY <1>1, <3>2, SigueSuDuenio
    <3> QED
      BY <2>1, <2>3, <3>3
  <2> QED
    BY <2>2, <2>3
<1>6. \A g \in ARCHIVOS : ColasAbstractas'[g] = ColasAbstractas[g]
  BY <1>1, SusColas
<1>7. Funciones /\ Funciones'
  BY SonFunciones, PTL
<1>8. /\ DuenioAbstracto' = [g \in ARCHIVOS |-> IF DuenioAbstracto[g] = p
                                 THEN DESCONOCIDO ELSE DuenioAbstracto[g]]
      /\ PosicionAbstracta' = [g \in ARCHIVOS |-> IF DuenioAbstracto[g] = p
                                   THEN 0 ELSE PosicionAbstracta[g]]
  BY <1>5, <1>7 DEF Funciones
<1>9. ColasAbstractas' = ColasAbstractas
  BY <1>6, <1>7 DEF Funciones
<1>10. ~Turnos!Esperando(p)
  BY <1>1, <1>2, NoEsperaTurno
<1> QED
  BY <1>8, <1>9, <1>10 DEF Turnos!Abandonar

(* The abstract state stays where the table and the lists stay.            *)
LEMMA NadaCambia ==
  ASSUME Todo, Todo', UNCHANGED archivosVars
  PROVE  UNCHANGED <<DuenioAbstracto, ColasAbstractas, PosicionAbstracta>>
<1>1. UNCHANGED <<tabla_archivos, archivos_abiertos, sin_cerrar>>
  BY DEF archivosVars
<1>2. \A g \in ARCHIVOS : ColaDe(g)' = ColaDe(g)
  BY <1>1, ColaDeArchivo, ColaDeArchivoPrima
<1>3. \A o : \A g \in ARCHIVOS : TieneUnoMas(g, o)' <=> TieneUnoMas(g, o)
  BY <1>1, <1>2, ArchivosIguales DEF Todo
<1>4. ASSUME NEW g \in ARCHIVOS
      PROVE  /\ DuenioAbstracto'[g] = DuenioAbstracto[g]
             /\ ColasAbstractas'[g] = ColasAbstractas[g]
             /\ PosicionAbstracta'[g] = PosicionAbstracta[g]
  <2>1. \A o \in PROCESOS : TieneUnoMas(g, o) =>
          /\ TieneUnoMas(g, o)'
          /\ Puntero(archivos_abiertos'[o], g) = Puntero(archivos_abiertos[o], g)
    BY <1>1, <1>3
  <2> QED
    BY <1>1, <1>2, <2>1, SigueSuDuenio, SusColas
<1>5. Funciones /\ Funciones'
  BY SonFunciones, PTL
<1> QED
  BY <1>4, <1>5 DEF Funciones

(* The table is empty at the beginning: nobody has any file.               *)
LEMMA InicioTurnos == InitTabla => Turnos!Init
<1> SUFFICES ASSUME InitTabla PROVE Turnos!Init
  OBVIOUS
<1>1. Todo
  BY TodoEsInductivo
<1>2. DOMAIN tabla_archivos = {}
  BY DEF InitTabla
<1>3. ASSUME NEW g \in ARCHIVOS
      PROVE  /\ DuenioAbstracto[g] = NULO /\ ColasAbstractas[g] = <<>>
             /\ PosicionAbstracta[g] = 0
  <2>1. Pertenece(g, NULO)
    BY <1>2 DEF Pertenece
  <2>2. DuenioAbstracto[g] = NULO /\ PosicionAbstracta[g] = 0
    BY <1>1, <2>1, QuienLoTiene, SupuestoRecursos DEF BienAbstraido
  <2>3. ColasAbstractas[g] = <<>>
    BY <1>2, SusColas, ColaDeArchivo
  <2> QED
    BY <2>2, <2>3
<1>4. Funciones
  BY SonFunciones
<1> QED
  BY <1>3, <1>4 DEF Funciones, Turnos!Init

(* Every step is one of the lock's, or none.                               *)
LEMMA PasoTurnos ==
  ASSUME Todo, Todo', [NextTabla]_varsTabla
  PROVE  [Turnos!Next]_Turnos!vars
<1>1. ASSUME UNCHANGED archivosVars PROVE [Turnos!Next]_Turnos!vars
  BY <1>1, NadaCambia DEF Turnos!vars
<1>2. CASE (Pasos /\ UNCHANGED archivosVars) \/ UNCHANGED varsTabla
  BY <1>1, <1>2 DEF varsTabla
<1>3. CASE FinConArchivos
  BY <1>3, FinAbandona DEF Turnos!Next
<1>4. ASSUME NEW p \in PROCESOS, NEW f \in ARCHIVOS,
             \/ AbrirLibre(p, f) \/ AbrirTomado(p, f) \/ Cerrar(p, f)
             \/ \E n \in POSICIONES : CambiarPuntero(p, f, n)
      PROVE  [Turnos!Next]_Turnos!vars
  <2>1. CASE AbrirLibre(p, f)
    BY <2>1, AbrirLibreToma DEF Turnos!Next
  <2>2. CASE AbrirTomado(p, f)
    BY <2>2, AbrirTomadoEspera DEF Turnos!Next
  <2>3. CASE Cerrar(p, f) /\ IndiceArchivo(p, f) = 0
    BY <1>1, <2>3, PasoCerrarAjeno DEF Todo
  <2>4. CASE Cerrar(p, f) /\ IndiceArchivo(p, f) # 0
    BY <2>4, CerrarSuelta DEF Turnos!Next
  <2>5. ASSUME NEW n \in POSICIONES, CambiarPuntero(p, f, n)
        PROVE  [Turnos!Next]_Turnos!vars
    <3>1. CASE IndiceArchivo(p, f) # 0
      BY <2>5, <3>1, CambiarPunteroMueve DEF Turnos!Next
    <3>2. CASE IndiceArchivo(p, f) = 0
      <4>1. archivos_abiertos' =
              [archivos_abiertos EXCEPT ![p] = archivos_abiertos[p]]
        BY <2>5, <3>2 DEF CambiarPuntero
      <4>2. UNCHANGED archivosVars
        BY <2>5, <4>1 DEF CambiarPuntero, archivosVars, Todo, Comun, TablaTipos
      <4> QED
        BY <1>1, <4>2
    <3> QED
      BY <3>1, <3>2
  <2> QED
    BY <1>4, <2>1, <2>2, <2>3, <2>4, <2>5
<1> QED
  BY <1>2, <1>3, <1>4 DEF NextTabla

(* core.c:405-516: the lists, the table and the hand-over implement a lock *)
(* per file granted in the order of the opens, with one position per file  *)
(* that starts at 0 for each owner.                                        *)
THEOREM ArchivosPorTurno == SpecTabla => ImplementaTurnos
<1>1. InitTabla => Turnos!Init
  BY InicioTurnos
<1>2. Todo /\ Todo' /\ [NextTabla]_varsTabla => [Turnos!Next]_Turnos!vars
  BY PasoTurnos
<1>3. InitTabla => Todo
  BY TodoEsInductivo
<1>4. Todo /\ [NextTabla]_varsTabla => Todo'
  BY TodoEsInductivo
<1>5. Todo /\ Todo' /\ [NextTabla]_varsTabla =>
        [UNCHANGED archivosVars \/ [Turnos!Next]_(Turnos!vars)]_varsTabla
  BY <1>2
<1> QED
  BY <1>1, <1>3, <1>4, <1>5, PTL DEF SpecTabla, ImplementaTurnos
=============================================================================
